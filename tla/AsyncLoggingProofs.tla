------------------------- MODULE AsyncLoggingProofs -------------------------
(***************************************************************************)
(* Proofs about AsyncLogging, for any number of messages, any capacity of  *)
(* a buffer and any limit from which on buffers are dropped.               *)
(***************************************************************************)
EXTENDS AsyncLogging, SequenceTheorems, FiniteSetTheorems, TLAPS

---------------------------------------------------------------------------
(* FlattenSeq.  What it computes is recursive: each lemma is an induction  *)
(* over the natural numbers in a set.                                      *)

\* Induction: a set with 0 and with the successor of each of its numbers holds
\* all natural numbers.
LEMMA NatSetInduction ==
    ASSUME NEW S, 0 \in S, \A n \in Nat : n \in S => n + 1 \in S
    PROVE  \A n \in Nat : n \in S
<1> DEFINE E == {n \in Nat : n \notin S}
<1> SUFFICES ASSUME E # {} PROVE FALSE
  OBVIOUS
<1>1. E \subseteq Nat
  OBVIOUS
<1>2. PICK x \in E : \A y \in E : ~(<<y, x>> \in OpToRel(<, Nat))
  BY <1>1, NatLessThanWellFounded, WFMin
<1>3. \A y \in E : ~(y < x)
  BY <1>1, <1>2 DEF OpToRel
<1>4. x # 0 /\ x \in Nat /\ x \notin S
  BY <1>2
<1>5. x - 1 \in Nat /\ x - 1 < x /\ x = (x - 1) + 1
  BY <1>4
<1>6. x - 1 \in S
  BY <1>3, <1>5
<1> QED BY <1>4, <1>5, <1>6

\* f is the function with which FlattenSeq computes, for the first n of s.
Flattens(f, s, n) ==
    f = [i \in 1..n |-> IF i = 1 THEN s[i] ELSE f[i - 1] \o s[i]]

\* There is such a function.
LEMMA FlattensExists ==
    ASSUME NEW s
    PROVE  \A n \in Nat : \E f : Flattens(f, s, n)
<1> DEFINE S == {n \in Nat : \E f : Flattens(f, s, n)}
<1>1. 0 \in S
  <2> DEFINE f == [i \in 1..0 |-> 0]
  <2>1. Flattens(f, s, 0)
    BY DEF Flattens
  <2> QED BY <2>1
<1>2. ASSUME NEW n \in Nat, n \in S PROVE n + 1 \in S
  <2>1. PICK f : Flattens(f, s, n)
    BY <1>2
  <2> DEFINE g == [i \in 1..(n + 1) |->
                     IF i \in 1..n THEN f[i]
                     ELSE IF i = 1 THEN s[i] ELSE f[n] \o s[i]]
  <2>2. ASSUME NEW i \in 1..(n + 1)
        PROVE  g[i] = IF i = 1 THEN s[i] ELSE g[i - 1] \o s[i]
    <3>1. CASE i \in 1..n
      <4>1. g[i] = f[i] /\ f[i] = IF i = 1 THEN s[i] ELSE f[i - 1] \o s[i]
        BY <2>1, <3>1 DEF Flattens
      <4>2. i # 1 => i - 1 \in 1..n /\ i - 1 \in 1..(n + 1)
        BY <3>1
      <4>3. i # 1 => g[i - 1] = f[i - 1]
        BY <4>2
      <4> QED BY <4>1, <4>3
    <3>2. CASE i \notin 1..n
      <4>1. i = n + 1
        BY <3>2
      <4>2. i # 1 => n \in 1..n /\ n \in 1..(n + 1) /\ i - 1 = n
        BY <4>1
      <4>3. i # 1 => g[i - 1] = f[n]
        BY <4>2
      <4> QED BY <3>2, <4>3
    <3> QED BY <3>1, <3>2
  <2>3. Flattens(g, s, n + 1)
    BY <2>2 DEF Flattens
  <2> QED BY <2>3
<1> HIDE DEF S
<1>3. \A n \in Nat : n \in S
  BY <1>1, <1>2, NatSetInduction
<1> QED BY <1>3 DEF S

\* FlattenSeq is the last value of such a function.
LEMMA FlattenSeqIs ==
    ASSUME NEW M, NEW s \in Seq(Seq(M)), Len(s) # 0
    PROVE  \E f : Flattens(f, s, Len(s)) /\ FlattenSeq(s) = f[Len(s)]
<1>1. Len(s) \in Nat
  BY LenProperties
<1>2. PICK f : Flattens(f, s, Len(s))
  BY <1>1, FlattensExists
<1> DEFINE g == CHOOSE h : h = [i \in 1..Len(s) |->
                                  IF i = 1 THEN s[i] ELSE h[i - 1] \o s[i]]
<1>3. g = [i \in 1..Len(s) |-> IF i = 1 THEN s[i] ELSE g[i - 1] \o s[i]]
  BY <1>2, Zenon DEF Flattens
<1>4. FlattenSeq(s) = g[Len(s)]
  BY Zenon DEF FlattenSeq
<1> HIDE DEF g
<1> QED BY <1>3, <1>4 DEF Flattens

\* The empty sequence of buffers.
LEMMA FlattenEmpty == FlattenSeq(<<>>) = <<>>
BY DEF FlattenSeq

\* One more buffer puts its messages at the end.
LEMMA FlattenAppend ==
    ASSUME NEW M, NEW s \in Seq(Seq(M)), NEW x \in Seq(M)
    PROVE  FlattenSeq(Append(s, x)) = FlattenSeq(s) \o x
<1> DEFINE t == Append(s, x)
<1>1. /\ t \in Seq(Seq(M)) /\ Len(t) = Len(s) + 1 /\ Len(s) \in Nat
      /\ \A i \in 1..Len(s) : t[i] = s[i]
      /\ t[Len(s) + 1] = x
  BY AppendProperties, LenProperties
<1> HIDE DEF t
<1>2. PICK g : Flattens(g, t, Len(t)) /\ FlattenSeq(t) = g[Len(t)]
  BY <1>1, FlattenSeqIs
<1>3. CASE Len(s) = 0
  <2>1. s = <<>> /\ g[1] = x
    BY <1>1, <1>2, <1>3, EmptySeq DEF Flattens
  <2> QED BY <1>1, <1>2, <1>3, <2>1, FlattenEmpty, ConcatEmptySeq DEF t
<1>4. CASE Len(s) # 0
  <2>1. PICK f : Flattens(f, s, Len(s)) /\ FlattenSeq(s) = f[Len(s)]
    BY <1>4, FlattenSeqIs
  <2> DEFINE S == {n \in Nat : n \in 1..Len(s) => g[n] = f[n]}
  <2>2. 0 \in S
    OBVIOUS
  <2>3. ASSUME NEW n \in Nat, n \in S PROVE n + 1 \in S
    <3> SUFFICES ASSUME n + 1 \in 1..Len(s) PROVE g[n + 1] = f[n + 1]
      OBVIOUS
    <3>1. n + 1 \in 1..Len(t) /\ t[n + 1] = s[n + 1] /\ (n + 1) - 1 = n
      BY <1>1
    <3>2. g[n + 1] = IF n + 1 = 1 THEN t[n + 1] ELSE g[n] \o t[n + 1]
      BY <1>2, <3>1 DEF Flattens
    <3>3. f[n + 1] = IF n + 1 = 1 THEN s[n + 1] ELSE f[n] \o s[n + 1]
      BY <2>1, <3>1 DEF Flattens
    <3>4. n + 1 # 1 => g[n] = f[n]
      BY <1>1, <2>3
    <3> QED BY <3>1, <3>2, <3>3, <3>4
  <2> HIDE DEF S
  <2>4. \A n \in Nat : n \in S
    BY <2>2, <2>3, NatSetInduction
  <2>5. g[Len(s)] = f[Len(s)]
    BY <1>1, <1>4, <2>4 DEF S
  <2>6. g[Len(s) + 1] = g[Len(s)] \o x
    <3>1. Len(s) + 1 \in 1..Len(t) /\ Len(s) + 1 # 1 /\ (Len(s) + 1) - 1 = Len(s)
      BY <1>1, <1>4
    <3> QED BY <1>1, <1>2, <3>1 DEF Flattens
  <2> QED BY <1>1, <1>2, <2>1, <2>5, <2>6 DEF t
<1> QED BY <1>3, <1>4

\* A sequence that is not empty, taken apart at its end.
LEMMA FrontAndLast ==
    ASSUME NEW S, NEW s \in Seq(S), NEW n \in Nat, Len(s) = n + 1
    PROVE  /\ SubSeq(s, 1, n) \in Seq(S) /\ Len(SubSeq(s, 1, n)) = n
           /\ \A i \in 1..n : SubSeq(s, 1, n)[i] = s[i]
           /\ s[n + 1] \in S
           /\ s = Append(SubSeq(s, 1, n), s[n + 1])
<1> DEFINE f == SubSeq(s, 1, n)
<1>1. \A i \in 1..n : s[i] \in S
  BY ElementOfSeq
<1>2. f \in Seq(S) /\ Len(f) = n /\ \A i \in 1..n : f[i] = s[i]
  BY <1>1, SubSeqProperties
<1>3. s[n + 1] \in S
  BY ElementOfSeq
<1> HIDE DEF f
<1>4. /\ Append(f, s[n + 1]) \in Seq(S) /\ Len(Append(f, s[n + 1])) = n + 1
      /\ \A i \in 1..n : Append(f, s[n + 1])[i] = s[i]
      /\ Append(f, s[n + 1])[n + 1] = s[n + 1]
  BY <1>2, <1>3, AppendProperties
<1>5. \A i \in 1..(n + 1) : Append(f, s[n + 1])[i] = s[i]
  BY <1>4
<1>6. s = Append(f, s[n + 1])
  BY <1>4, <1>5, SeqEqual
<1> QED BY <1>2, <1>3, <1>6 DEF f

\* What FlattenSeq returns is a sequence of messages.
LEMMA FlattenType ==
    ASSUME NEW M
    PROVE  \A s \in Seq(Seq(M)) : FlattenSeq(s) \in Seq(M)
<1> DEFINE S == {n \in Nat : \A s \in Seq(Seq(M)) :
                               Len(s) = n => FlattenSeq(s) \in Seq(M)}
<1>1. 0 \in S
  BY EmptySeq, FlattenEmpty
<1>2. ASSUME NEW n \in Nat, n \in S PROVE n + 1 \in S
  <2> SUFFICES ASSUME NEW s \in Seq(Seq(M)), Len(s) = n + 1
               PROVE  FlattenSeq(s) \in Seq(M)
    OBVIOUS
  <2>0. /\ SubSeq(s, 1, n) \in Seq(Seq(M)) /\ Len(SubSeq(s, 1, n)) = n
        /\ s[n + 1] \in Seq(M) /\ s = Append(SubSeq(s, 1, n), s[n + 1])
    BY FrontAndLast
  <2>1. PICK f \in Seq(Seq(M)), x \in Seq(M) : Len(f) = n /\ s = Append(f, x)
    BY <2>0, Zenon
  <2>2. FlattenSeq(s) = FlattenSeq(f) \o x
    BY <2>1, FlattenAppend
  <2>3. FlattenSeq(f) \in Seq(M)
    BY <1>2, <2>1
  <2> QED BY <2>2, <2>3, ConcatProperties
<1> HIDE DEF S
<1>3. \A n \in Nat : n \in S
  BY <1>1, <1>2, NatSetInduction
<1> QED BY <1>3, LenProperties DEF S

\* FlattenSeq of two sequences of buffers, one behind the other.
LEMMA FlattenConcat ==
    ASSUME NEW M, NEW a \in Seq(Seq(M))
    PROVE  \A b \in Seq(Seq(M)) :
              FlattenSeq(a \o b) = FlattenSeq(a) \o FlattenSeq(b)
<1> DEFINE S == {n \in Nat : \A b \in Seq(Seq(M)) : Len(b) = n =>
                    FlattenSeq(a \o b) = FlattenSeq(a) \o FlattenSeq(b)}
<1>0. FlattenSeq(a) \in Seq(M)
  BY FlattenType
<1>1. 0 \in S
  <2> SUFFICES ASSUME NEW b \in Seq(Seq(M)), Len(b) = 0
               PROVE  FlattenSeq(a \o b) = FlattenSeq(a) \o FlattenSeq(b)
    OBVIOUS
  <2>1. b = <<>>
    BY EmptySeq
  <2> QED BY <1>0, <2>1, ConcatEmptySeq, FlattenEmpty
<1>2. ASSUME NEW n \in Nat, n \in S PROVE n + 1 \in S
  <2> SUFFICES ASSUME NEW b \in Seq(Seq(M)), Len(b) = n + 1
               PROVE  FlattenSeq(a \o b) = FlattenSeq(a) \o FlattenSeq(b)
    OBVIOUS
  <2>0. /\ SubSeq(b, 1, n) \in Seq(Seq(M)) /\ Len(SubSeq(b, 1, n)) = n
        /\ b[n + 1] \in Seq(M) /\ b = Append(SubSeq(b, 1, n), b[n + 1])
    BY FrontAndLast
  <2>1. PICK f \in Seq(Seq(M)), x \in Seq(M) : Len(f) = n /\ b = Append(f, x)
    BY <2>0, Zenon
  <2>2. FlattenSeq(b) = FlattenSeq(f) \o x /\ FlattenSeq(f) \in Seq(M)
    BY <2>1, FlattenAppend, FlattenType
  <2>3. FlattenSeq(a \o f) = FlattenSeq(a) \o FlattenSeq(f)
    BY <1>2, <2>1
  <2>4. a \o f \in Seq(Seq(M)) /\ a \o b = Append(a \o f, x)
    <3>1. a \o f \in Seq(Seq(M)) /\ <<x>> \in Seq(Seq(M))
      BY ConcatProperties
    <3>2. /\ Append(f, x) = f \o <<x>>
          /\ Append(a \o f, x) = (a \o f) \o <<x>>
      BY <3>1, AppendIsConcat
    <3>3. (a \o f) \o <<x>> = a \o (f \o <<x>>)
      BY SMTT(60), <3>1, ConcatAssociative
    <3> QED BY <2>1, <3>1, <3>2, <3>3
  <2>5. FlattenSeq(a \o b) = FlattenSeq(a \o f) \o x
    BY <2>4, FlattenAppend
  <2>6. (FlattenSeq(a) \o FlattenSeq(f)) \o x = FlattenSeq(a) \o (FlattenSeq(f) \o x)
    BY SMTT(60), <1>0, <2>1, <2>2, ConcatAssociative
  <2> QED BY <2>2, <2>3, <2>5, <2>6
<1> HIDE DEF S
<1>3. \A n \in Nat : n \in S
  BY <1>1, <1>2, NatSetInduction
<1> QED BY <1>3, LenProperties DEF S

\* Full buffers hold as many messages as they are times their capacity.
LEMMA FlattenLen ==
    ASSUME NEW M, NEW c \in Nat
    PROVE  \A s \in Seq(Seq(M)) :
              (\A i \in 1..Len(s) : Len(s[i]) = c)
                => Len(FlattenSeq(s)) = Len(s) * c
<1> DEFINE S == {n \in Nat : \A s \in Seq(Seq(M)) :
                    /\ Len(s) = n
                    /\ \A i \in 1..Len(s) : Len(s[i]) = c
                    => Len(FlattenSeq(s)) = n * c}
<1>1. 0 \in S
  <2>1. 0 * c = 0
    OBVIOUS
  <2> QED BY <2>1, EmptySeq, FlattenEmpty
<1>2. ASSUME NEW n \in Nat, n \in S PROVE n + 1 \in S
  <2> SUFFICES ASSUME NEW s \in Seq(Seq(M)), Len(s) = n + 1,
                      \A i \in 1..Len(s) : Len(s[i]) = c
               PROVE  Len(FlattenSeq(s)) = (n + 1) * c
    OBVIOUS
  <2> DEFINE f == SubSeq(s, 1, n)
             x == s[n + 1]
  <2>1. /\ f \in Seq(Seq(M)) /\ Len(f) = n
        /\ \A i \in 1..n : f[i] = s[i]
        /\ x \in Seq(M) /\ s = Append(f, x)
    BY FrontAndLast
  <2>2. Len(x) = c
    OBVIOUS
  <2> HIDE DEF f, x
  <2>3. \A i \in 1..Len(f) : Len(f[i]) = c
    BY <2>1
  <2>4. Len(FlattenSeq(f)) = n * c
    BY <1>2, <2>1, <2>3
  <2>5. FlattenSeq(s) = FlattenSeq(f) \o x /\ FlattenSeq(f) \in Seq(M)
    BY <2>1, FlattenAppend, FlattenType
  <2>6. Len(FlattenSeq(s)) = Len(FlattenSeq(f)) + Len(x)
    BY <2>1, <2>5, ConcatProperties
  <2>7. n * c + c = (n + 1) * c
    OBVIOUS
  <2> QED BY <2>2, <2>4, <2>6, <2>7
<1> HIDE DEF S
<1>3. \A n \in Nat : n \in S
  BY <1>1, <1>2, NatSetInduction
<1> QED BY <1>3, LenProperties DEF S

---------------------------------------------------------------------------
(* Increasing sequences.                                                   *)

Increasing(s) == \A i, j \in 1..Len(s) : i < j => s[i] < s[j]

\* The elements of two sequences, one behind the other.
LEMMA ConcatSet ==
    ASSUME NEW M, NEW a \in Seq(M), NEW b \in Seq(M)
    PROVE  ToSet(a \o b) = ToSet(a) \cup ToSet(b)
<1>1. /\ a \o b \in Seq(M) /\ Len(a \o b) = Len(a) + Len(b)
      /\ Len(a) \in Nat /\ Len(b) \in Nat
      /\ \A i \in 1..(Len(a) + Len(b)) :
            (a \o b)[i] = IF i <= Len(a) THEN a[i] ELSE b[i - Len(a)]
  BY ConcatProperties, LenProperties
<1>2. /\ DOMAIN a = 1..Len(a) /\ DOMAIN b = 1..Len(b)
      /\ DOMAIN (a \o b) = 1..(Len(a) + Len(b))
  BY <1>1, LenProperties
<1>3. ASSUME NEW x \in ToSet(a \o b) PROVE x \in ToSet(a) \cup ToSet(b)
  <2>1. PICK i \in 1..(Len(a) + Len(b)) : x = (a \o b)[i]
    BY <1>2, <1>3 DEF ToSet
  <2>2. CASE i <= Len(a)
    BY <1>1, <1>2, <2>1, <2>2 DEF ToSet
  <2>3. CASE ~(i <= Len(a))
    <3>1. i - Len(a) \in 1..Len(b)
      BY <1>1, <2>3
    <3> QED BY <1>1, <1>2, <2>1, <2>3, <3>1 DEF ToSet
  <2> QED BY <2>2, <2>3
<1>4. ASSUME NEW x \in ToSet(a) PROVE x \in ToSet(a \o b)
  <2>1. PICK i \in 1..Len(a) : x = a[i]
    BY <1>2, <1>4 DEF ToSet
  <2>2. i \in 1..(Len(a) + Len(b)) /\ i <= Len(a)
    BY <1>1
  <2> QED BY <1>1, <1>2, <2>1, <2>2 DEF ToSet
<1>5. ASSUME NEW x \in ToSet(b) PROVE x \in ToSet(a \o b)
  <2>1. PICK i \in 1..Len(b) : x = b[i]
    BY <1>2, <1>5 DEF ToSet
  <2>2. /\ i + Len(a) \in 1..(Len(a) + Len(b)) /\ ~(i + Len(a) <= Len(a))
        /\ (i + Len(a)) - Len(a) = i
    BY <1>1
  <2> QED BY <1>1, <1>2, <2>1, <2>2 DEF ToSet
<1> QED BY <1>3, <1>4, <1>5

\* What makes a sequence of two parts increasing.
LEMMA ConcatIncreasing ==
    ASSUME NEW a \in Seq(Messages), NEW b \in Seq(Messages)
    PROVE  Increasing(a \o b) <=> /\ Increasing(a) /\ Increasing(b)
                                  /\ \A x \in ToSet(a), y \in ToSet(b) : x < y
<1> DEFINE c == a \o b
<1>1. /\ Len(c) = Len(a) + Len(b) /\ Len(a) \in Nat /\ Len(b) \in Nat
      /\ \A i \in 1..Len(c) : c[i] = IF i <= Len(a) THEN a[i] ELSE b[i - Len(a)]
  BY ConcatProperties, LenProperties
<1>2. DOMAIN a = 1..Len(a) /\ DOMAIN b = 1..Len(b)
  BY LenProperties
<1> HIDE DEF c
<1>3. \A i \in 1..Len(a) : i \in 1..Len(c) /\ c[i] = a[i]
  BY <1>1
<1>4. \A i \in 1..Len(b) : i + Len(a) \in 1..Len(c) /\ c[i + Len(a)] = b[i]
  <2> TAKE i \in 1..Len(b)
  <2>1. /\ i + Len(a) \in 1..Len(c) /\ ~(i + Len(a) <= Len(a))
        /\ (i + Len(a)) - Len(a) = i
    BY <1>1
  <2> QED BY <1>1, <2>1
<1>5. ASSUME Increasing(c) PROVE Increasing(a)
  BY <1>3, <1>5 DEF Increasing
<1>6. ASSUME Increasing(c) PROVE Increasing(b)
  <2> SUFFICES ASSUME NEW i \in 1..Len(b), NEW j \in 1..Len(b), i < j
               PROVE  b[i] < b[j]
    BY DEF Increasing
  <2>1. i + Len(a) < j + Len(a)
    BY <1>1
  <2> QED BY <1>4, <1>6, <2>1 DEF Increasing
<1>7. ASSUME Increasing(c), NEW x \in ToSet(a), NEW y \in ToSet(b) PROVE x < y
  <2>1. PICK i \in 1..Len(a) : x = a[i]
    BY <1>2 DEF ToSet
  <2>2. PICK j \in 1..Len(b) : y = b[j]
    BY <1>2 DEF ToSet
  <2>3. i < j + Len(a)
    BY <1>1
  <2> QED BY <1>3, <1>4, <1>7, <2>1, <2>2, <2>3 DEF Increasing
<1>8. ASSUME Increasing(a), Increasing(b),
             \A x \in ToSet(a), y \in ToSet(b) : x < y
      PROVE  Increasing(c)
  <2> SUFFICES ASSUME NEW i \in 1..Len(c), NEW j \in 1..Len(c), i < j
               PROVE  c[i] < c[j]
    BY DEF Increasing
  <2>1. CASE j <= Len(a)
    <3>1. i \in 1..Len(a) /\ j \in 1..Len(a)
      BY <1>1, <2>1
    <3> QED BY <1>3, <1>8, <3>1 DEF Increasing
  <2>2. CASE ~(j <= Len(a)) /\ i <= Len(a)
    <3>1. i \in 1..Len(a) /\ j - Len(a) \in 1..Len(b)
      BY <1>1, <2>2
    <3>2. a[i] \in ToSet(a) /\ b[j - Len(a)] \in ToSet(b)
      BY <1>2, <3>1 DEF ToSet
    <3>3. c[i] = a[i] /\ c[j] = b[j - Len(a)]
      BY <1>1, <2>2
    <3> QED BY <1>8, <3>2, <3>3
  <2>3. CASE ~(i <= Len(a))
    <3>1. /\ i - Len(a) \in 1..Len(b) /\ j - Len(a) \in 1..Len(b)
          /\ i - Len(a) < j - Len(a) /\ ~(j <= Len(a))
      BY <1>1, <2>3
    <3>2. c[i] = b[i - Len(a)] /\ c[j] = b[j - Len(a)]
      BY <1>1, <2>3, <3>1
    <3> QED BY <1>8, <3>1, <3>2 DEF Increasing
  <2> QED BY <2>1, <2>2, <2>3
<1> QED BY <1>5, <1>6, <1>7, <1>8 DEF c

\* The elements of a sequence.
LEMMA SetOfSeq ==
    ASSUME NEW M, NEW s \in Seq(M)
    PROVE  ToSet(s) \subseteq M
BY LenProperties, ElementOfSeq DEF ToSet

\* An increasing sequence with a part in the middle left out.
LEMMA LeaveOutMiddle ==
    ASSUME NEW p \in Seq(Messages), NEW r \in Seq(Messages), NEW q \in Seq(Messages),
           Increasing((p \o r) \o q)
    PROVE  /\ Increasing(p \o q)
           /\ ToSet(p \o q) = ToSet((p \o r) \o q) \ ToSet(r)
           /\ ToSet(p) \cap ToSet(r) = {}
<1>1. p \o r \in Seq(Messages)
  BY ConcatProperties
<1>2. /\ ToSet(p \o r) = ToSet(p) \cup ToSet(r)
      /\ ToSet((p \o r) \o q) = (ToSet(p) \cup ToSet(r)) \cup ToSet(q)
      /\ ToSet(p \o q) = ToSet(p) \cup ToSet(q)
  <2>1. ToSet(p \o r) = ToSet(p) \cup ToSet(r)
    BY ConcatSet
  <2>2. ToSet((p \o r) \o q) = ToSet(p \o r) \cup ToSet(q)
    <3> DEFINE pr == p \o r
    <3>1. pr \in Seq(Messages)
      BY <1>1
    <3> HIDE DEF pr
    <3>2. ToSet(pr \o q) = ToSet(pr) \cup ToSet(q)
      BY <3>1, ConcatSet
    <3> QED BY <3>2 DEF pr
  <2>3. ToSet(p \o q) = ToSet(p) \cup ToSet(q)
    BY ConcatSet
  <2> QED BY <2>1, <2>2, <2>3
<1>3. /\ Increasing(p \o r) /\ Increasing(q)
      /\ \A x \in ToSet(p \o r), y \in ToSet(q) : x < y
  BY <1>1, ConcatIncreasing
<1>4. /\ Increasing(p) /\ Increasing(r)
      /\ \A x \in ToSet(p), y \in ToSet(r) : x < y
  BY <1>3, ConcatIncreasing
<1>5. Increasing(p \o q)
  BY <1>2, <1>3, <1>4, ConcatIncreasing
<1>6. ToSet(p) \subseteq Nat /\ ToSet(q) \subseteq Nat /\ ToSet(r) \subseteq Nat
  <2>1. /\ ToSet(p) \subseteq Messages /\ ToSet(q) \subseteq Messages
        /\ ToSet(r) \subseteq Messages
    BY SetOfSeq
  <2> QED BY <2>1 DEF Messages
<1>7. ToSet(p) \cap ToSet(r) = {}
  BY <1>4, <1>6
<1>8. ToSet(q) \cap ToSet(r) = {}
  BY <1>2, <1>3, <1>6
<1> QED BY <1>2, <1>5, <1>7, <1>8

---------------------------------------------------------------------------
(* The invariant.                                                          *)

\* start() and run(): the latch keeps the owner back until run() has begun.
Handshake ==
    /\ back = "none" <=> owner = "new"
    /\ back = "begin" => owner = "latch" /\ running
    /\ count = 1 <=> back \in {"none", "begin"}

\* Where the four spare buffers are.
Spares ==
    /\ back # "writing" => new1 /\ new2 /\ toWrite = <<>>
    /\ back = "writing" => toWrite # <<>>
    /\ back = "writing" /\ ~new2 => Len(toWrite) >= 2
    /\ ~next => buffers # <<>>

\* A buffer leaves the front when it is full, but for the last one of a swap.
Full ==
    /\ \A i \in 1..Len(buffers) : Len(buffers[i]) = Capacity
    /\ \A i \in 1..(Len(toWrite) - 1) : Len(toWrite[i]) = Capacity

\* Only what was appended is dropped.
DropsKnown == dropped \subseteq 1..appended

IInv ==
    /\ TypeOK
    /\ ~aborted
    /\ Handshake
    /\ Spares
    /\ Full
    /\ DropsKnown
    /\ NothingLost

\* The parts of the type, with the bound on the buffers by their positions.
Typed ==
    /\ current \in Seq(Messages) /\ file \in Seq(Messages)
    /\ buffers \in Seq(Seq(Messages)) /\ toWrite \in Seq(Seq(Messages))
    /\ appended \in 0..MaxMessages /\ dropped \subseteq Messages
    /\ Len(current) <= Capacity
    /\ \A i \in 1..Len(buffers) : Len(buffers[i]) <= Capacity
    /\ \A i \in 1..Len(toWrite) : Len(toWrite[i]) <= Capacity

Flags ==
    /\ next \in BOOLEAN /\ new1 \in BOOLEAN /\ new2 \in BOOLEAN
    /\ running \in BOOLEAN /\ aborted \in BOOLEAN

Places ==
    /\ back \in BackPc /\ count \in {0, 1}
    /\ owner \in {"new", "latch", "started", "joining", "done"}

\* The bound on the buffers, by their positions.
LEMMA TypeParts == TypeOK <=> Typed /\ Flags /\ Places
<1>1. ASSUME buffers \in Seq(Seq(Messages)), toWrite \in Seq(Seq(Messages))
      PROVE  (\A b \in {current} \cup ToSet(buffers) \cup ToSet(toWrite) :
                 Len(b) <= Capacity)
             <=> /\ Len(current) <= Capacity
                 /\ \A i \in 1..Len(buffers) : Len(buffers[i]) <= Capacity
                 /\ \A i \in 1..Len(toWrite) : Len(toWrite[i]) <= Capacity
  <2>1. DOMAIN buffers = 1..Len(buffers) /\ DOMAIN toWrite = 1..Len(toWrite)
    BY <1>1, LenProperties
  <2> QED BY <2>1 DEF ToSet
<1>2. {next, new1, new2, running, aborted} \subseteq BOOLEAN <=> Flags
  BY DEF Flags
<1> QED BY <1>1, <1>2 DEF TypeOK, Typed, Places

\* What the constructor leaves.
LEMMA InitIInv == Init => IInv
<1> SUFFICES ASSUME Init PROVE IInv
  OBVIOUS
<1>1. /\ Len(current) = 0 /\ Len(buffers) = 0 /\ Len(toWrite) = 0
      /\ current \in Seq(Messages) /\ file \in Seq(Messages)
      /\ buffers \in Seq(Seq(Messages)) /\ toWrite \in Seq(Seq(Messages))
  BY EmptySeq DEF Init
<1>2. Typed
  BY <1>1, AsyncLoggingAssumption DEF Init, Typed
<1>3. Flags
  BY Zenon DEF Init, Flags
<1>4. Places
  BY DEF Init, Places, BackPc
<1>5. Handshake /\ Spares /\ Full /\ ~aborted
  BY <1>1 DEF Init, Handshake, Spares, Full
<1>6. NothingLost
  <2>1. Stream = <<>>
    BY FlattenEmpty, ConcatEmptySeq, EmptySeq DEF Init, Stream
  <2>2. Len(Stream) = 0 /\ ToSet(Stream) = {} /\ (1..appended) \ dropped = {}
    BY <2>1, EmptySeq DEF Init, ToSet
  <2> QED BY <2>2 DEF NothingLost
<1>7. DropsKnown
  BY DEF Init, DropsKnown
<1> QED BY <1>2, <1>3, <1>4, <1>5, <1>6, <1>7, TypeParts DEF IInv

\* What Kept returns.
LEMMA KeptType ==
    ASSUME NEW bs \in Seq(Seq(Messages))
    PROVE  /\ Kept(bs) \in Seq(Seq(Messages))
           /\ Len(bs) > DropLimit => Len(Kept(bs)) = 2
           /\ ~(Len(bs) > DropLimit) => Kept(bs) = bs
<1>1. CASE Len(bs) > DropLimit
  <2>1. Len(bs) \in Nat /\ 2 <= Len(bs)
    BY <1>1, AsyncLoggingAssumption, LenProperties
  <2>2. \A i \in 1..2 : bs[i] \in Seq(Messages)
    BY <2>1, ElementOfSeq
  <2>3. SubSeq(bs, 1, 2) \in Seq(Seq(Messages)) /\ Len(SubSeq(bs, 1, 2)) = 2
    BY <2>2, SubSeqProperties
  <2> QED BY <1>1, <2>3 DEF Kept
<1>2. CASE ~(Len(bs) > DropLimit)
  BY <1>2 DEF Kept
<1> QED BY <1>1, <1>2

\* A full front buffer is put behind the others, or the message into it.
LEMMA AppendTypes ==
    ASSUME IInv, AppendMessage
    PROVE  Typed' /\ Full' /\ Spares'
<1>0. Typed /\ Spares /\ Full
  BY TypeParts DEF IInv
<1>1. Capacity \in Nat \ {0} /\ MaxMessages \in Nat
  BY AsyncLoggingAssumption
<1> DEFINE m == appended + 1
<1>2. m \in Messages /\ appended' = m /\ m \in 0..MaxMessages
  BY <1>0, <1>1 DEF AppendMessage, Typed, Messages
<1>3. Len(current) \in Nat /\ Len(buffers) \in Nat
  BY <1>0, LenProperties DEF Typed
<1>4. UNCHANGED <<file, toWrite, dropped, new1, new2, back>>
  BY DEF AppendMessage, backVars
<1> HIDE DEF m
<1>5. CASE Len(current) < Capacity
  <2>1. current' = Append(current, m) /\ UNCHANGED <<buffers, next>>
    BY <1>5 DEF AppendMessage, m
  <2>2. current' \in Seq(Messages) /\ Len(current') = Len(current) + 1
    BY <1>0, <1>2, <2>1, AppendProperties DEF Typed
  <2>3. Len(current') <= Capacity
    BY <1>1, <1>3, <1>5, <2>2
  <2>4. Typed'
    BY <1>0, <1>2, <1>4, <2>1, <2>2, <2>3 DEF Typed
  <2> QED BY <1>0, <1>4, <2>1, <2>4 DEF Full, Spares
<1>6. CASE ~(Len(current) < Capacity)
  <2>1. buffers' = Append(buffers, current) /\ current' = <<m>> /\ next' = FALSE
    BY <1>6 DEF AppendMessage, m
  <2>2. Len(current) = Capacity /\ current \in Seq(Messages)
    BY <1>0, <1>1, <1>3, <1>6 DEF Typed
  <2>3. current' \in Seq(Messages) /\ Len(current') = 1
    BY <1>2, <2>1
  <2>4. /\ buffers' \in Seq(Seq(Messages)) /\ Len(buffers') = Len(buffers) + 1
        /\ \A i \in 1..Len(buffers) : buffers'[i] = buffers[i]
        /\ buffers'[Len(buffers) + 1] = current
    BY <1>0, <2>1, <2>2, AppendProperties DEF Typed
  <2>5. \A i \in 1..Len(buffers') : Len(buffers'[i]) = Capacity
    <3> TAKE i \in 1..Len(buffers')
    <3>1. i \in 1..Len(buffers) \/ i = Len(buffers) + 1
      BY <1>3, <2>4
    <3> QED BY <1>0, <2>2, <2>4, <3>1 DEF Full
  <2>6. buffers' # <<>>
    BY <1>3, <2>4, EmptySeq
  <2>7. Typed'
    <3>1. /\ \A i \in 1..Len(buffers') : Len(buffers'[i]) <= Capacity
          /\ Len(current') <= Capacity
      BY <1>1, <2>3, <2>5
    <3> QED BY <1>0, <1>2, <1>4, <2>3, <2>4, <3>1 DEF Typed
  <2>8. Full'
    BY <1>0, <1>4, <2>5 DEF Full
  <2>9. Spares'
    BY <1>0, <1>4, <2>6 DEF Spares
  <2> QED BY <2>7, <2>8, <2>9
<1> QED BY <1>5, <1>6

\* The swap takes the full buffers and the front one, and gives back one or two.
LEMMA SwapTypes ==
    ASSUME IInv, SwapBuffers, back # "writing",
           UNCHANGED <<file, appended, dropped>>
    PROVE  Typed' /\ Full' /\ Spares'
<1>0. Typed /\ Spares /\ Full
  BY TypeParts DEF IInv
<1>1. /\ toWrite' = Append(buffers, current) /\ buffers' = <<>>
      /\ current' = <<>> /\ back' = "writing"
      /\ next' = (next \/ new2) /\ new2' = (new2 /\ next)
  BY DEF SwapBuffers
<1>2. /\ toWrite' \in Seq(Seq(Messages)) /\ Len(toWrite') = Len(buffers) + 1
      /\ \A i \in 1..Len(buffers) : toWrite'[i] = buffers[i]
      /\ toWrite'[Len(buffers) + 1] = current
      /\ Len(buffers) \in Nat
  BY <1>0, <1>1, AppendProperties, LenProperties DEF Typed
<1>3. /\ Len(buffers') = 0 /\ Len(current') = 0
      /\ buffers' \in Seq(Seq(Messages)) /\ current' \in Seq(Messages)
  BY <1>1, EmptySeq
<1>4. Typed'
  <2>1. \A i \in 1..Len(toWrite') : Len(toWrite'[i]) <= Capacity
    <3> TAKE i \in 1..Len(toWrite')
    <3>1. i \in 1..Len(buffers) \/ i = Len(buffers) + 1
      BY <1>2
    <3> QED BY <1>0, <1>2, <3>1 DEF Typed
  <2>2. Len(current') <= Capacity /\ 1..Len(buffers') = {}
    BY <1>3, AsyncLoggingAssumption
  <2> QED BY <1>0, <1>2, <1>3, <2>1, <2>2 DEF Typed
<1>5. Full'
  <2>1. 1..Len(buffers') = {} /\ Len(toWrite') - 1 = Len(buffers)
    BY <1>2, <1>3
  <2> QED BY <1>0, <1>2, <2>1 DEF Full
<1>6. Spares'
  <2>1. toWrite' # <<>>
    BY <1>2, EmptySeq
  <2>2. next' /\ (~new2' => ~next)
    BY <1>0, <1>1 DEF Spares
  <2>3. ~next => Len(toWrite') >= 2
    <3>1. ~next => Len(buffers) # 0
      BY <1>0, EmptySeq DEF Spares, Typed
    <3> QED BY <1>2, <3>1
  <2> QED BY <1>1, <2>1, <2>2, <2>3 DEF Spares
<1> QED BY <1>4, <1>5, <1>6

\* The asserts of an iteration that ends: what is kept of the written buffers
\* is enough for those that were given away.
LEMMA EnoughBuffers ==
    ASSUME IInv, WriteBuffers
    PROVE  ~aborted' /\ aborted' \in BOOLEAN
<1>0. Typed /\ Spares /\ Flags
  BY TypeParts DEF IInv
<1> DEFINE Gone == {i \in {1, 2} : ~<<new1, new2>>[i]}
<1>1. /\ toWrite \in Seq(Seq(Messages)) /\ Len(toWrite) \in Nat
      /\ Len(toWrite) >= 1 /\ (~new2 => Len(toWrite) >= 2)
  <2>1. toWrite # <<>> /\ toWrite \in Seq(Seq(Messages))
    BY <1>0 DEF WriteBuffers, Spares, Typed
  <2>2. Len(toWrite) \in Nat /\ Len(toWrite) # 0
    BY <2>1, EmptySeq, LenProperties
  <2> QED BY <1>0, <2>1, <2>2 DEF WriteBuffers, Spares
<1>2. /\ Len(toWrite) > DropLimit => Len(Kept(toWrite)) = 2
      /\ ~(Len(toWrite) > DropLimit) => Kept(toWrite) = toWrite
  BY <1>1, KeptType
<1>3. /\ Len(Kept(toWrite)) \in Nat /\ Len(Kept(toWrite)) >= 1
      /\ ~new2 => Len(Kept(toWrite)) >= 2
  <2>1. CASE Len(toWrite) > DropLimit
    BY <1>2, <2>1
  <2>2. CASE ~(Len(toWrite) > DropLimit)
    BY <1>1, <1>2, <2>2
  <2> QED BY <2>1, <2>2
<1>4. /\ Gone \subseteq {1, 2}
      /\ new2 => Gone \subseteq {1}
  BY <1>0 DEF Flags
<1>5. /\ Cardinality({1}) = 1 /\ IsFiniteSet({1})
      /\ Cardinality({1, 2}) = 2 /\ IsFiniteSet({1, 2})
  <2>1. Cardinality({1}) = 1 /\ IsFiniteSet({1})
    BY FS_Singleton
  <2>2. /\ IsFiniteSet({1} \cup {2})
        /\ Cardinality({1} \cup {2}) = 1 + 1
    BY <2>1, FS_AddElement
  <2>3. {1} \cup {2} = {1, 2}
    OBVIOUS
  <2> QED BY <2>1, <2>2, <2>3
<1> HIDE DEF Gone
<1>6. /\ Cardinality(Gone) \in Nat /\ Cardinality(Gone) <= 2
      /\ new2 => Cardinality(Gone) <= 1
  <2>1. Cardinality(Gone) <= Cardinality({1, 2}) /\ IsFiniteSet(Gone)
    BY <1>4, <1>5, FS_Subset
  <2>2. new2 => Cardinality(Gone) <= Cardinality({1})
    BY <1>4, <1>5, FS_Subset
  <2>3. Cardinality(Gone) \in Nat
    BY <2>1, FS_CardinalityType
  <2> QED BY <1>5, <2>1, <2>2, <2>3
<1>7. ~(Cardinality(Gone) > Len(Kept(toWrite)))
  BY <1>0, <1>3, <1>6 DEF Flags
<1>8. aborted' = (Cardinality(Gone) > Len(Kept(toWrite)))
  BY DEF WriteBuffers, Gone
<1>9. aborted' \in BOOLEAN
  BY <1>8
<1> QED BY <1>7, <1>8, <1>9

\* Every step keeps the types, the asserts hold and the buffers go round.
LEMMA NextControl ==
    IInv /\ [Next]_vars => TypeOK' /\ ~aborted' /\ Handshake' /\ Spares' /\ Full'
<1> SUFFICES ASSUME IInv, [Next]_vars
             PROVE  TypeOK' /\ ~aborted' /\ Handshake' /\ Spares' /\ Full'
  OBVIOUS
<1> DEFINE Goal == /\ Typed' /\ Flags' /\ Places' /\ ~aborted'
                   /\ Handshake' /\ Spares' /\ Full'
<1> SUFFICES Goal
  <2>1. Typed' /\ Flags' /\ Places' => TypeOK'
    BY TypeParts, PTL
  <2> QED BY <2>1
<1>0. Typed /\ Flags /\ Places /\ ~aborted /\ Handshake /\ Spares /\ Full
  BY TypeParts DEF IInv
<1>1. ASSUME UNCHANGED <<current, buffers, toWrite, file, appended, dropped>>
      PROVE  Typed'
  BY <1>0, <1>1 DEF Typed
<1>2. ASSUME UNCHANGED <<buffers, toWrite>> PROVE Full'
  BY <1>0, <1>2 DEF Full
<1>3. CASE AppendMessage
  <2>1. Typed' /\ Full' /\ Spares'
    BY <1>3, AppendTypes
  <2>2. /\ UNCHANGED <<new1, new2, running, aborted, back, owner, count>>
        /\ next' = next \/ next' = FALSE
    BY <1>3 DEF AppendMessage, backVars
  <2>3. Flags' /\ ~aborted'
    BY <1>0, <2>2, Zenon DEF Flags
  <2>4. Places' /\ Handshake'
    BY <1>0, <2>2 DEF Places, Handshake
  <2> QED BY <2>1, <2>3, <2>4
<1>4. CASE Start
  <2>1. Typed' /\ Full'
    BY <1>1, <1>2, <1>4 DEF Start
  <2>2. Flags' /\ ~aborted'
    BY <1>0, <1>4, Zenon DEF Start, Flags
  <2>3. Places' /\ Handshake' /\ Spares'
    BY <1>0, <1>4 DEF Start, Places, Handshake, Spares, BackPc
  <2> QED BY <2>1, <2>2, <2>3
<1>5. CASE LatchWait \/ Joins
  <2>1. Typed' /\ Full'
    BY <1>1, <1>2, <1>5 DEF LatchWait, Joins, backVars
  <2>2. UNCHANGED <<next, new1, new2, running, aborted>>
    BY <1>5 DEF LatchWait, Joins, backVars
  <2>3. Flags' /\ ~aborted'
    BY <1>0, <2>2, Zenon DEF Flags
  <2>4. Places' /\ Handshake' /\ Spares'
    BY <1>0, <1>5 DEF LatchWait, Joins, backVars, Places, Handshake, Spares
  <2> QED BY <2>1, <2>3, <2>4
<1>6. CASE Stop
  <2>1. Typed' /\ Full'
    BY <1>1, <1>2, <1>6 DEF Stop, backVars
  <2>2. Flags' /\ ~aborted'
    BY <1>0, <1>6, Zenon DEF Stop, backVars, Flags
  <2>3. Places' /\ Handshake' /\ Spares'
    BY <1>0, <1>6 DEF Stop, backVars, Places, Handshake, Spares
  <2> QED BY <2>1, <2>2, <2>3
<1>7. CASE BeginRun
  <2>1. Typed' /\ Full'
    BY <1>1, <1>2, <1>7 DEF BeginRun
  <2>2. running /\ aborted' = ~running
    BY <1>0, <1>7 DEF BeginRun, Handshake
  <2>3. Flags' /\ ~aborted'
    BY <1>0, <1>7, <2>2, Zenon DEF BeginRun, Flags
  <2>4. Places' /\ Handshake' /\ Spares'
    BY <1>0, <1>7 DEF BeginRun, Places, Handshake, Spares, BackPc
  <2> QED BY <2>1, <2>3, <2>4
<1>8. CASE CheckRunning
  <2>1. Typed' /\ Full'
    BY <1>1, <1>2, <1>8 DEF CheckRunning
  <2>2. new1 /\ new2 /\ toWrite = <<>>
    BY <1>0, <1>8 DEF CheckRunning, Spares
  <2>3. ~aborted' /\ aborted' \in BOOLEAN
    BY <1>8, <2>2, Zenon DEF CheckRunning
  <2>4. Flags'
    BY <1>0, <1>8, <2>3, Zenon DEF CheckRunning, Flags
  <2>5. back' \in {"lock", "ended"}
    BY <1>8 DEF CheckRunning
  <2>6. Places' /\ Handshake' /\ Spares'
    BY <1>0, <1>8, <2>2, <2>5 DEF CheckRunning, Places, Handshake, Spares, BackPc
  <2> QED BY <2>1, <2>3, <2>4, <2>6
<1>9. ASSUME SwapBuffers, back \in {"lock", "waiting"},
             UNCHANGED <<running, owner, count, file, appended, dropped, aborted>>
      PROVE  Goal
  <2>1. Typed' /\ Full' /\ Spares'
    BY <1>9, SwapTypes
  <2>2. next' \in BOOLEAN /\ new1' \in BOOLEAN /\ new2' \in BOOLEAN
    BY <1>9, Zenon DEF SwapBuffers
  <2>3. Flags' /\ ~aborted'
    BY <1>0, <1>9, <2>2, Zenon DEF Flags
  <2>4. Places' /\ Handshake'
    BY <1>0, <1>9 DEF SwapBuffers, Places, Handshake, BackPc
  <2> QED BY <2>1, <2>3, <2>4
<1>10. CASE Lock
  <2>1. CASE back' = "waiting" /\ UNCHANGED <<current, next, buffers, new1, new2, toWrite>>
    <3>1. Typed' /\ Full'
      BY <1>1, <1>2, <1>10, <2>1 DEF Lock
    <3>2. Flags' /\ ~aborted'
      BY <1>0, <1>10, <2>1, Zenon DEF Lock, Flags
    <3>3. Places' /\ Handshake' /\ Spares'
      BY <1>0, <1>10, <2>1 DEF Lock, Places, Handshake, Spares, BackPc
    <3> QED BY <3>1, <3>2, <3>3
  <2>2. CASE SwapBuffers
    BY <1>9, <1>10, <2>2 DEF Lock
  <2> QED BY <1>10, <2>1, <2>2 DEF Lock
<1>11. CASE WakeUp
  BY <1>9, <1>11 DEF WakeUp
<1>12. CASE WriteBuffers
  <2>1. ~aborted' /\ aborted' \in BOOLEAN
    BY <1>12, EnoughBuffers
  <2>2. Flags'
    BY <1>0, <1>12, <2>1, Zenon DEF WriteBuffers, Flags
  <2>3. Places' /\ Handshake' /\ Spares'
    BY <1>0, <1>12 DEF WriteBuffers, Places, Handshake, Spares, BackPc
  <2>4. Len(toWrite') = 0 /\ toWrite' \in Seq(Seq(Messages))
    BY <1>12, EmptySeq DEF WriteBuffers
  <2>5. Full'
    BY <1>0, <1>12, <2>4 DEF WriteBuffers, Full
  <2>6. /\ FlattenSeq(Kept(toWrite)) \in Seq(Messages)
        /\ FlattenSeq(toWrite) \in Seq(Messages)
    BY <1>0, KeptType, FlattenType DEF Typed
  <2>7. file' \in Seq(Messages) /\ dropped' \subseteq Messages
    <3>1. file' = file \o FlattenSeq(Kept(toWrite))
      BY <1>12 DEF WriteBuffers
    <3>2. ToSet(FlattenSeq(toWrite)) \subseteq Messages
      BY <2>6, SetOfSeq
    <3>3. dropped' \subseteq Messages
      BY <1>0, <1>12, <3>2 DEF WriteBuffers, Typed
    <3>4. file \in Seq(Messages)
      BY <1>0 DEF Typed
    <3> QED BY <2>6, <3>1, <3>3, <3>4, ConcatProperties
  <2>8. Typed'
    BY <1>0, <1>12, <2>4, <2>7 DEF WriteBuffers, Typed
  <2> QED BY <2>1, <2>2, <2>3, <2>5, <2>8
<1>13. CASE UNCHANGED vars
  <2>1. Typed' /\ Full'
    BY <1>1, <1>2, <1>13 DEF vars
  <2>2. Flags' /\ ~aborted'
    BY <1>0, <1>13, Zenon DEF vars, Flags
  <2>3. Places' /\ Handshake' /\ Spares'
    BY <1>0, <1>13 DEF vars, Places, Handshake, Spares
  <2> QED BY <2>1, <2>2, <2>3
<1> QED BY <1>3, <1>4, <1>5, <1>6, <1>7, <1>8, <1>9, <1>10, <1>11, <1>12, <1>13
        DEF Next, BackStep

\* The parts of the stream are sequences of messages.
LEMMA StreamParts ==
    ASSUME TypeOK
    PROVE  /\ file \in Seq(Messages) /\ current \in Seq(Messages)
           /\ FlattenSeq(toWrite) \in Seq(Messages)
           /\ FlattenSeq(buffers) \in Seq(Messages)
           /\ Stream \in Seq(Messages)
<1>1. /\ file \in Seq(Messages) /\ current \in Seq(Messages)
      /\ FlattenSeq(toWrite) \in Seq(Messages)
      /\ FlattenSeq(buffers) \in Seq(Messages)
  BY FlattenType DEF TypeOK
<1> QED BY <1>1, ConcatProperties DEF Stream

\* append() puts its message at the end of the stream, in both of its ways.
LEMMA AppendedLast ==
    ASSUME IInv, AppendMessage
    PROVE  Stream' = Stream \o <<appended + 1>>
<1> DEFINE m == <<appended + 1>>
           p == file \o FlattenSeq(toWrite)
           b == FlattenSeq(buffers)
<1>0. TypeOK /\ Typed
  BY TypeParts DEF IInv
<1>1. /\ file' = file /\ toWrite' = toWrite
      /\ m \in Seq(Messages) /\ appended + 1 \in Messages
  <2>1. appended + 1 \in Messages
    BY <1>0, AsyncLoggingAssumption DEF AppendMessage, Messages, Typed
  <2> QED BY <2>1 DEF AppendMessage, backVars
<1>2. p \in Seq(Messages) /\ b \in Seq(Messages) /\ current \in Seq(Messages)
  <2>1. /\ file \in Seq(Messages) /\ FlattenSeq(toWrite) \in Seq(Messages)
        /\ b \in Seq(Messages) /\ current \in Seq(Messages)
    BY <1>0, StreamParts
  <2> QED BY <2>1, ConcatProperties
<1>3. Stream = (p \o b) \o current
  BY DEF Stream
<1>4. p \o b \in Seq(Messages)
  BY <1>2, ConcatProperties
<1>5. CASE Len(current) < Capacity
  <2>1. current' = Append(current, appended + 1) /\ buffers' = buffers
    BY <1>5 DEF AppendMessage
  <2>2. Stream' = (p \o b) \o current'
    BY <1>1, <2>1 DEF Stream
  <2>3. current' = current \o m
    BY <1>1, <1>2, <2>1, AppendIsConcat
  <2> HIDE DEF m, p, b
  <2> QED BY SMTT(60), <1>1, <1>2, <1>3, <1>4, <2>2, <2>3, ConcatAssociative DEF m
<1>6. CASE ~(Len(current) < Capacity)
  <2>1. buffers' = Append(buffers, current) /\ current' = m
    BY <1>6 DEF AppendMessage
  <2>2. FlattenSeq(buffers') = b \o current
    BY <1>0, <2>1, FlattenAppend DEF Typed
  <2>3. Stream' = (p \o FlattenSeq(buffers')) \o m
    BY <1>1, <2>1 DEF Stream
  <2>4. (p \o b) \o current = p \o (b \o current)
    <3> HIDE DEF p, b
    <3> QED BY <1>2, ConcatAssociative
  <2> QED BY <1>3, <2>2, <2>3, <2>4
<1> QED BY <1>5, <1>6

\* The swap leaves the stream as it is: the full buffers and then the front one.
LEMMA SwapKeepsStream ==
    ASSUME IInv, SwapBuffers, back # "writing", file' = file
    PROVE  Stream' = Stream
<1> DEFINE b == FlattenSeq(buffers)
<1>0. TypeOK /\ Typed /\ Spares
  BY TypeParts DEF IInv
<1>1. /\ toWrite' = Append(buffers, current) /\ buffers' = <<>>
      /\ current' = <<>> /\ toWrite = <<>>
  BY <1>0 DEF SwapBuffers, Spares
<1>2. file \in Seq(Messages) /\ b \in Seq(Messages) /\ current \in Seq(Messages)
  BY <1>0, StreamParts
<1>3. FlattenSeq(toWrite') = b \o current
  BY <1>0, <1>1, FlattenAppend DEF Typed
<1>4. FlattenSeq(toWrite) = <<>> /\ FlattenSeq(buffers') = <<>>
  BY <1>1, FlattenEmpty
<1>5. Stream = ((file \o <<>>) \o b) \o current
  BY <1>4 DEF Stream
<1>6. Stream' = ((file \o (b \o current)) \o <<>>) \o <<>>
  BY <1>1, <1>3, <1>4 DEF Stream
<1> HIDE DEF b
<1>7. file \o (b \o current) \in Seq(Messages) /\ b \o current \in Seq(Messages)
  BY <1>2, ConcatProperties
<1>8. Stream' = file \o (b \o current)
  BY <1>6, <1>7, ConcatEmptySeq
<1>9. Stream = (file \o b) \o current
  BY <1>2, <1>5, ConcatEmptySeq
<1> QED BY <1>2, <1>8, <1>9, ConcatAssociative

\* The buffers that are kept and those that are not, one behind the other.
LEMMA KeptAndRest ==
    ASSUME NEW bs \in Seq(Seq(Messages))
    PROVE  \E r \in Seq(Messages) :
              FlattenSeq(bs) = FlattenSeq(Kept(bs)) \o r
<1>1. CASE Len(bs) > DropLimit
  <2> DEFINE k == SubSeq(bs, 1, 2)
             r == SubSeq(bs, 2 + 1, Len(bs))
  <2>1. Len(bs) \in Nat /\ 2 <= Len(bs)
    BY <1>1, AsyncLoggingAssumption, LenProperties
  <2>2. k \o r = bs
    <3>1. /\ 1 \in 1..(Len(bs) + 1) /\ 2 \in (1 - 1)..Len(bs)
          /\ Len(bs) \in 2..Len(bs)
      BY <2>1
    <3>2. k \o r = SubSeq(bs, 1, Len(bs))
      BY <3>1, ConcatAdjacentSubSeq
    <3> QED BY <3>2, SubSeqFull
  <2>3. k \in Seq(Seq(Messages)) /\ Kept(bs) = k
    BY <1>1, KeptType DEF Kept
  <2>4. r \in Seq(Seq(Messages))
    <3>1. \A i \in (2 + 1)..Len(bs) : bs[i] \in Seq(Messages)
      BY <2>1, ElementOfSeq
    <3> QED BY <2>1, <3>1, SubSeqProperties
  <2> HIDE DEF k, r
  <2>5. FlattenSeq(bs) = FlattenSeq(k) \o FlattenSeq(r)
    BY <2>2, <2>3, <2>4, FlattenConcat
  <2>6. FlattenSeq(r) \in Seq(Messages)
    BY <2>4, FlattenType
  <2> QED BY <2>3, <2>5, <2>6
<1>2. CASE ~(Len(bs) > DropLimit)
  <2>1. FlattenSeq(bs) \in Seq(Messages) /\ Kept(bs) = bs
    BY <1>2, FlattenType, KeptType
  <2>2. FlattenSeq(bs) = FlattenSeq(bs) \o <<>> /\ <<>> \in Seq(Messages)
    BY <2>1, ConcatEmptySeq
  <2> QED BY <2>1, <2>2
<1> QED BY <1>1, <1>2

\* Writing moves what is kept to the file; what is not leaves the stream and is
\* dropped.
LEMMA WriteKeepsRest ==
    ASSUME IInv, WriteBuffers
    PROVE  NothingLost' /\ DropsKnown'
<1> DEFINE k == FlattenSeq(Kept(toWrite))
           b == FlattenSeq(buffers)
           p == file \o k
           q == b \o current
<1>0. TypeOK /\ Typed /\ NothingLost /\ DropsKnown
  BY TypeParts DEF IInv
<1>1. PICK r \in Seq(Messages) : FlattenSeq(toWrite) = k \o r
  BY <1>0, KeptAndRest DEF Typed
<1>2. /\ file \in Seq(Messages) /\ b \in Seq(Messages) /\ current \in Seq(Messages)
      /\ k \in Seq(Messages) /\ r \in Seq(Messages)
  <2>1. k \in Seq(Messages)
    BY <1>0, KeptType, FlattenType DEF Typed
  <2> QED BY <1>0, <1>1, <2>1, StreamParts
<1>3. /\ file' = p /\ toWrite' = <<>> /\ buffers' = buffers /\ current' = current
      /\ appended' = appended
      /\ dropped' = dropped \cup (ToSet(FlattenSeq(toWrite)) \ ToSet(k))
  BY DEF WriteBuffers
<1>4. /\ Stream = ((file \o (k \o r)) \o b) \o current
      /\ Stream' = ((p \o <<>>) \o b) \o current
  BY <1>1, <1>3, FlattenEmpty DEF Stream
<1> HIDE DEF k, b
<1>5. p \in Seq(Messages) /\ q \in Seq(Messages) /\ p \o r \in Seq(Messages)
  BY <1>2, ConcatProperties
<1>6. Stream = (p \o r) \o q
  <2>1. file \o (k \o r) = p \o r
    BY SMTT(60), <1>2, ConcatAssociative
  <2> HIDE DEF p
  <2> DEFINE pr == p \o r
  <2>2. pr \in Seq(Messages)
    BY <1>5
  <2>3. (pr \o b) \o current = pr \o (b \o current)
    <3> HIDE DEF pr
    <3> QED BY SMTT(60), <1>2, <2>2, ConcatAssociative
  <2> QED BY <1>4, <2>1, <2>3
<1>7. Stream' = p \o q
  <2> HIDE DEF p
  <2>1. p \o <<>> = p
    BY <1>5, ConcatEmptySeq
  <2>2. (p \o b) \o current = p \o (b \o current)
    BY SMTT(60), <1>2, <1>5, ConcatAssociative
  <2> QED BY <1>4, <2>1, <2>2
<1>8. ToSet(Stream) = (1..appended) \ dropped /\ Increasing(Stream)
  BY <1>0 DEF NothingLost, Increasing
<1>9. ToSet(k \o r) \ ToSet(k) = ToSet(r) \ ToSet(k)
  <2>1. ToSet(k \o r) = ToSet(k) \cup ToSet(r)
    BY <1>2, ConcatSet
  <2> QED BY <2>1
<1>10. ToSet(k) \subseteq ToSet(p)
  <2>1. ToSet(p) = ToSet(file) \cup ToSet(k)
    BY <1>2, ConcatSet
  <2> QED BY <2>1
<1> HIDE DEF p, q
<1>11. /\ Increasing(p \o q)
       /\ ToSet(p \o q) = ToSet((p \o r) \o q) \ ToSet(r)
       /\ ToSet(p) \cap ToSet(r) = {}
  BY <1>2, <1>5, <1>6, <1>8, LeaveOutMiddle
<1>12. dropped' = dropped \cup ToSet(r)
  BY <1>1, <1>3, <1>9, <1>10, <1>11
<1>13. ToSet(Stream') = (1..appended') \ dropped'
  BY <1>3, <1>6, <1>7, <1>8, <1>11, <1>12
<1>14. DropsKnown'
  <2>1. ToSet(r) \subseteq ToSet(p \o r)
    <3>1. ToSet(p \o r) = ToSet(p) \cup ToSet(r)
      BY <1>2, <1>5, ConcatSet
    <3> QED BY <3>1
  <2>2. ToSet(p \o r) \subseteq ToSet(Stream)
    <3>1. ToSet((p \o r) \o q) = ToSet(p \o r) \cup ToSet(q)
      <4> DEFINE pr == p \o r
      <4>1. pr \in Seq(Messages) /\ q \in Seq(Messages)
        BY <1>5
      <4> HIDE DEF pr, q
      <4>2. ToSet(pr \o q) = ToSet(pr) \cup ToSet(q)
        BY <4>1, ConcatSet
      <4> QED BY <4>2 DEF pr
    <3> QED BY <1>6, <3>1
  <2> QED BY <1>0, <1>3, <1>8, <1>12, <2>1, <2>2 DEF DropsKnown
<1> QED BY <1>7, <1>11, <1>13, <1>14 DEF NothingLost, Increasing

\* Every step keeps the messages that were not dropped, in order.
LEMMA NextNothingLost == IInv /\ [Next]_vars => NothingLost' /\ DropsKnown'
<1> SUFFICES ASSUME IInv, [Next]_vars PROVE NothingLost' /\ DropsKnown'
  OBVIOUS
<1>0. TypeOK /\ Typed /\ NothingLost /\ DropsKnown /\ Spares
  BY TypeParts DEF IInv
<1>1. ASSUME Stream' = Stream, appended' = appended, dropped' = dropped
      PROVE  NothingLost' /\ DropsKnown'
  BY <1>0, <1>1 DEF NothingLost, DropsKnown
<1>2. ASSUME UNCHANGED <<file, toWrite, buffers, current, appended, dropped>>
      PROVE  NothingLost' /\ DropsKnown'
  BY <1>1, <1>2 DEF Stream
<1>3. CASE AppendMessage
  <2> DEFINE m == <<appended + 1>>
  <2>1. /\ Stream' = Stream \o m /\ appended' = appended + 1
        /\ Stream \in Seq(Messages)
    BY <1>0, <1>3, AppendedLast, StreamParts DEF AppendMessage
  <2>2. dropped' = dropped /\ appended \in Nat /\ appended + 1 \in Messages
    BY <1>0, <1>3, AsyncLoggingAssumption
    DEF AppendMessage, backVars, Typed, Messages
  <2>3. /\ m \in Seq(Messages) /\ Len(m) = 1 /\ m[1] = appended + 1
        /\ DOMAIN m = {1}
    BY <2>2
  <2>4. ToSet(m) = {appended + 1} /\ Increasing(m)
    BY <2>3 DEF ToSet, Increasing
  <2>5. ToSet(Stream) = (1..appended) \ dropped /\ Increasing(Stream)
    BY <1>0 DEF NothingLost, Increasing
  <2> HIDE DEF m, Stream
  <2>6. Increasing(Stream \o m)
    <3>1. \A x \in ToSet(Stream), y \in ToSet(m) : x < y
      BY <2>2, <2>4, <2>5
    <3> QED BY <2>1, <2>3, <2>4, <2>5, <3>1, ConcatIncreasing
  <2>7. ToSet(Stream \o m) = ToSet(Stream) \cup {appended + 1}
    BY <2>1, <2>3, <2>4, ConcatSet
  <2>8. ((1..appended) \ dropped) \cup {appended + 1} = (1..(appended + 1)) \ dropped
    BY <1>0, <2>2 DEF DropsKnown
  <2>9. DropsKnown'
    BY <1>0, <2>1, <2>2 DEF DropsKnown
  <2> QED BY <2>1, <2>2, <2>5, <2>6, <2>7, <2>8, <2>9 DEF NothingLost, Increasing
<1>4. CASE Start \/ LatchWait \/ Joins \/ Stop
  BY <1>2, <1>4 DEF Start, LatchWait, Joins, Stop, backVars
<1>5. CASE BeginRun \/ CheckRunning
  BY <1>2, <1>5 DEF BeginRun, CheckRunning
<1>6. ASSUME SwapBuffers, back \in {"lock", "waiting"},
             UNCHANGED <<file, appended, dropped>>
      PROVE  NothingLost' /\ DropsKnown'
  BY <1>1, <1>6, SwapKeepsStream
<1>7. CASE Lock
  BY <1>2, <1>6, <1>7 DEF Lock
<1>8. CASE WakeUp
  BY <1>6, <1>8 DEF WakeUp
<1>9. CASE WriteBuffers
  BY <1>9, WriteKeepsRest
<1>10. CASE UNCHANGED vars
  BY <1>2, <1>10 DEF vars
<1> QED BY <1>3, <1>4, <1>5, <1>7, <1>8, <1>9, <1>10 DEF Next, BackStep

---------------------------------------------------------------------------
(* The invariant and what follows from it.                                 *)

\* The invariant holds in every reachable state.
LEMMA SpecIInv == Spec => []IInv
<1>1. IInv /\ [Next]_vars => IInv'
  BY NextControl, NextNothingLost DEF IInv
<1> QED BY <1>1, InitIInv, PTL DEF Spec

(***************************************************************************)
(* The asserts of run() never fail, however the swaps fall: both fresh     *)
(* buffers are back at the head of the loop, the buffers kept of those     *)
(* written are enough, and start()'s latch keeps stop() behind the first   *)
(* test of running_; and no buffer holds more than its capacity.           *)
(***************************************************************************)
THEOREM AsyncLoggingBuffersGoRound == Spec => []BuffersGoRound
<1>1. IInv => BuffersGoRound
  BY DEF IInv, BuffersGoRound
<1> QED BY <1>1, SpecIInv, PTL

(***************************************************************************)
(* No message is lost, duplicated or reordered between append() and the    *)
(* file, unless its buffer is dropped.                                     *)
(***************************************************************************)
THEOREM AsyncLoggingNothingLost == Spec => []NothingLost
<1>1. IInv => NothingLost
  BY DEF IInv
<1> QED BY <1>1, SpecIInv, PTL

\* Buffers are dropped only if more than DropLimit were swapped out, and all but
\* the last of them were full.
LEMMA DropStep ==
    ASSUME IInv, [Next]_vars, dropped' # dropped
    PROVE  Len(FlattenSeq(toWrite)) >= DropLimit * Capacity
<1>0. Typed /\ Full
  BY TypeParts DEF IInv
<1>1. WriteBuffers
  BY DEF Next, BackStep, AppendMessage, Start, LatchWait, Stop, Joins, BeginRun,
     CheckRunning, Lock, WakeUp, backVars, vars
<1>2. toWrite \in Seq(Seq(Messages)) /\ Len(toWrite) \in Nat
  BY <1>0, LenProperties DEF Typed
<1>3. Len(toWrite) > DropLimit
  <2> SUFFICES ASSUME ~(Len(toWrite) > DropLimit) PROVE FALSE
    OBVIOUS
  <2>1. Kept(toWrite) = toWrite
    BY <1>2, KeptType
  <2> QED BY <1>1, <2>1 DEF WriteBuffers
<1>4. DropLimit \in Nat /\ Capacity \in Nat
  BY AsyncLoggingAssumption
<1>5. PICK n \in Nat : Len(toWrite) = n + 1 /\ n >= DropLimit
  <2>1. Len(toWrite) - 1 \in Nat /\ Len(toWrite) = (Len(toWrite) - 1) + 1
        /\ Len(toWrite) - 1 >= DropLimit
    BY <1>2, <1>3, <1>4
  <2> QED BY <2>1
<1> DEFINE f == SubSeq(toWrite, 1, n)
           x == toWrite[n + 1]
<1>6. /\ f \in Seq(Seq(Messages)) /\ Len(f) = n
      /\ \A i \in 1..n : f[i] = toWrite[i]
      /\ x \in Seq(Messages) /\ toWrite = Append(f, x)
  BY <1>2, <1>5, FrontAndLast
<1> HIDE DEF f, x
<1>7. \A i \in 1..Len(f) : Len(f[i]) = Capacity
  <2>1. Len(toWrite) - 1 = n
    BY <1>5
  <2> QED BY <1>0, <1>6, <2>1 DEF Full
<1>8. Len(FlattenSeq(f)) = n * Capacity
  BY <1>4, <1>6, <1>7, FlattenLen
<1>9. FlattenSeq(toWrite) = FlattenSeq(f) \o x /\ FlattenSeq(f) \in Seq(Messages)
  BY <1>6, FlattenAppend, FlattenType
<1>10. /\ Len(FlattenSeq(toWrite)) = Len(FlattenSeq(f)) + Len(x)
       /\ Len(x) \in Nat
  BY <1>6, <1>9, ConcatProperties, LenProperties
<1>11. n * Capacity >= DropLimit * Capacity
  BY <1>4, <1>5
<1> QED BY <1>4, <1>8, <1>10, <1>11

(***************************************************************************)
(* A message is dropped only under load: when DropLimit full buffers and   *)
(* more wait to be written.                                                *)
(***************************************************************************)
THEOREM AsyncLoggingDropsOnlyUnderLoad == Spec => DropsOnlyUnderLoad
<1>1. IInv /\ [Next]_vars
        => [dropped' # dropped =>
              Len(FlattenSeq(toWrite)) >= DropLimit * Capacity]_vars
  BY DropStep
<1> QED BY <1>1, SpecIInv, PTL DEF Spec, DropsOnlyUnderLoad
=============================================================================
