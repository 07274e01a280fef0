-------------------------- MODULE EventStreamProofs --------------------------
(***************************************************************************)
(* Theorems about the AG-UI event streams, for every set of runs, every     *)
(* number of turns and any events from elsewhere.                          *)
(*                                                                         *)
(* What a client receives is a sequence out of which the foreign events are *)
(* filtered, so the proofs need facts about filtered sequences of any       *)
(* length. Those are proved by induction, for sets: a set of sequences that *)
(* has the empty one and is closed under Append has them all. It rests on   *)
(* the well-foundedness of < in the library.                               *)
(***************************************************************************)
EXTENDS EventStream, TLAPS, WellFoundedInduction, SequenceTheorems

-----------------------------------------------------------------------------
(* Induction.                                                              *)

\* A set of natural numbers that is not empty has a least one.
LEMMA LeastNatural ==
  ASSUME NEW T, T \subseteq Nat, T # {}
  PROVE  \E m \in T : \A k \in T : m <= k
<1> DEFINE R == {p \in Nat \X Nat : p[1] < p[2]}
<1>1. IsWellFoundedOn(R, Nat)
  <2>1. OpToRel(<, Nat) = R
    BY Zenon DEF OpToRel
  <2> QED
    BY <2>1, NatLessThanWellFounded, Zenon
<1>2. PICK x \in T : \A y \in T : <<y, x>> \notin R
  <2> HIDE DEF R
  <2> QED
    BY <1>1, WFMin
<1>3. ASSUME NEW k \in T
      PROVE  x <= k
  <2>1. k \in Nat /\ x \in Nat
    OBVIOUS
  <2>2. k < x => <<k, x>> \in R
    BY <2>1
  <2>3. ~ (k < x)
    BY <1>2, <2>2
  <2> QED
    BY <2>1, <2>3
<1> QED
  BY <1>3

\* Induction over the natural numbers, for a set.
LEMMA NaturalInduction ==
  ASSUME NEW T, 0 \in T, \A n \in Nat : n \in T => n + 1 \in T
  PROVE  Nat \subseteq T
<1> SUFFICES ASSUME Nat \ T # {} PROVE FALSE
  OBVIOUS
<1>1. PICK m \in Nat \ T : \A k \in Nat \ T : m <= k
  BY LeastNatural
<1>2. m # 0 /\ m - 1 \in Nat /\ m - 1 \in T
  BY <1>1
<1> QED
  BY <1>1, <1>2

\* Induction over sequences, for a set.
LEMMA SequenceInduction ==
  ASSUME NEW S, NEW P, <<>> \in P,
         \A s \in Seq(S), e \in S : s \in P => Append(s, e) \in P
  PROVE  Seq(S) \subseteq P
<1> DEFINE T == {n \in Nat : \A s \in Seq(S) : Len(s) = n => s \in P}
<1>1. 0 \in T
  BY EmptySeq
<1>2. ASSUME NEW n \in Nat, n \in T
      PROVE  n + 1 \in T
  <2> SUFFICES ASSUME NEW s \in Seq(S), Len(s) = n + 1
               PROVE  s \in P
    OBVIOUS
  <2>1. s # <<>>
    OBVIOUS
  <2>2. PICK u \in Seq(S), e \in S : s = Append(u, e)
    BY <2>1, SequenceEmptyOrAppend
  <2>3. Len(u) = n
    BY <2>2, AppendProperties
  <2> QED
    BY <1>2, <2>2, <2>3
<1>3. Nat \subseteq T
  <2> HIDE DEF T
  <2> QED
    BY <1>1, <1>2, NaturalInduction
<1> QED
  BY <1>3, LenProperties

-----------------------------------------------------------------------------
(* What Keep keeps.                                                        *)

\* The function Keep is defined by, up to n.
Keeping(f, s, n, T) ==
  f = [i \in 0 .. n |-> IF i = 0 THEN <<>>
                        ELSE IF s[i] \in T THEN Append(f[i - 1], s[i]) ELSE f[i - 1]]

\* What the function says at each index.
LEMMA KeepingStep ==
  ASSUME NEW f, NEW s, NEW n \in Nat, NEW T, Keeping(f, s, n, T)
  PROVE  /\ f[0] = <<>>
         /\ \A i \in 1 .. n : f[i] = IF s[i] \in T THEN Append(f[i - 1], s[i]) ELSE f[i - 1]
<1>1. 0 \in 0 .. n /\ \A i \in 1 .. n : i \in 0 .. n /\ i # 0
  OBVIOUS
<1> QED
  BY <1>1 DEF Keeping

\* There is such a function for every length: it is extended by one element.
LEMMA KeepingExists ==
  ASSUME NEW s, NEW T
  PROVE  \A n \in Nat : \E f : Keeping(f, s, n, T)
<1> DEFINE N == {n \in Nat : \E f : Keeping(f, s, n, T)}
<1>1. 0 \in N
  <2>1. Keeping([i \in 0 .. 0 |-> <<>>], s, 0, T)
    BY DEF Keeping
  <2> QED
    BY <2>1
<1>2. ASSUME NEW n \in Nat, n \in N
      PROVE  n + 1 \in N
  <2>1. PICK f : Keeping(f, s, n, T)
    BY <1>2
  <2> DEFINE g == [i \in 0 .. n + 1 |->
                     IF i <= n THEN f[i]
                     ELSE IF s[n + 1] \in T THEN Append(f[n], s[n + 1]) ELSE f[n]]
  <2>2. ASSUME NEW i \in 0 .. n + 1
        PROVE  g[i] = IF i = 0 THEN <<>>
                      ELSE IF s[i] \in T THEN Append(g[i - 1], s[i]) ELSE g[i - 1]
    <3>1. CASE i = 0
      <4>1. g[0] = f[0] /\ f[0] = <<>>
        BY <2>1, KeepingStep
      <4> QED
        BY <3>1, <4>1
    <3>2. CASE i \in 1 .. n
      <4>1. g[i] = f[i] /\ g[i - 1] = f[i - 1]
        BY <3>2
      <4> QED
        BY <2>1, <3>2, <4>1, KeepingStep
    <3>3. CASE i = n + 1
      <4>1. /\ g[i] = IF s[n + 1] \in T THEN Append(f[n], s[n + 1]) ELSE f[n]
            /\ g[i - 1] = f[n]
        BY <3>3
      <4> QED
        BY <3>3, <4>1
    <3> QED
      BY <3>1, <3>2, <3>3
  <2>3. g = [i \in 0 .. n + 1 |-> g[i]]
    OBVIOUS
  <2>4. Keeping(g, s, n + 1, T)
    <3> HIDE DEF g
    <3> QED
      BY <2>2, <2>3 DEF Keeping
  <2> QED
    BY <2>4
<1>3. Nat \subseteq N
  <2> HIDE DEF N
  <2> QED
    BY <1>1, <1>2, NaturalInduction
<1> QED
  BY <1>3

\* Keep is the last value of such a function.
LEMMA KeepIs ==
  ASSUME NEW S, NEW s \in Seq(S), NEW T
  PROVE  \E f : Keeping(f, s, Len(s), T) /\ Keep(s, T) = f[Len(s)]
<1> DEFINE k == CHOOSE f : Keeping(f, s, Len(s), T)
<1>1. Keeping(k, s, Len(s), T)
  BY KeepingExists, LenProperties
<1>2. Keep(s, T) = k[Len(s)]
  BY DEF Keep, Keeping
<1> QED
  BY <1>1, <1>2

\* Two of them agree as far as their sequences do.
LEMMA KeepingUnique ==
  ASSUME NEW s, NEW u, NEW T, NEW m \in Nat, NEW n \in Nat, m <= n,
         \A i \in 1 .. m : s[i] = u[i],
         NEW f, NEW g, Keeping(f, s, m, T), Keeping(g, u, n, T)
  PROVE  f[m] = g[m]
<1> DEFINE N == {i \in Nat : i <= m => f[i] = g[i]}
<1>1. 0 \in N
  BY KeepingStep
<1>2. ASSUME NEW i \in Nat, i \in N
      PROVE  i + 1 \in N
  <2> SUFFICES ASSUME i + 1 <= m
               PROVE  f[i + 1] = g[i + 1]
    OBVIOUS
  <2>1. i + 1 \in 1 .. m /\ i + 1 \in 1 .. n /\ (i + 1) - 1 = i /\ f[i] = g[i]
    BY <1>2
  <2> QED
    BY <2>1, KeepingStep
<1>3. Nat \subseteq N
  <2> HIDE DEF N
  <2> QED
    BY <1>1, <1>2, NaturalInduction
<1> QED
  BY <1>3

\* Nothing is kept of nothing.
LEMMA KeepEmpty ==
  ASSUME NEW T
  PROVE  Keep(<<>>, T) = <<>>
<1>1. PICK f : Keeping(f, <<>>, Len(<<>>), T) /\ Keep(<<>>, T) = f[Len(<<>>)]
  BY KeepIs, EmptySeq
<1>2. Len(<<>>) = 0
  OBVIOUS
<1> QED
  BY <1>1, <1>2, KeepingStep

\* One more element is kept, or is not.
LEMMA KeepAppend ==
  ASSUME NEW S, NEW s \in Seq(S), NEW e \in S, NEW T
  PROVE  Keep(Append(s, e), T) = IF e \in T THEN Append(Keep(s, T), e) ELSE Keep(s, T)
<1>1. PICK f : Keeping(f, s, Len(s), T) /\ Keep(s, T) = f[Len(s)]
  BY KeepIs
<1> DEFINE u == Append(s, e)
<1>2. /\ u \in Seq(S) /\ Len(u) = Len(s) + 1 /\ Len(s) \in Nat
      /\ u[Len(s) + 1] = e /\ \A i \in 1 .. Len(s) : s[i] = u[i]
  BY AppendProperties, LenProperties
<1> HIDE DEF u
<1>3. PICK g : Keeping(g, u, Len(u), T) /\ Keep(u, T) = g[Len(u)]
  BY <1>2, KeepIs
<1>4. f[Len(s)] = g[Len(s)]
  BY <1>1, <1>2, <1>3, KeepingUnique
<1>5. g[Len(s) + 1] = IF u[Len(s) + 1] \in T THEN Append(g[Len(s)], u[Len(s) + 1]) ELSE g[Len(s)]
  <2>1. Len(u) \in Nat /\ Len(s) + 1 \in 1 .. Len(u) /\ (Len(s) + 1) - 1 = Len(s)
    BY <1>2
  <2> QED
    BY <1>3, <2>1, KeepingStep
<1>6. Keep(u, T) = IF e \in T THEN Append(Keep(s, T), e) ELSE Keep(s, T)
  BY <1>1, <1>2, <1>3, <1>4, <1>5
<1> QED
  BY <1>6 DEF u

\* What is kept is of S, and of T.
LEMMA KeepTyped ==
  ASSUME NEW S, NEW T
  PROVE  \A s \in Seq(S) : Keep(s, T) \in Seq(S \cap T) /\ Keep(s, T) \in Seq(S)
<1> DEFINE P == {s \in Seq(S) : Keep(s, T) \in Seq(S \cap T) /\ Keep(s, T) \in Seq(S)}
<1>1. <<>> \in P
  BY KeepEmpty, EmptySeq
<1>2. ASSUME NEW s \in Seq(S), NEW e \in S, s \in P
      PROVE  Append(s, e) \in P
  <2>1. Keep(Append(s, e), T) = IF e \in T THEN Append(Keep(s, T), e) ELSE Keep(s, T)
    BY KeepAppend
  <2>2. CASE e \in T
    <3>1. e \in S \cap T
      BY <2>2
    <3>2. Append(Keep(s, T), e) \in Seq(S \cap T) /\ Append(Keep(s, T), e) \in Seq(S)
      BY <1>2, <3>1, AppendProperties
    <3> QED
      BY <2>1, <2>2, <3>2, AppendProperties
  <2>3. CASE e \notin T
    BY <1>2, <2>1, <2>3, AppendProperties
  <2> QED
    BY <2>2, <2>3
<1>3. Seq(S) \subseteq P
  <2> HIDE DEF P
  <2> QED
    BY <1>1, <1>2, SequenceInduction
<1> QED
  BY <1>3

\* Keeping twice is keeping what is in both.
LEMMA KeepTwice ==
  ASSUME NEW S, NEW T, NEW U, NEW V, \A e \in S : e \in V <=> e \in T /\ e \in U
  PROVE  \A s \in Seq(S) : Keep(Keep(s, T), U) = Keep(s, V)
<1> DEFINE P == {s \in Seq(S) : Keep(Keep(s, T), U) = Keep(s, V)}
<1>1. <<>> \in P
  BY KeepEmpty, EmptySeq
<1>2. ASSUME NEW s \in Seq(S), NEW e \in S, s \in P
      PROVE  Append(s, e) \in P
  <2>1. Keep(Append(s, e), T) = IF e \in T THEN Append(Keep(s, T), e) ELSE Keep(s, T)
    BY KeepAppend
  <2>2. Keep(Append(Keep(s, T), e), U) =
          IF e \in U THEN Append(Keep(Keep(s, T), U), e) ELSE Keep(Keep(s, T), U)
    <3>1. Keep(s, T) \in Seq(S)
      BY KeepTyped
    <3>2. \A k \in Seq(S) :
            Keep(Append(k, e), U) = IF e \in U THEN Append(Keep(k, U), e) ELSE Keep(k, U)
      BY KeepAppend
    <3> QED
      BY <3>1, <3>2
  <2>3. Keep(Append(s, e), V) =
          IF e \in V THEN Append(Keep(s, V), e) ELSE Keep(s, V)
    BY KeepAppend
  <2>4. Append(s, e) \in Seq(S) /\ Keep(Keep(s, T), U) = Keep(s, V)
    BY <1>2, AppendProperties
  <2>5. Keep(Keep(Append(s, e), T), U) = Keep(Append(s, e), V)
    <3>1. CASE e \in T
      <4>1. Keep(Append(s, e), T) = Append(Keep(s, T), e) /\ (e \in U <=> e \in V)
        BY <2>1, <3>1
      <4> QED
        BY <2>2, <2>3, <2>4, <4>1
    <3>2. CASE e \notin T
      BY <2>1, <2>3, <2>4, <3>2
    <3> QED
      BY <3>1, <3>2
  <2> QED
    BY <2>4, <2>5
<1>3. Seq(S) \subseteq P
  <2> HIDE DEF P
  <2> QED
    BY <1>1, <1>2, SequenceInduction
<1> QED
  BY <1>3

\* A set that has all of S keeps everything.
LEMMA KeepAll ==
  ASSUME NEW S, NEW T, S \subseteq T
  PROVE  \A s \in Seq(S) : Keep(s, T) = s
<1> DEFINE P == {s \in Seq(S) : Keep(s, T) = s}
<1>1. <<>> \in P
  BY KeepEmpty, EmptySeq
<1>2. ASSUME NEW s \in Seq(S), NEW e \in S, s \in P
      PROVE  Append(s, e) \in P
  <2>1. e \in T /\ Append(s, e) \in Seq(S)
    BY AppendProperties
  <2> QED
    BY <1>2, <2>1, KeepAppend
<1>3. Seq(S) \subseteq P
  <2> HIDE DEF P
  <2> QED
    BY <1>1, <1>2, SequenceInduction
<1> QED
  BY <1>3

\* One that has none of S keeps nothing.
LEMMA KeepNone ==
  ASSUME NEW S, NEW T, S \cap T = {}
  PROVE  \A s \in Seq(S) : Keep(s, T) = <<>>
<1>1. S \cap T = S \cap {}
  OBVIOUS
<1> DEFINE P == {s \in Seq(S) : Keep(s, T) = <<>>}
<1>2. <<>> \in P
  BY KeepEmpty, EmptySeq
<1>3. ASSUME NEW s \in Seq(S), NEW e \in S, s \in P
      PROVE  Append(s, e) \in P
  <2>1. e \notin T /\ Append(s, e) \in Seq(S)
    BY AppendProperties
  <2> QED
    BY <1>3, <2>1, KeepAppend
<1>4. Seq(S) \subseteq P
  <2> HIDE DEF P
  <2> QED
    BY <1>2, <1>3, SequenceInduction
<1> QED
  BY <1>4

\* An element appended to the second of two sequences is appended to both.
LEMMA ConcatAppend ==
  ASSUME NEW S, NEW e \in S
  PROVE  \A s, t \in Seq(S) : Append(s \o t, e) = s \o Append(t, e)
<1> TAKE s, t \in Seq(S)
<1>1. s \o t \in Seq(S) /\ <<e>> \in Seq(S)
  BY ConcatProperties
<1>2. Append(s \o t, e) = (s \o t) \o <<e>> /\ Append(t, e) = t \o <<e>>
  BY <1>1, AppendIsConcat
<1>3. (s \o t) \o <<e>> = s \o (t \o <<e>>)
  BY <1>1, ConcatAssociative
<1> QED
  BY <1>2, <1>3

\* What is kept of two sequences, one after the other.
LEMMA KeepConcat ==
  ASSUME NEW S, NEW s \in Seq(S), NEW T
  PROVE  \A t \in Seq(S) : Keep(s \o t, T) = Keep(s, T) \o Keep(t, T)
<1> DEFINE P == {t \in Seq(S) : Keep(s \o t, T) = Keep(s, T) \o Keep(t, T)}
<1>1. <<>> \in P
  <2>1. Keep(s, T) \in Seq(S) /\ <<>> \in Seq(S)
    BY KeepTyped, EmptySeq
  <2>2. s \o <<>> = s /\ Keep(s, T) \o <<>> = Keep(s, T)
    BY <2>1, ConcatEmptySeq
  <2> QED
    BY <2>1, <2>2, KeepEmpty
<1>2. ASSUME NEW t \in Seq(S), NEW e \in S, t \in P
      PROVE  Append(t, e) \in P
  <2>1. s \o Append(t, e) = Append(s \o t, e)
    BY ConcatAppend
  <2>2. s \o t \in Seq(S)
    BY ConcatProperties
  <2>3. /\ Keep(s \o Append(t, e), T) =
             IF e \in T THEN Append(Keep(s \o t, T), e) ELSE Keep(s \o t, T)
        /\ Keep(Append(t, e), T) = IF e \in T THEN Append(Keep(t, T), e) ELSE Keep(t, T)
    BY <2>1, <2>2, KeepAppend
  <2>4. Append(Keep(s, T) \o Keep(t, T), e) = Keep(s, T) \o Append(Keep(t, T), e)
    <3>1. Keep(s, T) \in Seq(S) /\ Keep(t, T) \in Seq(S)
      BY KeepTyped
    <3>2. \A a, b \in Seq(S) : Append(a \o b, e) = a \o Append(b, e)
      BY ConcatAppend, Zenon
    <3> QED
      BY <3>1, <3>2
  <2>5. Append(t, e) \in Seq(S) /\ Keep(s \o t, T) = Keep(s, T) \o Keep(t, T)
    BY <1>2, AppendProperties
  <2> QED
    BY <2>3, <2>4, <2>5
<1>3. Seq(S) \subseteq P
  <2> HIDE DEF P
  <2> QED
    BY <1>1, <1>2, SequenceInduction
<1> QED
  BY <1>3

\* What is kept of one element.
LEMMA KeepOne ==
  ASSUME NEW e, NEW T
  PROVE  Keep(<<e>>, T) = IF e \in T THEN <<e>> ELSE <<>>
<1>1. <<>> \in Seq({e}) /\ Append(<<>>, e) = <<e>>
  BY EmptySeq
<1>2. \A k \in Seq({e}) :
        Keep(Append(k, e), T) = IF e \in T THEN Append(Keep(k, T), e) ELSE Keep(k, T)
  BY KeepAppend
<1> QED
  BY <1>1, <1>2, KeepEmpty

\* What is kept of a queue, when its head is taken.
LEMMA KeepHead ==
  ASSUME NEW S, NEW s \in Seq(S), s # <<>>, NEW T
  PROVE  Keep(s, T) = (IF Head(s) \in T THEN <<Head(s)>> ELSE <<>>) \o Keep(Tail(s), T)
<1>1. Head(s) \in S /\ <<Head(s)>> \in Seq(S) /\ Tail(s) \in Seq(S)
  BY HeadTailProperties
<1>2. s = <<Head(s)>> \o Tail(s)
  <2>1. /\ Len(Tail(s)) = Len(s) - 1 /\ \A i \in 1 .. Len(Tail(s)) : Tail(s)[i] = s[i + 1]
        /\ Len(s) \in Nat /\ Head(s) = s[1]
    BY HeadTailProperties, LenProperties
  <2>2. /\ <<Head(s)>> \o Tail(s) \in Seq(S) /\ Len(<<Head(s)>>) = 1
        /\ Len(<<Head(s)>> \o Tail(s)) = 1 + Len(Tail(s))
        /\ \A i \in 1 .. 1 + Len(Tail(s)) :
             (<<Head(s)>> \o Tail(s))[i] = IF i <= 1 THEN <<Head(s)>>[i] ELSE Tail(s)[i - 1]
    BY <1>1, ConcatProperties
  <2>3. \A i \in 1 .. Len(s) : s[i] = (<<Head(s)>> \o Tail(s))[i]
    <3> TAKE i \in 1 .. Len(s)
    <3>1. CASE i = 1
      BY <2>1, <2>2, <3>1
    <3>2. CASE i # 1
      <4>1. i - 1 \in 1 .. Len(Tail(s)) /\ i \in 1 .. 1 + Len(Tail(s)) /\ ~ (i <= 1)
        BY <2>1, <3>2
      <4>2. Tail(s)[i - 1] = s[(i - 1) + 1] /\ (i - 1) + 1 = i
        BY <2>1, <4>1
      <4> QED
        BY <2>2, <4>1, <4>2
    <3> QED
      BY <3>1, <3>2
  <2>4. Len(s) = Len(<<Head(s)>> \o Tail(s))
    BY <2>1, <2>2
  <2>5. \A u \in Seq(S) : Len(s) = Len(u) /\ (\A i \in 1 .. Len(s) : s[i] = u[i]) => s = u
    BY SeqEqual
  <2> QED
    BY <2>2, <2>3, <2>4, <2>5
<1>3. Keep(<<Head(s)>> \o Tail(s), T) = Keep(<<Head(s)>>, T) \o Keep(Tail(s), T)
  <2>1. \A a, b \in Seq(S) : Keep(a \o b, T) = Keep(a, T) \o Keep(b, T)
    BY KeepConcat
  <2> QED
    BY <1>1, <2>1
<1> QED
  BY <1>2, <1>3, KeepOne

\* A sequence is a prefix of itself with more, or nothing more, after it.
LEMMA PrefixOfConcat ==
  ASSUME NEW S, NEW s \in Seq(S), NEW t \in Seq(S)
  PROVE  IsPrefix(s, s \o t) /\ IsPrefix(s, s)
<1>1. SubSeq(s, 1, Len(s)) = s /\ Len(s) \in Nat /\ Len(t) \in Nat
  BY SubSeqFull, LenProperties
<1>2. s \o t \in Seq(S) /\ Len(s \o t) = Len(s) + Len(t)
  BY ConcatProperties
<1>3. SubSeq(s \o t, 1, Len(s)) = s
  <2>1. CASE Len(s) = 0
    <3>1. s = <<>>
      BY <2>1, EmptySeq
    <3>2. SubSeq(s \o t, 1, Len(s)) = <<>>
      BY <2>1, SubSeqEmpty
    <3> QED
      BY <3>1, <3>2
  <2>2. CASE Len(s) # 0
    <3>1. 1 \in 1 .. Len(s) /\ Len(s) \in 1 .. Len(s)
      BY <1>1, <2>2
    <3>2. \A m, n \in 1 .. Len(s) : SubSeq(s \o t, m, n) = SubSeq(s, m, n)
      BY SubSeqOfConcat1
    <3> QED
      BY <1>1, <3>1, <3>2
  <2> QED
    BY <2>1, <2>2
<1> QED
  BY <1>1, <1>2, <1>3 DEF IsPrefix

-----------------------------------------------------------------------------
(* Types.                                                                  *)

\* One event and none are sequences of events.
LEMMA OneEvent ==
  ASSUME NEW S
  PROVE  <<>> \in Seq(S) /\ \A e \in S : <<e>> \in Seq(S)
OBVIOUS

\* The events of a run so far, as the bus carries them.
RunEvent(r) == [scope : {r}, about : {"text", "tool"}, turn : 0 .. turn[r]]

\* Everything is put at the end of the queues that are read.
LEMMA QueuesFill ==
  ASSUME NEW S, queue \in [Run -> Seq(S)], NEW said \in Seq(S), Publish(said)
  PROVE  /\ queue' \in [Run -> Seq(S)]
         /\ \A q \in Run : queue'[q] = IF Subscribed(q) THEN queue[q] \o said ELSE queue[q]
<1>1. \A q \in Run : queue[q] \o said \in Seq(S)
  BY ConcatProperties
<1> QED
  BY <1>1 DEF Publish

\* A segment that talks to the model or calls tools publishes events of its run
\* and of a turn it has reached, and answers only when it is over.
SegmentStep(r, said) ==
  /\ worker[r] \in {"asking", "calling"}
  /\ said \in Seq(RunEvent(r)')
  /\ PublishOf(r, said)
  /\ worker' = [worker EXCEPT ![r] = worker'[r]]
  /\ worker'[r] \in {"asking", "calling", "over"}
  /\ turn' = [turn EXCEPT ![r] = turn'[r]]
  /\ turn'[r] \in Nat /\ turn[r] <= turn'[r] /\ turn'[r] <= MaxTurns[r]
  /\ streamed' = [streamed EXCEPT ![r] = streamed'[r]]
  /\ streamed'[r] \in BOOLEAN
  /\ result' = [result EXCEPT ![r] = result'[r]]
  /\ result'[r] \in Ends \cup {result[r]}
  /\ result'[r] = "answer" => worker'[r] = "over" \/ result[r] = "answer"
  /\ UNCHANGED <<stream, sent, ready, pre, foreign>>

\* A model call is such a step.
LEMMA AskStep ==
  ASSUME TypeOK, NEW r \in Run, Ask(r)
  PROVE  \E said : SegmentStep(r, said)
<1>1. turn[r] \in Nat /\ MaxTurns[r] \in Nat /\ turn[r] + 1 <= MaxTurns[r] /\ r \in DOMAIN turn
  <2>1. MayAsk(r)
    BY Zenon DEF Ask
  <2> QED
    BY <2>1, TurnsPositive DEF TypeOK, MayAsk
<1>2. turn'[r] = turn[r] + 1 /\ turn' = [turn EXCEPT ![r] = turn'[r]]
  <2>1. turn' = [turn EXCEPT ![r] = turn[r] + 1]
    BY Zenon DEF Ask
  <2> QED
    BY <1>1, <2>1
<1> DEFINE e == [Of(r, "text") EXCEPT !.turn = turn[r] + 1]
<1>3. PICK text \in BOOLEAN, calls \in BOOLEAN :
        /\ PublishOf(r, IF Speaks(r, text, calls) THEN <<e>> ELSE <<>>)
        /\ streamed' = [streamed EXCEPT ![r] = TextStreamed(r, text, calls)]
        /\ worker' = [worker EXCEPT ![r] = IF calls THEN "calling" ELSE "over"]
        /\ result' = [result EXCEPT ![r] = IF calls THEN @ ELSE "answer"]
  BY Zenon DEF Ask
<1>4. e \in RunEvent(r)'
  <2>1. e = [scope |-> r, about |-> "text", turn |-> turn[r] + 1]
    BY DEF Of
  <2> QED
    BY <1>1, <1>2, <2>1 DEF RunEvent
<1> DEFINE said == IF Speaks(r, text, calls) THEN <<e>> ELSE <<>>
<1>5. said \in Seq(RunEvent(r)')
  <2> HIDE DEF e
  <2> QED
    BY <1>4, OneEvent
<1>6. /\ worker'[r] = (IF calls THEN "calling" ELSE "over")
      /\ result'[r] = (IF calls THEN result[r] ELSE "answer")
  BY <1>3 DEF TypeOK
<1>7. TextStreamed(r, text, calls) \in BOOLEAN /\ streamed'[r] = TextStreamed(r, text, calls)
  BY <1>3 DEF TypeOK, TextStreamed, Speaks
<1>8. SegmentStep(r, said)
  <2> HIDE DEF e
  <2>1. worker[r] = "asking" /\ UNCHANGED <<stream, sent, ready, pre, foreign>>
    BY Zenon DEF Ask
  <2>2. PublishOf(r, said)
    BY <1>3
  <2> HIDE DEF said
  <2>3. /\ worker' = [worker EXCEPT ![r] = worker'[r]]
        /\ streamed' = [streamed EXCEPT ![r] = streamed'[r]]
        /\ result' = [result EXCEPT ![r] = result'[r]]
    BY <1>3, <1>6, <1>7
  <2> QED
    BY <1>1, <1>2, <1>5, <1>6, <1>7, <2>1, <2>2, <2>3 DEF SegmentStep, Ends
<1> QED
  BY <1>8

\* So are a failed one and a batch of tool calls.
LEMMA FailStep ==
  ASSUME TypeOK, NEW r \in Run, AskFails(r)
  PROVE  \E said : SegmentStep(r, said)
<1>1. PICK said \in IF Streaming THEN {<<>>, <<Of(r, "text")>>} ELSE {<<>>} :
        /\ PublishOf(r, said)
        /\ streamed' = [streamed EXCEPT ![r] = @ \/ said # <<>>]
  BY DEF AskFails
<1>2. /\ worker[r] = "asking" /\ worker' = [worker EXCEPT ![r] = "over"]
      /\ result' = [result EXCEPT ![r] = "error"]
      /\ UNCHANGED <<stream, sent, turn, ready, pre, foreign>>
  BY Zenon DEF AskFails
<1>3. turn[r] \in Nat /\ turn[r] <= MaxTurns[r] /\ turn' = [turn EXCEPT ![r] = turn'[r]]
  BY <1>2 DEF TypeOK
<1>4. said \in Seq(RunEvent(r)')
  <2>1. Of(r, "text") \in RunEvent(r)'
    BY <1>2, <1>3 DEF Of, RunEvent
  <2> HIDE DEF SegmentStep
  <2> QED
    BY <1>1, <2>1, OneEvent
<1>5. streamed'[r] \in BOOLEAN /\ streamed' = [streamed EXCEPT ![r] = streamed'[r]]
  BY <1>1 DEF TypeOK
<1>6. /\ worker'[r] = "over" /\ worker' = [worker EXCEPT ![r] = worker'[r]]
      /\ result'[r] = "error" /\ result' = [result EXCEPT ![r] = result'[r]]
  BY <1>2 DEF TypeOK
<1>7. SegmentStep(r, said)
  BY <1>1, <1>2, <1>3, <1>4, <1>5, <1>6 DEF SegmentStep, Ends
<1> QED
  BY <1>7

\* A batch of tool calls publishes one event and is such a step.
LEMMA CallStep ==
  ASSUME TypeOK, NEW r \in Run, Call(r)
  PROVE  SegmentStep(r, <<Of(r, "tool")>>)
<1>1. PICK next \in {"asking", "await", "limit"} :
        /\ worker' = [worker EXCEPT ![r] = IF next = "asking" THEN "asking" ELSE "over"]
        /\ result' = [result EXCEPT ![r] = IF next = "asking" THEN @ ELSE next]
  BY DEF Call
<1>2. /\ worker[r] = "calling" /\ PublishOf(r, <<Of(r, "tool")>>)
      /\ UNCHANGED <<stream, sent, turn, ready, pre, streamed, foreign>>
  BY Zenon DEF Call
<1>3. /\ turn[r] \in Nat /\ turn[r] <= MaxTurns[r] /\ turn' = [turn EXCEPT ![r] = turn'[r]]
      /\ streamed'[r] \in BOOLEAN /\ streamed' = [streamed EXCEPT ![r] = streamed'[r]]
  BY <1>2 DEF TypeOK
<1>4. <<Of(r, "tool")>> \in Seq(RunEvent(r)')
  <2>1. Of(r, "tool") \in RunEvent(r)'
    BY <1>2, <1>3 DEF Of, RunEvent
  <2> QED
    BY <2>1, OneEvent
<1>5. /\ worker'[r] = (IF next = "asking" THEN "asking" ELSE "over")
      /\ worker' = [worker EXCEPT ![r] = worker'[r]]
      /\ result'[r] = (IF next = "asking" THEN result[r] ELSE next)
      /\ result' = [result EXCEPT ![r] = result'[r]]
  BY <1>1 DEF TypeOK
<1> QED
  BY <1>2, <1>3, <1>4, <1>5 DEF SegmentStep, Ends

\* A segment prepares, or takes such a step.
LEMMA SegmentSteps ==
  ASSUME TypeOK, NEW r \in Run, Segment(r)
  PROVE  Prepare(r) \/ PrepareFails(r) \/ \E said : SegmentStep(r, said)
BY AskStep, FailStep, CallStep DEF Segment

\* What is sent is put after what was sent before.
LEMMA SendTyped ==
  ASSUME NEW S, sent \in [Run -> Seq(S)], NEW r \in Run, NEW events \in Seq(S), Send(r, events)
  PROVE  /\ sent' \in [Run -> Seq(S)]
         /\ sent'[r] = sent[r] \o events
         /\ \A q \in Run : q # r => sent'[q] = sent[q]
<1>1. sent[r] \o events \in Seq(S)
  BY ConcatProperties
<1> QED
  BY <1>1 DEF Send

\* What the client of a run is told at its end: the last words only if they have
\* not been streamed.
Ending(r, words, last) ==
  /\ words \in {<<>>, <<Of(r, "final")>>}
  /\ result[r] = "answer" /\ streamed[r] => words = <<>>
  /\ last \in {"finished", "interrupt", "failed"}
  /\ Send(r, words \o <<Of(r, last)>>)

EndEvent(r) ==
  [scope : {r}, about : {"final", "finished", "interrupt", "failed"}, turn : {turn[r]}]

\* Telling the end of a run sends its final words, if any, and one last event.
LEMMA TellStep ==
  ASSUME TypeOK, NEW r \in Run, Tell(r)
  PROVE  \E words, last : Ending(r, words, last)
<1> DEFINE words == IF result[r] \in {"answer", "limit"} /\ ~ streamed[r]
                    THEN <<Of(r, "final")>> ELSE <<>>
           last == CASE result[r] = "answer" -> "finished"
                     [] result[r] = "await" -> "interrupt"
                     [] OTHER -> "failed"
<1>1. Send(r, words \o <<Of(r, last)>>)
  BY Zenon DEF Tell
<1>2. last \in {"finished", "interrupt", "failed"}
  OBVIOUS
<1>3. words \in {<<>>, <<Of(r, "final")>>} /\ (result[r] = "answer" /\ streamed[r] => words = <<>>)
  OBVIOUS
<1> HIDE DEF words, last
<1>4. Ending(r, words, last)
  BY <1>1, <1>2, <1>3 DEF Ending
<1> QED
  BY <1>4

\* All of that is about the run and its end.
LEMMA EndingTyped ==
  ASSUME TypeOK, NEW r \in Run, NEW words, NEW last, Ending(r, words, last)
  PROVE  /\ words \in Seq(EndEvent(r)) /\ <<Of(r, last)>> \in Seq(EndEvent(r))
         /\ words \o <<Of(r, last)>> \in Seq(EndEvent(r))
         /\ EndEvent(r) \subseteq Event
<1>1. Of(r, "final") \in EndEvent(r) /\ Of(r, last) \in EndEvent(r)
  BY DEF Of, EndEvent, Ending
<1>2. words \in Seq(EndEvent(r)) /\ <<Of(r, last)>> \in Seq(EndEvent(r))
  BY <1>1, OneEvent DEF Ending
<1>3. EndEvent(r) \subseteq Event
  BY DEF EndEvent, Event, TypeOK
<1> QED
  BY <1>2, <1>3, ConcatProperties

\* Taking the head of a queue.
LEMMA QueueTyped ==
  ASSUME NEW S, queue \in [Run -> Seq(S)], NEW r \in Run, queue[r] # <<>>,
         queue' = [queue EXCEPT ![r] = Tail(@)]
  PROVE  /\ queue' \in [Run -> Seq(S)]
         /\ Head(queue[r]) \in S
         /\ queue'[r] = Tail(queue[r])
         /\ \A q \in Run : q # r => queue'[q] = queue[q]
<1>1. Tail(queue[r]) \in Seq(S) /\ Head(queue[r]) \in S
  BY HeadTailProperties
<1> QED
  BY <1>1

\* Every step keeps every variable in its type: no more turns than allowed, and
\* events in every queue, history and message.
LEMMA TypesInductive ==
  /\ Init => TypeOK
  /\ TypeOK /\ [Next]_vars => TypeOK'
<1>1. Init => TypeOK
  <2> SUFFICES ASSUME Init PROVE TypeOK
    OBVIOUS
  <2>1. <<>> \in Seq(Event)
    BY EmptySeq
  <2>2. \A r \in Run : turn[r] <= MaxTurns[r]
    BY TurnsPositive DEF Init
  <2> QED
    BY <2>1, <2>2, ForeignNatural DEF Init, TypeOK, Ends
<1>2. TypeOK /\ [Next]_vars => TypeOK'
  <2> SUFFICES ASSUME TypeOK, [Next]_vars
               PROVE  TypeOK'
    OBVIOUS
  <2> DEFINE Rest == /\ stream \in [Run -> {"none", "preparing", "reading", "draining", "telling", "over", "gone"}]
                     /\ worker \in [Run -> {"none", "preparing", "asking", "calling", "over"}]
                     /\ turn \in [Run -> Nat]
                     /\ \A r \in Run : turn[r] <= MaxTurns[r]
                     /\ ready \in [Run -> BOOLEAN]
                     /\ streamed \in [Run -> BOOLEAN]
                     /\ result \in [Run -> Ends \cup {"none"}]
                     /\ foreign \in 0 .. MaxForeign
             Sequences == /\ queue \in [Run -> Seq(Event)]
                          /\ sent \in [Run -> Seq(Event)]
                          /\ pre \in [Run -> Seq(Event)]
                          /\ published \in [Run -> Seq(Event)]
  <2>0. Rest /\ Sequences
    BY DEF TypeOK
  <2>1. CASE UNCHANGED vars
    BY <2>1 DEF TypeOK, vars
  <2>2. CASE PublishElsewhere
    <3>1. PICK scope \in {Elsewhere, Nobody} :
            Publish(<<[scope |-> scope, about |-> "tool", turn |-> 0]>>)
      BY <2>2 DEF PublishElsewhere
    <3>2. [scope |-> scope, about |-> "tool", turn |-> 0] \in Event
      BY DEF Event
    <3>3. queue' \in [Run -> Seq(Event)]
      BY <2>0, <3>1, <3>2, OneEvent, QueuesFill
    <3>4. /\ foreign < MaxForeign /\ foreign' = foreign + 1
          /\ UNCHANGED <<stream, sent, segment, published>>
      BY <2>2, Zenon DEF PublishElsewhere
    <3> QED
      BY <2>0, <3>3, <3>4, ForeignNatural DEF TypeOK, segment
  <2>3. ASSUME NEW r \in Run, Prepare(r)
        PROVE  TypeOK'
    <3>1. PICK events \in {<<>>, <<Of(r, "hook")>>} : pre' = [pre EXCEPT ![r] = events]
      BY <2>3 DEF Prepare
    <3>2. events \in Seq(Event)
      <4>1. Of(r, "hook") \in Event
        BY <2>0 DEF Of, Event
      <4> QED
        BY <3>1, <4>1, OneEvent
    <3>3. /\ worker' = [worker EXCEPT ![r] = "asking"]
          /\ ready' = [ready EXCEPT ![r] = TRUE]
          /\ UNCHANGED <<queue, stream, sent, turn, streamed, result, foreign, published>>
      BY <2>3, Zenon DEF Prepare
    <3>4. pre' \in [Run -> Seq(Event)]
      BY <2>0, <3>1, <3>2
    <3> QED
      BY <2>0, <3>3, <3>4 DEF TypeOK
  <2>4. ASSUME NEW r \in Run, PrepareFails(r)
        PROVE  TypeOK'
    <3>1. PICK b \in BOOLEAN : ready' = [ready EXCEPT ![r] = b]
      BY <2>4 DEF PrepareFails
    <3>2. /\ worker' = [worker EXCEPT ![r] = "over"]
          /\ result' = [result EXCEPT ![r] = "error"]
          /\ UNCHANGED <<queue, stream, sent, turn, pre, streamed, foreign, published>>
      BY <2>4, Zenon DEF PrepareFails
    <3> QED
      BY <2>0, <3>1, <3>2 DEF TypeOK, Ends
  <2>5. ASSUME NEW r \in Run, NEW said, SegmentStep(r, said)
        PROVE  TypeOK'
    <3>1. said \in Seq(Event)
      <4>1. RunEvent(r)' \subseteq Event
        BY <2>5 DEF RunEvent, Event, SegmentStep
      <4> QED
        BY <2>5, <4>1, SeqMonotonic DEF SegmentStep
    <3>2. queue' \in [Run -> Seq(Event)]
      BY <2>0, <2>5, <3>1, QueuesFill DEF SegmentStep, PublishOf
    <3>3. published' \in [Run -> Seq(Event)]
      <4>1. published[r] \o said \in Seq(Event)
        BY <2>0, <3>1, ConcatProperties
      <4> QED
        BY <2>0, <2>5, <4>1 DEF SegmentStep, PublishOf
    <3>4. /\ worker'[r] \in {"asking", "calling", "over"} /\ worker' = [worker EXCEPT ![r] = worker'[r]]
          /\ turn' = [turn EXCEPT ![r] = turn'[r]] /\ turn'[r] \in Nat /\ turn'[r] <= MaxTurns[r]
          /\ streamed' = [streamed EXCEPT ![r] = streamed'[r]] /\ streamed'[r] \in BOOLEAN
          /\ result' = [result EXCEPT ![r] = result'[r]] /\ result'[r] \in Ends \cup {result[r]}
          /\ UNCHANGED <<stream, sent, ready, pre, foreign>>
      BY <2>5 DEF SegmentStep
    <3>5. worker' \in [Run -> {"none", "preparing", "asking", "calling", "over"}]
      BY <2>0, <3>4
    <3>6. turn' \in [Run -> Nat] /\ \A q \in Run : turn'[q] <= MaxTurns[q]
      BY <2>0, <3>4
    <3>7. streamed' \in [Run -> BOOLEAN]
      <4>1. PICK b \in BOOLEAN : streamed' = [streamed EXCEPT ![r] = b]
        BY <3>4
      <4> QED
        BY <2>0, <4>1
    <3>8. result' \in [Run -> Ends \cup {"none"}]
      <4>1. result'[r] \in Ends \cup {"none"}
        BY <2>0, <3>4
      <4>2. PICK x \in Ends \cup {"none"} : result' = [result EXCEPT ![r] = x]
        BY <3>4, <4>1
      <4> QED
        BY <2>0, <4>2
    <3> QED
      BY <2>0, <3>2, <3>3, <3>4, <3>5, <3>6, <3>7, <3>8 DEF TypeOK
  <2>6. ASSUME NEW r \in Run, Open(r)
        PROVE  TypeOK'
    BY <2>0, <2>6 DEF TypeOK, Open
  <2>7. ASSUME NEW r \in Run, BeginReading(r)
        PROVE  TypeOK'
    <3>1. PICK events \in Seq(Event) : Send(r, events)
      <4>1. Send(r, IF ready[r] THEN pre[r] ELSE <<>>)
        BY <2>7, Zenon DEF BeginReading
      <4>2. (IF ready[r] THEN pre[r] ELSE <<>>) \in Seq(Event)
        BY <2>0, EmptySeq
      <4> QED
        BY <4>1, <4>2
    <3>2. sent' \in [Run -> Seq(Event)]
      BY <2>0, <3>1, SendTyped
    <3>3. stream' = [stream EXCEPT ![r] = "reading"] /\ UNCHANGED <<queue, segment, foreign, published>>
      BY <2>7, Zenon DEF BeginReading
    <3> QED
      BY <2>0, <3>2, <3>3 DEF TypeOK, segment
  <2>8. ASSUME NEW r \in Run, queue[r] # <<>>, SendOwn(r, Head(queue[r])),
               queue' = [queue EXCEPT ![r] = Tail(@)],
               UNCHANGED <<stream, segment, foreign, published>>
        PROVE  TypeOK'
    <3>1. queue' \in [Run -> Seq(Event)] /\ Head(queue[r]) \in Event
      BY <2>0, <2>8, QueueTyped
    <3>2. PICK events \in Seq(Event) : Send(r, events)
      BY <2>8, <3>1, OneEvent DEF SendOwn
    <3>3. sent' \in [Run -> Seq(Event)]
      BY <2>0, <3>2, SendTyped
    <3> QED
      BY <2>0, <2>8, <3>1, <3>3 DEF TypeOK, segment
  <2>9. ASSUME NEW r \in Run, SeeTaskOver(r)
        PROVE  TypeOK'
    BY <2>0, <2>9 DEF TypeOK, SeeTaskOver, segment, AfterTask
  <2>10. ASSUME NEW r \in Run, Drain(r), queue[r] = <<>>
         PROVE  TypeOK'
    BY <2>0, <2>10 DEF TypeOK, Drain, segment
  <2>11. ASSUME NEW r \in Run, Tell(r)
         PROVE  TypeOK'
    <3>1. sent' \in [Run -> Seq(Event)]
      <4>1. PICK words, last : Ending(r, words, last)
        BY <2>11, TellStep
      <4>2. words \o <<Of(r, last)>> \in Seq(Event)
        BY <4>1, EndingTyped, SeqMonotonic
      <4> QED
        BY <2>0, <4>1, <4>2, SendTyped DEF Ending
    <3>2. /\ stream' = [stream EXCEPT ![r] = "over"] /\ queue' = [queue EXCEPT ![r] = <<>>]
          /\ UNCHANGED <<segment, foreign, published>>
      BY <2>11, Zenon DEF Tell
    <3>3. queue' \in [Run -> Seq(Event)]
      BY <2>0, <3>2, EmptySeq
    <3> QED
      BY <2>0, <3>1, <3>2, <3>3 DEF TypeOK, segment
  <2>12. ASSUME NEW r \in Run, Disconnect(r)
         PROVE  TypeOK'
    <3>1. queue' \in [Run -> Seq(Event)]
      BY <2>0, <2>12, EmptySeq DEF Disconnect
    <3> QED
      BY <2>0, <2>12, <3>1 DEF TypeOK, Disconnect
  <2>13. ASSUME NEW r \in Run, Stream(r)
         PROVE  TypeOK'
    BY <2>13, <2>7, <2>8, <2>9, <2>10, <2>11 DEF Stream, Yield, Drain
  <2>14. ASSUME NEW r \in Run, Segment(r)
         PROVE  TypeOK'
    BY <2>14, <2>3, <2>4, <2>5, SegmentSteps
  <2> HIDE DEF Rest, Sequences
  <2> QED
    BY <2>1, <2>2, <2>6, <2>12, <2>13, <2>14 DEF Next
<1> QED
  BY <1>1, <1>2

\* Every reachable state is well typed, and no run makes more model calls than
\* max_tool_calls allows.
THEOREM TypeCorrect == Spec => []TypeOK
<1>1. Init => TypeOK
  BY TypesInductive
<1>2. TypeOK /\ [Next]_vars => TypeOK'
  BY TypesInductive
<1> QED
  BY <1>1, <1>2, PTL DEF Spec

-----------------------------------------------------------------------------
(* What a client has received and what is still coming.                    *)

\* What the bus carries: what runs say, and calls of other segments.
BusEvent ==
  [scope : Run, about : {"text", "tool"}, turn : Nat]
    \cup [scope : {Elsewhere, Nobody}, about : {"tool"}, turn : Nat]

HookEvent(r) == [scope : {r}, about : {"hook"}, turn : Nat]

OwnOf(r) == [scope : {r}, about : Own, turn : Nat]

\* What a client may be sent before the end.
ClientEvent(r) == OwnOf(r) \cup [scope : {Nobody}, about : {"tool"}, turn : Nat]

\* The events of r that wait in its queue, and all its client is due.
Coming(r) == Keep(queue[r], OwnOf(r))

Due(r) == pre[r] \o published[r]

EventsTyped(r) ==
  /\ queue[r] \in Seq(BusEvent)
  /\ published[r] \in Seq(RunEvent(r))
  /\ pre[r] \in Seq(HookEvent(r))
  /\ stream[r] # "over" => sent[r] \in Seq(ClientEvent(r))

\* A stream is opened with its segment and ends after it.
Staged(r) ==
  /\ worker[r] = "none" <=> stream[r] = "none"
  /\ stream[r] = "none" => queue[r] = <<>> /\ published[r] = <<>>
  /\ stream[r] \in {"none", "preparing"} => sent[r] = <<>>
  /\ stream[r] \in {"draining", "telling", "over", "gone"} => worker[r] = "over"
  /\ ready[r] => worker[r] \notin {"none", "preparing"}
  /\ stream[r] = "reading" => worker[r] # "preparing"
  /\ ~ ready[r] => pre[r] = <<>>

\* What was received and what is coming is what is due: nothing is lost between
\* the queue and the client, and nothing of another run gets in between.
Delivered(r) ==
  /\ stream[r] \in {"none", "preparing"} => Coming(r) = published[r]
  /\ stream[r] \in {"reading", "draining"} => Received(r) \o Coming(r) = Due(r)
  /\ stream[r] \in {"telling", "over"} => Received(r) = Due(r)
  /\ stream[r] = "gone" => IsPrefix(Received(r), Due(r))

Flow(r) == EventsTyped(r) /\ Staged(r) /\ Delivered(r)

\* What a client received, what it has coming and what it is due are sequences of
\* events.
LEMMA FlowTypes ==
  ASSUME TypeOK, NEW q \in Run
  PROVE  /\ Received(q) \in Seq(Event) /\ Coming(q) \in Seq(Event)
         /\ pre[q] \in Seq(Event) /\ published[q] \in Seq(Event) /\ Due(q) \in Seq(Event)
<1>1. /\ queue[q] \in Seq(Event) /\ sent[q] \in Seq(Event)
      /\ pre[q] \in Seq(Event) /\ published[q] \in Seq(Event)
  BY DEF TypeOK
<1> QED
  BY <1>1, KeepTyped, ConcatProperties DEF Received, Coming, Due

\* Nothing changes for a run whose stream, segment and queue a step leaves alone.
LEMMA FlowUnmoved ==
  ASSUME NEW q \in Run, Flow(q),
         queue'[q] = queue[q], stream'[q] = stream[q], sent'[q] = sent[q],
         worker'[q] = worker[q], turn'[q] = turn[q], ready'[q] = ready[q],
         pre'[q] = pre[q], published'[q] = published[q]
  PROVE  Flow(q)'
<1>1. Received(q)' = Received(q) /\ Coming(q)' = Coming(q) /\ Due(q)' = Due(q)
  BY DEF Received, Coming, Due
<1>2. RunEvent(q)' = RunEvent(q)
  BY DEF RunEvent
<1>3. EventsTyped(q)'
  BY <1>2 DEF Flow, EventsTyped
<1>4. Staged(q)'
  BY DEF Flow, Staged
<1>5. Delivered(q)'
  BY <1>1 DEF Flow, Delivered
<1> QED
  BY <1>3, <1>4, <1>5 DEF Flow

\* Nor does what other runs publish reach what its client is due.
LEMMA FlowForeign ==
  ASSUME TypeOK, NEW q \in Run, Flow(q),
         NEW T, T \subseteq BusEvent, T \cap OwnOf(q) = {},
         NEW said \in Seq(T), Publish(said),
         stream'[q] = stream[q], sent'[q] = sent[q],
         worker'[q] = worker[q], turn'[q] = turn[q], ready'[q] = ready[q],
         pre'[q] = pre[q], published'[q] = published[q]
  PROVE  Flow(q)'
<1>1. queue'[q] = IF Subscribed(q) THEN queue[q] \o said ELSE queue[q]
  BY DEF Publish
<1>2. CASE ~ Subscribed(q)
  BY <1>1, <1>2, FlowUnmoved
<1>3. CASE Subscribed(q)
  <2>1. queue[q] \in Seq(BusEvent) /\ said \in Seq(BusEvent)
    BY SeqMonotonic DEF Flow, EventsTyped
  <2>2. queue'[q] = queue[q] \o said /\ queue[q] \o said \in Seq(BusEvent)
    BY <1>1, <1>3, <2>1, ConcatProperties
  <2>3. Keep(said, OwnOf(q)) = <<>>
    BY KeepNone
  <2>4. Keep(queue[q] \o said, OwnOf(q)) = Keep(queue[q], OwnOf(q)) \o Keep(said, OwnOf(q))
    <3>1. \A a, b \in Seq(BusEvent) : Keep(a \o b, OwnOf(q)) = Keep(a, OwnOf(q)) \o Keep(b, OwnOf(q))
      BY KeepConcat
    <3> QED
      BY <2>1, <3>1
  <2>5. Coming(q)' = Coming(q)
    <3>1. Coming(q) \in Seq(Event)
      BY FlowTypes
    <3>2. Coming(q) \o <<>> = Coming(q)
      BY <3>1, ConcatEmptySeq
    <3> QED
      BY <2>2, <2>3, <2>4, <3>2 DEF Coming
  <2>6. Received(q)' = Received(q) /\ Due(q)' = Due(q) /\ RunEvent(q)' = RunEvent(q)
    BY DEF Received, Due, RunEvent
  <2>7. EventsTyped(q)'
    BY <2>2, <2>6 DEF Flow, EventsTyped
  <2>8. Staged(q)'
    BY <1>3 DEF Flow, Staged, Subscribed
  <2>9. Delivered(q)'
    BY <2>5, <2>6 DEF Flow, Delivered
  <2> QED
    BY <2>7, <2>8, <2>9 DEF Flow
<1> QED
  BY <1>2, <1>3

\* What a run publishes is due and coming at once.
LEMMA FlowPublished ==
  ASSUME TypeOK, \A q \in Run : Flow(q), NEW r \in Run, NEW said, SegmentStep(r, said)
  PROVE  \A q \in Run : Flow(q)'
<1>1. /\ worker[r] \in {"asking", "calling"} /\ worker'[r] \in {"asking", "calling", "over"}
      /\ said \in Seq(RunEvent(r)') /\ Publish(said)
      /\ turn'[r] \in Nat /\ turn[r] \in Nat /\ turn[r] <= turn'[r]
      /\ UNCHANGED <<stream, sent, ready, pre>>
  BY DEF SegmentStep, PublishOf, TypeOK
<1>2. published' = [published EXCEPT ![r] = @ \o said]
  BY DEF SegmentStep, PublishOf
<1>3. RunEvent(r)' \subseteq BusEvent /\ RunEvent(r)' \subseteq OwnOf(r) /\ RunEvent(r)' \subseteq Event
  BY <1>1 DEF RunEvent, BusEvent, OwnOf, Own, Event
<1>4. ASSUME NEW q \in Run, q # r
      PROVE  Flow(q)'
  <2>1. RunEvent(r)' \cap OwnOf(q) = {}
    BY <1>4 DEF RunEvent, OwnOf
  <2>2. worker'[q] = worker[q] /\ turn'[q] = turn[q] /\ published'[q] = published[q]
    BY <1>2, <1>4 DEF SegmentStep, TypeOK
  <2> HIDE DEF Flow
  <2> QED
    BY <1>1, <1>3, <2>1, <2>2, FlowForeign
<1>5. Flow(r)'
  <2>1. stream[r] \in {"preparing", "reading"} /\ stream'[r] = stream[r] /\ Subscribed(r)
    BY <1>1 DEF Flow, Staged, Subscribed, TypeOK
  <2>2. /\ queue[r] \in Seq(BusEvent) /\ said \in Seq(BusEvent) /\ said \in Seq(OwnOf(r))
        /\ said \in Seq(Event)
    BY <1>1, <1>3, SeqMonotonic DEF Flow, EventsTyped
  <2>3. queue'[r] = queue[r] \o said /\ queue[r] \o said \in Seq(BusEvent)
    BY <1>1, <2>1, <2>2, ConcatProperties DEF Publish
  <2>4. published'[r] = published[r] \o said
    BY <1>2 DEF TypeOK
  <2>5. published[r] \o said \in Seq(RunEvent(r)')
    <3>1. RunEvent(r) \subseteq RunEvent(r)'
      BY <1>1 DEF RunEvent
    <3>2. published[r] \in Seq(RunEvent(r)')
      BY <3>1, SeqMonotonic DEF Flow, EventsTyped
    <3> QED
      BY <1>1, <3>2, ConcatProperties
  <2>6. Coming(r)' = Coming(r) \o said
    <3>1. Keep(said, OwnOf(r)) = said
      BY <2>2, KeepAll
    <3>2. \A a, b \in Seq(BusEvent) : Keep(a \o b, OwnOf(r)) = Keep(a, OwnOf(r)) \o Keep(b, OwnOf(r))
      BY KeepConcat
    <3> QED
      BY <2>2, <2>3, <3>1, <3>2 DEF Coming
  <2>7. Received(r)' = Received(r)
    BY <1>1 DEF Received
  <2>0. \A a, b, c \in Seq(Event) : (a \o b) \o c = a \o (b \o c)
    BY ConcatAssociative
  <2>8. Due(r)' = Due(r) \o said
    <3>1. pre[r] \in Seq(Event) /\ published[r] \in Seq(Event)
      BY FlowTypes
    <3>2. (pre[r] \o published[r]) \o said = pre[r] \o (published[r] \o said)
      BY <2>0, <2>2, <3>1
    <3> QED
      BY <1>1, <2>4, <3>2 DEF Due
  <2>9. Received(r) \o (Coming(r) \o said) = (Received(r) \o Coming(r)) \o said
    <3>1. Received(r) \in Seq(Event) /\ Coming(r) \in Seq(Event)
      BY FlowTypes
    <3> QED
      BY <2>0, <2>2, <3>1
  <2>10. EventsTyped(r)'
    BY <1>1, <2>1, <2>3, <2>4, <2>5 DEF Flow, EventsTyped, HookEvent, ClientEvent
  <2>11. Staged(r)'
    BY <1>1, <2>1 DEF Flow, Staged
  <2>12. Delivered(r)'
    BY <2>1, <2>4, <2>6, <2>7, <2>8, <2>9 DEF Flow, Delivered
  <2> QED
    BY <2>10, <2>11, <2>12 DEF Flow
<1> QED
  BY <1>4, <1>5

\* The client gets the next event of its queue if it is of its run, or of nobody.
LEMMA FlowTaken ==
  ASSUME TypeOK, \A q \in Run : Flow(q), NEW r \in Run,
         stream[r] \in {"reading", "draining"}, queue[r] # <<>>,
         SendOwn(r, Head(queue[r])), queue' = [queue EXCEPT ![r] = Tail(@)],
         UNCHANGED <<stream, segment, foreign, published>>
  PROVE  \A q \in Run : Flow(q)'
<1> DEFINE e == Head(queue[r])
           sending == IF Matches(e, r) THEN <<e>> ELSE <<>>
           own == IF e \in OwnOf(r) THEN <<e>> ELSE <<>>
<1>1. e \in BusEvent /\ Tail(queue[r]) \in Seq(BusEvent) /\ queue[r] \in Seq(BusEvent)
  BY HeadTailProperties DEF Flow, EventsTyped
<1>2. e \in Event /\ BusEvent \subseteq Event
  BY <1>1 DEF BusEvent, Event
<1>3. Matches(e, r) => e \in ClientEvent(r)
  BY <1>1, NamesDistinct DEF BusEvent, ClientEvent, OwnOf, Own, Matches
<1>4. (e \in OwnOf(r) => Matches(e, r) /\ e \in OwnEvents)
      /\ (Matches(e, r) /\ e \notin OwnOf(r) => e \notin OwnEvents)
  BY <1>1, NamesDistinct DEF BusEvent, OwnOf, Own, OwnEvents, Matches, Elsewhere, Nobody
<1>5. queue'[r] = Tail(queue[r])
  BY DEF TypeOK
<1> HIDE DEF e
<1>6. sending \in Seq(ClientEvent(r)) /\ sending \in Seq(Event) /\ own \in Seq(Event)
  BY <1>2, <1>3, OneEvent
<1>7. Keep(sending, OwnEvents) = own
  BY <1>4, KeepOne, KeepEmpty
<1>8. /\ sent'[r] = sent[r] \o sending
      /\ \A q \in Run : q # r => sent'[q] = sent[q]
  <2>1. Send(r, sending)
    BY DEF SendOwn, e
  <2>2. sent \in [Run -> Seq(Event)]
    BY DEF TypeOK
  <2> HIDE DEF sending
  <2> QED
    BY <1>6, <2>1, <2>2, SendTyped
<1>9. Received(r)' = Received(r) \o own
  <2>1. sent[r] \in Seq(Event)
    BY DEF TypeOK
  <2>2. \A a, b \in Seq(Event) : Keep(a \o b, OwnEvents) = Keep(a, OwnEvents) \o Keep(b, OwnEvents)
    BY KeepConcat
  <2> HIDE DEF sending, own
  <2> QED
    BY <1>6, <1>7, <1>8, <2>1, <2>2 DEF Received
<1>10. Coming(r) = own \o Coming(r)'
  BY <1>1, <1>5, KeepHead DEF Coming, e
<1>11. Coming(r)' \in Seq(Event)
  <2>1. Tail(queue[r]) \in Seq(Event)
    BY <1>1, <1>2, SeqMonotonic
  <2> QED
    BY <1>5, <2>1, KeepTyped DEF Coming
<1>12. Due(r)' = Due(r)
  BY DEF Due, segment
<1>13. Flow(r)'
  <2>1. EventsTyped(r)'
    <3>1. sent[r] \o sending \in Seq(ClientEvent(r))
      <4> HIDE DEF sending
      <4> QED
        BY <1>6, ConcatProperties DEF Flow, EventsTyped
    <3> QED
      BY <1>1, <1>5, <1>8, <3>1 DEF Flow, EventsTyped, segment, RunEvent, HookEvent, ClientEvent
  <2>2. Staged(r)'
    BY DEF Flow, Staged, segment
  <2>3. Delivered(r)'
    <3>1. Received(r) \in Seq(Event)
      BY FlowTypes
    <3>2. (Received(r) \o own) \o Coming(r)' = Received(r) \o (own \o Coming(r)')
      <4>1. \A a, b, c \in Seq(Event) : (a \o b) \o c = a \o (b \o c)
        BY ConcatAssociative
      <4> HIDE DEF own
      <4> QED
        BY <1>6, <1>11, <3>1, <4>1
    <3> HIDE DEF own
    <3> QED
      BY <1>9, <1>10, <1>12, <3>2 DEF Flow, Delivered
  <2> QED
    BY <2>1, <2>2, <2>3 DEF Flow
<1>14. ASSUME NEW q \in Run, q # r
       PROVE  Flow(q)'
  <2>1. queue'[q] = queue[q] /\ sent'[q] = sent[q]
    BY <1>8, <1>14 DEF TypeOK
  <2> HIDE DEF Flow
  <2> QED
    BY <2>1, FlowUnmoved DEF segment
<1> QED
  BY <1>13, <1>14

\* A segment that gets ready, or fails to, has published nothing.
LEMMA FlowPrepared ==
  ASSUME TypeOK, \A q \in Run : Flow(q), NEW r \in Run, Prepare(r) \/ PrepareFails(r)
  PROVE  \A q \in Run : Flow(q)'
<1>1. /\ worker[r] = "preparing"
      /\ UNCHANGED <<queue, stream, sent, turn, published>>
  BY Zenon DEF Prepare, PrepareFails
<1>2. CASE Prepare(r)
  <2>1. PICK events \in {<<>>, <<Of(r, "hook")>>} : pre' = [pre EXCEPT ![r] = events]
    BY <1>2 DEF Prepare
  <2>2. worker' = [worker EXCEPT ![r] = "asking"] /\ ready' = [ready EXCEPT ![r] = TRUE]
    BY <1>2, Zenon DEF Prepare
  <2>3. Flow(r)'
    <3>1. pre'[r] = events /\ worker'[r] = "asking" /\ ready'[r]
      BY <2>1, <2>2 DEF TypeOK
    <3>2. Of(r, "hook") \in HookEvent(r)
      BY DEF Of, HookEvent, TypeOK
    <3>3. events \in Seq(HookEvent(r))
      BY <2>1, <3>2, OneEvent
    <3>4. stream[r] = "preparing"
      BY <1>1 DEF Flow, Staged, TypeOK
    <3>5. EventsTyped(r)'
      BY <1>1, <3>1, <3>3 DEF Flow, EventsTyped, RunEvent, HookEvent
    <3>6. Staged(r)'
      BY <1>1, <3>1, <3>4 DEF Flow, Staged
    <3>7. Delivered(r)'
      BY <1>1, <3>4 DEF Flow, Delivered, Coming
    <3> QED
      BY <3>5, <3>6, <3>7 DEF Flow
  <2>4. ASSUME NEW q \in Run, q # r
        PROVE  Flow(q)'
    <3>1. pre'[q] = pre[q] /\ worker'[q] = worker[q] /\ ready'[q] = ready[q]
      BY <2>1, <2>2, <2>4 DEF TypeOK
    <3> HIDE DEF Flow
    <3> QED
      BY <1>1, <3>1, FlowUnmoved
  <2> QED
    BY <2>3, <2>4
<1>3. CASE PrepareFails(r)
  <2>1. PICK b \in BOOLEAN : ready' = [ready EXCEPT ![r] = b]
    BY <1>3 DEF PrepareFails
  <2>2. worker' = [worker EXCEPT ![r] = "over"] /\ UNCHANGED pre
    BY <1>3, Zenon DEF PrepareFails
  <2>3. Flow(r)'
    <3>1. worker'[r] = "over" /\ ~ ready[r]
      BY <1>1, <2>2 DEF TypeOK, Flow, Staged
    <3>2. stream[r] = "preparing" /\ pre[r] = <<>>
      BY <1>1, <3>1 DEF Flow, Staged, TypeOK
    <3>3. EventsTyped(r)'
      BY <1>1, <2>2 DEF Flow, EventsTyped, RunEvent, HookEvent
    <3>4. Staged(r)'
      BY <1>1, <2>2, <3>1, <3>2 DEF Flow, Staged
    <3>5. Delivered(r)'
      BY <1>1, <3>2 DEF Flow, Delivered, Coming
    <3> QED
      BY <3>3, <3>4, <3>5 DEF Flow
  <2>4. ASSUME NEW q \in Run, q # r
        PROVE  Flow(q)'
    <3>1. worker'[q] = worker[q] /\ ready'[q] = ready[q]
      BY <2>1, <2>2, <2>4 DEF TypeOK
    <3> HIDE DEF Flow
    <3> QED
      BY <1>1, <2>2, <3>1, FlowUnmoved
  <2> QED
    BY <2>3, <2>4
<1> QED
  BY <1>2, <1>3

\* The hook permissions come first; what was published is still in the queue.
LEMMA FlowBegun ==
  ASSUME TypeOK, \A q \in Run : Flow(q), NEW r \in Run, BeginReading(r)
  PROVE  \A q \in Run : Flow(q)'
<1>1. /\ stream[r] = "preparing" /\ PrepOver(r)
      /\ stream' = [stream EXCEPT ![r] = "reading"]
      /\ UNCHANGED <<queue, segment, foreign, published>>
      /\ Send(r, IF ready[r] THEN pre[r] ELSE <<>>)
  BY Zenon DEF BeginReading
<1>2. sent[r] = <<>> /\ Send(r, pre[r])
  BY <1>1 DEF Flow, Staged
<1>3. pre[r] \in Seq(HookEvent(r)) /\ pre[r] \in Seq(ClientEvent(r)) /\ pre[r] \in Seq(Event)
  <2>1. HookEvent(r) \subseteq ClientEvent(r)
    BY DEF HookEvent, ClientEvent, OwnOf, Own
  <2> QED
    BY <2>1, SeqMonotonic DEF TypeOK, Flow, EventsTyped
<1>4. sent'[r] = pre[r] /\ \A q \in Run : q # r => sent'[q] = sent[q]
  <2>1. sent \in [Run -> Seq(Event)]
    BY DEF TypeOK
  <2>2. sent'[r] = sent[r] \o pre[r] /\ \A q \in Run : q # r => sent'[q] = sent[q]
    BY <1>2, <1>3, <2>1, SendTyped
  <2> QED
    BY <1>2, <1>3, <2>2, ConcatEmptySeq
<1>5. Flow(r)'
  <2>1. stream'[r] = "reading"
    BY <1>1 DEF TypeOK
  <2>2. Received(r)' = pre[r]
    <3>1. HookEvent(r) \subseteq OwnEvents
      BY DEF HookEvent, OwnEvents, Own
    <3> QED
      BY <1>3, <1>4, <3>1, KeepAll DEF Received
  <2>3. EventsTyped(r)'
    BY <1>1, <1>3, <1>4 DEF Flow, EventsTyped, segment, RunEvent, HookEvent, ClientEvent
  <2>4. Staged(r)'
    BY <1>1, <2>1 DEF Flow, Staged, segment, PrepOver
  <2>5. Delivered(r)'
    BY <1>1, <2>1, <2>2 DEF Flow, Delivered, segment, Coming, Due
  <2> QED
    BY <2>3, <2>4, <2>5 DEF Flow
<1>6. ASSUME NEW q \in Run, q # r
      PROVE  Flow(q)'
  <2>1. stream'[q] = stream[q]
    BY <1>1, <1>6 DEF TypeOK
  <2> HIDE DEF Flow
  <2> QED
    BY <1>1, <1>4, <1>6, <2>1, FlowUnmoved DEF segment
<1> QED
  BY <1>5, <1>6

\* A stream moves on: opened, the task over, the queue empty.
LEMMA FlowMoved ==
  ASSUME TypeOK, \A q \in Run : Flow(q), NEW r \in Run,
         \/ Open(r)
         \/ SeeTaskOver(r)
         \/ Drain(r) /\ queue[r] = <<>>
  PROVE  \A q \in Run : Flow(q)'
<1>1. UNCHANGED <<queue, sent, turn, ready, pre, published>>
  BY DEF Open, SeeTaskOver, Drain, segment
<1>2. /\ stream' = [stream EXCEPT ![r] = stream'[r]]
      /\ worker' = [worker EXCEPT ![r] = worker'[r]]
      /\ \/ stream[r] = "none" /\ stream'[r] = "preparing" /\ worker'[r] = "preparing"
         \/ /\ stream[r] = "reading" /\ stream'[r] = "draining"
            /\ worker[r] = "over" /\ worker'[r] = "over"
         \/ /\ stream[r] = "draining" /\ stream'[r] = "telling" /\ queue[r] = <<>>
            /\ worker'[r] = worker[r]
  BY DEF Open, SeeTaskOver, Drain, segment, AfterTask, TypeOK
<1>3. Flow(r)'
  <2>1. EventsTyped(r)'
    BY <1>1, <1>2 DEF Flow, EventsTyped, RunEvent, HookEvent, ClientEvent
  <2>2. Staged(r)'
    BY <1>1, <1>2 DEF Flow, Staged
  <2>3. Received(r)' = Received(r) /\ Coming(r)' = Coming(r) /\ Due(r)' = Due(r)
    BY <1>1 DEF Received, Coming, Due
  <2>4. queue[r] = <<>> => Received(r) \o Coming(r) = Received(r)
    BY FlowTypes, KeepEmpty, ConcatEmptySeq DEF Coming
  <2>5. published'[r] = published[r]
    BY <1>1
  <2>6. Delivered(r)'
    BY <1>2, <2>3, <2>4, <2>5 DEF Flow, Delivered
  <2> QED
    BY <2>1, <2>2, <2>6 DEF Flow
<1>4. ASSUME NEW q \in Run, q # r
      PROVE  Flow(q)'
  <2>1. stream'[q] = stream[q] /\ worker'[q] = worker[q]
    BY <1>2, <1>4 DEF TypeOK
  <2> HIDE DEF Flow
  <2> QED
    BY <1>1, <2>1, FlowUnmoved
<1> QED
  BY <1>3, <1>4

\* The end of a run is not among what it is due, and comes when nothing is coming.
LEMMA FlowTold ==
  ASSUME TypeOK, \A q \in Run : Flow(q), NEW r \in Run, Tell(r)
  PROVE  \A q \in Run : Flow(q)'
<1>1. /\ stream[r] = "telling" /\ stream' = [stream EXCEPT ![r] = "over"]
      /\ queue' = [queue EXCEPT ![r] = <<>>]
      /\ UNCHANGED <<segment, foreign, published>>
  BY Zenon DEF Tell
<1>2. PICK words, last : Ending(r, words, last)
  BY TellStep
<1> DEFINE events == words \o <<Of(r, last)>>
<1>3. events \in Seq(EndEvent(r)) /\ events \in Seq(Event)
  BY <1>2, EndingTyped, SeqMonotonic
<1>4. Send(r, events)
  BY <1>2 DEF Ending
<1> HIDE DEF events
<1>5. sent'[r] = sent[r] \o events /\ \A q \in Run : q # r => sent'[q] = sent[q]
  <2>1. sent \in [Run -> Seq(Event)]
    BY DEF TypeOK
  <2> QED
    BY <1>3, <1>4, <2>1, SendTyped
<1>6. Flow(r)'
  <2>1. stream'[r] = "over" /\ queue'[r] = <<>> /\ worker[r] = "over"
    BY <1>1 DEF TypeOK, Flow, Staged
  <2>2. Received(r)' = Received(r)
    <3>1. EndEvent(r) \cap OwnEvents = {}
      BY DEF EndEvent, OwnEvents, Own
    <3>2. Keep(events, OwnEvents) = <<>>
      BY <1>3, <3>1, KeepNone
    <3>3. sent[r] \in Seq(Event)
      BY DEF TypeOK
    <3>4. \A a, b \in Seq(Event) : Keep(a \o b, OwnEvents) = Keep(a, OwnEvents) \o Keep(b, OwnEvents)
      BY KeepConcat
    <3>5. Received(r) \o <<>> = Received(r)
      BY FlowTypes, ConcatEmptySeq
    <3> QED
      BY <1>3, <1>5, <3>2, <3>3, <3>4, <3>5 DEF Received
  <2>3. EventsTyped(r)'
    BY <1>1, <2>1, EmptySeq DEF Flow, EventsTyped, segment, RunEvent, HookEvent
  <2>4. Staged(r)'
    BY <1>1, <2>1 DEF Flow, Staged, segment
  <2>5. Delivered(r)'
    BY <1>1, <2>1, <2>2 DEF Flow, Delivered, segment, Due
  <2> QED
    BY <2>3, <2>4, <2>5 DEF Flow
<1>7. ASSUME NEW q \in Run, q # r
      PROVE  Flow(q)'
  <2>1. stream'[q] = stream[q] /\ queue'[q] = queue[q]
    BY <1>1, <1>7 DEF TypeOK
  <2> HIDE DEF Flow
  <2> QED
    BY <1>1, <1>5, <1>7, <2>1, FlowUnmoved DEF segment
<1> QED
  BY <1>6, <1>7

\* A client that goes away has a part of what it was due.
LEMMA FlowDisconnected ==
  ASSUME TypeOK, \A q \in Run : Flow(q), NEW r \in Run, Disconnect(r)
  PROVE  \A q \in Run : Flow(q)'
<1>1. /\ Subscribed(r)
      /\ stream' = [stream EXCEPT ![r] = "gone"] /\ worker' = [worker EXCEPT ![r] = "over"]
      /\ queue' = [queue EXCEPT ![r] = <<>>]
      /\ UNCHANGED <<sent, turn, ready, pre, streamed, result, foreign, published>>
  BY Zenon DEF Disconnect
<1>2. Flow(r)'
  <2>1. stream'[r] = "gone" /\ worker'[r] = "over" /\ queue'[r] = <<>>
    BY <1>1 DEF TypeOK
  <2>2. Received(r)' = Received(r) /\ Due(r)' = Due(r)
    BY <1>1 DEF Received, Due
  <2>3. IsPrefix(Received(r), Due(r))
    <3>1. Received(r) \in Seq(Event) /\ Coming(r) \in Seq(Event) /\ Due(r) \in Seq(Event)
      BY FlowTypes
    <3>2. \A a, b \in Seq(Event) : IsPrefix(a, a \o b) /\ IsPrefix(a, a)
      BY PrefixOfConcat
    <3>3. CASE stream[r] = "preparing"
      <4>1. Received(r) = <<>>
        BY <3>3, KeepEmpty DEF Flow, Staged, Received
      <4>2. <<>> \in Seq(Event) /\ <<>> \o Due(r) = Due(r)
        BY <3>1, EmptySeq, ConcatEmptySeq
      <4> QED
        BY <3>1, <3>2, <4>1, <4>2
    <3>4. CASE stream[r] \in {"reading", "draining"}
      BY <3>1, <3>2, <3>4 DEF Flow, Delivered
    <3>5. CASE stream[r] = "telling"
      BY <3>1, <3>2, <3>5 DEF Flow, Delivered
    <3> QED
      BY <1>1, <3>3, <3>4, <3>5 DEF Subscribed, TypeOK
  <2>4. EventsTyped(r)'
    BY <1>1, <2>1, EmptySeq DEF Flow, EventsTyped, Subscribed, RunEvent, HookEvent, ClientEvent
  <2>5. Staged(r)'
    BY <1>1, <2>1 DEF Flow, Staged, Subscribed
  <2>6. Delivered(r)'
    BY <2>1, <2>2, <2>3 DEF Delivered
  <2> QED
    BY <2>4, <2>5, <2>6 DEF Flow
<1>3. ASSUME NEW q \in Run, q # r
      PROVE  Flow(q)'
  <2>1. stream'[q] = stream[q] /\ worker'[q] = worker[q] /\ queue'[q] = queue[q]
    BY <1>1, <1>3 DEF TypeOK
  <2> HIDE DEF Flow
  <2> QED
    BY <1>1, <2>1, FlowUnmoved
<1> QED
  BY <1>2, <1>3

\* Events of other segments of the pod reach the queue, and no client's own events.
LEMMA FlowElsewhere ==
  ASSUME TypeOK, \A q \in Run : Flow(q), PublishElsewhere
  PROVE  \A q \in Run : Flow(q)'
<1>1. PICK scope \in {Elsewhere, Nobody} :
        Publish(<<[scope |-> scope, about |-> "tool", turn |-> 0]>>)
  BY DEF PublishElsewhere
<1>2. UNCHANGED <<stream, sent, segment, published>>
  BY Zenon DEF PublishElsewhere
<1> DEFINE e == [scope |-> scope, about |-> "tool", turn |-> 0]
<1>3. e \in BusEvent
  BY DEF BusEvent
<1>4. ASSUME NEW q \in Run
      PROVE  Flow(q)'
  <2>1. {e} \cap OwnOf(q) = {}
    BY NamesDistinct DEF OwnOf
  <2> HIDE DEF e, Flow
  <2>2. <<e>> \in Seq({e}) /\ {e} \subseteq BusEvent
    BY <1>3, OneEvent
  <2>3. Publish(<<e>>)
    BY <1>1 DEF e
  <2> QED
    BY <1>2, <2>1, <2>2, <2>3, FlowForeign DEF segment
<1> QED
  BY <1>4

-----------------------------------------------------------------------------
(* The order of delivery.                                                  *)

\* Flow is inductive: every event a run published is staged, queued or delivered.
LEMMA FlowInductive ==
  /\ Init => \A r \in Run : Flow(r)
  /\ TypeOK /\ (\A r \in Run : Flow(r)) /\ [Next]_vars => \A r \in Run : Flow(r)'
<1>1. Init => \A r \in Run : Flow(r)
  <2> SUFFICES ASSUME Init, NEW r \in Run PROVE Flow(r)
    OBVIOUS
  <2>1. EventsTyped(r)
    BY EmptySeq DEF Init, EventsTyped
  <2>2. Staged(r)
    BY DEF Init, Staged
  <2>3. Delivered(r)
    BY KeepEmpty DEF Init, Delivered, Coming
  <2> QED
    BY <2>1, <2>2, <2>3 DEF Flow
<1>2. TypeOK /\ (\A r \in Run : Flow(r)) /\ [Next]_vars => \A r \in Run : Flow(r)'
  <2> SUFFICES ASSUME TypeOK, \A r \in Run : Flow(r), [Next]_vars
               PROVE  \A r \in Run : Flow(r)'
    OBVIOUS
  <2>1. CASE UNCHANGED vars
    BY <2>1, FlowUnmoved DEF vars
  <2>2. ASSUME NEW r \in Run, Segment(r)
        PROVE  \A q \in Run : Flow(q)'
    BY <2>2, SegmentSteps, FlowPrepared, FlowPublished
  <2>3. ASSUME NEW r \in Run, Yield(r) \/ (Drain(r) /\ queue[r] # <<>>)
        PROVE  \A q \in Run : Flow(q)'
    <3>1. /\ stream[r] \in {"reading", "draining"} /\ queue[r] # <<>>
          /\ SendOwn(r, Head(queue[r])) /\ queue' = [queue EXCEPT ![r] = Tail(@)]
          /\ UNCHANGED <<stream, segment, foreign, published>>
      BY <2>3 DEF Yield, Drain
    <3> HIDE DEF Flow
    <3> QED
      BY <3>1, FlowTaken
  <2>4. ASSUME NEW r \in Run, Stream(r)
        PROVE  \A q \in Run : Flow(q)'
    BY <2>3, <2>4, FlowBegun, FlowMoved, FlowTold DEF Stream
  <2>5. CASE PublishElsewhere
    BY <2>5, FlowElsewhere
  <2>6. ASSUME NEW r \in Run, Open(r) \/ Disconnect(r)
        PROVE  \A q \in Run : Flow(q)'
    BY <2>6, FlowMoved, FlowDisconnected
  <2> QED
    BY <2>1, <2>2, <2>4, <2>5, <2>6 DEF Next
<1> QED
  BY <1>1, <1>2

\* Flow holds in every reachable state.
LEMMA AllFlow == Spec => [](TypeOK /\ \A r \in Run : Flow(r))
<1>1. Init => TypeOK /\ \A r \in Run : Flow(r)
  BY TypesInductive, FlowInductive
<1>2. (TypeOK /\ \A r \in Run : Flow(r)) /\ [Next]_vars => (TypeOK /\ \A r \in Run : Flow(r))'
  BY TypesInductive, FlowInductive
<1> QED
  BY <1>1, <1>2, PTL DEF Spec

\* Whatever the bus carries of other runs, whenever a stream begins to read and
\* whenever its segment ends, a client has received a beginning of what its run
\* has published, in that order, each event once.
THEOREM OrderKept == Spec => []OwnInOrder
<1>1. TypeOK /\ (\A r \in Run : Flow(r)) => OwnInOrder
  <2> SUFFICES ASSUME TypeOK, NEW r \in Run, Flow(r)
               PROVE  IsPrefix(Received(r), Due(r))
    BY DEF OwnInOrder, Due
  <2>1. Received(r) \in Seq(Event) /\ Coming(r) \in Seq(Event) /\ Due(r) \in Seq(Event)
    BY FlowTypes
  <2>2. \A a, b \in Seq(Event) : IsPrefix(a, a \o b) /\ IsPrefix(a, a)
    BY PrefixOfConcat
  <2>3. CASE stream[r] \in {"none", "preparing"}
    <3>1. Received(r) = <<>>
      BY <2>3, KeepEmpty DEF Flow, Staged, Received
    <3>2. <<>> \in Seq(Event) /\ <<>> \o Due(r) = Due(r)
      BY <2>1, EmptySeq, ConcatEmptySeq
    <3> QED
      BY <2>1, <2>2, <3>1, <3>2
  <2>4. CASE stream[r] \in {"reading", "draining"}
    BY <2>1, <2>2, <2>4 DEF Flow, Delivered
  <2>5. CASE stream[r] \in {"telling", "over"}
    BY <2>1, <2>2, <2>5 DEF Flow, Delivered
  <2>6. CASE stream[r] = "gone"
    BY <2>6 DEF Flow, Delivered
  <2> QED
    BY <2>3, <2>4, <2>5, <2>6 DEF TypeOK
<1> QED
  BY <1>1, AllFlow, PTL

\* When the end of a run is told, its client has received all the run published.
THEOREM AllBeforeTheEnd == Spec => []NothingAfterTheEnd
<1>1. TypeOK /\ (\A r \in Run : Flow(r)) => NothingAfterTheEnd
  BY DEF NothingAfterTheEnd, Flow, Delivered, Due
<1> QED
  BY <1>1, AllFlow, PTL

-----------------------------------------------------------------------------
(* The answer, when the model streams.                                     *)

\* A run with an answer has streamed its words, which are the only ones of its last
\* turn, and its client has them once when it has been told the end.
Spoken(r) ==
  result[r] = "answer" =>
    /\ worker[r] = "over" /\ streamed[r]
    /\ Len(Keep(published[r], LastWords(turn[r]))) = 1
    /\ stream[r] = "over" => Len(Keep(sent[r], LastWords(turn[r]))) = 1

\* Nothing changes for a run whose segment and stream a step leaves alone.
LEMMA SpokenUnmoved ==
  ASSUME NEW q \in Run, Spoken(q),
         result'[q] = result[q], streamed'[q] = streamed[q], published'[q] = published[q],
         turn'[q] = turn[q], stream'[q] = "over" => stream[q] = "over" /\ sent'[q] = sent[q],
         worker[q] = "over" => worker'[q] = "over"
  PROVE  Spoken(q)'
BY DEF Spoken

\* The words of the last turn are the only ones the bus has carried of it.
LEMMA SpokenAsk ==
  ASSUME Streaming, TypeOK, \A q \in Run : Flow(q), \A q \in Run : Spoken(q), NEW r \in Run, Ask(r)
  PROVE  \A q \in Run : Spoken(q)'
<1> DEFINE e == [Of(r, "text") EXCEPT !.turn = turn[r] + 1]
<1>1. PICK text \in BOOLEAN, calls \in BOOLEAN :
        /\ text \/ calls
        /\ PublishOf(r, IF Speaks(r, text, calls) THEN <<e>> ELSE <<>>)
        /\ streamed' = [streamed EXCEPT ![r] = TextStreamed(r, text, calls)]
        /\ worker' = [worker EXCEPT ![r] = IF calls THEN "calling" ELSE "over"]
        /\ result' = [result EXCEPT ![r] = IF calls THEN @ ELSE "answer"]
  BY Zenon DEF Ask
<1>2. worker[r] = "asking" /\ turn' = [turn EXCEPT ![r] = turn[r] + 1] /\ UNCHANGED <<stream, sent>>
  BY Zenon DEF Ask
<1>3. turn[r] \in Nat /\ turn'[r] = turn[r] + 1
  BY <1>2 DEF TypeOK
<1>4. e = [scope |-> r, about |-> "text", turn |-> turn[r] + 1]
  BY DEF Of
<1> HIDE DEF e
<1>5. Spoken(r)'
  <2>1. CASE calls
    <3>1. result'[r] = result[r]
      BY <1>1, <2>1 DEF TypeOK
    <3> QED
      BY <1>2, <3>1 DEF Spoken
  <2>2. CASE ~ calls
    <3>1. text /\ Speaks(r, text, calls) /\ TextStreamed(r, text, calls)
      BY <1>1, <2>2 DEF Speaks, TextStreamed
    <3>2. published'[r] = published[r] \o <<e>>
      BY <1>1, <3>1 DEF PublishOf, TypeOK
    <3>3. worker'[r] = "over" /\ streamed'[r]
      BY <1>1, <2>2, <3>1 DEF TypeOK
    <3>4. stream'[r] # "over"
      BY <1>2 DEF Flow, Staged
    <3> DEFINE T == LastWords(turn[r] + 1)
    <3>5. e \in T
      BY <1>3, <1>4 DEF LastWords
    <3>6. RunEvent(r) \cap T = {}
      BY <1>3 DEF RunEvent, LastWords
    <3> HIDE DEF T
    <3>7. Keep(published[r], T) = <<>>
      BY <3>6, KeepNone DEF Flow, EventsTyped
    <3>8. Keep(published[r] \o <<e>>, T) = Keep(published[r], T) \o Keep(<<e>>, T)
      <4>1. published[r] \in Seq(Event) /\ <<e>> \in Seq(Event)
        <5>1. e \in Event
          BY <1>3, <1>4 DEF Event
        <5> QED
          BY <5>1, OneEvent DEF TypeOK
      <4>2. \A a, b \in Seq(Event) : Keep(a \o b, T) = Keep(a, T) \o Keep(b, T)
        BY KeepConcat
      <4> QED
        BY <4>1, <4>2
    <3>9. Len(<<>> \o <<e>>) = 1
      OBVIOUS
    <3>10. Len(Keep(published'[r], T)) = 1
      BY <3>2, <3>5, <3>7, <3>8, <3>9, KeepOne
    <3> QED
      BY <1>3, <3>3, <3>4, <3>10 DEF Spoken, T
  <2> QED
    BY <2>1, <2>2
<1>6. ASSUME NEW q \in Run, q # r
      PROVE  Spoken(q)'
  <2>1. published'[q] = published[q]
    BY <1>1, <1>6 DEF PublishOf, TypeOK
  <2>2. /\ result'[q] = result[q] /\ streamed'[q] = streamed[q] /\ turn'[q] = turn[q]
        /\ worker'[q] = worker[q] /\ stream'[q] = stream[q] /\ sent'[q] = sent[q]
    BY <1>1, <1>2, <1>6 DEF TypeOK
  <2> QED
    BY <2>1, <2>2, SpokenUnmoved
<1> QED
  BY <1>5, <1>6

\* A failed model call, a batch of tool calls and a failed preparation answer nothing.
LEMMA SpokenSilent ==
  ASSUME TypeOK, \A q \in Run : Spoken(q), NEW r \in Run,
         AskFails(r) \/ Call(r) \/ Prepare(r) \/ PrepareFails(r)
  PROVE  \A q \in Run : Spoken(q)'
<1>1. worker[r] \in {"asking", "calling", "preparing"} /\ UNCHANGED <<stream, sent, turn>>
  BY Zenon DEF AskFails, Call, Prepare, PrepareFails
<1>2. \E b, x, w :
        /\ \A q \in Run : q # r => streamed'[q] = streamed[q]
        /\ result' = [result EXCEPT ![r] = x] /\ x \in {result[r], "error", "await", "limit"}
        /\ worker' = [worker EXCEPT ![r] = w]
        /\ \A q \in Run : q # r => published'[q] = published[q]
  <2>1. CASE AskFails(r)
    <3>1. \A q \in Run : q # r => streamed'[q] = streamed[q] /\ published'[q] = published[q]
      BY <2>1 DEF AskFails, PublishOf, TypeOK
    <3>2. worker' = [worker EXCEPT ![r] = "over"] /\ result' = [result EXCEPT ![r] = "error"]
      BY <2>1, Zenon DEF AskFails
    <3> QED
      BY <3>1, <3>2
  <2>2. CASE Call(r)
    <3>1. \A q \in Run : q # r => streamed'[q] = streamed[q] /\ published'[q] = published[q]
      BY <2>2 DEF Call, PublishOf, TypeOK
    <3>2. PICK next \in {"asking", "await", "limit"} :
            /\ worker' = [worker EXCEPT ![r] = IF next = "asking" THEN "asking" ELSE "over"]
            /\ result' = [result EXCEPT ![r] = IF next = "asking" THEN result[r] ELSE next]
      BY <2>2 DEF Call
    <3> QED
      BY <3>1, <3>2
  <2>3. CASE Prepare(r)
    <3>1. UNCHANGED <<streamed, result, published>> /\ worker' = [worker EXCEPT ![r] = "asking"]
      BY <2>3, Zenon DEF Prepare
    <3>2. result' = [result EXCEPT ![r] = result[r]]
      BY <3>1 DEF TypeOK
    <3> QED
      BY <3>1, <3>2
  <2>4. CASE PrepareFails(r)
    <3>1. /\ UNCHANGED <<streamed, published>> /\ worker' = [worker EXCEPT ![r] = "over"]
          /\ result' = [result EXCEPT ![r] = "error"]
      BY <2>4, Zenon DEF PrepareFails
    <3> QED
      BY <3>1
  <2> QED
    BY <2>1, <2>2, <2>3, <2>4
<1>3. ASSUME NEW q \in Run
      PROVE  Spoken(q)'
  <2>1. CASE q = r
    <3>1. result[r] # "answer"
      BY <1>1 DEF Spoken
    <3>2. result'[r] # "answer"
      BY <1>2, <3>1 DEF TypeOK
    <3> QED
      BY <2>1, <3>2 DEF Spoken
  <2>2. CASE q # r
    <3>1. /\ streamed'[q] = streamed[q] /\ result'[q] = result[q] /\ worker'[q] = worker[q]
          /\ published'[q] = published[q] /\ stream'[q] = stream[q] /\ sent'[q] = sent[q]
          /\ turn'[q] = turn[q]
      BY <1>1, <1>2, <2>2 DEF TypeOK
    <3> QED
      BY <3>1, SpokenUnmoved
  <2> QED
    BY <2>1, <2>2
<1> QED
  BY <1>3

\* The words are among what the client was due, all of which it has, and the end
\* does not repeat them.
LEMMA SpokenTold ==
  ASSUME TypeOK, \A q \in Run : Flow(q), \A q \in Run : Spoken(q), NEW r \in Run, Tell(r)
  PROVE  \A q \in Run : Spoken(q)'
<1>1. /\ stream[r] = "telling" /\ stream' = [stream EXCEPT ![r] = "over"]
      /\ UNCHANGED <<segment, published>>
  BY Zenon DEF Tell
<1>2. PICK words, last : Ending(r, words, last)
  BY TellStep
<1> DEFINE events == words \o <<Of(r, last)>>
<1>3. events \in Seq(EndEvent(r)) /\ events \in Seq(Event) /\ <<Of(r, last)>> \in Seq(EndEvent(r))
  BY <1>2, EndingTyped, SeqMonotonic
<1>4. Send(r, events)
  BY <1>2 DEF Ending
<1>5. result[r] = "answer" => events = <<Of(r, last)>>
  <2> SUFFICES ASSUME result[r] = "answer" PROVE events = <<Of(r, last)>>
    OBVIOUS
  <2>1. words = <<>>
    BY <1>2 DEF Ending, Spoken
  <2> QED
    BY <1>3, <2>1, ConcatEmptySeq
<1> HIDE DEF events
<1>6. sent'[r] = sent[r] \o events /\ \A q \in Run : q # r => sent'[q] = sent[q]
  <2>1. sent \in [Run -> Seq(Event)]
    BY DEF TypeOK
  <2> QED
    BY <1>3, <1>4, <2>1, SendTyped
<1>7. Spoken(r)'
  <2> SUFFICES ASSUME result[r] = "answer"
               PROVE  Len(Keep(sent'[r], LastWords(turn[r]))) = 1
    BY <1>1 DEF Spoken, segment
  <2> DEFINE T == LastWords(turn[r])
  <2>1. Len(Keep(published[r], T)) = 1
    BY DEF Spoken
  <2>2. Of(r, last) \notin T
    BY <1>2 DEF Of, LastWords, Ending
  <2>3. HookEvent(r) \cap T = {}
    BY DEF HookEvent, LastWords
  <2>4. \A e \in ClientEvent(r) : e \in T <=> e \in OwnEvents /\ e \in T
    BY NamesDistinct DEF ClientEvent, OwnOf, OwnEvents, Own, LastWords
  <2> HIDE DEF T
  <2>5. sent[r] \in Seq(ClientEvent(r)) /\ pre[r] \in Seq(HookEvent(r))
    BY <1>1 DEF Flow, EventsTyped
  <2>6. Keep(sent[r], T) = Keep(Received(r), T)
    <3>1. \A s \in Seq(ClientEvent(r)) : Keep(Keep(s, OwnEvents), T) = Keep(s, T)
      BY <2>4, KeepTwice
    <3> QED
      BY <2>5, <3>1 DEF Received
  <2>7. Received(r) = Due(r)
    BY <1>1 DEF Flow, Delivered
  <2>8. \A a, b \in Seq(Event) : Keep(a \o b, T) = Keep(a, T) \o Keep(b, T)
    BY KeepConcat
  <2>9. Keep(Due(r), T) = Keep(published[r], T)
    <3>1. pre[r] \in Seq(Event) /\ published[r] \in Seq(Event)
      BY FlowTypes
    <3>2. Keep(pre[r], T) = <<>>
      BY <2>3, <2>5, KeepNone
    <3>3. Keep(published[r], T) \in Seq(Event)
      BY <3>1, KeepTyped
    <3>4. <<>> \o Keep(published[r], T) = Keep(published[r], T)
      BY <3>3, ConcatEmptySeq
    <3> QED
      BY <2>8, <3>1, <3>2, <3>4 DEF Due
  <2>10. Keep(sent'[r], T) = Keep(sent[r], T)
    <3>1. sent[r] \in Seq(Event)
      BY DEF TypeOK
    <3>2. Keep(events, T) = <<>>
      BY <1>5, <2>2, KeepOne
    <3>3. Keep(sent[r], T) \in Seq(Event)
      BY <3>1, KeepTyped
    <3>4. Keep(sent[r], T) \o <<>> = Keep(sent[r], T)
      BY <3>3, ConcatEmptySeq
    <3> QED
      BY <1>3, <1>6, <2>8, <3>1, <3>2, <3>4
  <2> QED
    BY <2>1, <2>6, <2>7, <2>9, <2>10 DEF T
<1>8. ASSUME NEW q \in Run, q # r
      PROVE  Spoken(q)'
  <2>1. stream'[q] = stream[q]
    BY <1>1, <1>8 DEF TypeOK
  <2> QED
    BY <1>1, <1>6, <1>8, <2>1, SpokenUnmoved DEF segment
<1> QED
  BY <1>7, <1>8

\* The steps of a stream before the end, and those of others, say nothing.
LEMMA SpokenMoved ==
  ASSUME TypeOK, \A q \in Run : Flow(q), \A q \in Run : Spoken(q), NEW r \in Run,
         \/ Open(r) \/ BeginReading(r) \/ Yield(r) \/ SeeTaskOver(r) \/ Drain(r) \/ Disconnect(r)
  PROVE  \A q \in Run : Spoken(q)'
<1>1. UNCHANGED <<turn, streamed, result, published>>
  BY DEF Open, BeginReading, Yield, SeeTaskOver, Drain, Disconnect, segment
<1>2. /\ worker[r] # "over" \/ worker'[r] = "over"
      /\ stream'[r] # "over"
      /\ \A q \in Run : q # r => /\ stream'[q] = stream[q] /\ worker'[q] = worker[q]
                                 /\ sent'[q] = sent[q]
  <2>1. CASE Open(r)
    BY <2>1 DEF Open, TypeOK, Flow, Staged
  <2>2. CASE BeginReading(r)
    BY <2>2 DEF BeginReading, Send, TypeOK, segment
  <2>3. CASE Yield(r)
    BY <2>3 DEF Yield, SendOwn, Send, TypeOK, segment
  <2>4. CASE SeeTaskOver(r)
    BY <2>4 DEF SeeTaskOver, AfterTask, TypeOK, segment
  <2>5. CASE Drain(r)
    BY <2>5 DEF Drain, SendOwn, Send, TypeOK, segment
  <2>6. CASE Disconnect(r)
    BY <2>6 DEF Disconnect, TypeOK
  <2> QED
    BY <2>1, <2>2, <2>3, <2>4, <2>5, <2>6
<1>3. ASSUME NEW q \in Run
      PROVE  Spoken(q)'
  <2>1. /\ result'[q] = result[q] /\ streamed'[q] = streamed[q] /\ published'[q] = published[q]
        /\ turn'[q] = turn[q]
        /\ stream'[q] = "over" => stream[q] = "over" /\ sent'[q] = sent[q]
        /\ worker[q] = "over" => worker'[q] = "over"
    BY <1>1, <1>2
  <2> QED
    BY <2>1, SpokenUnmoved
<1> QED
  BY <1>3

\* Spoken is inductive, given Flow, when text is streamed.
LEMMA SpokenInductive ==
  ASSUME Streaming
  PROVE  /\ Init => \A r \in Run : Spoken(r)
         /\ TypeOK /\ (\A r \in Run : Flow(r)) /\ (\A r \in Run : Spoken(r)) /\ [Next]_vars
              => \A r \in Run : Spoken(r)'
<1>1. Init => \A r \in Run : Spoken(r)
  BY DEF Init, Spoken
<1>2. TypeOK /\ (\A r \in Run : Flow(r)) /\ (\A r \in Run : Spoken(r)) /\ [Next]_vars
        => \A r \in Run : Spoken(r)'
  <2> SUFFICES ASSUME TypeOK, \A r \in Run : Flow(r), \A r \in Run : Spoken(r), [Next]_vars
               PROVE  \A r \in Run : Spoken(r)'
    OBVIOUS
  <2>1. CASE UNCHANGED vars
    BY <2>1, SpokenUnmoved DEF vars
  <2>2. CASE PublishElsewhere
    <3>1. UNCHANGED <<stream, sent, segment, published>>
      BY <2>2, Zenon DEF PublishElsewhere
    <3> QED
      BY <3>1, SpokenUnmoved DEF segment
  <2>3. ASSUME NEW r \in Run, Open(r) \/ Segment(r) \/ Stream(r) \/ Disconnect(r)
        PROVE  \A q \in Run : Spoken(q)'
    BY <2>3, SpokenAsk, SpokenSilent, SpokenTold, SpokenMoved DEF Segment, Stream
  <2> QED
    BY <2>1, <2>2, <2>3 DEF Next
<1> QED
  BY <1>1, <1>2

\* With LLM_STREAMING_ENABLED, the client of a run that finished has read the last
\* words of its answer, once. (Without it, text that comes with a tool call takes
\* the place of the answer.)
THEOREM AnswerReachesClient ==
  ASSUME Streaming
  PROVE  Spec => []AnswerDelivered
<1>1. Init => \A r \in Run : Spoken(r)
  BY SpokenInductive
<1>2. TypeOK /\ (\A r \in Run : Flow(r)) /\ (\A r \in Run : Spoken(r)) /\ [Next]_vars
        => (\A r \in Run : Spoken(r))'
  BY SpokenInductive
<1>3. (\A r \in Run : Spoken(r)) => AnswerDelivered
  BY DEF Spoken, AnswerDelivered
<1> QED
  BY <1>1, <1>2, <1>3, AllFlow, PTL DEF Spec
=============================================================================
