---------------------------- MODULE ContextProofs ----------------------------
(***************************************************************************)
(* Theorems about the transcript of a conversation, for any prompts and     *)
(* contracts, every budget and any number of calls.                        *)
(*                                                                         *)
(* The pieces of a sequence and the steps of a compaction are recursive     *)
(* functions, so what they do is proved by induction, for sets, which rests *)
(* on the well-foundedness of < in the library.                            *)
(***************************************************************************)
EXTENDS Context, TLAPS, WellFoundedInduction, SequenceTheorems, FiniteSetTheorems

-----------------------------------------------------------------------------
(* Induction.                                                              *)

\* A set of natural numbers that is not empty has a least one.
LEMMA LeastNatural ==
  ASSUME NEW T, T \subseteq Nat, T # {}
  PROVE  \E m \in T : \A k \in T : m <= k
<1> DEFINE R == {p \in Nat \X Nat : p[1] < p[2]}
<1>1. IsWellFoundedOn(R, Nat)
  <2>1. OpToRel(<, Nat) = R
    BY Zenon DEF OpToRel
  <2> QED
    BY <2>1, NatLessThanWellFounded, Zenon
<1>2. PICK x \in T : \A y \in T : <<y, x>> \notin R
  <2> HIDE DEF R
  <2> QED
    BY <1>1, WFMin
<1>3. ASSUME NEW k \in T
      PROVE  x <= k
  <2>1. k \in Nat /\ x \in Nat
    OBVIOUS
  <2>2. k < x => <<k, x>> \in R
    BY <2>1
  <2>3. ~ (k < x)
    BY <1>2, <2>2
  <2> QED
    BY <2>1, <2>3
<1> QED
  BY <1>3

\* Induction over the natural numbers, for a set.
LEMMA NaturalInduction ==
  ASSUME NEW T, 0 \in T, \A n \in Nat : n \in T => n + 1 \in T
  PROVE  Nat \subseteq T
<1> SUFFICES ASSUME Nat \ T # {} PROVE FALSE
  OBVIOUS
<1>1. PICK m \in Nat \ T : \A k \in Nat \ T : m <= k
  BY LeastNatural
<1>2. m # 0 /\ m - 1 \in Nat /\ m - 1 \in T
  BY <1>1
<1> QED
  BY <1>1, <1>2

-----------------------------------------------------------------------------
(* Pieces of a sequence.                                                   *)

\* The function Piece is defined by, up to n.
Piecing(f, s, n, P) ==
  f = [i \in 0 .. n |-> IF i = 0 THEN <<>>
                        ELSE IF i \in P THEN Append(f[i - 1], s[i]) ELSE f[i - 1]]

\* What the function says at each index.
LEMMA PiecingStep ==
  ASSUME NEW f, NEW s, NEW n \in Nat, NEW P, Piecing(f, s, n, P)
  PROVE  /\ f[0] = <<>>
         /\ \A i \in 1 .. n : f[i] = IF i \in P THEN Append(f[i - 1], s[i]) ELSE f[i - 1]
<1>1. 0 \in 0 .. n /\ \A i \in 1 .. n : i \in 0 .. n /\ i # 0
  OBVIOUS
<1> QED
  BY <1>1 DEF Piecing

\* There is such a function for every length: it is extended by one element.
LEMMA PiecingExists ==
  ASSUME NEW s, NEW P
  PROVE  \A n \in Nat : \E f : Piecing(f, s, n, P)
<1> DEFINE N == {n \in Nat : \E f : Piecing(f, s, n, P)}
<1>1. 0 \in N
  <2>1. Piecing([i \in 0 .. 0 |-> <<>>], s, 0, P)
    BY DEF Piecing
  <2> QED
    BY <2>1
<1>2. ASSUME NEW n \in Nat, n \in N
      PROVE  n + 1 \in N
  <2>1. PICK f : Piecing(f, s, n, P)
    BY <1>2
  <2> DEFINE g == [i \in 0 .. n + 1 |->
                     IF i <= n THEN f[i]
                     ELSE IF n + 1 \in P THEN Append(f[n], s[n + 1]) ELSE f[n]]
  <2>2. ASSUME NEW i \in 0 .. n + 1
        PROVE  g[i] = IF i = 0 THEN <<>>
                      ELSE IF i \in P THEN Append(g[i - 1], s[i]) ELSE g[i - 1]
    <3>1. CASE i = 0
      <4>1. g[0] = f[0]
        OBVIOUS
      <4>2. f[0] = <<>>
        BY <2>1, PiecingStep, Zenon
      <4> QED
        BY <3>1, <4>1, <4>2
    <3>2. CASE i \in 1 .. n
      <4>1. g[i] = f[i] /\ g[i - 1] = f[i - 1]
        BY <3>2
      <4> QED
        BY <2>1, <3>2, <4>1, PiecingStep
    <3>3. CASE i = n + 1
      <4>1. /\ g[i] = IF n + 1 \in P THEN Append(f[n], s[n + 1]) ELSE f[n]
            /\ g[i - 1] = f[n]
        BY <3>3
      <4> QED
        BY <3>3, <4>1
    <3> QED
      BY <3>1, <3>2, <3>3
  <2>3. g = [i \in 0 .. n + 1 |-> g[i]]
    OBVIOUS
  <2>4. Piecing(g, s, n + 1, P)
    <3> HIDE DEF g
    <3> QED
      BY <2>2, <2>3 DEF Piecing
  <2> QED
    BY <2>4
<1>3. Nat \subseteq N
  <2> HIDE DEF N
  <2> QED
    BY <1>1, <1>2, NaturalInduction
<1> QED
  BY <1>3

\* Piece is the last value of such a function.
LEMMA PieceIs ==
  ASSUME NEW S, NEW s \in Seq(S), NEW P
  PROVE  \E f : Piecing(f, s, Len(s), P) /\ Piece(s, P) = f[Len(s)]
<1> DEFINE k == CHOOSE f : Piecing(f, s, Len(s), P)
<1>1. Piecing(k, s, Len(s), P)
  BY PiecingExists, LenProperties
<1>2. Piece(s, P) = k[Len(s)]
  BY DEF Piece, Piecing
<1> QED
  BY <1>1, <1>2

\* A piece holds what is at its positions.
LEMMA PieceTyped ==
  ASSUME NEW S, NEW s \in Seq(S), NEW P, NEW X,
         \A i \in P : i \in 1 .. Len(s) => s[i] \in X
  PROVE  Piece(s, P) \in Seq(X)
<1>1. PICK f : Piecing(f, s, Len(s), P) /\ Piece(s, P) = f[Len(s)]
  BY PieceIs
<1>2. Len(s) \in Nat
  BY LenProperties
<1>3. /\ f[0] = <<>>
      /\ \A i \in 1 .. Len(s) : f[i] = IF i \in P THEN Append(f[i - 1], s[i]) ELSE f[i - 1]
  BY <1>1, <1>2, PiecingStep
<1> DEFINE N == {n \in Nat : n <= Len(s) => f[n] \in Seq(X)}
<1>4. 0 \in N
  BY <1>3, EmptySeq
<1>5. ASSUME NEW n \in Nat, n \in N
      PROVE  n + 1 \in N
  <2> SUFFICES ASSUME n + 1 <= Len(s)
               PROVE  f[n + 1] \in Seq(X)
    OBVIOUS
  <2>1. n + 1 \in 1 .. Len(s) /\ (n + 1) - 1 = n /\ f[n] \in Seq(X)
    BY <1>2, <1>5
  <2>2. n + 1 \in P => s[n + 1] \in X
    BY <2>1
  <2>3. f[n + 1] = IF n + 1 \in P THEN Append(f[n], s[n + 1]) ELSE f[n]
    BY <1>3, <2>1
  <2> QED
    BY <2>1, <2>2, <2>3, AppendProperties
<1>6. Nat \subseteq N
  <2> HIDE DEF N
  <2> QED
    BY <1>4, <1>5, NaturalInduction
<1> QED
  BY <1>1, <1>2, <1>6

-----------------------------------------------------------------------------
(* Increasing sequences.                                                   *)

Increasing(g) == \A j, k \in DOMAIN g : j < k => g[j] < g[k]

Values(g) == {g[k] : k \in DOMAIN g}

\* Of two increasing sequences the one has, at each index, no less than the other
\* with the same values.
LEMMA IncreasingLeast ==
  ASSUME NEW g \in Seq(Nat), NEW h \in Seq(Nat), Increasing(g), Increasing(h),
         Values(g) = Values(h)
  PROVE  \A k \in DOMAIN g :
           (\A j \in 1 .. k - 1 : j \in DOMAIN h /\ g[j] = h[j])
             => k \in DOMAIN h /\ h[k] <= g[k]
<1> SUFFICES ASSUME NEW k \in DOMAIN g, \A j \in 1 .. k - 1 : j \in DOMAIN h /\ g[j] = h[j]
             PROVE  k \in DOMAIN h /\ h[k] <= g[k]
  OBVIOUS
<1>1. /\ DOMAIN g = 1 .. Len(g) /\ DOMAIN h = 1 .. Len(h)
      /\ Len(g) \in Nat /\ Len(h) \in Nat
      /\ \A i \in 1 .. Len(g) : g[i] \in Nat
      /\ \A i \in 1 .. Len(h) : h[i] \in Nat
  BY LenProperties, ElementOfSeq
<1>2. g[k] \in Values(h)
  BY DEF Values
<1>3. PICK i \in DOMAIN h : h[i] = g[k]
  BY <1>2 DEF Values
<1>4. ~ (i < k)
  <2> SUFFICES ASSUME i < k PROVE FALSE
    OBVIOUS
  <2>1. i \in 1 .. k - 1 /\ i \in DOMAIN g
    BY <1>1
  <2>2. g[i] = g[k] /\ g[i] < g[k]
    BY <1>3, <2>1 DEF Increasing
  <2> QED
    BY <1>1, <2>1, <2>2
<1>5. k \in Nat /\ i \in Nat /\ k \in DOMAIN h
  BY <1>1, <1>4
<1>6. k = i \/ h[k] < h[i]
  BY <1>3, <1>4, <1>5 DEF Increasing
<1> QED
  BY <1>1, <1>3, <1>5, <1>6

\* There is one increasing sequence of a set of numbers.
LEMMA IncreasingUnique ==
  ASSUME NEW g \in Seq(Nat), NEW h \in Seq(Nat), Increasing(g), Increasing(h),
         Values(g) = Values(h)
  PROVE  g = h
<1>1. /\ DOMAIN g = 1 .. Len(g) /\ DOMAIN h = 1 .. Len(h)
      /\ Len(g) \in Nat /\ Len(h) \in Nat
      /\ \A k \in 1 .. Len(g) : g[k] \in Nat
      /\ \A k \in 1 .. Len(h) : h[k] \in Nat
  BY LenProperties, ElementOfSeq
<1>2. \A k \in DOMAIN g :
        (\A j \in 1 .. k - 1 : j \in DOMAIN h /\ g[j] = h[j]) => k \in DOMAIN h /\ h[k] <= g[k]
  BY IncreasingLeast
<1>3. \A k \in DOMAIN h :
        (\A j \in 1 .. k - 1 : j \in DOMAIN g /\ h[j] = g[j]) => k \in DOMAIN g /\ g[k] <= h[k]
  <2>1. Values(h) = Values(g)
    OBVIOUS
  <2> QED
    BY <2>1, IncreasingLeast
<1> DEFINE D == {k \in Nat : /\ k \in DOMAIN g \/ k \in DOMAIN h
                             /\ ~ (k \in DOMAIN g /\ k \in DOMAIN h /\ g[k] = h[k])}
<1>4. D = {}
  <2> SUFFICES ASSUME D # {} PROVE FALSE
    OBVIOUS
  <2>1. PICK k \in D : \A j \in D : k <= j
    BY LeastNatural
  <2>2. k \in Nat /\ (k \in DOMAIN g \/ k \in DOMAIN h)
    BY <2>1
  <2>3. ASSUME NEW j \in 1 .. k - 1
        PROVE  j \in DOMAIN g /\ j \in DOMAIN h /\ g[j] = h[j]
    <3>1. j \notin D
      BY <2>1, <2>2
    <3>2. j \in Nat /\ (j \in DOMAIN g \/ j \in DOMAIN h)
      BY <1>1, <2>2
    <3> QED
      BY <3>1, <3>2
  <2>4. k \in DOMAIN g /\ k \in DOMAIN h
    BY <1>2, <1>3, <2>2, <2>3
  <2>5. g[k] <= h[k] /\ h[k] <= g[k]
    BY <1>2, <1>3, <2>3, <2>4
  <2> QED
    BY <1>1, <2>1, <2>4, <2>5
<1>5. \A k \in Nat : (k \in DOMAIN g <=> k \in DOMAIN h) /\ (k \in DOMAIN g => g[k] = h[k])
  BY <1>4
<1>6. Len(g) = Len(h)
  <2>1. Len(h) \in DOMAIN h \/ Len(h) = 0
    BY <1>1
  <2>2. Len(g) \in DOMAIN g \/ Len(g) = 0
    BY <1>1
  <2>3. Len(h) <= Len(g)
    BY <1>1, <1>5, <2>1
  <2>4. Len(g) <= Len(h)
    BY <1>1, <1>5, <2>2
  <2>5. Len(g) \in Nat /\ Len(h) \in Nat
    BY LenProperties
  <2> QED
    BY <2>3, <2>4, <2>5
<1>7. \A k \in 1 .. Len(g) : g[k] = h[k]
  BY <1>1, <1>5
<1> QED
  BY <1>6, <1>7, SeqEqual

-----------------------------------------------------------------------------
(* The positions of a piece.                                               *)

\* u is what s has at the positions of P up to n, and g lists these.
Matches(u, g, s, n, P, S) ==
  /\ u \in Seq(S) /\ g \in Seq(Nat) /\ Len(u) = Len(g)
  /\ Increasing(g) /\ Values(g) = P \cap 1 .. n
  /\ \A k \in 1 .. Len(g) : u[k] = s[g[k]]

\* The next position is one of P.
LEMMA MatchAppend ==
  ASSUME NEW S, NEW s \in Seq(S), NEW P, NEW n \in 1 .. Len(s), n \in P,
         NEW u, NEW g, Matches(u, g, s, n - 1, P, S)
  PROVE  Matches(Append(u, s[n]), Append(g, n), s, n, P, S)
<1>1. /\ u \in Seq(S) /\ g \in Seq(Nat) /\ Len(u) = Len(g)
      /\ Increasing(g) /\ Values(g) = P \cap 1 .. (n - 1)
      /\ \A k \in 1 .. Len(g) : u[k] = s[g[k]]
  BY DEF Matches
<1>2. Len(s) \in Nat /\ n \in Nat /\ s[n] \in S /\ Len(g) \in Nat
  BY <1>1, LenProperties, ElementOfSeq
<1> DEFINE v == Append(u, s[n])
           h == Append(g, n)
<1>3. /\ v \in Seq(S) /\ Len(v) = Len(u) + 1 /\ v[Len(u) + 1] = s[n]
      /\ \A k \in 1 .. Len(u) : v[k] = u[k]
  BY <1>1, <1>2, AppendProperties
<1>4. /\ h \in Seq(Nat) /\ Len(h) = Len(g) + 1 /\ h[Len(g) + 1] = n
      /\ \A k \in 1 .. Len(g) : h[k] = g[k]
  BY <1>1, <1>2, AppendProperties
<1>5. DOMAIN h = 1 .. Len(g) + 1 /\ DOMAIN g = 1 .. Len(g)
  BY <1>1, <1>4, LenProperties
<1> HIDE DEF v, h
<1>6. \A k \in 1 .. Len(g) : g[k] \in P \cap 1 .. (n - 1)
  BY <1>1, <1>5 DEF Values
<1>7. \A k \in 1 .. Len(g) : g[k] \in Nat /\ g[k] < n
  BY <1>2, <1>6
<1>8. Increasing(h)
  <2> SUFFICES ASSUME NEW j \in DOMAIN h, NEW k \in DOMAIN h, j < k
               PROVE  h[j] < h[k]
    BY DEF Increasing
  <2>1. j \in 1 .. Len(g) /\ k \in 1 .. Len(g) + 1
    BY <1>2, <1>5
  <2>2. CASE k = Len(g) + 1
    BY <1>4, <1>7, <2>1, <2>2
  <2>3. CASE k \in 1 .. Len(g)
    <3>1. g[j] < g[k]
      BY <1>1, <1>5, <2>1, <2>3 DEF Increasing
    <3> QED
      BY <1>4, <2>1, <2>3, <3>1
  <2> QED
    BY <1>2, <2>1, <2>2, <2>3
<1>9. Values(h) = P \cap 1 .. n
  <2>1. ASSUME NEW x \in Values(h)
        PROVE  x \in P \cap 1 .. n
    <3>1. PICK k \in DOMAIN h : x = h[k]
      BY <2>1 DEF Values
    <3>2. CASE k = Len(g) + 1
      BY <1>2, <1>4, <3>1, <3>2
    <3>3. CASE k \in 1 .. Len(g)
      <4>1. x \in P \cap 1 .. (n - 1)
        BY <1>4, <1>6, <3>1, <3>3
      <4> QED
        BY <1>2, <4>1
    <3> QED
      BY <1>2, <1>5, <3>1, <3>2, <3>3
  <2>2. ASSUME NEW x \in P \cap 1 .. n
        PROVE  x \in Values(h)
    <3>1. CASE x = n
      <4>1. Len(g) + 1 \in DOMAIN h
        BY <1>2, <1>5
      <4> QED
        BY <1>4, <3>1, <4>1 DEF Values
    <3>2. CASE x \in P \cap 1 .. (n - 1)
      <4>1. PICK k \in DOMAIN g : x = g[k]
        BY <1>1, <3>2 DEF Values
      <4>2. k \in DOMAIN h /\ x = h[k]
        BY <1>2, <1>4, <1>5, <4>1
      <4> QED
        BY <4>2 DEF Values
    <3> QED
      BY <1>2, <3>1, <3>2
  <2> QED
    BY <2>1, <2>2
<1>10. ASSUME NEW k \in 1 .. Len(h)
       PROVE  v[k] = s[h[k]]
  <2>1. CASE k = Len(g) + 1
    BY <1>1, <1>3, <1>4, <2>1
  <2>2. CASE k \in 1 .. Len(g)
    BY <1>1, <1>3, <1>4, <2>2
  <2> QED
    BY <1>2, <1>4, <2>1, <2>2
<1>11. Matches(v, h, s, n, P, S)
  BY <1>1, <1>3, <1>4, <1>8, <1>9, <1>10 DEF Matches
<1> QED
  BY <1>11 DEF v, h

\* The next position is not.
LEMMA MatchSkip ==
  ASSUME NEW S, NEW s \in Seq(S), NEW P, NEW n \in 1 .. Len(s), n \notin P,
         NEW u, NEW g, Matches(u, g, s, n - 1, P, S)
  PROVE  Matches(u, g, s, n, P, S)
<1>1. n \in Nat
  BY LenProperties
<1>2. P \cap 1 .. (n - 1) = P \cap 1 .. n
  BY <1>1
<1> QED
  BY <1>2 DEF Matches

\* The positions of P in a sequence of length n, in their order.
Chosen(n, P) == Piece([i \in 1 .. n |-> i], P)

\* A piece is what its sequence has at these positions.
LEMMA PieceMatches ==
  ASSUME NEW S, NEW s \in Seq(S), NEW P
  PROVE  Matches(Piece(s, P), Chosen(Len(s), P), s, Len(s), P, S)
<1> DEFINE n == Len(s)
           d == [i \in 1 .. n |-> i]
<1>1. n \in Nat /\ d \in Seq(Nat) /\ Len(d) = n /\ \A i \in 1 .. n : d[i] = i
  <2>1. n \in Nat
    BY LenProperties
  <2> QED
    BY <2>1
<1> HIDE DEF d, n
<1>2. PICK f : Piecing(f, s, n, P) /\ Piece(s, P) = f[n]
  BY PieceIs DEF n
<1>3. PICK c : Piecing(c, d, n, P) /\ Piece(d, P) = c[n]
  BY <1>1, PieceIs
<1>4. /\ f[0] = <<>>
      /\ \A i \in 1 .. n : f[i] = IF i \in P THEN Append(f[i - 1], s[i]) ELSE f[i - 1]
  BY <1>1, <1>2, PiecingStep
<1>5. /\ c[0] = <<>>
      /\ \A i \in 1 .. n : c[i] = IF i \in P THEN Append(c[i - 1], i) ELSE c[i - 1]
  BY <1>1, <1>3, PiecingStep
<1> DEFINE N == {i \in Nat : i <= n => Matches(f[i], c[i], s, i, P, S)}
<1>6. 0 \in N
  <2>1. Matches(<<>>, <<>>, s, 0, P, S)
    BY EmptySeq DEF Matches, Increasing, Values
  <2> QED
    BY <1>4, <1>5, <2>1
<1>7. ASSUME NEW i \in Nat, i \in N
      PROVE  i + 1 \in N
  <2> SUFFICES ASSUME i + 1 <= n
               PROVE  Matches(f[i + 1], c[i + 1], s, i + 1, P, S)
    OBVIOUS
  <2>1. i + 1 \in 1 .. Len(s) /\ (i + 1) - 1 = i /\ Matches(f[i], c[i], s, i, P, S)
    BY <1>1, <1>7 DEF n
  <2>2. /\ f[i + 1] = IF i + 1 \in P THEN Append(f[i], s[i + 1]) ELSE f[i]
        /\ c[i + 1] = IF i + 1 \in P THEN Append(c[i], i + 1) ELSE c[i]
    BY <1>4, <1>5, <2>1 DEF n
  <2>3. CASE i + 1 \in P
    <3>1. Matches(Append(f[i], s[i + 1]), Append(c[i], i + 1), s, i + 1, P, S)
      BY <2>1, <2>3, MatchAppend
    <3> QED
      BY <2>2, <2>3, <3>1
  <2>4. CASE i + 1 \notin P
    <3>1. Matches(f[i], c[i], s, i + 1, P, S)
      BY <2>1, <2>4, MatchSkip
    <3> QED
      BY <2>2, <2>4, <3>1
  <2> QED
    BY <2>3, <2>4
<1>8. Nat \subseteq N
  <2> HIDE DEF N
  <2> QED
    BY <1>6, <1>7, NaturalInduction
<1>9. Matches(f[n], c[n], s, n, P, S)
  BY <1>1, <1>8
<1>10. Chosen(n, P) = c[n] /\ Piece(s, P) = f[n]
  BY <1>2, <1>3 DEF Chosen, d
<1>11. Matches(Piece(s, P), Chosen(n, P), s, n, P, S)
  BY <1>9, <1>10
<1> QED
  BY <1>11 DEF n

\* A piece of any sequence is known by any increasing sequence of its positions.
LEMMA PieceAt ==
  ASSUME NEW S, NEW s \in Seq(S), NEW P,
         NEW g \in Seq(Nat), Increasing(g), Values(g) = P \cap 1 .. Len(s)
  PROVE  /\ Piece(s, P) \in Seq(S) /\ Len(Piece(s, P)) = Len(g)
         /\ \A k \in 1 .. Len(g) : Piece(s, P)[k] = s[g[k]]
<1> DEFINE u == Piece(s, P)
           h == Chosen(Len(s), P)
<1>1. Matches(u, h, s, Len(s), P, S)
  BY PieceMatches
<1> HIDE DEF u, h
<1>2. /\ u \in Seq(S) /\ h \in Seq(Nat) /\ Len(u) = Len(h)
      /\ Increasing(h) /\ Values(h) = P \cap 1 .. Len(s)
      /\ \A k \in 1 .. Len(h) : u[k] = s[h[k]]
  BY <1>1 DEF Matches
<1>3. Values(g) = Values(h)
  BY <1>2
<1>4. g = h
  BY <1>2, <1>3, IncreasingUnique
<1>5. /\ u \in Seq(S) /\ Len(u) = Len(g)
      /\ \A k \in 1 .. Len(g) : u[k] = s[g[k]]
  BY <1>2, <1>4
<1> QED
  BY <1>5 DEF u

\* And there is such a sequence.
LEMMA PositionsExist ==
  ASSUME NEW n \in Nat, NEW P
  PROVE  \E g \in Seq(Nat) : Increasing(g) /\ Values(g) = P \cap 1 .. n
<1> DEFINE d == [i \in 1 .. n |-> i]
<1>1. d \in Seq(Nat) /\ Len(d) = n
  OBVIOUS
<1> HIDE DEF d
<1>2. Matches(Piece(d, P), Chosen(n, P), d, n, P, Nat)
  BY <1>1, PieceMatches
<1> QED
  BY <1>2 DEF Matches

\* The piece of an interval is a subsequence.
LEMMA PieceInterval ==
  ASSUME NEW S, NEW s \in Seq(S), NEW l \in Nat, NEW b \in Nat,
         1 <= l, l <= b + 1, b <= Len(s), NEW P, P \cap 1 .. Len(s) = l .. b
  PROVE  Piece(s, P) = SubSeq(s, l, b)
<1>0. PICK a \in Nat : l = a + 1
  <2>1. l - 1 \in Nat /\ l = (l - 1) + 1
    OBVIOUS
  <2> QED
    BY <2>1
<1> DEFINE g == [k \in 1 .. b - a |-> a + k]
<1>1. Len(s) \in Nat
  BY LenProperties
<1>2. g \in Seq(Nat) /\ Len(g) = b - a /\ \A k \in 1 .. b - a : g[k] = a + k
  <2>1. b - a \in Nat /\ \A k \in 1 .. b - a : a + k \in Nat
    BY <1>0
  <2> QED
    BY <2>1
<1>3. DOMAIN g = 1 .. b - a
  OBVIOUS
<1> HIDE DEF g
<1>4. Increasing(g)
  BY <1>2, <1>3 DEF Increasing
<1>5. Values(g) = a + 1 .. b
  <2>1. \A k \in 1 .. b - a : g[k] \in a + 1 .. b
    BY <1>2
  <2>2. ASSUME NEW x \in a + 1 .. b
        PROVE  x \in Values(g)
    <3>1. x - a \in 1 .. b - a /\ a + (x - a) = x
      OBVIOUS
    <3>2. g[x - a] = x
      BY <1>2, <3>1
    <3> QED
      BY <1>3, <3>1, <3>2 DEF Values
  <2> QED
    BY <1>3, <2>1, <2>2 DEF Values
<1>6. /\ Piece(s, P) \in Seq(S) /\ Len(Piece(s, P)) = b - a
      /\ \A k \in 1 .. b - a : Piece(s, P)[k] = s[g[k]]
  <2>1. Values(g) = P \cap 1 .. Len(s)
    BY <1>0, <1>5
  <2>2. /\ Piece(s, P) \in Seq(S) /\ Len(Piece(s, P)) = Len(g)
        /\ \A k \in 1 .. Len(g) : Piece(s, P)[k] = s[g[k]]
    BY <1>2, <1>4, <2>1, PieceAt
  <2> QED
    BY <1>2, <2>2
<1>7. /\ SubSeq(s, l, b) \in Seq(S) /\ Len(SubSeq(s, l, b)) = b - a
      /\ \A k \in 1 .. b - a : SubSeq(s, l, b)[k] = s[a + k]
  BY <1>0, <1>1
<1>8. \A k \in 1 .. b - a : Piece(s, P)[k] = SubSeq(s, l, b)[k]
  BY <1>2, <1>6, <1>7
<1> QED
  BY <1>6, <1>7, <1>8, SeqEqual

\* What a concatenation has, and where.
Joins(u, s, t, S) ==
  /\ u \in Seq(S) /\ Len(u) = Len(s) + Len(t)
  /\ \A i \in 1 .. Len(s) : u[i] = s[i]
  /\ \A i \in 1 .. Len(t) : u[Len(s) + i] = t[i]

\* Concatenation is defined so.
LEMMA Joined ==
  ASSUME NEW S, NEW s \in Seq(S), NEW t \in Seq(S)
  PROVE  Joins(s \o t, s, t, S)
<1>1. Len(s) \in Nat /\ Len(t) \in Nat
  BY LenProperties
<1> DEFINE u == s \o t
<1>2. /\ u \in Seq(S) /\ Len(u) = Len(s) + Len(t)
      /\ \A i \in 1 .. Len(s) + Len(t) : u[i] = IF i <= Len(s) THEN s[i] ELSE t[i - Len(s)]
  BY ConcatProperties
<1> HIDE DEF u
<1>3. \A i \in 1 .. Len(s) : u[i] = s[i]
  BY <1>1, <1>2
<1>4. ASSUME NEW i \in 1 .. Len(t)
      PROVE  u[Len(s) + i] = t[i]
  <2>1. /\ Len(s) + i \in 1 .. Len(s) + Len(t) /\ ~ (Len(s) + i <= Len(s))
        /\ (Len(s) + i) - Len(s) = i
    BY <1>1
  <2> QED
    BY <1>2, <2>1
<1>5. Joins(u, s, t, S)
  BY <1>2, <1>3, <1>4 DEF Joins
<1> QED
  BY <1>5 DEF u

-----------------------------------------------------------------------------
(* The prompt.                                                             *)

Marks == {"start", "end", "begin", "finish"}

Plain == Token \ Marks

\* The client's part of a prompt.
Client(text) == Composed(<<>>, text)

\* The prompt has one block, between texts without any marker, and ends with the
\* client's part.
Bound(s, text) ==
  \E p, q \in Seq(Plain) : s = p \o Block("now") \o q \o Client(text)

\* s consists of p, the block, q and c.
Laid(s, p, q, c) ==
  /\ s \in Seq(Token) /\ Len(s) = Len(p) + 3 + Len(q) + Len(c)
  /\ \A i \in 1 .. Len(p) : s[i] = p[i]
  /\ s[Len(p) + 1] = "start" /\ s[Len(p) + 2] = "now" /\ s[Len(p) + 3] = "end"
  /\ \A i \in 1 .. Len(q) : s[Len(p) + 3 + i] = q[i]
  /\ \A i \in 1 .. Len(c) : s[Len(p) + 3 + Len(q) + i] = c[i]

\* A block is three tokens.
LEMMA BlockIs ==
  /\ Block("now") \in Seq(Token) /\ Len(Block("now")) = 3
  /\ Block("now")[1] = "start" /\ Block("now")[2] = "now" /\ Block("now")[3] = "end"
<1>1. "start" \in Token /\ "now" \in Token /\ "end" \in Token
  BY PromptsTyped
<1> QED
  BY <1>1 DEF Block

\* Concatenation lays the parts out.
LEMMA Layout ==
  ASSUME NEW p \in Seq(Token), NEW q \in Seq(Token), NEW c \in Seq(Token)
  PROVE  Laid(p \o Block("now") \o q \o c, p, q, c)
<1> DEFINE b == Block("now")
           t == p \o b
           u == t \o q
           s == u \o c
<1>1. /\ b \in Seq(Token) /\ Len(b) = 3
      /\ b[1] = "start" /\ b[2] = "now" /\ b[3] = "end"
  BY BlockIs
<1> HIDE DEF b
<1>2. /\ t \in Seq(Token) /\ Len(t) = Len(p) + 3
      /\ \A i \in 1 .. Len(p) : t[i] = p[i]
      /\ \A i \in 1 .. 3 : t[Len(p) + i] = b[i]
  <2>1. Joins(t, p, b, Token)
    BY <1>1, Joined
  <2> HIDE DEF t
  <2> QED
    BY <1>1, <2>1 DEF Joins
<1> HIDE DEF t
<1>3. /\ u \in Seq(Token) /\ Len(u) = Len(p) + 3 + Len(q)
      /\ \A i \in 1 .. Len(p) + 3 : u[i] = t[i]
      /\ \A i \in 1 .. Len(q) : u[Len(p) + 3 + i] = q[i]
  <2>1. Joins(u, t, q, Token)
    BY <1>2, Joined
  <2> HIDE DEF u
  <2> QED
    BY <1>2, <2>1 DEF Joins
<1> HIDE DEF u
<1>4. /\ s \in Seq(Token) /\ Len(s) = Len(p) + 3 + Len(q) + Len(c)
      /\ \A i \in 1 .. Len(p) + 3 + Len(q) : s[i] = u[i]
      /\ \A i \in 1 .. Len(c) : s[Len(p) + 3 + Len(q) + i] = c[i]
  <2>1. Joins(s, u, c, Token)
    BY <1>3, Joined
  <2> HIDE DEF s
  <2> QED
    BY <1>3, <2>1 DEF Joins
<1> HIDE DEF s
<1>5. Len(p) \in Nat /\ Len(q) \in Nat /\ Len(c) \in Nat
  BY LenProperties
<1>6. \A i \in 1 .. Len(p) : s[i] = p[i]
  BY <1>2, <1>3, <1>4, <1>5
<1>7. s[Len(p) + 1] = "start" /\ s[Len(p) + 2] = "now" /\ s[Len(p) + 3] = "end"
  <2>1. ASSUME NEW i \in 1 .. 3
        PROVE  s[Len(p) + i] = t[Len(p) + i]
    <3>1. Len(p) + i \in 1 .. Len(p) + 3 /\ Len(p) + i \in 1 .. Len(p) + 3 + Len(q)
      BY <1>5
    <3> QED
      BY <1>3, <1>4, <3>1
  <2>2. 1 \in 1 .. 3 /\ 2 \in 1 .. 3 /\ 3 \in 1 .. 3
    OBVIOUS
  <2> QED
    BY <1>1, <1>2, <2>1, <2>2
<1>8. ASSUME NEW i \in 1 .. Len(q)
      PROVE  s[Len(p) + 3 + i] = q[i]
  <2>1. Len(p) + 3 + i \in 1 .. Len(p) + 3 + Len(q)
    BY <1>5
  <2> QED
    BY <1>3, <1>4, <2>1
<1>9. Laid(s, p, q, c)
  BY <1>4, <1>6, <1>7, <1>8 DEF Laid
<1> QED
  BY <1>9 DEF s, u, t, b

\* Where brackets stand among three prompts does not matter.
LEMMA TokensAssociate ==
  \A x, y, z \in Seq(Token) : (x \o y) \o z = x \o (y \o z)
<1> TAKE x, y, z \in Seq(Token)
<1> QED
  BY ConcatAssociative

\* The client's part is put at the end.
LEMMA ComposedIs ==
  ASSUME NEW s \in Seq(Token), NEW text \in Seq(Token)
  PROVE  /\ Composed(s, text) = s \o Client(text) /\ Client(text) \in Seq(Token)
         /\ text = <<>> => Client(text) = <<>>
         /\ text # <<>> => /\ Len(Client(text)) = Len(text) + 2
                           /\ Client(text)[1] = "begin"
                           /\ Client(text)[Len(text) + 2] = "finish"
                           /\ \A i \in 1 .. Len(text) : Client(text)[i + 1] = text[i]
<1>1. "begin" \in Token /\ "finish" \in Token
  BY PromptsTyped
<1> DEFINE b == <<"begin">>
           f == <<"finish">>
<1>2. b \in Seq(Token) /\ f \in Seq(Token) /\ Len(b) = 1 /\ Len(f) = 1
      /\ b[1] = "begin" /\ f[1] = "finish"
  BY <1>1
<1>3. <<>> \in Seq(Token) /\ Len(text) \in Nat
  BY LenProperties, EmptySeq
<1>4. /\ Composed(s, text) = IF text = <<>> THEN s ELSE s \o b \o text \o f
      /\ Client(text) = IF text = <<>> THEN <<>> ELSE <<>> \o b \o text \o f
  BY DEF Client, Composed
<1> HIDE DEF b, f
<1>5. CASE text = <<>>
  BY <1>3, <1>4, <1>5, ConcatEmptySeq
<1>6. CASE text # <<>>
  <2> DEFINE w == b \o text
             t == w \o f
  <2>1. /\ w \in Seq(Token) /\ Len(w) = Len(text) + 1
        /\ \A i \in 1 .. 1 : w[i] = b[i]
        /\ \A i \in 1 .. Len(text) : w[1 + i] = text[i]
    <3>1. Joins(w, b, text, Token)
      BY <1>2, Joined
    <3> HIDE DEF w
    <3> QED
      BY <1>2, <1>3, <3>1 DEF Joins
  <2>2. <<>> \o b = b
    BY <1>2, ConcatEmptySeq
  <2>3. Client(text) = t
    BY <1>4, <1>6, <2>2
  <2>4. s \o b \o text \o f = s \o t
    <3>1. s \o b \o text = s \o w
      BY <1>2, TokensAssociate, Zenon
    <3>2. (s \o w) \o f = s \o (w \o f)
      <4>1. w \in Seq(Token) /\ f \in Seq(Token)
        BY <1>2, <2>1
      <4> HIDE DEF w
      <4> QED
        BY <4>1, TokensAssociate
    <3> QED
      BY <3>1, <3>2
  <2> HIDE DEF w
  <2>5. /\ t \in Seq(Token) /\ Len(t) = Len(text) + 2
        /\ \A i \in 1 .. Len(text) + 1 : t[i] = w[i]
        /\ \A i \in 1 .. 1 : t[Len(text) + 1 + i] = f[i]
    <3>1. Joins(t, w, f, Token)
      BY <1>2, <2>1, Joined
    <3> HIDE DEF t
    <3> QED
      BY <1>2, <1>3, <2>1, <3>1 DEF Joins
  <2> HIDE DEF t
  <2>6. t[1] = "begin"
    BY <1>2, <1>3, <2>1, <2>5
  <2>7. \A i \in 1 .. Len(text) : t[i + 1] = text[i]
    BY <1>3, <2>1, <2>5
  <2>8. t[Len(text) + 2] = "finish"
    <3>1. 1 \in 1 .. 1 /\ Len(text) + 1 + 1 = Len(text) + 2
      BY <1>3
    <3> QED
      BY <1>2, <2>5, <3>1
  <2>9. Composed(s, text) = s \o t
    BY <1>4, <1>6, <2>4
  <2> QED
    BY <1>6, <2>3, <2>5, <2>6, <2>7, <2>8, <2>9
<1> QED
  BY <1>5, <1>6

\* A marker of a prompt is one of its block, or the client's.
Marked(s, p, q, c) ==
  \A i \in 1 .. Len(s) :
    s[i] \in Marks => \/ i = Len(p) + 1 /\ s[i] = "start"
                      \/ i = Len(p) + 3 /\ s[i] = "end"
                      \/ \E j \in 1 .. Len(c) : i = Len(p) + 3 + Len(q) + j /\ s[i] = c[j]

\* Every prompt of this form is.
LEMMA MarksAt ==
  ASSUME NEW p \in Seq(Plain), NEW q \in Seq(Plain), NEW c \in Seq(Token),
         NEW s, Laid(s, p, q, c)
  PROVE  Marked(s, p, q, c)
<1> SUFFICES ASSUME NEW i \in 1 .. Len(s), s[i] \in Marks
             PROVE  \/ i = Len(p) + 1 /\ s[i] = "start"
                    \/ i = Len(p) + 3 /\ s[i] = "end"
                    \/ \E j \in 1 .. Len(c) : i = Len(p) + 3 + Len(q) + j /\ s[i] = c[j]
  BY DEF Marked
<1>1. Len(p) \in Nat /\ Len(q) \in Nat /\ Len(c) \in Nat
  BY LenProperties
<1>2. i \in 1 .. Len(p) + 3 + Len(q) + Len(c)
  BY DEF Laid
<1>3. i \notin 1 .. Len(p)
  <2> SUFFICES ASSUME i \in 1 .. Len(p) PROVE FALSE
    OBVIOUS
  <2>1. s[i] = p[i] /\ p[i] \in Plain
    BY ElementOfSeq DEF Laid
  <2> QED
    BY <2>1 DEF Plain
<1>4. i # Len(p) + 2
  BY DEF Laid, Marks
<1>5. ~ (i > Len(p) + 3 /\ i <= Len(p) + 3 + Len(q))
  <2> SUFFICES ASSUME i > Len(p) + 3, i <= Len(p) + 3 + Len(q) PROVE FALSE
    OBVIOUS
  <2>1. i - (Len(p) + 3) \in 1 .. Len(q) /\ Len(p) + 3 + (i - (Len(p) + 3)) = i
    BY <1>1, <1>2
  <2>2. s[i] = q[i - (Len(p) + 3)] /\ q[i - (Len(p) + 3)] \in Plain
    BY <2>1, ElementOfSeq DEF Laid
  <2> QED
    BY <2>2 DEF Plain
<1>6. CASE i = Len(p) + 1
  BY <1>6 DEF Laid
<1>7. CASE i = Len(p) + 3
  BY <1>7 DEF Laid
<1>8. CASE i > Len(p) + 3 + Len(q)
  <2>1. /\ i - (Len(p) + 3 + Len(q)) \in 1 .. Len(c)
        /\ Len(p) + 3 + Len(q) + (i - (Len(p) + 3 + Len(q))) = i
    BY <1>1, <1>2, <1>8
  <2>2. s[i] = c[i - (Len(p) + 3 + Len(q))]
    BY <2>1 DEF Laid
  <2> QED
    BY <2>1, <2>2
<1>9. i = Len(p) + 1 \/ i = Len(p) + 3 \/ i > Len(p) + 3 + Len(q)
  BY <1>1, <1>2, <1>3, <1>4, <1>5
<1> QED
  BY <1>6, <1>7, <1>8, <1>9

\* The positions of a token are finitely many.
LEMMA AtFinite ==
  ASSUME NEW s \in Seq(Token), NEW token
  PROVE  /\ At(s, token) \subseteq 1 .. Len(s) /\ IsFiniteSet(At(s, token))
         /\ Markers(s, token) \subseteq At(s, token) /\ IsFiniteSet(Markers(s, token))
<1>1. DOMAIN s = 1 .. Len(s) /\ Len(s) \in Nat
  BY LenProperties
<1>2. At(s, token) \subseteq 1 .. Len(s)
  BY <1>1 DEF At
<1>3. IsFiniteSet(1 .. Len(s))
  BY <1>1, FS_Interval
<1>4. Markers(s, token) \subseteq At(s, token)
  BY DEF Markers
<1>5. IsFiniteSet(At(s, token))
  BY <1>2, <1>3, FS_Subset
<1> QED
  BY <1>2, <1>4, <1>5, FS_Subset

\* Without both delimiters nothing is opaque.
LEMMA NothingOpaque ==
  ASSUME NEW s, Cardinality(At(s, "begin")) # 1 \/ Cardinality(At(s, "finish")) # 1
  PROVE  \A token : Markers(s, token) = At(s, token)
BY DEF Opaque, Markers

\* Two elements are not one.
LEMMA NotOne ==
  ASSUME NEW T, IsFiniteSet(T), NEW x \in T, NEW y \in T, x # y
  PROVE  Cardinality(T) # 1
<1> SUFFICES ASSUME Cardinality(T) = 1 PROVE FALSE
  OBVIOUS
<1>1. PICK z : T = {z}
  BY FS_Singleton
<1> QED
  BY <1>1

\* In a prompt without the client's part the markers are those of the block.
LEMMA OwnMarks ==
  ASSUME NEW p \in Seq(Plain), NEW q \in Seq(Plain), NEW c \in Seq(Token), Len(c) = 0,
         NEW s, Laid(s, p, q, c)
  PROVE  /\ At(s, "start") = {Len(p) + 1} /\ At(s, "end") = {Len(p) + 3}
         /\ At(s, "begin") = {} /\ At(s, "finish") = {}
<1>1. Marked(s, p, q, c)
  BY MarksAt
<1>2. Len(p) \in Nat /\ Len(q) \in Nat
  BY LenProperties
<1>3. s \in Seq(Token) /\ Len(s) = Len(p) + 3 + Len(q)
  BY <1>2 DEF Laid
<1>4. DOMAIN s = 1 .. Len(s)
  BY <1>3, LenProperties
<1>5. ASSUME NEW i \in 1 .. Len(s), s[i] \in Marks
      PROVE  (i = Len(p) + 1 /\ s[i] = "start") \/ (i = Len(p) + 3 /\ s[i] = "end")
  <2>1. \/ i = Len(p) + 1 /\ s[i] = "start"
        \/ i = Len(p) + 3 /\ s[i] = "end"
        \/ \E j \in 1 .. Len(c) : i = Len(p) + 3 + Len(q) + j /\ s[i] = c[j]
    BY <1>1, <1>5 DEF Marked
  <2>2. ~ \E j \in 1 .. Len(c) : TRUE
    OBVIOUS
  <2> QED
    BY <2>1, <2>2
<1>6. Len(p) + 1 \in 1 .. Len(s) /\ Len(p) + 3 \in 1 .. Len(s)
  BY <1>2, <1>3
<1>7. s[Len(p) + 1] = "start" /\ s[Len(p) + 3] = "end"
  BY DEF Laid
<1> QED
  BY <1>4, <1>5, <1>6, <1>7 DEF At, Marks

\* In a well-formed prompt only the markers of the block count: those of the client
\* are within its delimiters, or there is no pair of them.
LEMMA OnlyBlock ==
  ASSUME NEW p \in Seq(Plain), NEW q \in Seq(Plain), NEW text \in Seq(Token),
         At(text, "begin") \cup At(text, "finish") # {}
           => At(text, "start") = {} \/ At(text, "end") = {},
         NEW s, Laid(s, p, q, Client(text)), WellFormed(s)
  PROVE  Markers(s, "start") = {Len(p) + 1} /\ Markers(s, "end") = {Len(p) + 3}
<1> DEFINE c == Client(text)
           a == Len(p)
           m == Len(p) + 3 + Len(q)
<1>1. c \in Seq(Token)
  BY ComposedIs
<1>2. Len(p) \in Nat /\ Len(q) \in Nat /\ Len(text) \in Nat /\ Len(c) \in Nat
  BY <1>1, LenProperties
<1>3. /\ s \in Seq(Token) /\ Len(s) = m + Len(c)
      /\ s[a + 1] = "start" /\ s[a + 3] = "end"
      /\ \A i \in 1 .. Len(c) : s[m + i] = c[i]
  BY DEF Laid
<1>4. DOMAIN s = 1 .. Len(s) /\ DOMAIN text = 1 .. Len(text)
  BY <1>3, LenProperties
<1>5. \A i \in 1 .. Len(s) :
        s[i] \in Marks => \/ i = a + 1 /\ s[i] = "start"
                          \/ i = a + 3 /\ s[i] = "end"
                          \/ \E j \in 1 .. Len(c) : i = m + j /\ s[i] = c[j]
  <2>1. Marked(s, p, q, c)
    BY <1>1, MarksAt
  <2> QED
    BY <2>1 DEF Marked
<1>6. a + 1 \in At(s, "start") /\ a + 3 \in At(s, "end")
  <2>1. a + 1 \in 1 .. Len(s) /\ a + 3 \in 1 .. Len(s)
    BY <1>2, <1>3
  <2> QED
    BY <1>3, <1>4, <2>1 DEF At
<1>7. CASE text = <<>>
  <2>1. Len(c) = 0
    <3>1. c = <<>>
      BY <1>7, ComposedIs, EmptySeq
    <3> QED
      BY <3>1
  <2>2. /\ At(s, "start") = {a + 1} /\ At(s, "end") = {a + 3}
        /\ At(s, "begin") = {}
    <3>1. Laid(s, p, q, c)
      OBVIOUS
    <3> HIDE DEF c
    <3>2. /\ At(s, "start") = {Len(p) + 1} /\ At(s, "end") = {Len(p) + 3}
          /\ At(s, "begin") = {} /\ At(s, "finish") = {}
      BY <1>1, <2>1, <3>1, OwnMarks
    <3> QED
      BY <3>2
  <2>3. Cardinality(At(s, "begin")) # 1
    <3>1. Cardinality(At(s, "begin")) = 0
      BY <2>2, FS_EmptySet
    <3> QED
      BY <3>1
  <2> QED
    BY <2>2, <2>3, NothingOpaque
<1>8. CASE text # <<>>
  <2>1. /\ Len(c) = Len(text) + 2 /\ c[1] = "begin" /\ c[Len(text) + 2] = "finish"
        /\ \A i \in 1 .. Len(text) : c[i + 1] = text[i]
    BY <1>8, ComposedIs, EmptySeq
  <2> HIDE DEF c
  <2>2. m + 1 \in At(s, "begin") /\ Len(s) \in At(s, "finish")
    <3>1. /\ 1 \in 1 .. Len(c) /\ Len(c) \in 1 .. Len(c)
          /\ m + 1 \in 1 .. Len(s) /\ Len(s) \in 1 .. Len(s)
      BY <1>2, <1>3, <2>1
    <3>2. s[m + 1] = "begin" /\ s[Len(s)] = "finish"
      BY <1>3, <2>1, <3>1
    <3> QED
      BY <1>4, <3>1, <3>2 DEF At
  <2>3. ASSUME NEW i \in 1 .. Len(s), s[i] \in Marks
        PROVE  \/ i = a + 1 /\ s[i] = "start"
               \/ i = a + 3 /\ s[i] = "end"
               \/ i = m + 1 /\ s[i] = "begin"
               \/ i = Len(s) /\ s[i] = "finish"
               \/ \E j \in 1 .. Len(text) : i = m + 1 + j /\ s[i] = text[j]
    <3>1. CASE \E j \in 1 .. Len(c) : i = m + j /\ s[i] = c[j]
      <4>1. PICK j \in 1 .. Len(c) : i = m + j /\ s[i] = c[j]
        BY <3>1
      <4>2. j = 1 \/ j = Len(text) + 2 \/ j - 1 \in 1 .. Len(text)
        BY <1>2, <2>1
      <4>3. CASE j = 1
        BY <2>1, <4>1, <4>3
      <4>4. CASE j = Len(text) + 2
        BY <1>3, <2>1, <4>1, <4>4
      <4>5. CASE j - 1 \in 1 .. Len(text)
        <5>1. (j - 1) + 1 = j /\ i = m + 1 + (j - 1)
          BY <1>2, <4>1
        <5>2. s[i] = text[j - 1]
          BY <2>1, <4>1, <4>5, <5>1
        <5> QED
          BY <4>5, <5>1, <5>2
      <4> QED
        BY <4>2, <4>3, <4>4, <4>5
    <3> QED
      BY <1>5, <2>3, <3>1
  <2>4. ASSUME NEW j \in 1 .. Len(text)
        PROVE  m + 1 + j \in 1 .. Len(s) /\ s[m + 1 + j] = text[j]
    <3>1. j + 1 \in 1 .. Len(c) /\ m + (j + 1) = m + 1 + j /\ m + 1 + j \in 1 .. Len(s)
      BY <1>2, <1>3, <2>1
    <3>2. s[m + (j + 1)] = c[j + 1] /\ c[j + 1] = text[j]
      BY <1>3, <2>1, <3>1
    <3> QED
      BY <3>1, <3>2
  <2>5. CASE At(text, "begin") \cup At(text, "finish") = {}
    <3>1. \A j \in 1 .. Len(text) : text[j] # "begin" /\ text[j] # "finish"
      BY <1>4, <2>5 DEF At
    <3>2. At(s, "begin") = {m + 1}
      <4>1. \A i \in 1 .. Len(s) : s[i] = "begin" => i = m + 1
        BY <2>3, <3>1 DEF Marks
      <4> QED
        BY <1>4, <2>2, <4>1 DEF At
    <3>3. At(s, "finish") = {Len(s)}
      <4>1. \A i \in 1 .. Len(s) : s[i] = "finish" => i = Len(s)
        BY <2>3, <3>1 DEF Marks
      <4> QED
        BY <1>4, <2>2, <4>1 DEF At
    <3>4. Opaque(s) = {i \in DOMAIN s : m + 1 <= i /\ i <= Len(s)}
      <4>1. Cardinality(At(s, "begin")) = 1 /\ Cardinality(At(s, "finish")) = 1
        BY <3>2, <3>3, FS_Singleton
      <4> QED
        BY <3>2, <3>3, <4>1 DEF Opaque
    <3>5. ASSUME NEW i \in 1 .. Len(s), ~ (m + 1 <= i)
          PROVE  (s[i] = "start" => i = a + 1) /\ (s[i] = "end" => i = a + 3)
      <4>1. i # m + 1 /\ \A j \in 1 .. Len(text) : i # m + 1 + j
        BY <1>2, <3>5
      <4> QED
        BY <2>3, <4>1 DEF Marks
    <3>6. /\ a + 1 \in 1 .. Len(s) /\ ~ (m + 1 <= a + 1)
          /\ a + 3 \in 1 .. Len(s) /\ ~ (m + 1 <= a + 3)
      BY <1>2, <1>3
    <3>7. \A i \in 1 .. Len(s) : i <= Len(s)
      BY <1>2, <1>3
    <3>8. Markers(s, "start") = {a + 1}
      BY <1>3, <1>4, <3>4, <3>5, <3>6, <3>7 DEF Markers, At
    <3>9. Markers(s, "end") = {a + 3}
      BY <1>3, <1>4, <3>4, <3>5, <3>6, <3>7 DEF Markers, At
    <3> QED
      BY <3>8, <3>9
  <2>6. CASE At(text, "begin") \cup At(text, "finish") # {}
    <3>1. Cardinality(At(s, "begin")) # 1 \/ Cardinality(At(s, "finish")) # 1
      <4>1. CASE At(text, "begin") # {}
        <5>1. PICK j \in 1 .. Len(text) : text[j] = "begin"
          BY <1>4, <4>1 DEF At
        <5>2. m + 1 + j \in At(s, "begin") /\ m + 1 + j # m + 1
          BY <1>2, <1>4, <2>4, <5>1 DEF At
        <5> QED
          BY <1>3, <2>2, <5>2, AtFinite, NotOne
      <4>2. CASE At(text, "finish") # {}
        <5>1. PICK j \in 1 .. Len(text) : text[j] = "finish"
          BY <1>4, <4>2 DEF At
        <5>2. m + 1 + j \in At(s, "finish") /\ m + 1 + j # Len(s)
          BY <1>2, <1>3, <1>4, <2>1, <2>4, <5>1 DEF At
        <5> QED
          BY <1>3, <2>2, <5>2, AtFinite, NotOne
      <4> QED
        BY <2>6, <4>1, <4>2
    <3>2. Markers(s, "start") = At(s, "start") /\ Markers(s, "end") = At(s, "end")
      BY <3>1, NothingOpaque
    <3>3. Cardinality(At(s, "start")) = Cardinality(At(s, "end"))
      BY <3>2 DEF WellFormed
    <3>4. IsFiniteSet(At(s, "start")) /\ IsFiniteSet(At(s, "end"))
      BY <1>3, AtFinite
    <3>5. At(text, "start") = {} \/ At(text, "end") = {}
      BY <2>6
    <3>6. CASE At(text, "end") = {}
      <4>1. \A j \in 1 .. Len(text) : text[j] # "end"
        BY <1>4, <3>6 DEF At
      <4>2. \A i \in 1 .. Len(s) : s[i] = "end" => i = a + 3
        BY <2>3, <4>1 DEF Marks
      <4>3. At(s, "end") = {a + 3}
        BY <1>4, <1>6, <4>2 DEF At
      <4>4. Cardinality(At(s, "start")) = 1
        BY <3>3, <4>3, FS_Singleton
      <4>5. PICK x : At(s, "start") = {x}
        BY <3>4, <4>4, FS_Singleton
      <4> QED
        BY <1>6, <3>2, <4>3, <4>5
    <3>7. CASE At(text, "start") = {}
      <4>1. \A j \in 1 .. Len(text) : text[j] # "start"
        BY <1>4, <3>7 DEF At
      <4>2. \A i \in 1 .. Len(s) : s[i] = "start" => i = a + 1
        BY <2>3, <4>1 DEF Marks
      <4>3. At(s, "start") = {a + 1}
        BY <1>4, <1>6, <4>2 DEF At
      <4>4. Cardinality(At(s, "end")) = 1
        BY <3>3, <4>3, FS_Singleton
      <4>5. PICK x : At(s, "end") = {x}
        BY <3>4, <4>4, FS_Singleton
      <4> QED
        BY <1>6, <3>2, <4>3, <4>5
    <3> QED
      BY <3>5, <3>6, <3>7
  <2> QED
    BY <2>5, <2>6
<1> QED
  BY <1>7, <1>8

\* Refreshing a prompt with one current block changes nothing.
LEMMA RefreshKeeps ==
  ASSUME NEW p \in Seq(Plain), NEW q \in Seq(Plain), NEW c \in Seq(Token),
         NEW s, Laid(s, p, q, c),
         Markers(s, "start") = {Len(p) + 1}, Markers(s, "end") = {Len(p) + 3}
  PROVE  Refreshed(s, "now") = s
<1> DEFINE a == Len(p)
           n == Len(s)
           kept == {i \in DOMAIN s : ~ InBlock(s, i)}
           starts == Markers(s, "start")
           before1 == {i \in kept : \A j \in starts : i < j}
<1>1. /\ s \in Seq(Token) /\ Len(s) = a + 3 + Len(q) + Len(c)
      /\ s[a + 1] = "start" /\ s[a + 2] = "now" /\ s[a + 3] = "end"
  BY DEF Laid
<1>2. /\ a \in Nat /\ n \in Nat /\ a + 3 <= n
      /\ DOMAIN s = 1 .. n
  <2>1. Len(q) \in Nat /\ Len(c) \in Nat /\ Len(p) \in Nat
    BY LenProperties
  <2> QED
    BY <1>1, <2>1, LenProperties
<1>3. ASSUME NEW i \in 1 .. n
      PROVE  InBlock(s, i) <=> a + 1 <= i /\ i <= a + 3
  <2>1. Started(s, i) = IF a + 1 <= i THEN 1 ELSE 0
    <3>1. {j \in Markers(s, "start") : j <= i} = IF a + 1 <= i THEN {a + 1} ELSE {}
      OBVIOUS
    <3>2. CASE a + 1 <= i
      <4>1. {j \in Markers(s, "start") : j <= i} = {a + 1}
        BY <3>1, <3>2
      <4> QED
        BY <3>2, <4>1, FS_Singleton DEF Started
    <3>3. CASE ~ (a + 1 <= i)
      <4>1. {j \in Markers(s, "start") : j <= i} = {}
        BY <3>1, <3>3
      <4> QED
        BY <3>3, <4>1, FS_EmptySet DEF Started
    <3> QED
      BY <3>2, <3>3
  <2>2. Ended(s, i) = IF a + 3 < i THEN 1 ELSE 0
    <3>1. {j \in Markers(s, "end") : j < i} = IF a + 3 < i THEN {a + 3} ELSE {}
      OBVIOUS
    <3>2. CASE a + 3 < i
      <4>1. {j \in Markers(s, "end") : j < i} = {a + 3}
        BY <3>1, <3>2
      <4> QED
        BY <3>2, <4>1, FS_Singleton DEF Ended
    <3>3. CASE ~ (a + 3 < i)
      <4>1. {j \in Markers(s, "end") : j < i} = {}
        BY <3>1, <3>3
      <4> QED
        BY <3>3, <4>1, FS_EmptySet DEF Ended
    <3> QED
      BY <3>2, <3>3
  <2> QED
    BY <1>2, <2>1, <2>2 DEF InBlock
<1>4. kept = {i \in 1 .. n : ~ (a + 1 <= i /\ i <= a + 3)}
  BY <1>2, <1>3
<1> HIDE DEF kept
<1>5. before1 = 1 .. a
  <2>1. \A i : (\A j \in starts : i < j) <=> i < a + 1
    OBVIOUS
  <2>2. before1 = {i \in kept : i < a + 1}
    BY <2>1
  <2> HIDE DEF before1, starts
  <2> QED
    BY <1>2, <1>4, <2>2
<1>6. kept \ before1 = a + 4 .. n
  BY <1>2, <1>4, <1>5
<1>7. starts # {}
  OBVIOUS
<1>8. Refreshed(s, "now") = Piece(s, before1) \o Block("now") \o Piece(s, kept \ before1)
  BY <1>7 DEF Refreshed, kept
<1> HIDE DEF before1, starts
<1> DEFINE x == Piece(s, before1)
           y == Piece(s, kept \ before1)
           t == x \o Block("now")
           u == t \o y
<1>9. x = SubSeq(s, 1, a)
  <2>1. PICK l \in Nat : l = 1
    OBVIOUS
  <2>2. before1 \cap 1 .. Len(s) = l .. a
    BY <1>2, <1>5, <2>1
  <2>3. 1 <= l /\ l <= a + 1 /\ a <= Len(s) /\ a \in Nat
    BY <1>2, <2>1
  <2>4. x = SubSeq(s, l, a)
    <3> HIDE DEF a
    <3> QED
      BY <1>1, <2>2, <2>3, PieceInterval
  <2> QED
    BY <2>1, <2>4
<1>10. y = SubSeq(s, a + 4, n)
  <2>1. (kept \ before1) \cap 1 .. Len(s) = a + 4 .. n
    BY <1>2, <1>6
  <2>2. PICK l \in Nat : l = a + 4
    BY <1>2
  <2>3. n \in Nat /\ 1 <= l /\ l <= n + 1 /\ n <= Len(s)
    BY <1>2, <2>2
  <2>4. (kept \ before1) \cap 1 .. Len(s) = l .. n
    BY <2>1, <2>2
  <2>5. y = SubSeq(s, l, n)
    <3> HIDE DEF kept, before1, n, a
    <3> QED
      BY <1>1, <2>3, <2>4, PieceInterval
  <2> QED
    BY <2>2, <2>5
<1>11. x \in Seq(Token) /\ Len(x) = a /\ \A i \in 1 .. a : x[i] = s[i]
  BY <1>1, <1>2, <1>9
<1>12. y \in Seq(Token) /\ Len(y) = n - (a + 3) /\ \A i \in 1 .. n - (a + 3) : y[i] = s[a + 3 + i]
  <2>1. /\ SubSeq(s, a + 4, n) \in Seq(Token) /\ Len(SubSeq(s, a + 4, n)) = n - (a + 3)
        /\ \A i \in 1 .. n - (a + 3) : SubSeq(s, a + 4, n)[i] = s[a + 4 + i - 1]
    BY <1>1, <1>2
  <2>2. \A i \in 1 .. n - (a + 3) : a + 4 + i - 1 = a + 3 + i
    BY <1>2
  <2> HIDE DEF y
  <2> QED
    BY <1>10, <2>1, <2>2
<1> HIDE DEF x, y
<1>13. Joins(t, x, Block("now"), Token)
  BY <1>11, BlockIs, Joined
<1> HIDE DEF t
<1>14. /\ t \in Seq(Token) /\ Len(t) = a + 3
       /\ \A i \in 1 .. a : t[i] = s[i]
       /\ \A i \in 1 .. 3 : t[a + i] = Block("now")[i]
  BY <1>2, <1>11, <1>13, BlockIs DEF Joins
<1>15. Joins(u, t, y, Token)
  BY <1>12, <1>14, Joined
<1> HIDE DEF u
<1>16. /\ u \in Seq(Token) /\ Len(u) = n
       /\ \A i \in 1 .. a + 3 : u[i] = t[i]
       /\ \A i \in 1 .. n - (a + 3) : u[a + 3 + i] = y[i]
  BY <1>2, <1>12, <1>14, <1>15 DEF Joins
<1>17. ASSUME NEW i \in 1 .. n
       PROVE  u[i] = s[i]
  <2>1. CASE i <= a
    BY <1>2, <1>14, <1>16, <2>1
  <2>2. CASE i > a + 3
    <3>1. i - (a + 3) \in 1 .. n - (a + 3) /\ a + 3 + (i - (a + 3)) = i
      BY <1>2, <2>2
    <3> QED
      BY <1>12, <1>16, <3>1
  <2>3. CASE i = a + 1
    <3>1. 1 \in 1 .. 3 /\ a + 1 \in 1 .. a + 3
      BY <1>2
    <3> QED
      BY <1>1, <1>14, <1>16, <2>3, <3>1, BlockIs
  <2>4. CASE i = a + 2
    <3>1. 2 \in 1 .. 3 /\ a + 2 \in 1 .. a + 3
      BY <1>2
    <3> QED
      BY <1>1, <1>14, <1>16, <2>4, <3>1, BlockIs
  <2>5. CASE i = a + 3
    <3>1. 3 \in 1 .. 3 /\ a + 3 \in 1 .. a + 3
      BY <1>2
    <3> QED
      BY <1>1, <1>14, <1>16, <2>5, <3>1, BlockIs
  <2> QED
    BY <1>2, <2>1, <2>2, <2>3, <2>4, <2>5
<1>18. u = s
  BY <1>1, <1>16, <1>17, SeqEqual
<1> QED
  BY <1>8, <1>18 DEF u, t, x, y

\* What a well-formed text keeps when its blocks go has no markers.
LEMMA KeptPlain ==
  ASSUME NEW s \in Seq(Token), WellFormed(s), At(s, "begin") \cup At(s, "finish") = {}
  PROVE  \A i \in 1 .. Len(s) : ~ InBlock(s, i) => s[i] \in Plain
<1> SUFFICES ASSUME NEW i \in 1 .. Len(s), ~ InBlock(s, i), s[i] \in Marks
             PROVE  FALSE
  <2>1. \A i \in 1 .. Len(s) : s[i] \in Token
    BY ElementOfSeq
  <2> QED
    BY <2>1 DEF Plain
<1>1. DOMAIN s = 1 .. Len(s)
  BY LenProperties
<1>2. Cardinality(At(s, "begin")) # 1
  <2>1. Cardinality(At(s, "begin")) = 0
    BY FS_EmptySet
  <2> QED
    BY <2>1
<1>3. Markers(s, "start") = At(s, "start") /\ Markers(s, "end") = At(s, "end")
  BY <1>2, NothingOpaque
<1>4. s[i] # "begin" /\ s[i] # "finish"
  BY <1>1 DEF At
<1>5. i \in Markers(s, "start") \cup Markers(s, "end")
  BY <1>1, <1>3, <1>4 DEF At, Marks
<1>6. Started(s, i) = Ended(s, i) + 1
  BY <1>5 DEF WellFormed
<1>7. Ended(s, i) \in Nat
  <2>1. IsFiniteSet(Markers(s, "end"))
    BY AtFinite
  <2>2. IsFiniteSet({j \in Markers(s, "end") : j < i})
    BY <2>1, FS_Subset
  <2> QED
    BY <2>2, FS_CardinalityType DEF Ended
<1> QED
  BY <1>6, <1>7 DEF InBlock

\* What a harness gives has one block.
LEMMA RefreshedOnce ==
  ASSUME NEW s \in Seq(Token), WellFormed(s), At(s, "begin") \cup At(s, "finish") = {}
  PROVE  \E p, q \in Seq(Plain) : Refreshed(s, "now") = p \o Block("now") \o q
<1>1. \A i \in 1 .. Len(s) : ~ InBlock(s, i) => s[i] \in Plain
  BY KeptPlain
<1>2. DOMAIN s = 1 .. Len(s) /\ Len(s) \in Nat
  BY LenProperties
<1> DEFINE kept == {i \in DOMAIN s : ~ InBlock(s, i)}
           starts == Markers(s, "start")
           before1 == {i \in kept : \A j \in starts : i < j}
<1>3. CASE starts = {}
  <2>1. IsFiniteSet(Markers(s, "end"))
    BY AtFinite
  <2>2. Cardinality(Markers(s, "end")) = 0
    BY <1>3, FS_EmptySet DEF WellFormed
  <2>3. Markers(s, "end") = {}
    BY <2>1, <2>2, FS_EmptySet
  <2>4. ASSUME NEW i \in 1 .. Len(s)
        PROVE  ~ InBlock(s, i)
    <3>1. Started(s, i) = 0
      <4>1. {j \in Markers(s, "start") : j <= i} = {}
        BY <1>3
      <4> QED
        BY <4>1, FS_EmptySet DEF Started
    <3>2. Ended(s, i) = 0
      <4>1. {j \in Markers(s, "end") : j < i} = {}
        BY <2>3
      <4> QED
        BY <4>1, FS_EmptySet DEF Ended
    <3> QED
      BY <3>1, <3>2 DEF InBlock
  <2>5. s \in Seq(Plain)
    BY <1>1, <1>2, <2>4
  <2>6. Refreshed(s, "now") = s \o Block("now")
    BY <1>3 DEF Refreshed
  <2>7. <<>> \in Seq(Plain) /\ <<>> \in Seq(Token)
    OBVIOUS
  <2>8. s \o Block("now") \in Seq(Token)
    BY BlockIs, ConcatProperties
  <2>9. (s \o Block("now")) \o <<>> = s \o Block("now")
    BY <2>8, ConcatEmptySeq
  <2> QED
    BY <2>5, <2>6, <2>7, <2>9
<1>4. CASE starts # {}
  <2>1. Piece(s, before1) \in Seq(Plain)
    BY <1>1, <1>2, PieceTyped
  <2>2. Piece(s, kept \ before1) \in Seq(Plain)
    BY <1>1, <1>2, PieceTyped
  <2>3. Refreshed(s, "now") = Piece(s, before1) \o Block("now") \o Piece(s, kept \ before1)
    BY <1>4 DEF Refreshed
  <2> HIDE DEF before1, kept, starts
  <2> QED
    BY <2>1, <2>2, <2>3
<1> QED
  BY <1>3, <1>4

\* A fresh run's prompt has one block.
LEMMA FreshBound ==
  ASSUME PlainPrompts, NEW harness \in Harnesses, WellFormed(harness), NEW text \in Contracts
  PROVE  Bound(Composed(Refreshed(harness, "now"), text), text)
<1>1. harness \in Seq(Token) /\ text \in Seq(Token)
  BY PromptsTyped
<1>2. At(harness, "begin") \cup At(harness, "finish") = {}
  BY DEF PlainPrompts
<1>3. PICK p \in Seq(Plain), q \in Seq(Plain) : Refreshed(harness, "now") = p \o Block("now") \o q
  BY <1>1, <1>2, RefreshedOnce
<1>4. p \in Seq(Token) /\ q \in Seq(Token)
  <2>1. Plain \subseteq Token
    BY DEF Plain
  <2> QED
    BY <2>1, SeqMonotonic
<1>5. Refreshed(harness, "now") \in Seq(Token)
  <2>1. p \o Block("now") \in Seq(Token)
    BY <1>4, BlockIs, ConcatProperties
  <2>2. (p \o Block("now")) \o q \in Seq(Token)
    BY <1>4, <2>1, ConcatProperties
  <2> QED
    BY <1>3, <2>2
<1>6. Composed(Refreshed(harness, "now"), text) = Refreshed(harness, "now") \o Client(text)
  BY <1>1, <1>5, ComposedIs
<1> QED
  BY <1>3, <1>6 DEF Bound

\* The parts of a prompt with one block.
LEMMA BoundLaid ==
  ASSUME NEW s, NEW text \in Seq(Token), Bound(s, text)
  PROVE  /\ Client(text) \in Seq(Token)
         /\ \E p, q \in Seq(Plain) : Laid(s, p, q, Client(text))
<1>1. PICK p \in Seq(Plain), q \in Seq(Plain) : s = p \o Block("now") \o q \o Client(text)
  BY DEF Bound
<1>2. p \in Seq(Token) /\ q \in Seq(Token)
  <2>1. Plain \subseteq Token
    BY DEF Plain
  <2> QED
    BY <2>1, SeqMonotonic
<1>3. Client(text) \in Seq(Token)
  <2>1. <<>> \in Seq(Token)
    OBVIOUS
  <2> QED
    BY <2>1, ComposedIs
<1>4. Laid(s, p, q, Client(text))
  BY <1>1, <1>2, <1>3, Layout
<1> QED
  BY <1>3, <1>4

\* A resume finds the block it would put.
LEMMA ResumeBound ==
  ASSUME PlainPrompts, NEW text \in Contracts, NEW s, Bound(s, text), WellFormed(s)
  PROVE  Refreshed(s, "now") = s
<1>1. text \in Seq(Token)
  BY PromptsTyped
<1>2. At(text, "begin") \cup At(text, "finish") # {}
        => At(text, "start") = {} \/ At(text, "end") = {}
  BY DEF PlainPrompts
<1>3. Client(text) \in Seq(Token)
  BY <1>1, BoundLaid
<1>4. PICK p \in Seq(Plain), q \in Seq(Plain) : Laid(s, p, q, Client(text))
  BY <1>1, BoundLaid
<1>5. Markers(s, "start") = {Len(p) + 1} /\ Markers(s, "end") = {Len(p) + 3}
  BY <1>1, <1>2, <1>4, OnlyBlock
<1> QED
  BY <1>3, <1>4, <1>5, RefreshKeeps

\* The front of a sequence.
LEMMA FrontOf ==
  ASSUME NEW S, NEW s \in Seq(S), NEW m \in Nat, m <= Len(s)
  PROVE  /\ SubSeq(s, 1, m) \in Seq(S) /\ Len(SubSeq(s, 1, m)) = m
         /\ \A i \in 1 .. m : SubSeq(s, 1, m)[i] = s[i]
<1>1. Len(s) \in Nat
  BY LenProperties
<1> QED
  BY <1>1

\* What s starts with is a prefix of it.
LEMMA StartsWith ==
  ASSUME NEW S, NEW s \in Seq(S), NEW c \in Seq(S), Len(c) <= Len(s),
         \A i \in 1 .. Len(c) : s[i] = c[i]
  PROVE  IsPrefix(c, s)
<1> DEFINE u == SubSeq(c, 1, Len(c))
           v == SubSeq(s, 1, Len(c))
<1>1. Len(c) \in Nat
  BY LenProperties
<1>2. u \in Seq(S) /\ Len(u) = Len(c) /\ \A i \in 1 .. Len(c) : u[i] = c[i]
  BY <1>1, FrontOf
<1>3. v \in Seq(S) /\ Len(v) = Len(c) /\ \A i \in 1 .. Len(c) : v[i] = s[i]
  BY <1>1, FrontOf
<1> HIDE DEF u, v
<1>4. u = v
  BY <1>2, <1>3, SeqEqual
<1> QED
  BY <1>4 DEF IsPrefix, u, v

\* What s ends with is a suffix of it.
LEMMA EndsWith ==
  ASSUME NEW s \in Seq(Token), NEW c \in Seq(Token), NEW m \in Nat,
         Len(s) = m + Len(c), \A i \in 1 .. Len(c) : s[m + i] = c[i]
  PROVE  IsSuffix(c, s)
<1> DEFINE r == Reverse(c)
           t == Reverse(s)
<1>1. Len(c) \in Nat /\ Len(s) \in Nat
  BY LenProperties
<1>2. /\ r \in Seq(Token) /\ Len(r) = Len(c)
      /\ \A i \in 1 .. Len(c) : r[i] = c[(Len(c) - i) + 1]
  <2>1. r = [i \in 1 .. Len(c) |-> c[(Len(c) - i) + 1]]
    BY DEF Reverse
  <2>2. \A i \in 1 .. Len(c) : (Len(c) - i) + 1 \in 1 .. Len(c)
    BY <1>1
  <2>3. \A i \in 1 .. Len(c) : c[(Len(c) - i) + 1] \in Token
    BY <2>2, ElementOfSeq
  <2> HIDE DEF r
  <2> QED
    BY <1>1, <2>1, <2>3
<1>3. /\ t \in Seq(Token) /\ Len(t) = Len(s)
      /\ \A i \in 1 .. Len(s) : t[i] = s[(Len(s) - i) + 1]
  <2>1. t = [i \in 1 .. Len(s) |-> s[(Len(s) - i) + 1]]
    BY DEF Reverse
  <2>2. \A i \in 1 .. Len(s) : (Len(s) - i) + 1 \in 1 .. Len(s)
    BY <1>1
  <2>3. \A i \in 1 .. Len(s) : s[(Len(s) - i) + 1] \in Token
    BY <2>2, ElementOfSeq
  <2> HIDE DEF t
  <2> QED
    BY <1>1, <2>1, <2>3
<1> HIDE DEF r, t
<1>4. Len(r) <= Len(t)
  BY <1>1, <1>2, <1>3
<1>5. ASSUME NEW i \in 1 .. Len(c)
      PROVE  r[i] = t[i]
  <2>1. /\ (Len(c) - i) + 1 \in 1 .. Len(c) /\ i \in 1 .. Len(s)
        /\ m + ((Len(c) - i) + 1) = (Len(s) - i) + 1
    BY <1>1
  <2> QED
    BY <1>2, <1>3, <2>1
<1>6. \A i \in 1 .. Len(r) : t[i] = r[i]
  BY <1>2, <1>5
<1>7. IsPrefix(r, t)
  BY <1>2, <1>3, <1>4, <1>6, StartsWith
<1> QED
  BY <1>7 DEF IsSuffix, r, t

\* own is what s starts with, up to n.
Fronts(own, s, n) ==
  own \in Seq(Token) /\ Len(own) = n /\ \A i \in 1 .. n : own[i] = s[i]

\* The part of a prompt that is not the client's.
LEMMA OwnOnce ==
  ASSUME NEW p \in Seq(Plain), NEW q \in Seq(Plain), NEW c \in Seq(Token),
         NEW s, Laid(s, p, q, c),
         NEW own, Fronts(own, s, Len(p) + 3 + Len(q))
  PROVE  /\ Cardinality(At(own, "start")) = 1
         /\ Cardinality(At(own, "end")) = 1
         /\ \E i \in DOMAIN own : IsPrefix(Block("now"), SubSeq(own, i, Len(own)))
<1> DEFINE a == Len(p)
           m == Len(p) + 3 + Len(q)
<1>1. a \in Nat /\ Len(q) \in Nat /\ Len(c) \in Nat /\ m \in Nat
  BY LenProperties
<1>2. /\ s \in Seq(Token) /\ Len(s) = m + Len(c)
      /\ \A i \in 1 .. a : s[i] = p[i]
      /\ s[a + 1] = "start" /\ s[a + 2] = "now" /\ s[a + 3] = "end"
      /\ \A i \in 1 .. Len(q) : s[a + 3 + i] = q[i]
  BY DEF Laid
<1>3. own \in Seq(Token) /\ Len(own) = m /\ \A i \in 1 .. m : own[i] = s[i]
  BY DEF Fronts
<1>4. Laid(own, p, q, <<>>)
  <2>1. \A i \in 1 .. a : own[i] = p[i]
    BY <1>1, <1>2, <1>3
  <2>2. own[a + 1] = "start" /\ own[a + 2] = "now" /\ own[a + 3] = "end"
    BY <1>1, <1>2, <1>3
  <2>3. ASSUME NEW i \in 1 .. Len(q)
        PROVE  own[a + 3 + i] = q[i]
    <3>1. a + 3 + i \in 1 .. m
      BY <1>1
    <3> QED
      BY <1>2, <1>3, <3>1
  <2>4. Len(own) = m + Len(<<>>)
    BY <1>1, <1>3, EmptySeq
  <2>5. \A i \in 1 .. Len(<<>>) : own[m + i] = <<>>[i]
    BY EmptySeq
  <2> QED
    BY <1>3, <2>1, <2>2, <2>3, <2>4, <2>5 DEF Laid
<1>5. At(own, "start") = {a + 1} /\ At(own, "end") = {a + 3}
  <2>1. PICK e : e = <<>>
    OBVIOUS
  <2>2. e \in Seq(Token) /\ Len(e) = 0
    BY <2>1
  <2>3. Laid(own, p, q, e)
    BY <1>4, <2>1
  <2>4. /\ At(own, "start") = {Len(p) + 1} /\ At(own, "end") = {Len(p) + 3}
        /\ At(own, "begin") = {} /\ At(own, "finish") = {}
    BY <2>2, <2>3, OwnMarks
  <2> QED
    BY <2>4
<1>6. Cardinality(At(own, "start")) = 1 /\ Cardinality(At(own, "end")) = 1
  BY <1>5, FS_Singleton
<1>7. IsPrefix(Block("now"), SubSeq(own, a + 1, Len(own))) /\ a + 1 \in DOMAIN own
  <2> DEFINE t == SubSeq(own, a + 1, Len(own))
             b == Block("now")
  <2>1. b \in Seq(Token) /\ Len(b) = 3 /\ b[1] = "start" /\ b[2] = "now" /\ b[3] = "end"
    BY BlockIs
  <2> HIDE DEF b
  <2>2. t \in Seq(Token) /\ Len(t) = 3 + Len(q) /\ \A i \in 1 .. 3 : t[i] = own[a + i]
    <3>1. t \in Seq(Token) /\ Len(t) = m - a /\ \A i \in 1 .. m - a : t[i] = own[a + 1 + i - 1]
      BY <1>1, <1>3
    <3>2. m - a = 3 + Len(q) /\ \A i \in 1 .. 3 : i \in 1 .. m - a /\ a + 1 + i - 1 = a + i
      BY <1>1
    <3> HIDE DEF t
    <3> QED
      BY <3>1, <3>2
  <2> HIDE DEF t
  <2>3. ASSUME NEW i \in 1 .. 3
        PROVE  t[i] = b[i]
    <3>1. a + i \in 1 .. m
      BY <1>1
    <3>2. t[i] = s[a + i]
      BY <1>3, <2>2, <3>1
    <3>3. i = 1 \/ i = 2 \/ i = 3
      OBVIOUS
    <3> QED
      BY <1>2, <2>1, <3>2, <3>3
  <2>4. Len(b) <= Len(t) /\ \A i \in 1 .. Len(b) : t[i] = b[i]
    BY <1>1, <2>1, <2>2, <2>3
  <2>5. IsPrefix(b, t)
    BY <2>1, <2>2, <2>4, StartsWith
  <2>6. a + 1 \in DOMAIN own
    <3>1. DOMAIN own = 1 .. m
      BY <1>3, LenProperties
    <3> QED
      BY <1>1, <3>1
  <2> QED
    BY <2>5, <2>6 DEF b, t
<1> QED
  BY <1>6, <1>7

\* A prompt of the form has one binding, as OneBinding says it.
LEMMA BoundOnce ==
  ASSUME NEW text \in Seq(Token), NEW s, Bound(s, text)
  PROVE  /\ IsSuffix(Client(text), s)
         /\ \A own : own = SubSeq(s, 1, Len(s) - Len(Client(text))) =>
              /\ Cardinality(At(own, "start")) = 1
              /\ Cardinality(At(own, "end")) = 1
              /\ \E i \in DOMAIN own : IsPrefix(Block("now"), SubSeq(own, i, Len(own)))
<1> DEFINE c == Client(text)
<1>1. c \in Seq(Token)
  BY BoundLaid
<1>2. PICK p \in Seq(Plain), q \in Seq(Plain) : Laid(s, p, q, c)
  BY BoundLaid
<1> HIDE DEF c
<1> DEFINE m == Len(p) + 3 + Len(q)
<1>3. m \in Nat /\ Len(c) \in Nat
  BY <1>1, LenProperties
<1>4. /\ s \in Seq(Token) /\ Len(s) = m + Len(c)
      /\ \A i \in 1 .. Len(c) : s[m + i] = c[i]
  BY <1>2 DEF Laid
<1>5. IsSuffix(c, s)
  BY <1>1, <1>3, <1>4, EndsWith
<1>6. Len(s) - Len(c) = m /\ m <= Len(s)
  <2> HIDE DEF m
  <2> QED
    BY <1>3, <1>4
<1> DEFINE f == SubSeq(s, 1, m)
<1>7. Fronts(f, s, m)
  <2> HIDE DEF m
  <2>1. f \in Seq(Token) /\ Len(f) = m /\ \A i \in 1 .. m : f[i] = s[i]
    BY <1>3, <1>4, <1>6, FrontOf
  <2> QED
    BY <2>1 DEF Fronts
<1>8. f = SubSeq(s, 1, Len(s) - Len(c))
  BY <1>6
<1> HIDE DEF f
<1>9. /\ Cardinality(At(f, "start")) = 1
      /\ Cardinality(At(f, "end")) = 1
      /\ \E i \in DOMAIN f : IsPrefix(Block("now"), SubSeq(f, i, Len(f)))
  BY <1>1, <1>2, <1>7, OwnOnce
<1> QED
  BY <1>5, <1>8, <1>9 DEF c

-----------------------------------------------------------------------------
(* One binding.                                                            *)

\* A conversation's prompt has the form, with the contract of its client.
BindingInv ==
  /\ contract \in Contracts
  /\ Conversing => Bound(prompt, contract)

\* Fresh runs make such a prompt, resumes keep it, nothing else writes it.
LEMMA BindingStep ==
  ASSUME PlainPrompts, BindingInv, [Next]_vars
  PROVE  BindingInv'
<1> USE DEF BindingInv, Conversing
<1>1. CASE LeaveContext
  BY <1>1 DEF LeaveContext, system
<1>2. CASE ManageContext
  BY <1>2 DEF ManageContext, system
<1>3. CASE ManageFails
  BY <1>3 DEF ManageFails, system
<1>4. CASE Answer
  BY <1>4 DEF Answer, system
<1>5. CASE RunBatch
  BY <1>5 DEF RunBatch, system
<1>6. CASE Resume
  <2>1. contract' = contract /\ phase = "parked"
    BY <1>6 DEF Resume
  <2>2. CASE WellFormed(prompt)
    <3>1. Bound(prompt, contract)
      BY <2>1
    <3>2. prompt' = Refreshed(prompt, "now")
      BY <1>6, <2>2 DEF Resume
    <3>3. prompt' = prompt
      BY <2>2, <3>1, <3>2, ResumeBound
    <3> QED
      BY <2>1, <3>1, <3>3
  <2>3. CASE ~ WellFormed(prompt)
    BY <1>6, <2>1, <2>3 DEF Resume
  <2> QED
    BY <2>2, <2>3
<1>7. CASE FreshRun
  <2>1. PICK harness \in Harnesses : WellFormed(harness) /\ prompt' = Prompt(harness)
    BY <1>7 DEF FreshRun
  <2>2. Prompt(harness) = Composed(Refreshed(harness, "now"), contract)
    BY DEF Prompt, Briefed
  <2>3. Bound(prompt', contract)
    BY <2>1, <2>2, FreshBound
  <2>4. contract' = contract
    BY <1>7 DEF FreshRun
  <2> QED
    BY <2>3, <2>4
<1>8. CASE AskInBatch
  BY <1>8 DEF AskInBatch, system
<1>9. CASE UNCHANGED vars
  BY <1>9 DEF vars
<1> QED
  BY <1>1, <1>2, <1>3, <1>4, <1>5, <1>6, <1>7, <1>8, <1>9 DEF Next

\* OneBinding is what the form says.
LEMMA BindingInvOne == BindingInv => OneBinding
<1> SUFFICES ASSUME BindingInv, Conversing
             PROVE  /\ IsSuffix(Composed(<<>>, contract), prompt)
                    /\ Cardinality(At(OwnPrompt, "start")) = 1
                    /\ Cardinality(At(OwnPrompt, "end")) = 1
                    /\ \E i \in DOMAIN OwnPrompt :
                         IsPrefix(Block("now"), SubSeq(OwnPrompt, i, Len(OwnPrompt)))
  BY DEF OneBinding
<1>1. contract \in Seq(Token) /\ Bound(prompt, contract)
  BY PromptsTyped DEF BindingInv
<1>2. Client(contract) = Composed(<<>>, contract)
  BY DEF Client
<1>3. OwnPrompt = SubSeq(prompt, 1, Len(prompt) - Len(Client(contract)))
  BY <1>2 DEF OwnPrompt
<1>4. PICK s, text, own : s = prompt /\ text = contract /\ own = OwnPrompt
  OBVIOUS
<1>5. /\ IsSuffix(Client(text), s)
      /\ Cardinality(At(own, "start")) = 1
      /\ Cardinality(At(own, "end")) = 1
      /\ \E i \in DOMAIN own : IsPrefix(Block("now"), SubSeq(own, i, Len(own)))
  <2>1. text \in Seq(Token) /\ Bound(s, text)
    BY <1>1, <1>4
  <2>2. own = SubSeq(s, 1, Len(s) - Len(Client(text)))
    BY <1>3, <1>4
  <2>3. /\ IsSuffix(Client(text), s)
        /\ \A f : f = SubSeq(s, 1, Len(s) - Len(Client(text))) =>
             /\ Cardinality(At(f, "start")) = 1
             /\ Cardinality(At(f, "end")) = 1
             /\ \E i \in DOMAIN f : IsPrefix(Block("now"), SubSeq(f, i, Len(f)))
    BY <2>1, BoundOnce
  <2> QED
    BY <2>2, <2>3
<1> QED
  BY <1>2, <1>4, <1>5

\* However often a run is resumed, its prompt has one binding block, the current one,
\* and ends with the client's contract as it was sent: when no harness has the
\* delimiters of a contract, and no contract quotes both a delimiter and a block.
THEOREM BindsOnce ==
  ASSUME PlainPrompts PROVE Spec => []OneBinding
<1>1. Init => BindingInv
  BY DEF Init, BindingInv, Conversing
<1>2. BindingInv /\ [Next]_vars => BindingInv'
  BY BindingStep
<1> QED
  BY <1>1, <1>2, BindingInvOne, PTL DEF Spec

-----------------------------------------------------------------------------
(* The messages of the results.                                            *)

Bodies == {"small", "medium", "large", "pointer", "cut", "shrunk"}

FileNames == ({"result", "compact"} \X Nat) \cup {NoFile}

Message == [role : {"user", "assistant", "tool"}, words : {"none", "text", "parts"},
            asks : SUBSET Nat, call : Nat, body : Bodies, file : FileNames]

\* Each call of C has its result in h, once, and no other call has one.
Once(h, C) ==
  /\ {h[i].call : i \in Tools(h)} = C
  /\ \A i, j \in Tools(h) : h[i].call = h[j].call => i = j

\* A result that can be read, with its pointer, if it is one, to a file of its own.
Held(m, fs) ==
  \/ m.body \in Full
  \/ /\ m.body = "pointer"
     /\ m.file \in {<<"result", m.call>>, <<"compact", m.call>>}
     /\ m.file \in DOMAIN fs
     /\ fs[m.file] = [call |-> m.call, whole |-> TRUE]

AllHeld(h, fs) == \A i \in Tools(h) : Held(h[i], fs)

\* The tool messages are among the messages.
LEMMA ToolsIn ==
  ASSUME NEW h \in Seq(Message)
  PROVE  Tools(h) = {i \in 1 .. Len(h) : h[i].role = "tool"}
BY LenProperties DEF Tools

\* What is said is a message, and no result.
LEMMA SaidTyped ==
  ASSUME NEW role \in {"user", "assistant"}, NEW words \in {"none", "text", "parts"},
         NEW asks \in SUBSET Nat
  PROVE  /\ Said(role, words, asks) \in Message
         /\ Said(role, words, asks).role = role /\ Said(role, words, asks).asks = asks
BY DEF Said, Message, Bodies, FileNames

\* A result is a message.
LEMMA ResultTyped ==
  ASSUME NEW call \in Nat, NEW body \in Bodies, NEW file \in FileNames
  PROVE  /\ Result(call, body, file) \in Message
         /\ Result(call, body, file).role = "tool" /\ Result(call, body, file).call = call
         /\ Result(call, body, file).body = body /\ Result(call, body, file).file = file
BY DEF Result, Message

\* Results of other calls may follow.
LEMMA OnceConcat ==
  ASSUME NEW h \in Seq(Message), NEW r \in Seq(Message), NEW C, NEW W,
         Once(h, C), Once(r, W), C \cap W = {}
  PROVE  h \o r \in Seq(Message) /\ Once(h \o r, C \cup W)
<1> DEFINE u == h \o r
<1>1. Joins(u, h, r, Message)
  BY Joined
<1> HIDE DEF u
<1>2. /\ u \in Seq(Message) /\ Len(u) = Len(h) + Len(r)
      /\ \A i \in 1 .. Len(h) : u[i] = h[i]
      /\ \A i \in 1 .. Len(r) : u[Len(h) + i] = r[i]
  BY <1>1 DEF Joins
<1>3. Len(h) \in Nat /\ Len(r) \in Nat
  BY LenProperties
<1>4. /\ Tools(u) = {i \in 1 .. Len(u) : u[i].role = "tool"}
      /\ Tools(h) = {i \in 1 .. Len(h) : h[i].role = "tool"}
      /\ Tools(r) = {i \in 1 .. Len(r) : r[i].role = "tool"}
  BY <1>2, ToolsIn
<1>5. \A i \in Tools(h) : i \in Tools(u) /\ u[i] = h[i]
  BY <1>2, <1>3, <1>4
<1>6. \A i \in Tools(r) : Len(h) + i \in Tools(u) /\ u[Len(h) + i] = r[i]
  BY <1>2, <1>3, <1>4
<1>7. ASSUME NEW k \in Tools(u)
      PROVE  k \in Tools(h) \/ \E i \in Tools(r) : k = Len(h) + i
  <2>1. CASE k <= Len(h)
    BY <1>2, <1>3, <1>4, <2>1
  <2>2. CASE k > Len(h)
    <3>1. k - Len(h) \in 1 .. Len(r) /\ k = Len(h) + (k - Len(h))
      BY <1>2, <1>3, <1>4, <2>2
    <3>2. u[k] = r[k - Len(h)]
      BY <1>2, <3>1
    <3> QED
      BY <1>4, <3>1, <3>2
  <2> QED
    BY <1>3, <1>4, <2>1, <2>2
<1>8. /\ {h[i].call : i \in Tools(h)} = C
      /\ \A i, j \in Tools(h) : h[i].call = h[j].call => i = j
  BY DEF Once
<1>9. /\ {r[i].call : i \in Tools(r)} = W
      /\ \A i, j \in Tools(r) : r[i].call = r[j].call => i = j
  BY DEF Once
<1>10. {u[i].call : i \in Tools(u)} = C \cup W
  <2>1. ASSUME NEW i \in Tools(u)
        PROVE  u[i].call \in C \cup W
    BY <1>5, <1>6, <1>7, <1>8, <1>9
  <2>2. ASSUME NEW c \in C
        PROVE  \E i \in Tools(u) : u[i].call = c
    BY <1>5, <1>8
  <2>3. ASSUME NEW c \in W
        PROVE  \E i \in Tools(u) : u[i].call = c
    BY <1>6, <1>9
  <2> QED
    BY <2>1, <2>2, <2>3
<1>11. ASSUME NEW i \in Tools(u), NEW j \in Tools(u), u[i].call = u[j].call
       PROVE  i = j
  <2>1. CASE i \in Tools(h) /\ j \in Tools(h)
    BY <1>5, <1>8, <1>11, <2>1
  <2>2. CASE i \in Tools(h) /\ j \notin Tools(h)
    <3>1. u[i].call \in C
      BY <1>5, <1>8, <2>2
    <3>2. PICK k \in Tools(r) : j = Len(h) + k
      BY <1>7, <2>2
    <3>3. u[j].call \in W
      BY <1>6, <1>9, <3>2
    <3> QED
      BY <1>11, <3>1, <3>3
  <2>3. CASE i \notin Tools(h) /\ j \in Tools(h)
    <3>1. u[j].call \in C
      BY <1>5, <1>8, <2>3
    <3>2. PICK k \in Tools(r) : i = Len(h) + k
      BY <1>7, <2>3
    <3>3. u[i].call \in W
      BY <1>6, <1>9, <3>2
    <3> QED
      BY <1>11, <3>1, <3>3
  <2>4. CASE i \notin Tools(h) /\ j \notin Tools(h)
    BY <1>6, <1>7, <1>9, <1>11, <2>4
  <2> QED
    BY <2>1, <2>2, <2>3, <2>4
<1>12. Once(u, C \cup W)
  BY <1>10, <1>11 DEF Once
<1> QED
  BY <1>2, <1>12 DEF u

\* And what is held before and after is held.
LEMMA HeldConcat ==
  ASSUME NEW h \in Seq(Message), NEW r \in Seq(Message), NEW fs,
         AllHeld(h, fs), AllHeld(r, fs)
  PROVE  AllHeld(h \o r, fs)
<1> DEFINE u == h \o r
<1>1. Joins(u, h, r, Message)
  BY Joined
<1> HIDE DEF u
<1>2. /\ u \in Seq(Message) /\ Len(u) = Len(h) + Len(r)
      /\ \A i \in 1 .. Len(h) : u[i] = h[i]
      /\ \A i \in 1 .. Len(r) : u[Len(h) + i] = r[i]
  BY <1>1 DEF Joins
<1>3. Len(h) \in Nat /\ Len(r) \in Nat
  BY LenProperties
<1>4. /\ Tools(u) = {i \in 1 .. Len(u) : u[i].role = "tool"}
      /\ Tools(h) = {i \in 1 .. Len(h) : h[i].role = "tool"}
      /\ Tools(r) = {i \in 1 .. Len(r) : r[i].role = "tool"}
  BY <1>2, ToolsIn
<1>5. ASSUME NEW k \in Tools(u)
      PROVE  Held(u[k], fs)
  <2>1. CASE k <= Len(h)
    <3>1. k \in Tools(h) /\ u[k] = h[k]
      BY <1>2, <1>3, <1>4, <2>1
    <3> QED
      BY <3>1 DEF AllHeld
  <2>2. CASE k > Len(h)
    <3>1. k - Len(h) \in 1 .. Len(r) /\ k = Len(h) + (k - Len(h))
      BY <1>2, <1>3, <1>4, <2>2
    <3>2. u[k] = r[k - Len(h)]
      BY <1>2, <3>1
    <3>3. k - Len(h) \in Tools(r)
      BY <1>4, <3>1, <3>2
    <3> QED
      BY <3>2, <3>3 DEF AllHeld
  <2> QED
    BY <1>3, <1>4, <2>1, <2>2
<1> QED
  BY <1>5 DEF AllHeld, u

\* A message that is no result adds none.
LEMMA SaidOnce ==
  ASSUME NEW m \in Message, m.role # "tool", NEW fs
  PROVE  <<m>> \in Seq(Message) /\ Once(<<m>>, {}) /\ AllHeld(<<m>>, fs)
<1>1. <<m>> \in Seq(Message)
  OBVIOUS
<1>2. Tools(<<m>>) = {}
  <2>1. Tools(<<m>>) = {i \in 1 .. Len(<<m>>) : <<m>>[i].role = "tool"}
    BY <1>1, ToolsIn
  <2>2. Len(<<m>>) = 1 /\ <<m>>[1] = m
    OBVIOUS
  <2> QED
    BY <2>1, <2>2
<1> QED
  BY <1>1, <1>2 DEF Once, AllHeld

\* Nothing holds nothing.
LEMMA EmptyOnce ==
  ASSUME NEW fs
  PROVE  <<>> \in Seq(Message) /\ Once(<<>>, {}) /\ AllHeld(<<>>, fs)
<1>1. <<>> \in Seq(Message) /\ Tools(<<>>) = {}
  BY EmptySeq DEF Tools
<1> QED
  BY <1>1 DEF Once, AllHeld

\* r is h without some messages that are no results.
Embeds(r, h, e) ==
  /\ r \in Seq(Message) /\ e \in Seq(Nat) /\ Len(e) = Len(r) /\ Increasing(e)
  /\ Values(e) \subseteq 1 .. Len(h) /\ Tools(h) \subseteq Values(e)
  /\ \A k \in 1 .. Len(r) : r[k] = h[e[k]]

\* Then it has the results of h.
LEMMA KeepsResults ==
  ASSUME NEW h \in Seq(Message), NEW r, NEW e, Embeds(r, h, e), NEW C, NEW fs
  PROVE  /\ Once(h, C) => Once(r, C)
         /\ AllHeld(h, fs) => AllHeld(r, fs)
<1>1. /\ r \in Seq(Message) /\ e \in Seq(Nat) /\ Len(e) = Len(r) /\ Increasing(e)
      /\ Values(e) \subseteq 1 .. Len(h) /\ Tools(h) \subseteq Values(e)
      /\ \A k \in 1 .. Len(r) : r[k] = h[e[k]]
  BY DEF Embeds
<1>2. /\ Len(r) \in Nat /\ Len(h) \in Nat /\ DOMAIN e = 1 .. Len(r)
      /\ \A k \in 1 .. Len(r) : e[k] \in Nat
  BY <1>1, LenProperties, ElementOfSeq
<1>3. /\ Tools(r) = {i \in 1 .. Len(r) : r[i].role = "tool"}
      /\ Tools(h) = {i \in 1 .. Len(h) : h[i].role = "tool"}
  BY <1>1, ToolsIn
<1>4. ASSUME NEW k \in Tools(r)
      PROVE  e[k] \in Tools(h) /\ r[k] = h[e[k]]
  BY <1>1, <1>2, <1>3 DEF Values
<1>5. ASSUME NEW i \in Tools(h)
      PROVE  \E k \in Tools(r) : e[k] = i
  <2>1. PICK k \in DOMAIN e : e[k] = i
    BY <1>1 DEF Values
  <2>2. k \in Tools(r)
    BY <1>1, <1>2, <1>3, <2>1
  <2> QED
    BY <2>1, <2>2
<1>6. ASSUME NEW j \in DOMAIN e, NEW k \in DOMAIN e, e[j] = e[k]
      PROVE  j = k
  <2>1. j \in Nat /\ k \in Nat /\ e[j] \in Nat /\ e[k] \in Nat
    BY <1>2
  <2>2. (j < k => e[j] < e[k]) /\ (k < j => e[k] < e[j])
    BY <1>1 DEF Increasing
  <2>3. ~ (j < k) /\ ~ (k < j)
    BY <1>6, <2>1, <2>2
  <2> QED
    BY <2>1, <2>3
<1>7. ASSUME Once(h, C)
      PROVE  Once(r, C)
  <2>1. /\ {h[i].call : i \in Tools(h)} = C
        /\ \A i, j \in Tools(h) : h[i].call = h[j].call => i = j
    BY <1>7 DEF Once
  <2>2. {r[k].call : k \in Tools(r)} = C
    <3>1. ASSUME NEW k \in Tools(r)
          PROVE  r[k].call \in C
      BY <1>4, <2>1
    <3>2. ASSUME NEW c \in C
          PROVE  \E k \in Tools(r) : r[k].call = c
      <4>1. PICK i \in Tools(h) : h[i].call = c
        BY <2>1
      <4>2. PICK k \in Tools(r) : e[k] = i
        BY <1>5
      <4> QED
        BY <1>4, <4>1, <4>2
    <3> QED
      BY <3>1, <3>2
  <2>3. ASSUME NEW j \in Tools(r), NEW k \in Tools(r), r[j].call = r[k].call
        PROVE  j = k
    <3>1. e[j] = e[k]
      BY <1>4, <2>1, <2>3
    <3> QED
      BY <1>2, <1>3, <1>6, <3>1
  <2> QED
    BY <2>2, <2>3 DEF Once
<1>8. ASSUME AllHeld(h, fs)
      PROVE  AllHeld(r, fs)
  BY <1>4, <1>8 DEF AllHeld
<1> QED
  BY <1>7, <1>8

\* A summary removes only messages that are no results.
LEMMA RebuiltEmbeds ==
  ASSUME NEW h \in Seq(Message), Summarizes(h)
  PROVE  \E e : Embeds(Rebuilt(h), h, e)
<1> DEFINE n == Len(h)
           c == Cut(h)
           P == Tools(h) \cap 1 .. c
           front == Piece(h, P)
           back == SubSeq(h, c + 1, n)
           r == front \o back
<1>1. n \in Nat /\ c \in Nat /\ c < n + 1
  BY LimitsNatural, LenProperties DEF Summarizes, Cut
<1>2. Tools(h) = {i \in 1 .. n : h[i].role = "tool"}
  BY ToolsIn
<1>3. PICK g \in Seq(Nat) : Increasing(g) /\ Values(g) = P \cap 1 .. n
  BY <1>1, PositionsExist
<1>4. /\ front \in Seq(Message) /\ Len(front) = Len(g)
      /\ \A k \in 1 .. Len(g) : front[k] = h[g[k]]
  <2> HIDE DEF P
  <2>1. Values(g) = P \cap 1 .. Len(h)
    BY <1>3
  <2> QED
    BY <1>3, <2>1, PieceAt
<1>5. /\ back \in Seq(Message) /\ Len(back) = n - c
      /\ \A k \in 1 .. n - c : back[k] = h[c + k]
  <2>1. back \in Seq(Message)
    BY <1>1, SubSeqProperties
  <2>2. Len(back) = n - c
    BY <1>1, SubSeqProperties
  <2>3. \A k \in 1 .. n - c : back[k] = h[c + k]
    BY <1>1, SubSeqProperties
  <2> QED
    BY <2>1, <2>2, <2>3
<1>6. Rebuilt(h) = r
  BY DEF Rebuilt
<1> HIDE DEF front, back
<1>7. Joins(r, front, back, Message)
  BY <1>4, <1>5, Joined
<1> HIDE DEF r, c, n
<1>8. /\ r \in Seq(Message) /\ Len(r) = Len(g) + (n - c)
      /\ \A i \in 1 .. Len(g) : r[i] = h[g[i]]
      /\ \A i \in 1 .. n - c : r[Len(g) + i] = h[c + i]
  BY <1>4, <1>5, <1>7 DEF Joins
<1> DEFINE l == Len(g)
           e == [k \in 1 .. l + (n - c) |-> IF k <= l THEN g[k] ELSE c + (k - l)]
<1>9. l \in Nat /\ DOMAIN g = 1 .. l /\ \A k \in 1 .. l : g[k] \in 1 .. c /\ g[k] \in Tools(h)
  <2>1. l \in Nat /\ DOMAIN g = 1 .. l
    BY <1>3, LenProperties
  <2>2. \A k \in DOMAIN g : g[k] \in P
    BY <1>3 DEF Values
  <2> QED
    BY <2>1, <2>2
<1>10. /\ e \in Seq(Nat) /\ Len(e) = l + (n - c) /\ DOMAIN e = 1 .. l + (n - c)
       /\ \A k \in 1 .. l : e[k] = g[k]
       /\ \A k \in l + 1 .. l + (n - c) : e[k] = c + (k - l)
  <2>1. \A k \in 1 .. l + (n - c) : (IF k <= l THEN g[k] ELSE c + (k - l)) \in Nat
    BY <1>1, <1>9
  <2>2. l + (n - c) \in Nat
    BY <1>1, <1>9
  <2>3. e \in Seq(Nat)
    BY <2>1, <2>2, IsASeq
  <2>4. DOMAIN e = 1 .. l + (n - c)
    OBVIOUS
  <2>5. Len(e) = l + (n - c)
    BY <2>2, <2>3, <2>4, LenProperties
  <2>6. /\ \A k \in 1 .. l : e[k] = g[k]
        /\ \A k \in l + 1 .. l + (n - c) : e[k] = c + (k - l)
    BY <1>1, <1>9
  <2> QED
    BY <2>3, <2>4, <2>5, <2>6
<1> HIDE DEF e, l
<1>11. Increasing(e)
  <2> SUFFICES ASSUME NEW j \in 1 .. l + (n - c), NEW k \in 1 .. l + (n - c), j < k
               PROVE  e[j] < e[k]
    BY <1>10 DEF Increasing
  <2>1. CASE k <= l
    <3>1. j \in 1 .. l /\ k \in 1 .. l
      BY <1>9, <2>1
    <3> QED
      BY <1>3, <1>9, <1>10, <3>1 DEF Increasing
  <2>2. CASE j <= l /\ k > l
    <3>1. j \in 1 .. l /\ k \in l + 1 .. l + (n - c)
      BY <1>1, <1>9, <2>2
    <3>2. e[j] = g[j] /\ g[j] \in 1 .. c /\ e[k] = c + (k - l)
      BY <1>9, <1>10, <3>1
    <3> QED
      BY <1>1, <1>9, <2>2, <3>2
  <2>3. CASE j > l
    <3>1. j \in l + 1 .. l + (n - c) /\ k \in l + 1 .. l + (n - c)
      BY <1>1, <1>9, <2>3
    <3>2. e[j] = c + (j - l) /\ e[k] = c + (k - l)
      BY <1>10, <3>1
    <3> QED
      BY <1>1, <1>9, <3>2
  <2> QED
    BY <1>1, <1>9, <2>1, <2>2, <2>3
<1>12. Values(e) \subseteq 1 .. n
  <2> SUFFICES ASSUME NEW k \in 1 .. l + (n - c)
               PROVE  e[k] \in 1 .. n
    BY <1>10 DEF Values
  <2>1. CASE k <= l
    <3>1. e[k] = g[k] /\ g[k] \in 1 .. c
      BY <1>9, <1>10, <2>1
    <3> QED
      BY <1>1, <3>1
  <2>2. CASE k > l
    <3>1. k \in l + 1 .. l + (n - c)
      BY <1>1, <1>9, <2>2
    <3>2. e[k] = c + (k - l)
      BY <1>10, <3>1
    <3> QED
      BY <1>1, <1>9, <3>1, <3>2
  <2> QED
    BY <1>1, <1>9, <2>1, <2>2
<1>13. Tools(h) \subseteq Values(e)
  <2> SUFFICES ASSUME NEW i \in Tools(h)
               PROVE  \E k \in 1 .. l + (n - c) : e[k] = i
    BY <1>10 DEF Values
  <2>1. i \in 1 .. n
    BY <1>2
  <2>2. CASE i <= c
    <3>1. i \in Values(g)
      BY <1>1, <1>3, <2>1, <2>2
    <3>2. PICK k \in 1 .. l : g[k] = i
      BY <1>9, <3>1 DEF Values
    <3>3. k \in 1 .. l + (n - c) /\ e[k] = i
      BY <1>1, <1>9, <1>10, <3>2
    <3> QED
      BY <3>3
  <2>3. CASE i > c
    <3>1. (i - c) + l \in l + 1 .. l + (n - c)
      BY <1>1, <1>9, <2>1, <2>3
    <3>2. e[(i - c) + l] = c + (((i - c) + l) - l)
      BY <1>10, <3>1
    <3>3. c + (((i - c) + l) - l) = i /\ (i - c) + l \in 1 .. l + (n - c)
      BY <1>1, <1>9, <2>1, <3>1
    <3> QED
      BY <3>2, <3>3
  <2> QED
    BY <1>1, <2>1, <2>2, <2>3
<1>14. \A k \in 1 .. Len(r) : r[k] = h[e[k]]
  <2> SUFFICES ASSUME NEW k \in 1 .. l + (n - c)
               PROVE  r[k] = h[e[k]]
    BY <1>8 DEF l
  <2>1. CASE k <= l
    <3>1. k \in 1 .. l
      BY <1>9, <2>1
    <3>2. e[k] = g[k]
      BY <1>10, <3>1
    <3>3. r[k] = h[g[k]]
      BY <1>8, <3>1 DEF l
    <3> QED
      BY <3>2, <3>3
  <2>2. CASE k > l
    <3>1. k \in l + 1 .. l + (n - c) /\ k - l \in 1 .. n - c /\ l + (k - l) = k
      BY <1>1, <1>9, <2>2
    <3>2. e[k] = c + (k - l)
      BY <1>10, <3>1
    <3>3. r[l + (k - l)] = h[c + (k - l)]
      BY <1>8, <3>1 DEF l
    <3> QED
      BY <3>1, <3>2, <3>3
  <2> QED
    BY <1>1, <1>9, <2>1, <2>2
<1>15. Len(e) = Len(r)
  BY <1>8, <1>10 DEF l
<1>16. Embeds(r, h, e)
  BY <1>8, <1>10, <1>11, <1>12, <1>13, <1>14, <1>15 DEF Embeds, n
<1> QED
  BY <1>6, <1>16

\* g is h with other contents: the messages at P are the same.
Alike(g, h, P) ==
  /\ g \in Seq(Message) /\ Len(g) = Len(h)
  /\ \A i \in 1 .. Len(h) : g[i].role = h[i].role /\ g[i].call = h[i].call
  /\ \A i \in 1 .. Len(h) : i \in P => g[i] = h[i]

\* It has the results of h.
LEMMA AlikeOnce ==
  ASSUME NEW h \in Seq(Message), NEW g, NEW P, Alike(g, h, P), NEW C, Once(h, C)
  PROVE  Tools(g) = Tools(h) /\ Once(g, C)
<1>1. /\ g \in Seq(Message) /\ Len(g) = Len(h)
      /\ \A i \in 1 .. Len(h) : g[i].role = h[i].role /\ g[i].call = h[i].call
  BY DEF Alike
<1>2. /\ Tools(g) = {i \in 1 .. Len(g) : g[i].role = "tool"}
      /\ Tools(h) = {i \in 1 .. Len(h) : h[i].role = "tool"}
  BY <1>1, ToolsIn
<1>3. Tools(g) = Tools(h)
  BY <1>1, <1>2
<1>4. \A i \in Tools(h) : g[i].call = h[i].call
  BY <1>1, <1>2
<1>5. {g[i].call : i \in Tools(h)} = {h[i].call : i \in Tools(h)}
  BY <1>4
<1> QED
  BY <1>3, <1>4, <1>5 DEF Once

\* A name has two parts, and the absence of a file is none.
LEMMA NamesTyped ==
  ASSUME NEW c \in Nat
  PROVE  /\ <<"result", c>> \in FileNames /\ <<"compact", c>> \in FileNames
         /\ <<"result", c>> # NoFile /\ <<"compact", c>> # NoFile
BY DEF FileNames, NoFile

\* Compaction of one message at i changes its contents.
LEMMA CompactOneAlike ==
  ASSUME NEW h \in Seq(Message), NEW P, NEW st, Alike(st.history, h, P),
         NEW i \in 1 .. Len(h), i \notin P, NEW disk \in BOOLEAN
  PROVE  Alike(CompactOne(st, i, disk).history, h, P)
<1> DEFINE g == st.history
           m == g[i]
           body == IF HasWorkspace THEN Offloaded(m.body, disk) ELSE "shrunk"
           file == IF body = "pointer" THEN CompactFile(m.call, i) ELSE NoFile
           new == [g EXCEPT ![i].body = body, ![i].file = file]
<1>1. CASE ~ Over(g) \/ m.body \in {"small", "pointer", "shrunk"}
  BY <1>1 DEF CompactOne
<1>2. CASE ~ (~ Over(g) \/ m.body \in {"small", "pointer", "shrunk"})
  <2>1. CompactOne(st, i, disk).history = new
    BY <1>2 DEF CompactOne
  <2>2. /\ g \in Seq(Message) /\ Len(g) = Len(h) /\ Len(h) \in Nat
        /\ \A j \in 1 .. Len(h) : g[j].role = h[j].role /\ g[j].call = h[j].call
        /\ \A j \in 1 .. Len(h) : j \in P => g[j] = h[j]
        /\ \A j \in 1 .. Len(h) : g[j] \in Message
        /\ DOMAIN g = 1 .. Len(h)
    BY LenProperties, ElementOfSeq DEF Alike
  <2>3. m \in Message /\ m.body \in Bodies /\ m.call \in Nat
    BY <2>2 DEF Message
  <2>4. body \in Bodies
    BY <2>3 DEF Offloaded, Bodies
  <2>5. file \in FileNames
    <3>1. m.call \in Nat /\ i \in Nat
      BY <2>2, <2>3
    <3>2. CompactFile(m.call, i) \in FileNames
      BY <3>1, NamesTyped DEF CompactFile
    <3> QED
      BY <3>2 DEF FileNames
  <2> HIDE DEF body, file
  <2>6. /\ DOMAIN new = 1 .. Len(h)
        /\ \A j \in 1 .. Len(h) : j # i => new[j] = g[j]
        /\ new[i] = [m EXCEPT !.body = body, !.file = file]
    BY <2>2
  <2> HIDE DEF new
  <2>7. new[i] \in Message /\ new[i].role = m.role /\ new[i].call = m.call
    BY <2>3, <2>4, <2>5, <2>6 DEF Message
  <2>8. \A j \in 1 .. Len(h) : new[j] \in Message
    BY <2>2, <2>6, <2>7
  <2>9. new \in Seq(Message) /\ Len(new) = Len(h)
    <3>1. new = [j \in 1 .. Len(h) |-> new[j]]
      BY <2>6 DEF new
    <3>2. new \in Seq(Message)
      BY <2>2, <2>8, <3>1, IsASeq
    <3> QED
      BY <2>2, <2>6, <3>2, LenProperties
  <2>10. \A j \in 1 .. Len(h) : new[j].role = h[j].role /\ new[j].call = h[j].call
    BY <2>2, <2>6, <2>7
  <2>11. \A j \in 1 .. Len(h) : j \in P => new[j] = h[j]
    BY <2>2, <2>6
  <2> QED
    BY <2>1, <2>9, <2>10, <2>11 DEF Alike
<1> QED
  BY <1>1, <1>2

\* What was held still is, when the files could be written.
LEMMA CompactOneHeld ==
  ASSUME NEW h \in Seq(Message), NEW P, NEW st, Alike(st.history, h, P), NEW C, Once(h, C),
         NEW i \in Tools(h), i \notin P, HasWorkspace, IdsGiven,
         AllHeld(st.history, st.files)
  PROVE  AllHeld(CompactOne(st, i, TRUE).history, CompactOne(st, i, TRUE).files)
<1> DEFINE g == st.history
           fs == st.files
           m == g[i]
           body == Offloaded(m.body, TRUE)
           file == IF body = "pointer" THEN CompactFile(m.call, i) ELSE NoFile
           new == [g EXCEPT ![i].body = body, ![i].file = file]
           name == <<"compact", m.call>>
           after == IF body = "pointer" THEN Written(fs, CompactFile(m.call, i), m.call, m.body = "large")
                    ELSE fs
<1>1. CASE ~ Over(g) \/ m.body \in {"small", "pointer", "shrunk"}
  BY <1>1 DEF CompactOne
<1>2. CASE ~ (~ Over(g) \/ m.body \in {"small", "pointer", "shrunk"})
  <2>1. CompactOne(st, i, TRUE).history = new /\ CompactOne(st, i, TRUE).files = after
    BY <1>2 DEF CompactOne
  <2>2. Tools(g) = Tools(h) /\ Once(g, C)
    BY AlikeOnce
  <2>3. /\ g \in Seq(Message) /\ Len(g) \in Nat /\ DOMAIN g = 1 .. Len(g)
        /\ \A j \in 1 .. Len(g) : g[j] \in Message
    BY LenProperties, ElementOfSeq DEF Alike
  <2>4. Tools(g) = {j \in 1 .. Len(g) : g[j].role = "tool"}
    BY <2>3, ToolsIn
  <2>5. i \in 1 .. Len(g) /\ m \in Message /\ m.call \in Nat
    BY <2>2, <2>3, <2>4 DEF Message
  <2>6. Held(m, fs)
    BY <2>2 DEF AllHeld
  <2>7. m.body \in {"medium", "large"}
    BY <1>2, <2>6 DEF Held, Full
  <2>8. /\ m.body = "medium" => body = "medium"
        /\ m.body = "large" => body = "pointer"
    BY DEF Offloaded
  <2>9. CompactFile(m.call, i) = name
    BY DEF CompactFile
  <2> HIDE DEF body
  <2>10. /\ m.body = "medium" => file = NoFile /\ after = fs
         /\ m.body = "large" => file = name /\ after = Written(fs, name, m.call, TRUE)
    BY <2>8, <2>9
  <2> HIDE DEF file, after, name
  <2>11. /\ DOMAIN new = 1 .. Len(g)
         /\ \A j \in 1 .. Len(g) : j # i => new[j] = g[j]
         /\ new[i] = [m EXCEPT !.body = body, !.file = file]
    BY <2>3, <2>5
  <2> HIDE DEF new
  <2>12. new[i].role = m.role /\ new[i].call = m.call /\ new[i].body = body /\ new[i].file = file
    BY <2>5, <2>11 DEF Message
  <2>13. \A j \in Tools(new) : j \in Tools(g)
    BY <2>4, <2>5, <2>11, <2>12 DEF Tools
  <2>14. Held(new[i], after)
    <3>1. CASE m.body = "medium"
      BY <2>8, <2>12, <3>1 DEF Held, Full
    <3>2. CASE m.body = "large"
      <4>1. after = Written(fs, name, m.call, TRUE) /\ file = name
        BY <2>10, <3>2
      <4>2. name \in DOMAIN after /\ after[name] = [call |-> m.call, whole |-> TRUE]
        BY <4>1 DEF Written
      <4>3. name = <<"compact", m.call>>
        BY DEF name
      <4> QED
        BY <2>8, <2>12, <3>2, <4>1, <4>2, <4>3 DEF Held
    <3> QED
      BY <2>7, <3>1, <3>2
  <2>15. ASSUME NEW j \in Tools(new), j # i
         PROVE  Held(new[j], after)
    <3>1. j \in Tools(g) /\ j \in 1 .. Len(g) /\ new[j] = g[j] /\ g[j].call \in Nat
      BY <2>3, <2>4, <2>11, <2>13, <2>15 DEF Message
    <3>2. Held(g[j], fs)
      BY <3>1 DEF AllHeld
    <3>3. g[j].call # m.call
      BY <2>2, <2>15, <3>1 DEF Once
    <3>4. CASE m.body = "medium"
      BY <2>10, <3>1, <3>2, <3>4
    <3>5. CASE m.body = "large"
      <4>1. after = Written(fs, name, m.call, TRUE)
        BY <2>10, <3>5
      <4>2. ASSUME NEW n \in DOMAIN fs, n # name
            PROVE  n \in DOMAIN after /\ after[n] = fs[n]
        BY <4>1, <4>2 DEF Written
      <4>3. <<"result", g[j].call>> # name /\ <<"compact", g[j].call>> # name
        BY <3>3 DEF name
      <4>4. CASE g[j].body \in Full
        BY <3>1, <4>4 DEF Held
      <4>5. CASE g[j].body \notin Full
        <5>1. /\ g[j].body = "pointer"
              /\ g[j].file \in {<<"result", g[j].call>>, <<"compact", g[j].call>>}
              /\ g[j].file \in DOMAIN fs
              /\ fs[g[j].file] = [call |-> g[j].call, whole |-> TRUE]
          BY <3>2, <4>5 DEF Held
        <5>2. g[j].file # name
          BY <4>3, <5>1
        <5>3. g[j].file \in DOMAIN after /\ after[g[j].file] = fs[g[j].file]
          BY <4>2, <5>1, <5>2
        <5> QED
          BY <3>1, <5>1, <5>3 DEF Held
      <4> QED
        BY <4>4, <4>5
    <3> QED
      BY <2>7, <3>4, <3>5
  <2>16. AllHeld(new, after)
    BY <2>14, <2>15 DEF AllHeld
  <2> QED
    BY <2>1, <2>16
<1> QED
  BY <1>1, <1>2

\* The function Compacted is defined by, up to n.
Compacting(f, h, n, disk) ==
  f = [i \in 0 .. n |-> IF i = 0 THEN [history |-> h, files |-> files]
                        ELSE IF i \in Compactable(h) THEN CompactOne(f[i - 1], i, disk)
                        ELSE f[i - 1]]

\* What the function says at each index.
LEMMA CompactingStep ==
  ASSUME NEW f, NEW h, NEW n \in Nat, NEW disk, Compacting(f, h, n, disk)
  PROVE  /\ f[0] = [history |-> h, files |-> files]
         /\ \A i \in 1 .. n : f[i] = IF i \in Compactable(h) THEN CompactOne(f[i - 1], i, disk)
                                     ELSE f[i - 1]
<1>1. 0 \in 0 .. n /\ \A i \in 1 .. n : i \in 0 .. n /\ i # 0
  OBVIOUS
<1> QED
  BY <1>1 DEF Compacting

\* There is such a function for every length.
LEMMA CompactingExists ==
  ASSUME NEW h, NEW disk
  PROVE  \A n \in Nat : \E f : Compacting(f, h, n, disk)
<1> DEFINE N == {n \in Nat : \E f : Compacting(f, h, n, disk)}
<1>1. 0 \in N
  <2>1. Compacting([i \in 0 .. 0 |-> [history |-> h, files |-> files]], h, 0, disk)
    BY DEF Compacting
  <2> QED
    BY <2>1
<1>2. ASSUME NEW n \in Nat, n \in N
      PROVE  n + 1 \in N
  <2>1. PICK f : Compacting(f, h, n, disk)
    BY <1>2
  <2> DEFINE g == [i \in 0 .. n + 1 |->
                     IF i <= n THEN f[i]
                     ELSE IF n + 1 \in Compactable(h) THEN CompactOne(f[n], n + 1, disk)
                     ELSE f[n]]
  <2>2. ASSUME NEW i \in 0 .. n + 1
        PROVE  g[i] = IF i = 0 THEN [history |-> h, files |-> files]
                      ELSE IF i \in Compactable(h) THEN CompactOne(g[i - 1], i, disk)
                      ELSE g[i - 1]
    <3>1. CASE i = 0
      <4>1. g[0] = f[0]
        OBVIOUS
      <4>2. f[0] = [history |-> h, files |-> files]
        BY <2>1, CompactingStep, Zenon
      <4> QED
        BY <3>1, <4>1, <4>2
    <3>2. CASE i \in 1 .. n
      <4>1. g[i] = f[i] /\ g[i - 1] = f[i - 1]
        BY <3>2
      <4> QED
        BY <2>1, <3>2, <4>1, CompactingStep
    <3>3. CASE i = n + 1
      <4>1. /\ g[i] = IF n + 1 \in Compactable(h) THEN CompactOne(f[n], n + 1, disk) ELSE f[n]
            /\ g[i - 1] = f[n]
        BY <3>3
      <4> QED
        BY <3>3, <4>1
    <3> QED
      BY <3>1, <3>2, <3>3
  <2>3. g = [i \in 0 .. n + 1 |-> g[i]]
    OBVIOUS
  <2>4. Compacting(g, h, n + 1, disk)
    <3> HIDE DEF g
    <3> QED
      BY <2>2, <2>3 DEF Compacting
  <2> QED
    BY <2>4
<1>3. Nat \subseteq N
  <2> HIDE DEF N
  <2> QED
    BY <1>1, <1>2, NaturalInduction
<1> QED
  BY <1>3

\* Compaction changes contents of older results, and nothing else.
LEMMA CompactedAlike ==
  ASSUME NEW h \in Seq(Message), NEW disk \in BOOLEAN
  PROVE  Alike(Compacted(h, disk).history, h, (1 .. Len(h)) \ Compactable(h))
<1> DEFINE P == (1 .. Len(h)) \ Compactable(h)
           k == CHOOSE f : Compacting(f, h, Len(h), disk)
           N == {n \in Nat : n <= Len(h) => Alike(k[n].history, h, P)}
<1>1. Len(h) \in Nat
  BY LenProperties
<1>2. Compacting(k, h, Len(h), disk)
  BY <1>1, CompactingExists
<1>3. Compacted(h, disk) = k[Len(h)]
  BY DEF Compacted, Compacting
<1> HIDE DEF k, P
<1>4. /\ k[0] = [history |-> h, files |-> files]
      /\ \A i \in 1 .. Len(h) : k[i] = IF i \in Compactable(h) THEN CompactOne(k[i - 1], i, disk)
                                       ELSE k[i - 1]
  BY <1>1, <1>2, CompactingStep
<1>5. 0 \in N
  BY <1>4 DEF Alike
<1>6. ASSUME NEW n \in Nat, n \in N
      PROVE  n + 1 \in N
  <2> SUFFICES ASSUME n + 1 <= Len(h)
               PROVE  Alike(k[n + 1].history, h, P)
    OBVIOUS
  <2>1. PICK i \in 1 .. Len(h) : i = n + 1
    BY <1>1
  <2>2. PICK st : st = k[n]
    OBVIOUS
  <2>3. Alike(st.history, h, P)
    BY <1>1, <1>6, <2>2
  <2>4. k[i] = IF i \in Compactable(h) THEN CompactOne(st, i, disk) ELSE st
    <3>1. i - 1 = n
      BY <2>1
    <3> QED
      BY <1>4, <2>2, <3>1
  <2>5. i \in Compactable(h) => i \notin P
    BY DEF P
  <2>6. i \in Compactable(h) => Alike(CompactOne(st, i, disk).history, h, P)
    BY <2>3, <2>5, CompactOneAlike
  <2> QED
    BY <2>1, <2>3, <2>4, <2>6
<1>7. Nat \subseteq N
  <2> HIDE DEF N
  <2> QED
    BY <1>5, <1>6, NaturalInduction
<1>8. Alike(k[Len(h)].history, h, P)
  BY <1>1, <1>7
<1> QED
  BY <1>3, <1>8 DEF P

\* What was held is held after compaction, when the files could be written.
LEMMA CompactedHeld ==
  ASSUME NEW h \in Seq(Message), NEW C, Once(h, C), HasWorkspace, IdsGiven,
         AllHeld(h, files)
  PROVE  AllHeld(Compacted(h, TRUE).history, Compacted(h, TRUE).files)
<1> DEFINE P == (1 .. Len(h)) \ Compactable(h)
           k == CHOOSE f : Compacting(f, h, Len(h), TRUE)
           N == {n \in Nat : n <= Len(h) => /\ Alike(k[n].history, h, P)
                                           /\ AllHeld(k[n].history, k[n].files)}
<1>1. Len(h) \in Nat
  BY LenProperties
<1>2. Compacting(k, h, Len(h), TRUE)
  BY <1>1, CompactingExists
<1>3. Compacted(h, TRUE) = k[Len(h)]
  BY DEF Compacted, Compacting
<1> HIDE DEF k, P
<1>4. /\ k[0] = [history |-> h, files |-> files]
      /\ \A i \in 1 .. Len(h) : k[i] = IF i \in Compactable(h) THEN CompactOne(k[i - 1], i, TRUE)
                                       ELSE k[i - 1]
  BY <1>1, <1>2, CompactingStep
<1>5. 0 \in N
  BY <1>4 DEF Alike
<1>6. ASSUME NEW n \in Nat, n \in N
      PROVE  n + 1 \in N
  <2> SUFFICES ASSUME n + 1 <= Len(h)
               PROVE  Alike(k[n + 1].history, h, P) /\ AllHeld(k[n + 1].history, k[n + 1].files)
    OBVIOUS
  <2>1. PICK i \in 1 .. Len(h) : i = n + 1
    BY <1>1
  <2>2. PICK st : st = k[n]
    OBVIOUS
  <2>3. Alike(st.history, h, P) /\ AllHeld(st.history, st.files)
    BY <1>1, <1>6, <2>2
  <2>4. k[i] = IF i \in Compactable(h) THEN CompactOne(st, i, TRUE) ELSE st
    <3>1. i - 1 = n
      BY <2>1
    <3> QED
      BY <1>4, <2>2, <3>1
  <2>5. i \in Compactable(h) => i \notin P /\ i \in Tools(h)
    BY DEF P, Compactable
  <2>6. i \in Compactable(h) =>
          /\ Alike(CompactOne(st, i, TRUE).history, h, P)
          /\ AllHeld(CompactOne(st, i, TRUE).history, CompactOne(st, i, TRUE).files)
    BY <2>3, <2>5, CompactOneAlike, CompactOneHeld
  <2> QED
    BY <2>1, <2>3, <2>4, <2>6
<1>7. Nat \subseteq N
  <2> HIDE DEF N
  <2> QED
    BY <1>5, <1>6, NaturalInduction
<1>8. AllHeld(k[Len(h)].history, k[Len(h)].files)
  BY <1>1, <1>7
<1> QED
  BY <1>3, <1>8

\* The calls of a batch in their order.
LEMMA Ordered ==
  ASSUME made \in Nat, NEW P, P \subseteq 1 .. made
  PROVE  /\ InOrder(P) \in Seq(Nat) /\ Increasing(InOrder(P)) /\ Values(InOrder(P)) = P
<1> DEFINE s == [c \in 1 .. made |-> c]
<1>1. s \in Seq(Nat) /\ Len(s) = made
  <2>1. s \in Seq(Nat)
    BY IsASeq
  <2>2. DOMAIN s = 1 .. made
    OBVIOUS
  <2> QED
    BY <2>1, <2>2, LenProperties
<1>2. Chosen(made, P) = InOrder(P)
  BY DEF Chosen, InOrder
<1> HIDE DEF s
<1>3. Matches(Piece(s, P), Chosen(Len(s), P), s, Len(s), P, Nat)
  BY <1>1, PieceMatches
<1>4. Matches(Piece(s, P), InOrder(P), s, made, P, Nat)
  BY <1>1, <1>2, <1>3
<1>5. P \cap 1 .. made = P
  OBVIOUS
<1> QED
  BY <1>4, <1>5 DEF Matches

\* The messages r are results of the calls of order.
Answers(r, order) ==
  /\ r \in Seq(Message) /\ Len(r) = Len(order)
  /\ \A i \in 1 .. Len(order) : r[i].role = "tool" /\ r[i].call = order[i]

\* One of each.
LEMMA AnswersOnce ==
  ASSUME NEW order \in Seq(Nat), Increasing(order), NEW r, Answers(r, order)
  PROVE  r \in Seq(Message) /\ Tools(r) = 1 .. Len(order) /\ Once(r, Values(order))
<1>1. /\ r \in Seq(Message) /\ Len(r) = Len(order)
      /\ \A i \in 1 .. Len(order) : r[i].role = "tool" /\ r[i].call = order[i]
  BY DEF Answers
<1>2. /\ DOMAIN order = 1 .. Len(order) /\ Len(order) \in Nat
      /\ \A i \in 1 .. Len(order) : order[i] \in Nat
  BY LenProperties, ElementOfSeq
<1>3. Tools(r) = 1 .. Len(order)
  BY <1>1, ToolsIn
<1>4. {r[i].call : i \in 1 .. Len(order)} = Values(order)
  BY <1>1, <1>2 DEF Values
<1>5. ASSUME NEW i \in 1 .. Len(order), NEW j \in 1 .. Len(order), r[i].call = r[j].call
      PROVE  i = j
  <2>1. order[i] = order[j]
    BY <1>1, <1>5
  <2> QED
    BY <1>2, <2>1 DEF Increasing
<1> QED
  BY <1>1, <1>3, <1>4, <1>5 DEF Once

\* The results of a batch: texts, or pointers to files.
LEMMA ResultsAre ==
  ASSUME NEW order \in Seq(Nat), NEW kinds, NEW calls \in Nat, NEW disk \in BOOLEAN,
         \A c \in Values(order) : kinds[c] \in {"small", "medium", "large", "reread"}
  PROVE  /\ Answers(Results(order, kinds, calls, disk), order)
         /\ HasWorkspace /\ IdsGiven /\ disk =>
              \A i \in 1 .. Len(order) :
                \/ /\ Results(order, kinds, calls, disk)[i].body \in Full
                   /\ Results(order, kinds, calls, disk)[i].file = NoFile
                \/ /\ Results(order, kinds, calls, disk)[i].body = "pointer"
                   /\ Results(order, kinds, calls, disk)[i].file = <<"result", order[i]>>
<1> DEFINE r == Results(order, kinds, calls, disk)
           body(i) == Text(kinds[order[i]], disk)
           file(i) == IF body(i) = "pointer" THEN FileOf(order[i], calls) ELSE NoFile
<1>1. /\ DOMAIN order = 1 .. Len(order) /\ Len(order) \in Nat
      /\ \A i \in 1 .. Len(order) : order[i] \in Nat
  BY LenProperties, ElementOfSeq
<1>2. r = [i \in 1 .. Len(order) |-> Result(order[i], body(i), file(i))]
  BY <1>1 DEF Results
<1>3. ASSUME NEW i \in 1 .. Len(order)
      PROVE  /\ body(i) \in Bodies /\ file(i) \in FileNames
             /\ HasWorkspace /\ IdsGiven /\ disk =>
                  \/ body(i) \in Full /\ file(i) = NoFile
                  \/ body(i) = "pointer" /\ file(i) = <<"result", order[i]>>
  <2>1. kinds[order[i]] \in {"small", "medium", "large", "reread"}
    BY <1>1 DEF Values
  <2>2. body(i) \in Bodies
    BY <2>1 DEF Text, Skipped, Offloaded, Bodies
  <2>3. FileOf(order[i], calls) \in FileNames
    BY <1>1, NamesTyped DEF FileOf
  <2>4. file(i) \in FileNames
    BY <2>3 DEF FileNames
  <2>5. HasWorkspace /\ disk => body(i) \in Full \cup {"pointer"}
    BY <2>1 DEF Text, Skipped, Offloaded, Full
  <2>6. IdsGiven => FileOf(order[i], calls) = <<"result", order[i]>>
    BY DEF FileOf
  <2>7. body(i) \in Full => file(i) = NoFile
    BY DEF Full
  <2> QED
    BY <2>2, <2>4, <2>5, <2>6, <2>7
<1> HIDE DEF body, file, r
<1>4. ASSUME NEW i \in 1 .. Len(order)
      PROVE  /\ r[i] \in Message /\ r[i].role = "tool" /\ r[i].call = order[i]
             /\ r[i].body = body(i) /\ r[i].file = file(i)
  <2>1. order[i] \in Nat /\ body(i) \in Bodies /\ file(i) \in FileNames
    BY <1>1, <1>3
  <2>2. r[i] = Result(order[i], body(i), file(i))
    BY <1>2
  <2> QED
    BY <2>1, <2>2, ResultTyped
<1>5. r \in Seq(Message) /\ Len(r) = Len(order)
  <2>1. r = [i \in 1 .. Len(order) |-> r[i]]
    BY <1>2
  <2>2. r \in Seq(Message)
    BY <1>1, <1>4, <2>1, IsASeq
  <2>3. DOMAIN r = 1 .. Len(order)
    BY <1>2
  <2> QED
    BY <1>1, <2>2, <2>3, LenProperties
<1>6. Answers(r, order)
  BY <1>4, <1>5 DEF Answers
<1>7. HasWorkspace /\ IdsGiven /\ disk =>
        \A i \in 1 .. Len(order) :
          \/ r[i].body \in Full /\ r[i].file = NoFile
          \/ r[i].body = "pointer" /\ r[i].file = <<"result", order[i]>>
  BY <1>3, <1>4
<1> QED
  BY <1>6, <1>7 DEF r

\* A batch writes files of its own calls: what other messages point to stays, and
\* what its own point to is there.
LEMMA FiledHeld ==
  ASSUME NEW order \in Seq(Nat), Increasing(order), NEW r, Answers(r, order),
         \A i \in 1 .. Len(order) :
           \/ r[i].body \in Full /\ r[i].file = NoFile
           \/ r[i].body = "pointer" /\ r[i].file = <<"result", order[i]>>,
         NEW h \in Seq(Message), NEW C, Once(h, C), C \cap Values(order) = {},
         AllHeld(h, files)
  PROVE  AllHeld(h, Filed(r)) /\ AllHeld(r, Filed(r))
<1> DEFINE named(n) == {i \in DOMAIN r : r[i].file = n}
           latest(n) == CHOOSE i \in named(n) : \A j \in named(n) : j <= i
           names == {r[i].file : i \in DOMAIN r} \ {NoFile}
           fs == Filed(r)
<1>1. fs = [n \in DOMAIN files \cup names |->
              IF n \in names THEN [call |-> r[latest(n)].call, whole |-> TRUE] ELSE files[n]]
  BY DEF Filed
<1>2. /\ r \in Seq(Message) /\ Len(r) = Len(order) /\ DOMAIN r = 1 .. Len(order)
      /\ \A i \in 1 .. Len(order) : r[i].role = "tool" /\ r[i].call = order[i]
      /\ Tools(r) = 1 .. Len(order)
  BY AnswersOnce, LenProperties DEF Answers
<1>3. /\ DOMAIN order = 1 .. Len(order) /\ Len(order) \in Nat
      /\ \A i \in 1 .. Len(order) : order[i] \in Nat
  BY LenProperties, ElementOfSeq
<1>4. \A i, j \in 1 .. Len(order) : order[i] = order[j] => i = j
  <2> SUFFICES ASSUME NEW i \in 1 .. Len(order), NEW j \in 1 .. Len(order), order[i] = order[j]
               PROVE  i = j
    OBVIOUS
  <2>1. i \in DOMAIN order /\ j \in DOMAIN order /\ order[i] \in Nat /\ order[j] \in Nat
    BY <1>3
  <2>2. i < j => order[i] < order[j]
    BY <2>1 DEF Increasing
  <2>3. j < i => order[j] < order[i]
    BY <2>1 DEF Increasing
  <2> QED
    BY <1>3, <2>1, <2>2, <2>3
<1>5. ASSUME NEW n \in names
      PROVE  \E c \in Values(order) : n = <<"result", c>>
  <2>1. PICK i \in 1 .. Len(order) : r[i].file = n
    BY <1>2
  <2>2. n = <<"result", order[i]>>
    BY <2>1
  <2> QED
    BY <1>3, <2>2 DEF Values
<1>6. ASSUME NEW i \in 1 .. Len(order), r[i].file # NoFile
      PROVE  /\ r[i].file \in names
             /\ latest(r[i].file) = i
  <2>1. r[i].file \in names
    BY <1>2, <1>6
  <2>2. named(r[i].file) = {i}
    <3>1. ASSUME NEW j \in 1 .. Len(order), r[j].file = r[i].file
          PROVE  j = i
      <4>1. r[i].file = <<"result", order[i]>> /\ r[j].file = <<"result", order[j]>>
        BY <1>6, <3>1
      <4>2. order[i] = order[j]
        BY <3>1, <4>1
      <4> QED
        BY <1>4, <4>2
    <3> QED
      BY <1>2, <3>1
  <2> HIDE DEF named
  <2>3. \A j \in named(r[i].file) : j <= i
    BY <1>3, <2>2
  <2>4. latest(r[i].file) \in named(r[i].file)
    BY <2>2, <2>3
  <2> QED
    BY <2>1, <2>2, <2>4
<1> HIDE DEF latest, named, names, fs
<1>7. ASSUME NEW i \in Tools(h)
      PROVE  Held(h[i], fs)
  <2>1. Held(h[i], files)
    BY DEF AllHeld
  <2>2. CASE h[i].body \in Full
    BY <2>2 DEF Held
  <2>3. CASE h[i].body \notin Full
    <3>1. /\ h[i].body = "pointer"
          /\ h[i].file \in {<<"result", h[i].call>>, <<"compact", h[i].call>>}
          /\ h[i].file \in DOMAIN files
          /\ files[h[i].file] = [call |-> h[i].call, whole |-> TRUE]
      BY <2>1, <2>3 DEF Held
    <3>2. h[i].call \notin Values(order)
      BY DEF Once
    <3>3. h[i].file \notin names
      BY <1>5, <3>1, <3>2
    <3>4. h[i].file \in DOMAIN fs /\ fs[h[i].file] = files[h[i].file]
      BY <1>1, <3>1, <3>3
    <3> QED
      BY <3>1, <3>4 DEF Held
  <2> QED
    BY <2>2, <2>3
<1>8. ASSUME NEW i \in 1 .. Len(order)
      PROVE  Held(r[i], fs)
  <2>1. CASE r[i].body \in Full
    BY <2>1 DEF Held
  <2>2. CASE r[i].body = "pointer" /\ r[i].file = <<"result", order[i]>>
    <3>1. r[i].file # NoFile
      BY <1>3, <2>2, NamesTyped
    <3>2. r[i].file \in names /\ latest(r[i].file) = i
      BY <1>6, <3>1
    <3>3. r[i].file \in DOMAIN fs /\ fs[r[i].file] = [call |-> r[i].call, whole |-> TRUE]
      BY <1>1, <3>2
    <3> QED
      BY <1>2, <2>2, <3>3 DEF Held
  <2> QED
    BY <2>1, <2>2
<1> QED
  BY <1>2, <1>7, <1>8 DEF AllHeld, fs

-----------------------------------------------------------------------------
(* The transcript.                                                         *)

\* Outside of a conversation the history is a sequence of messages only.
TranscriptTyped ==
  /\ made \in Nat /\ before \in Nat /\ before <= made /\ count \in Nat
  /\ history \in Seq(Message)

\* In one, what waits, is called or was dropped was made in it, and the rest has its
\* results.
TranscriptKept ==
  /\ pending \subseteq before + 1 .. made
  /\ dropped \subseteq (before + 1 .. made) \ pending
  /\ phase # "parked" => pending = {}
  /\ phase = "calling" => /\ history # <<>>
                          /\ Last(history).asks \subseteq (before + 1 .. made) \ dropped
  /\ Once(history, Concluded)
  /\ HasWorkspace /\ IdsGiven /\ ~ torn => AllHeld(history, files)

TranscriptInv == TranscriptTyped /\ (Conversing => TranscriptKept)

\* A message that is no result is appended to the results.
LEMMA OnceAppend ==
  ASSUME NEW h \in Seq(Message), NEW C, NEW m \in Message, m.role # "tool", NEW fs
  PROVE  /\ Append(h, m) \in Seq(Message) /\ Append(h, m) # <<>> /\ Last(Append(h, m)) = m
         /\ Once(h, C) => Once(Append(h, m), C)
         /\ AllHeld(h, fs) => AllHeld(Append(h, m), fs)
<1>1. Append(h, m) = h \o <<m>>
  BY AppendIsConcat
<1>2. <<m>> \in Seq(Message) /\ Once(<<m>>, {}) /\ AllHeld(<<m>>, fs)
  BY SaidOnce
<1>3. /\ Append(h, m) \in Seq(Message) /\ Len(Append(h, m)) = Len(h) + 1
      /\ Append(h, m)[Len(h) + 1] = m /\ Len(h) \in Nat
  BY AppendProperties, LenProperties
<1>4. Append(h, m) # <<>> /\ Last(Append(h, m)) = m
  <2>1. Len(<<>>) = 0
    BY EmptySeq
  <2> QED
    BY <1>3, <2>1 DEF Last
<1>5. ASSUME Once(h, C)
      PROVE  Once(Append(h, m), C)
  <2>1. Once(h \o <<m>>, C \cup {})
    BY <1>2, <1>5, OnceConcat
  <2>2. C \cup {} = C
    OBVIOUS
  <2> QED
    BY <1>1, <2>1, <2>2
<1>6. ASSUME AllHeld(h, fs)
      PROVE  AllHeld(Append(h, m), fs)
  BY <1>1, <1>2, <1>6, HeldConcat
<1> QED
  BY <1>3, <1>4, <1>5, <1>6

\* Keeping the budget keeps the results.
LEMMA ManageKeeps ==
  ASSUME TranscriptInv, ManageContext
  PROVE  TranscriptInv'
<1>1. PICK summarized \in BOOLEAN, disk \in BOOLEAN :
        /\ summarized => Summarizes(history)
        /\ LET rebuilt == IF summarized THEN Rebuilt(history) ELSE history
               state == Compacted(rebuilt, disk)
           IN  /\ history' = state.history
               /\ files' = state.files
               /\ torn' = (torn \/ ~ disk)
  BY DEF ManageContext
<1>2. /\ phase = "managing" /\ phase' = "asking"
      /\ UNCHANGED <<count, made, pending, before, dropped>>
  BY DEF ManageContext
<1>3. TranscriptTyped /\ TranscriptKept
  BY <1>2 DEF TranscriptInv, Conversing
<1>4. Concluded' = Concluded
  BY <1>2 DEF Concluded, Current
<1>5. PICK r : r = IF summarized THEN Rebuilt(history) ELSE history
  OBVIOUS
<1>6. history \in Seq(Message) /\ Once(history, Concluded)
  BY <1>3 DEF TranscriptTyped, TranscriptKept
<1>7. /\ r \in Seq(Message) /\ Once(r, Concluded)
      /\ AllHeld(history, files) => AllHeld(r, files)
  <2>1. CASE summarized
    <3>1. PICK e : Embeds(Rebuilt(history), history, e)
      BY <1>1, <1>6, <2>1, RebuiltEmbeds
    <3>2. Rebuilt(history) = r
      BY <1>5, <2>1
    <3>3. Embeds(r, history, e)
      BY <3>1, <3>2
    <3>4. r \in Seq(Message)
      BY <3>3 DEF Embeds
    <3> QED
      BY <1>6, <3>3, <3>4, KeepsResults
  <2>2. CASE ~ summarized
    BY <1>5, <1>6, <2>2
  <2> QED
    BY <2>1, <2>2
<1>8. history' = Compacted(r, disk).history /\ files' = Compacted(r, disk).files
  BY <1>1, <1>5
<1>9. Alike(Compacted(r, disk).history, r, (1 .. Len(r)) \ Compactable(r))
  BY <1>7, CompactedAlike
<1>10. Once(history', Concluded) /\ history' \in Seq(Message)
  <2>1. PICK g : g = Compacted(r, disk).history
    OBVIOUS
  <2>2. PICK P : P = (1 .. Len(r)) \ Compactable(r)
    OBVIOUS
  <2>3. Alike(g, r, P)
    BY <1>9, <2>1, <2>2
  <2>4. Once(g, Concluded)
    BY <1>7, <2>3, AlikeOnce
  <2>5. g \in Seq(Message)
    BY <2>3 DEF Alike
  <2> QED
    BY <1>8, <2>1, <2>4, <2>5
<1>11. ASSUME HasWorkspace, IdsGiven, ~ torn'
       PROVE  AllHeld(history', files')
  <2>1. ~ torn /\ disk = TRUE
    BY <1>1, <1>11
  <2>2. AllHeld(r, files)
    BY <1>3, <1>7, <1>11, <2>1 DEF TranscriptKept
  <2>3. AllHeld(Compacted(r, TRUE).history, Compacted(r, TRUE).files)
    BY <1>7, <1>11, <2>2, CompactedHeld
  <2> QED
    BY <1>8, <2>1, <2>3
<1>12. TranscriptTyped'
  BY <1>2, <1>3, <1>10 DEF TranscriptTyped
<1>13. TranscriptKept'
  <2>1. Once(history', Concluded')
    BY <1>4, <1>10
  <2>2. pending' = {} /\ dropped' \subseteq (before' + 1 .. made') \ pending'
    BY <1>2, <1>3 DEF TranscriptKept
  <2> QED
    BY <1>2, <1>11, <2>1, <2>2 DEF TranscriptKept
<1> QED
  BY <1>12, <1>13 DEF TranscriptInv

\* An answer asks for new calls, which are not executed.
LEMMA AnswerKeeps ==
  ASSUME TranscriptInv, Answer
  PROVE  TranscriptInv'
<1>1. PICK n \in 0 .. 2, words \in {"none", "text"} :
        /\ history' = Append(history, Said("assistant", words, made + 1 .. made + n))
        /\ made' = made + n
        /\ phase' = IF n = 0 THEN "over" ELSE "calling"
  BY DEF Answer
<1>2. phase = "asking" /\ UNCHANGED <<files, count, pending, before, dropped, torn>>
  BY DEF Answer
<1>3. TranscriptTyped /\ TranscriptKept
  BY <1>2 DEF TranscriptInv, Conversing
<1>4. /\ made \in Nat /\ before \in Nat /\ before <= made /\ count \in Nat
      /\ history \in Seq(Message) /\ pending = {} /\ Once(history, Concluded)
      /\ dropped \subseteq before + 1 .. made
  BY <1>2, <1>3 DEF TranscriptTyped, TranscriptKept
<1>5. PICK asks : asks = made + 1 .. made + n
  OBVIOUS
<1>6. asks \in SUBSET Nat
  BY <1>4, <1>5
<1>7. PICK m : m = Said("assistant", words, asks)
  OBVIOUS
<1>8. m \in Message /\ m.role # "tool" /\ m.asks = asks
  BY <1>6, <1>7, SaidTyped
<1>9. history' = Append(history, m)
  BY <1>1, <1>5, <1>7
<1>10. /\ history' \in Seq(Message) /\ history' # <<>> /\ Last(history') = m
       /\ Once(history', Concluded)
       /\ AllHeld(history, files) => AllHeld(history', files)
  BY <1>4, <1>8, <1>9, OnceAppend
<1>11. TranscriptTyped'
  BY <1>1, <1>2, <1>4, <1>10 DEF TranscriptTyped
<1>12. CASE n = 0
  BY <1>1, <1>11, <1>12 DEF TranscriptInv, Conversing
<1>13. CASE n # 0
  <2>1. phase' = "calling" /\ Last(history)' = Last(history')
    BY <1>1, <1>13 DEF Last
  <2>2. Concluded' = Concluded
    <3>1. Concluded = (before + 1 .. made) \ dropped
      BY <1>2, <1>4 DEF Concluded, Current
    <3>2. Current' = asks
      BY <1>8, <1>10, <2>1 DEF Current
    <3>3. Concluded' = (before + 1 .. made + n) \ (dropped \cup asks)
      BY <1>1, <1>2, <1>4, <3>2 DEF Concluded
    <3> QED
      BY <1>4, <1>5, <3>1, <3>3
  <2>3. /\ asks \subseteq (before' + 1 .. made') \ dropped'
        /\ dropped' \subseteq before' + 1 .. made'
    BY <1>1, <1>2, <1>4, <1>5
  <2>4. HasWorkspace /\ IdsGiven /\ ~ torn' => AllHeld(history', files')
    BY <1>2, <1>3, <1>10 DEF TranscriptKept
  <2>5. TranscriptKept'
    BY <1>2, <1>4, <1>8, <1>10, <2>1, <2>2, <2>3, <2>4 DEF TranscriptKept
  <2> QED
    BY <1>11, <2>5 DEF TranscriptInv
<1> QED
  BY <1>12, <1>13

\* What RunBatch does with a batch.
Executes(batch, calls, kinds, waits, disk, image) ==
  LET results == Results(InOrder(batch \ waits), kinds, calls, disk)
  IN  /\ history' = history \o results
                     \o (IF image /\ waits = {} THEN <<Said("user", "parts", {})>> ELSE <<>>)
      /\ files' = Filed(results)
      /\ torn' = (torn \/ ~ disk)
      /\ pending' = waits
      /\ count' = calls
      /\ phase' = IF waits = {} THEN "managing" ELSE "parked"

\* A batch adds the results of its calls; those that wait stay out.
LEMMA BatchKeeps ==
  ASSUME TranscriptInv, RunBatch
  PROVE  TranscriptInv'
<1>1. PICK batch : batch = Last(history).asks
  OBVIOUS
<1>2. PICK calls : calls = count + Cardinality(batch)
  OBVIOUS
<1>3. PICK kinds \in [batch -> {"small", "medium", "large", "reread"}],
           waits \in SUBSET batch, disk \in BOOLEAN, image \in BOOLEAN :
             Executes(batch, calls, kinds, waits, disk, image)
  <2>1. \E kinds \in [Last(history).asks -> {"small", "medium", "large", "reread"}],
           waits \in SUBSET Last(history).asks, disk \in BOOLEAN, image \in BOOLEAN :
             Executes(Last(history).asks, count + Cardinality(Last(history).asks), kinds, waits,
                      disk, image)
    BY Zenon DEF RunBatch, Executes
  <2> QED
    BY <1>1, <1>2, <2>1, Zenon
<1>4. phase = "calling" /\ UNCHANGED <<made, before, dropped>>
  BY DEF RunBatch
<1>5. TranscriptTyped /\ TranscriptKept
  BY <1>4 DEF TranscriptInv, Conversing
<1>6. /\ made \in Nat /\ before \in Nat /\ before <= made /\ count \in Nat
      /\ history \in Seq(Message) /\ pending = {} /\ Once(history, Concluded)
      /\ dropped \subseteq before + 1 .. made /\ batch \subseteq (before + 1 .. made) \ dropped
  BY <1>1, <1>4, <1>5 DEF TranscriptTyped, TranscriptKept
<1>7. calls \in Nat
  <2>1. IsFiniteSet(before + 1 .. made)
    BY <1>6, FS_Interval
  <2>2. IsFiniteSet(batch)
    BY <1>6, <2>1, FS_Subset
  <2> QED
    BY <1>2, <1>6, <2>2, FS_CardinalityType
<1>8. PICK order : order = InOrder(batch \ waits)
  OBVIOUS
<1>9. order \in Seq(Nat) /\ Increasing(order) /\ Values(order) = batch \ waits
  <2>1. batch \ waits \subseteq 1 .. made
    BY <1>6
  <2> QED
    BY <1>6, <1>8, <2>1, Ordered
<1>10. PICK r : r = Results(order, kinds, calls, disk)
  OBVIOUS
<1>11. /\ Answers(r, order)
       /\ HasWorkspace /\ IdsGiven /\ disk =>
            \A i \in 1 .. Len(order) :
              \/ r[i].body \in Full /\ r[i].file = NoFile
              \/ r[i].body = "pointer" /\ r[i].file = <<"result", order[i]>>
  <2>1. \A c \in Values(order) : kinds[c] \in {"small", "medium", "large", "reread"}
    BY <1>9
  <2> QED
    BY <1>7, <1>9, <1>10, <2>1, ResultsAre
<1>12. r \in Seq(Message) /\ Once(r, batch \ waits)
  BY <1>9, <1>11, AnswersOnce
<1>13. PICK x : x = IF image /\ waits = {} THEN <<Said("user", "parts", {})>> ELSE <<>>
  OBVIOUS
<1>14. \A fs : x \in Seq(Message) /\ Once(x, {}) /\ AllHeld(x, fs)
  <2> SUFFICES ASSUME NEW fs
               PROVE  x \in Seq(Message) /\ Once(x, {}) /\ AllHeld(x, fs)
    OBVIOUS
  <2>1. CASE image /\ waits = {}
    <3>1. Said("user", "parts", {}) \in Message /\ Said("user", "parts", {}).role # "tool"
      BY SaidTyped
    <3>2. x = <<Said("user", "parts", {})>>
      BY <1>13, <2>1
    <3> QED
      BY <3>1, <3>2, SaidOnce
  <2>2. CASE ~ (image /\ waits = {})
    <3>1. x = <<>>
      BY <1>13, <2>2
    <3> QED
      BY <3>1, EmptyOnce
  <2> QED
    BY <2>1, <2>2
<1>15. /\ history' = (history \o r) \o x /\ files' = Filed(r)
       /\ torn' = (torn \/ ~ disk) /\ pending' = waits /\ count' = calls
       /\ phase' = IF waits = {} THEN "managing" ELSE "parked"
  BY <1>3, <1>8, <1>10, <1>13 DEF Executes
<1>16. /\ Concluded = (before + 1 .. made) \ (dropped \cup batch)
       /\ Concluded' = (before + 1 .. made) \ (dropped \cup waits)
  <2>1. Concluded = (before + 1 .. made) \ (dropped \cup batch)
    BY <1>1, <1>4, <1>6 DEF Concluded, Current
  <2>2. phase' # "calling"
    BY <1>15
  <2> QED
    BY <1>4, <1>15, <2>1, <2>2 DEF Concluded, Current
<1>17. PICK C : C = Concluded
  OBVIOUS
<1>18. C \cap (batch \ waits) = {} /\ (C \cup (batch \ waits)) \cup {} = Concluded'
  BY <1>6, <1>16, <1>17
<1>19. history \o r \in Seq(Message) /\ Once(history \o r, C \cup (batch \ waits))
  BY <1>6, <1>12, <1>17, <1>18, OnceConcat
<1>20. history' \in Seq(Message) /\ Once(history', Concluded')
  <2>1. PICK u, W : u = history \o r /\ W = C \cup (batch \ waits)
    OBVIOUS
  <2>2. u \in Seq(Message) /\ Once(u, W)
    BY <1>19, <2>1
  <2>3. W \cap {} = {}
    OBVIOUS
  <2>4. u \o x \in Seq(Message) /\ Once(u \o x, W \cup {})
    BY <1>14, <2>2, <2>3, OnceConcat
  <2> QED
    BY <1>15, <1>18, <2>1, <2>4
<1>21. ASSUME HasWorkspace, IdsGiven, ~ torn'
       PROVE  AllHeld(history', files')
  <2>1. ~ torn /\ disk = TRUE
    BY <1>15, <1>21
  <2>2. AllHeld(history, files)
    BY <1>5, <1>21, <2>1 DEF TranscriptKept
  <2>3. \A i \in 1 .. Len(order) :
          \/ r[i].body \in Full /\ r[i].file = NoFile
          \/ r[i].body = "pointer" /\ r[i].file = <<"result", order[i]>>
    BY <1>11, <1>21, <2>1
  <2>4. Once(history, C) /\ C \cap Values(order) = {}
    BY <1>6, <1>9, <1>17, <1>18
  <2>5. AllHeld(history, Filed(r)) /\ AllHeld(r, Filed(r))
    BY <1>6, <1>9, <1>11, <2>2, <2>3, <2>4, FiledHeld
  <2>6. AllHeld(history \o r, Filed(r))
    BY <1>6, <1>12, <2>5, HeldConcat
  <2>7. AllHeld((history \o r) \o x, Filed(r))
    BY <1>14, <1>19, <2>6, HeldConcat
  <2> QED
    BY <1>15, <2>7
<1>22. TranscriptTyped'
  BY <1>4, <1>6, <1>7, <1>15, <1>20 DEF TranscriptTyped
<1>23. TranscriptKept'
  <2>1. /\ pending' \subseteq before' + 1 .. made'
        /\ dropped' \subseteq (before' + 1 .. made') \ pending'
    BY <1>4, <1>6, <1>15
  <2>2. phase' # "parked" => pending' = {}
    BY <1>15
  <2>3. phase' # "calling"
    BY <1>15
  <2> QED
    BY <1>20, <1>21, <2>1, <2>2, <2>3 DEF TranscriptKept
<1> QED
  BY <1>22, <1>23 DEF TranscriptInv

\* A hook's question adds nothing to the transcript; what it drops of its batch stays
\* without results.
LEMMA AskKeeps ==
  ASSUME TranscriptInv, AskInBatch
  PROVE  TranscriptInv'
<1>1. phase = "calling" /\ phase' = "parked" /\ UNCHANGED <<history, files, made, before, torn>>
  BY DEF AskInBatch
<1>2. PICK batch : batch = Last(history).asks
  OBVIOUS
<1>3. PICK c \in batch :
        /\ pending' = {c} /\ dropped' = dropped \cup (batch \ {c})
        /\ count' = count + Cardinality({d \in batch : d <= c})
  BY <1>2 DEF AskInBatch
<1>4. TranscriptTyped /\ TranscriptKept
  BY <1>1 DEF TranscriptInv, Conversing
<1>5. /\ made \in Nat /\ before \in Nat /\ before <= made /\ count \in Nat
      /\ history \in Seq(Message) /\ pending = {} /\ Once(history, Concluded)
      /\ dropped \subseteq before + 1 .. made /\ batch \subseteq (before + 1 .. made) \ dropped
  BY <1>1, <1>2, <1>4 DEF TranscriptTyped, TranscriptKept
<1>6. count' \in Nat
  <2>1. IsFiniteSet(before + 1 .. made)
    BY <1>5, FS_Interval
  <2>2. IsFiniteSet({d \in batch : d <= c})
    BY <1>5, <2>1, FS_Subset
  <2> QED
    BY <1>3, <1>5, <2>2, FS_CardinalityType
<1>7. Concluded' = Concluded
  <2>1. Current = batch /\ Current' = {}
    BY <1>1, <1>2 DEF Current
  <2> QED
    BY <1>1, <1>3, <1>5, <2>1 DEF Concluded
<1>8. TranscriptTyped'
  BY <1>1, <1>5, <1>6 DEF TranscriptTyped
<1>9. TranscriptKept'
  <2>1. /\ pending' \subseteq before' + 1 .. made'
        /\ dropped' \subseteq (before' + 1 .. made') \ pending'
    BY <1>1, <1>3, <1>5
  <2> QED
    BY <1>1, <1>4, <1>5, <1>7, <2>1 DEF TranscriptKept
<1> QED
  BY <1>8, <1>9 DEF TranscriptInv

\* The answers of the user are the results of what waited.
LEMMA ResumeKeeps ==
  ASSUME TranscriptInv, Resume
  PROVE  TranscriptInv'
<1>1. phase = "parked" /\ UNCHANGED <<files, made, before, dropped, torn>>
  BY DEF Resume
<1>2. TranscriptTyped /\ TranscriptKept
  BY <1>1 DEF TranscriptInv, Conversing
<1>3. /\ made \in Nat /\ before \in Nat /\ before <= made /\ count \in Nat
      /\ history \in Seq(Message) /\ Once(history, Concluded)
      /\ pending \subseteq before + 1 .. made
      /\ dropped \subseteq (before + 1 .. made) \ pending
  BY <1>2 DEF TranscriptTyped, TranscriptKept
<1>4. CASE WellFormed(prompt)
  <2>1. PICK body \in {"small", "large"} :
          /\ history' = history \o Replies(body)
          /\ count' = 0 /\ pending' = {} /\ phase' = "managing"
    BY <1>4 DEF Resume
  <2>2. PICK order, r : order = InOrder(pending) /\ r = Replies(body)
    OBVIOUS
  <2>3. order \in Seq(Nat) /\ Increasing(order) /\ Values(order) = pending
    <3>1. pending \subseteq 1 .. made
      BY <1>3
    <3> QED
      BY <1>3, <2>2, <3>1, Ordered
  <2>4. /\ DOMAIN order = 1 .. Len(order) /\ Len(order) \in Nat
        /\ \A i \in 1 .. Len(order) : order[i] \in Nat
    BY <2>3, LenProperties, ElementOfSeq
  <2>5. r = [i \in 1 .. Len(order) |-> Result(order[i], body, NoFile)]
    BY <2>2, <2>4 DEF Replies
  <2>6. ASSUME NEW i \in 1 .. Len(order)
        PROVE  /\ r[i] \in Message /\ r[i].role = "tool" /\ r[i].call = order[i]
               /\ r[i].body = body
    <3>1. order[i] \in Nat /\ body \in Bodies /\ NoFile \in FileNames
      BY <2>4 DEF Bodies, FileNames
    <3>2. r[i] = Result(order[i], body, NoFile)
      BY <2>5
    <3> QED
      BY <3>1, <3>2, ResultTyped
  <2>7. r \in Seq(Message) /\ Len(r) = Len(order)
    <3>1. r = [i \in 1 .. Len(order) |-> r[i]]
      BY <2>5
    <3>2. r \in Seq(Message)
      BY <2>4, <2>6, <3>1, IsASeq
    <3>3. DOMAIN r = 1 .. Len(order)
      BY <2>5
    <3> QED
      BY <2>4, <3>2, <3>3, LenProperties
  <2>8. Answers(r, order)
    BY <2>6, <2>7 DEF Answers
  <2>9. Tools(r) = 1 .. Len(order) /\ Once(r, pending)
    BY <2>3, <2>8, AnswersOnce
  <2>10. AllHeld(r, files)
    BY <2>6, <2>9 DEF AllHeld, Held, Full
  <2>11. /\ Concluded = (before + 1 .. made) \ (pending \cup dropped)
         /\ Concluded' = (before + 1 .. made) \ dropped
    BY <1>1, <2>1 DEF Concluded, Current
  <2>12. PICK C : C = Concluded
    OBVIOUS
  <2>13. C \cap pending = {} /\ C \cup pending = Concluded'
    BY <1>3, <2>11, <2>12
  <2>14. history \o r \in Seq(Message) /\ Once(history \o r, C \cup pending)
    BY <1>3, <2>7, <2>9, <2>12, <2>13, OnceConcat
  <2>15. history' \in Seq(Message) /\ Once(history', Concluded')
    BY <2>1, <2>2, <2>13, <2>14
  <2>16. ASSUME HasWorkspace, IdsGiven, ~ torn'
         PROVE  AllHeld(history', files')
    <3>1. AllHeld(history, files)
      BY <1>1, <1>2, <2>16 DEF TranscriptKept
    <3>2. AllHeld(history \o r, files)
      BY <1>3, <2>7, <2>10, <3>1, HeldConcat
    <3> QED
      BY <1>1, <2>1, <2>2, <3>2
  <2>17. TranscriptTyped'
    BY <1>1, <1>3, <2>1, <2>15 DEF TranscriptTyped
  <2>18. TranscriptKept'
    BY <1>1, <1>3, <2>1, <2>15, <2>16 DEF TranscriptKept
  <2> QED
    BY <2>17, <2>18 DEF TranscriptInv
<1>5. CASE ~ WellFormed(prompt)
  <2>1. phase' = "failed" /\ UNCHANGED <<history, count>>
    BY <1>5 DEF Resume
  <2>2. TranscriptTyped'
    BY <1>1, <1>3, <2>1 DEF TranscriptTyped
  <2> QED
    BY <2>1, <2>2 DEF TranscriptInv, Conversing
<1> QED
  BY <1>4, <1>5

\* A fresh run starts with nothing executed.
LEMMA FreshKeeps ==
  ASSUME TranscriptInv, FreshRun
  PROVE  TranscriptInv'
<1>1. /\ history' = <<Said("user", "text", {})>> /\ count' = 0 /\ pending' = {}
      /\ before' = made /\ phase' = "managing" /\ made' = made /\ dropped' = {}
  BY DEF FreshRun
<1>2. made \in Nat
  BY DEF TranscriptInv, TranscriptTyped
<1>3. Said("user", "text", {}) \in Message /\ Said("user", "text", {}).role # "tool"
  BY SaidTyped
<1>4. history' \in Seq(Message) /\ Once(history', {}) /\ \A fs : AllHeld(history', fs)
  BY <1>1, <1>3, SaidOnce
<1>5. Concluded' = {}
  BY <1>1, <1>2 DEF Concluded, Current
<1>6. TranscriptTyped'
  BY <1>1, <1>2, <1>4 DEF TranscriptTyped
<1>7. TranscriptKept'
  BY <1>1, <1>4, <1>5 DEF TranscriptKept
<1> QED
  BY <1>6, <1>7 DEF TranscriptInv

\* The other steps leave the transcript alone.
LEMMA TranscriptStep ==
  ASSUME TranscriptInv, [Next]_vars
  PROVE  TranscriptInv'
<1>1. CASE LeaveContext
  <2>1. /\ phase = "managing" /\ phase' = "asking"
        /\ UNCHANGED <<history, files, count, made, pending, before, dropped, torn>>
    BY <1>1 DEF LeaveContext
  <2>2. Concluded' = Concluded
    BY <2>1 DEF Concluded, Current
  <2>3. TranscriptTyped /\ TranscriptKept
    BY <2>1 DEF TranscriptInv, Conversing
  <2>4. TranscriptTyped'
    BY <2>1, <2>3 DEF TranscriptTyped
  <2>5. TranscriptKept'
    BY <2>1, <2>2, <2>3 DEF TranscriptKept
  <2> QED
    BY <2>4, <2>5 DEF TranscriptInv
<1>2. CASE ManageContext
  BY <1>2, ManageKeeps
<1>3. CASE ManageFails
  <2>1. phase' = "failed" /\ UNCHANGED <<history, count, made, before>>
    BY <1>3 DEF ManageFails
  <2> QED
    BY <2>1 DEF TranscriptInv, TranscriptTyped, Conversing
<1>4. CASE Answer
  BY <1>4, AnswerKeeps
<1>5. CASE RunBatch
  BY <1>5, BatchKeeps
<1>6. CASE Resume
  BY <1>6, ResumeKeeps
<1>7. CASE FreshRun
  BY <1>7, FreshKeeps
<1>8. CASE AskInBatch
  BY <1>8, AskKeeps
<1>9. CASE UNCHANGED vars
  <2>1. UNCHANGED <<history, files, count, made, phase, pending, before, dropped, torn>>
    BY <1>9 DEF vars
  <2>2. Concluded' = Concluded
    BY <2>1 DEF Concluded, Current
  <2>3. TranscriptTyped'
    BY <2>1 DEF TranscriptInv, TranscriptTyped
  <2>4. Conversing' => TranscriptKept'
    BY <2>1, <2>2 DEF TranscriptInv, TranscriptKept, Conversing
  <2> QED
    BY <2>3, <2>4 DEF TranscriptInv
<1> QED
  BY <1>1, <1>2, <1>3, <1>4, <1>5, <1>6, <1>7, <1>8, <1>9 DEF Next

\* The first history is empty.
LEMMA TranscriptInit == Init => TranscriptInv
<1> SUFFICES ASSUME Init
             PROVE  TranscriptInv
  OBVIOUS
<1>1. history = <<>> /\ phase = "over" /\ made = 0 /\ before = 0 /\ count = 0
  BY DEF Init
<1>2. history \in Seq(Message)
  BY <1>1, EmptyOnce
<1> QED
  BY <1>1, <1>2 DEF TranscriptInv, TranscriptTyped, Conversing

\* Whatever the settings, every call that is through has one result in the history,
\* and every other call has none.
ResultOfEach ==
  Conversing =>
    \A c \in before + 1 .. made :
      Cardinality({i \in Tools(history) : history[i].call = c}) = IF c \in Concluded THEN 1 ELSE 0

\* Once is one of each, and none of the others.
LEMMA OnceOne ==
  ASSUME NEW h, NEW C, Once(h, C), NEW c
  PROVE  Cardinality({i \in Tools(h) : h[i].call = c}) = IF c \in C THEN 1 ELSE 0
<1>1. CASE c \in C
  <2>1. PICK k \in Tools(h) : h[k].call = c
    BY <1>1 DEF Once
  <2>2. {i \in Tools(h) : h[i].call = c} = {k}
    BY <2>1 DEF Once
  <2> QED
    BY <1>1, <2>2, FS_Singleton
<1>2. CASE c \notin C
  <2>1. {i \in Tools(h) : h[i].call = c} = {}
    BY <1>2 DEF Once
  <2> QED
    BY <1>2, <2>1, FS_EmptySet
<1> QED
  BY <1>1, <1>2

\* The two properties are parts of the invariant.
LEMMA TranscriptEach == TranscriptInv => ResultOfEach
<1> SUFFICES ASSUME TranscriptInv, Conversing, NEW c \in before + 1 .. made
             PROVE  Cardinality({i \in Tools(history) : history[i].call = c})
                      = IF c \in Concluded THEN 1 ELSE 0
  BY DEF ResultOfEach
<1>1. Once(history, Concluded)
  BY DEF TranscriptInv, TranscriptKept
<1> QED
  BY <1>1, OnceOne

\* What is held can be read.
LEMMA TranscriptReadable ==
  ASSUME IdsGiven
  PROVE  TranscriptInv => ResultsReadable
<1> SUFFICES ASSUME TranscriptInv, Conversing
             PROVE  /\ \A c \in before + 1 .. made :
                         Cardinality({i \in Tools(history) : history[i].call = c})
                           = IF c \in Concluded THEN 1 ELSE 0
                    /\ HasWorkspace /\ ~ torn => \A i \in Tools(history) : Readable(history[i])
  BY DEF ResultsReadable
<1>1. ResultOfEach
  BY TranscriptEach
<1>2. HasWorkspace /\ ~ torn => AllHeld(history, files)
  BY DEF TranscriptInv, TranscriptKept
<1>3. ASSUME HasWorkspace, ~ torn, NEW i \in Tools(history)
      PROVE  Readable(history[i])
  BY <1>2, <1>3 DEF AllHeld, Held, Readable
<1> QED
  BY <1>1, <1>3 DEF ResultOfEach

\* The transcript is kept.
LEMMA TranscriptHolds == Spec => []TranscriptInv
<1>1. TranscriptInv /\ [Next]_vars => TranscriptInv'
  BY TranscriptStep
<1> QED
  BY <1>1, TranscriptInit, PTL DEF Spec

\* Every call of a conversation that is through has one result in the history, and no
\* other call has one, however often it is summarized, compacted, parked and resumed, for every setting of the limits,
\* with a workspace or without, with call ids or without.
THEOREM EachHasResult == Spec => []ResultOfEach
BY TranscriptHolds, TranscriptEach, PTL

\* And when the provider names its calls, it can be read in full: without call ids two
\* results share a file, which the run without them shows.
THEOREM CanRead ==
  ASSUME IdsGiven PROVE Spec => []ResultsReadable
BY TranscriptHolds, TranscriptReadable, PTL

-----------------------------------------------------------------------------
(* What keeping the budget leaves alone.                                   *)

\* The positions of the tool messages.
Positions(p, h) == p \in Seq(Nat) /\ Increasing(p) /\ Values(p) = Tools(h)

\* There are such.
LEMMA PositionsOf ==
  ASSUME NEW h \in Seq(Message)
  PROVE  \E p : Positions(p, h)
<1>1. Len(h) \in Nat
  BY LenProperties
<1>2. PICK p \in Seq(Nat) : Increasing(p) /\ Values(p) = Tools(h) \cap 1 .. Len(h)
  BY <1>1, PositionsExist
<1>3. Tools(h) \cap 1 .. Len(h) = Tools(h)
  BY ToolsIn
<1> QED
  BY <1>2, <1>3 DEF Positions

\* The results of a history are what it has there.
LEMMA ToolsAt ==
  ASSUME NEW h \in Seq(Message), NEW p, Positions(p, h)
  PROVE  /\ Piece(h, Tools(h)) \in Seq(Message) /\ Len(Piece(h, Tools(h))) = Len(p)
         /\ \A k \in 1 .. Len(p) : Piece(h, Tools(h))[k] = h[p[k]]
<1>1. p \in Seq(Nat) /\ Increasing(p) /\ Values(p) = Tools(h)
  BY DEF Positions
<1>2. Tools(h) \cap 1 .. Len(h) = Tools(h)
  BY ToolsIn
<1>3. Values(p) = Tools(h) \cap 1 .. Len(h)
  BY <1>1, <1>2
<1> QED
  BY <1>1, <1>3, PieceAt

\* A summary leaves the results as they are.
LEMMA SummaryKeepsTools ==
  ASSUME NEW h \in Seq(Message), NEW r, NEW e, Embeds(r, h, e)
  PROVE  Piece(r, Tools(r)) = Piece(h, Tools(h))
<1>1. /\ r \in Seq(Message) /\ e \in Seq(Nat) /\ Len(e) = Len(r) /\ Increasing(e)
      /\ Values(e) \subseteq 1 .. Len(h) /\ Tools(h) \subseteq Values(e)
      /\ \A k \in 1 .. Len(r) : r[k] = h[e[k]]
  BY DEF Embeds
<1>2. /\ Len(r) \in Nat /\ Len(h) \in Nat /\ DOMAIN e = 1 .. Len(r)
      /\ \A k \in 1 .. Len(r) : e[k] \in Nat
  BY <1>1, LenProperties, ElementOfSeq
<1>3. /\ Tools(r) = {i \in 1 .. Len(r) : r[i].role = "tool"}
      /\ Tools(h) = {i \in 1 .. Len(h) : h[i].role = "tool"}
  BY <1>1, ToolsIn
<1>4. PICK p : Positions(p, r)
  BY <1>1, PositionsOf
<1>5. p \in Seq(Nat) /\ Increasing(p) /\ Values(p) = Tools(r)
  BY <1>4 DEF Positions
<1>6. /\ DOMAIN p = 1 .. Len(p) /\ Len(p) \in Nat
      /\ \A k \in 1 .. Len(p) : p[k] \in Tools(r) /\ p[k] \in 1 .. Len(r)
  BY <1>3, <1>5, LenProperties DEF Values
<1> DEFINE q == [k \in 1 .. Len(p) |-> e[p[k]]]
<1>7. q \in Seq(Nat) /\ Len(q) = Len(p) /\ DOMAIN q = 1 .. Len(p)
  <2>1. \A k \in 1 .. Len(p) : e[p[k]] \in Nat
    BY <1>2, <1>6
  <2>2. q \in Seq(Nat)
    BY <1>6, <2>1, IsASeq
  <2>3. DOMAIN q = 1 .. Len(p)
    OBVIOUS
  <2> QED
    BY <1>6, <2>2, <2>3, LenProperties
<1>8. \A k \in 1 .. Len(p) : q[k] = e[p[k]]
  OBVIOUS
<1> HIDE DEF q
<1>9. Increasing(q)
  <2> SUFFICES ASSUME NEW j \in 1 .. Len(p), NEW k \in 1 .. Len(p), j < k
               PROVE  q[j] < q[k]
    BY <1>7 DEF Increasing
  <2>1. p[j] < p[k]
    BY <1>5, <1>6 DEF Increasing
  <2>2. p[j] \in DOMAIN e /\ p[k] \in DOMAIN e
    BY <1>2, <1>6
  <2>3. e[p[j]] < e[p[k]]
    BY <1>1, <2>1, <2>2 DEF Increasing
  <2> QED
    BY <1>8, <2>3
<1>10. Values(q) = Tools(h)
  <2>1. ASSUME NEW k \in 1 .. Len(p)
        PROVE  q[k] \in Tools(h)
    <3>1. p[k] \in Tools(r) /\ p[k] \in DOMAIN e
      BY <1>2, <1>6
    <3>2. e[p[k]] \in 1 .. Len(h) /\ h[e[p[k]]] = r[p[k]]
      BY <1>1, <1>2, <3>1 DEF Values
    <3> QED
      BY <1>3, <1>8, <3>1, <3>2
  <2>2. ASSUME NEW i \in Tools(h)
        PROVE  \E k \in 1 .. Len(p) : q[k] = i
    <3>1. PICK j \in DOMAIN e : e[j] = i
      BY <1>1 DEF Values
    <3>2. j \in Tools(r)
      BY <1>1, <1>2, <1>3, <3>1
    <3>3. PICK k \in 1 .. Len(p) : p[k] = j
      BY <1>5, <1>6, <3>2 DEF Values
    <3> QED
      BY <1>8, <3>1, <3>3
  <2> QED
    BY <1>7, <2>1, <2>2 DEF Values
<1>11. Positions(q, h)
  BY <1>7, <1>9, <1>10 DEF Positions
<1> DEFINE s == Piece(r, Tools(r))
           t == Piece(h, Tools(h))
<1>12. s \in Seq(Message) /\ Len(s) = Len(p) /\ \A k \in 1 .. Len(p) : s[k] = r[p[k]]
  BY <1>1, <1>4, ToolsAt
<1>13. t \in Seq(Message) /\ Len(t) = Len(p) /\ \A k \in 1 .. Len(p) : t[k] = h[q[k]]
  BY <1>7, <1>11, ToolsAt
<1> HIDE DEF s, t
<1>14. ASSUME NEW k \in 1 .. Len(s)
       PROVE  s[k] = t[k]
  <2>1. k \in 1 .. Len(p) /\ p[k] \in 1 .. Len(r)
    BY <1>6, <1>12
  <2>2. s[k] = r[p[k]] /\ t[k] = h[q[k]] /\ q[k] = e[p[k]]
    BY <1>8, <1>12, <1>13, <2>1
  <2>3. r[p[k]] = h[e[p[k]]]
    BY <1>1, <2>1
  <2> QED
    BY <2>2, <2>3
<1>15. s = t
  BY <1>12, <1>13, <1>14, SeqEqual
<1> QED
  BY <1>15 DEF s, t

\* After the k-th result there are n - k.
LEMMA LaterTools ==
  ASSUME NEW h \in Seq(Message), NEW p, Positions(p, h), NEW k \in 1 .. Len(p)
  PROVE  Cardinality({j \in Tools(h) : j > p[k]}) <= Len(p) - k
<1> DEFINE later == {j \in Tools(h) : j > p[k]}
           f == [m \in k + 1 .. Len(p) |-> p[m]]
<1>1. p \in Seq(Nat) /\ Increasing(p) /\ Values(p) = Tools(h)
  BY DEF Positions
<1>2. /\ DOMAIN p = 1 .. Len(p) /\ Len(p) \in Nat /\ k \in Nat
      /\ \A m \in 1 .. Len(p) : p[m] \in Nat /\ p[m] \in Tools(h)
  BY <1>1, LenProperties, ElementOfSeq DEF Values
<1>3. ASSUME NEW m \in k + 1 .. Len(p)
      PROVE  p[m] \in later
  <2>1. m \in 1 .. Len(p) /\ k < m
    BY <1>2
  <2>2. p[k] < p[m] /\ p[k] \in Nat /\ p[m] \in Nat
    BY <1>1, <1>2, <2>1 DEF Increasing
  <2> QED
    BY <1>2, <2>1, <2>2
<1>4. ASSUME NEW j \in later
      PROVE  \E m \in k + 1 .. Len(p) : p[m] = j
  <2>1. PICK m \in 1 .. Len(p) : p[m] = j
    BY <1>1, <1>2 DEF Values
  <2>2. p[k] < p[m] /\ p[k] \in Nat /\ p[m] \in Nat
    BY <1>2, <2>1
  <2>3. m < k => p[m] < p[k]
    BY <1>1, <1>2 DEF Increasing
  <2>4. m > k
    BY <1>2, <2>2, <2>3
  <2> QED
    BY <1>2, <2>1, <2>4
<1> HIDE DEF later
<1>5. f \in Surjection(k + 1 .. Len(p), later)
  BY <1>3, <1>4 DEF Surjection
<1>6. /\ IsFiniteSet(k + 1 .. Len(p))
      /\ Cardinality(k + 1 .. Len(p)) = IF k + 1 > Len(p) THEN 0 ELSE Len(p) - (k + 1) + 1
  <2>1. k + 1 \in Int /\ Len(p) \in Int
    BY <1>2
  <2> QED
    BY <2>1, FS_Interval
<1>7. Cardinality(k + 1 .. Len(p)) = Len(p) - k
  BY <1>2, <1>6
<1> HIDE DEF f
<1>8. Cardinality(later) <= Cardinality(k + 1 .. Len(p))
  BY <1>5, <1>6, FS_Surjection
<1> QED
  BY <1>7, <1>8 DEF later

\* Compaction leaves the last KeepTools results as they are.
LEMMA CompactionKeepsLast ==
  ASSUME NEW r \in Seq(Message), NEW g, Alike(g, r, (1 .. Len(r)) \ Compactable(r))
  PROVE  LastTools(g, KeepTools) = LastTools(r, KeepTools)
<1> DEFINE P == (1 .. Len(r)) \ Compactable(r)
<1>1. /\ g \in Seq(Message) /\ Len(g) = Len(r)
      /\ \A i \in 1 .. Len(r) : g[i].role = r[i].role /\ g[i].call = r[i].call
      /\ \A i \in 1 .. Len(r) : i \in P => g[i] = r[i]
  BY DEF Alike
<1>2. /\ Tools(r) = {i \in 1 .. Len(r) : r[i].role = "tool"}
      /\ Tools(g) = {i \in 1 .. Len(g) : g[i].role = "tool"}
  BY <1>1, ToolsIn
<1>3. Tools(g) = Tools(r)
  BY <1>1, <1>2
<1>4. PICK p : Positions(p, r)
  BY PositionsOf
<1>5. Positions(p, g)
  BY <1>3, <1>4 DEF Positions
<1>6. p \in Seq(Nat) /\ Values(p) = Tools(r)
  BY <1>4 DEF Positions
<1>7. /\ DOMAIN p = 1 .. Len(p) /\ Len(p) \in Nat
      /\ \A k \in 1 .. Len(p) : p[k] \in Tools(r) /\ p[k] \in 1 .. Len(r)
  BY <1>2, <1>6, LenProperties DEF Values
<1> DEFINE s == Piece(g, Tools(g))
           t == Piece(r, Tools(r))
           n == Len(p)
           l == IF n > KeepTools THEN n - KeepTools + 1 ELSE 1
<1>8. s \in Seq(Message) /\ Len(s) = n /\ \A k \in 1 .. n : s[k] = g[p[k]]
  BY <1>1, <1>5, ToolsAt
<1>9. t \in Seq(Message) /\ Len(t) = n /\ \A k \in 1 .. n : t[k] = r[p[k]]
  BY <1>4, ToolsAt
<1>10. KeepTools \in Nat
  BY LimitsNatural
<1>11. n \in Nat /\ l \in Nat /\ l >= 1
  BY <1>7, <1>10
<1>12. ASSUME NEW k \in l .. n
       PROVE  s[k] = t[k]
  <2>1. k \in 1 .. n /\ n - k < KeepTools /\ k \in Nat
    BY <1>10, <1>11
  <2>2. Cardinality({j \in Tools(r) : j > p[k]}) <= n - k
    BY <1>4, <2>1, LaterTools
  <2>3. IsFiniteSet({j \in Tools(r) : j > p[k]})
    <3>1. Len(r) \in Nat
      BY LenProperties
    <3>2. IsFiniteSet(1 .. Len(r))
      BY <3>1, FS_Interval
    <3>3. {j \in Tools(r) : j > p[k]} \subseteq 1 .. Len(r)
      BY <1>2
    <3> QED
      BY <3>2, <3>3, FS_Subset
  <2>4. PICK c : c = Cardinality({j \in Tools(r) : j > p[k]})
    OBVIOUS
  <2>5. c \in Nat /\ c <= n - k
    BY <2>2, <2>3, <2>4, FS_CardinalityType
  <2>6. ~ (c >= KeepTools)
    BY <1>10, <1>11, <2>1, <2>5
  <2>7. p[k] \notin Compactable(r)
    BY <2>4, <2>6 DEF Compactable
  <2>8. g[p[k]] = r[p[k]]
    BY <1>1, <1>7, <2>1, <2>7
  <2> QED
    BY <1>8, <1>9, <2>1, <2>8
<1>13. LastTools(g, KeepTools) = SubSeq(s, l, n) /\ LastTools(r, KeepTools) = SubSeq(t, l, n)
  BY <1>8, <1>9 DEF LastTools
<1> HIDE DEF s, t, l, n
<1>14. /\ SubSeq(s, l, n) \in Seq(Message)
       /\ Len(SubSeq(s, l, n)) = IF l <= n THEN n - l + 1 ELSE 0
       /\ \A i \in 1 .. n - l + 1 : SubSeq(s, l, n)[i] = s[l + i - 1]
  <2>1. \A i \in l .. n : s[i] \in Message
    BY <1>8, <1>11, ElementOfSeq
  <2>2. l \in Int /\ n \in Int
    BY <1>11
  <2> QED
    BY <2>1, <2>2, SubSeqProperties
<1>15. /\ SubSeq(t, l, n) \in Seq(Message)
       /\ Len(SubSeq(t, l, n)) = IF l <= n THEN n - l + 1 ELSE 0
       /\ \A i \in 1 .. n - l + 1 : SubSeq(t, l, n)[i] = t[l + i - 1]
  <2>1. \A i \in l .. n : t[i] \in Message
    BY <1>9, <1>11, ElementOfSeq
  <2>2. l \in Int /\ n \in Int
    BY <1>11
  <2> QED
    BY <2>1, <2>2, SubSeqProperties
<1>16. PICK u, v : u = SubSeq(s, l, n) /\ v = SubSeq(t, l, n)
  OBVIOUS
<1>17. u \in Seq(Message) /\ v \in Seq(Message) /\ Len(u) = Len(v)
  BY <1>14, <1>15, <1>16
<1>18. ASSUME NEW i \in 1 .. Len(u)
       PROVE  u[i] = v[i]
  <2>1. Len(u) = IF l <= n THEN n - l + 1 ELSE 0
    BY <1>14, <1>16
  <2>2. i \in 1 .. n - l + 1 /\ l + i - 1 \in l .. n
    BY <1>11, <2>1
  <2>3. s[l + i - 1] = t[l + i - 1]
    BY <1>12, <2>2
  <2> QED
    BY <1>14, <1>15, <1>16, <2>2, <2>3
<1>19. u = v
  BY <1>17, <1>18, SeqEqual
<1> QED
  BY <1>13, <1>16, <1>19

\* What keeps the budget leaves the most recent results alone, and takes messages
\* away for a summary only, for every setting of the limits.
THEOREM KeepsRecent == Spec => RecentKept
<1>1. ASSUME TranscriptInv, [Next]_vars, phase = "managing", phase' = "asking"
      PROVE  /\ LastTools(history', KeepTools) = LastTools(history, KeepTools)
             /\ Len(history') < Len(history) => summaries' = summaries + 1
  <2>1. history \in Seq(Message)
    BY <1>1 DEF TranscriptInv, TranscriptTyped
  <2>2. LeaveContext \/ ManageContext
    BY <1>1 DEF Next, vars, ManageFails, Answer, RunBatch, AskInBatch,
                Resume, FreshRun
  <2>3. CASE LeaveContext
    <3>1. history' = history
      BY <2>3 DEF LeaveContext
    <3>2. Len(history) \in Nat
      BY <2>1, LenProperties
    <3> QED
      BY <3>1, <3>2
  <2>4. CASE ManageContext
    <3>1. PICK summarized \in BOOLEAN, disk \in BOOLEAN :
            /\ summarized => Summarizes(history)
            /\ LET rebuilt == IF summarized THEN Rebuilt(history) ELSE history
                   state == Compacted(rebuilt, disk)
               IN  history' = state.history
            /\ summaries' = summaries + (IF summarized THEN 1 ELSE 0)
      BY <2>4 DEF ManageContext
    <3>2. PICK r : r = IF summarized THEN Rebuilt(history) ELSE history
      OBVIOUS
    <3>3. /\ r \in Seq(Message) /\ Piece(r, Tools(r)) = Piece(history, Tools(history))
          /\ ~ summarized => Len(r) = Len(history)
      <4>1. CASE summarized
        <5>1. PICK e : Embeds(Rebuilt(history), history, e)
          BY <2>1, <3>1, <4>1, RebuiltEmbeds
        <5>2. Embeds(r, history, e)
          BY <3>2, <4>1, <5>1
        <5>3. r \in Seq(Message)
          BY <5>2 DEF Embeds
        <5> QED
          BY <2>1, <4>1, <5>2, <5>3, SummaryKeepsTools
      <4>2. CASE ~ summarized
        BY <2>1, <3>2, <4>2
      <4> QED
        BY <4>1, <4>2
    <3>4. LastTools(r, KeepTools) = LastTools(history, KeepTools)
      BY <3>3 DEF LastTools
    <3>5. history' = Compacted(r, disk).history
      BY <3>1, <3>2
    <3>6. Alike(Compacted(r, disk).history, r, (1 .. Len(r)) \ Compactable(r))
      BY <3>3, CompactedAlike
    <3>7. PICK g : g = Compacted(r, disk).history
      OBVIOUS
    <3>8. Alike(g, r, (1 .. Len(r)) \ Compactable(r))
      BY <3>6, <3>7
    <3>9. LastTools(g, KeepTools) = LastTools(r, KeepTools)
      BY <3>3, <3>8, CompactionKeepsLast
    <3>10. Len(g) = Len(r)
      BY <3>8 DEF Alike
    <3>11. Len(history) \in Nat
      BY <2>1, LenProperties
    <3>12. Len(history') < Len(history) => summarized
      BY <3>3, <3>5, <3>7, <3>10, <3>11
    <3> QED
      BY <3>1, <3>4, <3>5, <3>7, <3>9, <3>12
  <2> QED
    BY <2>2, <2>3, <2>4
<1>2. TranscriptInv /\ [Next]_vars
        => [phase = "managing" /\ phase' = "asking" =>
              /\ LastTools(history', KeepTools) = LastTools(history, KeepTools)
              /\ Len(history') < Len(history) => summaries' = summaries + 1]_vars
  BY <1>1
<1> QED
  BY <1>2, TranscriptHolds, PTL DEF Spec, RecentKept
=============================================================================
