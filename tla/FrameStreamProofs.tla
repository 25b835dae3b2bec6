--------------------------- MODULE FrameStreamProofs ---------------------------
(***************************************************************************)
(* Proofs about FrameCodec, FrameStream and FrameHandler, for bytes and    *)
(* fields of any size, any frames and any way the stream is cut.           *)
(*                                                                         *)
(* The induction theorems of the library take an operator for what is to   *)
(* be proved; here the set of the numbers that have the property takes its *)
(* place (Induction), by way of the least element of its complement.       *)
(***************************************************************************)
EXTENDS FrameHandler, SequenceTheorems, WellFoundedInduction, TLAPS

-------------------------------------------------------------------------------
(* Induction                                                               *)

LEMMA NatOrder ==
  \E R : IsWellFoundedOn(R, Nat) /\ \A x, y \in Nat : y < x => <<y, x>> \in R
<1>1. \A x, y \in Nat : y < x => <<y, x>> \in OpToRel(<, Nat)
  BY DEF OpToRel
<1> QED
  BY <1>1, NatLessThanWellFounded, Zenon

LEMMA Least ==
  ASSUME NEW T \in SUBSET Nat, T # {}
  PROVE  \E x \in T : \A y \in T : x <= y
<1>1. PICK R : IsWellFoundedOn(R, Nat) /\ \A x, y \in Nat : y < x => <<y, x>> \in R
  BY NatOrder
<1>2. \E x \in T : \A y \in T : <<y, x>> \notin R
  BY <1>1, WFMin
<1>3. \A x, y \in Nat : ~(y < x) => x <= y
  OBVIOUS
<1>4. \A x \in T : x \in Nat
  OBVIOUS
<1> QED
  BY <1>1, <1>2, <1>3, <1>4, Zenon

LEMMA Induction ==
  ASSUME NEW T, 0 \in T, \A n \in Nat : n \in T => n + 1 \in T
  PROVE  Nat \subseteq T
<1> SUFFICES ASSUME Nat \ T # {} PROVE FALSE
  OBVIOUS
<1>1. PICK x \in Nat \ T : \A y \in Nat \ T : x <= y
  BY Least
<1>2. x # 0 /\ x - 1 \in Nat
  BY <1>1
<1> QED
  BY <1>1, <1>2

\* folding
LEMMA MaxInterval == ASSUME NEW n \in Nat, NEW s \in SUBSET (1 .. n), n \in s PROVE Max(s) = n
<1>1. n \in s /\ \A y \in s : n >= y
  OBVIOUS
<1>2. \A x \in s : (\A y \in s : x >= y) => x = n
  OBVIOUS
<1> QED
  BY <1>1, <1>2 DEF Max

\* A fold over the elements of sets of indices, the greatest last.
IsFold(g, n, V, base, step) ==
    /\ g \in [SUBSET (1 .. n) -> V]
    /\ \A s \in SUBSET (1 .. n) :
         g[s] = IF s = {} THEN base ELSE step[<<g[s \ {Max(s)}], Max(s)>>]

LEMMA FoldExists ==
  ASSUME NEW n \in Nat, NEW V, NEW base \in V, NEW step \in [V \X (1 .. n) -> V]
  PROVE  \E g : IsFold(g, n, V, base, step)
<1> DEFINE Good(g, m) == /\ g \in [SUBSET (1 .. m) -> V]
                         /\ \A s \in SUBSET (1 .. m) :
                              g[s] = IF s = {} THEN base ELSE step[<<g[s \ {Max(s)}], Max(s)>>]
           P(m) == m <= n => \E g : Good(g, m)
           T == {m \in Nat : P(m)}
<1>1. P(0)
  <2> DEFINE g == [s \in SUBSET (1 .. 0) |-> base]
  <2>0. \A s \in SUBSET (1 .. 0) : s = {}
    OBVIOUS
  <2>1. Good(g, 0)
    BY <2>0
  <2> QED
    BY <2>1
<1>2. ASSUME NEW m \in Nat, P(m) PROVE P(m + 1)
  <2> SUFFICES ASSUME m + 1 <= n PROVE \E h : Good(h, m + 1)
    OBVIOUS
  <2>0. m <= n
    OBVIOUS
  <2>1. PICK g : Good(g, m)
    BY <1>2, <2>0, Zenon
  <2> DEFINE h == [s \in SUBSET (1 .. m + 1) |->
                     IF m + 1 \in s THEN step[<<g[s \ {m + 1}], m + 1>>] ELSE g[s]]
  <2>2. \A s \in SUBSET (1 .. m + 1) : m + 1 \notin s => s \in SUBSET (1 .. m)
    OBVIOUS
  <2>3. \A s \in SUBSET (1 .. m + 1) : m + 1 \in s => s \ {m + 1} \in SUBSET (1 .. m)
    OBVIOUS
  <2>4. h \in [SUBSET (1 .. m + 1) -> V]
    <3>1. ASSUME NEW s \in SUBSET (1 .. m + 1)
          PROVE (IF m + 1 \in s THEN step[<<g[s \ {m + 1}], m + 1>>] ELSE g[s]) \in V
      BY <2>1, <2>2, <2>3
    <3> QED
      BY <3>1, Zenon
  <2>5. ASSUME NEW s \in SUBSET (1 .. m + 1)
        PROVE  h[s] = IF s = {} THEN base ELSE step[<<h[s \ {Max(s)}], Max(s)>>]
    <3>1. CASE m + 1 \in s
      <4>1. Max(s) = m + 1
        BY <3>1, MaxInterval
      <4>2. h[s] = step[<<g[s \ {m + 1}], m + 1>>] /\ h[s \ {m + 1}] = g[s \ {m + 1}]
        BY <3>1, <2>3
      <4> HIDE DEF h
      <4> QED
        BY <3>1, <4>1, <4>2
    <3>2. CASE m + 1 \notin s
      <4>1. h[s] = g[s] /\ h[s \ {Max(s)}] = g[s \ {Max(s)}]
        BY <3>2, <2>2
      <4>2. g[s] = IF s = {} THEN base ELSE step[<<g[s \ {Max(s)}], Max(s)>>]
        BY <3>2, <2>2, <2>1
      <4> HIDE DEF h
      <4> QED
        BY <4>1, <4>2
    <3> QED
      BY <3>1, <3>2
  <2> HIDE DEF h
  <2>6. Good(h, m + 1)
    BY <2>4, <2>5, Zenon
  <2> QED
    BY <2>6
<1>3. P(n)
  <2> HIDE DEF P
  <2>1. 0 \in T /\ \A m \in Nat : m \in T => m + 1 \in T
    BY <1>1, <1>2
  <2>2. Nat \subseteq T
    <3> HIDE DEF T
    <3> QED BY <2>1, Induction
  <2> QED
    BY <2>2
<1>4. n <= n
  OBVIOUS
<1> QED
  BY <1>3, <1>4, Zenon DEF IsFold

LEMMA MaxIn ==
  ASSUME NEW n \in Nat, NEW s \in SUBSET (1 .. n), s # {}
  PROVE  Max(s) \in s
<1> DEFINE T == {n - x : x \in s}
<1>a. \A x \in s : x \in Nat /\ n - x \in Nat
  OBVIOUS
<1>1. T \in SUBSET Nat /\ T # {}
  BY <1>a
<1>2. PICK y \in T : \A z \in T : y <= z
  <2> HIDE DEF T
  <2> QED BY <1>1, Least
<1>3. PICK x \in s : y = n - x
  OBVIOUS
<1>4. ASSUME NEW z \in s PROVE x >= z
  <2>1. n - x <= n - z
    BY <1>2, <1>3
  <2> QED
    BY <2>1, <1>a
<1> QED
  BY <1>4 DEF Max

LEMMA Intervals ==
  ASSUME NEW n \in Nat
  PROVE  /\ 1 .. 0 = {} /\ 1 .. 0 \in SUBSET (1 .. n)
         /\ \A i \in 1 .. n : /\ i \in Nat /\ i - 1 \in 0 .. n
                             /\ 1 .. i \in SUBSET (1 .. n) /\ 1 .. i # {}
                             /\ Max(1 .. i) = i /\ (1 .. i) \ {i} = 1 .. i - 1
<1>1. ASSUME NEW i \in 1 .. n PROVE Max(1 .. i) = i
  <2>1. 1 .. i \in SUBSET (1 .. i) /\ i \in 1 .. i /\ i \in Nat
    OBVIOUS
  <2> QED
    BY <2>1, MaxInterval
<1>2. ASSUME NEW i \in 1 .. n
      PROVE  /\ i \in Nat /\ i - 1 \in 0 .. n /\ 1 .. i # {}
             /\ 1 .. i \in SUBSET (1 .. n) /\ (1 .. i) \ {i} = 1 .. i - 1
  OBVIOUS
<1> QED
  BY <1>1, <1>2

LEMMA FoldPrefix ==
  ASSUME NEW n \in Nat, NEW V, NEW base, NEW step, NEW g, IsFold(g, n, V, base, step)
  PROVE  /\ g[1 .. 0] = base
         /\ \A i \in 1 .. n : g[1 .. i] = step[<<g[1 .. i - 1], i>>]
<1>1. /\ 1 .. 0 = {} /\ 1 .. 0 \in SUBSET (1 .. n)
      /\ \A i \in 1 .. n : /\ 1 .. i \in SUBSET (1 .. n) /\ 1 .. i # {}
                          /\ Max(1 .. i) = i /\ (1 .. i) \ {i} = 1 .. i - 1
  BY Intervals
<1>2. \A s \in SUBSET (1 .. n) :
        g[s] = IF s = {} THEN base ELSE step[<<g[s \ {Max(s)}], Max(s)>>]
  BY DEF IsFold
<1>3. ASSUME NEW i \in 1 .. n PROVE g[1 .. i] = step[<<g[1 .. i - 1], i>>]
  <2>1. g[1 .. i] = step[<<g[(1 .. i) \ {Max(1 .. i)}], Max(1 .. i)>>]
    BY <1>1, <1>2, Zenon
  <2> QED BY <1>1, <2>1, Zenon
<1> QED
  BY <1>1, <1>2, <1>3, Zenon

LEMMA Iterates ==
  ASSUME NEW n \in Nat, NEW V, NEW f, f[0] \in V,
         \A i \in 1 .. n : f[i - 1] \in V => f[i] \in V
  PROVE  \A i \in 0 .. n : f[i] \in V
<1> DEFINE T == {i \in Nat : i <= n => f[i] \in V}
<1>1. 0 \in T /\ \A i \in Nat : i \in T => i + 1 \in T
  OBVIOUS
<1>2. Nat \subseteq T
  <2> HIDE DEF T
  <2> QED BY <1>1, Induction
<1> QED
  BY <1>2

-------------------------------------------------------------------------------
(* The folds of FrameCodec, from their beginning.                          *)

ByteSum(s) == FoldLeft(LAMBDA n, b : n + b, 0, s)

LEMMA SumPrefixes ==
  ASSUME NEW s \in Seq(Nat)
  PROVE  \E f \in [0 .. Len(s) -> Nat] :
           /\ f[0] = 0 /\ f[Len(s)] = ByteSum(s)
           /\ \A i \in 1 .. Len(s) : f[i] = f[i - 1] + s[i]
<1> DEFINE n == Len(s)
           Step == [p \in Nat \X (1 .. n) |-> p[1] + s[p[2]]]
           Is(h) == h = [t \in SUBSET DOMAIN s |->
                           IF t = {} THEN 0 ELSE h[t \ {Max(t)}] + s[Max(t)]]
           G == CHOOSE h : Is(h)
           f == [i \in 0 .. n |-> G[1 .. i]]
<1>1. 0 \in Nat /\ n \in Nat /\ DOMAIN s = 1 .. n /\ \A i \in 1 .. n : s[i] \in Nat
  BY LenProperties, ElementOfSeq
<1>2. Step \in [Nat \X (1 .. n) -> Nat]
  BY <1>1
<1>3. PICK g : IsFold(g, n, Nat, 0, Step)
  <2> HIDE DEF Step, n
  <2> QED BY <1>1, <1>2, FoldExists
<1>4. \E h : Is(h)
  <2>1. \A t \in SUBSET (1 .. n) :
          g[t] = IF t = {} THEN 0 ELSE Step[<<g[t \ {Max(t)}], Max(t)>>]
    BY <1>3 DEF IsFold
  <2>2. \A t \in SUBSET (1 .. n) : t # {} => Max(t) \in 1 .. n
    BY <1>1, MaxIn
  <2>3. \A t \in SUBSET (1 .. n) : t # {} =>
          Step[<<g[t \ {Max(t)}], Max(t)>>] = g[t \ {Max(t)}] + s[Max(t)]
    BY <1>3, <2>2 DEF IsFold
  <2>4. Is(g)
    BY <1>3, <2>1, <2>3, <1>1 DEF IsFold
  <2> QED
    BY <2>4
<1>5. ByteSum(s) = G[1 .. n]
  BY <1>1 DEF ByteSum, FoldLeft, MapThenFoldSet
<1>6. G = [t \in SUBSET (1 .. n) |-> IF t = {} THEN 0 ELSE G[t \ {Max(t)}] + s[Max(t)]]
  <2>1. Is(G)
    <3> HIDE DEF Is
    <3> QED BY <1>4, Zenon
  <2> HIDE DEF G, n
  <2> QED BY <1>1, <2>1
<1> HIDE DEF G, Is, Step
<1>7. /\ G[1 .. 0] = 0
      /\ \A i \in 1 .. n : G[1 .. i] = G[1 .. i - 1] + s[i]
  <2> HIDE DEF n
  <2>1. /\ 1 .. 0 = {} /\ 1 .. 0 \in SUBSET (1 .. n)
        /\ \A i \in 1 .. n : /\ 1 .. i \in SUBSET (1 .. n) /\ 1 .. i # {}
                            /\ Max(1 .. i) = i /\ (1 .. i) \ {i} = 1 .. i - 1
    BY <1>1, Intervals
  <2>2. \A t \in SUBSET (1 .. n) :
           G[t] = IF t = {} THEN 0 ELSE G[t \ {Max(t)}] + s[Max(t)]
    BY <1>6, Zenon
  <2>3. ASSUME NEW i \in 1 .. n PROVE G[1 .. i] = G[1 .. i - 1] + s[i]
    <3>1. G[1 .. i] = G[(1 .. i) \ {Max(1 .. i)}] + s[Max(1 .. i)]
      BY <2>1, <2>2, Zenon
    <3> QED BY <2>1, <3>1, Zenon
  <2> QED BY <2>1, <2>2, <2>3, Zenon
<1>8. /\ f[0] = 0 /\ f[n] = ByteSum(s) /\ DOMAIN f = 0 .. n
      /\ \A i \in 1 .. n : f[i] = f[i - 1] + s[i]
  <2> HIDE DEF n
  <2> QED BY <1>1, <1>5, <1>7
<1>9. \A i \in 0 .. n : f[i] \in Nat
  <2> DEFINE V == Nat
  <2> HIDE DEF f, n
  <2>1. f[0] \in V /\ \A i \in 1 .. n : f[i - 1] \in V => f[i] \in V
    BY <1>1, <1>8
  <2> HIDE DEF V
  <2>2. \A i \in 0 .. n : f[i] \in V
    BY <1>1, <2>1, Iterates
  <2> USE DEF V
  <2> QED BY <2>2
<1>10. f \in [0 .. n -> Nat]
  BY <1>9
<1> QED
  BY <1>8, <1>10

Value(s) == FoldLeft(LAMBDA n, b : n * Base + b, 0, s)

LEMMA ValuePrefixes ==
  ASSUME NEW s \in Seq(Nat)
  PROVE  \E f \in [0 .. Len(s) -> Nat] :
           /\ f[0] = 0 /\ f[Len(s)] = Value(s)
           /\ \A i \in 1 .. Len(s) : f[i] = f[i - 1] * Base + s[i]
<1> DEFINE n == Len(s)
           Step == [p \in Nat \X (1 .. n) |-> p[1] * Base + s[p[2]]]
           Is(h) == h = [t \in SUBSET DOMAIN s |->
                           IF t = {} THEN 0 ELSE h[t \ {Max(t)}] * Base + s[Max(t)]]
           G == CHOOSE h : Is(h)
           f == [i \in 0 .. n |-> G[1 .. i]]
<1>1. Base \in Nat /\ 0 \in Nat /\ n \in Nat /\ DOMAIN s = 1 .. n /\ \A i \in 1 .. n : s[i] \in Nat
  BY LenProperties, ElementOfSeq, CodecAssumption
<1>2. Step \in [Nat \X (1 .. n) -> Nat]
  BY <1>1
<1>3. PICK g : IsFold(g, n, Nat, 0, Step)
  <2> HIDE DEF Step, n
  <2> QED BY <1>1, <1>2, FoldExists
<1>4. \E h : Is(h)
  <2>1. \A t \in SUBSET (1 .. n) :
          g[t] = IF t = {} THEN 0 ELSE Step[<<g[t \ {Max(t)}], Max(t)>>]
    BY <1>3 DEF IsFold
  <2>2. \A t \in SUBSET (1 .. n) : t # {} => Max(t) \in 1 .. n
    BY <1>1, MaxIn
  <2>3. \A t \in SUBSET (1 .. n) : t # {} =>
          Step[<<g[t \ {Max(t)}], Max(t)>>] = g[t \ {Max(t)}] * Base + s[Max(t)]
    BY <1>3, <2>2 DEF IsFold
  <2>4. Is(g)
    BY <1>3, <2>1, <2>3, <1>1 DEF IsFold
  <2> QED
    BY <2>4
<1>5. Value(s) = G[1 .. n]
  BY <1>1 DEF Value, FoldLeft, MapThenFoldSet
<1>6. G = [t \in SUBSET (1 .. n) |-> IF t = {} THEN 0 ELSE G[t \ {Max(t)}] * Base + s[Max(t)]]
  <2>1. Is(G)
    <3> HIDE DEF Is
    <3> QED BY <1>4, Zenon
  <2> HIDE DEF G, n
  <2> QED BY <1>1, <2>1
<1> HIDE DEF G, Is, Step
<1>7. /\ G[1 .. 0] = 0
      /\ \A i \in 1 .. n : G[1 .. i] = G[1 .. i - 1] * Base + s[i]
  <2> HIDE DEF n
  <2>1. /\ 1 .. 0 = {} /\ 1 .. 0 \in SUBSET (1 .. n)
        /\ \A i \in 1 .. n : /\ 1 .. i \in SUBSET (1 .. n) /\ 1 .. i # {}
                            /\ Max(1 .. i) = i /\ (1 .. i) \ {i} = 1 .. i - 1
    BY <1>1, Intervals
  <2>2. \A t \in SUBSET (1 .. n) :
           G[t] = IF t = {} THEN 0 ELSE G[t \ {Max(t)}] * Base + s[Max(t)]
    BY <1>6, Zenon
  <2>3. ASSUME NEW i \in 1 .. n PROVE G[1 .. i] = G[1 .. i - 1] * Base + s[i]
    <3>1. G[1 .. i] = G[(1 .. i) \ {Max(1 .. i)}] * Base + s[Max(1 .. i)]
      BY <2>1, <2>2, Zenon
    <3> QED BY <2>1, <3>1, Zenon
  <2> QED BY <2>1, <2>2, <2>3, Zenon
<1>8. /\ f[0] = 0 /\ f[n] = Value(s) /\ DOMAIN f = 0 .. n
      /\ \A i \in 1 .. n : f[i] = f[i - 1] * Base + s[i]
  <2> HIDE DEF n
  <2> QED BY <1>1, <1>5, <1>7
<1>9. \A i \in 0 .. n : f[i] \in Nat
  <2> DEFINE V == Nat
  <2> HIDE DEF f, n
  <2>1. f[0] \in V /\ \A i \in 1 .. n : f[i - 1] \in V => f[i] \in V
    BY <1>1, <1>8
  <2> HIDE DEF V
  <2>2. \A i \in 0 .. n : f[i] \in V
    BY <1>1, <2>1, Iterates
  <2> USE DEF V
  <2> QED BY <2>2
<1>10. f \in [0 .. n -> Nat]
  BY <1>9
<1> QED
  BY <1>8, <1>10

Stream(s) == FoldLeft(LAMBDA b, f : b \o Serialize(f), << >>, s)

LEMMA StreamPrefixes ==
  ASSUME NEW S, NEW s \in Seq(S), \A x \in S : Serialize(x) \in Seq(Byte)
  PROVE  \E f \in [0 .. Len(s) -> Seq(Byte)] :
           /\ f[0] = << >> /\ f[Len(s)] = Stream(s)
           /\ \A i \in 1 .. Len(s) : f[i] = f[i - 1] \o Serialize(s[i])
<1> DEFINE n == Len(s)
           Step == [p \in Seq(Byte) \X (1 .. n) |-> p[1] \o Serialize(s[p[2]])]
           Is(h) == h = [t \in SUBSET DOMAIN s |->
                           IF t = {} THEN << >> ELSE h[t \ {Max(t)}] \o Serialize(s[Max(t)])]
           G == CHOOSE h : Is(h)
           f == [i \in 0 .. n |-> G[1 .. i]]
<1>1. << >> \in Seq(Byte) /\ n \in Nat /\ DOMAIN s = 1 .. n /\ \A i \in 1 .. n : Serialize(s[i]) \in Seq(Byte)
  BY LenProperties, ElementOfSeq, EmptySeq
<1>2. Step \in [Seq(Byte) \X (1 .. n) -> Seq(Byte)]
  BY <1>1
<1>3. PICK g : IsFold(g, n, Seq(Byte), << >>, Step)
  <2> HIDE DEF Step, n
  <2> QED BY <1>1, <1>2, FoldExists
<1>4. \E h : Is(h)
  <2>1. \A t \in SUBSET (1 .. n) :
          g[t] = IF t = {} THEN << >> ELSE Step[<<g[t \ {Max(t)}], Max(t)>>]
    BY <1>3 DEF IsFold
  <2>2. \A t \in SUBSET (1 .. n) : t # {} => Max(t) \in 1 .. n
    BY <1>1, MaxIn
  <2>3. \A t \in SUBSET (1 .. n) : t # {} =>
          Step[<<g[t \ {Max(t)}], Max(t)>>] = g[t \ {Max(t)}] \o Serialize(s[Max(t)])
    BY <1>3, <2>2 DEF IsFold
  <2>4. Is(g)
    BY <1>3, <2>1, <2>3, <1>1 DEF IsFold
  <2> QED
    BY <2>4
<1>5. Stream(s) = G[1 .. n]
  BY <1>1 DEF Stream, FoldLeft, MapThenFoldSet
<1>6. G = [t \in SUBSET (1 .. n) |-> IF t = {} THEN << >> ELSE G[t \ {Max(t)}] \o Serialize(s[Max(t)])]
  <2>1. Is(G)
    <3> HIDE DEF Is
    <3> QED BY <1>4, Zenon
  <2> HIDE DEF G, n
  <2> QED BY <1>1, <2>1
<1> HIDE DEF G, Is, Step
<1>7. /\ G[1 .. 0] = << >>
      /\ \A i \in 1 .. n : G[1 .. i] = G[1 .. i - 1] \o Serialize(s[i])
  <2> HIDE DEF n
  <2>1. /\ 1 .. 0 = {} /\ 1 .. 0 \in SUBSET (1 .. n)
        /\ \A i \in 1 .. n : /\ 1 .. i \in SUBSET (1 .. n) /\ 1 .. i # {}
                            /\ Max(1 .. i) = i /\ (1 .. i) \ {i} = 1 .. i - 1
    BY <1>1, Intervals
  <2>2. \A t \in SUBSET (1 .. n) :
           G[t] = IF t = {} THEN << >> ELSE G[t \ {Max(t)}] \o Serialize(s[Max(t)])
    BY <1>6, Zenon
  <2>3. ASSUME NEW i \in 1 .. n PROVE G[1 .. i] = G[1 .. i - 1] \o Serialize(s[i])
    <3>1. G[1 .. i] = G[(1 .. i) \ {Max(1 .. i)}] \o Serialize(s[Max(1 .. i)])
      BY <2>1, <2>2, Zenon
    <3> QED BY <2>1, <3>1, Zenon
  <2> QED BY <2>1, <2>2, <2>3, Zenon
<1>8. /\ f[0] = << >> /\ f[n] = Stream(s) /\ DOMAIN f = 0 .. n
      /\ \A i \in 1 .. n : f[i] = f[i - 1] \o Serialize(s[i])
  <2> HIDE DEF n
  <2>1. f[0] = << >> /\ f[n] = Stream(s) /\ DOMAIN f = 0 .. n
    BY <1>1, <1>5, <1>7
  <2>2. ASSUME NEW i \in 1 .. n PROVE f[i] = f[i - 1] \o Serialize(s[i])
    <3>1. i \in 0 .. n /\ i - 1 \in 0 .. n
      BY <1>1
    <3>2. f[i] = G[1 .. i] /\ f[i - 1] = G[1 .. i - 1]
      BY <3>1
    <3> HIDE DEF f
    <3> QED BY <1>7, <3>2, Zenon
  <2> QED BY <2>1, <2>2
<1>9. \A i \in 0 .. n : f[i] \in Seq(Byte)
  <2> DEFINE V == Seq(Byte)
  <2> HIDE DEF f, n
  <2>1. f[0] \in V /\ \A i \in 1 .. n : f[i - 1] \in V => f[i] \in V
    BY <1>1, <1>8, ConcatProperties
  <2> HIDE DEF V
  <2>2. \A i \in 0 .. n : f[i] \in V
    BY <1>1, <2>1, Iterates
  <2> USE DEF V
  <2> QED BY <2>2
<1>10. f \in [0 .. n -> Seq(Byte)]
  BY <1>9
<1> QED
  BY <1>8, <1>10

-------------------------------------------------------------------------------
(* Fields: division by powers of the base.                                 *)

LEMMA DivMod ==
  ASSUME NEW n \in Nat, NEW d \in Nat \ {0}
  PROVE  /\ n \div d \in Nat /\ n % d \in 0 .. d - 1
         /\ n = (n \div d) * d + (n % d)
OBVIOUS

LEMMA DivUnique ==
  ASSUME NEW n \in Nat, NEW d \in Nat \ {0}, NEW q \in Nat, NEW r \in 0 .. d - 1,
         n = q * d + r
  PROVE  n \div d = q /\ n % d = r
<1>1. n \div d \in Nat /\ n % d \in 0 .. d - 1 /\ n = (n \div d) * d + (n % d)
  BY DivMod
<1> QED
  BY <1>1

LEMMA DivDiv ==
  ASSUME NEW n \in Nat, NEW p \in Nat \ {0}, NEW b \in Nat \ {0}
  PROVE  n \div (b * p) = (n \div p) \div b
<1> DEFINE m == n \div p
<1>1. m \in Nat /\ n % p \in 0 .. p - 1 /\ n = m * p + (n % p)
  BY DivMod
<1>2. m \div b \in Nat /\ m % b \in 0 .. b - 1 /\ m = (m \div b) * b + (m % b)
  BY <1>1, DivMod
<1> DEFINE q == m \div b
           r == (m % b) * p + (n % p)
<1>3. b * p \in Nat \ {0} /\ q \in Nat
  BY <1>2
<1>4. n = q * (b * p) + r
  <2> HIDE DEF m
  <2>1. m % b \in Nat /\ q \in Nat
    BY <1>2
  <2>2. m * p = q * b * p + (m % b) * p
    BY <1>1, <1>2, <2>1
  <2>3. q * b * p = q * (b * p)
    BY <2>1
  <2> QED BY <1>1, <2>1, <2>2, <2>3
<1>5. r \in 0 .. b * p - 1
  <2> HIDE DEF m
  <2>1. (m % b) * p <= (b - 1) * p /\ (m % b) * p >= 0 /\ (b - 1) * p = b * p - p
    BY <1>2
  <2> QED BY <1>1, <1>2, <2>1
<1> HIDE DEF m, q, r
<1>6. n \div (b * p) = q
  BY <1>3, <1>4, <1>5, DivUnique
<1> QED
  BY <1>6 DEF q, m

LEMMA PowerDef ==
  /\ Power[0] = 1
  /\ \A k \in 1 .. FieldBytes : Power[k] = Base * Power[k - 1]
  /\ \A k \in 0 .. FieldBytes : Power[k] \in Nat \ {0}
<1> DEFINE Is(h) == h = [k \in 0 .. FieldBytes |-> IF k = 0 THEN 1 ELSE Base * h[k - 1]]
<1>1. FieldBytes \in Nat \ {0} /\ Base \in Nat \ {0, 1}
  BY CodecAssumption
<1>2. \E h : Is(h)
  <2> DEFINE Step == [p \in Nat \X (1 .. FieldBytes) |-> Base * p[1]]
  <2>1. Step \in [Nat \X (1 .. FieldBytes) -> Nat] /\ 1 \in Nat /\ FieldBytes \in Nat
    BY <1>1
  <2>2. PICK g : IsFold(g, FieldBytes, Nat, 1, Step)
    <3> HIDE DEF Step
    <3> QED BY <2>1, FoldExists
  <2>3. /\ g[1 .. 0] = 1
        /\ \A k \in 1 .. FieldBytes : g[1 .. k] = Step[<<g[1 .. k - 1], k>>]
    <3> HIDE DEF Step
    <3> QED BY <2>1, <2>2, FoldPrefix
  <2>4. \A k \in 1 .. FieldBytes : 1 .. k - 1 \in SUBSET (1 .. FieldBytes)
    BY <1>1
  <2> DEFINE h == [k \in 0 .. FieldBytes |-> g[1 .. k]]
  <2>5. \A k \in 1 .. FieldBytes : g[1 .. k] = Base * g[1 .. k - 1]
    BY <2>2, <2>3, <2>4 DEF IsFold
  <2>6. Is(h)
    <3> HIDE DEF Step
    <3> QED BY <2>3, <2>5, <1>1
  <2> HIDE DEF Is
  <2> QED BY <2>6
<1>3. Power = [k \in 0 .. FieldBytes |-> IF k = 0 THEN 1 ELSE Base * Power[k - 1]]
  <2> DEFINE P == CHOOSE h : Is(h)
  <2>1. Is(P)
    <3> HIDE DEF Is
    <3> QED BY <1>2, Zenon
  <2>2. Power = P
    BY Zenon DEF Power
  <2> HIDE DEF P
  <2> QED BY <2>1, <2>2
<1>4. Power[0] = 1 /\ \A k \in 1 .. FieldBytes : Power[k] = Base * Power[k - 1]
  BY <1>1, <1>3
<1>5. \A k \in 0 .. FieldBytes : Power[k] \in Nat \ {0}
  <2> DEFINE V == Nat \ {0}
  <2>1. Power[0] \in V /\ \A i \in 1 .. FieldBytes : Power[i - 1] \in V => Power[i] \in V
    BY <1>1, <1>4
  <2> HIDE DEF V
  <2>2. \A i \in 0 .. FieldBytes : Power[i] \in V
    BY <1>1, <2>1, Iterates
  <2> USE DEF V
  <2> QED BY <2>2
<1> QED
  BY <1>4, <1>5

LEMMA FieldBytesOf ==
  ASSUME NEW n \in Nat
  PROVE  /\ Field(n) \in Seq(Byte) /\ Len(Field(n)) = FieldBytes
         /\ \A i \in 1 .. FieldBytes : Field(n)[i] = (n \div Power[FieldBytes - i]) % Base
<1>1. FieldBytes \in Nat \ {0} /\ Base \in Nat \ {0, 1}
  BY CodecAssumption
<1>2. ASSUME NEW i \in 1 .. FieldBytes PROVE (n \div Power[FieldBytes - i]) % Base \in Byte
  <2>1. Power[FieldBytes - i] \in Nat \ {0}
    BY <1>1, PowerDef
  <2>2. n \div Power[FieldBytes - i] \in Nat
    BY <2>1, DivMod
  <2> QED
    BY <1>1, <2>2, DivMod DEF Byte
<1>3. Field(n) \in [1 .. FieldBytes -> Byte]
  BY <1>2 DEF Field
<1> QED
  BY <1>1, <1>3, SeqDef DEF Field

\* A field read back is the number that was written.
LEMMA ValueOfField ==
  ASSUME NEW n \in Word
  PROVE  Value(Field(n)) = n
<1>1. /\ FieldBytes \in Nat \ {0} /\ Base \in Nat \ {0, 1}
      /\ n \in Nat /\ n < Power[FieldBytes]
      /\ \A k \in 0 .. FieldBytes : Power[k] \in Nat \ {0}
  BY CodecAssumption, PowerDef DEF Word
<1>2. /\ Field(n) \in Seq(Nat) /\ Len(Field(n)) = FieldBytes
      /\ \A i \in 1 .. FieldBytes : Field(n)[i] = (n \div Power[FieldBytes - i]) % Base
  <2>1. /\ Field(n) \in Seq(Byte) /\ Len(Field(n)) = FieldBytes
        /\ \A i \in 1 .. FieldBytes : Field(n)[i] = (n \div Power[FieldBytes - i]) % Base
    BY <1>1, FieldBytesOf
  <2>2. Byte \subseteq Nat
    BY <1>1 DEF Byte
  <2>3. Field(n) \in Seq(Nat)
    BY <2>1, <2>2, SeqMonotonic
  <2> QED BY <2>1, <2>3
<1>3. PICK f \in [0 .. FieldBytes -> Nat] :
        /\ f[0] = 0 /\ f[FieldBytes] = Value(Field(n))
        /\ \A i \in 1 .. FieldBytes : f[i] = f[i - 1] * Base + Field(n)[i]
  BY <1>2, ValuePrefixes
<1>4. n \div Power[FieldBytes] = 0
  BY <1>1, DivUnique
<1>5. ASSUME NEW i \in 1 .. FieldBytes, f[i - 1] = n \div Power[FieldBytes - (i - 1)]
      PROVE  f[i] = n \div Power[FieldBytes - i]
  <2> DEFINE p == Power[FieldBytes - i]
             m == n \div p
  <2>1. p \in Nat \ {0} /\ Power[FieldBytes - (i - 1)] = Base * p
    <3>1. FieldBytes - (i - 1) \in 1 .. FieldBytes /\ FieldBytes - (i - 1) - 1 = FieldBytes - i
      BY <1>1
    <3> QED BY <1>1, <3>1, PowerDef
  <2>2. f[i - 1] = m \div Base
    <3> HIDE DEF p
    <3>1. n \in Nat /\ p \in Nat \ {0} /\ Base \in Nat \ {0}
      BY <1>1, <2>1
    <3>2. n \div (Base * p) = (n \div p) \div Base
      BY <3>1, DivDiv, Zenon
    <3> QED BY <1>5, <2>1, <3>2
  <2>3. m \in Nat
    <3> HIDE DEF p
    <3> QED BY <1>1, <2>1, DivMod
  <2>4. f[i] = (m \div Base) * Base + (m % Base)
    BY <1>2, <1>3, <2>2
  <2> HIDE DEF m
  <2>5. f[i] = m
    BY <1>1, <2>3, <2>4, DivMod
  <2> QED
    BY <2>5 DEF m
<1>6. f[0] \in {0} /\ FieldBytes - 0 = FieldBytes
  BY <1>1, <1>3
<1>7. \A i \in 0 .. FieldBytes : f[i] = n \div Power[FieldBytes - i]
  <2> DEFINE T == {i \in Nat : i <= FieldBytes => f[i] = n \div Power[FieldBytes - i]}
  <2>1. 0 \in T
    BY <1>1, <1>4, <1>6
  <2>2. ASSUME NEW i \in Nat, i \in T PROVE i + 1 \in T
    <3> SUFFICES ASSUME i + 1 <= FieldBytes
                 PROVE  f[i + 1] = n \div Power[FieldBytes - (i + 1)]
      OBVIOUS
    <3>1. i + 1 \in 1 .. FieldBytes /\ (i + 1) - 1 = i /\ i <= FieldBytes
      BY <1>1
    <3>2. f[(i + 1) - 1] = n \div Power[FieldBytes - ((i + 1) - 1)]
      BY <2>2, <3>1
    <3> QED BY <1>5, <3>1, <3>2
  <2>3. Nat \subseteq T
    <3> HIDE DEF T
    <3> QED BY <2>1, <2>2, Induction
  <2> QED BY <2>3
<1>8. f[FieldBytes] = n \div Power[FieldBytes - FieldBytes]
  BY <1>1, <1>7
<1>9. FieldBytes - FieldBytes = 0 /\ Power[0] = 1 /\ n \div 1 = n
  BY <1>1, PowerDef
<1> QED
  BY <1>3, <1>8, <1>9

-------------------------------------------------------------------------------
(* Frames                                                                  *)

LEMMA ChecksumIsSum ==
  ASSUME NEW frame
  PROVE  CalculateChecksum(frame) =
           IF EnableChecksum
           THEN Wrap(frame.length + frame.stream_id + frame.sequence + ByteSum(frame.payload))
           ELSE 0
BY Zenon DEF CalculateChecksum, ByteSum

LEMMA FieldIsValue ==
  ASSUME NEW data, NEW i
  PROVE  FieldAt(data, i) = Value(SubSeq(data, (i - 1) * FieldBytes + 1, i * FieldBytes))
BY Zenon DEF FieldAt, Value

LEMMA WrapIsWord ==
  ASSUME NEW n \in Nat
  PROVE  Wrap(n) \in Word /\ (n \in Word => Wrap(n) = n)
<1>1. Power[FieldBytes] \in Nat \ {0}
  BY PowerDef, CodecAssumption
<1>2. n % Power[FieldBytes] \in 0 .. Power[FieldBytes] - 1
  BY <1>1, DivMod
<1>3. ASSUME n \in Word PROVE n % Power[FieldBytes] = n
  <2>1. n = 0 * Power[FieldBytes] + n /\ n \in 0 .. Power[FieldBytes] - 1 /\ 0 \in Nat
    BY <1>1, <1>3 DEF Word
  <2> QED BY <1>1, <2>1, DivUnique
<1> QED
  BY <1>2, <1>3 DEF Wrap, Word

LEMMA SumIsNat ==
  ASSUME NEW s \in Seq(Byte)
  PROVE  ByteSum(s) \in Nat
<1>1. Byte \subseteq Nat
  BY CodecAssumption DEF Byte
<1>2. s \in Seq(Nat)
  BY <1>1, SeqMonotonic
<1>3. PICK f \in [0 .. Len(s) -> Nat] : f[Len(s)] = ByteSum(s)
  BY <1>2, SumPrefixes
<1> QED
  BY <1>3, LenProperties

\* What a frame is: its length is that of its payload, its checksum the one
\* that serialize computes.
WellFormed(f) ==
    /\ f = [length |-> f.length, stream_id |-> f.stream_id, sequence |-> f.sequence,
            checksum |-> f.checksum, payload |-> f.payload]
    /\ f.length \in Word /\ f.stream_id \in Word /\ f.sequence \in Word
    /\ f.payload \in Seq(Byte) /\ f.length = Len(f.payload)
    /\ f.checksum \in Word /\ f.checksum = CalculateChecksum(f)

LEMMA FramesWellFormed ==
  ASSUME NEW f \in Frames
  PROVE  WellFormed(f)
<1>1. PICK i \in StreamIds, n \in SequenceNumbers, p \in Payloads : f = CreateFrame(i, n, p)
  BY DEF Frames
<1> DEFINE fields == [length |-> Wrap(Len(p)), stream_id |-> i, sequence |-> n,
                      checksum |-> 0, payload |-> p]
           c == CalculateChecksum(fields)
<1>2. /\ i \in Word /\ n \in Word /\ p \in Seq(Byte) /\ Len(p) \in Word /\ Word \subseteq Nat
      /\ 0 \in Word
  BY StreamAssumption, PowerDef, CodecAssumption DEF Word
<1>3. Wrap(Len(p)) = Len(p)
  BY <1>2, WrapIsWord
<1>5. f = [length |-> Len(p), stream_id |-> i, sequence |-> n, checksum |-> c, payload |-> p]
  BY <1>1, <1>3 DEF CreateFrame
<1>6. c \in Word
  <2>1. ByteSum(p) \in Nat
    BY <1>2, SumIsNat
  <2>2. Len(p) + i + n + ByteSum(p) \in Nat
    BY <1>2, <2>1
  <2>3. fields.length = Len(p) /\ fields.stream_id = i /\ fields.sequence = n /\ fields.payload = p
    BY <1>3
  <2>4. c = IF EnableChecksum THEN Wrap(Len(p) + i + n + ByteSum(p)) ELSE 0
    <3> HIDE DEF fields
    <3> QED BY <2>3, ChecksumIsSum
  <2> HIDE DEF c
  <2> QED BY <1>2, <2>2, <2>4, WrapIsWord
<1>7. c = CalculateChecksum(f)
  <2>1. /\ fields.length = f.length /\ fields.stream_id = f.stream_id
        /\ fields.sequence = f.sequence /\ fields.payload = f.payload
    <3> HIDE DEF c
    <3> QED BY <1>3, <1>5
  <2> HIDE DEF fields
  <2> QED BY <2>1, ChecksumIsSum
<1> HIDE DEF c
<1> QED
  BY <1>2, <1>5, <1>6, <1>7 DEF WellFormed

IsJoin(u, s, t, k, m) ==
    /\ u \in Seq(Byte) /\ Len(u) = k + m
    /\ \A i \in 1 .. k : u[i] = s[i]
    /\ \A i \in 1 .. m : u[k + i] = t[i]

LEMMA ConcatJoins ==
  ASSUME NEW s \in Seq(Byte), NEW t \in Seq(Byte), NEW k \in Nat, NEW m \in Nat,
         Len(s) = k, Len(t) = m
  PROVE  IsJoin(s \o t, s, t, k, m)
BY DEF IsJoin

LEMMA SerializeAt ==
  ASSUME NEW f, WellFormed(f)
  PROVE  /\ Serialize(f) \in Seq(Byte) /\ Len(Serialize(f)) = HeaderSize + f.length
         /\ \A i \in 1 .. FieldBytes :
              /\ Serialize(f)[i] = Field(f.length)[i]
              /\ Serialize(f)[FieldBytes + i] = Field(f.stream_id)[i]
              /\ Serialize(f)[2 * FieldBytes + i] = Field(f.sequence)[i]
              /\ Serialize(f)[3 * FieldBytes + i] = Field(f.checksum)[i]
         /\ \A i \in 1 .. f.length : Serialize(f)[HeaderSize + i] = f.payload[i]
<1> DEFINE a == Field(f.length)
           b == Field(f.stream_id)
           c == Field(f.sequence)
           d == Field(f.checksum)
           p == f.payload
           n == FieldBytes
<1>1. n \in Nat /\ f.length \in Nat
  BY CodecAssumption, PowerDef DEF WellFormed, Word
<1>2. /\ a \in Seq(Byte) /\ Len(a) = n /\ b \in Seq(Byte) /\ Len(b) = n
      /\ c \in Seq(Byte) /\ Len(c) = n /\ d \in Seq(Byte) /\ Len(d) = n
      /\ p \in Seq(Byte) /\ Len(p) = f.length
  <2>1. Word \subseteq Nat
    BY PowerDef, CodecAssumption DEF Word
  <2> QED BY <2>1, FieldBytesOf DEF WellFormed
<1>3. Serialize(f) = (((a \o b) \o c) \o d) \o p
  BY DEF Serialize, WellFormed
<1> HIDE DEF a, b, c, d, p, n
<1>4. /\ n \in Nat /\ 2 * n \in Nat /\ 3 * n \in Nat /\ 4 * n \in Nat
      /\ n + n = 2 * n /\ 2 * n + n = 3 * n /\ 3 * n + n = 4 * n
      /\ \A i \in 1 .. n : /\ n + i \in 1 .. 2 * n /\ n + i \in 1 .. 3 * n
                          /\ n + i \in 1 .. 4 * n /\ 2 * n + i \in 1 .. 3 * n
                          /\ 2 * n + i \in 1 .. 4 * n /\ 3 * n + i \in 1 .. 4 * n
                          /\ i \in 1 .. 2 * n /\ i \in 1 .. 3 * n /\ i \in 1 .. 4 * n
  BY <1>1
<1> DEFINE ab == a \o b
           abc == ab \o c
           header == abc \o d
<1>5. IsJoin(ab, a, b, n, n)
  BY <1>1, <1>2, ConcatJoins
<1> HIDE DEF ab
<1>6. IsJoin(abc, ab, c, 2 * n, n)
  <2>1. ab \in Seq(Byte) /\ Len(ab) = 2 * n
    BY <1>4, <1>5 DEF IsJoin
  <2> QED BY <1>2, <1>4, <2>1, ConcatJoins
<1> HIDE DEF abc
<1>7. IsJoin(header, abc, d, 3 * n, n)
  <2>1. abc \in Seq(Byte) /\ Len(abc) = 3 * n
    BY <1>4, <1>6 DEF IsJoin
  <2> QED BY <1>2, <1>4, <2>1, ConcatJoins
<1> HIDE DEF header
<1>8. IsJoin(header \o p, header, p, 4 * n, f.length)
  <2>1. header \in Seq(Byte) /\ Len(header) = 4 * n
    BY <1>4, <1>7 DEF IsJoin
  <2> QED BY <1>1, <1>2, <1>4, <2>1, ConcatJoins
<1>9. \A i \in 1 .. n : /\ (header \o p)[i] = a[i] /\ (header \o p)[n + i] = b[i]
                       /\ (header \o p)[2 * n + i] = c[i] /\ (header \o p)[3 * n + i] = d[i]
  BY <1>4, <1>5, <1>6, <1>7, <1>8 DEF IsJoin
<1>10. Serialize(f) = header \o p
  BY <1>3 DEF header, abc, ab
<1> QED
  BY <1>8, <1>9, <1>10 DEF IsJoin, HeaderSize, a, b, c, d, p, n

\* Data that goes on like a frame for as long as both last.
StartsLike(data, f) ==
    /\ data \in Seq(Byte)
    /\ \A j \in 1 .. Len(data) : j <= Len(Serialize(f)) => data[j] = Serialize(f)[j]

\* The fields are those of the frame as soon as the header is there.
LEMMA HeaderReadBack ==
  ASSUME NEW f, NEW data, WellFormed(f), StartsLike(data, f), Len(data) >= HeaderSize
  PROVE  /\ FieldAt(data, 1) = f.length /\ FieldAt(data, 2) = f.stream_id
         /\ FieldAt(data, 3) = f.sequence /\ FieldAt(data, 4) = f.checksum
<1> DEFINE n == FieldBytes
<1>1. n \in Nat \ {0} /\ f.length \in Nat /\ Word \subseteq Nat /\ Len(data) \in Nat
      /\ \A j \in 1 .. Len(data) : data[j] \in Byte
  BY CodecAssumption, PowerDef, LenProperties, ElementOfSeq DEF WellFormed, Word, StartsLike
<1>2. /\ Len(Serialize(f)) = 4 * n + f.length
      /\ \A i \in 1 .. n :
              /\ Serialize(f)[i] = Field(f.length)[i]
              /\ Serialize(f)[n + i] = Field(f.stream_id)[i]
              /\ Serialize(f)[2 * n + i] = Field(f.sequence)[i]
              /\ Serialize(f)[3 * n + i] = Field(f.checksum)[i]
  BY SerializeAt DEF HeaderSize
<1>3. ASSUME NEW k \in 1 .. 4, NEW v \in Word,
             \A i \in 1 .. n : Serialize(f)[(k - 1) * n + i] = Field(v)[i]
      PROVE  FieldAt(data, k) = v
  <2> DEFINE part == SubSeq(data, (k - 1) * n + 1, k * n)
  <2>1. /\ (k - 1) * n + 1 \in Nat /\ k * n \in Nat /\ k * n = (k - 1) * n + n
        /\ k * n <= 4 * n /\ (k - 1) * n >= 0
    BY <1>1
  <2>2. \A i \in (k - 1) * n + 1 .. k * n : data[i] \in Byte
    BY <1>1, <2>1 DEF HeaderSize
  <2>3. /\ part \in Seq(Byte) /\ Len(part) = n
        /\ \A i \in 1 .. n : part[i] = data[(k - 1) * n + i]
    <3>1. (k - 1) * n + 1 \in Int /\ k * n \in Int
      BY <2>1
    <3>2. /\ part \in Seq(Byte)
          /\ Len(part) = IF (k - 1) * n + 1 <= k * n THEN k * n - ((k - 1) * n + 1) + 1 ELSE 0
          /\ \A i \in 1 .. k * n - ((k - 1) * n + 1) + 1 : part[i] = data[(k - 1) * n + 1 + i - 1]
      BY <2>2, <3>1, SubSeqProperties
    <3> HIDE DEF part
    <3> QED BY <1>1, <2>1, <3>2
  <2>4. \A i \in 1 .. n : data[(k - 1) * n + i] = Serialize(f)[(k - 1) * n + i]
    <3>1. ASSUME NEW i \in 1 .. n
          PROVE  (k - 1) * n + i \in 1 .. Len(data) /\ (k - 1) * n + i <= Len(Serialize(f))
      BY <1>1, <1>2, <2>1 DEF HeaderSize
    <3> QED BY <3>1 DEF StartsLike
  <2>5. /\ Field(v) \in Seq(Byte) /\ Len(Field(v)) = n
    BY <1>1, FieldBytesOf
  <2>6. part = Field(v)
    <3> HIDE DEF part
    <3>1. \A i \in 1 .. n : part[i] = Field(v)[i]
      BY <1>3, <2>3, <2>4
    <3> QED BY <2>3, <2>5, <3>1, SeqEqual
  <2> QED
    BY <2>6, FieldIsValue, ValueOfField
<1>4. f.length \in Word /\ f.stream_id \in Word /\ f.sequence \in Word /\ f.checksum \in Word
  BY DEF WellFormed
<1>5. \A i \in 1 .. n : /\ (1 - 1) * n + i = i /\ (2 - 1) * n + i = n + i
                        /\ (3 - 1) * n + i = 2 * n + i /\ (4 - 1) * n + i = 3 * n + i
  BY <1>1
<1> HIDE DEF n
<1>6. FieldAt(data, 1) = f.length
  BY <1>2, <1>3, <1>4, <1>5
<1>7. FieldAt(data, 2) = f.stream_id
  BY <1>2, <1>3, <1>4, <1>5
<1>8. FieldAt(data, 3) = f.sequence
  BY <1>2, <1>3, <1>4, <1>5
<1>9. FieldAt(data, 4) = f.checksum
  BY <1>2, <1>3, <1>4, <1>5
<1> QED
  BY <1>6, <1>7, <1>8, <1>9

\* A frame is seen exactly when its last byte is there, and is the one written.
LEMMA FrameReadBack ==
  ASSUME NEW f, NEW data, WellFormed(f), StartsLike(data, f)
  PROVE  /\ Len(data) < Len(Serialize(f)) => ~HasFrame(data)
         /\ Len(data) >= Len(Serialize(f)) =>
              /\ HasFrame(data) /\ FrameSize(data) = Len(Serialize(f))
              /\ Deserialize(data) = f
<1>1. /\ Len(data) \in Nat /\ HeaderSize \in Nat /\ f.length \in Nat
      /\ \A j \in 1 .. Len(data) : data[j] \in Byte
      /\ Len(Serialize(f)) = HeaderSize + f.length
      /\ \A i \in 1 .. f.length : Serialize(f)[HeaderSize + i] = f.payload[i]
      /\ f.payload \in Seq(Byte) /\ Len(f.payload) = f.length
  <2>1. HeaderSize \in Nat /\ f.length \in Nat
    BY CodecAssumption, PowerDef DEF WellFormed, Word, HeaderSize
  <2>2. Len(data) \in Nat /\ \A j \in 1 .. Len(data) : data[j] \in Byte
    BY LenProperties, ElementOfSeq DEF StartsLike
  <2>3. f.payload \in Seq(Byte) /\ Len(f.payload) = f.length
    BY DEF WellFormed
  <2> QED BY <2>1, <2>2, <2>3, SerializeAt
<1>2. CASE Len(data) < HeaderSize
  BY <1>1, <1>2 DEF HasFrame
<1>3. CASE Len(data) >= HeaderSize
  <2>1. /\ FieldAt(data, 1) = f.length /\ FieldAt(data, 2) = f.stream_id
        /\ FieldAt(data, 3) = f.sequence /\ FieldAt(data, 4) = f.checksum
    BY <1>3, HeaderReadBack
  <2>2. FrameSize(data) = Len(Serialize(f))
    BY <1>1, <2>1 DEF FrameSize
  <2>3. ASSUME Len(data) >= Len(Serialize(f)) PROVE Deserialize(data) = f
    <3> DEFINE a == HeaderSize + 1
               z == HeaderSize + f.length
               part == SubSeq(data, a, z)
    <3>1. a \in Int /\ z \in Int /\ \A i \in a .. z : data[i] \in Byte
      BY <1>1, <2>3
    <3>2. /\ part \in Seq(Byte) /\ Len(part) = IF a <= z THEN z - a + 1 ELSE 0
          /\ \A i \in 1 .. z - a + 1 : part[i] = data[a + i - 1]
      <4> HIDE DEF a, z
      <4> QED BY <3>1, SubSeqProperties
    <3>3. Len(part) = f.length /\ \A i \in 1 .. f.length : part[i] = data[HeaderSize + i]
      <4> HIDE DEF part
      <4>0. f.length \in Nat /\ HeaderSize \in Nat
        BY <1>1
      <4>1. z - a + 1 = f.length /\ (a <= z <=> f.length >= 1)
        BY <4>0
      <4>2. Len(part) = f.length
        <5>1. Len(part) = IF f.length >= 1 THEN f.length ELSE 0
          <6> HIDE DEF a, z
          <6> QED BY <3>2, <4>1
        <5> QED BY <4>0, <5>1
      <4>3. ASSUME NEW i \in 1 .. f.length PROVE part[i] = data[HeaderSize + i]
        <5>1. a + i - 1 = HeaderSize + i
          BY <4>0
        <5> HIDE DEF a, z
        <5> QED BY <3>2, <4>1, <5>1
      <4> QED BY <4>2, <4>3
    <3>4. ASSUME NEW i \in 1 .. f.length PROVE data[HeaderSize + i] = f.payload[i]
      <4>1. HeaderSize + i \in 1 .. Len(data) /\ HeaderSize + i <= Len(Serialize(f))
        BY <1>1, <2>3
      <4>2. data[HeaderSize + i] = Serialize(f)[HeaderSize + i]
        BY <4>1 DEF StartsLike
      <4> QED BY <1>1, <4>2
    <3>5. part = f.payload
      <4> HIDE DEF part, a, z
      <4>1. \A i \in 1 .. Len(part) : part[i] = f.payload[i]
        BY <3>3, <3>4
      <4> QED BY <1>1, <3>2, <3>3, <4>1, SeqEqual, Zenon
    <3>6. f = [length |-> f.length, stream_id |-> f.stream_id, sequence |-> f.sequence,
               checksum |-> f.checksum, payload |-> f.payload]
      BY DEF WellFormed
    <3> HIDE DEF part
    <3>7. SubSeq(data, HeaderSize + 1, FrameSize(data)) = f.payload
      BY <1>1, <2>2, <3>5 DEF part
    <3> QED BY <2>1, <3>6, <3>7 DEF Deserialize
  <2> QED
    BY <1>1, <1>3, <2>2, <2>3 DEF HasFrame
<1> QED
  BY <1>1, <1>2, <1>3

-------------------------------------------------------------------------------
(* The parser                                                              *)

LEMMA FieldIsNat ==
  ASSUME NEW data \in Seq(Byte), Len(data) >= HeaderSize
  PROVE  FieldAt(data, 1) \in Nat
<1> DEFINE part == SubSeq(data, 1, FieldBytes)
<1>1. /\ FieldBytes \in Nat \ {0} /\ HeaderSize >= FieldBytes /\ Byte \subseteq Nat
      /\ Len(data) \in Nat /\ \A j \in 1 .. Len(data) : data[j] \in Byte
  BY CodecAssumption, LenProperties, ElementOfSeq DEF HeaderSize, Byte
<1>2. \A i \in 1 .. FieldBytes : data[i] \in Nat
  <2>1. HeaderSize \in Nat /\ \A i \in 1 .. FieldBytes : i \in 1 .. Len(data)
    BY <1>1 DEF HeaderSize
  <2> QED BY <1>1, <2>1
<1>3. part \in Seq(Nat)
  BY <1>1, <1>2, SubSeqProperties
<1>4. (1 - 1) * FieldBytes + 1 = 1 /\ 1 * FieldBytes = FieldBytes
  BY <1>1
<1>5. FieldAt(data, 1) = Value(part)
  BY <1>4, FieldIsValue
<1> HIDE DEF part
<1>6. PICK f \in [0 .. Len(part) -> Nat] : f[Len(part)] = Value(part)
  BY <1>3, ValuePrefixes
<1> QED
  BY <1>3, <1>5, <1>6, LenProperties

Rest(data, at) == SubSeq(data, at + 1, Len(data))
NoMore(at) == [frames |-> << >>, bytes_consumed |-> at]
OneMore(data, at, more) == [more EXCEPT !.frames = <<Deserialize(Rest(data, at))>> \o @]

LEMMA RestIs ==
  ASSUME NEW data \in Seq(Byte), NEW at \in 0 .. Len(data)
  PROVE  /\ Rest(data, at) \in Seq(Byte) /\ Len(Rest(data, at)) = Len(data) - at
         /\ \A i \in 1 .. Len(data) - at : Rest(data, at)[i] = data[at + i]
<1>1. Len(data) \in Nat /\ \A j \in 1 .. Len(data) : data[j] \in Byte
  BY LenProperties, ElementOfSeq
<1>2. at + 1 \in Int /\ Len(data) \in Int /\ \A j \in at + 1 .. Len(data) : data[j] \in Byte
  BY <1>1
<1>3. /\ Rest(data, at) \in Seq(Byte)
      /\ Len(Rest(data, at)) = IF at + 1 <= Len(data) THEN Len(data) - (at + 1) + 1 ELSE 0
      /\ \A i \in 1 .. Len(data) - (at + 1) + 1 : Rest(data, at)[i] = data[at + 1 + i - 1]
  BY <1>2, SubSeqProperties DEF Rest
<1>4. Len(Rest(data, at)) = Len(data) - at
  <2>1. Len(data) \in Nat /\ at \in 0 .. Len(data)
    BY <1>1
  <2>2. Len(Rest(data, at)) = IF at + 1 <= Len(data) THEN Len(data) - (at + 1) + 1 ELSE 0
    BY <1>3
  <2>3. CASE at + 1 <= Len(data)
    BY <2>1, <2>2, <2>3
  <2>4. CASE ~(at + 1 <= Len(data))
    BY <2>1, <2>2, <2>4
  <2> QED BY <2>3, <2>4
<1>5. ASSUME NEW i \in 1 .. Len(data) - at PROVE Rest(data, at)[i] = data[at + i]
  <2>1. Len(data) \in Nat /\ at \in 0 .. Len(data)
    BY <1>1
  <2>2. i \in 1 .. Len(data) - (at + 1) + 1 /\ at + 1 + i - 1 = at + i
    BY <2>1
  <2>3. Rest(data, at)[i] = data[at + 1 + i - 1]
    BY <1>3, <2>2
  <2> QED BY <2>2, <2>3
<1> QED
  BY <1>3, <1>4, <1>5

LEMMA FrameInside ==
  ASSUME NEW data \in Seq(Byte), NEW at \in 0 .. Len(data), HasFrame(Rest(data, at))
  PROVE  /\ at + FrameSize(Rest(data, at)) \in 0 .. Len(data)
         /\ FrameSize(Rest(data, at)) \in Nat \ {0}
<1>1. /\ Rest(data, at) \in Seq(Byte) /\ Len(Rest(data, at)) = Len(data) - at
      /\ Len(data) \in Nat
  BY RestIs, LenProperties
<1>2. FieldAt(Rest(data, at), 1) \in Nat
  BY <1>1, FieldIsNat DEF HasFrame
<1>3. HeaderSize \in Nat \ {0}
  BY CodecAssumption DEF HeaderSize
<1> QED
  BY <1>1, <1>2, <1>3 DEF HasFrame, FrameSize

\* A turn of the parser's loop at every place of the data: p[at] is what it finds
\* from there on.
Parses(p, data) ==
    /\ DOMAIN p = 0 .. Len(data)
    /\ \A at \in 0 .. Len(data) :
         p[at] = IF HasFrame(Rest(data, at))
                 THEN OneMore(data, at, p[at + FrameSize(Rest(data, at))])
                 ELSE NoMore(at)

LEMMA ParseExists ==
  ASSUME NEW data \in Seq(Byte)
  PROVE  \E p : p = [at \in 0 .. Len(data) |->
                       IF HasFrame(Rest(data, at))
                       THEN OneMore(data, at, p[at + FrameSize(Rest(data, at))])
                       ELSE NoMore(at)]
<1> DEFINE n == Len(data)
           Turn(p, at) == IF HasFrame(Rest(data, at))
                          THEN OneMore(data, at, p[at + FrameSize(Rest(data, at))])
                          ELSE NoMore(at)
           From(p, m) == \A at \in 0 .. n : at >= m => p[at] = Turn(p, at)
           Good(p, m) == p = [at \in 0 .. n |-> p[at]] /\ From(p, m)
           T == {k \in Nat : k <= n + 1 => \E p : Good(p, n + 1 - k)}
<1>1. n \in Nat
  BY LenProperties
<1>2. 0 \in T
  <2> DEFINE p == [at \in 0 .. n |-> NoMore(at)]
  <2>1. From(p, n + 1 - 0)
    <3> HIDE DEF Turn, p, n
    <3> QED BY <1>1
  <2>2. p = [at \in 0 .. n |-> p[at]]
    OBVIOUS
  <2> HIDE DEF From, p
  <2>3. \E q : Good(q, n + 1 - 0)
    BY <2>1, <2>2
  <2> HIDE DEF Good
  <2> QED BY <2>3
<1>3. ASSUME NEW k \in Nat, k \in T PROVE k + 1 \in T
  <2> SUFFICES ASSUME k + 1 <= n + 1 PROVE \E q : Good(q, n + 1 - (k + 1))
    <3> HIDE DEF Good, n
    <3> QED OBVIOUS
  <2> DEFINE m == n + 1 - (k + 1)
  <2>1. m \in 0 .. n /\ k <= n + 1 /\ n + 1 - k = m + 1
    <3> HIDE DEF n
    <3> QED BY <1>1
  <2>2. PICK p : Good(p, m + 1)
    <3>1. \E p : Good(p, n + 1 - k)
      <4> HIDE DEF Good, n
      <4> QED BY <1>3, <2>1
    <3> HIDE DEF Good, n, m
    <3> QED BY <2>1, <3>1
  <2> DEFINE q == [at \in 0 .. n |-> IF at = m THEN Turn(p, m) ELSE p[at]]
  <2>3. ASSUME NEW at \in 0 .. n, at >= m PROVE Turn(q, at) = Turn(p, at)
    <3>1. CASE HasFrame(Rest(data, at))
      <4>1. /\ at + FrameSize(Rest(data, at)) \in 0 .. n
            /\ FrameSize(Rest(data, at)) \in Nat \ {0}
        BY <3>1, FrameInside
      <4> DEFINE next == at + FrameSize(Rest(data, at))
      <4>2. next \in 0 .. n /\ next # m
        <5> HIDE DEF n, m
        <5> QED BY <1>1, <2>1, <2>3, <4>1
      <4>3. q[next] = p[next]
        <5> HIDE DEF next, Turn, m, n
        <5> QED BY <4>2
      <4> HIDE DEF q
      <4> QED BY <4>3
    <3>2. CASE ~HasFrame(Rest(data, at))
      BY <3>2
    <3> QED BY <3>1, <3>2
  <2>4. ASSUME NEW at \in 0 .. n, at >= m PROVE q[at] = Turn(q, at)
    <3>1. q[at] = Turn(p, at)
      <4>1. at # m => at >= m + 1
        <5> HIDE DEF n, m
        <5> QED BY <1>1, <2>1, <2>4
      <4>2. at # m => p[at] = Turn(p, at)
        <5> HIDE DEF Turn, m, n
        <5> QED BY <2>2, <4>1
      <4> HIDE DEF Turn, m, n
      <4> QED BY <4>2
    <3> HIDE DEF Turn, q, m
    <3> QED BY <2>3, <2>4, <3>1
  <2>5. q = [at \in 0 .. n |-> q[at]]
    <3> HIDE DEF Turn, m
    <3> QED OBVIOUS
  <2> HIDE DEF q, Turn, n
  <2> QED BY <2>4, <2>5
<1>4. Nat \subseteq T
  <2> HIDE DEF T
  <2> QED BY <1>2, <1>3, Induction
<1>5. \E p : Good(p, 0)
  <2> HIDE DEF Good, n
  <2>1. n + 1 \in Nat /\ n + 1 - (n + 1) = 0
    BY <1>1
  <2> QED BY <1>4, <2>1
<1>6. PICK p : Good(p, 0)
  BY <1>5
<1>7. p = [at \in 0 .. n |-> Turn(p, at)]
  <2> HIDE DEF Turn, n
  <2>1. \A at \in 0 .. n : p[at] = Turn(p, at)
    BY <1>1, <1>6
  <2> QED BY <1>6, <2>1
<1> QED
  BY <1>7

LEMMA ParseIs ==
  ASSUME NEW data \in Seq(Byte)
  PROVE  \E p : Parses(p, data) /\ ProcessData(data) = p[0]
<1> DEFINE Is(p) == p = [at \in 0 .. Len(data) |->
                          IF HasFrame(Rest(data, at))
                          THEN OneMore(data, at, p[at + FrameSize(Rest(data, at))])
                          ELSE NoMore(at)]
           P == CHOOSE p : Is(p)
<1>1. \E p : Is(p)
  BY ParseExists, Zenon
<1>2. Is(P)
  <2> HIDE DEF Is
  <2> QED BY <1>1, Zenon
<1>3. ProcessData(data) = P[0]
  BY DEF ProcessData, Rest, OneMore, NoMore
<1> HIDE DEF P
<1> QED
  BY <1>2, <1>3, LenProperties DEF Parses

-------------------------------------------------------------------------------
(* Streams of frames                                                       *)

\* ends[k] is the number of bytes of the first k frames.
Ends(ends, frames) ==
    /\ ends \in [0 .. Len(frames) -> Nat] /\ ends[0] = 0
    /\ \A k \in 1 .. Len(frames) : ends[k] = ends[k - 1] + Len(Serialize(frames[k]))
    /\ ends[Len(frames)] = Len(Stream(frames))

LEMMA WellFormedBytes ==
  ASSUME NEW f, WellFormed(f)
  PROVE  Serialize(f) \in Seq(Byte) /\ Len(Serialize(f)) \in Nat \ {0}
<1>1. HeaderSize \in Nat \ {0} /\ f.length \in Nat
  BY CodecAssumption, PowerDef DEF WellFormed, Word, HeaderSize
<1> QED
  BY <1>1, SerializeAt

LEMMA StreamPrefixIs ==
  ASSUME NEW S, NEW s \in Seq(S), \A x \in S : Serialize(x) \in Seq(Byte),
         NEW f, f[0] = << >>, \A i \in 1 .. Len(s) : f[i] = f[i - 1] \o Serialize(s[i]),
         NEW k \in 0 .. Len(s)
  PROVE  Stream(SubSeq(s, 1, k)) = f[k]
<1> DEFINE t == SubSeq(s, 1, k)
<1>1. Len(s) \in Nat /\ \A i \in 1 .. Len(s) : s[i] \in S
  BY LenProperties, ElementOfSeq
<1>2. t \in Seq(S) /\ Len(t) = k /\ \A i \in 1 .. k : t[i] = s[i]
  <2>1. 1 \in Int /\ k \in Int /\ \A i \in 1 .. k : s[i] \in S
    BY <1>1
  <2>2. /\ t \in Seq(S) /\ Len(t) = IF 1 <= k THEN k - 1 + 1 ELSE 0
        /\ \A i \in 1 .. k - 1 + 1 : t[i] = s[1 + i - 1]
    BY <2>1, SubSeqProperties
  <2> HIDE DEF t
  <2> QED BY <1>1, <2>2
<1> HIDE DEF t
<1>3. PICK g \in [0 .. k -> Seq(Byte)] :
        /\ g[0] = << >> /\ g[k] = Stream(t)
        /\ \A i \in 1 .. k : g[i] = g[i - 1] \o Serialize(t[i])
  BY <1>2, StreamPrefixes
<1> DEFINE T == {i \in Nat : i <= k => g[i] = f[i]}
<1>4. 0 \in T
  BY <1>3
<1>5. ASSUME NEW i \in Nat, i \in T PROVE i + 1 \in T
  <2> SUFFICES ASSUME i + 1 <= k PROVE g[i + 1] = f[i + 1]
    OBVIOUS
  <2>1. i + 1 \in 1 .. k /\ i + 1 \in 1 .. Len(s) /\ (i + 1) - 1 = i /\ i <= k
    BY <1>1
  <2>2. g[i] = f[i] /\ t[i + 1] = s[i + 1]
    BY <1>2, <1>5, <2>1
  <2>3. g[i + 1] = g[i] \o Serialize(t[i + 1]) /\ f[i + 1] = f[i] \o Serialize(s[i + 1])
    BY <1>3, <2>1
  <2> QED BY <2>2, <2>3
<1>6. Nat \subseteq T
  <2> HIDE DEF T
  <2> QED BY <1>4, <1>5, Induction
<1> QED
  BY <1>1, <1>3, <1>6 DEF t

\* One frame more is so many bytes more.
LEMMA StreamAppend ==
  ASSUME NEW S, NEW s \in Seq(S), \A x \in S : Serialize(x) \in Seq(Byte), NEW e \in S
  PROVE  Stream(Append(s, e)) = Stream(s) \o Serialize(e)
<1> DEFINE t == Append(s, e)
           n == Len(s)
<1>1. /\ t \in Seq(S) /\ Len(t) = n + 1 /\ t[n + 1] = e
      /\ \A i \in 1 .. n : t[i] = s[i]
  BY AppendProperties
<1>2. n \in Nat /\ \A i \in 1 .. n : s[i] \in S
  BY LenProperties, ElementOfSeq
<1>3. SubSeq(t, 1, n) = s
  <2>1. 1 \in Int /\ n \in Int /\ \A i \in 1 .. n : t[i] \in S
    BY <1>1, <1>2
  <2> DEFINE u == SubSeq(t, 1, n)
  <2>2. /\ u \in Seq(S) /\ Len(u) = IF 1 <= n THEN n - 1 + 1 ELSE 0
        /\ \A i \in 1 .. n - 1 + 1 : u[i] = t[1 + i - 1]
    <3> HIDE DEF t, n
    <3> QED BY <2>1, SubSeqProperties
  <2> HIDE DEF u, t
  <2>3. Len(u) = n /\ \A i \in 1 .. n : u[i] = s[i]
    <3> HIDE DEF n
    <3> QED BY <1>1, <1>2, <2>2
  <2>4. u = s
    BY <2>2, <2>3, SeqEqual
  <2> QED BY <2>4 DEF u
<1> HIDE DEF t, n
<1>4. PICK f \in [0 .. n + 1 -> Seq(Byte)] :
        /\ f[0] = << >> /\ f[n + 1] = Stream(t)
        /\ \A i \in 1 .. n + 1 : f[i] = f[i - 1] \o Serialize(t[i])
  <2>1. \E f \in [0 .. Len(t) -> Seq(Byte)] :
           /\ f[0] = << >> /\ f[Len(t)] = Stream(t)
           /\ \A i \in 1 .. Len(t) : f[i] = f[i - 1] \o Serialize(t[i])
    BY <1>1, StreamPrefixes
  <2>2. Len(t) = n + 1
    BY <1>1
  <2> QED BY <2>1, <2>2, Zenon
<1>5. n \in 0 .. Len(t) /\ n + 1 \in 1 .. n + 1 /\ (n + 1) - 1 = n
  BY <1>1, <1>2
<1>6. Stream(SubSeq(t, 1, n)) = f[n]
  <2>1. f[0] = << >> /\ \A i \in 1 .. Len(t) : f[i] = f[i - 1] \o Serialize(t[i])
    BY <1>1, <1>4, Zenon
  <2>2. t \in Seq(S) /\ n \in 0 .. Len(t)
    BY <1>1, <1>5
  <2> QED BY <2>1, <2>2, StreamPrefixIs
<1>7. f[n + 1] = f[n] \o Serialize(t[n + 1])
  BY <1>4, <1>5
<1> QED
  BY <1>1, <1>3, <1>4, <1>6, <1>7 DEF t

\* A stream: where the frames end in it, and what lies between.
StreamOf(ends, frames) ==
    /\ Stream(frames) \in Seq(Byte)
    /\ Ends(ends, frames)
    /\ \A j, k \in 0 .. Len(frames) : j <= k => ends[j] <= ends[k]
    /\ \A k \in 1 .. Len(frames) : \A i \in 1 .. Len(Serialize(frames[k])) :
         Stream(frames)[ends[k - 1] + i] = Serialize(frames[k])[i]
    /\ \A k \in 0 .. Len(frames) :
         /\ Stream(SubSeq(frames, 1, k)) \in Seq(Byte)
         /\ Len(Stream(SubSeq(frames, 1, k))) = ends[k]
         /\ \A i \in 1 .. ends[k] : Stream(SubSeq(frames, 1, k))[i] = Stream(frames)[i]

LEMMA StreamIs ==
  ASSUME NEW S, NEW frames \in Seq(S), \A f \in S : WellFormed(f)
  PROVE  \E ends : StreamOf(ends, frames)
<1> DEFINE n == Len(frames)
           size(k) == Len(Serialize(frames[k]))
<1>1. n \in Nat /\ \A k \in 1 .. n : WellFormed(frames[k])
  BY LenProperties, ElementOfSeq
<1>2. \A k \in 1 .. n : Serialize(frames[k]) \in Seq(Byte) /\ size(k) \in Nat
  BY <1>1, WellFormedBytes
<1>3. PICK f \in [0 .. n -> Seq(Byte)] :
        /\ f[0] = << >> /\ f[n] = Stream(frames)
        /\ \A k \in 1 .. n : f[k] = f[k - 1] \o Serialize(frames[k])
  BY WellFormedBytes, StreamPrefixes
<1> DEFINE ends == [k \in 0 .. n |-> Len(f[k])]
<1> HIDE DEF n
<1>4. \A k \in 0 .. n : f[k] \in Seq(Byte) /\ Len(f[k]) \in Nat /\ ends[k] = Len(f[k])
  BY <1>3, LenProperties
<1>5. ASSUME NEW k \in 1 .. n
      PROVE  /\ IsJoin(f[k], f[k - 1], Serialize(frames[k]), ends[k - 1], size(k))
             /\ ends[k] = ends[k - 1] + size(k) /\ k - 1 \in 0 .. n /\ k \in 0 .. n
  <2>1. k - 1 \in 0 .. n /\ k \in 0 .. n
    BY <1>1
  <2>2. /\ f[k - 1] \in Seq(Byte) /\ ends[k - 1] \in Nat /\ Len(f[k - 1]) = ends[k - 1]
        /\ Serialize(frames[k]) \in Seq(Byte) /\ size(k) \in Nat
    BY <1>2, <1>4, <2>1
  <2>3. IsJoin(f[k - 1] \o Serialize(frames[k]), f[k - 1], Serialize(frames[k]), ends[k - 1], size(k))
    <3> HIDE DEF ends
    <3> QED BY <2>2, ConcatJoins
  <2>4. IsJoin(f[k], f[k - 1], Serialize(frames[k]), ends[k - 1], size(k))
    BY <1>3, <2>3
  <2>5. ends[k] = ends[k - 1] + size(k)
    <3> HIDE DEF ends, size
    <3> QED BY <1>4, <2>1, <2>4 DEF IsJoin
  <2> QED BY <2>1, <2>4, <2>5
<1>6. Ends(ends, frames)
  <2>1. ends[0] = 0
    BY <1>1, <1>3
  <2>2. ends[n] = Len(Stream(frames))
    BY <1>1, <1>3
  <2>3. ends \in [0 .. n -> Nat]
    BY <1>4
  <2> HIDE DEF ends
  <2> QED BY <1>5, <2>1, <2>2, <2>3 DEF Ends, n
<1> HIDE DEF ends, size
<1>7. ASSUME NEW j \in 0 .. n
      PROVE  \A k \in 0 .. n : j <= k =>
               /\ ends[j] <= ends[k]
               /\ \A i \in 1 .. ends[j] : f[k][i] = f[j][i]
  <2> DEFINE P(k) == /\ ends[j] <= ends[k]
                     /\ \A i \in 1 .. ends[j] : f[k][i] = f[j][i]
             T == {d \in Nat : j + d <= n => P(j + d)}
  <2>1. ends[j] \in Nat
    BY <1>4
  <2>2. 0 \in T
    BY <1>1, <2>1
  <2>3. ASSUME NEW d \in Nat, d \in T PROVE d + 1 \in T
    <3> SUFFICES ASSUME j + (d + 1) <= n PROVE P(j + (d + 1))
      OBVIOUS
    <3>1. j + (d + 1) \in 1 .. n /\ (j + (d + 1)) - 1 = j + d /\ j + d \in 0 .. n /\ j + d <= n
      BY <1>1
    <3>2. P(j + d)
      BY <2>3, <3>1
    <3>3. /\ IsJoin(f[j + (d + 1)], f[j + d], Serialize(frames[j + (d + 1)]),
                    ends[j + d], size(j + (d + 1)))
          /\ ends[j + (d + 1)] = ends[j + d] + size(j + (d + 1))
      BY <1>5, <3>1
    <3>4. ends[j + d] \in Nat /\ size(j + (d + 1)) \in Nat
      BY <1>2, <1>4, <3>1 DEF size
    <3> DEFINE e == ends[j + d]
               w == size(j + (d + 1))
               u == f[j + (d + 1)]
               v == f[j + d]
    <3>5. \A i \in 1 .. e : u[i] = v[i]
      BY <3>3 DEF IsJoin
    <3>6. ends[j] <= e /\ \A i \in 1 .. ends[j] : v[i] = f[j][i]
      BY <3>2
    <3> HIDE DEF e, w, u, v
    <3>7. ends[j] <= e + w /\ \A i \in 1 .. ends[j] : u[i] = f[j][i]
      BY <2>1, <3>4, <3>5, <3>6 DEF e, w
    <3> QED BY <3>3, <3>7 DEF e, w, u
  <2>4. Nat \subseteq T
    <3> HIDE DEF T
    <3> QED BY <2>2, <2>3, Induction
  <2>5. ASSUME NEW k \in 0 .. n, j <= k PROVE P(k)
    <3>1. k - j \in Nat /\ j + (k - j) = k /\ k <= n
      BY <1>1, <2>5
    <3>2. j + (k - j) <= n => P(j + (k - j))
      BY <2>4, <3>1
    <3> HIDE DEF P
    <3> QED BY <3>1, <3>2
  <2> QED BY <2>5
<1>8. ASSUME NEW k \in 1 .. n, NEW i \in 1 .. size(k)
      PROVE  Stream(frames)[ends[k - 1] + i] = Serialize(frames[k])[i]
  <2>1. /\ ends[k] = ends[k - 1] + size(k) /\ ends[k - 1] \in Nat /\ size(k) \in Nat
        /\ f[k][ends[k - 1] + i] = Serialize(frames[k])[i] /\ k \in 0 .. n
    <3>1. k - 1 \in 0 .. n /\ k \in 0 .. n
      BY <1>1
    <3> QED BY <1>2, <1>4, <1>5, <3>1 DEF IsJoin, size
  <2>2. n \in 0 .. n /\ k <= n
    BY <1>1
  <2>3. ends[k - 1] + i \in 1 .. ends[k]
    BY <2>1
  <2>4. f[n][ends[k - 1] + i] = f[k][ends[k - 1] + i]
    BY <1>7, <2>1, <2>2, <2>3
  <2> QED BY <1>3, <2>1, <2>4
<1>9. Stream(frames) \in Seq(Byte)
  BY <1>1, <1>3, <1>4
<1>10. \A j, k \in 0 .. n : j <= k => ends[j] <= ends[k]
  BY <1>7
<1>11. ASSUME NEW k \in 0 .. n
       PROVE  /\ Stream(SubSeq(frames, 1, k)) \in Seq(Byte)
              /\ Len(Stream(SubSeq(frames, 1, k))) = ends[k]
              /\ \A i \in 1 .. ends[k] : Stream(SubSeq(frames, 1, k))[i] = Stream(frames)[i]
  <2>1. \A x \in S : Serialize(x) \in Seq(Byte)
    BY WellFormedBytes
  <2>2. Stream(SubSeq(frames, 1, k)) = f[k]
    BY <1>3, <2>1, StreamPrefixIs DEF n
  <2>3. n \in 0 .. n /\ k <= n
    BY <1>1
  <2> QED BY <1>3, <1>4, <1>7, <2>2, <2>3
<1>12. StreamOf(ends, frames)
  BY <1>6, <1>8, <1>9, <1>10, <1>11 DEF StreamOf, n, size
<1> QED
  BY <1>12

\* Data that is a piece of the stream from the end of the n-th frame on.
PieceOf(data, frames, ends, n) ==
    /\ data \in Seq(Byte) /\ n \in 0 .. Len(frames)
    /\ ends[n] + Len(data) <= ends[Len(frames)]
    /\ \A j \in 1 .. Len(data) : data[j] = Stream(frames)[ends[n] + j]

LEMMA RestStartsLike ==
  ASSUME NEW S, NEW frames \in Seq(S), \A f \in S : WellFormed(f),
         NEW ends, StreamOf(ends, frames), NEW data, NEW n, PieceOf(data, frames, ends, n),
         NEW k \in n .. Len(frames) - 1, ends[k] - ends[n] <= Len(data)
  PROVE  /\ WellFormed(frames[k + 1])
         /\ ends[k] - ends[n] \in 0 .. Len(data)
         /\ StartsLike(Rest(data, ends[k] - ends[n]), frames[k + 1])
<1> DEFINE d == Len(data)
           at == ends[k] - ends[n]
           f == frames[k + 1]
           size == Len(Serialize(f))
<1>1. /\ Len(frames) \in Nat /\ n \in 0 .. Len(frames) /\ k \in 0 .. Len(frames)
      /\ k + 1 \in 1 .. Len(frames) /\ (k + 1) - 1 = k /\ n <= k
      /\ data \in Seq(Byte) /\ d \in Nat
  BY LenProperties DEF PieceOf
<1>2. WellFormed(f)
  BY <1>1, ElementOfSeq
<1>3. ends[n] \in Nat /\ ends[k] \in Nat /\ ends[n] <= ends[k] /\ size \in Nat
  BY <1>1, <1>2, WellFormedBytes DEF StreamOf, Ends
<1>4. \A i \in 1 .. size : Stream(frames)[ends[k] + i] = Serialize(f)[i]
  <2>1. \A i \in 1 .. Len(Serialize(frames[k + 1])) :
           Stream(frames)[ends[(k + 1) - 1] + i] = Serialize(frames[k + 1])[i]
    BY <1>1 DEF StreamOf
  <2> QED BY <1>1, <2>1
<1>5. at \in 0 .. d
  <2> HIDE DEF d
  <2> QED BY <1>1, <1>3 DEF d
<1>6. /\ Rest(data, at) \in Seq(Byte) /\ Len(Rest(data, at)) = d - at
      /\ \A i \in 1 .. d - at : Rest(data, at)[i] = data[at + i]
  <2> HIDE DEF at
  <2> QED BY <1>1, <1>5, RestIs
<1>7. ASSUME NEW i \in 1 .. d - at, i <= size PROVE Rest(data, at)[i] = Serialize(f)[i]
  <2>1. at + i \in 1 .. d /\ ends[n] + (at + i) = ends[k] + i /\ i \in 1 .. size
    <3>1. at \in Int /\ ends[n] + at = ends[k]
      BY <1>3
    <3>2. i \in Nat \ {0} /\ i <= d - at
      <4> HIDE DEF d, at
      <4> QED BY <1>1, <3>1
    <3> HIDE DEF d, size, at
    <3> QED BY <1>1, <1>3, <1>5, <1>7, <3>1, <3>2
  <2>2. data[at + i] = Stream(frames)[ends[n] + (at + i)]
    <3> HIDE DEF at
    <3> QED BY <2>1 DEF PieceOf
  <2> HIDE DEF at, size, f, d
  <2> QED BY <1>4, <1>6, <1>7, <2>1, <2>2
<1> HIDE DEF at, f, d
<1>8. StartsLike(Rest(data, at), f)
  BY <1>6, <1>7 DEF StartsLike
<1> QED
  BY <1>2, <1>5, <1>8 DEF at, f, d

\* What the parser makes of it: the frames that are whole.
Whole(data, frames, ends, n, m) ==
    /\ m \in n .. Len(frames) /\ ends[m] - ends[n] <= Len(data)
    /\ m < Len(frames) => ends[m + 1] - ends[n] > Len(data)

LEMMA WholeExists ==
  ASSUME NEW S, NEW frames \in Seq(S), NEW ends, StreamOf(ends, frames),
         NEW data, NEW n, PieceOf(data, frames, ends, n)
  PROVE  \E m : Whole(data, frames, ends, n, m)
<1> DEFINE T == {m \in Nat : /\ m \in n .. Len(frames)
                             /\ m = Len(frames) \/ ends[m + 1] - ends[n] > Len(data)}
<1>1. /\ Len(frames) \in Nat /\ n \in 0 .. Len(frames) /\ Len(data) \in Nat
      /\ \A k \in 0 .. Len(frames) : ends[k] \in Nat
  BY LenProperties DEF PieceOf, StreamOf, Ends
<1>2. Len(frames) \in T
  BY <1>1
<1>3. PICK m \in T : \A k \in T : m <= k
  <2> HIDE DEF T
  <2>1. T \in SUBSET Nat
    BY DEF T
  <2> QED BY <1>2, <2>1, Least
<1>4. ends[m] - ends[n] <= Len(data)
  <2>1. CASE m = n
    BY <1>1, <2>1
  <2>2. CASE m # n
    <3>1. m - 1 \in n .. Len(frames) /\ m - 1 \in Nat /\ m - 1 # Len(frames) /\ m - 1 \notin T
      BY <1>1, <1>3, <2>2
    <3>2. ~(ends[(m - 1) + 1] - ends[n] > Len(data)) /\ (m - 1) + 1 = m
      BY <1>1, <1>3, <3>1
    <3>3. ends[m] \in Nat /\ ends[n] \in Nat
      BY <1>1, <1>3
    <3> QED BY <1>1, <3>2, <3>3
  <2> QED BY <2>1, <2>2
<1> QED
  BY <1>1, <1>3, <1>4 DEF Whole

LEMMA ParsePiece ==
  ASSUME NEW S, NEW frames \in Seq(S), \A f \in S : WellFormed(f),
         NEW ends, StreamOf(ends, frames), NEW data, NEW n, PieceOf(data, frames, ends, n),
         NEW m, Whole(data, frames, ends, n, m)
  PROVE  ProcessData(data) = [frames |-> SubSeq(frames, n + 1, m),
                              bytes_consumed |-> ends[m] - ends[n]]
<1> DEFINE d == Len(data)
           at(k) == ends[k] - ends[n]
           found(k) == [frames |-> SubSeq(frames, k + 1, m), bytes_consumed |-> at(m)]
<1>1. /\ Len(frames) \in Nat /\ n \in 0 .. Len(frames) /\ m \in n .. Len(frames)
      /\ data \in Seq(Byte) /\ d \in Nat
      /\ \A k \in 0 .. Len(frames) : ends[k] \in Nat
      /\ \A j, k \in 0 .. Len(frames) : j <= k => ends[j] <= ends[k]
      /\ \A k \in 1 .. Len(frames) : ends[k] = ends[k - 1] + Len(Serialize(frames[k]))
  BY LenProperties DEF PieceOf, StreamOf, Ends, Whole
<1>2. PICK p : Parses(p, data) /\ ProcessData(data) = p[0]
  BY <1>1, ParseIs
<1>3. HeaderSize \in Nat \ {0}
  BY CodecAssumption DEF HeaderSize
<1>4. ASSUME NEW k \in n .. m
      PROVE  k \in 0 .. Len(frames) /\ at(k) \in 0 .. d
  <2>1. /\ k \in 0 .. Len(frames) /\ n <= k /\ k <= m /\ m \in 0 .. Len(frames)
        /\ ends[m] - ends[n] <= d
    BY <1>1 DEF Whole
  <2>2. ends[n] <= ends[k] /\ ends[k] <= ends[m] /\ ends[n] \in Nat /\ ends[k] \in Nat /\ ends[m] \in Nat
    BY <1>1, <2>1
  <2> HIDE DEF d
  <2> QED BY <1>1, <2>1, <2>2
<1>5. p[at(m)] = found(m)
  <2>1. m \in n .. m /\ m \in 0 .. Len(frames)
    BY <1>1
  <2>2. at(m) \in 0 .. d
    BY <1>4, <2>1
  <2>3. Rest(data, at(m)) \in Seq(Byte) /\ Len(Rest(data, at(m))) = d - at(m)
    <3> HIDE DEF at
    <3> QED BY <1>1, <2>2, RestIs
  <2>4. ~HasFrame(Rest(data, at(m)))
    <3>1. CASE m = Len(frames)
      <4>1. d - at(m) = 0
        <5>1. ends[n] + d <= ends[m] /\ ends[n] \in Nat /\ ends[m] \in Nat
          BY <1>1, <3>1 DEF PieceOf
        <5> HIDE DEF d
        <5> QED BY <1>1, <2>2, <5>1
      <4> QED BY <1>3, <2>3, <4>1 DEF HasFrame
    <3>2. CASE m # Len(frames)
      <4>1. m \in n .. Len(frames) - 1 /\ m + 1 \in 1 .. Len(frames) /\ (m + 1) - 1 = m
            /\ m + 1 \in 0 .. Len(frames) /\ ends[m] - ends[n] <= Len(data)
        BY <1>1, <3>2 DEF Whole
      <4>2. WellFormed(frames[m + 1]) /\ StartsLike(Rest(data, at(m)), frames[m + 1])
        BY <4>1, RestStartsLike
      <4>3. ends[m + 1] - ends[n] > d /\ ends[m + 1] = ends[m] + Len(Serialize(frames[m + 1]))
        BY <1>1, <3>2, <4>1 DEF Whole
      <4>4. Len(Rest(data, at(m))) < Len(Serialize(frames[m + 1]))
        <5>1. ends[m] \in Nat /\ ends[n] \in Nat /\ Len(Serialize(frames[m + 1])) \in Nat
          BY <1>1, <2>1, <4>2, WellFormedBytes
        <5> HIDE DEF d
        <5> QED BY <1>1, <2>3, <4>3, <5>1
      <4> HIDE DEF at
      <4> QED BY <4>2, <4>4, FrameReadBack
    <3> QED BY <3>1, <3>2
  <2>5. SubSeq(frames, m + 1, m) = << >>
    BY <1>1, SubSeqEmpty
  <2>6. p[at(m)] = NoMore(at(m))
    <3> HIDE DEF at
    <3> QED BY <1>2, <2>2, <2>4 DEF Parses
  <2> HIDE DEF at
  <2> QED BY <2>5, <2>6 DEF NoMore
<1>6. ASSUME NEW k \in n .. m - 1, p[at(k + 1)] = found(k + 1)
      PROVE  p[at(k)] = found(k)
  <2>1. /\ k \in n .. m /\ k \in n .. Len(frames) - 1 /\ k + 1 \in n .. m
        /\ k + 1 \in 1 .. Len(frames) /\ (k + 1) - 1 = k /\ k \in 0 .. Len(frames)
        /\ k + 1 \in 1 .. m /\ m \in k + 1 .. Len(frames)
    BY <1>1
  <2>2. at(k) \in 0 .. d /\ at(k + 1) \in 0 .. d
    BY <1>4, <2>1
  <2>3. Rest(data, at(k)) \in Seq(Byte) /\ Len(Rest(data, at(k))) = d - at(k)
    <3> HIDE DEF at
    <3> QED BY <1>1, <2>2, RestIs
  <2>4. WellFormed(frames[k + 1]) /\ StartsLike(Rest(data, at(k)), frames[k + 1])
    <3>1. ends[k] - ends[n] <= Len(data)
      BY <1>1, <2>2
    <3> QED BY <2>1, <3>1, RestStartsLike
  <2>5. at(k + 1) = at(k) + Len(Serialize(frames[k + 1]))
    <3>1. /\ ends[k + 1] = ends[k] + Len(Serialize(frames[k + 1]))
          /\ ends[k] \in Nat /\ ends[n] \in Nat /\ Len(Serialize(frames[k + 1])) \in Nat
      BY <1>1, <2>1, <2>4, WellFormedBytes
    <3> QED BY <3>1
  <2>6. Len(Rest(data, at(k))) >= Len(Serialize(frames[k + 1]))
    <3>1. Len(Serialize(frames[k + 1])) \in Nat
      BY <2>4, WellFormedBytes
    <3> HIDE DEF at, d
    <3> QED BY <1>1, <2>2, <2>3, <2>5, <3>1
  <2>7. /\ HasFrame(Rest(data, at(k)))
        /\ FrameSize(Rest(data, at(k))) = Len(Serialize(frames[k + 1]))
        /\ Deserialize(Rest(data, at(k))) = frames[k + 1]
    <3> HIDE DEF at
    <3> QED BY <2>4, <2>6, FrameReadBack
  <2>8. p[at(k)] = OneMore(data, at(k), found(k + 1))
    <3>1. p[at(k)] = OneMore(data, at(k), p[at(k) + FrameSize(Rest(data, at(k)))])
      <4> HIDE DEF at
      <4> QED BY <1>2, <2>2, <2>7 DEF Parses
    <3> HIDE DEF at, found
    <3> QED BY <1>6, <2>5, <2>7, <3>1
  <2>9. <<frames[k + 1]>> \o SubSeq(frames, (k + 1) + 1, m) = SubSeq(frames, k + 1, m)
    <3>1. k + 1 \in 1 .. Len(frames) /\ m \in k + 1 .. Len(frames)
      BY <2>1
    <3> QED BY <3>1, SubSeqRecursiveFirst
  <2>10. OneMore(data, at(k), found(k + 1))
           = [frames |-> <<frames[k + 1]>> \o SubSeq(frames, (k + 1) + 1, m),
              bytes_consumed |-> at(m)]
    <3> DEFINE old == SubSeq(frames, (k + 1) + 1, m)
               new == <<frames[k + 1]>> \o old
               r == found(k + 1)
    <3>1. r = [frames |-> old, bytes_consumed |-> at(m)] /\ r.frames = old
      <4> HIDE DEF at
      <4> QED OBVIOUS
    <3>2. OneMore(data, at(k), r) = [r EXCEPT !.frames = new]
      <4> HIDE DEF at, r, old
      <4> QED BY <2>7, <3>1 DEF OneMore
    <3> HIDE DEF at, old, new
    <3>3. [r EXCEPT !.frames = new] = [frames |-> new, bytes_consumed |-> at(m)]
      OBVIOUS
    <3> QED BY <3>2, <3>3 DEF new, old
  <2> HIDE DEF at
  <2> QED BY <2>8, <2>9, <2>10
<1>7. \A j \in 0 .. m - n : p[at(m - j)] = found(m - j)
  <2> DEFINE T == {j \in Nat : j <= m - n => p[at(m - j)] = found(m - j)}
  <2> HIDE DEF at, found
  <2>1. 0 \in T
    BY <1>1, <1>5
  <2>2. ASSUME NEW j \in Nat, j \in T PROVE j + 1 \in T
    <3> SUFFICES ASSUME j + 1 <= m - n PROVE p[at(m - (j + 1))] = found(m - (j + 1))
      OBVIOUS
    <3>1. m - (j + 1) \in n .. m - 1 /\ (m - (j + 1)) + 1 = m - j /\ j <= m - n
      BY <1>1
    <3> QED BY <1>6, <2>2, <3>1
  <2>3. Nat \subseteq T
    <3> HIDE DEF T
    <3> QED BY <2>1, <2>2, Induction
  <2> QED BY <1>1, <2>3
<1>8. p[at(n)] = found(n)
  <2>1. m - n \in 0 .. m - n /\ m - (m - n) = n
    BY <1>1
  <2> HIDE DEF at, found
  <2> QED BY <1>7, <2>1
<1>9. at(n) = 0
  BY <1>1
<1> QED
  BY <1>2, <1>8, <1>9

-------------------------------------------------------------------------------
(* The invariant of FrameStream                                            *)

\* ParsedExactly as a relation of values, so that it can be stated of either
\* state of a step.
Tracks(s, p, b, buffer, d) ==
    LET n == Len(d)
        arrived == Stream(SubSeq(s, 1, n)) \o buffer
    IN /\ n <= Len(s) /\ d = SubSeq(s, 1, n)
       /\ IsPrefix(arrived \o p, Stream(SubSeq(s, 1, Len(s))))
       /\ ~b => arrived \o p = Stream(SubSeq(s, 1, Len(s)))
       /\ n < Len(s) => Len(arrived) < Len(Stream(SubSeq(s, 1, n + 1)))

\* The same byte by byte.
AtPlace(ends, s, p, b, buffer, n) ==
    LET z == ends[n] + Len(buffer) + Len(p)
    IN /\ z <= ends[Len(s)] /\ (~b => z = ends[Len(s)])
       /\ \A i \in 1 .. Len(buffer) : buffer[i] = Stream(s)[ends[n] + i]
       /\ \A i \in 1 .. Len(p) : p[i] = Stream(s)[ends[n] + Len(buffer) + i]
       /\ n < Len(s) => ends[n] + Len(buffer) < ends[n + 1]

\* x begins like all and goes on with u and v.
InParts(x, all, u, v, e, m, k) ==
    /\ \A i \in 1 .. e : x[i] = all[i]
    /\ \A i \in 1 .. m : x[e + i] = u[i]
    /\ \A i \in 1 .. k : x[e + m + i] = v[i]

AgreeByPart(x, all, u, v, e, m, k) ==
    (\A i \in 1 .. e + m + k : x[i] = all[i])
      <=> /\ \A i \in 1 .. m : u[i] = all[e + i]
          /\ \A i \in 1 .. k : v[i] = all[e + m + i]

LEMMA ThreeParts ==
  ASSUME NEW e \in Nat, NEW m \in Nat, NEW k \in Nat, NEW x, NEW all, NEW u, NEW v,
         InParts(x, all, u, v, e, m, k)
  PROVE  AgreeByPart(x, all, u, v, e, m, k)
<1> USE DEF InParts, AgreeByPart
<1>1. ASSUME NEW i \in 1 .. e + m + k
      PROVE  \/ i \in 1 .. e
             \/ i - e \in 1 .. m /\ i = e + (i - e)
             \/ i - (e + m) \in 1 .. k /\ i = e + m + (i - (e + m))
  OBVIOUS
<1>2. /\ \A i \in 1 .. m : e + i \in 1 .. e + m + k
      /\ \A i \in 1 .. k : e + m + i \in 1 .. e + m + k
  OBVIOUS
<1>3. ASSUME \A i \in 1 .. m : u[i] = all[e + i],
             \A i \in 1 .. k : v[i] = all[e + m + i],
             NEW i \in 1 .. e + m + k
      PROVE  x[i] = all[i]
  BY <1>1, <1>3
<1> QED
  BY <1>2, <1>3

LEMMA TracksIsAtPlace ==
  ASSUME NEW S, NEW s \in Seq(S), NEW d \in Seq(S), NEW p \in Seq(Byte), NEW b \in BOOLEAN,
         NEW buffer \in Seq(Byte), NEW ends, StreamOf(ends, s)
  PROVE  Tracks(s, p, b, buffer, d)
           <=> /\ Len(d) <= Len(s) /\ d = SubSeq(s, 1, Len(d))
               /\ AtPlace(ends, s, p, b, buffer, Len(d))
<1> DEFINE n == Len(d)
           head == Stream(SubSeq(s, 1, n))
           all == Stream(s)
           arrived == head \o buffer
           z == ends[n] + Len(buffer) + Len(p)
<1>1. /\ Len(s) \in Nat /\ n \in Nat /\ Len(p) \in Nat /\ Len(buffer) \in Nat
      /\ SubSeq(s, 1, Len(s)) = s
  BY LenProperties, SubSeqFull
<1> SUFFICES ASSUME n <= Len(s)
             PROVE  Tracks(s, p, b, buffer, d)
                      <=> d = SubSeq(s, 1, n) /\ AtPlace(ends, s, p, b, buffer, n)
  BY DEF Tracks
<1>2. /\ n \in 0 .. Len(s) /\ Len(s) \in 0 .. Len(s)
      /\ n < Len(s) => n + 1 \in 0 .. Len(s)
  BY <1>1
<1>3. /\ head \in Seq(Byte) /\ Len(head) = ends[n] /\ ends[n] \in Nat
      /\ \A i \in 1 .. ends[n] : head[i] = all[i]
      /\ all \in Seq(Byte) /\ Len(all) = ends[Len(s)] /\ ends[Len(s)] \in Nat
      /\ n < Len(s) => Len(Stream(SubSeq(s, 1, n + 1))) = ends[n + 1]
      /\ ends[n] <= ends[Len(s)]
  BY <1>1, <1>2 DEF StreamOf, Ends
<1> HIDE DEF head, all, n
<1>4. IsJoin(arrived, head, buffer, ends[n], Len(buffer))
  BY <1>1, <1>3, ConcatJoins
<1> HIDE DEF arrived
<1>5. IsJoin(arrived \o p, arrived, p, ends[n] + Len(buffer), Len(p))
  <2>1. arrived \in Seq(Byte) /\ Len(arrived) = ends[n] + Len(buffer)
    BY <1>4 DEF IsJoin
  <2>2. ends[n] + Len(buffer) \in Nat
    BY <1>1, <1>3
  <2> QED BY <1>1, <2>1, <2>2, ConcatJoins
<1> DEFINE x == arrived \o p
<1> HIDE DEF x
<1>6. /\ x \in Seq(Byte) /\ Len(x) = z
      /\ \A i \in 1 .. ends[n] : x[i] = all[i]
      /\ \A i \in 1 .. Len(buffer) : x[ends[n] + i] = buffer[i]
      /\ \A i \in 1 .. Len(p) : x[ends[n] + Len(buffer) + i] = p[i]
  <2>1. /\ x \in Seq(Byte) /\ Len(x) = z
        /\ \A i \in 1 .. ends[n] + Len(buffer) : x[i] = arrived[i]
        /\ \A i \in 1 .. Len(p) : x[ends[n] + Len(buffer) + i] = p[i]
    BY <1>5 DEF IsJoin, x
  <2>2. /\ \A i \in 1 .. ends[n] : arrived[i] = head[i]
        /\ \A i \in 1 .. Len(buffer) : arrived[ends[n] + i] = buffer[i]
    BY <1>4 DEF IsJoin
  <2>3. /\ \A i \in 1 .. ends[n] : i \in 1 .. ends[n] + Len(buffer)
        /\ \A i \in 1 .. Len(buffer) : ends[n] + i \in 1 .. ends[n] + Len(buffer)
    <3>1. ends[n] \in Nat /\ Len(buffer) \in Nat
      BY <1>1, <1>3
    <3> QED BY <3>1
  <2> QED BY <1>3, <2>1, <2>2, <2>3
<1>7. z \in Nat
  BY <1>1, <1>3
<1>8. IsPrefix(x, all) <=> z <= ends[Len(s)] /\ \A i \in 1 .. z : x[i] = all[i]
  <2>1. SubSeq(x, 1, Len(x)) = x
    BY <1>6, SubSeqFull
  <2> DEFINE y == SubSeq(all, 1, z)
  <2>2. ASSUME z <= ends[Len(s)]
        PROVE  y \in Seq(Byte) /\ Len(y) = z /\ \A i \in 1 .. z : y[i] = all[i]
    <3> HIDE DEF z
    <3>1. 1 \in Int /\ z \in Int /\ \A i \in 1 .. z : all[i] \in Byte
      BY <1>3, <1>7, <2>2, ElementOfSeq
    <3>2. /\ y \in Seq(Byte) /\ Len(y) = IF 1 <= z THEN z - 1 + 1 ELSE 0
          /\ \A i \in 1 .. z - 1 + 1 : y[i] = all[1 + i - 1]
      BY <3>1, SubSeqProperties
    <3> HIDE DEF y
    <3> QED BY <1>7, <3>2
  <2>3. ASSUME z <= ends[Len(s)]
        PROVE  x = y <=> \A i \in 1 .. z : x[i] = all[i]
    <3> HIDE DEF y, z
    <3> QED BY <1>6, <2>2, <2>3, SeqEqual
  <2>4. IsPrefix(x, all) <=> z <= ends[Len(s)] /\ x = y
    <3> HIDE DEF z
    <3> QED BY <1>3, <1>6, <2>1 DEF IsPrefix
  <2> HIDE DEF y, z
  <2> QED BY <2>3, <2>4
<1>9. (\A i \in 1 .. z : x[i] = all[i])
        <=> /\ \A i \in 1 .. Len(buffer) : buffer[i] = all[ends[n] + i]
            /\ \A i \in 1 .. Len(p) : p[i] = all[ends[n] + Len(buffer) + i]
  <2>1. InParts(x, all, buffer, p, ends[n], Len(buffer), Len(p))
    BY <1>6 DEF InParts
  <2>2. AgreeByPart(x, all, buffer, p, ends[n], Len(buffer), Len(p))
    BY <1>1, <1>3, <2>1, ThreeParts
  <2> QED BY <2>2 DEF AgreeByPart
<1>10. ASSUME IsPrefix(x, all) PROVE x = all <=> z = ends[Len(s)]
  <2> HIDE DEF z
  <2>1. z <= ends[Len(s)] /\ \A i \in 1 .. z : x[i] = all[i]
    BY <1>8, <1>10
  <2>2. z = ends[Len(s)] => x = all
    BY <1>3, <1>6, <2>1, SeqEqual
  <2>3. x = all => z = ends[Len(s)]
    BY <1>3, <1>6
  <2> QED BY <2>2, <2>3
<1>11. Tracks(s, p, b, buffer, d)
         <=> /\ d = SubSeq(s, 1, n)
             /\ IsPrefix(x, all) /\ (~b => x = all)
             /\ n < Len(s) => Len(arrived) < Len(Stream(SubSeq(s, 1, n + 1)))
  BY <1>1 DEF Tracks, x, arrived, all, head, n
<1>12. AtPlace(ends, s, p, b, buffer, n)
         <=> /\ z <= ends[Len(s)] /\ (~b => z = ends[Len(s)])
             /\ \A i \in 1 .. Len(buffer) : buffer[i] = all[ends[n] + i]
             /\ \A i \in 1 .. Len(p) : p[i] = all[ends[n] + Len(buffer) + i]
             /\ n < Len(s) => ends[n] + Len(buffer) < ends[n + 1]
  BY DEF AtPlace, all
<1>13. Len(arrived) = ends[n] + Len(buffer)
  BY <1>4 DEF IsJoin
<1> HIDE DEF z
<1> QED
  BY <1>3, <1>8, <1>9, <1>10, <1>11, <1>12, <1>13

LEMMA AppendPrefix ==
  ASSUME NEW S, NEW s \in Seq(S), NEW e \in S, NEW k \in 0 .. Len(s)
  PROVE  SubSeq(Append(s, e), 1, k) = SubSeq(s, 1, k)
<1> DEFINE t == Append(s, e)
           u == SubSeq(t, 1, k)
           v == SubSeq(s, 1, k)
<1>1. /\ t \in Seq(S) /\ Len(t) = Len(s) + 1 /\ \A i \in 1 .. Len(s) : t[i] = s[i] /\ s[i] \in S
      /\ Len(s) \in Nat
  BY AppendProperties, LenProperties, ElementOfSeq
<1> HIDE DEF t
<1>2. 1 \in Int /\ k \in Int /\ \A i \in 1 .. k : t[i] \in S /\ s[i] \in S /\ t[i] = s[i]
  BY <1>1
<1>3. /\ u \in Seq(S) /\ Len(u) = IF 1 <= k THEN k - 1 + 1 ELSE 0
      /\ \A i \in 1 .. k - 1 + 1 : u[i] = t[1 + i - 1]
  BY <1>2, SubSeqProperties
<1>4. /\ v \in Seq(S) /\ Len(v) = IF 1 <= k THEN k - 1 + 1 ELSE 0
      /\ \A i \in 1 .. k - 1 + 1 : v[i] = s[1 + i - 1]
  BY <1>2, SubSeqProperties
<1> HIDE DEF u, v
<1>5. Len(u) = Len(v) /\ \A i \in 1 .. Len(u) : u[i] = v[i]
  BY <1>1, <1>2, <1>3, <1>4
<1>6. u = v
  BY <1>3, <1>4, <1>5, SeqEqual
<1> QED
  BY <1>6 DEF u, v, t

\* A frame written.
LEMMA WriteTracks ==
  ASSUME NEW S, \A f \in S : WellFormed(f), NEW s \in Seq(S), NEW d \in Seq(S),
         NEW p \in Seq(Byte), NEW buffer \in Seq(Byte), NEW f \in S,
         Tracks(s, p, FALSE, buffer, d)
  PROVE  /\ Append(s, f) \in Seq(S) /\ p \o Serialize(f) \in Seq(Byte)
         /\ Tracks(Append(s, f), p \o Serialize(f), FALSE, buffer, d)
<1> DEFINE t == Append(s, f)
           w == Serialize(f)
           q == p \o w
           n == Len(d)
           N == Len(s)
<1>1. /\ t \in Seq(S) /\ Len(t) = N + 1 /\ N \in Nat /\ n \in Nat
      /\ Len(p) \in Nat /\ Len(buffer) \in Nat
  BY AppendProperties, LenProperties
<1>2. w \in Seq(Byte) /\ Len(w) \in Nat \ {0}
  BY WellFormedBytes
<1>3. \A x \in S : Serialize(x) \in Seq(Byte)
  BY WellFormedBytes
<1>4. PICK ends : StreamOf(ends, s)
  BY StreamIs
<1>5. PICK ends2 : StreamOf(ends2, t)
  <2> HIDE DEF t
  <2> QED BY <1>1, StreamIs
<1>6. n <= N /\ d = SubSeq(s, 1, n) /\ AtPlace(ends, s, p, FALSE, buffer, n)
  BY <1>4, TracksIsAtPlace
<1>7. Stream(t) = Stream(s) \o w
  BY <1>3, StreamAppend
<1>8. \A k \in 0 .. N : SubSeq(t, 1, k) = SubSeq(s, 1, k)
  BY AppendPrefix
<1> HIDE DEF t, n, N, w
<1>9. /\ \A k \in 0 .. N : ends2[k] = ends[k] /\ ends[k] \in Nat
      /\ Len(Stream(s)) = ends[N] /\ Stream(s) \in Seq(Byte)
      /\ Len(Stream(t)) = ends2[N + 1]
  <2>1. \A k \in 0 .. N : k \in 0 .. Len(t)
    BY <1>1
  <2>2. ASSUME NEW k \in 0 .. N PROVE ends2[k] = ends[k]
    <3>1. Len(Stream(SubSeq(s, 1, k))) = ends[k]
      BY <1>4 DEF StreamOf, N
    <3>2. Len(Stream(SubSeq(t, 1, k))) = ends2[k]
      BY <1>5, <2>1 DEF StreamOf
    <3> QED BY <1>8, <3>1, <3>2
  <2>3. \A k \in 0 .. N : ends[k] \in Nat
    BY <1>4 DEF StreamOf, Ends, N
  <2>4. Len(Stream(s)) = ends[N] /\ Stream(s) \in Seq(Byte)
    BY <1>4 DEF StreamOf, Ends, N
  <2>5. Len(Stream(t)) = ends2[N + 1]
    BY <1>1, <1>5 DEF StreamOf, Ends
  <2> QED BY <2>2, <2>3, <2>4, <2>5
<1>10. IsJoin(Stream(t), Stream(s), w, ends[N], Len(w))
  <2>1. ends[N] \in Nat
    BY <1>1, <1>9
  <2> QED BY <1>2, <1>7, <1>9, <2>1, ConcatJoins
<1>11. IsJoin(q, p, w, Len(p), Len(w))
  BY <1>1, <1>2, ConcatJoins
<1> HIDE DEF q
<1> DEFINE a == ends[n]
           z == ends[N]
           lb == Len(buffer)
           lp == Len(p)
           lw == Len(w)
<1>12. /\ n \in 0 .. N /\ N \in 0 .. N /\ a \in Nat /\ z \in Nat /\ lb \in Nat /\ lp \in Nat
       /\ lw \in Nat \ {0} /\ a + lb + lp = z
       /\ ends2[n] = a /\ ends2[N + 1] = z + lw
  <2>1. n \in 0 .. N /\ N \in 0 .. N
    BY <1>1, <1>6
  <2>2. ends2[N + 1] = ends[N] + Len(w)
    BY <1>9, <1>10 DEF IsJoin
  <2>3. ends[n] + Len(buffer) + Len(p) = ends[N]
    BY <1>6 DEF AtPlace, N
  <2> QED BY <1>1, <1>2, <1>9, <2>1, <2>2, <2>3
<1>13. /\ \A i \in 1 .. lb : buffer[i] = Stream(s)[a + i]
       /\ \A i \in 1 .. lp : p[i] = Stream(s)[a + lb + i]
       /\ n < N => a + lb < ends[n + 1]
  BY <1>6 DEF AtPlace, N
<1>14. Len(q) = lp + lw /\ q \in Seq(Byte)
  BY <1>11 DEF IsJoin
<1> HIDE DEF a, z, lb, lp, lw
<1>15. /\ \A i \in 1 .. z : Stream(t)[i] = Stream(s)[i]
       /\ \A i \in 1 .. lw : Stream(t)[z + i] = w[i]
  BY <1>10 DEF IsJoin, z, lw
<1>16. \A i \in 1 .. lb : buffer[i] = Stream(t)[a + i]
  <2>1. \A i \in 1 .. lb : a + i \in 1 .. z
    BY <1>12
  <2> QED BY <1>13, <1>15, <2>1
<1>17. \A i \in 1 .. lp + lw : q[i] = Stream(t)[a + lb + i]
  <2>1. ASSUME NEW i \in 1 .. lp PROVE q[i] = Stream(t)[a + lb + i]
    <3>1. a + lb + i \in 1 .. z
      BY <1>12
    <3>2. q[i] = p[i]
      BY <1>11 DEF IsJoin, lp
    <3> QED BY <1>13, <1>15, <3>1, <3>2
  <2>2. ASSUME NEW i \in 1 .. lw PROVE q[lp + i] = Stream(t)[a + lb + (lp + i)]
    <3>1. a + lb + (lp + i) = z + i
      BY <1>12
    <3>2. q[lp + i] = w[i]
      BY <1>11 DEF IsJoin, lp, lw
    <3> QED BY <1>15, <3>1, <3>2
  <2>3. ASSUME NEW i \in 1 .. lp + lw
        PROVE  i \in 1 .. lp \/ (i - lp \in 1 .. lw /\ lp + (i - lp) = i)
    BY <1>12
  <2>4. ASSUME NEW i \in 1 .. lp + lw PROVE q[i] = Stream(t)[a + lb + i]
    <3>1. CASE i \in 1 .. lp
      BY <2>1, <3>1
    <3>2. CASE i - lp \in 1 .. lw /\ lp + (i - lp) = i
      BY <2>2, <3>2
    <3> QED BY <2>3, <3>1, <3>2
  <2> QED BY <2>4
<1>18. n < N + 1 => a + lb < ends2[n + 1]
  <2>1. CASE n = N
    <3>1. a = z
      BY <2>1 DEF a, z
    <3> QED BY <1>12, <2>1, <3>1
  <2>2. CASE n # N
    <3>1. n < N /\ n + 1 \in 0 .. N
      BY <1>12, <2>2, <1>1
    <3> QED BY <1>9, <1>13, <3>1
  <2> QED BY <2>1, <2>2
<1>19. AtPlace(ends2, t, q, FALSE, buffer, n)
  <2>1. ends2[n] + Len(buffer) + Len(q) = ends2[Len(t)] /\ ends2[Len(t)] \in Nat
    <3>1. Len(t) = N + 1 /\ Len(q) = lp + lw /\ lb = Len(buffer)
      BY <1>1, <1>14 DEF lb
    <3>2. a + lb + (lp + lw) = z + lw
      BY <1>12
    <3>3. z + lw \in Nat
      BY <1>12
    <3> QED BY <1>12, <3>1, <3>2, <3>3
  <2>2. n < Len(t) => ends2[n] + Len(buffer) < ends2[n + 1]
    BY <1>1, <1>12, <1>18 DEF lb
  <2>3. \A i \in 1 .. Len(buffer) : buffer[i] = Stream(t)[ends2[n] + i]
    BY <1>12, <1>16 DEF lb
  <2>4. \A i \in 1 .. Len(q) : q[i] = Stream(t)[ends2[n] + Len(buffer) + i]
    BY <1>12, <1>14, <1>17 DEF lb
  <2> QED BY <2>1, <2>2, <2>3, <2>4 DEF AtPlace
<1>20. n <= Len(t) /\ d = SubSeq(t, 1, n)
  <2>1. n <= N + 1
    BY <1>1, <1>12
  <2>2. SubSeq(t, 1, n) = SubSeq(s, 1, n)
    BY <1>8, <1>12
  <2> QED BY <1>1, <1>6, <2>1, <2>2, Zenon
<1>21. Tracks(t, q, FALSE, buffer, d)
  BY <1>1, <1>5, <1>14, <1>19, <1>20, TracksIsAtPlace DEF n
<1> QED
  BY <1>1, <1>14, <1>21 DEF t, q, w

LEMMA SliceIs ==
  ASSUME NEW S, NEW s \in Seq(S), NEW k \in 1 .. Len(s) + 1, NEW m \in 0 .. Len(s), k <= m + 1
  PROVE  /\ SubSeq(s, k, m) \in Seq(S) /\ Len(SubSeq(s, k, m)) = m - k + 1
         /\ \A i \in 1 .. m - k + 1 : SubSeq(s, k, m)[i] = s[k + i - 1]
<1>1. k \in Int /\ m \in Int /\ \A i \in k .. m : s[i] \in S
  BY LenProperties, ElementOfSeq
<1>2. /\ SubSeq(s, k, m) \in Seq(S)
      /\ Len(SubSeq(s, k, m)) = IF k <= m THEN m - k + 1 ELSE 0
      /\ \A i \in 1 .. m - k + 1 : SubSeq(s, k, m)[i] = s[k + i - 1]
  BY <1>1, SubSeqProperties
<1> QED
  BY <1>1, <1>2

\* The connection broken, with the first k bytes under way.
LEMMA BreakTracks ==
  ASSUME NEW S, \A f \in S : WellFormed(f), NEW s \in Seq(S), NEW d \in Seq(S),
         NEW p \in Seq(Byte), NEW buffer \in Seq(Byte), NEW k \in 0 .. Len(p),
         Tracks(s, p, FALSE, buffer, d)
  PROVE  SubSeq(p, 1, k) \in Seq(Byte) /\ Tracks(s, SubSeq(p, 1, k), TRUE, buffer, d)
<1> DEFINE q == SubSeq(p, 1, k)
           n == Len(d)
<1>1. PICK ends : StreamOf(ends, s)
  BY StreamIs
<1>2. /\ Len(s) \in Nat /\ n \in Nat /\ Len(p) \in Nat /\ Len(buffer) \in Nat
      /\ \A j \in 0 .. Len(s) : ends[j] \in Nat
  BY <1>1, LenProperties DEF StreamOf, Ends
<1>3. q \in Seq(Byte) /\ Len(q) = k /\ \A i \in 1 .. k : q[i] = p[i]
  <2>1. 1 \in 1 .. Len(p) + 1 /\ 1 <= k + 1 /\ k - 1 + 1 = k
    BY <1>2
  <2>2. /\ q \in Seq(Byte) /\ Len(q) = k - 1 + 1
        /\ \A i \in 1 .. k - 1 + 1 : q[i] = p[1 + i - 1]
    BY <2>1, SliceIs
  <2> HIDE DEF q
  <2> QED BY <2>1, <2>2
<1>4. n <= Len(s) /\ d = SubSeq(s, 1, n) /\ AtPlace(ends, s, p, FALSE, buffer, n)
  BY <1>1, TracksIsAtPlace
<1> HIDE DEF q, n
<1>5. AtPlace(ends, s, q, TRUE, buffer, n)
  <2>1. /\ ends[n] + Len(buffer) + Len(p) <= ends[Len(s)]
        /\ \A i \in 1 .. Len(buffer) : buffer[i] = Stream(s)[ends[n] + i]
        /\ \A i \in 1 .. Len(p) : p[i] = Stream(s)[ends[n] + Len(buffer) + i]
        /\ n < Len(s) => ends[n] + Len(buffer) < ends[n + 1]
    BY <1>4 DEF AtPlace
  <2>2. n \in 0 .. Len(s) /\ Len(s) \in 0 .. Len(s)
    BY <1>2, <1>4
  <2>3. ends[n] + Len(buffer) + Len(q) <= ends[Len(s)]
    <3>1. ends[n] \in Nat /\ ends[Len(s)] \in Nat /\ k \in Nat /\ k <= Len(p)
      BY <1>2, <2>2
    <3> QED BY <1>2, <1>3, <2>1, <3>1
  <2>4. \A i \in 1 .. Len(q) : q[i] = Stream(s)[ends[n] + Len(buffer) + i]
    <3>1. \A i \in 1 .. k : i \in 1 .. Len(p)
      BY <1>2
    <3> QED BY <1>3, <2>1, <3>1
  <2> QED BY <2>1, <2>3, <2>4 DEF AtPlace
<1>6. Tracks(s, q, TRUE, buffer, d)
  BY <1>1, <1>3, <1>4, <1>5, TracksIsAtPlace DEF n
<1> QED
  BY <1>3, <1>6 DEF q

\* A turn of the receiver's loop with k bytes.
ReceiveKeeps(S, s, d, p, b, buffer, k) ==
    LET data == buffer \o SubSeq(p, 1, k)
        parsed == ProcessData(data)
        rest == SubSeq(data, parsed.bytes_consumed + 1, Len(data))
        q == SubSeq(p, k + 1, Len(p))
    IN /\ q \in Seq(Byte) /\ rest \in Seq(Byte) /\ d \o parsed.frames \in Seq(S)
       /\ Tracks(s, q, b, rest, d \o parsed.frames)
       /\ \E m \in Len(d) .. Len(s) : d \o parsed.frames = SubSeq(s, 1, m)

LEMMA ReceiveTracks ==
  ASSUME NEW S, \A f \in S : WellFormed(f), NEW s \in Seq(S), NEW d \in Seq(S),
         NEW p \in Seq(Byte), NEW b \in BOOLEAN, NEW buffer \in Seq(Byte),
         NEW k \in 0 .. Len(p), Tracks(s, p, b, buffer, d)
  PROVE  ReceiveKeeps(S, s, d, p, b, buffer, k)
<1> DEFINE data == buffer \o SubSeq(p, 1, k)
           parsed == ProcessData(data)
           rest == SubSeq(data, parsed.bytes_consumed + 1, Len(data))
           q == SubSeq(p, k + 1, Len(p))
           n == Len(d)
           N == Len(s)
           lb == Len(buffer)
           lp == Len(p)
           chunk == SubSeq(p, 1, k)
<1> HIDE DEF data, parsed, rest
<1>1. PICK ends : StreamOf(ends, s)
  BY StreamIs
<1>2. n <= N /\ d = SubSeq(s, 1, n) /\ AtPlace(ends, s, p, b, buffer, n)
  BY <1>1, TracksIsAtPlace
<1>3. /\ N \in Nat /\ n \in 0 .. N /\ lb \in Nat /\ lp \in Nat /\ k \in Nat /\ k <= lp
      /\ \A j \in 0 .. N : ends[j] \in Nat
      /\ \A i, j \in 0 .. N : i <= j => ends[i] <= ends[j]
  BY <1>1, <1>2, LenProperties DEF StreamOf, Ends
<1>4. /\ ends[n] + lb + lp <= ends[N] /\ (~b => ends[n] + lb + lp = ends[N])
      /\ \A i \in 1 .. lb : buffer[i] = Stream(s)[ends[n] + i]
      /\ \A i \in 1 .. lp : p[i] = Stream(s)[ends[n] + lb + i]
  BY <1>2 DEF AtPlace
<1>5. chunk \in Seq(Byte) /\ Len(chunk) = k /\ \A i \in 1 .. k : chunk[i] = p[i]
  <2>1. 1 \in 1 .. Len(p) + 1 /\ 1 <= k + 1 /\ k - 1 + 1 = k
    BY <1>3
  <2>2. /\ chunk \in Seq(Byte) /\ Len(chunk) = k - 1 + 1
        /\ \A i \in 1 .. k - 1 + 1 : chunk[i] = p[1 + i - 1]
    BY <2>1, SliceIs
  <2> HIDE DEF chunk
  <2> QED BY <2>1, <2>2
<1>6. q \in Seq(Byte) /\ Len(q) = lp - k /\ \A i \in 1 .. lp - k : q[i] = p[k + i]
  <2>1. /\ k + 1 \in 1 .. Len(p) + 1 /\ Len(p) \in 0 .. Len(p) /\ k + 1 <= Len(p) + 1
        /\ Len(p) - (k + 1) + 1 = lp - k
    BY <1>3
  <2>2. /\ q \in Seq(Byte) /\ Len(q) = Len(p) - (k + 1) + 1
        /\ \A i \in 1 .. Len(p) - (k + 1) + 1 : q[i] = p[(k + 1) + i - 1]
    BY <2>1, SliceIs
  <2> HIDE DEF q
  <2> QED BY <1>3, <2>1, <2>2
<1> HIDE DEF q, n, N, lb, lp, chunk
<1>7. IsJoin(data, buffer, chunk, lb, k)
  <2>1. IsJoin(buffer \o chunk, buffer, chunk, lb, k)
    BY <1>3, <1>5, ConcatJoins DEF lb
  <2> QED BY <2>1 DEF data, chunk
<1>8. data \in Seq(Byte) /\ Len(data) = lb + k
  BY <1>7 DEF IsJoin
<1>9. \A j \in 1 .. lb + k : data[j] = Stream(s)[ends[n] + j]
  <2>1. ASSUME NEW j \in 1 .. lb PROVE data[j] = Stream(s)[ends[n] + j]
    BY <1>4, <1>7 DEF IsJoin
  <2>2. ASSUME NEW i \in 1 .. k PROVE data[lb + i] = Stream(s)[ends[n] + (lb + i)]
    <3>1. i \in 1 .. lp /\ ends[n] + lb + i = ends[n] + (lb + i)
      BY <1>3
    <3>2. data[lb + i] = chunk[i] /\ chunk[i] = p[i]
      BY <1>5, <1>7 DEF IsJoin
    <3> QED BY <1>4, <3>1, <3>2
  <2>3. ASSUME NEW j \in 1 .. lb + k PROVE j \in 1 .. lb \/ (j - lb \in 1 .. k /\ lb + (j - lb) = j)
    BY <1>3
  <2>4. ASSUME NEW j \in 1 .. lb + k PROVE data[j] = Stream(s)[ends[n] + j]
    <3>1. CASE j \in 1 .. lb
      BY <2>1, <3>1
    <3>2. CASE j - lb \in 1 .. k /\ lb + (j - lb) = j
      BY <2>2, <3>2
    <3> QED BY <2>3, <3>1, <3>2
  <2> QED BY <2>4
<1>10. N \in 0 .. N /\ ends[n] \in Nat /\ ends[N] \in Nat
  BY <1>3
<1>11. PieceOf(data, s, ends, n)
  <2>1. ends[n] + Len(data) <= ends[N]
    <3>1. /\ lb \in Nat /\ lp \in Nat /\ k \in Nat /\ k <= lp /\ Len(data) = lb + k
          /\ ends[n] + lb + lp <= ends[N]
      BY <1>3, <1>4, <1>8
    <3> QED BY <1>10, <3>1
  <2> QED BY <1>3, <1>8, <1>9, <2>1 DEF PieceOf, N
<1>12. PICK m : Whole(data, s, ends, n, m)
  BY <1>1, <1>11, WholeExists
<1>13. parsed = [frames |-> SubSeq(s, n + 1, m), bytes_consumed |-> ends[m] - ends[n]]
  BY <1>1, <1>11, <1>12, ParsePiece DEF parsed
<1>14. /\ m \in 0 .. N /\ n <= m /\ ends[m] \in Nat /\ ends[n] <= ends[m]
       /\ ends[m] - ends[n] <= lb + k
       /\ m < N => ends[m + 1] - ends[n] > lb + k /\ ends[m + 1] \in Nat
  <2>1. /\ m \in n .. N /\ ends[m] - ends[n] <= lb + k
        /\ m < N => ends[m + 1] - ends[n] > lb + k
    BY <1>8, <1>12 DEF Whole, N
  <2>2. m \in 0 .. N /\ n <= m /\ (m < N => m + 1 \in 0 .. N)
    BY <1>3, <2>1
  <2> QED BY <1>3, <2>1, <2>2
<1>15. d \o parsed.frames = SubSeq(s, 1, m)
  <2>1. 1 \in 1 .. N + 1 /\ n \in 1 - 1 .. N /\ m \in n .. N
    BY <1>3, <1>14
  <2>2. SubSeq(s, 1, n) \o SubSeq(s, n + 1, m) = SubSeq(s, 1, m)
    BY <2>1, ConcatAdjacentSubSeq DEF N
  <2> QED BY <1>2, <1>13, <2>2
<1>16. SubSeq(s, 1, m) \in Seq(S) /\ Len(SubSeq(s, 1, m)) = m
  <2>1. 1 \in 1 .. Len(s) + 1 /\ m \in 0 .. Len(s) /\ 1 <= m + 1 /\ m - 1 + 1 = m
    BY <1>3, <1>14 DEF N
  <2> QED BY <2>1, SliceIs
<1> DEFINE c == ends[m] - ends[n]
<1>17. c \in Nat /\ c <= lb + k /\ ends[n] + c = ends[m] /\ parsed.bytes_consumed = c
  <2>1. /\ ends[n] \in Nat /\ ends[m] \in Nat /\ ends[n] <= ends[m]
        /\ ends[m] - ends[n] <= lb + k
    BY <1>10, <1>14
  <2>2. c \in Nat /\ ends[n] + c = ends[m]
    BY <2>1
  <2>3. parsed.bytes_consumed = c
    BY <1>13
  <2> QED BY <2>1, <2>2, <2>3
<1> HIDE DEF c
<1>18. /\ rest \in Seq(Byte) /\ Len(rest) = lb + k - c
       /\ \A i \in 1 .. lb + k - c : rest[i] = data[c + i]
  <2>1. /\ c + 1 \in 1 .. Len(data) + 1 /\ Len(data) \in 0 .. Len(data) /\ c + 1 <= Len(data) + 1
        /\ Len(data) - (c + 1) + 1 = lb + k - c
    BY <1>3, <1>8, <1>17
  <2>2. rest = SubSeq(data, c + 1, Len(data))
    BY <1>17 DEF rest
  <2>3. /\ rest \in Seq(Byte) /\ Len(rest) = Len(data) - (c + 1) + 1
        /\ \A i \in 1 .. Len(data) - (c + 1) + 1 : rest[i] = data[(c + 1) + i - 1]
    BY <1>8, <2>1, <2>2, SliceIs
  <2>4. \A i \in 1 .. lb + k - c : (c + 1) + i - 1 = c + i
    BY <1>3, <1>17
  <2> QED BY <2>1, <2>3, <2>4
<1>19. \A i \in 1 .. Len(rest) : rest[i] = Stream(s)[ends[m] + i]
  <2>1. ASSUME NEW i \in 1 .. lb + k - c
        PROVE  c + i \in 1 .. lb + k /\ ends[n] + (c + i) = ends[m] + i
    BY <1>3, <1>10, <1>14, <1>17
  <2> QED BY <1>9, <1>18, <2>1
<1>20. \A i \in 1 .. Len(q) : q[i] = Stream(s)[ends[m] + Len(rest) + i]
  <2>1. ASSUME NEW i \in 1 .. lp - k
        PROVE  k + i \in 1 .. lp /\ ends[n] + lb + (k + i) = ends[m] + (lb + k - c) + i
    <3>1. /\ ends[n] \in Nat /\ ends[m] \in Nat /\ lb \in Nat /\ lp \in Nat /\ k \in Nat
          /\ k <= lp /\ c \in Nat /\ ends[n] + c = ends[m]
      BY <1>3, <1>10, <1>14, <1>17
    <3> QED BY <3>1
  <2> QED BY <1>4, <1>6, <1>18, <2>1
<1>21. /\ ends[n] \in Nat /\ ends[m] \in Nat /\ lb \in Nat /\ lp \in Nat /\ k \in Nat
        /\ c \in Nat /\ ends[n] + c = ends[m]
        /\ Len(rest) = lb + k - c /\ Len(q) = lp - k
  BY <1>3, <1>6, <1>10, <1>14, <1>17, <1>18
<1>22. AtPlace(ends, s, q, b, rest, m)
  <2>1. ends[m] + Len(rest) + Len(q) = ends[n] + lb + lp
    BY <1>21, SMTT(20)
  <2>2. m < N => ends[m] + Len(rest) < ends[m + 1]
    <3> SUFFICES ASSUME m < N PROVE ends[m] + Len(rest) < ends[m + 1]
      OBVIOUS
    <3>1. ends[m + 1] - ends[n] > lb + k /\ ends[m + 1] \in Nat
      BY <1>14
    <3>2. ends[m] + Len(rest) = ends[n] + (lb + k) /\ lb + k \in Nat
      BY <1>21
    <3>3. Len(rest) \in Nat /\ ends[m] \in Nat /\ ends[n] \in Nat
      BY <1>14, <1>18, <1>21, LenProperties
    <3> DEFINE x == ends[m] + Len(rest)
               y == ends[m + 1]
               u == ends[n]
               v == lb + k
    <3>4. x \in Nat /\ y \in Nat /\ u \in Nat /\ v \in Nat /\ x = u + v /\ y - u > v
      BY <3>1, <3>2, <3>3
    <3>5. x < y
      <4> HIDE DEF x, y, u, v
      <4> QED BY <3>4
    <3> QED BY <3>5
  <2> QED BY <1>4, <1>19, <1>20, <2>1, <2>2 DEF AtPlace, N
<1>23. Tracks(s, q, b, rest, SubSeq(s, 1, m))
  <2>1. m <= Len(s)
    BY <1>3, <1>14 DEF N
  <2> DEFINE got == SubSeq(s, 1, m)
  <2>2. got \in Seq(S) /\ Len(got) = m /\ got = SubSeq(s, 1, Len(got))
    BY <1>16
  <2> HIDE DEF got
  <2>3. /\ Len(got) <= Len(s) /\ got = SubSeq(s, 1, Len(got))
        /\ AtPlace(ends, s, q, b, rest, Len(got))
    BY <1>22, <2>1, <2>2
  <2>4. q \in Seq(Byte) /\ rest \in Seq(Byte) /\ got \in Seq(S)
    BY <1>6, <1>18, <2>2
  <2>5. Tracks(s, q, b, rest, got)
    BY <1>1, <2>3, <2>4, TracksIsAtPlace, SMTT(20)
  <2> QED BY <2>5 DEF got
<1>24. m \in Len(d) .. Len(s)
  BY <1>3, <1>14 DEF n, N
<1> QED
  BY <1>6, <1>15, <1>16, <1>18, <1>23, <1>24, Zenon
     DEF ReceiveKeeps, q, rest, parsed, data

Types ==
    /\ sent \in Seq(Frames) /\ delivered \in Seq(Frames)
    /\ pipe \in Seq(Byte) /\ frameBuffer \in Seq(Byte) /\ broken \in BOOLEAN

FramingInv == Types /\ Tracks(sent, pipe, broken, frameBuffer, delivered)

LEMMA TracksIsParsedExactly ==
  Tracks(sent, pipe, broken, frameBuffer, delivered) <=> ParsedExactly
BY Zenon DEF ParsedExactly, Tracks, Bytes, Stream

LEMMA InitialFraming == Init => FramingInv
<1> SUFFICES ASSUME Init PROVE FramingInv
  OBVIOUS
<1>1. sent = << >> /\ pipe = << >> /\ broken = FALSE /\ frameBuffer = << >> /\ delivered = << >>
  BY DEF Init
<1>2. Types
  BY <1>1, EmptySeq DEF Types
<1>3. PICK ends : StreamOf(ends, sent)
  BY <1>2, FramesWellFormed, StreamIs DEF Types
<1>4. Len(<< >>) = 0 /\ << >> = SubSeq(<< >>, 1, 0)
  BY EmptySeq, SubSeqEmpty
<1>5. AtPlace(ends, sent, pipe, broken, frameBuffer, 0)
  <2>1. ends[0] = 0 /\ Len(sent) = 0 /\ Len(pipe) = 0 /\ Len(frameBuffer) = 0
    BY <1>1, <1>3, <1>4 DEF StreamOf, Ends
  <2> QED BY <2>1 DEF AtPlace
<1>6. Tracks(sent, pipe, broken, frameBuffer, delivered)
  <2>1. Len(delivered) = 0 /\ Len(delivered) <= Len(sent) /\ delivered = SubSeq(sent, 1, 0)
    BY <1>1, <1>4
  <2>2. /\ sent \in Seq(Frames) /\ delivered \in Seq(Frames)
        /\ pipe \in Seq(Byte) /\ frameBuffer \in Seq(Byte) /\ broken \in BOOLEAN
    BY <1>2 DEF Types
  <2>3. /\ Len(delivered) <= Len(sent) /\ delivered = SubSeq(sent, 1, Len(delivered))
        /\ AtPlace(ends, sent, pipe, broken, frameBuffer, Len(delivered))
    BY <1>5, <2>1
  <2> QED BY <1>3, <2>2, <2>3, TracksIsAtPlace
<1> QED
  BY <1>2, <1>6 DEF FramingInv

LEMMA WritePreserves ==
  ASSUME FramingInv, NEW f \in Frames, Write(f)
  PROVE  FramingInv'
<1>1. /\ Tracks(sent, pipe, FALSE, frameBuffer, delivered)
      /\ sent' = Append(sent, f) /\ pipe' = pipe \o Serialize(f)
      /\ broken' = FALSE /\ frameBuffer' = frameBuffer /\ delivered' = delivered
  BY DEF Write, FramingInv, Types
<1>2. /\ sent' \in Seq(Frames) /\ pipe' \in Seq(Byte)
      /\ Tracks(sent', pipe', broken', frameBuffer', delivered')
  BY <1>1, FramesWellFormed, WriteTracks DEF FramingInv, Types
<1> QED
  BY <1>1, <1>2 DEF FramingInv, Types

LEMMA BreakPreserves == FramingInv /\ Break => FramingInv'
<1> SUFFICES ASSUME FramingInv, Break PROVE FramingInv'
  OBVIOUS
<1>1. /\ Tracks(sent, pipe, FALSE, frameBuffer, delivered)
      /\ broken' = TRUE /\ sent' = sent /\ frameBuffer' = frameBuffer /\ delivered' = delivered
  BY DEF Break, FramingInv, Types
<1>2. PICK k \in 0 .. Len(pipe) : pipe' = SubSeq(pipe, 1, k)
  BY DEF Break
<1>3. pipe' \in Seq(Byte) /\ Tracks(sent', pipe', broken', frameBuffer', delivered')
  BY <1>1, <1>2, FramesWellFormed, BreakTracks DEF FramingInv, Types
<1> QED
  BY <1>1, <1>3 DEF FramingInv, Types

\* A turn of the loop keeps the invariant, and hands on the frames that follow
\* those handed on before.
LEMMA ReceivePreserves ==
  ASSUME FramingInv, HandleRead
  PROVE  /\ FramingInv' /\ sent' = sent
         /\ \E m \in Len(delivered) .. Len(sent) : delivered' = SubSeq(sent, 1, m)
<1>1. PICK k \in 1 .. BufferSize : Receive(k)
  BY DEF HandleRead
<1> DEFINE data == frameBuffer \o SubSeq(pipe, 1, k)
           parsed == ProcessData(data)
<1>2. /\ k \in 0 .. Len(pipe) /\ pipe' = SubSeq(pipe, k + 1, Len(pipe))
      /\ frameBuffer' = SubSeq(data, parsed.bytes_consumed + 1, Len(data))
      /\ delivered' = delivered \o parsed.frames
      /\ sent' = sent /\ broken' = broken
  <2>1. BufferSize \in Nat /\ Len(pipe) \in Nat
    BY StreamAssumption, LenProperties DEF FramingInv, Types
  <2>2. /\ k <= Len(pipe) /\ pipe' = SubSeq(pipe, k + 1, Len(pipe))
        /\ frameBuffer' = SubSeq(data, parsed.bytes_consumed + 1, Len(data))
        /\ delivered' = delivered \o parsed.frames
        /\ sent' = sent /\ broken' = broken
    BY <1>1 DEF Receive, Received
  <2> HIDE DEF parsed, data
  <2> QED BY <2>1, <2>2
<1>3. Tracks(sent, pipe, broken, frameBuffer, delivered)
  BY DEF FramingInv
<1>4. /\ pipe' \in Seq(Byte) /\ frameBuffer' \in Seq(Byte) /\ delivered' \in Seq(Frames)
      /\ Tracks(sent, pipe', broken, frameBuffer', delivered')
      /\ \E m \in Len(delivered) .. Len(sent) : delivered' = SubSeq(sent, 1, m)
  <2>1. /\ sent \in Seq(Frames) /\ delivered \in Seq(Frames) /\ pipe \in Seq(Byte)
        /\ broken \in BOOLEAN /\ frameBuffer \in Seq(Byte)
    BY DEF FramingInv, Types
  <2>2. \A f \in Frames : WellFormed(f)
    BY FramesWellFormed
  <2>3. ReceiveKeeps(Frames, sent, delivered, pipe, broken, frameBuffer, k)
    BY <1>2, <1>3, <2>1, <2>2, ReceiveTracks
  <2> QED BY <1>2, <2>3, Zenon DEF ReceiveKeeps
<1> HIDE DEF parsed, data
<1>5. Tracks(sent', pipe', broken', frameBuffer', delivered')
  BY <1>2, <1>4
<1>6. Types'
  BY <1>2, <1>4 DEF FramingInv, Types
<1> QED
  BY <1>2, <1>4, <1>5, <1>6 DEF FramingInv

LEMMA FramingStep == FramingInv /\ [Next]_vars => FramingInv'
<1> SUFFICES ASSUME FramingInv, [Next]_vars PROVE FramingInv'
  OBVIOUS
<1>1. CASE \E f \in Frames : Write(f)
  BY <1>1, WritePreserves
<1>2. CASE Break
  BY <1>2, BreakPreserves
<1>3. CASE HandleRead
  BY <1>3, ReceivePreserves
<1>4. CASE UNCHANGED vars
  <2>1. /\ sent' = sent /\ pipe' = pipe /\ broken' = broken /\ frameBuffer' = frameBuffer
        /\ delivered' = delivered
    BY <1>4 DEF vars
  <2> QED BY <2>1 DEF FramingInv, Types
<1> QED
  BY <1>1, <1>2, <1>3, <1>4 DEF Next

\* The types of FrameStream's variables, and ParsedExactly, inductive with them.
THEOREM FramingInvariant == Spec => []FramingInv
BY InitialFraming, FramingStep, PTL DEF Spec

\* However the stream is cut into chunks, and wherever it breaks, exactly the frames
\* whose last byte has arrived are handed on and exactly the bytes after them kept.
THEOREM FramesParsedExactly == Spec => []ParsedExactly
<1>1. FramingInv => ParsedExactly
  BY TracksIsParsedExactly DEF FramingInv
<1> QED
  BY <1>1, FramingInvariant, PTL

-------------------------------------------------------------------------------
(* The channel of whole frames                                             *)

LEMMA SlicesArePrefixes ==
  ASSUME NEW S, NEW s \in Seq(S), NEW m \in 0 .. Len(s), NEW n \in 0 .. m
  PROVE  IsPrefix(SubSeq(s, 1, n), SubSeq(s, 1, m))
<1> DEFINE u == SubSeq(s, 1, n)
           v == SubSeq(s, 1, m)
           w == SubSeq(v, 1, n)
<1>1. Len(s) \in Nat /\ n \in 0 .. Len(s) /\ 1 \in 1 .. Len(s) + 1
  BY LenProperties
<1>2. u \in Seq(S) /\ Len(u) = n /\ \A i \in 1 .. n : u[i] = s[i]
  <2>1. /\ u \in Seq(S) /\ Len(u) = n - 1 + 1
        /\ \A i \in 1 .. n - 1 + 1 : u[i] = s[1 + i - 1]
    BY <1>1, SliceIs
  <2> HIDE DEF u
  <2> QED BY <1>1, <2>1
<1>3. v \in Seq(S) /\ Len(v) = m /\ \A i \in 1 .. m : v[i] = s[i]
  <2>1. /\ v \in Seq(S) /\ Len(v) = m - 1 + 1
        /\ \A i \in 1 .. m - 1 + 1 : v[i] = s[1 + i - 1]
    BY <1>1, SliceIs
  <2> HIDE DEF v
  <2> QED BY <1>1, <2>1
<1> HIDE DEF v
<1>4. w \in Seq(S) /\ Len(w) = n /\ \A i \in 1 .. n : w[i] = v[i]
  <2>1. n \in 0 .. Len(v) /\ 1 \in 1 .. Len(v) + 1 /\ 1 <= n + 1
    BY <1>1, <1>3
  <2>2. /\ w \in Seq(S) /\ Len(w) = n - 1 + 1
        /\ \A i \in 1 .. n - 1 + 1 : w[i] = v[1 + i - 1]
    BY <1>3, <2>1, SliceIs
  <2> HIDE DEF w
  <2> QED BY <1>1, <2>2
<1> HIDE DEF u, w
<1>5. \A i \in 1 .. n : u[i] = w[i]
  <2>1. \A i \in 1 .. n : i \in 1 .. m
    BY <1>1
  <2> QED BY <1>2, <1>3, <1>4, <2>1
<1>6. u = w
  BY <1>2, <1>4, <1>5, SeqEqual
<1>7. SubSeq(u, 1, Len(u)) = u
  BY <1>2, SubSeqFull
<1>8. IsPrefix(u, v)
  BY <1>1, <1>2, <1>3, <1>6, <1>7 DEF IsPrefix, w
<1> QED
  BY <1>8 DEF u, v

LEMMA ChannelStep == FramingInv /\ [Next]_vars => [Channel!Next]_(Channel!vars)
<1> SUFFICES ASSUME FramingInv, [Next]_vars PROVE [Channel!Next]_(Channel!vars)
  OBVIOUS
<1>1. ASSUME NEW f \in Frames, Write(f) PROVE Channel!Next
  BY <1>1 DEF Write, Channel!Next, Channel!Write
<1>2. CASE Break
  BY <1>2 DEF Break, Channel!vars
<1>3. CASE HandleRead
  <2>1. PICK m \in Len(delivered) .. Len(sent) : delivered' = SubSeq(sent, 1, m)
    BY <1>3, ReceivePreserves
  <2>2. sent' = sent
    BY <1>3, ReceivePreserves
  <2>3. /\ sent \in Seq(Frames) /\ Len(delivered) \in Nat /\ Len(sent) \in Nat
        /\ delivered = SubSeq(sent, 1, Len(delivered))
    BY LenProperties DEF FramingInv, Types, Tracks
  <2>4. m \in 0 .. Len(sent) /\ Len(delivered) \in 0 .. m
    BY <2>3
  <2>5. IsPrefix(delivered, delivered')
    BY <2>1, <2>3, <2>4, SlicesArePrefixes
  <2>6. IsPrefix(delivered', sent)
    <3>1. Len(sent) \in 0 .. Len(sent) /\ SubSeq(sent, 1, Len(sent)) = sent
      BY <2>3, SubSeqFull
    <3> QED BY <2>1, <2>3, <2>4, <3>1, SlicesArePrefixes
  <2>7. CASE delivered' = delivered
    BY <2>2, <2>7 DEF Channel!vars
  <2>8. CASE delivered' # delivered
    <3>1. Channel!Deliver
      BY <2>2, <2>5, <2>6, <2>8, Zenon DEF Channel!Deliver, Channel!IsPrefix, IsPrefix
    <3> QED BY <3>1 DEF Channel!Next
  <2> QED BY <2>7, <2>8
<1>4. CASE UNCHANGED vars
  BY <1>4 DEF vars, Channel!vars
<1> QED
  BY <1>1, <1>2, <1>3, <1>4 DEF Next

\* Frames cut into bytes, sent over the stream and parsed again are a channel of
\* whole frames: each step of FrameStream hands on some of the frames written that
\* come next, unchanged and in order, or is none of the channel's.
THEOREM StreamImplementsChannel == Spec => ImplementsFrameChannel
<1>1. Init => Channel!Init
  BY DEF Init, Channel!Init
<1> QED
  BY <1>1, ChannelStep, FramingInvariant, PTL DEF Spec, ImplementsFrameChannel, Channel!Spec

-------------------------------------------------------------------------------
(* Checksums                                                               *)

LEMMA SumOfChange ==
  ASSUME NEW p \in Seq(Byte), NEW j \in 1 .. Len(p), NEW b \in Byte
  PROVE  ByteSum([p EXCEPT ![j] = b]) = ByteSum(p) - p[j] + b
<1> DEFINE q == [p EXCEPT ![j] = b]
           n == Len(p)
<1>1. Byte \subseteq Nat
  BY CodecAssumption DEF Byte
<1>2. /\ p \in Seq(Nat) /\ n \in Nat /\ b \in Nat
      /\ \A i \in 1 .. n : p[i] \in Nat
  BY <1>1, SeqMonotonic, LenProperties, ElementOfSeq
<1>3. /\ q \in Seq(Nat) /\ Len(q) = n
      /\ \A i \in 1 .. n : q[i] = IF i = j THEN b ELSE p[i]
  BY <1>2, ExceptSeq
<1>4. PICK f \in [0 .. n -> Nat] :
        f[0] = 0 /\ f[n] = ByteSum(p) /\ \A i \in 1 .. n : f[i] = f[i - 1] + p[i]
  BY <1>2, SumPrefixes
<1> HIDE DEF q, n
<1>5. PICK g \in [0 .. n -> Nat] :
        g[0] = 0 /\ g[n] = ByteSum(q) /\ \A i \in 1 .. n : g[i] = g[i - 1] + q[i]
  BY <1>3, SumPrefixes
<1> DEFINE T == {i \in Nat : i <= n => g[i] = f[i] + (IF i < j THEN 0 ELSE b - p[j])}
<1>6. j \in 1 .. n /\ p[j] \in Nat /\ b \in Nat
  BY <1>2 DEF n
<1>7. 0 \in T
  BY <1>4, <1>5, <1>6
<1>8. ASSUME NEW i \in Nat, i \in T PROVE i + 1 \in T
  <2> SUFFICES ASSUME i + 1 <= n
               PROVE  g[i + 1] = f[i + 1] + (IF i + 1 < j THEN 0 ELSE b - p[j])
    OBVIOUS
  <2>1. i + 1 \in 1 .. n /\ (i + 1) - 1 = i /\ i \in 0 .. n /\ i <= n
    BY <1>2
  <2>2. /\ g[i + 1] = g[i] + q[i + 1] /\ f[i + 1] = f[i] + p[i + 1]
        /\ g[i] \in Nat /\ f[i] \in Nat /\ p[i + 1] \in Nat
        /\ q[i + 1] = IF i + 1 = j THEN b ELSE p[i + 1]
        /\ g[i] = f[i] + (IF i < j THEN 0 ELSE b - p[j])
    BY <1>2, <1>3, <1>4, <1>5, <1>8, <2>1
  <2> DEFINE c == b - p[j]
  <2>3. c \in Int /\ b = p[j] + c
    BY <1>6
  <2> HIDE DEF c
  <2>4. CASE i + 1 < j
    BY <1>6, <2>2, <2>4
  <2>5. CASE i + 1 = j
    BY <1>6, <2>2, <2>3, <2>5 DEF c
  <2>6. CASE i + 1 > j
    <3>1. /\ g[i] = f[i] + c /\ g[i + 1] = g[i] + p[i + 1]
          /\ f[i + 1] = f[i] + p[i + 1] /\ f[i] \in Nat /\ p[i + 1] \in Nat
      BY <1>6, <2>2, <2>6 DEF c
    <3>2. g[i + 1] = f[i + 1] + c
      BY <2>3, <3>1
    <3> QED BY <1>6, <2>6, <3>2 DEF c
  <2> QED BY <1>6, <2>4, <2>5, <2>6
<1>9. Nat \subseteq T
  <2> HIDE DEF T
  <2> QED BY <1>7, <1>8, Induction
<1>10. g[n] = f[n] + (b - p[j]) /\ f[n] \in Nat
  BY <1>2, <1>6, <1>9
<1>11. ByteSum(q) = ByteSum(p) - p[j] + b
  <2>1. ByteSum(p) \in Nat /\ ByteSum(q) = ByteSum(p) + (b - p[j])
    BY <1>4, <1>5, <1>10
  <2>2. b \in Nat /\ p[j] \in Nat
    BY <1>2, <1>6
  <2> QED BY <2>1, <2>2
<1> QED
  BY <1>11 DEF q

LEMMA BaseInPower == Base <= Power[FieldBytes]
<1>1. /\ FieldBytes \in 1 .. FieldBytes /\ FieldBytes - 1 \in 0 .. FieldBytes
      /\ Base \in Nat \ {0, 1}
  BY CodecAssumption
<1>2. Power[FieldBytes] = Base * Power[FieldBytes - 1] /\ Power[FieldBytes - 1] \in Nat \ {0}
  BY <1>1, PowerDef
<1> QED
  BY <1>1, <1>2

\* Sums that differ by less than the modulus wrap to different words.
LEMMA WrapsApart ==
  ASSUME NEW x \in Nat, NEW y \in Nat, x < y, y < x + Power[FieldBytes]
  PROVE  Wrap(x) # Wrap(y)
<1> DEFINE M == Power[FieldBytes]
<1>1. M \in Nat \ {0}
  BY PowerDef, CodecAssumption
<1>4. y < x + M
  OBVIOUS
<1> HIDE DEF M
<1>2. /\ x \div M \in Nat /\ x = (x \div M) * M + (x % M) /\ x % M \in 0 .. M - 1
      /\ y \div M \in Nat /\ y = (y \div M) * M + (y % M) /\ y % M \in 0 .. M - 1
  BY <1>1, DivMod
<1> SUFFICES ASSUME x % M = y % M PROVE FALSE
  BY DEF Wrap, M
<1> DEFINE d == (y \div M) - (x \div M)
<1>3. y - x = d * M /\ d \in Int
  BY <1>1, <1>2
<1>7. y - x < M /\ y - x > 0
  BY <1>1, <1>4
<1> HIDE DEF d
<1>5. d <= 0 => d * M <= 0
  BY <1>1, <1>3
<1>6. d >= 1 => d * M >= M
  BY <1>1, <1>3
<1> QED
  BY <1>1, <1>3, <1>5, <1>6, <1>7

LEMMA ChangeIsSeen ==
  ASSUME EnableChecksum, NEW f, WellFormed(f), NEW j \in 1 .. Len(f.payload),
         NEW b \in Byte \ {f.payload[j]}
  PROVE  ~VerifyChecksum([f EXCEPT !.payload[j] = b])
<1> DEFINE g == [f EXCEPT !.payload[j] = b]
           p == f.payload
           q == [p EXCEPT ![j] = b]
<1>1. /\ f.length \in Nat /\ f.stream_id \in Nat /\ f.sequence \in Nat
      /\ p \in Seq(Byte) /\ f.checksum = CalculateChecksum(f)
  BY PowerDef, CodecAssumption DEF WellFormed, Word
<1>2. /\ g.length = f.length /\ g.stream_id = f.stream_id /\ g.sequence = f.sequence
      /\ g.checksum = f.checksum /\ g.payload = q
  BY DEF WellFormed
<1> HIDE DEF g, p, q
<1> DEFINE h == f.length + f.stream_id + f.sequence
<1>3. f.checksum = Wrap(h + ByteSum(p))
  BY <1>1, ChecksumIsSum DEF p
<1>4. CalculateChecksum(g) = Wrap(h + ByteSum(q))
  BY <1>2, ChecksumIsSum
<1>5. ByteSum(q) = ByteSum(p) - p[j] + b
  BY <1>1, SumOfChange DEF q, p
<1>6. /\ p[j] \in 0 .. Base - 1 /\ b \in 0 .. Base - 1 /\ b # p[j]
      /\ ByteSum(p) \in Nat /\ Base \in Nat /\ ByteSum(q) \in Nat
  <2>1. q \in Seq(Byte)
    BY <1>1, ExceptSeq DEF q, p
  <2>2. ByteSum(p) \in Nat /\ ByteSum(q) \in Nat
    BY <1>1, <2>1, SumIsNat
  <2>3. p[j] \in Byte
    BY <1>1, ElementOfSeq DEF p
  <2> QED BY <2>2, <2>3, CodecAssumption DEF Byte, p
<1>7. h \in Nat
  BY <1>1
<1> HIDE DEF h
<1> DEFINE x == h + ByteSum(p)
           y == h + ByteSum(q)
           M == Power[FieldBytes]
<1>8. x \in Nat /\ y \in Nat /\ x # y /\ x < y + M /\ y < x + M
  <2>1. M \in Nat /\ Base <= M
    BY BaseInPower, PowerDef, CodecAssumption
  <2> DEFINE u == ByteSum(p)
             v == ByteSum(q)
             e == b - p[j]
  <2>2. u \in Nat /\ v \in Nat /\ v = u + e /\ e \in Int
    BY <1>5, <1>6
  <2>3. e # 0 /\ e < Base /\ -e < Base
    BY <1>6
  <2> HIDE DEF M, u, v, e
  <2>4. h + u < (h + v) + M /\ h + v < (h + u) + M /\ h + u # h + v
        /\ h + u \in Nat /\ h + v \in Nat
    BY <1>6, <1>7, <2>1, <2>2, <2>3
  <2> QED BY <2>4 DEF u, v
<1> HIDE DEF x, y
<1>9. Wrap(x) # Wrap(y)
  BY <1>8, WrapsApart
<1>10. g.checksum # CalculateChecksum(g)
  BY <1>2, <1>3, <1>4, <1>9 DEF x, y
<1>11. ~VerifyChecksum(g)
  BY <1>10 DEF VerifyChecksum
<1> QED
  BY <1>11 DEF g

\* With checksums on, a byte of the payload of a frame handed on that is changed
\* makes verifyChecksum fail, in fields and bytes of any size.
THEOREM ChecksumsCatchAByte ==
  ASSUME EnableChecksum
  PROVE  Spec => []ChangedPayloadFails
<1>1. FramingInv => ChangedPayloadFails
  <2> SUFFICES ASSUME FramingInv, NEW i \in 1 .. Len(delivered),
                      NEW j \in 1 .. Len(delivered[i].payload),
                      NEW b \in Byte \ {delivered[i].payload[j]}
               PROVE  ~VerifyChecksum([delivered[i] EXCEPT !.payload[j] = b])
    BY DEF ChangedPayloadFails
  <2>1. WellFormed(delivered[i])
    BY ElementOfSeq, FramesWellFormed DEF FramingInv, Types
  <2> QED BY <2>1, ChangeIsSeen
<1> QED
  BY <1>1, FramingInvariant, PTL


-------------------------------------------------------------------------------
(* FrameHandler                                                            *)

LEMMA ConstantSequence ==
  ASSUME NEW v, NEW n \in Nat
  PROVE  [i \in 1 .. n |-> v] \in Seq({v}) /\ Len([i \in 1 .. n |-> v]) = n
<1>1. [i \in 1 .. n |-> v] \in Seq({v})
  BY IsASeq
<1>2. DOMAIN [i \in 1 .. n |-> v] = 1 .. n
  OBVIOUS
<1> QED
  BY <1>1, <1>2, LenProperties

LEMMA FlattenOne ==
  ASSUME NEW v
  PROVE  FlattenSeq([i \in 1 .. 1 |-> v]) = v
<1> DEFINE s == [i \in 1 .. 1 |-> v]
           Is(f) == f = [i \in 1 .. Len(s) |-> IF i = 1 THEN s[i] ELSE f[i - 1] \o s[i]]
           F == CHOOSE f : Is(f)
<1>1. Len(s) = 1
  BY ConstantSequence
<1>2. Is(s)
  BY <1>1
<1>3. Is(F)
  <2> HIDE DEF Is
  <2> QED BY <1>2
<1>4. FlattenSeq(s) = F[Len(s)]
  BY <1>1 DEF FlattenSeq
<1>5. F[1] = s[1]
  <2> HIDE DEF F, s
  <2> QED BY <1>1, <1>3
<1> HIDE DEF F
<1> QED
  BY <1>1, <1>4, <1>5

LEMMA FlattenNone ==
  ASSUME NEW v
  PROVE  FlattenSeq([i \in 1 .. 0 |-> v]) = << >>
<1>1. Len([i \in 1 .. 0 |-> v]) = 0 /\ [i \in 1 .. 0 |-> v] \in Seq({v})
  BY ConstantSequence
<1> QED
  BY <1>1, EmptySeq DEF FlattenSeq

LEMMA VerifiedNone == Verified(<< >>) = << >>
<1> DEFINE Is(g) == g = [t \in SUBSET DOMAIN << >> |->
                           IF t = {} THEN << >>
                           ELSE IF VerifyChecksum(<< >>[Max(t)])
                                THEN Append(g[t \ {Max(t)}], << >>[Max(t)])
                                ELSE g[t \ {Max(t)}]]
           G == CHOOSE g : Is(g)
           none == [t \in {{}} |-> << >>]
<1>1. DOMAIN << >> = {} /\ SUBSET DOMAIN << >> = {{}}
  OBVIOUS
<1>2. Is(none)
  BY <1>1
<1>3. Is(G)
  <2> HIDE DEF Is, none
  <2> QED BY <1>2
<1>4. Verified(<< >>) = G[DOMAIN << >>]
  BY DEF Verified, FoldLeft, MapThenFoldSet
<1>5. G[{}] = << >>
  <2> HIDE DEF G
  <2> QED BY <1>1, <1>3
<1> HIDE DEF G
<1> QED
  BY <1>1, <1>4, <1>5

\* What the handler does with data that is nothing but whole frames, and with data
\* that has no whole frame at its front.
LEMMA HandlesWhole ==
  ASSUME NEW data \in Seq(Byte), data # << >>, Len(data) <= MaxBufferSize,
         ProcessData(data).bytes_consumed = Len(data)
  PROVE  ProcessIncomingData(<< >>, data)
           = [handled |-> Verified(ProcessData(data).frames), buffer |-> << >>, defined |-> TRUE]
<1> DEFINE parsed == ProcessData(data)
           valid == Verified(parsed.frames)
           consumed(i) == i * parsed.bytes_consumed
           Stops(i) == /\ i = MaxIterations + 1 \/ ~Unfinished(consumed(i), Len(data))
                      /\ \A j \in 1 .. i - 1 : Unfinished(consumed(j), Len(data))
           turns == CHOOSE i \in 1 .. MaxIterations + 1 : Stops(i)
<1>1. Len(data) \in Nat \ {0} /\ << >> \o data = data /\ ~(Len(data) > MaxBufferSize)
  BY EmptySeq, HandlerAssumption
<1>2. MaxIterations + 1 \in Nat \ {0} /\ 1 \in 1 .. MaxIterations + 1
  BY HandlerAssumption
<1>3. consumed(1) = Len(data)
  BY <1>1, <1>2
<1>4. ~Unfinished(consumed(1), Len(data))
  <2> HIDE DEF consumed
  <2> QED BY <1>1, <1>3 DEF Unfinished
<1>5. turns = 1
  <2>1. Stops(1)
    <3> HIDE DEF consumed
    <3> QED BY <1>4
  <2>2. \A i \in 1 .. MaxIterations + 1 : Stops(i) => i = 1
    <3> HIDE DEF consumed
    <3> QED BY <1>2, <1>4
  <2> HIDE DEF Stops
  <2> QED BY <1>2, <2>1, <2>2
<1>6. ProcessIncomingData(<< >>, data)
        = [handled |-> FlattenSeq([i \in 1 .. turns |-> valid]),
           buffer |-> SubSeq(data, consumed(turns) + 1, Len(data)),
           defined |-> consumed(turns) <= Len(data)]
  BY <1>1, Zenon DEF ProcessIncomingData
<1> HIDE DEF turns, consumed, valid
<1>7. FlattenSeq([i \in 1 .. turns |-> valid]) = valid
  BY <1>5, FlattenOne
<1>8. SubSeq(data, consumed(turns) + 1, Len(data)) = << >>
  BY <1>1, <1>3, <1>5, SubSeqEmpty
<1>9. (consumed(turns) <= Len(data)) = TRUE
  BY <1>1, <1>3, <1>5
<1> QED
  BY <1>6, <1>7, <1>8, <1>9 DEF valid

LEMMA HandlesNone ==
  ASSUME NEW buffer \in Seq(Byte), NEW data \in Seq(Byte), data # << >>,
         Len(buffer \o data) <= MaxBufferSize,
         ProcessData(buffer \o data).bytes_consumed = 0
  PROVE  ProcessIncomingData(buffer, data)
           = [handled |-> << >>, buffer |-> buffer \o data, defined |-> TRUE]
<1> DEFINE all == buffer \o data
           parsed == ProcessData(all)
           valid == Verified(parsed.frames)
           consumed(i) == i * parsed.bytes_consumed
<1>1. all \in Seq(Byte) /\ Len(all) \in Nat /\ ~(Len(all) > MaxBufferSize)
  BY LenProperties, HandlerAssumption
<1>2. consumed(0) = 0 /\ parsed.bytes_consumed = 0
  OBVIOUS
<1>3. ProcessIncomingData(buffer, data)
        = [handled |-> FlattenSeq([i \in 1 .. 0 |-> valid]),
           buffer |-> SubSeq(all, consumed(0) + 1, Len(all)),
           defined |-> consumed(0) <= Len(all)]
  BY <1>1, <1>2, Zenon DEF ProcessIncomingData
<1> HIDE DEF consumed, valid, all
<1>4. FlattenSeq([i \in 1 .. 0 |-> valid]) = << >>
  BY FlattenNone
<1>5. SubSeq(all, consumed(0) + 1, Len(all)) = all
  BY <1>1, <1>2, SubSeqFull
<1>6. (consumed(0) <= Len(all)) = TRUE
  BY <1>1, <1>2
<1>7. ProcessIncomingData(buffer, data) = [handled |-> << >>, buffer |-> all, defined |-> TRUE]
  BY <1>3, <1>4, <1>5, <1>6
<1> QED
  BY <1>7 DEF all

\* Data without a whole frame at its front is parsed to nothing.
LEMMA ParsesNone ==
  ASSUME NEW data \in Seq(Byte), ~HasFrame(data)
  PROVE  ProcessData(data).frames = << >> /\ ProcessData(data).bytes_consumed = 0
<1>1. PICK p : Parses(p, data) /\ ProcessData(data) = p[0]
  BY ParseIs
<1>2. 0 \in 0 .. Len(data) /\ Rest(data, 0) = data
  BY LenProperties, SubSeqFull DEF Rest
<1>3. p[0] = NoMore(0)
  BY <1>1, <1>2 DEF Parses
<1> QED
  BY <1>1, <1>3 DEF NoMore

THEOREM WholeFramesHandledOnce == Spec => []WholeDataHandledOnce
<1>1. FramingInv => WholeDataHandledOnce
  <2> SUFFICES ASSUME FramingInv PROVE WholeDataHandledOnce
    OBVIOUS
  <2> DEFINE parsed == ProcessData(pipe)
  <2>1. pipe \in Seq(Byte) /\ frameBuffer \in Seq(Byte)
    BY DEF FramingInv, Types
  <2>2. ASSUME parsed.bytes_consumed = Len(pipe), Len(pipe) <= MaxBufferSize
        PROVE  ProcessIncomingData(<< >>, pipe)
                 = [handled |-> Verified(parsed.frames), buffer |-> << >>, defined |-> TRUE]
    <3>1. CASE pipe = << >>
      <4>1. ~HasFrame(<< >>)
        BY EmptySeq, CodecAssumption DEF HasFrame, HeaderSize
      <4>2. parsed.frames = << >>
        BY <2>1, <3>1, <4>1, ParsesNone
      <4> QED BY <3>1, <4>2, VerifiedNone DEF ProcessIncomingData
    <3>2. CASE pipe # << >>
      BY <2>1, <2>2, <3>2, HandlesWhole
    <3> QED BY <3>1, <3>2
  <2>3. ASSUME pipe # << >>, ~HasFrame(frameBuffer \o <<Head(pipe)>>),
               Len(frameBuffer) < MaxBufferSize
        PROVE  ProcessIncomingData(frameBuffer, <<Head(pipe)>>)
                 = [handled |-> << >>, buffer |-> frameBuffer \o <<Head(pipe)>>,
                    defined |-> TRUE]
    <3> DEFINE data == <<Head(pipe)>>
    <3>1. data \in Seq(Byte) /\ data # << >> /\ Len(data) = 1
      BY <2>1, <2>3, HeadTailProperties
    <3>2. /\ frameBuffer \o data \in Seq(Byte)
          /\ Len(frameBuffer \o data) = Len(frameBuffer) + 1 /\ Len(frameBuffer) \in Nat
      BY <2>1, <3>1, ConcatProperties, LenProperties
    <3>3. Len(frameBuffer \o data) <= MaxBufferSize
      BY <2>3, <3>2, HandlerAssumption
    <3>4. ProcessData(frameBuffer \o data).bytes_consumed = 0
      <4>1. ~HasFrame(frameBuffer \o data)
        BY <2>3
      <4> HIDE DEF data
      <4> QED BY <3>2, <4>1, ParsesNone
    <3> HIDE DEF data
    <3>5. ProcessIncomingData(frameBuffer, data)
            = [handled |-> << >>, buffer |-> frameBuffer \o data, defined |-> TRUE]
      BY <2>1, <3>1, <3>3, <3>4, HandlesNone
    <3> QED BY <3>5 DEF data
  <2> QED
    BY <2>2, <2>3 DEF WholeDataHandledOnce
<1> QED
  BY <1>1, FramingInvariant, PTL
===============================================================================
