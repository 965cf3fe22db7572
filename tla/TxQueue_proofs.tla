--------------------------- MODULE TxQueue_proofs ---------------------------
(***************************************************************************)
(* Theorems about TxQueue, for every number of stations, queues and        *)
(* senders: types, the invariant of the queues while no station comes or   *)
(* goes and no frame is confirmed, and what follows from it at once.  The  *)
(* counters the driver keeps by hand are sums over queues; the first part  *)
(* is about such sums, as the fold of the community modules computes them. *)
(***************************************************************************)
EXTENDS TxQueue, FiniteSetTheorems, WellFoundedInduction, TLAPS

-----------------------------------------------------------------------------
(* Sums over finite sets *)

\* A set of numbers that is not empty has a least one.
LEMMA LeastOfNat ==
    ASSUME NEW P, P \subseteq Nat, P # {}
    PROVE  \E m \in P : \A k \in P : m <= k
<1>1. PICK m \in P : \A k \in P : ~(<<k, m>> \in OpToRel(<, Nat))
  BY NatLessThanWellFounded, WFMin
<1>2. \A k \in P : ~(k < m)
  BY <1>1 DEF OpToRel
<1> QED BY <1>2

Chosen(T) == CHOOSE x \in T : TRUE

LEMMA ChosenIn == ASSUME NEW T, T # {} PROVE Chosen(T) \in T
BY DEF Chosen

\* g gives the sum of f over each subset of S.
IsSums(g, f, S) ==
    g = [T \in SUBSET S |-> IF T = {} THEN 0
                            ELSE LET x == Chosen(T) IN f[x] + g[T \ {x}]]
Partial(f, S) == CHOOSE g : IsSums(g, f, S)

LEMMA SumFun ==
    ASSUME NEW S, IsFiniteSet(S), NEW f, \A x \in S : f[x] \in Int
    PROVE  \E g \in [SUBSET S -> Int] : IsSums(g, f, S)
<1> DEFINE Rhs(g, T) == IF T = {} THEN 0
                        ELSE LET x == Chosen(T) IN f[x] + g[T \ {x}]
           Bad == {n \in Nat : ~ \E g \in [SUBSET S -> Int] :
                    \A T \in SUBSET S : Cardinality(T) <= n => g[T] = Rhs(g, T)}
<1>0. \A T \in SUBSET S : IsFiniteSet(T) /\ Cardinality(T) \in Nat /\ Cardinality(T) <= Cardinality(S)
  BY FS_Subset, FS_CardinalityType
<1>1. Cardinality(S) \notin Bad
  <2>1. SUFFICES ASSUME Bad # {} PROVE FALSE
    BY FS_CardinalityType
  <2>2. PICK m \in Bad : \A k \in Bad : m <= k
    <3>1. Bad \subseteq Nat
      OBVIOUS
    <3> HIDE DEF Bad
    <3> QED BY <2>1, <3>1, LeastOfNat
  <2>3. m # 0
    <3>1. SUFFICES ASSUME m = 0 PROVE FALSE
      OBVIOUS
    <3> DEFINE g == [T \in SUBSET S |-> 0]
    <3>2. \A T \in SUBSET S : Cardinality(T) <= 0 => g[T] = Rhs(g, T)
      BY <1>0, FS_EmptySet
    <3>3. g \in [SUBSET S -> Int]
      OBVIOUS
    <3> HIDE DEF g
    <3> QED BY <2>2, <3>1, <3>2, <3>3
  <2>4. m - 1 \in Nat /\ m - 1 \notin Bad
    <3>1. m \in Nat
      BY <2>2
    <3> HIDE DEF Bad
    <3> QED BY <2>2, <2>3, <3>1
  <2>5. PICK g \in [SUBSET S -> Int] :
            \A T \in SUBSET S : Cardinality(T) <= m - 1 => g[T] = Rhs(g, T)
    BY <2>4
  <2> DEFINE h == [T \in SUBSET S |-> IF Cardinality(T) = m THEN Rhs(g, T) ELSE g[T]]
  <2>6. h \in [SUBSET S -> Int]
    <3>1. ASSUME NEW T \in SUBSET S PROVE Rhs(g, T) \in Int
      BY ChosenIn
    <3> QED BY <3>1
  <2>7. ASSUME NEW T \in SUBSET S, Cardinality(T) <= m PROVE h[T] = Rhs(h, T)
    <3>1. CASE T = {}
      BY <3>1, <2>3, <2>5, FS_EmptySet
    <3>2. CASE T # {}
      <4> DEFINE x == Chosen(T)
      <4>1. x \in T
        BY <3>2, ChosenIn
      <4>2. Cardinality(T \ {x}) = Cardinality(T) - 1
        BY <4>1, <1>0, FS_RemoveElement
      <4>3. h[T \ {x}] = g[T \ {x}]
        BY <4>2, <2>7, <2>2, <1>0
      <4>4. Rhs(h, T) = Rhs(g, T)
        BY <4>3, <3>2
      <4>5. h[T] = Rhs(g, T)
        BY <2>5, <2>7, <1>0, <2>2
      <4> QED BY <4>4, <4>5
    <3> QED BY <3>1, <3>2
  <2>8. m \notin Bad
    <3> HIDE DEF h
    <3> QED BY <2>6, <2>7
  <2> QED BY <2>2, <2>8
<1>2. PICK g \in [SUBSET S -> Int] :
          \A T \in SUBSET S : Cardinality(T) <= Cardinality(S) => g[T] = Rhs(g, T)
  BY <1>1, FS_CardinalityType
<1>3. \A T \in SUBSET S : g[T] = Rhs(g, T)
  BY <1>0, <1>2
<1> QED BY <1>3 DEF IsSums


LEMMA Subsets ==
    ASSUME NEW S, IsFiniteSet(S), NEW P, {} \in P,
           \A T \in SUBSET S : T # {} /\ T \ {Chosen(T)} \in P => T \in P
    PROVE  SUBSET S \subseteq P
<1> DEFINE Bad == {n \in Nat : \E T \in SUBSET S : Cardinality(T) = n /\ T \notin P}
<1>0. \A T \in SUBSET S : IsFiniteSet(T) /\ Cardinality(T) \in Nat
  BY FS_Subset, FS_CardinalityType
<1>1. SUFFICES ASSUME Bad # {} PROVE FALSE
  BY <1>0
<1>2. PICK m \in Bad : \A k \in Bad : m <= k
  <2>1. Bad \subseteq Nat
    OBVIOUS
  <2> HIDE DEF Bad
  <2> QED BY <1>1, <2>1, LeastOfNat
<1>3. PICK T \in SUBSET S : Cardinality(T) = m /\ T \notin P
  BY <1>2
<1>4. T # {}
  BY <1>3
<1> DEFINE x == Chosen(T)
<1>5. x \in T
  BY <1>4, ChosenIn
<1>6. Cardinality(T \ {x}) = m - 1 /\ m - 1 \in Nat
  <2>1. IsFiniteSet(T) /\ T \ {x} \in SUBSET S
    BY <1>0
  <2>2. Cardinality(T \ {x}) = Cardinality(T) - 1
    BY <2>1, <1>5, FS_RemoveElement
  <2>3. Cardinality(T \ {x}) \in Nat
    BY <2>1, <1>0
  <2> QED BY <1>3, <2>2, <2>3
<1>7. T \ {x} \notin P
  BY <1>3, <1>4
<1>8. m - 1 \in Bad
  BY <1>6, <1>7
<1> QED BY <1>8, <1>2

LEMMA PartialSums ==
    ASSUME NEW S, IsFiniteSet(S), NEW f, \A x \in S : f[x] \in Int
    PROVE  /\ Partial(f, S) \in [SUBSET S -> Int]
           /\ Partial(f, S)[{}] = 0
           /\ \A T \in SUBSET S : T # {} =>
                Partial(f, S)[T] = f[Chosen(T)] + Partial(f, S)[T \ {Chosen(T)}]
<1> DEFINE h == Partial(f, S)
<1>4. IsSums(h, f, S)
  BY SumFun DEF Partial
<1> HIDE DEF h
<1>5. h[{}] = 0
  BY <1>4 DEF IsSums
<1>6. \A T \in SUBSET S : T # {} => h[T] = f[Chosen(T)] + h[T \ {Chosen(T)}]
  BY <1>4 DEF IsSums
<1>7. h \in [SUBSET S -> Int]
  <2> DEFINE P == {T \in SUBSET S : h[T] \in Int}
  <2>1. {} \in P
    BY <1>5
  <2>2. ASSUME NEW T \in SUBSET S, T # {}, T \ {Chosen(T)} \in P
        PROVE  T \in P
    BY <2>2, <1>6, ChosenIn
  <2>3. SUBSET S \subseteq P
    <3> HIDE DEF P
    <3> QED BY <2>1, <2>2, Subsets
  <2> QED BY <2>3, <1>4 DEF IsSums
<1> QED BY <1>5, <1>6, <1>7 DEF h

LEMMA SumPartial ==
    ASSUME NEW S, NEW f
    PROVE  SumFunctionOnSet(f, S) = Partial(f, S)[S]
BY DEF SumFunctionOnSet, FoldFunctionOnSet, MapThenFoldSet, Partial, IsSums, Chosen

LEMMA SumPlus ==
    ASSUME NEW S, IsFiniteSet(S), NEW f, NEW g, NEW d,
           \A x \in S : f[x] \in Int /\ d[x] \in Int /\ g[x] = f[x] + d[x]
    PROVE  SumFunctionOnSet(g, S) = SumFunctionOnSet(f, S) + SumFunctionOnSet(d, S)
<1> DEFINE F == Partial(f, S)  G == Partial(g, S)  D == Partial(d, S)
           P == {T \in SUBSET S : G[T] = F[T] + D[T]}
<1>0. (\A x \in S : f[x] \in Int) /\ (\A x \in S : d[x] \in Int)
  OBVIOUS
<1>1. \A x \in S : g[x] \in Int
  OBVIOUS
<1>2. /\ F \in [SUBSET S -> Int] /\ F[{}] = 0
      /\ \A T \in SUBSET S : T # {} => F[T] = f[Chosen(T)] + F[T \ {Chosen(T)}]
  BY <1>0, PartialSums, ZenonT(40)
<1>3. /\ G \in [SUBSET S -> Int] /\ G[{}] = 0
      /\ \A T \in SUBSET S : T # {} => G[T] = g[Chosen(T)] + G[T \ {Chosen(T)}]
  BY <1>1, PartialSums, ZenonT(40)
<1>4. /\ D \in [SUBSET S -> Int] /\ D[{}] = 0
      /\ \A T \in SUBSET S : T # {} => D[T] = d[Chosen(T)] + D[T \ {Chosen(T)}]
  BY <1>0, PartialSums, ZenonT(40)
<1> HIDE DEF F, G, D
<1>5. {} \in P
  BY <1>2, <1>3, <1>4
<1>6. ASSUME NEW T \in SUBSET S, T # {}, T \ {Chosen(T)} \in P PROVE T \in P
  <2>1. Chosen(T) \in S /\ T \ {Chosen(T)} \in SUBSET S
    BY <1>6, ChosenIn
  <2> QED BY <2>1, <1>2, <1>3, <1>4, <1>6
<1>7. S \in P
  <2> HIDE DEF P
  <2> QED BY <1>5, <1>6, Subsets
<1> QED BY <1>7, SumPartial DEF F, G, D

LEMMA SumNat ==
    ASSUME NEW S, IsFiniteSet(S), NEW f, \A x \in S : f[x] \in Nat
    PROVE  /\ SumFunctionOnSet(f, S) \in Nat
           /\ \A x \in S : f[x] <= SumFunctionOnSet(f, S)
<1> DEFINE F == Partial(f, S)
           P == {T \in SUBSET S : F[T] \in Nat /\ \A x \in T : f[x] <= F[T]}
<1>1. \A x \in S : f[x] \in Int
  OBVIOUS
<1>2. /\ F \in [SUBSET S -> Int] /\ F[{}] = 0
      /\ \A T \in SUBSET S : T # {} => F[T] = f[Chosen(T)] + F[T \ {Chosen(T)}]
  BY <1>1, PartialSums
<1> HIDE DEF F
<1>5. {} \in P
  BY <1>2
<1>6. ASSUME NEW T \in SUBSET S, T # {}, T \ {Chosen(T)} \in P PROVE T \in P
  <2>1. Chosen(T) \in S /\ T \ {Chosen(T)} \in SUBSET S
    BY <1>6, ChosenIn
  <2>2. F[T] = f[Chosen(T)] + F[T \ {Chosen(T)}] /\ F[T \ {Chosen(T)}] \in Nat
    BY <1>2, <1>6
  <2>3. ASSUME NEW x \in T PROVE f[x] <= F[T]
    BY <2>1, <2>2, <1>6
  <2>4. F[T] \in Nat
    BY <2>1, <2>2
  <2> QED BY <2>3, <2>4
<1>7. S \in P
  <2> HIDE DEF P
  <2> QED BY <1>5, <1>6, Subsets
<1> QED BY <1>7, SumPartial DEF F

LEMMA SumBound ==
    ASSUME NEW S, IsFiniteSet(S), NEW f, NEW m \in Nat,
           \A x \in S : f[x] \in Nat /\ f[x] <= m
    PROVE  SumFunctionOnSet(f, S) <= m * Cardinality(S)
<1> DEFINE F == Partial(f, S)
           P == {T \in SUBSET S : F[T] <= m * Cardinality(T)}
<1>1. \A x \in S : f[x] \in Int
  OBVIOUS
<1>2. /\ F \in [SUBSET S -> Int] /\ F[{}] = 0
      /\ \A T \in SUBSET S : T # {} => F[T] = f[Chosen(T)] + F[T \ {Chosen(T)}]
  BY <1>1, PartialSums
<1> HIDE DEF F
<1>5. {} \in P
  BY <1>2, FS_EmptySet
<1>6. ASSUME NEW T \in SUBSET S, T # {}, T \ {Chosen(T)} \in P PROVE T \in P
  <2>1. Chosen(T) \in T /\ Chosen(T) \in S /\ T \ {Chosen(T)} \in SUBSET S
    BY <1>6, ChosenIn
  <2>2. F[T] = f[Chosen(T)] + F[T \ {Chosen(T)}] /\ F[T \ {Chosen(T)}] \in Int
    BY <1>2, <1>6
  <2>3. IsFiniteSet(T)
    BY FS_Subset
  <2>4. Cardinality(T \ {Chosen(T)}) = Cardinality(T) - 1 /\ Cardinality(T) \in Nat
    BY <2>1, <2>3, FS_RemoveElement, FS_CardinalityType
  <2>5. m * (Cardinality(T) - 1) = m * Cardinality(T) - m
    BY <2>4
  <2>6. F[T \ {Chosen(T)}] <= m * Cardinality(T) - m
    BY <2>4, <2>5, <1>6
  <2>7. m * Cardinality(T) \in Nat
    BY <2>4
  <2> QED BY <2>1, <2>2, <2>6, <2>7
<1>7. S \in P
  <2> HIDE DEF P
  <2> QED BY <1>5, <1>6, Subsets
<1> QED BY <1>7, SumPartial DEF F

LEMMA SumZero ==
    ASSUME NEW S, IsFiniteSet(S), NEW f, \A x \in S : f[x] = 0
    PROVE  SumFunctionOnSet(f, S) = 0
<1>1. SumFunctionOnSet(f, S) <= 0 * Cardinality(S)
  BY SumBound
<1>2. SumFunctionOnSet(f, S) \in Nat
  BY SumNat
<1>3. Cardinality(S) \in Nat
  BY FS_CardinalityType
<1> QED BY <1>1, <1>2, <1>3

LEMMA SumSame ==
    ASSUME NEW S, IsFiniteSet(S), NEW f, NEW g,
           \A x \in S : f[x] \in Int /\ g[x] = f[x]
    PROVE  SumFunctionOnSet(g, S) = SumFunctionOnSet(f, S)
<1> DEFINE d == [x \in S |-> 0]
<1>1. SumFunctionOnSet(d, S) = 0
  <2>1. \A x \in S : d[x] = 0
    OBVIOUS
  <2> HIDE DEF d
  <2> QED BY <2>1, SumZero
<1>2. SumFunctionOnSet(g, S) = SumFunctionOnSet(f, S) + SumFunctionOnSet(d, S)
  <2>1. \A x \in S : f[x] \in Int /\ d[x] \in Int /\ g[x] = f[x] + d[x]
    OBVIOUS
  <2> HIDE DEF d
  <2> QED BY <2>1, SumPlus
<1>3. SumFunctionOnSet(f, S) \in Int
  BY SumPartial, PartialSums
<1> QED BY <1>1, <1>2, <1>3

\* A single member of S contributes.
LEMMA SumOne ==
    ASSUME NEW S, IsFiniteSet(S), NEW f, NEW q \in S, f[q] \in Int,
           \A x \in S : x # q => f[x] = 0
    PROVE  SumFunctionOnSet(f, S) = f[q]
<1> DEFINE F == Partial(f, S)
           P == {T \in SUBSET S : F[T] = IF q \in T THEN f[q] ELSE 0}
<1>1. \A x \in S : f[x] \in Int
  OBVIOUS
<1>2. /\ F \in [SUBSET S -> Int] /\ F[{}] = 0
      /\ \A T \in SUBSET S : T # {} => F[T] = f[Chosen(T)] + F[T \ {Chosen(T)}]
  BY <1>1, PartialSums
<1> HIDE DEF F
<1>5. {} \in P
  BY <1>2
<1>6. ASSUME NEW T \in SUBSET S, T # {}, T \ {Chosen(T)} \in P PROVE T \in P
  <2>1. Chosen(T) \in T /\ Chosen(T) \in S /\ T \ {Chosen(T)} \in SUBSET S
    BY <1>6, ChosenIn
  <2>2. F[T] = f[Chosen(T)] + F[T \ {Chosen(T)}]
    BY <1>2, <1>6
  <2>3. F[T \ {Chosen(T)}] = IF q \in T \ {Chosen(T)} THEN f[q] ELSE 0
    BY <1>6
  <2>4. CASE Chosen(T) = q
    BY <2>1, <2>2, <2>3, <2>4
  <2>5. CASE Chosen(T) # q
    BY <2>1, <2>2, <2>3, <2>5
  <2> QED BY <2>4, <2>5
<1>7. S \in P
  <2> HIDE DEF P
  <2> QED BY <1>5, <1>6, Subsets
<1> QED BY <1>7, SumPartial DEF F

-----------------------------------------------------------------------------
(* Types *)

LEMMA Constants ==
    /\ IsFiniteSet(Txqs) /\ CountMod \in Nat \ {0} /\ CREDITS \in Nat \ {0}
    /\ CreditMax \in Nat
    /\ \A q \in Txqs : StaOf[q] \in Stas /\ HwqOf[q] \in Hwqs /\ PsOf[q] \in PsIds
    /\ NoSender \notin Senders
    /\ Cardinality(Txqs) \in Nat
<1>1. Cardinality(Txqs) \in Nat
  BY TxQueueAssumption, FS_CardinalityType
<1>2. MaxLen * Cardinality(Txqs) \in Nat
  BY <1>1, TxQueueAssumption
<1>3. CountMod \in Nat /\ MaxLen * Cardinality(Txqs) < CountMod
  BY TxQueueAssumption
<1>4. CountMod # 0
  BY <1>2, <1>3
<1> QED BY <1>1, <1>3, <1>4, TxQueueAssumption

LEMMA Wraps ==
    ASSUME NEW a \in Int
    PROVE  a % CountMod \in Count
BY Constants DEF Count

LEMMA NoWrap ==
    ASSUME NEW a \in Nat, a < CountMod
    PROVE  a % CountMod = a
BY Constants

LEMMA ModAtMost ==
    ASSUME NEW a \in Nat
    PROVE  a % CountMod \in Nat /\ a % CountMod <= a
BY Constants

LEMMA PsQueues ==
    ASSUME NEW s, NEW p
    PROVE  /\ TxqsOfPs(s, p) \subseteq Txqs /\ IsFiniteSet(TxqsOfPs(s, p))
           /\ DataTxqsOf(s, p) \subseteq TxqsOfPs(s, p)
           /\ Cardinality(TxqsOfPs(s, p)) \in Nat
           /\ Cardinality(TxqsOfPs(s, p)) <= Cardinality(Txqs)
<1>1. TxqsOfPs(s, p) \subseteq Txqs
  BY DEF TxqsOfPs, TxqsOf
<1>2. IsFiniteSet(TxqsOfPs(s, p)) /\ Cardinality(TxqsOfPs(s, p)) <= Cardinality(Txqs)
  BY <1>1, Constants, FS_Subset
<1> QED BY <1>1, <1>2, FS_CardinalityType DEF DataTxqsOf

LEMMA PerPsNat ==
    ASSUME NEW s, NEW f, \A q \in Txqs : f[q] \in Nat
    PROVE  PerPs(s, f) \in [PsIds -> Nat]
<1>1. ASSUME NEW p PROVE SumFunctionOnSet(f, TxqsOfPs(s, p)) \in Nat
  <2>1. TxqsOfPs(s, p) \subseteq Txqs /\ IsFiniteSet(TxqsOfPs(s, p))
    BY PsQueues
  <2>2. \A q \in TxqsOfPs(s, p) : f[q] \in Nat
    BY <2>1
  <2> QED BY <2>1, <2>2, SumNat
<1> QED BY <1>1 DEF PerPs

LEMMA ListType ==
    ASSUME NEW t \in Queue
    PROVE  AddToHwList(t) \in Queue /\ DelFromHwList(t) \in Queue
<1>0. t.links + 1 \in Int /\ t.links - 1 \in Int
  BY DEF Queue
<1>1. \A n \in Int, b \in BOOLEAN :
        [t EXCEPT !.listed = b, !.links = n] \in Queue
  BY DEF Queue
<1>2. /\ [t EXCEPT !.listed = TRUE, !.links = t.links + 1] \in Queue
      /\ [t EXCEPT !.listed = FALSE, !.links = t.links - 1] \in Queue
  BY <1>0, <1>1
<1> QED BY <1>1, <1>2 DEF AddToHwList, DelFromHwList

LEMMA ReadyType ==
    ASSUME NEW t \in Queue
    PROVE  ReadyToSend(t) \in Queue
BY ListType DEF ReadyToSend

LEMMA StartType ==
    ASSUME NEW t \in Queue, NEW r
    PROVE  Start(t, r) \in Queue
<1>1. [t EXCEPT !.stop = t.stop \ {r}] \in Queue
  BY DEF Queue
<1> QED BY <1>1, ReadyType DEF Start

LEMMA StopType ==
    ASSUME NEW t \in Queue, NEW r \in Reasons
    PROVE  Stop(t, r) \in Queue
<1>1. [t EXCEPT !.stop = t.stop \cup {r}] \in Queue
  BY DEF Queue
<1> QED BY <1>1, ListType DEF Stop

LEMMA FlowStopType ==
    ASSUME NEW q, NEW t \in Queue
    PROVE  FlowStop(q, t) \in Queue
BY DEF FlowStop, Queue

LEMMA TakenType ==
    ASSUME NEW t \in Queue, t.credits > 0
    PROVE  Taken(t) \in Nat /\ Taken(t) <= Len(t.sk_list) /\ LimitLeft(t) \in Nat
<1>1. t.credits \in Int /\ t.push_limit \in Nat /\ Len(t.sk_list) \in Nat
  BY DEF Queue
<1>2. Allowed(t) \in Nat
  BY <1>1 DEF Allowed
<1> QED BY <1>1, <1>2 DEF Taken, LimitLeft

\* What n frames taken from the head of a list leave.
LEMMA DropFrames ==
    ASSUME NEW seq \in Seq(Frames), NEW n \in Nat, n <= Len(seq)
    PROVE  /\ SubSeq(seq, n + 1, Len(seq)) \in Seq(Frames)
           /\ Len(SubSeq(seq, n + 1, Len(seq))) = Len(seq) - n
           /\ SubSeq(seq, n + 1, Len(seq)) = <<>> <=> n = Len(seq)
<1>1. Len(seq) \in Nat /\ \A i \in 1..Len(seq) : seq[i] \in Frames
  OBVIOUS
<1>2. /\ SubSeq(seq, n + 1, Len(seq)) \in Seq(Frames)
      /\ Len(SubSeq(seq, n + 1, Len(seq))) = Len(seq) - n
  BY <1>1
<1>3. \A u \in Seq(Frames) : u = <<>> <=> Len(u) = 0
  OBVIOUS
<1> DEFINE u == SubSeq(seq, n + 1, Len(seq))
<1>4. u = <<>> <=> n = Len(seq)
  <2> HIDE DEF u
  <2>1. u \in Seq(Frames) /\ Len(u) = Len(seq) - n
    BY <1>2 DEF u
  <2> QED BY <1>1, <1>3, <2>1
<1> QED BY <1>2, <1>4

LEMMA PassType ==
    ASSUME NEW q, NEW t \in Queue, t.active => t.credits > 0, tbusy \in BOOLEAN
    PROVE  Pass(q, t) \in Queue
<1>1. CASE ~t.active
  <2>1. Pass(q, t) = [DelFromHwList(t) EXCEPT !.sk_list = <<>>]
    BY <1>1 DEF Pass
  <2>2. DelFromHwList(t) \in Queue
    BY ListType
  <2>3. <<>> \in Seq(Frames)
    OBVIOUS
  <2> QED BY <2>1, <2>2, <2>3 DEF Queue
<1>2. CASE t.active
  <2> DEFINE n == Taken(t)
             pushed == [t EXCEPT !.sk_list = SubSeq(t.sk_list, n + 1, Len(t.sk_list)),
                            !.push_limit = IF PsOf[q] = "LEGACY" THEN 0
                                           ELSE LimitLeft(t)]
             kept == IF Finished(t) THEN DelFromHwList(pushed) ELSE pushed
  <2>1. n \in Nat /\ n <= Len(t.sk_list) /\ LimitLeft(t) \in Nat
    BY <1>2, TakenType
  <2>2. SubSeq(t.sk_list, n + 1, Len(t.sk_list)) \in Seq(Frames)
    BY <2>1, DropFrames DEF Queue
  <2>3. pushed \in Queue
    BY <2>1, <2>2 DEF Queue
  <2>4. kept \in Queue
    <3> HIDE DEF pushed
    <3> QED BY <2>3, ListType
  <2>5. Pass(q, t) = IF kept.flow /\ Len(kept.sk_list) < FLOW_RESTART
                     THEN [kept EXCEPT !.flow = FALSE, !.closed = tbusy /\ t.closed]
                     ELSE kept
    BY <1>2 DEF Pass
  <2>6. t.closed \in BOOLEAN
    BY DEF Queue
  <2> HIDE DEF kept
  <2> QED BY <2>4, <2>5, <2>6 DEF Queue
<1> QED BY <1>1, <1>2

LEMMA EapolsNat ==
    ASSUME NEW seq \in Seq(Frames)
    PROVE  Eapols(seq) \in Nat
<1>1. DOMAIN seq = 1..Len(seq) /\ Len(seq) \in Nat
  OBVIOUS
<1>2. IsFiniteSet(1..Len(seq))
  BY <1>1, FS_Interval
<1>3. IsFiniteSet({i \in DOMAIN seq : seq[i] = "eapol"})
  BY <1>1, <1>2, FS_Subset
<1> QED BY <1>3, FS_CardinalityType DEF Eapols

\* What XmitState and RxState say of the threads.
LEMMA LinkedType ==
    ASSUME NEW t \in Queue, NEW n \in Int, NEW a \in SUBSET Reasons, NEW b \in BOOLEAN
    PROVE  [t EXCEPT !.listed = TRUE, !.links = n, !.stop = a, !.flow = b] \in Queue
BY DEF Queue

LEMMA Threads ==
    ASSUME TypeOK
    PROVE  /\ \A x \in Senders :
                /\ xmit[x].pc \in {"checked", "queued"} => xmit[x].q \in Txqs
                /\ xmit[x].pc = "checked" => xmit[x].frame \in Frames
           /\ rx.pc = "ps" => rx.s \in Stas /\ rx.on \in BOOLEAN
           /\ rx.pc \in {"retry", "link", "insert", "linked"} => rx.q \in Txqs
           /\ rx.pc = "insert" => rx.ps \in BOOLEAN /\ rx.old \in Count
           /\ rx.pc = "linked" => rx.stop \in SUBSET Reasons /\ rx.flow \in BOOLEAN
<1>1. \A e \in XmitState : /\ e.pc \in {"checked", "queued"} => e.q \in Txqs
                           /\ e.pc = "checked" => e.frame \in Frames
  BY DEF XmitState, XIdle
<1>2. \A e \in RxState :
         /\ e.pc = "ps" => e.s \in Stas /\ e.on \in BOOLEAN
         /\ e.pc \in {"retry", "link", "insert", "linked"} => e.q \in Txqs
         /\ e.pc = "insert" => e.ps \in BOOLEAN /\ e.old \in Count
         /\ e.pc = "linked" => e.stop \in SUBSET Reasons /\ e.flow \in BOOLEAN
  BY DEF RxState, RxIdle
<1> QED BY <1>1, <1>2 DEF TypeOK

LEMMA NeedType == NeedAfter(txq') \in [Hwqs -> BOOLEAN]
BY DEF NeedAfter

LEMMA CountDownType ==
    ASSUME TypeOK, NEW s \in Stas, NEW out \in [PsIds -> Nat],
           NEW lost \in [PsIds -> Nat]
    PROVE  CountDown(s, out, lost) \in Station
<1> DEFINE ready == [p \in PsIds |-> IF ~sta[s].ps THEN sta[s].ready[p]
                                  ELSE (sta[s].ready[p] - out[p]) % CountMod]
           sp == [p \in PsIds |-> (sta[s].sp[p] - lost[p]
                                     - (IF ~sta[s].ps THEN 0 ELSE out[p])) % CountMod]
           tim == [p \in PsIds |-> sta[s].tim[p] /\
                                     (~sta[s].ps \/ out[p] = 0 \/ ready[p] # 0)]
<1>1. sta[s] \in Station
  BY DEF TypeOK
<1>2. \A p \in PsIds : sta[s].ready[p] \in Count /\ sta[s].sp[p] \in Count
  BY <1>1 DEF Station
<1>3. Count \subseteq Int
  BY Constants DEF Count
<1>4. ready \in [PsIds -> Count]
  <2>1. ASSUME NEW p \in PsIds PROVE (sta[s].ready[p] - out[p]) % CountMod \in Count
    <3>0. out[p] \in Nat
      OBVIOUS
    <3>1. sta[s].ready[p] \in Int
      BY <1>2, <1>3, Zenon
    <3>2. \A a, b \in Int : a - b \in Int
      OBVIOUS
    <3>3. sta[s].ready[p] - out[p] \in Int
      BY <3>0, <3>1, <3>2
    <3> QED BY <3>3, Wraps
  <2> QED BY <2>1, <1>2
<1>5. sp \in [PsIds -> Count]
  <2>1. ASSUME NEW p \in PsIds, NEW n \in Nat
        PROVE  (sta[s].sp[p] - lost[p] - n) % CountMod \in Count
    <3>0. lost[p] \in Nat
      OBVIOUS
    <3>1. sta[s].sp[p] \in Int
      BY <1>2, <1>3, Zenon
    <3>2. \A a, b, c \in Int : a - b - c \in Int
      OBVIOUS
    <3>3. sta[s].sp[p] - lost[p] - n \in Int
      BY <3>0, <3>1, <3>2
    <3> QED BY <3>3, Wraps
  <2> QED BY <2>1
<1>6. tim \in [PsIds -> BOOLEAN]
  OBVIOUS
<1>7. CountDown(s, out, lost) = [sta[s] EXCEPT !.ready = ready, !.sp = sp, !.tim = tim]
  BY DEF CountDown
<1> HIDE DEF ready, sp, tim
<1> QED BY <1>1, <1>4, <1>5, <1>6, <1>7 DEF Station

LEMMA ProcessType ==
    ASSUME TypeOK, NEW H, Process(H)
    PROVE  /\ txq' \in [Txqs -> Queue] /\ sta' \in [Stas -> Station]
           /\ need' \in [Hwqs -> BOOLEAN] /\ fw' \in [Txqs -> Nat]
           /\ bug' \in BOOLEAN
<1>1. CASE \E q \in Work(H) : Broken(txq[q])
  BY <1>1 DEF Process, TypeOK
<1>2. CASE ~ \E q \in Work(H) : Broken(txq[q])
  <2>0. Work(H) \subseteq Txqs
    BY DEF Work
  <2>1. \A q \in Txqs : txq[q] \in Queue
    BY DEF TypeOK
  <2>2. \A q \in Work(H) : txq[q].active => txq[q].credits > 0
    BY <1>2, <2>0, <2>1 DEF Broken, Queue
  <2>3. \A q \in Txqs : Pushed(H)[q] \in Nat /\ Pushed(H)[q] <= Len(txq[q].sk_list)
    <3>1. ASSUME NEW q \in Txqs, q \in Work(H), txq[q].active
          PROVE  Taken(txq[q]) \in Nat /\ Taken(txq[q]) <= Len(txq[q].sk_list)
      BY <2>1, <2>2, <3>1, TakenType
    <3>2. \A q \in Txqs : Len(txq[q].sk_list) \in Nat
      BY <2>1 DEF Queue
    <3> QED BY <3>1, <3>2 DEF Pushed
  <2>4. \A q \in Txqs : Dropped(H)[q] \in Nat
    <3>1. ASSUME NEW q \in Txqs, q \in Work(H), txq[q].active
          PROVE  LimitLeft(txq[q]) \in Nat
      BY <2>1, <2>2, <3>1, TakenType
    <3> QED BY <3>1 DEF Dropped
  <2>5. txq' \in [Txqs -> Queue]
    <3>1. tbusy \in BOOLEAN
      BY DEF TypeOK
    <3>2. \A q \in Work(H) : Pass(q, txq[q]) \in Queue
      BY <2>0, <2>1, <2>2, <3>1, PassType
    <3>3. txq' = [q \in Txqs |-> IF q \in Work(H) THEN Pass(q, txq[q]) ELSE txq[q]]
      BY <1>2 DEF Process
    <3> QED BY <2>1, <3>2, <3>3
  <2>6. sta' \in [Stas -> Station]
    <3>1. ASSUME NEW s \in Stas
          PROVE  CountDown(s, PerPs(s, Pushed(H)), PerPs(s, Dropped(H))) \in Station
      <4>1. /\ PerPs(s, Pushed(H)) \in [PsIds -> Nat]
            /\ PerPs(s, Dropped(H)) \in [PsIds -> Nat]
        BY <2>3, <2>4, PerPsNat
      <4> QED BY <4>1, CountDownType
    <3> QED BY <1>2, <3>1 DEF Process
  <2>7. need' \in [Hwqs -> BOOLEAN]
    BY <1>2 DEF Process
  <2>8. fw' \in [Txqs -> Nat]
    <3>1. ASSUME NEW q \in Txqs
          PROVE  fw[q] + Eapols(SubSeq(txq[q].sk_list, 1, Pushed(H)[q])) \in Nat
      <4>1. txq[q].sk_list \in Seq(Frames) /\ fw[q] \in Nat
        BY <2>1 DEF Queue, TypeOK
      <4>2. SubSeq(txq[q].sk_list, 1, Pushed(H)[q]) \in Seq(Frames)
        <5> DEFINE seq == txq[q].sk_list
        <5>1. seq \in Seq(Frames) /\ Pushed(H)[q] \in Nat /\ Pushed(H)[q] <= Len(seq)
          BY <4>1, <2>3
        <5> HIDE DEF seq
        <5>2. SubSeq(seq, 1, Pushed(H)[q]) \in Seq(Frames)
          BY <5>1
        <5> QED BY <5>2 DEF seq
      <4>3. Eapols(SubSeq(txq[q].sk_list, 1, Pushed(H)[q])) \in Nat
        BY <4>2, EapolsNat
      <4> QED BY <4>1, <4>3
    <3> QED BY <1>2, <3>1 DEF Process
  <2>9. bug' \in BOOLEAN
    BY <1>2 DEF Process, TypeOK
  <2> QED BY <2>5, <2>6, <2>7, <2>8, <2>9
<1> QED BY <1>1, <1>2

LEMMA MinOfTwo ==
    ASSUME NEW a \in Int, NEW b \in Int
    PROVE  Min({a, b}) = IF a <= b THEN a ELSE b
<1>1. CASE a <= b
  <2>1. \A m \in {a, b} : (\A y \in {a, b} : m <= y) => m = a
    BY <1>1
  <2>2. \A y \in {a, b} : a <= y
    BY <1>1
  <2> QED BY <1>1, <2>1, <2>2 DEF Min
<1>2. CASE b < a
  <2>1. \A m \in {a, b} : (\A y \in {a, b} : m <= y) => m = b
    BY <1>2
  <2>2. \A y \in {a, b} : b <= y
    BY <1>2
  <2> QED BY <1>2, <2>1, <2>2 DEF Min
<1> QED BY <1>1, <1>2

LEMMA OfferType ==
    ASSUME TypeOK, NEW q \in Txqs
    PROVE  /\ Offer(q) \in Nat
           /\ txq[q].credits > 0 => Offer(q) <= Len(txq[q].sk_list)
           /\ txq[q].credits > 0 => Offer(q) <= txq[q].credits
<1>1. txq[q] \in Queue
  BY DEF TypeOK
<1>2. txq[q].credits \in Int /\ Len(txq[q].sk_list) \in Nat
  BY <1>1 DEF Queue
<1>3. txq[q].credits % CountMod \in Nat
  <2>1. \A a \in Int : a % CountMod \in Nat
    BY Wraps, Constants DEF Count
  <2> QED BY <1>2, <2>1
<1>4. txq[q].credits > 0 => txq[q].credits % CountMod <= txq[q].credits
  BY <1>2, ModAtMost
<1> QED BY <1>2, <1>3, <1>4 DEF Offer

\* No queue gives more than it offers, and only a data queue of the station
\* and the ps_id gives anything.
LEMMA ShareType ==
    ASSUME TypeOK, NEW s, NEW p, NEW req \in Int, NEW q \in Txqs
    PROVE  /\ Share(s, p, req)[q] \in Nat
           /\ Share(s, p, req)[q] <= Offer(q)
           /\ q \notin DataTxqsOf(s, p) => Share(s, p, req)[q] = 0
<1> DEFINE offer == [r \in Txqs |-> Offer(r)]
           D == {r \in DataTxqsOf(s, p) : Prio[r] < Prio[q]}
           before == SumFunctionOnSet(offer, D)
<1>1. before \in Nat
  <2>1. D \subseteq Txqs /\ D \subseteq TxqsOfPs(s, p) /\ IsFiniteSet(D)
    BY PsQueues, FS_Subset
  <2>2. \A r \in D : offer[r] \in Nat
    BY <2>1, OfferType
  <2> HIDE DEF offer, D
  <2> QED BY <2>1, <2>2, SumNat
<1>2. Share(s, p, req)[q] = IF q \notin DataTxqsOf(s, p) \/ before >= req THEN 0
                            ELSE Min({Offer(q), req - before})
  BY DEF Share
<1>3. Offer(q) \in Nat
  BY OfferType
<1> HIDE DEF before
<1>4. CASE q \notin DataTxqsOf(s, p) \/ before >= req
  BY <1>2, <1>3, <1>4
<1>5. CASE q \in DataTxqsOf(s, p) /\ before < req
  <2>1. req - before \in Nat
    BY <1>1, <1>5
  <2>2. Share(s, p, req)[q] = Min({Offer(q), req - before})
    BY <1>1, <1>2, <1>5
  <2>3. Min({Offer(q), req - before}) =
          IF Offer(q) <= req - before THEN Offer(q) ELSE req - before
    BY <1>3, <2>1, MinOfTwo
  <2> QED BY <1>3, <1>5, <2>1, <2>2, <2>3
<1> QED BY <1>1, <1>4, <1>5

LEMMA CountReadyType ==
    ASSUME NEW r \in Station, NEW p \in PsIds, NEW old \in Count
    PROVE  CountReady(r, p, old) \in Station
<1>1. (old + 1) % CountMod \in Count
  <2>1. old + 1 \in Int
    BY Constants DEF Count
  <2> QED BY <2>1, Wraps
<1>2. [r.ready EXCEPT ![p] = (old + 1) % CountMod] \in [PsIds -> Count]
  BY <1>1 DEF Station
<1>3. [r.tim EXCEPT ![p] = r.tim[p] \/ old = 0] \in [PsIds -> BOOLEAN]
  BY DEF Station
<1> QED BY <1>2, <1>3 DEF CountReady, Station

\* rwnx_ps_bh_enable.
LEMMA PsEnableType ==
    ASSUME TypeOK, NEW s \in Stas, NEW on \in BOOLEAN,
           NEW phase \in {"absent", "adding", "ready", "added", "valid", "deleting"},
           PsEnable(s, on, phase)
    PROVE  /\ txq' \in [Txqs -> Queue] /\ sta' \in [Stas -> Station]
           /\ need' \in [Hwqs -> BOOLEAN] /\ tasklet' \in BOOLEAN
<1> DEFINE held == PerPs(s, [q \in Txqs |-> Len(txq[q].sk_list)])
           ready == [p \in PsIds |-> held[p] % CountMod]
           Op(t) == IF on THEN Stop(t, "STA_PS")
                    ELSE Start([t EXCEPT !.push_limit = 0], "STA_PS")
<1>0. \A q \in Txqs : txq[q] \in Queue
  BY DEF TypeOK
<1>1. ASSUME NEW t \in Queue PROVE Op(t) \in Queue
  <2>1. [t EXCEPT !.push_limit = 0] \in Queue
    BY DEF Queue
  <2> QED BY <2>1, StartType, StopType DEF Reasons
<1>2. /\ txq' = [q \in Txqs |-> IF q \in TxqsOf(s) THEN Op(txq[q]) ELSE txq[q]]
      /\ need' = NeedAfter(txq')
  BY DEF PsEnable, Update
<1>3. txq' \in [Txqs -> Queue]
  <2> HIDE DEF Op
  <2> QED BY <1>0, <1>1, <1>2
<1>4. ready \in [PsIds -> Count]
  <2> DEFINE len == [q \in Txqs |-> Len(txq[q].sk_list)]
  <2>1. \A q \in Txqs : len[q] \in Nat
    BY <1>0 DEF Queue
  <2>2. held \in [PsIds -> Nat]
    <3> HIDE DEF len
    <3>1. PerPs(s, len) \in [PsIds -> Nat]
      BY <2>1, PerPsNat
    <3> QED BY <3>1 DEF len
  <2> HIDE DEF held
  <2> QED BY <2>2, Wraps
<1>5. Zero \in [PsIds -> Count]
  BY Constants DEF Zero, Count
<1>6. sta[s] \in Station
  BY DEF TypeOK
<1>7. sta' \in [Stas -> Station]
  <2>1. sta' = [sta EXCEPT ![s] =
             IF on THEN [sta[s] EXCEPT !.phase = phase, !.ps = TRUE, !.sp = Zero,
                                       !.ready = ready]
                   ELSE [sta[s] EXCEPT !.phase = phase, !.ps = FALSE]]
    BY DEF PsEnable
  <2> HIDE DEF ready
  <2>2. [sta[s] EXCEPT !.phase = phase, !.ps = TRUE, !.sp = Zero,
                       !.ready = ready] \in Station
    BY <1>4, <1>5, <1>6 DEF Station
  <2>3. [sta[s] EXCEPT !.phase = phase, !.ps = FALSE] \in Station
    BY <1>6 DEF Station
  <2> QED BY <2>1, <2>2, <2>3 DEF TypeOK
<1>8. tasklet' \in BOOLEAN
  BY DEF PsEnable
<1> QED BY <1>2, <1>3, <1>7, <1>8, NeedType

LEMMA XmitCheckType ==
    ASSUME TypeOK, NEW x \in Senders, NEW q \in Txqs, NEW f \in Frames,
           XmitCheck(x, q, f)
    PROVE  TypeOK'
<1>1. [pc |-> "checked", q |-> q, frame |-> f] \in XmitState
  BY DEF XmitState
<1>2. xmit' \in [Senders -> XmitState]
  BY <1>1 DEF XmitCheck, TypeOK
<1> QED BY <1>2 DEF XmitCheck, TypeOK

LEMMA XmitQueueType ==
    ASSUME TypeOK, NEW x \in Senders, XmitQueue(x)
    PROVE  TypeOK'
<1> DEFINE q == xmit[x].q
           s == StaOf[q]
           t == FlowStop(q, [txq[q] EXCEPT
                    !.sk_list = Append(txq[q].sk_list, xmit[x].frame)])
           new == IF Stopped(t) THEN t ELSE AddToHwList(t)
<1>1. q \in Txqs /\ xmit[x].frame \in Frames
  BY Threads DEF XmitQueue
<1>2. s \in Stas /\ PsOf[q] \in PsIds
  BY <1>1, Constants
<1>3. txq[q] \in Queue /\ sta[s] \in Station
  BY <1>1, <1>2 DEF TypeOK
<1>4. t \in Queue
  <2>1. Append(txq[q].sk_list, xmit[x].frame) \in Seq(Frames)
    BY <1>1, <1>3 DEF Queue
  <2>2. [txq[q] EXCEPT !.sk_list = Append(txq[q].sk_list, xmit[x].frame)] \in Queue
    BY <1>3, <2>1 DEF Queue
  <2> QED BY <2>2, FlowStopType
<1>5. new \in Queue
  <2> HIDE DEF t
  <2> QED BY <1>4, ListType
<1>6. /\ txq' = [r \in Txqs |-> IF r \in {q} THEN new ELSE txq[r]]
      /\ need' = NeedAfter(txq')
  BY DEF XmitQueue, Update
<1>7. txq' \in [Txqs -> Queue]
  <2> HIDE DEF new
  <2> QED BY <1>5, <1>6 DEF TypeOK
<1>8. need' \in [Hwqs -> BOOLEAN]
  BY <1>6, NeedType
<1>9. sta' \in [Stas -> Station]
  <2>1. sta[s].ready[PsOf[q]] \in Count
    BY <1>2, <1>3 DEF Station
  <2>2. CountReady(sta[s], PsOf[q], sta[s].ready[PsOf[q]]) \in Station
    BY <1>2, <1>3, <2>1, CountReadyType
  <2>3. sta' = IF sta[s].ps
               THEN [sta EXCEPT ![s] = CountReady(sta[s], PsOf[q],
                                                  sta[s].ready[PsOf[q]])]
               ELSE sta
    BY DEF XmitQueue
  <2> HIDE DEF s, q
  <2> QED BY <2>2, <2>3 DEF TypeOK
<1>10. xmit' \in [Senders -> XmitState] /\ lock' \in Senders \cup {NoSender}
  <2>1. XIdle \in XmitState /\ [pc |-> "queued", q |-> q] \in XmitState
    BY <1>1 DEF XmitState
  <2>2. \/ xmit' = [xmit EXCEPT ![x] = XIdle] /\ lock' = lock
        \/ xmit' = [xmit EXCEPT ![x] = [pc |-> "queued", q |-> q]] /\ lock' = x
    BY DEF XmitQueue
  <2> QED BY <2>1, <2>2 DEF TypeOK
<1>11. UNCHANGED <<adding, vifStop, tasklet, tbusy, rx, fw, bug>>
  BY DEF XmitQueue
<1> QED BY <1>7, <1>8, <1>9, <1>10, <1>11 DEF TypeOK

LEMMA ProcessStepType ==
    ASSUME TypeOK, (\E x \in Senders : XmitProcess(x)) \/ Task
    PROVE  TypeOK'
<1>1. ASSUME NEW x \in Senders, XmitProcess(x) PROVE TypeOK'
  <2>1. Process({HwqOf[xmit[x].q]}) /\ UNCHANGED <<adding, vifStop, tasklet, tbusy, rx>>
    BY <1>1 DEF XmitProcess
  <2>2. xmit' \in [Senders -> XmitState] /\ lock' \in Senders \cup {NoSender}
    <3>1. XIdle \in XmitState
      BY DEF XmitState
    <3> QED BY <1>1, <3>1 DEF XmitProcess, TypeOK
  <2> QED BY <2>1, <2>2, ProcessType DEF TypeOK
<1>2. CASE Task
  <2>1. /\ Process({h \in Hwqs : need[h]}) /\ tasklet' \in BOOLEAN
        /\ UNCHANGED <<adding, vifStop, tbusy, lock, xmit, rx>>
    BY <1>2 DEF Task
  <2> QED BY <2>1, ProcessType DEF TypeOK
<1> QED BY <1>1, <1>2

LEMMA PsStepType ==
    ASSUME TypeOK,
           \/ \E s \in Stas, on \in BOOLEAN : PsChangeInd(s, on)
           \/ PsChange
           \/ PsRemember
           \/ \E s \in Stas, asleep \in BOOLEAN : StaLink(s, asleep)
    PROVE  TypeOK'
<1>0. \A s \in Stas : sta[s] \in Station
  BY DEF TypeOK
<1>1. ASSUME NEW s \in Stas, NEW on \in BOOLEAN, PsChangeInd(s, on) PROVE TypeOK'
  <2>1. Valid(s) \in BOOLEAN
    BY DEF Valid
  <2>2. rx' \in RxState
    BY <1>1, <2>1 DEF PsChangeInd, RxState
  <2> QED BY <1>1, <2>2 DEF PsChangeInd, TypeOK
<1>2. CASE PsChange
  <2>1. rx.s \in Stas /\ rx.on \in BOOLEAN
    BY <1>2, Threads DEF PsChange
  <2>2. sta[rx.s].phase \in {"absent", "adding", "ready", "added", "valid", "deleting"}
    BY <1>0, <2>1 DEF Station
  <2>3. PsEnable(rx.s, rx.on, sta[rx.s].phase) /\ rx' = RxIdle
    BY <1>2 DEF PsChange
  <2>4. /\ txq' \in [Txqs -> Queue] /\ sta' \in [Stas -> Station]
        /\ need' \in [Hwqs -> BOOLEAN] /\ tasklet' \in BOOLEAN
    BY <2>1, <2>2, <2>3, PsEnableType
  <2>5. rx' \in RxState
    BY <2>3 DEF RxState
  <2>6. UNCHANGED <<adding, vifStop, tbusy, lock, xmit, fw, bug>>
    BY <1>2 DEF PsChange
  <2> QED BY <2>4, <2>5, <2>6 DEF TypeOK
<1>3. CASE PsRemember
  <2>1. rx.s \in Stas /\ rx.on \in BOOLEAN
    BY <1>3, Threads DEF PsRemember
  <2>2. [sta[rx.s] EXCEPT !.ps = rx.on] \in Station
    BY <1>0, <2>1 DEF Station
  <2>3. sta' \in [Stas -> Station]
    BY <1>3, <2>2 DEF PsRemember, TypeOK
  <2>4. rx' \in RxState
    BY <1>3 DEF PsRemember, RxState
  <2> QED BY <1>3, <2>3, <2>4 DEF PsRemember, TypeOK
<1>4. ASSUME NEW s \in Stas, NEW asleep \in BOOLEAN, StaLink(s, asleep) PROVE TypeOK'
  <2>1. PsEnable(s, sta[s].ps \/ asleep, "added")
    BY <1>4 DEF StaLink
  <2>3. /\ txq' \in [Txqs -> Queue] /\ sta' \in [Stas -> Station]
        /\ need' \in [Hwqs -> BOOLEAN] /\ tasklet' \in BOOLEAN
    <3> DEFINE on == sta[s].ps \/ asleep
    <3>1. on \in BOOLEAN /\ PsEnable(s, on, "added")
      BY <2>1
    <3> HIDE DEF on
    <3> QED BY <3>1, PsEnableType
  <2>4. UNCHANGED <<adding, vifStop, tbusy, lock, xmit, rx, fw, bug>>
    BY <1>4 DEF StaLink
  <2> QED BY <2>3, <2>4 DEF TypeOK
<1> QED BY <1>1, <1>2, <1>3, <1>4

LEMMA TrafficReqType ==
    ASSUME TypeOK, NEW s \in Stas, NEW n \in 0..MaxReq, NEW p \in PsIds,
           TrafficReq(s, n, p)
    PROVE  TypeOK'
<1> DEFINE all == sta[s].ready[p] - sta[s].sp[p]
           req == IF n = 0 \/ n > all THEN all ELSE n
           share == Share(s, p, req)
<1>1. sta[s] \in Station /\ \A q \in Txqs : txq[q] \in Queue
  BY DEF TypeOK
<1>2. req \in Int
  <2>1. Count \subseteq Int
    BY Constants DEF Count
  <2>2. sta[s].ready[p] \in Count /\ sta[s].sp[p] \in Count
    BY <1>1 DEF Station
  <2>3. sta[s].ready[p] \in Int /\ sta[s].sp[p] \in Int
    BY <2>1, <2>2, Zenon
  <2>4. n \in Int
    BY TxQueueAssumption
  <2>5. \A a, b \in Int : a - b \in Int
    OBVIOUS
  <2>6. all \in Int
    BY <2>3, <2>5
  <2> HIDE DEF all
  <2> QED BY <2>4, <2>6
<1>3. \A q \in Txqs : share[q] \in Nat
  <2> HIDE DEF req
  <2> QED BY <1>2, ShareType
<1>4. txq' = [q \in Txqs |->
                  IF share[q] = 0 THEN txq[q]
                  ELSE AddToHwList([txq[q] EXCEPT !.push_limit = share[q]])]
      /\ need' = NeedAfter(txq')
  BY DEF TrafficReq
<1>5. sta' = [sta EXCEPT ![s] = [sta[s] EXCEPT
             !.sp = [sta[s].sp EXCEPT ![p] = PerPs(s, share)[p] % CountMod]]]
  BY DEF TrafficReq
<1> HIDE DEF share
<1>6. txq' \in [Txqs -> Queue]
  <2>1. ASSUME NEW q \in Txqs
        PROVE  AddToHwList([txq[q] EXCEPT !.push_limit = share[q]]) \in Queue
    <3>1. [txq[q] EXCEPT !.push_limit = share[q]] \in Queue
      BY <1>1, <1>3 DEF Queue
    <3> QED BY <3>1, ListType
  <2> QED BY <1>1, <1>4, <2>1
<1>7. sta' \in [Stas -> Station]
  <2>1. PerPs(s, share)[p] % CountMod \in Count
    <3>1. PerPs(s, share)[p] \in Nat
      BY <1>3, PerPsNat
    <3> QED BY <3>1, Wraps
  <2>2. [sta[s].sp EXCEPT ![p] = PerPs(s, share)[p] % CountMod] \in [PsIds -> Count]
    BY <1>1, <2>1 DEF Station
  <2>3. [sta[s] EXCEPT !.sp = [sta[s].sp EXCEPT ![p] = PerPs(s, share)[p] % CountMod]]
          \in Station
    BY <1>1, <2>2 DEF Station
  <2> QED BY <1>5, <2>3 DEF TypeOK
<1>8. need' \in [Hwqs -> BOOLEAN]
  BY <1>4, NeedType
<1>9. tasklet' \in BOOLEAN /\ UNCHANGED <<adding, vifStop, tbusy, lock, xmit, rx, fw, bug>>
  BY DEF TrafficReq
<1> QED BY <1>6, <1>7, <1>8, <1>9 DEF TypeOK

LEMMA SpInterruptedType ==
    ASSUME TypeOK, NEW s \in Stas, SpInterrupted(s)
    PROVE  TypeOK'
<1>1. sta[s] \in Station /\ \A q \in Txqs : txq[q] \in Queue
  BY DEF TypeOK
<1>2. txq' \in [Txqs -> Queue]
  <2>1. \A q \in Txqs : [txq[q] EXCEPT !.push_limit = 0] \in Queue
    BY <1>1 DEF Queue
  <2> QED BY <1>1, <2>1 DEF SpInterrupted
<1>3. sta' \in [Stas -> Station]
  <2>1. [sta[s].sp EXCEPT !["UAPSD"] = 0] \in [PsIds -> Count]
    <3>1. 0 \in Count
      BY Constants DEF Count
    <3>2. sta[s].sp \in [PsIds -> Count]
      BY <1>1 DEF Station
    <3> QED BY <3>1, <3>2
  <2>2. [sta[s] EXCEPT !.sp = [sta[s].sp EXCEPT !["UAPSD"] = 0]] \in Station
    BY <1>1, <2>1 DEF Station
  <2> QED BY <2>2 DEF SpInterrupted, TypeOK
<1> QED BY <1>2, <1>3 DEF SpInterrupted, TypeOK

\* The indications that stop and start queues.
LEMMA StopStartType ==
    ASSUME TypeOK,
           \/ \E r \in VifReasons : VifStop(r) \/ VifStart(r)
           \/ \E q \in Txqs : CreditUpdate(q)
    PROVE  TypeOK'
<1>0. \A q \in Txqs : txq[q] \in Queue
  BY DEF TypeOK
<1>1. ASSUME NEW r \in VifReasons, VifStop(r) PROVE TypeOK'
  <2>1. /\ txq' = [q \in Txqs |-> IF q \in LinkedTxqs THEN Stop(txq[q], r) ELSE txq[q]]
        /\ need' = NeedAfter(txq')
    BY <1>1 DEF VifStop, Update
  <2>2. txq' \in [Txqs -> Queue]
    <3>1. r \in Reasons
      BY DEF Reasons
    <3> QED BY <1>0, <2>1, <3>1, StopType
  <2>3. vifStop' \subseteq VifReasons
    BY <1>1 DEF VifStop, TypeOK
  <2>4. UNCHANGED <<adding, sta, tasklet, tbusy, lock, xmit, rx, fw, bug>>
    BY <1>1 DEF VifStop
  <2> QED BY <2>1, <2>2, <2>3, <2>4, NeedType DEF TypeOK
<1>2. ASSUME NEW r \in VifReasons, VifStart(r) PROVE TypeOK'
  <2>1. /\ txq' = [q \in Txqs |-> IF q \in LinkedTxqs THEN Start(txq[q], r) ELSE txq[q]]
        /\ need' = NeedAfter(txq')
    BY <1>2 DEF VifStart, Update
  <2>2. txq' \in [Txqs -> Queue]
    BY <1>0, <2>1, StartType
  <2>3. vifStop' \subseteq VifReasons /\ tasklet' \in BOOLEAN
    BY <1>2 DEF VifStart, TypeOK
  <2>4. UNCHANGED <<adding, sta, tbusy, lock, xmit, rx, fw, bug>>
    BY <1>2 DEF VifStart
  <2> QED BY <2>1, <2>2, <2>3, <2>4, NeedType DEF TypeOK
<1>3. ASSUME NEW q \in Txqs, CreditUpdate(q) PROVE TypeOK'
  <2> DEFINE Op(t) == IF t.credits <= 0 THEN Stop(t, "FULL") ELSE Start(t, "FULL")
  <2>1. /\ txq' = [r \in Txqs |-> IF r \in {q} THEN Op(txq[r]) ELSE txq[r]]
        /\ need' = NeedAfter(txq')
    BY <1>3 DEF CreditUpdate, Update
  <2>2. txq' \in [Txqs -> Queue]
    <3>1. "FULL" \in Reasons
      BY DEF Reasons
    <3>2. \A r \in Txqs : Op(txq[r]) \in Queue
      BY <1>0, <3>1, StopType, StartType
    <3> HIDE DEF Op
    <3> QED BY <1>0, <2>1, <3>2
  <2>3. UNCHANGED <<adding, sta, vifStop, tasklet, tbusy, lock, xmit, rx, fw, bug>>
    BY <1>3 DEF CreditUpdate
  <2> QED BY <2>1, <2>2, <2>3, NeedType DEF TypeOK
<1> QED BY <1>1, <1>2, <1>3

\* The confirmations, which run without tx_lock.
LEMMA CfmType ==
    ASSUME TypeOK,
           \/ \E q \in Txqs, again \in BOOLEAN : Cfm(q, again)
           \/ CfmRetry \/ CfmInsert \/ CfmLink \/ CfmLinked
    PROVE  TypeOK'
<1>0. (\A q \in Txqs : txq[q] \in Queue) /\ (\A s \in Stas : sta[s] \in Station)
  BY DEF TypeOK
<1>1. ASSUME NEW q \in Txqs, NEW again \in BOOLEAN, Cfm(q, again) PROVE TypeOK'
  <2>1. fw' \in [Txqs -> Nat]
    BY <1>1 DEF Cfm, TypeOK
  <2>2. need' \in [Hwqs -> BOOLEAN]
    BY <1>1 DEF Cfm, TypeOK
  <2>3. rx' \in RxState
    BY <1>1 DEF Cfm, RxState
  <2> QED BY <1>1, <2>1, <2>2, <2>3 DEF Cfm, TypeOK
<1>2. CASE CfmRetry
  <2> DEFINE q == rx.q
             Op(t) == LET u == [t EXCEPT !.credits = Incremented(t.credits)]
                      IN  IF u.credits > 0 THEN Start(u, "FULL") ELSE u
  <2>1. q \in Txqs
    BY <1>2, Threads DEF CfmRetry
  <2>2. ASSUME NEW t \in Queue PROVE Op(t) \in Queue
    <3> DEFINE u == [t EXCEPT !.credits = Incremented(t.credits)]
    <3>1. Incremented(t.credits) \in Int
      BY Constants DEF Incremented, Queue
    <3>2. u \in Queue
      BY <3>1 DEF Queue
    <3>3. Op(t) = IF u.credits > 0 THEN Start(u, "FULL") ELSE u
      OBVIOUS
    <3> HIDE DEF u, Op
    <3> QED BY <3>2, <3>3, StartType
  <2>3. /\ txq' = [r \in Txqs |-> IF r \in {q} THEN Op(txq[r]) ELSE txq[r]]
        /\ need' = NeedAfter(txq')
    BY <1>2 DEF CfmRetry, Update
  <2>4. txq' \in [Txqs -> Queue]
    <3> HIDE DEF Op
    <3> QED BY <1>0, <2>2, <2>3
  <2>5. rx' \in RxState
    <3>1. StaOf[q] \in Stas /\ PsOf[q] \in PsIds
      BY <2>1, Constants
    <3>2. sta[StaOf[q]].ready[PsOf[q]] \in Count /\ sta[StaOf[q]].ps \in BOOLEAN
      BY <1>0, <3>1 DEF Station
    <3>3. rx' = [pc |-> "insert", q |-> q, ps |-> sta[StaOf[q]].ps,
                 old |-> sta[StaOf[q]].ready[PsOf[q]]]
      BY <1>2 DEF CfmRetry
    <3> QED BY <2>1, <3>2, <3>3 DEF RxState
  <2>6. UNCHANGED <<adding, sta, vifStop, tasklet, tbusy, lock, xmit, fw, bug>>
    BY <1>2 DEF CfmRetry
  <2> QED BY <2>3, <2>4, <2>5, <2>6, NeedType DEF TypeOK
<1>3. CASE CfmInsert
  <2> DEFINE q == rx.q
             s == StaOf[q]
             t == FlowStop(q, [txq[q] EXCEPT !.sk_list = <<"eapol">> \o txq[q].sk_list])
  <2>1. q \in Txqs /\ rx.ps \in BOOLEAN /\ rx.old \in Count
    BY <1>3, Threads DEF CfmInsert
  <2>2. s \in Stas /\ PsOf[q] \in PsIds
    BY <2>1, Constants
  <2>3. t \in Queue
    <3>1. <<"eapol">> \in Seq(Frames) /\ txq[q].sk_list \in Seq(Frames)
      BY <1>0, <2>1 DEF Queue, Frames
    <3>2. <<"eapol">> \o txq[q].sk_list \in Seq(Frames)
      BY <3>1
    <3>3. [txq[q] EXCEPT !.sk_list = <<"eapol">> \o txq[q].sk_list] \in Queue
      BY <1>0, <2>1, <3>2 DEF Queue
    <3> QED BY <3>3, FlowStopType
  <2>4. txq' \in [Txqs -> Queue]
    <3>1. txq' = [txq EXCEPT ![q] = t]
      BY <1>3 DEF CfmInsert
    <3> HIDE DEF t
    <3> QED BY <2>3, <3>1 DEF TypeOK
  <2>5. sta' \in [Stas -> Station]
    <3>1. CountReady(sta[s], PsOf[q], rx.old) \in Station
      BY <1>0, <2>1, <2>2, CountReadyType
    <3> QED BY <1>3, <3>1 DEF CfmInsert, TypeOK
  <2>6. rx' \in RxState
    <3>1. rx' = RxIdle \/ rx' = [pc |-> "link", q |-> q]
      BY <1>3 DEF CfmInsert
    <3> QED BY <2>1, <3>1 DEF RxState
  <2> QED BY <1>3, <2>4, <2>5, <2>6 DEF CfmInsert, TypeOK
<1>4. CASE CfmLink
  <2>1. rx.q \in Txqs
    BY <1>4, Threads DEF CfmLink
  <2>2. txq[rx.q].stop \in SUBSET Reasons /\ txq[rx.q].flow \in BOOLEAN
    BY <1>0, <2>1 DEF Queue
  <2>3. rx' \in RxState
    <3>1. \/ rx' = RxIdle
          \/ rx' = [pc |-> "linked", q |-> rx.q, stop |-> txq[rx.q].stop,
                    flow |-> txq[rx.q].flow]
      BY <1>4 DEF CfmLink
    <3> QED BY <2>1, <2>2, <3>1 DEF RxState
  <2> QED BY <1>4, <2>3 DEF CfmLink, TypeOK
<1>5. CASE CfmLinked
  <2> DEFINE q == rx.q
  <2>1. q \in Txqs /\ rx.stop \in SUBSET Reasons /\ rx.flow \in BOOLEAN
    BY <1>5, Threads DEF CfmLinked
  <2>2. txq[q].links + 1 \in Int
    BY <1>0, <2>1 DEF Queue
  <2>4. txq' \in [Txqs -> Queue]
    <3> DEFINE n == txq[q].links + 1
               t == [txq[q] EXCEPT !.listed = TRUE, !.links = n,
                          !.stop = rx.stop, !.flow = rx.flow]
    <3>1. n \in Int
      BY <2>2
    <3>2. txq' = [txq EXCEPT ![q] = t]
      BY <1>5 DEF CfmLinked
    <3> HIDE DEF n
    <3>3. t \in Queue
      BY <1>0, <2>1, <3>1, LinkedType
    <3> HIDE DEF t
    <3> QED BY <3>2, <3>3 DEF TypeOK
  <2>5. need' \in [Hwqs -> BOOLEAN] /\ rx' \in RxState
    BY <1>5 DEF CfmLinked, TypeOK, RxState
  <2> QED BY <1>5, <2>4, <2>5 DEF CfmLinked, TypeOK
<1> QED BY <1>1, <1>2, <1>3, <1>4, <1>5

\* cfg80211 and the USB bus.
LEMMA StationsType ==
    ASSUME TypeOK, Stations
    PROVE  TypeOK'
<1>0. (\A q \in Txqs : txq[q] \in Queue) /\ (\A s \in Stas : sta[s] \in Station)
  BY DEF TypeOK
<1> DEFINE Phases == {"absent", "adding", "ready", "added", "valid", "deleting"}
<1>1. ASSUME NEW s \in Stas, NEW from, NEW to \in Phases, Phase(s, from, to)
      PROVE  sta' \in [Stas -> Station]
  <2>1. [sta[s] EXCEPT !.phase = to] \in Station
    BY <1>0 DEF Station
  <2> QED BY <1>1, <2>1 DEF Phase, TypeOK
<1>2. ASSUME NEW s \in Stas, StaUnlink(s) PROVE TypeOK'
  <2>1. [sta[s] EXCEPT !.phase = "deleting", !.ps = FALSE] \in Station
    BY <1>0 DEF Station
  <2> QED BY <1>2, <2>1 DEF StaUnlink, TypeOK
<1>3. ASSUME NEW s \in Stas, StaGone(s) PROVE TypeOK'
  <2>1. sta' \in [Stas -> Station]
    BY <1>1, <1>3 DEF StaGone
  <2> QED BY <1>3, <2>1 DEF StaGone, TypeOK
<1>4. ASSUME NEW s \in Stas, StaAdd(s) PROVE TypeOK'
  <2>1. sta' \in [Stas -> Station]
    BY <1>1, <1>4 DEF StaAdd
  <2> QED BY <1>4, <2>1 DEF StaAdd, TypeOK
<1>5. ASSUME NEW s \in Stas, StaRefused(s) PROVE TypeOK'
  <2>1. sta' \in [Stas -> Station]
    BY <1>1, <1>5 DEF StaRefused
  <2> QED BY <1>5, <2>1 DEF StaRefused, TypeOK
<1>6. ASSUME NEW s \in Stas, StaInit(s) PROVE TypeOK'
  <2>1. sta' \in [Stas -> Station]
    BY <1>1, <1>6 DEF StaInit
  <2>2. txq' \in [Txqs -> Queue]
    <3>1. \A q \in Txqs, stop \in SUBSET Reasons : Initialised(txq[q], stop) \in Queue
      <4>1. CREDITS \in Int /\ <<>> \in Seq(Frames)
        BY Constants
      <4> QED BY <1>0, <4>1 DEF Initialised, Queue
    <3>2. vifStop \cap {"CHAN", "VIF_PS"} \in SUBSET Reasons
      BY DEF TypeOK, Reasons
    <3> QED BY <1>0, <1>6, <3>1, <3>2 DEF StaInit
  <2> QED BY <1>6, <2>1, <2>2 DEF StaInit, TypeOK
<1>7. ASSUME NEW s \in Stas, StaAdded(s) PROVE TypeOK'
  <2>1. sta' \in [Stas -> Station]
    BY <1>1, <1>7 DEF StaAdded
  <2> QED BY <1>7, <2>1 DEF StaAdded, TypeOK
<1>8. ASSUME NEW s \in Stas, NEW asleep \in BOOLEAN, StaLink(s, asleep) PROVE TypeOK'
  BY <1>8, PsStepType
<1>9. ASSUME NEW q \in Txqs, TxqDeinit(q) PROVE TypeOK'
  <2>1. DelFromHwList(txq[q]) \in Queue
    BY <1>0, ListType
  <2>2. [DelFromHwList(txq[q]) EXCEPT !.active = FALSE, !.dirty = TRUE] \in Queue
    BY <2>1 DEF Queue
  <2> QED BY <1>9, <2>2 DEF TxqDeinit, TypeOK
<1>10. ASSUME NEW q \in Txqs, TxqFlush(q) PROVE TypeOK'
  <2>1. <<>> \in Seq(Frames)
    OBVIOUS
  <2>2. [txq[q] EXCEPT !.dirty = FALSE, !.sk_list = <<>>] \in Queue
    BY <1>0, <2>1 DEF Queue
  <2> QED BY <1>10, <2>2 DEF TxqFlush, TypeOK
<1> QED BY <1>2, <1>3, <1>4, <1>5, <1>6, <1>7, <1>8, <1>9, <1>10 DEF Stations

LEMMA BusType ==
    ASSUME TypeOK, BusStop \/ BusWake
    PROVE  TypeOK'
<1>1. ASSUME NEW closed \in BOOLEAN, NetdevQueues(closed)
      PROVE  txq' \in [Txqs -> Queue]
  <2>1. \A q \in Txqs : [txq[q] EXCEPT !.closed = closed] \in Queue
    BY DEF TypeOK, Queue
  <2> QED BY <1>1, <2>1 DEF NetdevQueues, TypeOK
<1>2. txq' \in [Txqs -> Queue]
  BY <1>1 DEF BusStop, BusWake
<1> QED BY <1>2 DEF BusStop, BusWake, TypeOK

LEMMA TypeInit == Init => TypeOK
<1> SUFFICES ASSUME Init PROVE TypeOK
  OBVIOUS
<1>1. txq \in [Txqs -> Queue]
  <2>1. CREDITS \in Int /\ <<>> \in Seq(Frames)
    BY Constants
  <2>2. Initialised([links |-> 0, closed |-> FALSE], {}) \in Queue
    BY <2>1 DEF Initialised, Queue
  <2> QED BY <2>2 DEF Init
<1>2. sta \in [Stas -> Station]
  <2>1. Zero \in [PsIds -> Count]
    BY Constants DEF Zero, Count
  <2> QED BY <2>1 DEF Init, Station
<1>3. XIdle \in XmitState /\ RxIdle \in RxState
  BY DEF XmitState, RxState
<1> QED BY <1>1, <1>2, <1>3 DEF Init, TypeOK

LEMMA TypeNext == TypeOK /\ [Next]_vars => TypeOK'
<1> SUFFICES ASSUME TypeOK, [Next]_vars PROVE TypeOK'
  OBVIOUS
<1>1. ASSUME NEW x \in Senders, Xmit(x) PROVE TypeOK'
  BY <1>1, XmitCheckType, XmitQueueType, ProcessStepType DEF Xmit
<1>2. CASE Task
  BY <1>2, ProcessStepType
<1>3. CASE Indication
  BY <1>3, PsStepType, TrafficReqType, SpInterruptedType, StopStartType, CfmType
     DEF Indication
<1>4. CASE RxStep
  BY <1>4, PsStepType, CfmType DEF RxStep
<1>5. CASE Stations
  BY <1>5, StationsType
<1>6. CASE BusStop \/ BusWake
  BY <1>6, BusType
<1>7. CASE UNCHANGED vars
  BY <1>7 DEF vars, TypeOK
<1> QED BY <1>1, <1>2, <1>3, <1>4, <1>5, <1>6, <1>7 DEF Next

\* Every variable keeps its type, whatever comes, goes, sleeps, is stopped or
\* confirmed: the counters stay in their width, and no length is negative.
THEOREM TypeCorrect == Spec => []TypeOK
<1>1. Init => TypeOK
  BY TypeInit
<1>2. TypeOK /\ [Next]_vars => TypeOK'
  BY TypeNext
<1> QED BY <1>1, <1>2, PTL DEF Spec

-----------------------------------------------------------------------------
(* The invariant of the queues, one queue at a time *)

\* What QuietInv says of queue q with record t, whose station sleeps if ps,
\* while the interface is stopped for vs and the USB bus is busy or not.
Good(q, t, ps, vs, busy) ==
    /\ t.active /\ ~t.dirty /\ t.credits = CREDITS
    /\ t.links = IF t.listed THEN 1 ELSE 0
    /\ t.listed => t.sk_list # <<>>
    /\ t.sk_list # <<>> /\ ~Stopped(t) => t.listed
    /\ t.push_limit <= Len(t.sk_list) /\ t.push_limit <= CREDITS
    /\ t.push_limit > 0 => ps
    /\ t.listed => t.stop \cap {"CHAN", "VIF_PS"} = {}
    /\ \A r \in {"CHAN", "VIF_PS"} : r \in t.stop <=> r \in vs
    /\ ps <=> "STA_PS" \in t.stop
    /\ t.closed => /\ q \notin MgtTxqs
                   /\ busy \/ (t.flow /\ Len(t.sk_list) >= FLOW_RESTART)

LEMMA QueueFields ==
    ASSUME NEW t \in Queue
    PROVE  /\ t.active \in BOOLEAN /\ t.listed \in BOOLEAN /\ t.flow \in BOOLEAN
           /\ t.closed \in BOOLEAN /\ t.dirty \in BOOLEAN
           /\ t.stop \in SUBSET Reasons /\ t.links \in Int /\ t.credits \in Int
           /\ t.push_limit \in Nat /\ t.sk_list \in Seq(Frames)
           /\ Len(t.sk_list) \in Nat
           /\ t.sk_list = <<>> <=> Len(t.sk_list) = 0
           /\ DOMAIN t = {"active", "dirty", "stop", "listed", "links", "sk_list",
                          "push_limit", "credits", "flow", "closed"}
<1>1. t.sk_list \in Seq(Frames)
  BY DEF Queue
<1>2. \A u \in Seq(Frames) : Len(u) \in Nat /\ (u = <<>> <=> Len(u) = 0)
  OBVIOUS
<1> QED BY <1>1, <1>2 DEF Queue

\* What linking and unlinking does to a queue that is linked as its status
\* word says.
LEMMA Relinked ==
    ASSUME NEW t \in Queue, t.links = IF t.listed THEN 1 ELSE 0
    PROVE  /\ AddToHwList(t) = [t EXCEPT !.listed = TRUE, !.links = 1]
           /\ DelFromHwList(t) = [t EXCEPT !.listed = FALSE, !.links = 0]
<1>1. CASE t.listed
  <2>1. t.listed = TRUE /\ t.links = 1 /\ t.links - 1 = 0
    BY <1>1, QueueFields
  <2>2. [t EXCEPT !.listed = TRUE, !.links = 1] = t
    BY <2>1 DEF Queue
  <2>3. DelFromHwList(t) = [t EXCEPT !.listed = FALSE, !.links = t.links - 1]
    BY <1>1 DEF DelFromHwList
  <2> QED BY <1>1, <2>1, <2>2, <2>3 DEF AddToHwList
<1>2. CASE ~t.listed
  <2>1. t.listed = FALSE /\ t.links = 0 /\ t.links + 1 = 1
    BY <1>2, QueueFields
  <2>2. [t EXCEPT !.listed = FALSE, !.links = 0] = t
    BY <2>1 DEF Queue
  <2>3. AddToHwList(t) = [t EXCEPT !.listed = TRUE, !.links = t.links + 1]
    BY <1>2 DEF AddToHwList
  <2> QED BY <1>2, <2>1, <2>2, <2>3 DEF DelFromHwList
<1> QED BY <1>1, <1>2

LEMMA StopBits ==
    ASSUME NEW t \in Queue, t.active, NEW r
    PROVE  /\ Stop(t, r).stop = t.stop \cup {r}
           /\ Start(t, r).stop = t.stop \ {r}
<1>1. ASSUME NEW u \in {[t EXCEPT !.stop = t.stop \cup {r}], [t EXCEPT !.stop = t.stop \ {r}]}
      PROVE  AddToHwList(u).stop = u.stop /\ DelFromHwList(u).stop = u.stop
  <2>1. DOMAIN u = DOMAIN t
    BY <1>1
  <2> QED BY <2>1, QueueFields DEF AddToHwList, DelFromHwList
<1>2. Stop(t, r).stop = t.stop \cup {r}
  BY <1>1, QueueFields DEF Stop
<1>3. Start(t, r).stop = t.stop \ {r}
  BY <1>1, QueueFields DEF Start, ReadyToSend
<1> QED BY <1>2, <1>3

\* What stopping and starting for reason r makes of the modes a queue follows.
StopsFor(r, ps, vs, ps2, vs2) ==
    \/ r = "STA_PS" /\ ps2 /\ vs2 = vs
    \/ r \in VifReasons /\ ps2 = ps /\ vs2 = vs \cup {r}
StartsFor(r, ps, vs, ps2, vs2) ==
    \/ r = "STA_PS" /\ ~ps2 /\ vs2 = vs
    \/ r \in VifReasons /\ ps2 = ps /\ vs2 = vs \ {r}

LEMMA StopGood ==
    ASSUME NEW q, NEW t \in Queue, NEW ps, NEW vs, NEW busy,
           NEW r, NEW ps2, NEW vs2, Good(q, t, ps, vs, busy),
           StopsFor(r, ps, vs, ps2, vs2)
    PROVE  /\ Good(q, Stop(t, r), ps2, vs2, busy)
           /\ Stop(t, r).sk_list = t.sk_list /\ Stop(t, r).links <= t.links
           /\ ~Stop(t, r).listed /\ Stop(t, r).push_limit = t.push_limit
<1> DEFINE u == [t EXCEPT !.stop = t.stop \cup {r}, !.listed = FALSE, !.links = 0]
<1>1. Stop(t, r) = u
  <2> DEFINE v == [t EXCEPT !.stop = t.stop \cup {r}]
  <2>1. v \in Queue /\ v.links = IF v.listed THEN 1 ELSE 0
    <3>1. r \in Reasons
      BY DEF Reasons, StopsFor
    <3> QED BY <3>1 DEF Good, Queue
  <2>2. Stop(t, r) = DelFromHwList(v)
    BY DEF Stop, Good
  <2>3. u = [v EXCEPT !.listed = FALSE, !.links = 0]
    BY DEF Queue
  <2> HIDE DEF u, v
  <2> QED BY <2>1, <2>2, <2>3, Relinked
<1>2. /\ u.active = t.active /\ u.dirty = t.dirty /\ u.credits = t.credits
      /\ u.links = 0 /\ u.listed = FALSE /\ u.sk_list = t.sk_list
      /\ u.push_limit = t.push_limit /\ u.stop = t.stop \cup {r}
      /\ u.closed = t.closed /\ u.flow = t.flow
  BY QueueFields
<1>3. r \in u.stop /\ Stopped(u)
  BY <1>2 DEF Stopped
<1> HIDE DEF u
<1>4. Good(q, u, ps2, vs2, busy)
  BY <1>2, <1>3 DEF Good, VifReasons, StopsFor
<1>5. u.links <= t.links
  BY <1>2, QueueFields DEF Good
<1> QED BY <1>1, <1>2, <1>4, <1>5

LEMMA StartGood ==
    ASSUME NEW q, NEW t \in Queue, NEW ps, NEW vs, NEW busy,
           NEW r, NEW ps2, NEW vs2, Good(q, t, ps, vs, busy),
           StartsFor(r, ps, vs, ps2, vs2), r = "STA_PS" => t.push_limit = 0
    PROVE  /\ Good(q, Start(t, r), ps2, vs2, busy)
           /\ Start(t, r).sk_list = t.sk_list
           /\ Start(t, r).push_limit = t.push_limit
           /\ t.listed => Start(t, r).listed /\ Start(t, r).links = t.links
           /\ ~t.listed /\ Start(t, r).listed => /\ Start(t, r).links > t.links
                                                /\ ~Stopped(Start(t, r))
<1> DEFINE u == [t EXCEPT !.stop = t.stop \ {r}]
<1>1. /\ u.active = t.active /\ u.dirty = t.dirty /\ u.credits = t.credits
      /\ u.links = t.links /\ u.listed = t.listed /\ u.sk_list = t.sk_list
      /\ u.push_limit = t.push_limit /\ u.stop = t.stop \ {r}
      /\ u.closed = t.closed /\ u.flow = t.flow
  BY QueueFields
<1>2. u \in Queue
  BY DEF Queue
<1>3. Start(t, r) = IF r \in t.stop THEN ReadyToSend(u) ELSE t
  BY DEF Start, Good
<1>4. r \notin t.stop => u.stop = t.stop
  BY <1>1
<1> HIDE DEF u
<1>5. ASSUME t.listed \/ Stopped(u) \/ u.sk_list = <<>>
      PROVE  /\ Good(q, u, ps2, vs2, busy) 
  BY <1>1, <1>5 DEF Good, VifReasons, StartsFor
<1>6. CASE r \notin t.stop
  <2>1. Good(q, t, ps2, vs2, busy)
    BY <1>6 DEF Good, VifReasons, StartsFor
  <2> QED BY <1>3, <1>6, <2>1
<1>7. CASE r \in t.stop /\ (Stopped(u) \/ u.sk_list = <<>>)
  <2>1. Start(t, r) = u
    BY <1>3, <1>7 DEF ReadyToSend
  <2> QED BY <1>1, <1>5, <1>7, <2>1
<1>8. CASE r \in t.stop /\ ~Stopped(u) /\ u.sk_list # <<>>
  <2> DEFINE w == AddToHwList(u)
  <2>1. Start(t, r) = w
    BY <1>3, <1>8 DEF ReadyToSend
  <2>2. /\ w.active = t.active /\ w.dirty = t.dirty /\ w.credits = t.credits
        /\ w.links = 1 /\ w.listed = TRUE /\ w.sk_list = t.sk_list
        /\ w.push_limit = t.push_limit /\ w.stop = t.stop \ {r}
        /\ w.closed = t.closed /\ w.flow = t.flow
    <3>1. w = [u EXCEPT !.listed = TRUE, !.links = 1]
      BY <1>1, <1>2, Relinked DEF Good
    <3> HIDE DEF w
    <3> QED BY <1>1, <1>2, <3>1, QueueFields
  <2>3. w.stop = {}
    BY <1>1, <1>8, <2>2 DEF Stopped
  <2> HIDE DEF w
  <2>4. Good(q, w, ps2, vs2, busy)
    <3>1. w.sk_list # <<>>
      BY <1>1, <1>8, <2>2
    <3> QED BY <2>2, <2>3, <3>1 DEF Good, VifReasons, StartsFor
  <2>5. (t.listed => w.links = t.links) /\ (~t.listed => w.links > t.links)
    BY <2>2 DEF Good
  <2>6. ~Stopped(w)
    BY <2>3 DEF Stopped
  <2> QED BY <2>1, <2>2, <2>4, <2>5, <2>6
<1> QED BY <1>6, <1>7, <1>8

\* The two uses of each: the station's power save and the interface's reasons.
LEMMA StaStopGood ==
    ASSUME NEW q, NEW t \in Queue, NEW ps, NEW vs, NEW busy, Good(q, t, ps, vs, busy)
    PROVE  /\ Good(q, Stop(t, "STA_PS"), TRUE, vs, busy)
           /\ Stop(t, "STA_PS").sk_list = t.sk_list
           /\ Stop(t, "STA_PS").links <= t.links
           /\ ~Stop(t, "STA_PS").listed
           /\ Stop(t, "STA_PS").push_limit = t.push_limit
<1> DEFINE r == "STA_PS"  ps2 == TRUE  vs2 == vs
<1>1. r = "STA_PS" /\ ps2 /\ vs2 = vs
  OBVIOUS
<1> HIDE DEF r, ps2, vs2
<1>0. StopsFor(r, ps, vs, ps2, vs2)
  BY <1>1 DEF StopsFor, VifReasons
<1>2. /\ Good(q, Stop(t, r), ps2, vs2, busy)
      /\ Stop(t, r).sk_list = t.sk_list /\ Stop(t, r).links <= t.links
      /\ ~Stop(t, r).listed /\ Stop(t, r).push_limit = t.push_limit
  BY <1>0, StopGood
<1> QED BY <1>1, <1>2 DEF r, ps2, vs2

LEMMA StaStartGood ==
    ASSUME NEW q, NEW t \in Queue, NEW ps, NEW vs, NEW busy, Good(q, t, ps, vs, busy),
           t.push_limit = 0
    PROVE  /\ Good(q, Start(t, "STA_PS"), FALSE, vs, busy)
           /\ Start(t, "STA_PS").sk_list = t.sk_list
           /\ Start(t, "STA_PS").push_limit = t.push_limit
           /\ t.listed => /\ Start(t, "STA_PS").listed
                          /\ Start(t, "STA_PS").links = t.links
           /\ ~t.listed /\ Start(t, "STA_PS").listed => Start(t, "STA_PS").links > t.links
<1> DEFINE r == "STA_PS"  ps2 == FALSE  vs2 == vs
<1>1. r = "STA_PS" /\ ~ps2 /\ vs2 = vs
  OBVIOUS
<1> HIDE DEF r, ps2, vs2
<1>0. StartsFor(r, ps, vs, ps2, vs2) /\ (r = "STA_PS" => t.push_limit = 0)
  BY <1>1 DEF StartsFor, VifReasons
<1>2. /\ Good(q, Start(t, r), ps2, vs2, busy)
      /\ Start(t, r).sk_list = t.sk_list
      /\ Start(t, r).push_limit = t.push_limit
      /\ t.listed => Start(t, r).listed /\ Start(t, r).links = t.links
      /\ ~t.listed /\ Start(t, r).listed => Start(t, r).links > t.links
  BY <1>0, StartGood
<1> QED BY <1>1, <1>2 DEF r, ps2, vs2

LEMMA VifStopGood ==
    ASSUME NEW q, NEW t \in Queue, NEW ps, NEW vs, NEW busy, Good(q, t, ps, vs, busy),
           NEW r \in VifReasons
    PROVE  /\ Good(q, Stop(t, r), ps, vs \cup {r}, busy)
           /\ Stop(t, r).sk_list = t.sk_list /\ Stop(t, r).links <= t.links
           /\ ~Stop(t, r).listed /\ Stop(t, r).push_limit = t.push_limit
<1> DEFINE ps2 == ps  vs2 == vs \cup {r}
<1>1. ps2 = ps /\ vs2 = vs \cup {r}
  OBVIOUS
<1> HIDE DEF ps2, vs2
<1>0. StopsFor(r, ps, vs, ps2, vs2)
  BY <1>1 DEF StopsFor, VifReasons
<1>2. /\ Good(q, Stop(t, r), ps2, vs2, busy)
      /\ Stop(t, r).sk_list = t.sk_list /\ Stop(t, r).links <= t.links
      /\ ~Stop(t, r).listed /\ Stop(t, r).push_limit = t.push_limit
  BY <1>0, StopGood
<1> QED BY <1>1, <1>2 DEF ps2, vs2

LEMMA VifStartGood ==
    ASSUME NEW q, NEW t \in Queue, NEW ps, NEW vs, NEW busy, Good(q, t, ps, vs, busy),
           NEW r \in VifReasons
    PROVE  /\ Good(q, Start(t, r), ps, vs \ {r}, busy)
           /\ Start(t, r).sk_list = t.sk_list
           /\ Start(t, r).push_limit = t.push_limit
           /\ t.listed => Start(t, r).listed /\ Start(t, r).links = t.links
           /\ ~t.listed /\ Start(t, r).listed => /\ Start(t, r).links > t.links
                                                /\ ~Stopped(Start(t, r))
<1> DEFINE ps2 == ps  vs2 == vs \ {r}
<1>1. ps2 = ps /\ vs2 = vs \ {r}
  OBVIOUS
<1> HIDE DEF ps2, vs2
<1>0. StartsFor(r, ps, vs, ps2, vs2) /\ (r = "STA_PS" => t.push_limit = 0)
  BY <1>1 DEF StartsFor, VifReasons
<1>2. /\ Good(q, Start(t, r), ps2, vs2, busy)
      /\ Start(t, r).sk_list = t.sk_list
      /\ Start(t, r).push_limit = t.push_limit
      /\ t.listed => Start(t, r).listed /\ Start(t, r).links = t.links
      /\ ~t.listed /\ Start(t, r).listed => /\ Start(t, r).links > t.links
                                           /\ ~Stopped(Start(t, r))
  BY <1>0, StartGood
<1> QED BY <1>1, <1>2 DEF ps2, vs2

Longer(q, old, f) == FlowStop(q, [old EXCEPT !.sk_list = Append(old.sk_list, f)])
Enqueued(q, old, f) == LET t == Longer(q, old, f)
                       IN  IF Stopped(t) THEN t ELSE AddToHwList(t)

\* rwnx_txq_queue_skb adds a frame, links the queue unless it is stopped, and
\* closes the netdev queue when there are too many.
LEMMA QueueGood ==
    ASSUME NEW q, NEW old \in Queue, NEW ps, NEW vs, NEW f \in Frames,
           tbusy \in BOOLEAN, Good(q, old, ps, vs, tbusy)
    PROVE  /\ Good(q, Enqueued(q, old, f), ps, vs, tbusy)
           /\ Enqueued(q, old, f).sk_list = Append(old.sk_list, f)
           /\ Enqueued(q, old, f).push_limit = old.push_limit
           /\ Longer(q, old, f).stop = old.stop
           /\ Enqueued(q, old, f).stop = old.stop
           /\ Enqueued(q, old, f).listed <=> ~Stopped(old) \/ old.listed
           /\ Enqueued(q, old, f).listed => \/ old.listed
                                            \/ Enqueued(q, old, f).links > old.links
           /\ old.listed => Enqueued(q, old, f).links = old.links
<1> DEFINE u == [old EXCEPT !.sk_list = Append(old.sk_list, f)]
           t == FlowStop(q, u)
           new == IF Stopped(t) THEN t ELSE AddToHwList(t)
<1>1. /\ u.active = old.active /\ u.dirty = old.dirty /\ u.credits = old.credits
      /\ u.links = old.links /\ u.listed = old.listed /\ u.sk_list = Append(old.sk_list, f)
      /\ u.push_limit = old.push_limit /\ u.stop = old.stop
      /\ u.closed = old.closed /\ u.flow = old.flow
  BY QueueFields
<1>2. u \in Queue
  <2>1. Append(old.sk_list, f) \in Seq(Frames)
    BY QueueFields
  <2> QED BY <2>1 DEF Queue
<1>3. Len(u.sk_list) = Len(old.sk_list) + 1 /\ u.sk_list # <<>>
  <2>1. old.sk_list \in Seq(Frames)
    BY QueueFields
  <2>2. \A seq \in Seq(Frames) : /\ Len(Append(seq, f)) = Len(seq) + 1
                                 /\ Append(seq, f) # <<>>
    OBVIOUS
  <2> QED BY <1>1, <2>1, <2>2
<1> HIDE DEF u
<1>4. t \in Queue
  BY <1>2, FlowStopType
<1>5. /\ t.active = old.active /\ t.dirty = old.dirty /\ t.credits = old.credits
      /\ t.links = old.links /\ t.listed = old.listed /\ t.sk_list = u.sk_list
      /\ t.push_limit = old.push_limit /\ t.stop = old.stop
      /\ \/ t.closed = old.closed /\ t.flow = old.flow
         \/ /\ q \notin MgtTxqs /\ t.flow /\ Len(u.sk_list) > FLOW_STOP
  <2>1. DOMAIN u = {"active", "dirty", "stop", "listed", "links", "sk_list",
                          "push_limit", "credits", "flow", "closed"}
    BY <1>2, QueueFields
  <2> QED BY <1>1, <2>1 DEF FlowStop
<1>6. t.closed => /\ q \notin MgtTxqs
                  /\ tbusy \/ (t.flow /\ Len(t.sk_list) >= FLOW_RESTART)
  <2>1. Len(u.sk_list) > FLOW_STOP => Len(u.sk_list) >= FLOW_RESTART
    BY <1>3, TxQueueAssumption, QueueFields
  <2>2. Len(old.sk_list) >= FLOW_RESTART => Len(u.sk_list) >= FLOW_RESTART
    BY <1>3, TxQueueAssumption, QueueFields
  <2>3. t.closed \in BOOLEAN /\ old.closed \in BOOLEAN
    BY <1>4, QueueFields
  <2> QED BY <1>5, <2>1, <2>2, <2>3 DEF Good
<1> HIDE DEF t
<1>7. t.push_limit <= Len(t.sk_list)
  BY <1>3, <1>5, QueueFields DEF Good
<1>8. CASE Stopped(t)
  <2>1. new = t
    BY <1>8
  <2>2. Good(q, t, ps, vs, tbusy)
    BY <1>3, <1>5, <1>6, <1>7, <1>8 DEF Good
  <2> QED BY <1>1, <1>5, <1>8, <2>1, <2>2 DEF Stopped, u, t, new, Longer, Enqueued
<1>9. CASE ~Stopped(t)
  <2> DEFINE w == [t EXCEPT !.listed = TRUE, !.links = 1]
  <2>1. new = w
    BY <1>4, <1>5, <1>9, Relinked DEF Good
  <2>2. /\ w.active = t.active /\ w.dirty = t.dirty /\ w.credits = t.credits
        /\ w.links = 1 /\ w.listed = TRUE /\ w.sk_list = t.sk_list
        /\ w.push_limit = t.push_limit /\ w.stop = t.stop
        /\ w.closed = t.closed /\ w.flow = t.flow
    BY <1>4, QueueFields
  <2> HIDE DEF w, new
  <2>3. w.stop = {}
    BY <1>9, <2>2 DEF Stopped
  <2>4. Good(q, w, ps, vs, tbusy)
    BY <1>3, <1>5, <1>6, <1>7, <2>2, <2>3 DEF Good
  <2>5. (old.listed => w.links = old.links) /\ (~old.listed => w.links > old.links)
    BY <2>2 DEF Good
  <2> QED BY <1>1, <1>5, <1>9, <2>1, <2>2, <2>4, <2>5 DEF Stopped, u, t, new, Longer, Enqueued
<1> QED BY <1>8, <1>9

\* A pass takes what a service period was promised, or all that one pass may
\* take; nothing of the period is left, and a stopped queue is unlinked.
LEMMA PassGood ==
    ASSUME NEW q, NEW t \in Queue, NEW ps, NEW vs, tbusy \in BOOLEAN,
           Good(q, t, ps, vs, tbusy), t.listed
    PROVE  /\ Good(q, Pass(q, t), ps, vs, tbusy)
           /\ Taken(t) \in Nat /\ Taken(t) <= Len(t.sk_list)
           /\ t.push_limit > 0 => Taken(t) = t.push_limit
           /\ LimitLeft(t) = 0
           /\ Len(Pass(q, t).sk_list) = Len(t.sk_list) - Taken(t)
           /\ Pass(q, t).push_limit = 0
           /\ Pass(q, t).stop = t.stop
           /\ Pass(q, t).links <= t.links
           /\ Len(t.sk_list) <= CREDITS \/ t.push_limit > 0 => ~Pass(q, t).listed
           /\ Len(t.sk_list) <= CREDITS /\ t.push_limit = 0 => Pass(q, t).sk_list = <<>>
<1> DEFINE n == Taken(t)
           pushed == [t EXCEPT !.sk_list = SubSeq(t.sk_list, n + 1, Len(t.sk_list)),
                            !.push_limit = IF PsOf[q] = "LEGACY" THEN 0
                                           ELSE LimitLeft(t)]
           kept == IF Finished(t) THEN DelFromHwList(pushed) ELSE pushed
<1>1. /\ t.active /\ t.credits = CREDITS /\ CREDITS \in Nat \ {0}
      /\ t.push_limit \in Nat /\ Len(t.sk_list) \in Nat /\ Len(t.sk_list) > 0
      /\ t.push_limit <= Len(t.sk_list) /\ t.push_limit <= CREDITS
      /\ t.sk_list \in Seq(Frames) /\ t.links = 1
  BY QueueFields, Constants DEF Good
<1>2. /\ t.push_limit > 0 => Allowed(t) = t.push_limit
      /\ t.push_limit = 0 => Allowed(t) = CREDITS
  BY <1>1 DEF Allowed
<1>3. /\ n \in Nat /\ n <= Len(t.sk_list) /\ n > 0
      /\ t.push_limit > 0 => n = t.push_limit
      /\ t.push_limit = 0 /\ Len(t.sk_list) <= CREDITS => n = Len(t.sk_list)
      /\ LimitLeft(t) = 0
  BY <1>1, <1>2 DEF Taken, LimitLeft
<1>4. /\ t.push_limit > 0 \/ Len(t.sk_list) <= CREDITS => Finished(t)
      /\ ~Finished(t) => n < Len(t.sk_list)
  BY <1>1, <1>2 DEF Finished, Taken
<1>5. /\ SubSeq(t.sk_list, n + 1, Len(t.sk_list)) \in Seq(Frames)
      /\ Len(SubSeq(t.sk_list, n + 1, Len(t.sk_list))) = Len(t.sk_list) - n
      /\ SubSeq(t.sk_list, n + 1, Len(t.sk_list)) = <<>> <=> n = Len(t.sk_list)
  <2> HIDE DEF n
  <2> QED BY <1>1, <1>3, DropFrames
<1> HIDE DEF n
<1>6. /\ pushed \in Queue
      /\ pushed.active = t.active /\ pushed.dirty = t.dirty
      /\ pushed.credits = t.credits /\ pushed.links = t.links
      /\ pushed.listed = t.listed /\ pushed.push_limit = 0 /\ pushed.stop = t.stop
      /\ pushed.closed = t.closed /\ pushed.flow = t.flow
      /\ pushed.sk_list = SubSeq(t.sk_list, n + 1, Len(t.sk_list))
  <2> DEFINE rest == SubSeq(t.sk_list, n + 1, Len(t.sk_list))
  <2>1. (IF PsOf[q] = "LEGACY" THEN 0 ELSE LimitLeft(t)) = 0
    BY <1>3
  <2>2. pushed = [t EXCEPT !.sk_list = rest, !.push_limit = 0]
    BY <2>1
  <2>3. rest \in Seq(Frames)
    BY <1>5
  <2> HIDE DEF rest, pushed
  <2>4. pushed \in Queue
    BY <2>2, <2>3 DEF Queue
  <2>5. /\ pushed.active = t.active /\ pushed.dirty = t.dirty
      /\ pushed.credits = t.credits /\ pushed.links = t.links
      /\ pushed.listed = t.listed /\ pushed.push_limit = 0 /\ pushed.stop = t.stop
      /\ pushed.closed = t.closed /\ pushed.flow = t.flow
      /\ pushed.sk_list = rest
    BY <2>2, QueueFields
  <2> QED BY <2>4, <2>5 DEF rest
<1> HIDE DEF pushed
<1>7. /\ kept \in Queue
      /\ kept.active = t.active /\ kept.dirty = t.dirty
      /\ kept.credits = t.credits /\ kept.push_limit = 0 /\ kept.stop = t.stop
      /\ kept.closed = t.closed /\ kept.flow = t.flow
      /\ kept.sk_list = pushed.sk_list
      /\ kept.listed = (IF Finished(t) THEN FALSE ELSE TRUE)
      /\ kept.links = IF kept.listed THEN 1 ELSE 0
  <2>1. CASE Finished(t)
    <3>1. DelFromHwList(pushed) = [pushed EXCEPT !.listed = FALSE, !.links = 0]
      BY <1>1, <1>6, Relinked
    <3>2. kept = [pushed EXCEPT !.listed = FALSE, !.links = 0]
      BY <2>1, <3>1
    <3>3. kept \in Queue
      BY <1>6, <2>1, ListType
    <3> HIDE DEF kept
    <3> QED BY <1>6, <2>1, <3>2, <3>3, QueueFields
  <2>2. CASE ~Finished(t)
    BY <1>1, <1>6, <2>2, QueueFields
  <2> QED BY <2>1, <2>2
<1> DEFINE new == IF kept.flow /\ Len(kept.sk_list) < FLOW_RESTART
                  THEN [kept EXCEPT !.flow = FALSE, !.closed = tbusy /\ t.closed]
                  ELSE kept
<1>8. Pass(q, t) = new
  BY <1>1 DEF Pass, n, pushed
<1> HIDE DEF kept
<1>9. /\ new.active = t.active /\ new.dirty = t.dirty
      /\ new.credits = t.credits /\ new.push_limit = 0 /\ new.stop = t.stop
      /\ new.sk_list = kept.sk_list /\ new.listed = kept.listed
      /\ new.links = kept.links
      /\ \/ ~new.closed
         \/ tbusy /\ t.closed
         \/ new.closed = t.closed /\ new.flow = t.flow /\ kept = new
            /\ ~(kept.flow /\ Len(kept.sk_list) < FLOW_RESTART)
  <2>1. CASE kept.flow /\ Len(kept.sk_list) < FLOW_RESTART
    BY <1>7, <2>1, QueueFields
  <2>2. CASE ~(kept.flow /\ Len(kept.sk_list) < FLOW_RESTART)
    BY <1>7, <2>2
  <2> QED BY <2>1, <2>2
<1> HIDE DEF new
<1>10. new.closed => /\ q \notin MgtTxqs
                     /\ tbusy \/ (new.flow /\ Len(new.sk_list) >= FLOW_RESTART)
  <2>1. SUFFICES ASSUME new.closed
                 PROVE  /\ q \notin MgtTxqs
                        /\ tbusy \/ (new.flow /\ Len(new.sk_list) >= FLOW_RESTART)
    OBVIOUS
  <2>2. CASE tbusy /\ t.closed
    BY <2>2 DEF Good
  <2>3. CASE /\ new.closed = t.closed /\ new.flow = t.flow /\ kept = new
             /\ ~(kept.flow /\ Len(kept.sk_list) < FLOW_RESTART)
    <3>1. Len(kept.sk_list) \in Nat /\ FLOW_RESTART \in Nat
      BY <1>7, QueueFields, TxQueueAssumption
    <3>2. q \notin MgtTxqs /\ (tbusy \/ t.flow)
      BY <2>1, <2>3 DEF Good
    <3> QED BY <2>3, <3>1, <3>2
  <2> QED BY <1>9, <2>1, <2>2, <2>3
<1>11. Good(q, new, ps, vs, tbusy)
  <2>1. new.listed => new.sk_list # <<>>
    <3>1. SUFFICES ASSUME new.listed PROVE n # Len(t.sk_list)
      BY <1>5, <1>6, <1>7, <1>9
    <3>2. ~Finished(t)
      BY <1>7, <1>9, <3>1
    <3> QED BY <1>1, <1>3, <1>4, <3>2
  <2>2. new.sk_list # <<>> /\ ~Stopped(new) => new.listed
    <3>1. SUFFICES ASSUME new.sk_list # <<>>, ~Stopped(new), Finished(t) PROVE FALSE
      BY <1>7, <1>9
    <3>2. t.push_limit = 0
      BY <1>1, <1>9, <3>1 DEF Good, Stopped
    <3>3. Len(t.sk_list) <= CREDITS
      BY <1>1, <1>2, <3>1, <3>2 DEF Finished
    <3> QED BY <1>3, <1>5, <1>6, <1>7, <1>9, <3>1, <3>2, <3>3
  <2>3. 0 <= Len(new.sk_list)
    BY <1>7, <1>9, QueueFields
  <2>4. new.listed => new.stop \cap {"CHAN", "VIF_PS"} = {}
    BY <1>9 DEF Good
  <2> QED BY <1>1, <1>7, <1>9, <1>10, <2>1, <2>2, <2>3, <2>4 DEF Good
<1>12. new.links <= t.links
  BY <1>1, <1>7, <1>9
<1> QED BY <1>1, <1>3, <1>4, <1>5, <1>6, <1>7, <1>8, <1>9, <1>11, <1>12 DEF n

\* A request opens a period of n frames in a queue of a sleeping station.
Promise(t, n) == AddToHwList([t EXCEPT !.push_limit = n])

LEMMA LimitGood ==
    ASSUME NEW q, NEW t \in Queue, NEW vs, NEW busy,
           NEW n \in Nat, 0 < n, n <= Len(t.sk_list), n <= CREDITS,
           vs \cap {"CHAN", "VIF_PS"} = {}, Good(q, t, TRUE, vs, busy)
    PROVE  /\ Good(q, Promise(t, n), TRUE, vs, busy)
           /\ Promise(t, n).sk_list = t.sk_list /\ Promise(t, n).push_limit = n
           /\ Promise(t, n).stop = t.stop /\ Promise(t, n).listed
           /\ t.listed => Promise(t, n).links = t.links
           /\ ~t.listed => Promise(t, n).links > t.links
<1> DEFINE u == [t EXCEPT !.push_limit = n]
           w == [u EXCEPT !.listed = TRUE, !.links = 1]
<1>1. /\ u.active = t.active /\ u.dirty = t.dirty /\ u.credits = t.credits
      /\ u.links = t.links /\ u.listed = t.listed /\ u.sk_list = t.sk_list
      /\ u.push_limit = n /\ u.stop = t.stop
      /\ u.closed = t.closed /\ u.flow = t.flow
  BY QueueFields
<1>2. u \in Queue
  BY DEF Queue
<1> HIDE DEF u
<1>3. AddToHwList(u) = w
  BY <1>1, <1>2, Relinked DEF Good
<1>4. /\ w.active = t.active /\ w.dirty = t.dirty /\ w.credits = t.credits
      /\ w.links = 1 /\ w.listed = TRUE /\ w.sk_list = t.sk_list
      /\ w.push_limit = n /\ w.stop = t.stop
      /\ w.closed = t.closed /\ w.flow = t.flow
  BY <1>1, <1>2, QueueFields
<1> HIDE DEF w
<1>5. w.sk_list # <<>>
  BY <1>4, QueueFields
<1>6. w.stop \cap {"CHAN", "VIF_PS"} = {}
  BY <1>4 DEF Good
<1>7. Good(q, w, TRUE, vs, busy)
  BY <1>4, <1>5, <1>6 DEF Good
<1>8. (t.listed => w.links = t.links) /\ (~t.listed => w.links > t.links)
  BY <1>4 DEF Good
<1> QED BY <1>3, <1>4, <1>7, <1>8 DEF u, Promise

\* Ending a period, and closing or opening the netdev queue.
LEMMA FieldGood ==
    ASSUME NEW q, NEW t \in Queue, NEW ps, NEW vs, NEW busy,
           Good(q, t, ps, vs, busy)
    PROVE  /\ [t EXCEPT !.push_limit = 0] \in Queue
           /\ Good(q, [t EXCEPT !.push_limit = 0], ps, vs, busy)
           /\ q \notin MgtTxqs => Good(q, [t EXCEPT !.closed = TRUE], ps, vs, TRUE)
           /\ q \notin MgtTxqs => Good(q, [t EXCEPT !.closed = FALSE], ps, vs, FALSE)
           /\ q \in MgtTxqs => Good(q, t, ps, vs, TRUE) /\ Good(q, t, ps, vs, FALSE)
<1>1. ASSUME NEW u \in {[t EXCEPT !.push_limit = 0], [t EXCEPT !.closed = TRUE],
                        [t EXCEPT !.closed = FALSE]}
      PROVE  /\ u.active = t.active /\ u.dirty = t.dirty /\ u.credits = t.credits
             /\ u.links = t.links /\ u.listed = t.listed /\ u.sk_list = t.sk_list
             /\ u.stop = t.stop /\ u.flow = t.flow
             /\ u.push_limit \in {0, t.push_limit}
  BY QueueFields
<1>2. [t EXCEPT !.push_limit = 0] \in Queue
  BY DEF Queue
<1>3. Good(q, [t EXCEPT !.push_limit = 0], ps, vs, busy)
  <2> DEFINE u == [t EXCEPT !.push_limit = 0]
  <2>1. u.push_limit = 0 /\ u.closed = t.closed
    BY QueueFields
  <2>2. /\ u.active = t.active /\ u.dirty = t.dirty /\ u.credits = t.credits
        /\ u.links = t.links /\ u.listed = t.listed /\ u.sk_list = t.sk_list
        /\ u.stop = t.stop /\ u.flow = t.flow
    BY <1>1
  <2> HIDE DEF u
  <2>3. 0 <= Len(u.sk_list) /\ 0 <= CREDITS
    BY <2>2, QueueFields, Constants
  <2>4. Good(q, u, ps, vs, busy)
    BY <2>1, <2>2, <2>3 DEF Good, Stopped
  <2> QED BY <2>4 DEF u
<1>4. ASSUME NEW b \in BOOLEAN, q \notin MgtTxqs
      PROVE  Good(q, [t EXCEPT !.closed = b], ps, vs, b)
  <2> DEFINE u == [t EXCEPT !.closed = b]
  <2>1. u.push_limit = t.push_limit /\ u.closed = b
    BY QueueFields
  <2>2. /\ u.active = t.active /\ u.dirty = t.dirty /\ u.credits = t.credits
        /\ u.links = t.links /\ u.listed = t.listed /\ u.sk_list = t.sk_list
        /\ u.stop = t.stop /\ u.flow = t.flow
    BY QueueFields
  <2> HIDE DEF u
  <2>4. Good(q, u, ps, vs, b)
    BY <1>4, <2>1, <2>2 DEF Good, Stopped
  <2> QED BY <2>4 DEF u
<1>5. q \in MgtTxqs => Good(q, t, ps, vs, TRUE) /\ Good(q, t, ps, vs, FALSE)
  BY DEF Good
<1> QED BY <1>2, <1>3, <1>4, <1>5

-----------------------------------------------------------------------------
(* The invariant of the interface *)

GoodQueues == \A q \in Txqs : Good(q, txq[q], sta[StaOf[q]].ps, vifStop, tbusy)

\* What Settled says of everything but the queues.
Steady ==
    /\ \A s \in Stas : sta[s].phase = "valid"
    /\ rx.pc \in {"idle", "ps"}
    /\ rx.pc = "ps" => rx.valid /\ sta[rx.s].ps # rx.on
    /\ ~bug

QInv == TypeOK /\ Steady /\ LockHeld /\ Room /\ ReadyCount /\ GoodQueues

LEMMA AllLinked ==
    ASSUME Steady
    PROVE  LinkedTxqs = Txqs /\ \A s \in Stas : Valid(s)
<1>1. \A s \in Stas : Valid(s)
  BY DEF Steady, Valid
<1> QED BY <1>1, Constants DEF LinkedTxqs

LEMMA QuietParts == QuietInv <=> QInv
<1>1. ASSUME QuietInv PROVE QInv
  <2>1. TypeOK /\ Steady /\ LockHeld /\ Room /\ ReadyCount
    BY <1>1 DEF QuietInv, Settled, Steady
  <2>2. LinkedTxqs = Txqs
    BY <2>1, AllLinked
  <2>3. ASSUME NEW q \in Txqs
        PROVE  Good(q, txq[q], sta[StaOf[q]].ps, vifStop, tbusy)
    BY <1>1, <2>2 DEF QuietInv, Settled, Linked, Kept, Limited, OnChannel,
                      ClosedForReason, StopsAgree, VifStopReaches, PsAgrees, Good
  <2> QED BY <2>1, <2>3 DEF QInv, GoodQueues
<1>2. ASSUME QInv PROVE QuietInv
  <2>1. TypeOK /\ Steady /\ LockHeld /\ Room /\ ReadyCount /\ LinkedTxqs = Txqs
    BY <1>2, AllLinked DEF QInv
  <2>2. \A q \in Txqs : Good(q, txq[q], sta[StaOf[q]].ps, vifStop, tbusy)
    BY <1>2 DEF QInv, GoodQueues
  <2>3. Settled /\ Linked /\ Kept
    BY <2>1, <2>2 DEF Steady, Settled, Linked, Kept, Good
  <2>4. Limited /\ OnChannel /\ ClosedForReason
    BY <2>2 DEF Limited, OnChannel, ClosedForReason, Good
  <2>5. StopsAgree
    BY <2>1, <2>2 DEF StopsAgree, VifStopReaches, PsAgrees, Good
  <2> QED BY <2>1, <2>3, <2>4, <2>5 DEF QuietInv
<1> QED BY <1>1, <1>2

\* The senders on their way to a queue.
LEMMA OnTheWayNat ==
    ASSUME NEW q
    PROVE  OnTheWay(q) \in Nat
<1>1. IsFiniteSet({x \in Senders : xmit[x].pc = "checked" /\ xmit[x].q = q})
  BY TxQueueAssumption, FS_Subset
<1> QED BY <1>1, FS_CardinalityType DEF OnTheWay

OnWay(xm, q) == Cardinality({y \in Senders : xm[y].pc = "checked" /\ xm[y].q = q})

LEMMA OnTheWayIs ==
    ASSUME NEW q
    PROVE  OnTheWay(q) = OnWay(xmit, q) /\ OnTheWay(q)' = OnWay(xmit', q)
BY DEF OnTheWay, OnWay

\* Sender x alone takes a step.
LEMMA OnTheWayStep ==
    ASSUME NEW xm, NEW xm2, NEW x \in Senders,
           \A y \in Senders \ {x} : xm2[y] = xm[y], NEW q
    PROVE  /\ /\ ~(xm[x].pc = "checked" /\ xm[x].q = q)
              /\ ~(xm2[x].pc = "checked" /\ xm2[x].q = q)
              => OnWay(xm2, q) = OnWay(xm, q)
           /\ /\ ~(xm[x].pc = "checked" /\ xm[x].q = q)
              /\ xm2[x].pc = "checked" /\ xm2[x].q = q
              => OnWay(xm2, q) = OnWay(xm, q) + 1
           /\ /\ xm[x].pc = "checked" /\ xm[x].q = q
              /\ ~(xm2[x].pc = "checked" /\ xm2[x].q = q)
              => OnWay(xm2, q) = OnWay(xm, q) - 1
<1> DEFINE W == {y \in Senders : xm[y].pc = "checked" /\ xm[y].q = q}
           V == {y \in Senders : xm2[y].pc = "checked" /\ xm2[y].q = q}
<1>1. OnWay(xm, q) = Cardinality(W) /\ OnWay(xm2, q) = Cardinality(V)
  BY DEF OnWay
<1>2. IsFiniteSet(W) /\ IsFiniteSet(V)
  BY TxQueueAssumption, FS_Subset
<1>4. CASE /\ ~(xm[x].pc = "checked" /\ xm[x].q = q)
           /\ ~(xm2[x].pc = "checked" /\ xm2[x].q = q)
  <2>1. V = W
    BY <1>4
  <2> QED BY <1>1, <1>4, <2>1
<1>5. CASE /\ ~(xm[x].pc = "checked" /\ xm[x].q = q)
           /\ xm2[x].pc = "checked" /\ xm2[x].q = q
  <2>1. V = W \cup {x} /\ x \notin W
    BY <1>5
  <2>2. Cardinality(V) = Cardinality(W) + 1
    <3> HIDE DEF V, W
    <3> QED BY <2>1, <1>2, FS_AddElement
  <2> QED BY <1>1, <1>5, <2>2
<1>6. CASE /\ xm[x].pc = "checked" /\ xm[x].q = q
           /\ ~(xm2[x].pc = "checked" /\ xm2[x].q = q)
  <2>1. V = W \ {x} /\ x \in W
    BY <1>6
  <2>2. Cardinality(V) = Cardinality(W) - 1
    <3> HIDE DEF V, W
    <3> QED BY <2>1, <1>2, FS_RemoveElement
  <2> QED BY <1>1, <1>6, <2>2
<1>7. CASE /\ xm[x].pc = "checked" /\ xm[x].q = q
           /\ xm2[x].pc = "checked" /\ xm2[x].q = q
  BY <1>7
<1> QED BY <1>4, <1>5, <1>6, <1>7

LEMMA OnTheWaySame ==
    ASSUME NEW q, NEW x \in Senders, ~(xmit[x].pc = "checked" /\ xmit[x].q = q),
           ~(xmit'[x].pc = "checked" /\ xmit'[x].q = q),
           \A y \in Senders \ {x} : xmit'[y] = xmit[y]
    PROVE  OnWay(xmit', q) = OnWay(xmit, q)
BY OnTheWayStep

LEMMA OnTheWayMore ==
    ASSUME NEW q, NEW x \in Senders, xmit[x].pc # "checked",
           xmit'[x].pc = "checked", xmit'[x].q = q,
           \A y \in Senders \ {x} : xmit'[y] = xmit[y]
    PROVE  OnWay(xmit', q) = OnWay(xmit, q) + 1
BY OnTheWayStep

LEMMA OnTheWayLess ==
    ASSUME NEW q, NEW x \in Senders, xmit[x].pc = "checked", xmit[x].q = q,
           xmit'[x].pc # "checked", \A y \in Senders \ {x} : xmit'[y] = xmit[y]
    PROVE  OnWay(xmit', q) = OnWay(xmit, q) - 1
BY OnTheWayStep

Lens == [q \in Txqs |-> Len(txq[q].sk_list)]

LEMMA LensNat ==
    ASSUME TypeOK
    PROVE  \A q \in Txqs : txq[q] \in Queue /\ Lens[q] \in Nat
<1>1. \A q \in Txqs : txq[q] \in Queue
  BY DEF TypeOK
<1> QED BY <1>1, QueueFields DEF Lens

\* What the queues of a station hold fits its counter.
LEMMA HeldSmall ==
    ASSUME NEW f, \A q \in Txqs : f[q] \in Nat /\ f[q] <= MaxLen,
           NEW s, NEW p \in PsIds
    PROVE  PerPs(s, f)[p] \in Nat /\ PerPs(s, f)[p] < CountMod
<1> DEFINE T == TxqsOfPs(s, p)
<1>1. T \subseteq Txqs /\ IsFiniteSet(T) /\ Cardinality(T) \in Nat
        /\ Cardinality(T) <= Cardinality(Txqs)
  BY PsQueues
<1>2. \A q \in T : f[q] \in Nat /\ f[q] <= MaxLen
  BY <1>1
<1>3. PerPs(s, f)[p] = SumFunctionOnSet(f, T)
  BY DEF PerPs
<1> HIDE DEF T
<1>4. SumFunctionOnSet(f, T) \in Nat
  BY <1>1, <1>2, SumNat
<1>5. SumFunctionOnSet(f, T) <= MaxLen * Cardinality(T)
  BY <1>1, <1>2, TxQueueAssumption, SumBound
<1>6. MaxLen * Cardinality(T) <= MaxLen * Cardinality(Txqs)
  <2>1. \A a, b, c \in Nat : b <= c => a * b <= a * c
    OBVIOUS
  <2> QED BY <1>1, <2>1, TxQueueAssumption, Constants
<1>7. MaxLen * Cardinality(T) \in Nat /\ MaxLen * Cardinality(Txqs) \in Nat
  BY <1>1, TxQueueAssumption, Constants
<1> QED BY <1>3, <1>4, <1>5, <1>6, <1>7, TxQueueAssumption

LEMMA LensSmall ==
    ASSUME TypeOK, Room
    PROVE  \A q \in Txqs : Lens[q] \in Nat /\ Lens[q] <= MaxLen
<1>1. SUFFICES ASSUME NEW q \in Txqs PROVE Lens[q] \in Nat /\ Lens[q] <= MaxLen
  OBVIOUS
<1>2. Lens[q] \in Nat /\ OnTheWay(q) \in Nat /\ MaxLen \in Nat
  BY LensNat, OnTheWayNat, TxQueueAssumption
<1>3. Lens[q] + OnTheWay(q) <= MaxLen
  BY DEF Room, Lens
<1> QED BY <1>2, <1>3

LEMMA PerPsPlus ==
    ASSUME NEW s, NEW p \in PsIds, NEW f, NEW g, NEW d,
           \A q \in TxqsOfPs(s, p) : f[q] \in Int /\ d[q] \in Int /\ g[q] = f[q] + d[q]
    PROVE  PerPs(s, g)[p] = PerPs(s, f)[p] + PerPs(s, d)[p]
<1>1. TxqsOfPs(s, p) \subseteq Txqs /\ IsFiniteSet(TxqsOfPs(s, p))
  BY PsQueues
<1>2. SumFunctionOnSet(g, TxqsOfPs(s, p))
        = SumFunctionOnSet(f, TxqsOfPs(s, p)) + SumFunctionOnSet(d, TxqsOfPs(s, p))
  BY <1>1, SumPlus
<1> QED BY <1>2 DEF PerPs

LEMMA PerPsSame ==
    ASSUME NEW s, NEW p \in PsIds, NEW f, NEW g,
           \A q \in TxqsOfPs(s, p) : f[q] \in Int /\ g[q] = f[q]
    PROVE  PerPs(s, g)[p] = PerPs(s, f)[p]
<1>1. IsFiniteSet(TxqsOfPs(s, p))
  BY PsQueues
<1>2. SumFunctionOnSet(g, TxqsOfPs(s, p)) = SumFunctionOnSet(f, TxqsOfPs(s, p))
  BY <1>1, SumSame
<1> QED BY <1>2 DEF PerPs

LEMMA PerPsZero ==
    ASSUME NEW s, NEW p \in PsIds, NEW f, \A q \in TxqsOfPs(s, p) : f[q] \in Nat
    PROVE  PerPs(s, f)[p] = 0 <=> \A q \in TxqsOfPs(s, p) : f[q] = 0
<1>1. IsFiniteSet(TxqsOfPs(s, p))
  BY PsQueues
<1>2. /\ SumFunctionOnSet(f, TxqsOfPs(s, p)) \in Nat
      /\ \A q \in TxqsOfPs(s, p) : f[q] <= SumFunctionOnSet(f, TxqsOfPs(s, p))
  BY <1>1, SumNat
<1>3. PerPs(s, f)[p] = SumFunctionOnSet(f, TxqsOfPs(s, p))
  BY DEF PerPs
<1>4. ASSUME PerPs(s, f)[p] = 0, NEW q \in TxqsOfPs(s, p) PROVE f[q] = 0
  BY <1>2, <1>3, <1>4
<1>5. ASSUME \A q \in TxqsOfPs(s, p) : f[q] = 0 PROVE PerPs(s, f)[p] = 0
  BY <1>1, <1>3, <1>5, SumZero
<1> QED BY <1>4, <1>5

\* One frame more in queue q is one more of its station and its ps_id.
LEMMA PerPsOneMore ==
    ASSUME NEW s \in Stas, NEW p \in PsIds, NEW f, NEW g, NEW q \in Txqs,
           \A r \in Txqs : f[r] \in Int /\ g[r] = IF r = q THEN f[r] + 1 ELSE f[r]
    PROVE  PerPs(s, g)[p] = IF s = StaOf[q] /\ p = PsOf[q]
                            THEN PerPs(s, f)[p] + 1 ELSE PerPs(s, f)[p]
<1> DEFINE d == [r \in Txqs |-> IF r = q THEN 1 ELSE 0]
           T == TxqsOfPs(s, p)
<1>0. T \subseteq Txqs /\ IsFiniteSet(T)
  BY PsQueues
<1>1. PerPs(s, g)[p] = PerPs(s, f)[p] + PerPs(s, d)[p]
  <2>1. \A r \in T : f[r] \in Int /\ d[r] \in Int /\ g[r] = f[r] + d[r]
    BY <1>0
  <2> HIDE DEF d
  <2> QED BY <2>1, PerPsPlus
<1>2. q \in T <=> s = StaOf[q] /\ p = PsOf[q]
  BY DEF TxqsOfPs, TxqsOf
<1>3. d[q] = 1 /\ \A r \in Txqs : r # q => d[r] = 0
  OBVIOUS
<1>4. PerPs(s, d)[p] = SumFunctionOnSet(d, T)
  BY DEF PerPs
<1>5. PerPs(s, f)[p] \in Int
  <2>1. \A x \in T : f[x] \in Int
    BY <1>0
  <2>2. SumFunctionOnSet(f, T) \in Int
    <3> HIDE DEF T
    <3>1. Partial(f, T) \in [SUBSET T -> Int]
      BY <1>0, <2>1, PartialSums
    <3> QED BY <3>1, SumPartial
  <2> QED BY <2>2 DEF PerPs
<1> HIDE DEF d, T
<1>6. q \in T => SumFunctionOnSet(d, T) = 1
  BY <1>0, <1>3, SumOne
<1>7. q \notin T => SumFunctionOnSet(d, T) = 0
  <2>1. q \notin T => \A r \in T : d[r] = 0
    BY <1>0, <1>3
  <2> QED BY <1>0, <2>1, SumZero
<1> QED BY <1>1, <1>2, <1>4, <1>5, <1>6, <1>7

-----------------------------------------------------------------------------
(* The steps that are left while no station comes or goes and nothing is   *)
(* confirmed.                                                              *)

QuietStep ==
    \/ \E x \in Senders, q \in Txqs, f \in Frames : XmitCheck(x, q, f)
    \/ \E x \in Senders : XmitQueue(x)
    \/ \E x \in Senders : XmitProcess(x)
    \/ Task
    \/ \E s \in Stas, on \in BOOLEAN : PsChangeInd(s, on)
    \/ PsChange
    \/ \E s \in Stas, n \in 0..MaxReq, p \in PsIds : TrafficReq(s, n, p)
    \/ \E s \in Stas : SpInterrupted(s)
    \/ \E r \in VifReasons : VifStop(r)
    \/ \E r \in VifReasons : VifStart(r)
    \/ BusStop
    \/ BusWake

LEMMA QuietSteps ==
    ASSUME Quiet, QInv, Next
    PROVE  QuietStep
<1>1. /\ \A s \in Stas : sta[s].phase = "valid"
      /\ rx.pc \in {"idle", "ps"} /\ (rx.pc = "ps" => rx.valid)
      /\ \A q \in Txqs : txq[q].active /\ ~txq[q].dirty
      /\ \A q \in Txqs : StaOf[q] \in Stas
  BY Constants DEF QInv, Steady, GoodQueues, Good
<1>2. "sta" \notin Events /\ "cfm" \notin Events
  BY DEF Quiet
<1>3. ~Stations
  BY <1>1, <1>2 DEF Stations, StaUnlink, StaGone, StaAdd, StaRefused, StaInit,
                    StaAdded, StaLink, TxqDeinit, TxqFlush, Phase
<1>4. ~PsRemember /\ ~CfmRetry /\ ~CfmInsert /\ ~CfmLink /\ ~CfmLinked
  BY <1>1 DEF PsRemember, CfmRetry, CfmInsert, CfmLink, CfmLinked
<1>5. \A q \in Txqs : ~CreditUpdate(q) /\ \A again \in BOOLEAN : ~Cfm(q, again)
  BY <1>2 DEF CreditUpdate, Cfm
<1> QED BY <1>3, <1>4, <1>5 DEF Next, Xmit, Indication, RxStep, QuietStep

\* Room and ReadyCount when neither queue nor sender moves.
LEMMA SameRoom ==
    ASSUME Room, UNCHANGED xmit, \A q \in Txqs : txq'[q].sk_list = txq[q].sk_list
    PROVE  Room' /\ Lens' = Lens
BY DEF Room, Lens, OnTheWay

LEMMA SameReady ==
    ASSUME ReadyCount, Lens' = Lens, Steady,
           \A s \in Stas : sta'[s].ps => sta[s].ps /\ sta'[s].ready = sta[s].ready
    PROVE  ReadyCount'
<1>1. SUFFICES ASSUME NEW s \in Stas, NEW p \in PsIds, sta'[s].ps
               PROVE  sta'[s].ready[p] = PerPs(s, Lens')[p]
  BY DEF ReadyCount, Lens
<1>2. sta[s].ps /\ sta'[s].ready[p] = sta[s].ready[p] /\ Valid(s)
  BY <1>1, AllLinked
<1>3. sta[s].ready[p] = PerPs(s, Lens)[p]
  BY <1>2 DEF ReadyCount, Lens
<1> QED BY <1>2, <1>3

LEMMA QuietCheck ==
    ASSUME QInv, NEW x \in Senders, NEW q \in Txqs, NEW f \in Frames, XmitCheck(x, q, f)
    PROVE  Steady' /\ LockHeld' /\ Room' /\ ReadyCount' /\ GoodQueues'
<1>1. UNCHANGED <<adding, txq, sta, vifStop, need, tasklet, tbusy, lock, rx, fw, bug>>
  BY DEF XmitCheck
<1>2. Steady' /\ ReadyCount' /\ GoodQueues'
  BY <1>1 DEF QInv, Steady, ReadyCount, Valid, GoodQueues
<1>3. /\ xmit[x].pc = "idle" /\ xmit'[x].pc = "checked" /\ xmit'[x].q = q
      /\ \A y \in Senders \ {x} : xmit'[y] = xmit[y]
  BY DEF XmitCheck, QInv, TypeOK
<1>4. LockHeld'
  BY <1>1, <1>3 DEF XmitCheck, QInv, LockHeld
<1>5. Room'
  <2>1. SUFFICES ASSUME NEW r \in Txqs PROVE Len(txq[r].sk_list) + OnTheWay(r)' <= MaxLen
    BY <1>1 DEF Room
  <2>2. Len(txq[r].sk_list) + OnTheWay(r) <= MaxLen
    BY DEF QInv, Room
  <2>3. CASE r # q
    <3>1. /\ ~(xmit[x].pc = "checked" /\ xmit[x].q = r)
          /\ ~(xmit'[x].pc = "checked" /\ xmit'[x].q = r)
      BY <1>3, <2>3
    <3>2. OnWay(xmit', r) = OnWay(xmit, r)
      BY <1>3, <3>1, OnTheWaySame
    <3> QED BY <2>2, <3>2, OnTheWayIs
  <2>4. CASE r = q
    <3>0. OnWay(xmit', q) = OnWay(xmit, q) + 1
      <4>1. xmit[x].pc # "checked"
        BY <1>3
      <4> QED BY <1>3, <4>1, OnTheWayMore
    <3>1. OnTheWay(q)' = OnTheWay(q) + 1
      BY <3>0, OnTheWayIs
    <3>2. Len(txq[q].sk_list) + OnTheWay(q) < MaxLen
      BY DEF XmitCheck
    <3>3. Len(txq[q].sk_list) \in Nat /\ OnTheWay(q) \in Nat /\ MaxLen \in Nat
      BY LensNat, QueueFields, OnTheWayNat, TxQueueAssumption DEF QInv
    <3> QED BY <2>4, <3>1, <3>2, <3>3
  <2> QED BY <2>3, <2>4
<1> QED BY <1>2, <1>4, <1>5

LEMMA QuietQueue ==
    ASSUME QInv, NEW x \in Senders, XmitQueue(x)
    PROVE  /\ Steady' /\ LockHeld' /\ Room' /\ ReadyCount' /\ GoodQueues'
           /\ xmit[x].q \in Txqs
           /\ \A q \in Txqs \ {xmit[x].q} : txq'[q] = txq[q]
           /\ need' = NeedAfter(txq')
           /\ LET q == xmit[x].q
              IN  /\ txq'[q].push_limit = txq[q].push_limit
                  /\ txq'[q].stop = txq[q].stop
                  /\ txq'[q].sk_list = Append(txq[q].sk_list, xmit[x].frame)
                  /\ Stopped(txq[q]) =>
                        /\ xmit' = [xmit EXCEPT ![x] = XIdle]
                        /\ txq'[q].listed <=> txq[q].listed
                        /\ txq'[q].listed => txq'[q].links = txq[q].links
                  /\ ~Stopped(txq[q]) =>
                        xmit' = [xmit EXCEPT ![x] = [pc |-> "queued", q |-> q]]
<1> DEFINE q == xmit[x].q
           s == StaOf[q]
           p == PsOf[q]
           old == txq[q]
           t == Longer(q, old, xmit[x].frame)
           new == Enqueued(q, old, xmit[x].frame)
           e == IF Stopped(t) THEN XIdle ELSE [pc |-> "queued", q |-> q]
<1>1. q \in Txqs /\ xmit[x].frame \in Frames
  BY Threads DEF XmitQueue, QInv
<1>2. s \in Stas /\ p \in PsIds
  BY <1>1, Constants
<1>3. old \in Queue /\ sta[s] \in Station /\ tbusy \in BOOLEAN /\ sta[s].ps \in BOOLEAN
  BY <1>1, <1>2 DEF QInv, TypeOK, Station
<1>4. Good(q, old, sta[s].ps, vifStop, tbusy)
  BY <1>1 DEF QInv, GoodQueues
<1>5. /\ Good(q, new, sta[s].ps, vifStop, tbusy)
      /\ new.sk_list = Append(old.sk_list, xmit[x].frame)
      /\ new.push_limit = old.push_limit
      /\ t.stop = old.stop /\ new.stop = old.stop
      /\ new.listed <=> ~Stopped(old) \/ old.listed
      /\ new.listed => old.listed \/ new.links > old.links
      /\ old.listed => new.links = old.links
  <2> HIDE DEF q, s, p, old
  <2> DEFINE f == xmit[x].frame
  <2>1. f \in Frames
    BY <1>1
  <2> HIDE DEF f
  <2>2. /\ Good(q, Enqueued(q, old, f), sta[s].ps, vifStop, tbusy)
        /\ Enqueued(q, old, f).sk_list = Append(old.sk_list, f)
        /\ Enqueued(q, old, f).push_limit = old.push_limit
        /\ Longer(q, old, f).stop = old.stop
        /\ Enqueued(q, old, f).stop = old.stop
        /\ Enqueued(q, old, f).listed <=> ~Stopped(old) \/ old.listed
        /\ Enqueued(q, old, f).listed => \/ old.listed
                                         \/ Enqueued(q, old, f).links > old.links
        /\ old.listed => Enqueued(q, old, f).links = old.links
    BY <1>1, <1>3, <1>4, <2>1, QueueGood
  <2> QED BY <2>2 DEF f
<1>6. /\ txq' = [r \in Txqs |-> IF r \in {q} THEN new ELSE txq[r]]
      /\ need' = NeedAfter(txq')
  BY DEF XmitQueue, Update, Longer, Enqueued
<1>7. sta' = IF sta[s].ps
             THEN [sta EXCEPT ![s] = CountReady(sta[s], p, sta[s].ready[p])]
             ELSE sta
  BY DEF XmitQueue
<1>8. /\ Stopped(t) => e = XIdle /\ e.pc = "idle" /\ lock' = lock
      /\ ~Stopped(t) => e.pc = "queued" /\ e = [pc |-> "queued", q |-> q] /\ lock' = x
      /\ xmit[x].pc = "checked" /\ lock = NoSender /\ NoSender \notin Senders
      /\ xmit' = [xmit EXCEPT ![x] = e] /\ xmit \in [Senders -> XmitState]
  BY Constants DEF XmitQueue, LockFree, Longer, QInv, TypeOK, XIdle
<1>9. UNCHANGED <<adding, vifStop, tasklet, tbusy, rx, fw, bug>>
  BY DEF XmitQueue
<1>10. Stopped(t) <=> Stopped(old)
  BY <1>5 DEF Stopped
<1> HIDE DEF old, t, new, e
<1>11. txq'[q] = new /\ \A r \in Txqs \ {q} : txq'[r] = txq[r]
  BY <1>1, <1>6
<1>12. /\ \A u \in Stas : sta'[u].ps = sta[u].ps /\ sta'[u].phase = sta[u].phase
       /\ \A u \in Stas \ {s} : sta'[u] = sta[u]
       /\ ~sta[s].ps => sta'[s] = sta[s]
       /\ sta[s].ps => /\ sta'[s].ready[p] = (sta[s].ready[p] + 1) % CountMod
                       /\ \A r \in PsIds \ {p} : sta'[s].ready[r] = sta[s].ready[r]
  <2> DEFINE c == CountReady(sta[s], p, sta[s].ready[p])
  <2>1. /\ c.ps = sta[s].ps /\ c.phase = sta[s].phase
        /\ c.ready = [sta[s].ready EXCEPT ![p] = (sta[s].ready[p] + 1) % CountMod]
    BY <1>3 DEF CountReady, Station
  <2>2. sta[s].ready \in [PsIds -> Count]
    BY <1>3 DEF Station
  <2>3. sta \in [Stas -> Station]
    BY DEF QInv, TypeOK
  <2> HIDE DEF c, s, p, q
  <2>4. CASE sta[s].ps
    <3>1. sta' = [sta EXCEPT ![s] = c]
      BY <1>7, <2>4 DEF c
    <3>2. sta'[s] = c /\ \A u \in Stas \ {s} : sta'[u] = sta[u]
      BY <1>2, <2>3, <3>1
    <3> QED BY <1>2, <2>1, <2>2, <2>4, <3>2
  <2>5. CASE ~sta[s].ps
    BY <1>7, <2>5
  <2> QED BY <2>4, <2>5
<1>13. Steady'
  BY <1>9, <1>12, Threads DEF QInv, Steady
<1>14. LockHeld'
  <2>1. \A y \in Senders : xmit[y].pc # "queued"
    BY <1>8 DEF QInv, LockHeld
  <2>2. xmit'[x] = e /\ \A y \in Senders \ {x} : xmit'[y] = xmit[y]
    BY <1>8
  <2>3. SUFFICES ASSUME NEW y \in Senders PROVE xmit'[y].pc = "queued" <=> lock' = y
    BY DEF LockHeld
  <2>4. CASE y = x
    BY <1>8, <2>2, <2>4
  <2>5. CASE y # x
    BY <1>8, <2>1, <2>2, <2>5
  <2> QED BY <2>4, <2>5
<1>15. GoodQueues'
  <2>1. ASSUME NEW r \in Txqs PROVE Good(r, txq'[r], sta'[StaOf[r]].ps, vifStop', tbusy')
    <3>1. StaOf[r] \in Stas
      BY Constants
    <3>2. sta'[StaOf[r]].ps = sta[StaOf[r]].ps
      BY <1>12, <3>1
    <3>3. CASE r = q
      BY <1>5, <1>9, <1>11, <3>2, <3>3
    <3>4. CASE r # q
      BY <1>9, <1>11, <3>2, <3>4 DEF QInv, GoodQueues
    <3> QED BY <3>3, <3>4
  <2> QED BY <2>1 DEF GoodQueues
<1>16. /\ \A r \in Txqs : Lens[r] \in Nat
       /\ \A r \in Txqs : Lens'[r] = IF r = q THEN Lens[r] + 1 ELSE Lens[r]
  <2>1. \A r \in Txqs : Lens[r] \in Nat
    BY LensNat DEF QInv
  <2>2. Len(new.sk_list) = Len(old.sk_list) + 1
    <3>1. \A seq \in Seq(Frames) : Len(Append(seq, xmit[x].frame)) = Len(seq) + 1
      BY <1>1
    <3> QED BY <1>3, <1>5, <3>1, QueueFields
  <2>3. Lens'[q] = Lens[q] + 1
    BY <1>1, <1>11, <2>2 DEF Lens, old
  <2>4. \A r \in Txqs : r # q => Lens'[r] = Lens[r]
    BY <1>11 DEF Lens
  <2> QED BY <2>1, <2>3, <2>4
<1>17. Room'
  <2>1. SUFFICES ASSUME NEW r \in Txqs PROVE Lens'[r] + OnWay(xmit', r) <= MaxLen
    BY OnTheWayIs DEF Room, Lens
  <2>2. Lens[r] + OnWay(xmit, r) <= MaxLen /\ OnWay(xmit, r) \in Nat /\ MaxLen \in Nat
    BY OnTheWayIs, OnTheWayNat, TxQueueAssumption DEF QInv, Room, Lens
  <2>3. /\ xmit[x].pc = "checked" /\ xmit'[x].pc # "checked"
        /\ \A y \in Senders \ {x} : xmit'[y] = xmit[y]
    BY <1>8
  <2>4. CASE r = q
    <3>1. OnWay(xmit', q) = OnWay(xmit, q) - 1
      <4>1. xmit[x].q = q
        OBVIOUS
      <4> HIDE DEF q
      <4> QED BY <2>3, <4>1, OnTheWayLess
    <3> QED BY <1>16, <2>2, <2>4, <3>1
  <2>5. CASE r # q
    <3>1. /\ ~(xmit[x].pc = "checked" /\ xmit[x].q = r)
          /\ ~(xmit'[x].pc = "checked" /\ xmit'[x].q = r)
      BY <2>3, <2>5
    <3>2. OnWay(xmit', r) = OnWay(xmit, r)
      BY <2>3, <3>1, OnTheWaySame
    <3> QED BY <1>16, <2>2, <2>5, <3>2
  <2> QED BY <2>4, <2>5
<1>20. \A r \in Txqs : OnWay(xmit', r) \in Nat
  <2>1. ASSUME NEW r \in Txqs
        PROVE  IsFiniteSet({y \in Senders : xmit'[y].pc = "checked" /\ xmit'[y].q = r})
    BY TxQueueAssumption, FS_Subset
  <2> QED BY <2>1, FS_CardinalityType DEF OnWay
<1>18. ReadyCount'
  <2>1. SUFFICES ASSUME NEW u \in Stas, NEW k \in PsIds, sta'[u].ps
                 PROVE  sta'[u].ready[k] = PerPs(u, Lens')[k]
    BY DEF ReadyCount, Lens
  <2>2. sta[u].ready[k] = PerPs(u, Lens)[k]
    BY <1>12, <2>1, AllLinked DEF QInv, ReadyCount, Lens
  <2>3. PerPs(u, Lens')[k] = IF u = s /\ k = p THEN PerPs(u, Lens)[k] + 1
                             ELSE PerPs(u, Lens)[k]
    <3>1. \A r \in Txqs : Lens[r] \in Int /\ Lens'[r] = IF r = q THEN Lens[r] + 1 ELSE Lens[r]
      BY <1>16
    <3> HIDE DEF q
    <3> QED BY <1>1, <3>1, PerPsOneMore DEF q
  <2>4. CASE u = s /\ k = p
    <3>1. PerPs(u, Lens')[k] \in Nat /\ PerPs(u, Lens')[k] < CountMod
      <4>1. \A r \in Txqs : Lens'[r] \in Nat /\ Lens'[r] <= MaxLen
        <5>1. ASSUME NEW r \in Txqs PROVE Lens'[r] + OnWay(xmit', r) <= MaxLen
          BY <1>17, OnTheWayIs DEF Room, Lens
        <5>2. \A r \in Txqs : OnWay(xmit', r) \in Nat
          BY <1>20
        <5>3. \A r \in Txqs : Lens'[r] \in Nat
          BY <1>16
        <5> QED BY <5>1, <5>2, <5>3, TxQueueAssumption
      <4> QED BY <4>1, HeldSmall
    <3>2. sta'[u].ready[k] = PerPs(u, Lens')[k] % CountMod
      <4>1. u \in Stas /\ k \in PsIds /\ sta'[u].ps
        BY <2>1
      <4>2. sta'[u].ready[k] = (sta[u].ready[k] + 1) % CountMod
        BY <1>12, <2>4, <4>1
      <4> QED BY <2>2, <2>3, <2>4, <4>2
    <3> QED BY <3>1, <3>2, NoWrap
  <2>5. CASE ~(u = s /\ k = p)
    <3>1. sta'[u].ready[k] = sta[u].ready[k]
      BY <1>12, <2>1, <2>5
    <3> QED BY <2>2, <2>3, <2>5, <3>1
  <2> QED BY <2>4, <2>5
<1>19. q \in Txqs /\ \A r \in Txqs \ {q} : txq'[r] = txq[r]
  BY <1>1, <1>11
<1> QED BY <1>13, <1>14, <1>15, <1>17, <1>18, <1>19, <1>5, <1>6, <1>8, <1>10, <1>11 DEF old

\* What rwnx_hwq_process leaves of the queues and stations: no BUG_ON, and of
\* every linked queue the frames it took are gone.
LEMMA QuietProcess ==
    ASSUME QInv, NEW H, Process(H), UNCHANGED <<vifStop, tbusy>>
    PROVE  /\ bug' = bug
           /\ \A s \in Stas : sta'[s].ps = sta[s].ps /\ sta'[s].phase = sta[s].phase
           /\ GoodQueues' /\ ReadyCount'
           /\ \A q \in Work(H) :
                /\ q \in Txqs /\ txq[q].listed /\ HwqOf[q] \in H
                /\ txq'[q] = Pass(q, txq[q])
                /\ Pushed(H)[q] = Taken(txq[q])
                /\ Taken(txq[q]) \in Nat /\ Taken(txq[q]) <= Lens[q]
                /\ txq[q].push_limit > 0 => Taken(txq[q]) = txq[q].push_limit
                /\ txq'[q].push_limit = 0 /\ txq'[q].stop = txq[q].stop
                /\ txq'[q].links <= txq[q].links
                /\ Lens[q] <= CREDITS \/ txq[q].push_limit > 0 => ~txq'[q].listed
                /\ Lens[q] <= CREDITS /\ txq[q].push_limit = 0 => txq'[q].sk_list = <<>>
           /\ \A q \in Txqs : q \notin Work(H) => txq'[q] = txq[q] /\ Pushed(H)[q] = 0
           /\ \A q \in Txqs : /\ Lens[q] \in Nat /\ Lens'[q] \in Nat
                              /\ Pushed(H)[q] \in Nat /\ Dropped(H)[q] = 0
                              /\ Lens[q] = Lens'[q] + Pushed(H)[q]
           /\ \A q \in Txqs : HwqOf[q] \in H /\ txq[q].listed => q \in Work(H)
           /\ need' = [h \in Hwqs |-> need[h] /\ h \notin H]
           /\ sta' = [s \in Stas |->
                        CountDown(s, PerPs(s, Pushed(H)), PerPs(s, Dropped(H)))]
<1>0. \A q \in Txqs : txq[q] \in Queue /\ tbusy \in BOOLEAN
  BY DEF QInv, TypeOK
<1>1. \A q \in Txqs : Good(q, txq[q], sta[StaOf[q]].ps, vifStop, tbusy)
  BY DEF QInv, GoodQueues
<1>2. \A q \in Txqs : txq[q].links > 0 <=> txq[q].listed
  BY <1>1 DEF Good
<1>3. \A q \in Work(H) : /\ q \in Txqs /\ txq[q].listed /\ HwqOf[q] \in H
                         /\ txq[q].active /\ txq[q].credits > 0 /\ txq[q].sk_list # <<>>
  BY <1>1, <1>2, Constants DEF Work, Good
<1>4. ~ \E q \in Work(H) : Broken(txq[q])
  <2>1. ASSUME NEW q \in Work(H) PROVE ~Broken(txq[q])
    <3>1. txq[q].credits \in Int
      BY <1>0, <1>3, QueueFields
    <3> QED BY <1>3, <3>1 DEF Broken
  <2> QED BY <2>1
<1>5. /\ txq' = [q \in Txqs |-> IF q \in Work(H) THEN Pass(q, txq[q]) ELSE txq[q]]
      /\ need' = [h \in Hwqs |-> need[h] /\ h \notin H]
      /\ sta' = [s \in Stas |->
                   CountDown(s, PerPs(s, Pushed(H)), PerPs(s, Dropped(H)))]
      /\ bug' = bug
  BY <1>4 DEF Process
<1>6. ASSUME NEW q \in Work(H)
      PROVE  /\ Good(q, Pass(q, txq[q]), sta[StaOf[q]].ps, vifStop, tbusy)
             /\ Taken(txq[q]) \in Nat /\ Taken(txq[q]) <= Len(txq[q].sk_list)
             /\ txq[q].push_limit > 0 => Taken(txq[q]) = txq[q].push_limit
             /\ LimitLeft(txq[q]) = 0
             /\ Len(Pass(q, txq[q]).sk_list) = Len(txq[q].sk_list) - Taken(txq[q])
             /\ Pass(q, txq[q]).push_limit = 0
             /\ Pass(q, txq[q]).stop = txq[q].stop
             /\ Pass(q, txq[q]).links <= txq[q].links
             /\ Len(txq[q].sk_list) <= CREDITS \/ txq[q].push_limit > 0
                  => ~Pass(q, txq[q]).listed
             /\ Len(txq[q].sk_list) <= CREDITS /\ txq[q].push_limit = 0
                  => Pass(q, txq[q]).sk_list = <<>>
  <2>1. q \in Txqs /\ txq[q] \in Queue /\ txq[q].listed /\ tbusy \in BOOLEAN
    BY <1>0, <1>3
  <2>2. Good(q, txq[q], sta[StaOf[q]].ps, vifStop, tbusy)
    BY <1>1, <2>1
  <2> DEFINE t == txq[q]  ps == sta[StaOf[q]].ps
  <2>3. t \in Queue /\ t.listed /\ Good(q, t, ps, vifStop, tbusy)
    BY <2>1, <2>2
  <2> HIDE DEF t, ps
  <2>4. /\ Good(q, Pass(q, t), ps, vifStop, tbusy)
        /\ Taken(t) \in Nat /\ Taken(t) <= Len(t.sk_list)
        /\ t.push_limit > 0 => Taken(t) = t.push_limit
        /\ LimitLeft(t) = 0
        /\ Len(Pass(q, t).sk_list) = Len(t.sk_list) - Taken(t)
        /\ Pass(q, t).push_limit = 0
        /\ Pass(q, t).stop = t.stop
        /\ Pass(q, t).links <= t.links
        /\ Len(t.sk_list) <= CREDITS \/ t.push_limit > 0 => ~Pass(q, t).listed
        /\ Len(t.sk_list) <= CREDITS /\ t.push_limit = 0 => Pass(q, t).sk_list = <<>>
    BY <2>1, <2>3, PassGood
  <2> QED BY <2>4 DEF t, ps
<1>7. \A q \in Work(H) : txq'[q] = Pass(q, txq[q]) /\ Pushed(H)[q] = Taken(txq[q])
  BY <1>3, <1>5 DEF Pushed
<1>8. \A q \in Txqs : q \notin Work(H) => txq'[q] = txq[q] /\ Pushed(H)[q] = 0
  BY <1>5 DEF Pushed
<1>9. \A q \in Txqs : /\ Lens[q] \in Nat /\ Pushed(H)[q] \in Nat /\ Dropped(H)[q] = 0
                      /\ Lens[q] = Lens'[q] + Pushed(H)[q] /\ Lens'[q] \in Nat
  <2>1. ASSUME NEW q \in Txqs
        PROVE  /\ Lens[q] \in Nat /\ Pushed(H)[q] \in Nat
               /\ Lens[q] = Lens'[q] + Pushed(H)[q] /\ Lens'[q] \in Nat
    <3>1. Lens[q] = Len(txq[q].sk_list) /\ Lens'[q] = Len(txq'[q].sk_list) /\ Lens[q] \in Nat
      BY LensNat DEF Lens, QInv
    <3>2. CASE q \in Work(H)
      BY <1>6, <1>7, <3>1, <3>2
    <3>3. CASE q \notin Work(H)
      BY <1>8, <3>1, <3>3
    <3> QED BY <3>2, <3>3
  <2>2. \A q \in Txqs : Dropped(H)[q] = 0
    BY <1>6 DEF Dropped
  <2> QED BY <2>1, <2>2
<1>10. \A s \in Stas : sta'[s].ps = sta[s].ps /\ sta'[s].phase = sta[s].phase
  <2>1. ASSUME NEW s \in Stas, NEW out, NEW lost
        PROVE  /\ CountDown(s, out, lost).ps = sta[s].ps
               /\ CountDown(s, out, lost).phase = sta[s].phase
    <3>1. sta[s] \in Station
      BY DEF QInv, TypeOK
    <3> QED BY <3>1 DEF CountDown, Station
  <2> QED BY <1>5, <2>1
<1>11. GoodQueues'
  <2>1. SUFFICES ASSUME NEW q \in Txqs
                 PROVE  Good(q, txq'[q], sta'[StaOf[q]].ps, vifStop', tbusy')
    BY DEF GoodQueues
  <2>2. sta'[StaOf[q]].ps = sta[StaOf[q]].ps
    BY <1>10, Constants
  <2>3. CASE q \in Work(H)
    BY <1>6, <1>7, <2>2, <2>3
  <2>4. CASE q \notin Work(H)
    BY <1>1, <1>8, <2>2, <2>4
  <2> QED BY <2>3, <2>4
<1>12. ReadyCount'
  <2>1. SUFFICES ASSUME NEW s \in Stas, NEW p \in PsIds, sta'[s].ps
                 PROVE  sta'[s].ready[p] = PerPs(s, Lens')[p]
    BY DEF ReadyCount, Lens
  <2>2. sta[s].ps /\ Valid(s)
    BY <1>10, <2>1, AllLinked DEF QInv
  <2>3. sta[s].ready[p] = PerPs(s, Lens)[p]
    BY <2>2 DEF QInv, ReadyCount, Lens
  <2>4. sta'[s].ready[p] = (sta[s].ready[p] - PerPs(s, Pushed(H))[p]) % CountMod
    <3>1. sta[s] \in Station
      BY DEF QInv, TypeOK
    <3>2. ASSUME NEW out, NEW lost
          PROVE  CountDown(s, out, lost).ready[p] = (sta[s].ready[p] - out[p]) % CountMod
      BY <2>2, <3>1 DEF CountDown, Station
    <3> QED BY <1>5, <3>2
  <2>5. PerPs(s, Lens)[p] = PerPs(s, Lens')[p] + PerPs(s, Pushed(H))[p]
    <3>1. \A q \in TxqsOfPs(s, p) : /\ Lens'[q] \in Int /\ Pushed(H)[q] \in Int
                                      /\ Lens[q] = Lens'[q] + Pushed(H)[q]
      BY <1>9, PsQueues
    <3> QED BY <3>1, PerPsPlus
  <2>6. PerPs(s, Lens')[p] \in Nat /\ PerPs(s, Lens')[p] < CountMod
    <3>1. \A q \in Txqs : Lens[q] \in Nat /\ Lens[q] <= MaxLen
      BY LensSmall DEF QInv
    <3>2. \A q \in Txqs : Lens'[q] \in Nat /\ Lens'[q] <= MaxLen
      BY <1>9, <3>1, TxQueueAssumption
    <3> QED BY <3>2, HeldSmall
  <2>7. PerPs(s, Pushed(H))[p] \in Nat
    BY <1>9, PerPsNat
  <2> QED BY <2>3, <2>4, <2>5, <2>6, <2>7, NoWrap
<1>13. \A q \in Txqs : HwqOf[q] \in H /\ txq[q].listed => q \in Work(H)
  BY <1>2 DEF Work
<1>14. \A q \in Work(H) :
         /\ q \in Txqs /\ txq[q].listed /\ HwqOf[q] \in H
         /\ txq'[q] = Pass(q, txq[q])
         /\ Pushed(H)[q] = Taken(txq[q])
         /\ Taken(txq[q]) \in Nat /\ Taken(txq[q]) <= Lens[q]
         /\ txq[q].push_limit > 0 => Taken(txq[q]) = txq[q].push_limit
         /\ txq'[q].push_limit = 0 /\ txq'[q].stop = txq[q].stop
         /\ txq'[q].links <= txq[q].links
         /\ Lens[q] <= CREDITS \/ txq[q].push_limit > 0 => ~txq'[q].listed
         /\ Lens[q] <= CREDITS /\ txq[q].push_limit = 0 => txq'[q].sk_list = <<>>
  BY <1>3, <1>6, <1>7 DEF Lens
<1> QED BY <1>5, <1>8, <1>9, <1>10, <1>11, <1>12, <1>13, <1>14

LEMMA ShrinkRoom ==
    ASSUME Room, \A x \in Senders : xmit[x].pc = "checked" \/ xmit'[x].pc = "checked"
                                      => xmit'[x] = xmit[x],
           \A q \in Txqs : Lens[q] \in Nat /\ Lens'[q] \in Nat /\ Lens'[q] <= Lens[q]
    PROVE  Room'
<1>1. \A q \in Txqs : OnWay(xmit', q) = OnWay(xmit, q)
  BY DEF OnWay
<1>2. ASSUME NEW q \in Txqs PROVE Lens'[q] + OnWay(xmit', q) <= MaxLen
  <2>1. Lens[q] + OnWay(xmit, q) <= MaxLen /\ OnWay(xmit, q) \in Nat /\ MaxLen \in Nat
    BY OnTheWayIs, OnTheWayNat, TxQueueAssumption DEF Room, Lens
  <2> QED BY <1>1, <2>1
<1> QED BY <1>2, OnTheWayIs DEF Room, Lens

LEMMA QuietProcessing ==
    ASSUME QInv, (\E x \in Senders : XmitProcess(x)) \/ Task
    PROVE  Steady' /\ LockHeld' /\ Room' /\ ReadyCount' /\ GoodQueues'
<1>1. PICK H : Process(H) /\ UNCHANGED <<vifStop, tbusy, rx>>
  BY DEF XmitProcess, Task
<1>2. /\ bug' = bug
      /\ \A s \in Stas : sta'[s].ps = sta[s].ps /\ sta'[s].phase = sta[s].phase
      /\ GoodQueues' /\ ReadyCount'
      /\ \A q \in Txqs : /\ Lens[q] \in Nat /\ Lens'[q] \in Nat
                         /\ Pushed(H)[q] \in Nat /\ Lens[q] = Lens'[q] + Pushed(H)[q]
  BY <1>1, QuietProcess
<1>3. Steady'
  BY <1>1, <1>2, Threads DEF QInv, Steady
<1>4. LockHeld' /\ \A x \in Senders : xmit[x].pc = "checked" \/ xmit'[x].pc = "checked"
                                        => xmit'[x] = xmit[x]
  <2>1. ASSUME NEW x \in Senders, XmitProcess(x) PROVE
         LockHeld' /\ \A y \in Senders :
           xmit[y].pc = "checked" \/ xmit'[y].pc = "checked" => xmit'[y] = xmit[y]
    BY <2>1, Constants DEF XmitProcess, QInv, LockHeld, TypeOK, XIdle
  <2>2. CASE Task
    BY <2>2 DEF Task, QInv, LockHeld
  <2> QED BY <2>1, <2>2
<1>5. Room'
  <2>1. \A q \in Txqs : Lens'[q] <= Lens[q]
    BY <1>2
  <2> QED BY <1>2, <1>4, <2>1, ShrinkRoom DEF QInv
<1> QED BY <1>2, <1>3, <1>4, <1>5

LEMMA QuietPsInd ==
    ASSUME QInv, NEW s \in Stas, NEW on \in BOOLEAN, PsChangeInd(s, on)
    PROVE  Steady' /\ LockHeld' /\ Room' /\ ReadyCount' /\ GoodQueues'
<1>1. UNCHANGED <<adding, txq, sta, vifStop, need, tasklet, tbusy, lock, xmit, fw, bug>>
  BY DEF PsChangeInd
<1>2. LockHeld' /\ Room' /\ ReadyCount' /\ GoodQueues'
  BY <1>1 DEF QInv, LockHeld, Room, OnTheWay, ReadyCount, Valid, GoodQueues
<1>3. Valid(s)
  BY AllLinked DEF QInv
<1>4. rx' = [pc |-> "ps", s |-> s, on |-> on, valid |-> Valid(s)] /\ sta[s].ps # on
  BY DEF PsChangeInd
<1>5. Steady'
  BY <1>1, <1>3, <1>4 DEF QInv, Steady
<1> QED BY <1>2, <1>5

\* A station falls asleep or wakes up.
LEMMA QuietPs ==
    ASSUME QInv, PsChange
    PROVE  /\ Steady' /\ LockHeld' /\ Room' /\ ReadyCount' /\ GoodQueues'
           /\ rx.s \in Stas /\ rx.on \in BOOLEAN
           /\ sta[rx.s].ps = ~rx.on /\ sta'[rx.s].ps = rx.on
           /\ rx.on => sta'[rx.s].sp = Zero
           /\ \A s \in Stas : sta'[s].tim = sta[s].tim
           /\ \A s \in Stas \ {rx.s} : sta'[s] = sta[s]
           /\ \A q \in Txqs : txq'[q].sk_list = txq[q].sk_list
           /\ Lens' = Lens
           /\ \A q \in Txqs : StaOf[q] # rx.s => txq'[q] = txq[q]
           /\ \A q \in Txqs : StaOf[q] = rx.s /\ rx.on =>
                 /\ ~txq'[q].listed /\ txq'[q].push_limit = txq[q].push_limit
                 /\ txq'[q].stop = txq[q].stop \cup {"STA_PS"}
           /\ \A q \in Txqs : StaOf[q] = rx.s /\ ~rx.on =>
                 /\ txq'[q].push_limit = 0
                 /\ txq'[q].stop = txq[q].stop \ {"STA_PS"}
                 /\ ~txq[q].listed /\ txq'[q].listed => txq'[q].links > txq[q].links
           /\ need' = NeedAfter(txq') /\ (tasklet' <=> tasklet \/ ~rx.on)
<1> DEFINE s == rx.s  on == rx.on
           Op(t) == IF on THEN Stop(t, "STA_PS")
                    ELSE Start([t EXCEPT !.push_limit = 0], "STA_PS")
<1>1. s \in Stas /\ on \in BOOLEAN /\ sta[s].ps # on
  BY Threads DEF PsChange, QInv, Steady
<1>2. /\ \A q \in Txqs : txq[q] \in Queue
      /\ \A r \in Stas : sta[r] \in Station /\ sta[r].ps \in BOOLEAN
      /\ tbusy \in BOOLEAN
  BY DEF QInv, TypeOK, Station
<1>3. sta[s].ps = ~on
  BY <1>1, <1>2
<1>4. /\ txq' = [q \in Txqs |-> IF q \in TxqsOf(s) THEN Op(txq[q]) ELSE txq[q]]
      /\ need' = NeedAfter(txq')
      /\ (tasklet' <=> tasklet \/ ~on) /\ rx' = RxIdle
      /\ UNCHANGED <<adding, vifStop, tbusy, lock, xmit, fw, bug>>
  BY DEF PsChange, PsEnable, Update
<1>5. sta' = [sta EXCEPT ![s] =
             IF on THEN [sta[s] EXCEPT !.phase = sta[s].phase, !.ps = TRUE, !.sp = Zero,
                            !.ready = [p \in PsIds |-> PerPs(s, Lens)[p] % CountMod]]
                   ELSE [sta[s] EXCEPT !.phase = sta[s].phase, !.ps = FALSE]]
  BY DEF PsChange, PsEnable, Lens
<1>6. /\ sta'[s].phase = sta[s].phase /\ (sta'[s].ps <=> on) /\ sta'[s].ps = on
      /\ on => sta'[s].sp = Zero
               /\ sta'[s].ready = [p \in PsIds |-> PerPs(s, Lens)[p] % CountMod]
      /\ sta'[s].tim = sta[s].tim
      /\ \A r \in Stas \ {s} : sta'[r] = sta[r]
  <2> DEFINE ready == [p \in PsIds |-> PerPs(s, Lens)[p] % CountMod]
             c == IF on THEN [sta[s] EXCEPT !.phase = sta[s].phase, !.ps = TRUE,
                                            !.sp = Zero, !.ready = ready]
                  ELSE [sta[s] EXCEPT !.phase = sta[s].phase, !.ps = FALSE]
  <2> HIDE DEF ready
  <2>1. /\ c.phase = sta[s].phase /\ (c.ps <=> on) /\ c.ps = on /\ c.tim = sta[s].tim
        /\ on => c.sp = Zero /\ c.ready = ready
    <3> DEFINE r == sta[s]
    <3>1. r \in Station /\ on \in BOOLEAN
      BY <1>1, <1>2
    <3> HIDE DEF r
    <3>2. CASE on
      <4>1. c = [r EXCEPT !.phase = r.phase, !.ps = TRUE, !.sp = Zero, !.ready = ready]
        BY <3>2 DEF r
      <4> HIDE DEF c, on
      <4>2. /\ c.phase = r.phase /\ c.ps = TRUE /\ c.tim = r.tim
            /\ c.sp = Zero /\ c.ready = ready
        BY <3>1, <4>1 DEF Station
      <4> QED BY <3>1, <3>2, <4>2 DEF r
    <3>3. CASE ~on
      <4>1. c = [r EXCEPT !.phase = r.phase, !.ps = FALSE]
        BY <3>3 DEF r
      <4> HIDE DEF c, on
      <4>2. c.phase = r.phase /\ c.ps = FALSE /\ c.tim = r.tim
        BY <3>1, <4>1 DEF Station
      <4> QED BY <3>1, <3>3, <4>2 DEF r
    <3> QED BY <3>1, <3>2, <3>3
  <2>2. sta' = [sta EXCEPT ![s] = c] /\ sta \in [Stas -> Station]
    BY <1>5 DEF ready, QInv, TypeOK
  <2> HIDE DEF c, s, on
  <2>3. sta'[s] = c /\ \A r \in Stas \ {s} : sta'[r] = sta[r]
    BY <1>1, <2>2
  <2> QED BY <2>1, <2>3 DEF ready
<1>7. ASSUME NEW q \in Txqs, StaOf[q] = s
      PROVE  /\ Good(q, txq'[q], on, vifStop, tbusy)
             /\ txq'[q].sk_list = txq[q].sk_list
             /\ on => /\ ~txq'[q].listed /\ txq'[q].push_limit = txq[q].push_limit
                      /\ txq'[q].stop = txq[q].stop \cup {"STA_PS"}
             /\ ~on => /\ txq'[q].push_limit = 0
                       /\ txq'[q].stop = txq[q].stop \ {"STA_PS"}
                       /\ ~txq[q].listed /\ txq'[q].listed => txq'[q].links > txq[q].links
  <2> DEFINE t == txq[q]  ps == sta[s].ps
  <2>1. txq'[q] = Op(t)
    BY <1>4, <1>7 DEF TxqsOf
  <2>2. t \in Queue /\ Good(q, t, ps, vifStop, tbusy)
    BY <1>2, <1>7 DEF QInv, GoodQueues
  <2> HIDE DEF t, ps, s
  <2>3. CASE on
    <3>1. txq'[q] = Stop(t, "STA_PS")
      BY <2>1, <2>3
    <3>2. /\ Good(q, Stop(t, "STA_PS"), TRUE, vifStop, tbusy)
          /\ Stop(t, "STA_PS").sk_list = t.sk_list
          /\ ~Stop(t, "STA_PS").listed /\ Stop(t, "STA_PS").push_limit = t.push_limit
      BY <2>2, StaStopGood
    <3>4. Stop(t, "STA_PS").stop = t.stop \cup {"STA_PS"}
      BY <2>2, StopBits DEF Good
    <3>3. on = TRUE
      BY <1>1, <2>3
    <3> QED BY <2>3, <3>1, <3>2, <3>3, <3>4 DEF t
  <2>4. CASE ~on
    <3> DEFINE u == [t EXCEPT !.push_limit = 0]
    <3>1. txq'[q] = Start(u, "STA_PS")
      BY <2>1, <2>4
    <3>2. u \in Queue /\ Good(q, u, ps, vifStop, tbusy)
      BY <2>2, FieldGood
    <3>3. /\ u.push_limit = 0 /\ u.sk_list = t.sk_list /\ u.stop = t.stop
          /\ u.listed = t.listed /\ u.links = t.links
      BY <2>2, QueueFields
    <3> HIDE DEF u
    <3>4. /\ Good(q, Start(u, "STA_PS"), FALSE, vifStop, tbusy)
          /\ Start(u, "STA_PS").sk_list = u.sk_list
          /\ Start(u, "STA_PS").push_limit = u.push_limit
          /\ ~u.listed /\ Start(u, "STA_PS").listed => Start(u, "STA_PS").links > u.links
      BY <3>2, <3>3, StaStartGood
    <3>6. Start(u, "STA_PS").stop = u.stop \ {"STA_PS"}
      BY <3>2, StopBits DEF Good
    <3>5. on = FALSE
      BY <1>1, <2>4
    <3> QED BY <2>4, <3>1, <3>3, <3>4, <3>5, <3>6 DEF t
  <2> QED BY <2>3, <2>4
<1>8. \A q \in Txqs : StaOf[q] # s => txq'[q] = txq[q]
  BY <1>4 DEF TxqsOf
<1> HIDE DEF s, on, Op
<1>9. GoodQueues'
  <2>1. SUFFICES ASSUME NEW q \in Txqs
                 PROVE  Good(q, txq'[q], sta'[StaOf[q]].ps, vifStop', tbusy')
    BY DEF GoodQueues
  <2>2. CASE StaOf[q] = s
    BY <1>4, <1>6, <1>7, <2>2
  <2>3. CASE StaOf[q] # s
    BY <1>4, <1>6, <1>8, <2>3, Constants DEF QInv, GoodQueues
  <2> QED BY <2>2, <2>3
<1>10. \A q \in Txqs : txq'[q].sk_list = txq[q].sk_list
  BY <1>7, <1>8
<1>11. Room' /\ Lens' = Lens
  BY <1>4, <1>10, SameRoom DEF QInv
<1>12. LockHeld'
  BY <1>4 DEF QInv, LockHeld
<1>13. Steady'
  BY <1>4, <1>6 DEF QInv, Steady, RxIdle
<1>14. ReadyCount'
  <2>1. SUFFICES ASSUME NEW r \in Stas, NEW p \in PsIds, sta'[r].ps
                 PROVE  sta'[r].ready[p] = PerPs(r, Lens)[p]
    BY <1>11 DEF ReadyCount, Lens
  <2>2. CASE r = s
    <3>1. sta'[s].ready[p] = PerPs(s, Lens)[p] % CountMod
      BY <1>6, <2>1, <2>2
    <3>2. \A q \in Txqs : Lens[q] \in Nat /\ Lens[q] <= MaxLen
      BY LensSmall DEF QInv
    <3>3. PerPs(s, Lens)[p] \in Nat /\ PerPs(s, Lens)[p] < CountMod
      BY <3>2, HeldSmall
    <3> QED BY <2>2, <3>1, <3>3, NoWrap
  <2>3. CASE r # s
    BY <1>6, <2>1, <2>3, AllLinked DEF QInv, ReadyCount, Lens
  <2> QED BY <2>2, <2>3
<1>15. \A r \in Stas : sta'[r].tim = sta[r].tim
  BY <1>6
<1>16. /\ \A q \in Txqs : StaOf[q] = s /\ on =>
                 /\ ~txq'[q].listed /\ txq'[q].push_limit = txq[q].push_limit
                 /\ txq'[q].stop = txq[q].stop \cup {"STA_PS"}
       /\ \A q \in Txqs : StaOf[q] = s /\ ~on =>
                 /\ txq'[q].push_limit = 0
                 /\ txq'[q].stop = txq[q].stop \ {"STA_PS"}
                 /\ ~txq[q].listed /\ txq'[q].listed => txq'[q].links > txq[q].links
  BY <1>7
<1> QED BY <1>1, <1>3, <1>4, <1>6, <1>8, <1>9, <1>10, <1>11, <1>12, <1>13, <1>14, <1>15, <1>16
        DEF s, on

\* What a request of the station takes from each queue.
Asked(s, n, p) == LET all == sta[s].ready[p] - sta[s].sp[p]
                  IN  Share(s, p, IF n = 0 \/ n > all THEN all ELSE n)

LEMMA AskedType ==
    ASSUME TypeOK, NEW s \in Stas, NEW n \in 0..MaxReq, NEW p \in PsIds, NEW q \in Txqs
    PROVE  /\ Asked(s, n, p)[q] \in Nat /\ Asked(s, n, p)[q] <= Offer(q)
           /\ q \notin DataTxqsOf(s, p) => Asked(s, n, p)[q] = 0
<1> DEFINE all == sta[s].ready[p] - sta[s].sp[p]
           req == IF n = 0 \/ n > all THEN all ELSE n
<1>1. req \in Int
  <2>1. Count \subseteq Int
    BY Constants DEF Count
  <2>2. sta[s].ready[p] \in Count /\ sta[s].sp[p] \in Count
    BY DEF TypeOK, Station
  <2>3. sta[s].ready[p] \in Int /\ sta[s].sp[p] \in Int
    BY <2>1, <2>2, Zenon
  <2>4. n \in Int
    BY TxQueueAssumption
  <2>5. \A a, b \in Int : a - b \in Int
    OBVIOUS
  <2>6. all \in Int
    BY <2>3, <2>5
  <2> HIDE DEF all
  <2> QED BY <2>4, <2>6
<1>2. Asked(s, n, p) = Share(s, p, req)
  BY DEF Asked
<1> HIDE DEF req
<1> QED BY <1>1, <1>2, ShareType

LEMMA QuietTraffic ==
    ASSUME QInv, NEW s \in Stas, NEW n \in 0..MaxReq, NEW p \in PsIds,
           TrafficReq(s, n, p)
    PROVE  /\ Steady' /\ LockHeld' /\ Room' /\ ReadyCount' /\ GoodQueues'
           /\ need' = NeedAfter(txq') /\ tasklet' = TRUE
           /\ Lens' = Lens
           /\ \A r \in Stas : /\ sta'[r].ps = sta[r].ps /\ sta'[r].tim = sta[r].tim
                              /\ sta'[r].ready = sta[r].ready
           /\ sta'[s].sp[p] = PerPs(s, Asked(s, n, p))[p]
           /\ \A o \in PsIds \ {p} : sta'[s].sp[o] = sta[s].sp[o]
           /\ \A r \in Stas \ {s} : sta'[r] = sta[r]
           /\ \A q \in Txqs :
                /\ txq'[q].sk_list = txq[q].sk_list /\ txq'[q].stop = txq[q].stop
                /\ txq[q].listed => txq'[q].listed /\ txq'[q].links = txq[q].links
                /\ ~txq[q].listed /\ txq'[q].listed => txq'[q].links > txq[q].links
                /\ Asked(s, n, p)[q] = 0 => txq'[q].listed = txq[q].listed
                /\ Asked(s, n, p)[q] # 0 => txq'[q].listed
           /\ \A q \in Txqs : Asked(s, n, p)[q] \in Nat /\ Asked(s, n, p)[q] <= Lens[q]
<1> DEFINE share == Asked(s, n, p)
<1>0. TypeOK /\ \A q \in Txqs : txq[q] \in Queue
  BY DEF QInv, TypeOK
<1>1. /\ txq' = [q \in Txqs |-> IF share[q] = 0 THEN txq[q] ELSE Promise(txq[q], share[q])]
      /\ need' = NeedAfter(txq') /\ tasklet' = TRUE
      /\ sta' = [sta EXCEPT ![s] = [sta[s] EXCEPT
             !.sp = [sta[s].sp EXCEPT ![p] = PerPs(s, share)[p] % CountMod]]]
      /\ vifStop \cap {"CHAN", "VIF_PS"} = {} /\ sta[s].ps
      /\ UNCHANGED <<vifStop, tbusy, lock, xmit, rx, bug>>
  BY DEF TrafficReq, Asked, Promise
<1>2. \A q \in Txqs : Good(q, txq[q], sta[StaOf[q]].ps, vifStop, tbusy)
  BY DEF QInv, GoodQueues
<1>3. ASSUME NEW q \in Txqs
      PROVE  /\ share[q] \in Nat /\ share[q] <= Lens[q] /\ share[q] <= CREDITS
             /\ share[q] # 0 => q \in TxqsOfPs(s, p) /\ StaOf[q] = s
  <2>1. /\ share[q] \in Nat /\ share[q] <= Offer(q)
        /\ q \notin DataTxqsOf(s, p) => share[q] = 0
    BY <1>0, AskedType
  <2>2. txq[q].credits = CREDITS /\ CREDITS > 0 /\ CREDITS \in Nat
    BY <1>2, TxQueueAssumption DEF Good
  <2>3. Offer(q) \in Nat /\ Offer(q) <= Lens[q] /\ Offer(q) <= CREDITS
    BY <1>0, <2>2, OfferType DEF Lens
  <2>4. q \in DataTxqsOf(s, p) => q \in TxqsOfPs(s, p) /\ StaOf[q] = s
    BY DEF DataTxqsOf, TxqsOfPs, TxqsOf
  <2>5. Lens[q] \in Nat
    BY <1>0, LensNat
  <2> HIDE DEF share
  <2> QED BY <2>1, <2>2, <2>3, <2>4, <2>5
<1> HIDE DEF share
<1>4. ASSUME NEW q \in Txqs
      PROVE  /\ Good(q, txq'[q], sta[StaOf[q]].ps, vifStop, tbusy)
             /\ txq'[q].sk_list = txq[q].sk_list /\ txq'[q].stop = txq[q].stop
             /\ txq[q].listed => txq'[q].listed /\ txq'[q].links = txq[q].links
             /\ ~txq[q].listed /\ txq'[q].listed => txq'[q].links > txq[q].links
             /\ share[q] = 0 => txq'[q].listed = txq[q].listed
             /\ share[q] # 0 => txq'[q].listed
  <2>1. CASE share[q] = 0
    BY <1>1, <1>2, <2>1
  <2>2. CASE share[q] # 0
    <3> DEFINE t == txq[q]  k == share[q]
    <3>1. txq'[q] = Promise(t, k)
      BY <1>1, <2>2
    <3>2. sta[StaOf[q]].ps = TRUE
      BY <1>1, <1>3, <2>2 DEF QInv, TypeOK, Station
    <3>3. t \in Queue /\ Good(q, t, TRUE, vifStop, tbusy)
      BY <1>0, <1>2, <3>2
    <3>4. k \in Nat /\ 0 < k /\ k <= Len(t.sk_list) /\ k <= CREDITS
      BY <1>3, <2>2 DEF Lens
    <3> HIDE DEF t, k
    <3>5. /\ Good(q, Promise(t, k), TRUE, vifStop, tbusy)
          /\ Promise(t, k).sk_list = t.sk_list /\ Promise(t, k).push_limit = k
          /\ Promise(t, k).stop = t.stop /\ Promise(t, k).listed
          /\ t.listed => Promise(t, k).links = t.links
          /\ ~t.listed => Promise(t, k).links > t.links
      BY <1>1, <3>3, <3>4, LimitGood
    <3> QED BY <2>2, <3>1, <3>2, <3>5 DEF t, k
  <2> QED BY <2>1, <2>2
<1>5. Room' /\ Lens' = Lens
  BY <1>1, <1>4, SameRoom DEF QInv
<1>6. PerPs(s, share)[p] % CountMod = PerPs(s, share)[p]
  <2>1. \A q \in Txqs : share[q] \in Nat /\ share[q] <= MaxLen
    <3>1. \A q \in Txqs : Lens[q] \in Nat /\ Lens[q] <= MaxLen /\ MaxLen \in Nat
      BY LensSmall, TxQueueAssumption DEF QInv
    <3> QED BY <1>3, <3>1
  <2>2. PerPs(s, share)[p] \in Nat /\ PerPs(s, share)[p] < CountMod
    BY <2>1, HeldSmall
  <2> QED BY <2>2, NoWrap
<1>7. /\ \A r \in Stas \ {s} : sta'[r] = sta[r]
      /\ sta'[s] = [sta[s] EXCEPT !.sp = [sta[s].sp EXCEPT ![p] = PerPs(s, share)[p]]]
  BY <1>1, <1>6 DEF QInv, TypeOK
<1>8. /\ sta'[s].ps = sta[s].ps /\ sta'[s].tim = sta[s].tim
      /\ sta'[s].ready = sta[s].ready /\ sta'[s].phase = sta[s].phase
      /\ sta'[s].sp[p] = PerPs(s, share)[p]
      /\ \A o \in PsIds \ {p} : sta'[s].sp[o] = sta[s].sp[o]
  <2> DEFINE r == sta[s]  c == [r.sp EXCEPT ![p] = PerPs(s, share)[p]]
  <2>1. r \in Station /\ sta'[s] = [r EXCEPT !.sp = c]
    BY <1>7 DEF QInv, TypeOK
  <2> HIDE DEF r, c
  <2>2. /\ sta'[s].ps = r.ps /\ sta'[s].tim = r.tim /\ sta'[s].ready = r.ready
        /\ sta'[s].phase = r.phase /\ sta'[s].sp = c
    BY <2>1 DEF Station
  <2>3. c[p] = PerPs(s, share)[p] /\ \A o \in PsIds \ {p} : c[o] = r.sp[o]
    BY <2>1 DEF c, Station
  <2> QED BY <2>2, <2>3 DEF r
<1>9. \A r \in Stas : /\ sta'[r].ps = sta[r].ps /\ sta'[r].tim = sta[r].tim
                      /\ sta'[r].ready = sta[r].ready /\ sta'[r].phase = sta[r].phase
  BY <1>7, <1>8
<1>10. Steady' /\ LockHeld'
  BY <1>1, <1>9, Threads DEF QInv, Steady, LockHeld
<1>11. ReadyCount'
  BY <1>5, <1>9, SameReady DEF QInv
<1>12. GoodQueues'
  BY <1>1, <1>4, <1>9, Constants DEF GoodQueues
<1> QED BY <1>1, <1>3, <1>4, <1>5, <1>7, <1>8, <1>9, <1>10, <1>11, <1>12 DEF share

\* The limits a request sets, and those it leaves.
LEMMA TrafficLimits ==
    ASSUME QInv, NEW s \in Stas, NEW n \in 0..MaxReq, NEW p \in PsIds,
           TrafficReq(s, n, p), NEW q \in Txqs
    PROVE  txq'[q].push_limit = IF Asked(s, n, p)[q] = 0
                                THEN txq[q].push_limit ELSE Asked(s, n, p)[q]
<1> DEFINE k == Asked(s, n, p)[q]  t == txq[q]
<1>1. txq'[q] = IF k = 0 THEN t ELSE Promise(t, k)
  BY DEF TrafficReq, Asked, Promise
<1>2. t \in Queue
  BY DEF QInv, TypeOK
<1> HIDE DEF k, t
<1>3. Promise(t, k).push_limit = k
  <2> DEFINE u == [t EXCEPT !.push_limit = k]
  <2>1. u.push_limit = k /\ DOMAIN u = DOMAIN t
    BY <1>2, QueueFields
  <2> HIDE DEF u
  <2>2. AddToHwList(u).push_limit = u.push_limit
    BY <1>2, <2>1, QueueFields DEF AddToHwList
  <2> QED BY <2>1, <2>2 DEF u, Promise
<1> QED BY <1>1, <1>3 DEF k, t

LEMMA TrafficListed ==
    ASSUME QInv, NEW s \in Stas, NEW n \in 0..MaxReq, NEW p \in PsIds,
           TrafficReq(s, n, p), NEW q \in Txqs
    PROVE  txq'[q].listed <=> txq[q].listed \/ Asked(s, n, p)[q] # 0
<1> DEFINE k == Asked(s, n, p)[q]  t == txq[q]
<1>1. txq'[q] = IF k = 0 THEN t ELSE Promise(t, k)
  BY DEF TrafficReq, Asked, Promise
<1>2. t \in Queue
  BY DEF QInv, TypeOK
<1> HIDE DEF k, t
<1>3. Promise(t, k).listed
  BY <1>2, QueueFields DEF Promise, AddToHwList
<1> QED BY <1>1, <1>3 DEF k, t

LEMMA QuietInterrupt ==
    ASSUME QInv, NEW s \in Stas, SpInterrupted(s)
    PROVE  /\ Steady' /\ LockHeld' /\ Room' /\ ReadyCount' /\ GoodQueues'
           /\ Lens' = Lens /\ UNCHANGED <<need, tasklet, xmit>>
           /\ \A r \in Stas : /\ sta'[r].ps = sta[r].ps /\ sta'[r].tim = sta[r].tim
                              /\ sta'[r].ready = sta[r].ready
           /\ \A q \in Txqs : /\ txq'[q].sk_list = txq[q].sk_list
                              /\ txq'[q].stop = txq[q].stop
                              /\ txq'[q].listed = txq[q].listed
                              /\ txq'[q].push_limit \in {0, txq[q].push_limit}
<1>1. /\ txq' = [q \in Txqs |-> IF StaOf[q] = s
                                THEN [txq[q] EXCEPT !.push_limit = 0] ELSE txq[q]]
      /\ sta' = [sta EXCEPT ![s] = [sta[s] EXCEPT
                   !.sp = [sta[s].sp EXCEPT !["UAPSD"] = 0]]]
      /\ UNCHANGED <<vifStop, need, tasklet, tbusy, lock, xmit, rx, bug>>
  BY DEF SpInterrupted
<1>2. \A q \in Txqs : txq[q] \in Queue /\ Good(q, txq[q], sta[StaOf[q]].ps, vifStop, tbusy)
  BY DEF QInv, GoodQueues, TypeOK
<1>3. \A r \in Stas : /\ sta'[r].ps = sta[r].ps /\ sta'[r].tim = sta[r].tim
                      /\ sta'[r].ready = sta[r].ready /\ sta'[r].phase = sta[r].phase
  <2> DEFINE c == sta[s]  e == [c.sp EXCEPT !["UAPSD"] = 0]
  <2>1. c \in Station /\ sta'[s] = [c EXCEPT !.sp = e]
        /\ \A r \in Stas \ {s} : sta'[r] = sta[r]
    BY <1>1 DEF QInv, TypeOK
  <2> HIDE DEF c, e
  <2>2. /\ sta'[s].ps = c.ps /\ sta'[s].tim = c.tim
        /\ sta'[s].ready = c.ready /\ sta'[s].phase = c.phase
    BY <2>1 DEF Station
  <2> QED BY <2>1, <2>2 DEF c
<1>4. ASSUME NEW q \in Txqs
      PROVE  /\ Good(q, txq'[q], sta[StaOf[q]].ps, vifStop, tbusy)
             /\ txq'[q].sk_list = txq[q].sk_list /\ txq'[q].stop = txq[q].stop
             /\ txq'[q].listed = txq[q].listed
             /\ txq'[q].push_limit \in {0, txq[q].push_limit}
  <2> DEFINE t == txq[q]  ps == sta[StaOf[q]].ps
  <2>1. t \in Queue /\ Good(q, t, ps, vifStop, tbusy)
    BY <1>2
  <2>2. txq'[q] \in {t, [t EXCEPT !.push_limit = 0]}
    BY <1>1
  <2> HIDE DEF t, ps
  <2>3. Good(q, [t EXCEPT !.push_limit = 0], ps, vifStop, tbusy)
    BY <2>1, FieldGood
  <2>4. /\ [t EXCEPT !.push_limit = 0].sk_list = t.sk_list
        /\ [t EXCEPT !.push_limit = 0].stop = t.stop
        /\ [t EXCEPT !.push_limit = 0].listed = t.listed
        /\ [t EXCEPT !.push_limit = 0].push_limit = 0
    BY <2>1, QueueFields
  <2> QED BY <2>1, <2>2, <2>3, <2>4 DEF t, ps
<1>5. Room' /\ Lens' = Lens
  BY <1>1, <1>4, SameRoom DEF QInv
<1>6. Steady' /\ LockHeld'
  BY <1>1, <1>3, Threads DEF QInv, Steady, LockHeld
<1>7. ReadyCount'
  BY <1>3, <1>5, SameReady DEF QInv
<1>8. GoodQueues'
  BY <1>1, <1>3, <1>4, Constants DEF GoodQueues
<1> QED BY <1>1, <1>3, <1>4, <1>5, <1>6, <1>7, <1>8

LEMMA QuietVifStop ==
    ASSUME QInv, NEW r \in VifReasons, VifStop(r)
    PROVE  /\ Steady' /\ LockHeld' /\ Room' /\ ReadyCount' /\ GoodQueues'
           /\ r \in Events /\ UNCHANGED <<sta, tasklet, xmit>>
           /\ need' = NeedAfter(txq') /\ Lens' = Lens
           /\ \A q \in Txqs : /\ txq'[q].sk_list = txq[q].sk_list
                              /\ txq'[q].push_limit = txq[q].push_limit
                              /\ ~txq'[q].listed
                              /\ txq'[q].stop = txq[q].stop \cup {r}
<1>0. LinkedTxqs = Txqs
  BY AllLinked DEF QInv
<1>1. /\ txq' = [q \in Txqs |-> Stop(txq[q], r)]
      /\ need' = NeedAfter(txq') /\ vifStop' = vifStop \cup {r} /\ r \in Events
      /\ UNCHANGED <<sta, tasklet, tbusy, lock, xmit, rx, bug>>
  BY <1>0 DEF VifStop, Update
<1>2. \A q \in Txqs : txq[q] \in Queue /\ Good(q, txq[q], sta[StaOf[q]].ps, vifStop, tbusy)
  BY DEF QInv, GoodQueues, TypeOK
<1>3. ASSUME NEW q \in Txqs
      PROVE  /\ Good(q, txq'[q], sta[StaOf[q]].ps, vifStop', tbusy)
             /\ txq'[q].sk_list = txq[q].sk_list
             /\ txq'[q].push_limit = txq[q].push_limit
             /\ ~txq'[q].listed /\ txq'[q].stop = txq[q].stop \cup {r}
  <2> DEFINE t == txq[q]  ps == sta[StaOf[q]].ps
  <2>1. t \in Queue /\ Good(q, t, ps, vifStop, tbusy) /\ txq'[q] = Stop(t, r)
    BY <1>1, <1>2
  <2> HIDE DEF t, ps
  <2>2. /\ Good(q, Stop(t, r), ps, vifStop \cup {r}, tbusy)
        /\ Stop(t, r).sk_list = t.sk_list
        /\ ~Stop(t, r).listed /\ Stop(t, r).push_limit = t.push_limit
    BY <2>1, VifStopGood
  <2>3. Stop(t, r).stop = t.stop \cup {r}
    BY <2>1, StopBits DEF Good
  <2> QED BY <1>1, <2>1, <2>2, <2>3 DEF t, ps
<1>4. Room' /\ Lens' = Lens
  BY <1>1, <1>3, SameRoom DEF QInv
<1>5. Steady' /\ LockHeld'
  BY <1>1 DEF QInv, Steady, LockHeld
<1>6. ReadyCount'
  BY <1>1, <1>4, SameReady DEF QInv
<1>7. GoodQueues'
  BY <1>1, <1>3 DEF GoodQueues
<1> QED BY <1>1, <1>3, <1>4, <1>5, <1>6, <1>7

LEMMA QuietVifStart ==
    ASSUME QInv, NEW r \in VifReasons, VifStart(r)
    PROVE  /\ Steady' /\ LockHeld' /\ Room' /\ ReadyCount' /\ GoodQueues'
           /\ r \in vifStop /\ UNCHANGED <<sta, xmit>>
           /\ need' = NeedAfter(txq') /\ Lens' = Lens
           /\ (tasklet' <=> tasklet \/ r # "CSA")
           /\ \A q \in Txqs :
                /\ txq'[q].sk_list = txq[q].sk_list
                /\ txq'[q].push_limit = txq[q].push_limit
                /\ txq[q].listed => txq'[q].listed /\ txq'[q].links = txq[q].links
                /\ ~txq[q].listed /\ txq'[q].listed => /\ txq'[q].links > txq[q].links
                                                       /\ ~Stopped(txq'[q])
                /\ txq'[q].stop = txq[q].stop \ {r}
<1>0. LinkedTxqs = Txqs
  BY AllLinked DEF QInv
<1>1. /\ txq' = [q \in Txqs |-> Start(txq[q], r)]
      /\ need' = NeedAfter(txq') /\ vifStop' = vifStop \ {r} /\ r \in vifStop
      /\ (tasklet' <=> tasklet \/ r # "CSA")
      /\ UNCHANGED <<sta, tbusy, lock, xmit, rx, bug>>
  BY <1>0 DEF VifStart, Update
<1>2. \A q \in Txqs : txq[q] \in Queue /\ Good(q, txq[q], sta[StaOf[q]].ps, vifStop, tbusy)
  BY DEF QInv, GoodQueues, TypeOK
<1>3. ASSUME NEW q \in Txqs
      PROVE  /\ Good(q, txq'[q], sta[StaOf[q]].ps, vifStop', tbusy)
             /\ txq'[q].sk_list = txq[q].sk_list
             /\ txq'[q].push_limit = txq[q].push_limit
             /\ txq[q].listed => txq'[q].listed /\ txq'[q].links = txq[q].links
             /\ ~txq[q].listed /\ txq'[q].listed => /\ txq'[q].links > txq[q].links
                                                    /\ ~Stopped(txq'[q])
             /\ txq'[q].stop = txq[q].stop \ {r}
  <2> DEFINE t == txq[q]  ps == sta[StaOf[q]].ps
  <2>1. t \in Queue /\ Good(q, t, ps, vifStop, tbusy) /\ txq'[q] = Start(t, r)
    BY <1>1, <1>2
  <2> HIDE DEF t, ps
  <2>2. /\ Good(q, Start(t, r), ps, vifStop \ {r}, tbusy)
        /\ Start(t, r).sk_list = t.sk_list
        /\ Start(t, r).push_limit = t.push_limit
        /\ t.listed => Start(t, r).listed /\ Start(t, r).links = t.links
        /\ ~t.listed /\ Start(t, r).listed => /\ Start(t, r).links > t.links
                                              /\ ~Stopped(Start(t, r))
    BY <2>1, VifStartGood
  <2>3. Start(t, r).stop = t.stop \ {r}
    BY <2>1, StopBits DEF Good
  <2> QED BY <1>1, <2>1, <2>2, <2>3 DEF t, ps
<1>4. Room' /\ Lens' = Lens
  BY <1>1, <1>3, SameRoom DEF QInv
<1>5. Steady' /\ LockHeld'
  BY <1>1 DEF QInv, Steady, LockHeld
<1>6. ReadyCount'
  BY <1>1, <1>4, SameReady DEF QInv
<1>7. GoodQueues'
  BY <1>1, <1>3 DEF GoodQueues
<1> QED BY <1>1, <1>3, <1>4, <1>5, <1>6, <1>7

LEMMA QuietBus ==
    ASSUME QInv, BusStop \/ BusWake
    PROVE  /\ Steady' /\ LockHeld' /\ Room' /\ ReadyCount' /\ GoodQueues'
           /\ Lens' = Lens /\ UNCHANGED <<sta, need, tasklet, xmit>>
           /\ \A q \in Txqs : /\ txq'[q].sk_list = txq[q].sk_list
                              /\ txq'[q].stop = txq[q].stop
                              /\ txq'[q].listed = txq[q].listed
                              /\ txq'[q].push_limit = txq[q].push_limit
<1>1. PICK b \in BOOLEAN :
        /\ txq' = [q \in Txqs |-> IF q \in MgtTxqs THEN txq[q]
                                  ELSE [txq[q] EXCEPT !.closed = b]]
        /\ tbusy' = b
        /\ UNCHANGED <<sta, vifStop, need, tasklet, lock, xmit, rx, bug>>
  BY DEF BusStop, BusWake, NetdevQueues
<1>2. \A q \in Txqs : txq[q] \in Queue /\ Good(q, txq[q], sta[StaOf[q]].ps, vifStop, tbusy)
  BY DEF QInv, GoodQueues, TypeOK
<1>3. ASSUME NEW q \in Txqs
      PROVE  /\ Good(q, txq'[q], sta[StaOf[q]].ps, vifStop, b)
             /\ txq'[q].sk_list = txq[q].sk_list /\ txq'[q].stop = txq[q].stop
             /\ txq'[q].listed = txq[q].listed
             /\ txq'[q].push_limit = txq[q].push_limit
  <2> DEFINE t == txq[q]  ps == sta[StaOf[q]].ps
  <2>1. t \in Queue /\ Good(q, t, ps, vifStop, tbusy)
    BY <1>2
  <2>2. txq'[q] = IF q \in MgtTxqs THEN t ELSE [t EXCEPT !.closed = b]
    BY <1>1
  <2> HIDE DEF t, ps
  <2>3. /\ q \notin MgtTxqs => Good(q, [t EXCEPT !.closed = b], ps, vifStop, b)
        /\ q \in MgtTxqs => Good(q, t, ps, vifStop, b)
    <3>1. CASE b = TRUE
      BY <2>1, <3>1, FieldGood
    <3>2. CASE b = FALSE
      BY <2>1, <3>2, FieldGood
    <3> QED BY <3>1, <3>2
  <2>4. /\ [t EXCEPT !.closed = b].sk_list = t.sk_list
        /\ [t EXCEPT !.closed = b].stop = t.stop
        /\ [t EXCEPT !.closed = b].listed = t.listed
        /\ [t EXCEPT !.closed = b].push_limit = t.push_limit
    BY <2>1, QueueFields
  <2> QED BY <2>1, <2>2, <2>3, <2>4 DEF t, ps
<1>4. Room' /\ Lens' = Lens
  BY <1>1, <1>3, SameRoom DEF QInv
<1>5. Steady' /\ LockHeld'
  BY <1>1 DEF QInv, Steady, LockHeld
<1>6. ReadyCount'
  BY <1>1, <1>4, SameReady DEF QInv
<1>7. GoodQueues'
  BY <1>1, <1>3 DEF GoodQueues
<1> QED BY <1>1, <1>3, <1>4, <1>5, <1>6, <1>7

LEMMA QuietInit == Init => QInv
<1> SUFFICES ASSUME Init PROVE QInv
  OBVIOUS
<1>1. TypeOK
  BY TypeInit
<1>2. Steady
  BY DEF Init, Steady, RxIdle
<1>3. LockHeld
  BY TxQueueAssumption DEF Init, LockHeld, XIdle
<1>4. \A q \in Txqs : txq[q] = Initialised([links |-> 0, closed |-> FALSE], {})
  BY DEF Init
<1>5. \A q \in Txqs : /\ txq[q].active /\ ~txq[q].dirty /\ txq[q].credits = CREDITS
                      /\ ~txq[q].listed /\ txq[q].links = 0 /\ txq[q].sk_list = <<>>
                      /\ txq[q].push_limit = 0 /\ txq[q].stop = {} /\ ~txq[q].closed
  BY <1>4 DEF Initialised
<1>6. Room
  <2>1. SUFFICES ASSUME NEW q \in Txqs PROVE Len(txq[q].sk_list) + OnTheWay(q) <= MaxLen
    BY DEF Room
  <2>2. {x \in Senders : xmit[x].pc = "checked" /\ xmit[x].q = q} = {}
    BY DEF Init, XIdle
  <2>3. OnTheWay(q) = 0
    BY <2>2, FS_EmptySet DEF OnTheWay
  <2>4. Len(txq[q].sk_list) = 0
    BY <1>5
  <2> QED BY <2>3, <2>4, TxQueueAssumption
<1>7. \A s \in Stas : ~sta[s].ps
  BY DEF Init
<1>8. ReadyCount
  BY <1>7 DEF ReadyCount
<1>9. GoodQueues
  <2>1. SUFFICES ASSUME NEW q \in Txqs
                 PROVE  Good(q, txq[q], sta[StaOf[q]].ps, vifStop, tbusy)
    BY DEF GoodQueues
  <2>2. ~sta[StaOf[q]].ps /\ vifStop = {}
    BY <1>7, Constants DEF Init
  <2>3. Len(txq[q].sk_list) = 0
    BY <1>5
  <2>4. 0 <= CREDITS
    BY TxQueueAssumption
  <2> QED BY <1>5, <2>2, <2>3, <2>4 DEF Good
<1> QED BY <1>1, <1>2, <1>3, <1>6, <1>8, <1>9 DEF QInv

\* Every step keeps the invariant while no station comes or goes and nothing
\* is confirmed.
LEMMA QuietNext == Quiet /\ QInv /\ [Next]_vars => QInv'
<1> SUFFICES ASSUME Quiet, QInv, [Next]_vars PROVE QInv'
  OBVIOUS
<1>1. TypeOK'
  BY TypeNext DEF QInv
<1>2. CASE UNCHANGED vars
  <2>1. UNCHANGED <<txq, sta, vifStop, tbusy, lock, xmit, rx, bug>>
    BY <1>2 DEF vars
  <2>2. Steady' /\ LockHeld' /\ GoodQueues'
    BY <2>1 DEF QInv, Steady, LockHeld, GoodQueues
  <2>3. Room' /\ ReadyCount'
    BY <2>1 DEF QInv, Room, OnTheWay, ReadyCount, Valid
  <2> QED BY <1>1, <2>2, <2>3 DEF QInv
<1>3. CASE Next
  <2> SUFFICES Steady' /\ LockHeld' /\ Room' /\ ReadyCount' /\ GoodQueues'
    BY <1>1 DEF QInv
  <2>1. QuietStep
    BY <1>3, QuietSteps
  <2>2. ASSUME NEW x \in Senders, NEW q \in Txqs, NEW f \in Frames, XmitCheck(x, q, f)
        PROVE  Steady' /\ LockHeld' /\ Room' /\ ReadyCount' /\ GoodQueues'
    BY <2>2, QuietCheck
  <2>3. ASSUME NEW x \in Senders, XmitQueue(x)
        PROVE  Steady' /\ LockHeld' /\ Room' /\ ReadyCount' /\ GoodQueues'
    BY <2>3, QuietQueue
  <2>4. ASSUME (\E x \in Senders : XmitProcess(x)) \/ Task
        PROVE  Steady' /\ LockHeld' /\ Room' /\ ReadyCount' /\ GoodQueues'
    BY <2>4, QuietProcessing
  <2>5. ASSUME NEW s \in Stas, NEW on \in BOOLEAN, PsChangeInd(s, on)
        PROVE  Steady' /\ LockHeld' /\ Room' /\ ReadyCount' /\ GoodQueues'
    BY <2>5, QuietPsInd
  <2>6. ASSUME PsChange
        PROVE  Steady' /\ LockHeld' /\ Room' /\ ReadyCount' /\ GoodQueues'
    BY <2>6, QuietPs
  <2>7. ASSUME NEW s \in Stas, NEW n \in 0..MaxReq, NEW p \in PsIds, TrafficReq(s, n, p)
        PROVE  Steady' /\ LockHeld' /\ Room' /\ ReadyCount' /\ GoodQueues'
    BY <2>7, QuietTraffic
  <2>8. ASSUME NEW s \in Stas, SpInterrupted(s)
        PROVE  Steady' /\ LockHeld' /\ Room' /\ ReadyCount' /\ GoodQueues'
    BY <2>8, QuietInterrupt
  <2>9. ASSUME NEW r \in VifReasons, VifStop(r)
        PROVE  Steady' /\ LockHeld' /\ Room' /\ ReadyCount' /\ GoodQueues'
    BY <2>9, QuietVifStop
  <2>10. ASSUME NEW r \in VifReasons, VifStart(r)
         PROVE  Steady' /\ LockHeld' /\ Room' /\ ReadyCount' /\ GoodQueues'
    BY <2>10, QuietVifStart
  <2>11. ASSUME BusStop \/ BusWake
         PROVE  Steady' /\ LockHeld' /\ Room' /\ ReadyCount' /\ GoodQueues'
    BY <2>11, QuietBus
  <2> QED BY <2>1, <2>2, <2>3, <2>4, <2>5, <2>6, <2>7, <2>8, <2>9, <2>10, <2>11
          DEF QuietStep
<1> QED BY <1>2, <1>3

LEMMA QuietAlways == ASSUME Quiet PROVE Spec => []QInv
<1>1. Init => QInv
  BY QuietInit
<1>2. QInv /\ [Next]_vars => QInv'
  BY QuietNext
<1> QED BY <1>1, <1>2, PTL DEF Spec

\* While no station is added or deleted and no frame confirmed, the queues,
\* the lists of the hardware queues, the stop bits, the netdev queues and the
\* counter of waiting frames fit together after every step of rwnx_txq.c and
\* rwnx_tx.c, under tx_lock or not.
THEOREM QuietHolds == ASSUME Quiet PROVE Spec => []QuietInv
<1>1. Spec => []QInv
  BY QuietAlways
<1>2. QInv => QuietInv
  BY QuietParts
<1> QED BY <1>1, <1>2, PTL

\* The stop bits of every queue are those of its interface and its station,
\* whatever the order of rwnx_txq_vif_stop, rwnx_txq_vif_start and
\* rwnx_ps_bh_enable.
THEOREM StopsAgreeHolds == ASSUME Quiet PROVE Spec => []StopsAgree
<1>1. Spec => []QInv
  BY QuietAlways
<1>2. QInv => StopsAgree
  BY QuietParts DEF QuietInv
<1> QED BY <1>1, <1>2, PTL

\* No queue with frames that may send is left out of its hardware queue's
\* list by rwnx_txq_queue_skb, the stops and starts or rwnx_hwq_process.
THEOREM NotForgottenHolds == ASSUME Quiet PROVE Spec => []NotForgotten
<1>1. Spec => []QInv
  BY QuietAlways
<1>2. QInv => NotForgotten
  <2>1. Kept => NotForgotten
    BY DEF Kept, NotForgotten, Waiting
  <2> QED BY <2>1, QuietParts DEF QuietInv
<1> QED BY <1>1, <1>2, PTL

\* A stopped netdev queue is woken by the USB bus or by the pass of
\* rwnx_hwq_process that brings its queue under the threshold.
THEOREM NetdevHeldHolds == ASSUME Quiet PROVE Spec => []NetdevHeld
<1>1. Spec => []QInv
  BY QuietAlways
<1>2. QInv => NetdevHeld
  <2>1. ClosedForReason => NetdevHeld
    BY DEF ClosedForReason, NetdevHeld
  <2> QED BY <2>1, QuietParts DEF QuietInv
<1> QED BY <1>1, <1>2, PTL

-----------------------------------------------------------------------------
(* Frames leave a queue in a pass of rwnx_hwq_process only. *)

LEMMA WhoLeaves ==
    ASSUME Quiet, QInv, [Next]_vars, NEW q \in Txqs, Lens'[q] < Lens[q]
    PROVE  \E H : Process(H) /\ UNCHANGED <<vifStop, tbusy>> /\ q \in Work(H)
<1>0. Lens[q] \in Nat
  BY LensNat DEF QInv
<1>1. ASSUME Lens' = Lens PROVE FALSE
  BY <1>0, <1>1
<1>2. ASSUME NEW H, Process(H), UNCHANGED <<vifStop, tbusy>>
      PROVE  \E G : Process(G) /\ UNCHANGED <<vifStop, tbusy>> /\ q \in Work(G)
  <2>1. q \notin Work(H) => txq'[q] = txq[q]
    BY <1>2, QuietProcess
  <2>2. q \notin Work(H) => Lens'[q] = Lens[q]
    BY <2>1 DEF Lens
  <2> QED BY <1>0, <1>2, <2>2
<1>3. CASE UNCHANGED vars
  BY <1>1, <1>3 DEF vars, Lens
<1>4. CASE Next
  <2>1. QuietStep
    BY <1>4, QuietSteps
  <2>2. ASSUME NEW x \in Senders, NEW r \in Txqs, NEW f \in Frames, XmitCheck(x, r, f)
        PROVE  FALSE
    BY <1>1, <2>2 DEF XmitCheck, Lens
  <2>3. ASSUME NEW x \in Senders, XmitQueue(x) PROVE FALSE
    <3>1. /\ \A r \in Txqs \ {xmit[x].q} : txq'[r] = txq[r]
          /\ xmit[x].q \in Txqs
          /\ txq'[xmit[x].q].sk_list = Append(txq[xmit[x].q].sk_list, xmit[x].frame)
      BY <2>3, QuietQueue
    <3>2. CASE q # xmit[x].q
      BY <1>0, <3>1, <3>2 DEF Lens
    <3>3. CASE q = xmit[x].q
      <4> DEFINE l == txq[q].sk_list  f == xmit[x].frame
      <4>1. l \in Seq(Frames) /\ f \in Frames
        BY <2>3, Threads DEF QInv, TypeOK, Queue, XmitQueue
      <4>2. Lens'[q] = Len(Append(l, f)) /\ Lens[q] = Len(l)
        BY <3>1, <3>3 DEF Lens
      <4> HIDE DEF l, f
      <4>3. Len(Append(l, f)) = Len(l) + 1
        BY <4>1
      <4> QED BY <1>0, <4>2, <4>3
    <3> QED BY <3>2, <3>3
  <2>4. ASSUME (\E x \in Senders : XmitProcess(x)) \/ Task
        PROVE  \E H : Process(H) /\ UNCHANGED <<vifStop, tbusy>>
    BY <2>4 DEF XmitProcess, Task
  <2>5. ASSUME NEW s \in Stas, NEW on \in BOOLEAN, PsChangeInd(s, on) PROVE FALSE
    BY <1>1, <2>5 DEF PsChangeInd, Lens
  <2>6. ASSUME PsChange PROVE FALSE
    BY <1>1, <2>6, QuietPs
  <2>7. ASSUME NEW s \in Stas, NEW n \in 0..MaxReq, NEW p \in PsIds, TrafficReq(s, n, p)
        PROVE  FALSE
    BY <1>1, <2>7, QuietTraffic
  <2>8. ASSUME NEW s \in Stas, SpInterrupted(s) PROVE FALSE
    BY <1>1, <2>8, QuietInterrupt
  <2>9. ASSUME NEW r \in VifReasons, VifStop(r) PROVE FALSE
    BY <1>1, <2>9, QuietVifStop
  <2>10. ASSUME NEW r \in VifReasons, VifStart(r) PROVE FALSE
    BY <1>1, <2>10, QuietVifStart
  <2>11. ASSUME BusStop \/ BusWake PROVE FALSE
    BY <1>1, <2>11, QuietBus
  <2>12. \E H : Process(H) /\ UNCHANGED <<vifStop, tbusy>>
    BY <2>1, <2>2, <2>3, <2>4, <2>5, <2>6, <2>7, <2>8, <2>9, <2>10, <2>11 DEF QuietStep
  <2> QED BY <1>2, <2>12
<1> QED BY <1>3, <1>4

\* Nothing is handed to the firmware while the interface is off its channel
\* or absent: rwnx_txq_vif_stop has taken every queue out of the lists.
THEOREM OffChannelSilentHolds == ASSUME Quiet PROVE Spec => OffChannelSilent
<1>1. Spec => []QInv
  BY QuietAlways
<1>2. ASSUME QInv, [Next]_vars, NEW q \in Txqs, Leaves(q)
      PROVE  vifStop \cap {"CHAN", "VIF_PS"} = {}
  <2>1. Lens'[q] < Lens[q]
    BY <1>2 DEF Leaves, Lens
  <2>2. PICK H : Process(H) /\ UNCHANGED <<vifStop, tbusy>> /\ q \in Work(H)
    BY <1>2, <2>1, WhoLeaves
  <2>3. txq[q].listed
    BY <1>2, <2>2, QuietProcess
  <2>4. Good(q, txq[q], sta[StaOf[q]].ps, vifStop, tbusy)
    BY <1>2 DEF QInv, GoodQueues
  <2> QED BY <2>3, <2>4 DEF Good
<1>3. QInv /\ [Next]_vars =>
        [\A q \in Txqs : Leaves(q) => vifStop \cap {"CHAN", "VIF_PS"} = {}]_vars
  BY <1>2
<1> QED BY <1>1, <1>3, PTL DEF Spec, OffChannelSilent

=============================================================================
