------------------------ MODULE WorkspaceScanProofs ------------------------
(***************************************************************************)
(* Proofs about module WorkspaceScan: what a manifest lists and what it    *)
(* leaves out, why a scan fails, and where pruning stops, while the        *)
(* application creates, ends and removes files and other plans delete.     *)
(***************************************************************************)
EXTENDS WorkspaceScan, FiniteSetTheorems, SequenceTheorems, WellFoundedInduction, TLAPS

-----------------------------------------------------------------------------
(* Folds. FoldLeft is defined by recursion over sets; what it computes is  *)
(* proved by induction over the prefixes of its argument.                  *)

(* A set of naturals with 0 and every successor has them all. *)
LEMMA NatSet ==
  ASSUME NEW S, 0 \in S, \A n \in Nat : n \in S => n + 1 \in S
  PROVE  Nat \subseteq S
<1> DEFINE T == Nat \ S
<1> SUFFICES ASSUME T # {} PROVE FALSE
  OBVIOUS
<1>1. PICK x \in T : \A y \in T : ~(<<y, x>> \in OpToRel(<, Nat))
  <2>1. T \subseteq Nat
    OBVIOUS
  <2> QED BY <2>1, NatLessThanWellFounded, WFMin
<1>2. x # 0 /\ x \in Nat /\ x - 1 \in Nat
  OBVIOUS
<1>3. x - 1 \in T
  <2> x - 1 + 1 = x
    BY <1>2
  <2> QED BY <1>2
<1>4. <<x - 1, x>> \in OpToRel(<, Nat)
  BY <1>2 DEF OpToRel
<1> QED BY <1>1, <1>3, <1>4

(* A step for every prefix of 1 .. n. *)
FoldOver(n, base, step, V, iter) ==
  /\ iter \in [SUBSET (1 .. n) -> V]
  /\ iter[{}] = base
  /\ \A s \in SUBSET (1 .. n) : s # {} =>
       Max(s) \in s /\ iter[s] = step[<<iter[s \ {Max(s)}], Max(s)>>]

(* A fold over the prefixes of 1 .. n exists, for any step. *)
LEMMA FoldExists ==
  ASSUME NEW n \in Nat, NEW V, NEW base \in V, NEW step \in [V \X (1 .. n) -> V]
  PROVE  \E iter : FoldOver(n, base, step, V, iter)
<1> DEFINE M == {m \in Nat : m <= n => \E iter : FoldOver(m, base, step, V, iter)}
<1>1. 0 \in M
  <2> DEFINE iter == [s \in SUBSET (1 .. 0) |-> base]
  <2>1. 1 .. 0 = {}
    OBVIOUS
  <2>2. FoldOver(0, base, step, V, iter)
    BY <2>1 DEF FoldOver
  <2> QED BY <2>2
<1>2. ASSUME NEW m \in Nat, m \in M PROVE m + 1 \in M
  <2> SUFFICES ASSUME m + 1 <= n PROVE \E iter : FoldOver(m + 1, base, step, V, iter)
    OBVIOUS
  <2>1. PICK h : FoldOver(m, base, step, V, h)
    BY <1>2
  <2> DEFINE iter == [s \in SUBSET (1 .. m + 1) |->
                       IF m + 1 \in s THEN step[<<h[s \ {m + 1}], m + 1>>] ELSE h[s]]
  <2>2. \A s \in SUBSET (1 .. m + 1) : s \ {m + 1} \in SUBSET (1 .. m)
    OBVIOUS
  <2>3. \A s \in SUBSET (1 .. m + 1) : m + 1 \notin s => s \in SUBSET (1 .. m)
    OBVIOUS
  <2>4. \A s \in SUBSET (1 .. m) : h[s] \in V
    BY <2>1 DEF FoldOver
  <2>5. iter \in [SUBSET (1 .. m + 1) -> V]
    BY <2>2, <2>3, <2>4
  <2>6. iter[{}] = base
    BY <2>1 DEF FoldOver
  <2>7. ASSUME NEW s \in SUBSET (1 .. m + 1), s # {}
        PROVE  Max(s) \in s /\ iter[s] = step[<<iter[s \ {Max(s)}], Max(s)>>]
    <3>1. CASE m + 1 \in s
      <4>1. Max(s) = m + 1
        <5>1. \A y \in s : m + 1 >= y
          OBVIOUS
        <5>2. \A x \in s : (\A y \in s : x >= y) => x = m + 1
          BY <3>1, <5>1
        <5> QED BY <5>1, <5>2, <3>1 DEF Max
      <4>2. iter[s \ {m + 1}] = h[s \ {m + 1}]
        OBVIOUS
      <4> QED BY <4>1, <4>2, <3>1
    <3>2. CASE m + 1 \notin s
      <4>1. s \in SUBSET (1 .. m)
        BY <3>2
      <4>2. Max(s) \in s /\ h[s] = step[<<h[s \ {Max(s)}], Max(s)>>]
        BY <4>1, <2>7, <2>1 DEF FoldOver
      <4>3. iter[s \ {Max(s)}] = h[s \ {Max(s)}]
        BY <3>2
      <4> QED BY <4>2, <4>3, <3>2
    <3> QED BY <3>1, <3>2
  <2>8. FoldOver(m + 1, base, step, V, iter)
    BY <2>5, <2>6, <2>7 DEF FoldOver
  <2> QED BY <2>8
<1>3. Nat \subseteq M
  <2> HIDE DEF M
  <2> QED BY <1>1, <1>2, NatSet
<1> QED BY <1>3

(* Induction over the intervals from 1. *)
LEMMA IntervalInduction ==
  ASSUME NEW n \in Nat, NEW S, 0 \in S, \A k \in 1 .. n : k - 1 \in S => k \in S
  PROVE  0 .. n \subseteq S
<1> DEFINE M == {k \in Nat : k <= n => k \in S}
<1>1. 0 \in M
  OBVIOUS
<1>2. ASSUME NEW k \in Nat, k \in M PROVE k + 1 \in M
  <2> SUFFICES ASSUME k + 1 <= n PROVE k + 1 \in S
    OBVIOUS
  <2>1. k \in S /\ k + 1 \in 1 .. n /\ (k + 1) - 1 = k
    BY <1>2
  <2> QED BY <2>1
<1> HIDE DEF M
<1>3. Nat \subseteq M
  BY <1>1, <1>2, NatSet
<1> QED BY <1>3 DEF M

(* The largest element of an interval. *)
LEMMA MaxInterval ==
  ASSUME NEW k \in Nat, k # 0
  PROVE  Max(1 .. k) = k /\ (1 .. k) \ {Max(1 .. k)} = 1 .. (k - 1) /\ 1 .. k # {}
<1>1. Max(1 .. k) = k
  <2>1. k \in 1 .. k /\ \A y \in 1 .. k : k >= y
    OBVIOUS
  <2>2. \A x \in 1 .. k : (\A y \in 1 .. k : x >= y) => x = k
    BY <2>1
  <2> QED BY <2>1, <2>2 DEF Max
<1>2. (1 .. k) \ {k} = 1 .. (k - 1) /\ k \in 1 .. k
  OBVIOUS
<1> QED BY <1>1, <1>2

(* Retain is built up root by root. *)
LEMMA FoldRetain ==
  ASSUME NEW T, NEW seq \in Seq(T), NEW r
  PROVE  \E g \in [0 .. Len(seq) -> Seq(T)] :
           /\ g[0] = << >>
           /\ \A k \in 1 .. Len(seq) : g[k] = RetainRoot(g[k - 1], seq[k], r)
           /\ Retain(seq, r) = g[Len(seq)]
<1> DEFINE V == Seq(T)
           base == << >>
<1>a. base \in V /\ \A v \in V, x \in T : RetainRoot(v, x, r) \in V
  BY DEF RetainRoot
<1> HIDE DEF V
<1> DEFINE n == Len(seq)
           step == [p \in V \X (1 .. n) |-> RetainRoot(p[1], seq[p[2]], r)]
           Iter(f) == f = [s \in SUBSET DOMAIN seq |->
                            IF s = {} THEN << >> ELSE RetainRoot(f[s \ {Max(s)}], seq[Max(s)], r)]
<1>1. n \in Nat /\ DOMAIN seq = 1 .. n /\ \A k \in 1 .. n : seq[k] \in T
  OBVIOUS
<1>2. step \in [V \X (1 .. n) -> V]
  <2> HIDE DEF n, base
  <2> QED BY <1>1, <1>a
<1>3. \E f : Iter(f)
  <2> HIDE DEF n, step
  <2>1. PICK f : FoldOver(n, base, step, V, f)
    BY <1>1, <1>2, <1>a, FoldExists
  <2>2. ASSUME NEW s \in SUBSET (1 .. n), s # {}
        PROVE  f[s] = RetainRoot(f[s \ {Max(s)}], seq[Max(s)], r)
    <3>1. Max(s) \in 1 .. n /\ f[s] = step[<<f[s \ {Max(s)}], Max(s)>>]
      BY <2>1, <2>2 DEF FoldOver
    <3>2. f[s \ {Max(s)}] \in V
      BY <2>1 DEF FoldOver
    <3> QED BY <3>1, <3>2 DEF step
  <2> QED BY <2>1, <2>2, <1>1 DEF FoldOver
<1> DEFINE f == CHOOSE f : Iter(f)
<1>4. Iter(f)
  <2> HIDE DEF Iter
  <2> QED BY <1>3
<1>5. Retain(seq, r) = f[1 .. n]
  BY <1>1 DEF FoldLeft, MapThenFoldSet, Retain
<1> HIDE DEF f
<1>6. \A k \in 1 .. n : f[1 .. k] = RetainRoot(f[1 .. (k - 1)], seq[k], r)
  <2> SUFFICES ASSUME NEW k \in 1 .. n PROVE f[1 .. k] = RetainRoot(f[1 .. (k - 1)], seq[k], r)
    OBVIOUS
  <2> HIDE DEF n
  <2>1. k \in Nat /\ k # 0 /\ 1 .. k \in SUBSET DOMAIN seq
    BY <1>1
  <2>2. Max(1 .. k) = k /\ (1 .. k) \ {Max(1 .. k)} = 1 .. (k - 1) /\ 1 .. k # {}
    BY <2>1, MaxInterval
  <2> QED BY <1>4, <2>1, <2>2
<1>7. f[1 .. 0] = base
  <2>1. 1 .. 0 = {} /\ 1 .. 0 \in SUBSET DOMAIN seq
    OBVIOUS
  <2> HIDE DEF n
  <2> QED BY <1>4, <2>1
<1>8. \A k \in 0 .. n : f[1 .. k] \in V
  <2> DEFINE M == {k \in 0 .. n : f[1 .. k] \in V}
  <2> HIDE DEF n
  <2>1. 0 \in M
    BY <1>1, <1>7, <1>a
  <2>2. ASSUME NEW k \in 1 .. n, k - 1 \in M PROVE k \in M
    BY <2>2, <1>1, <1>6, <1>a
  <2> HIDE DEF M
  <2>3. 0 .. n \subseteq M
    BY <1>1, <2>1, <2>2, IntervalInduction
  <2> QED BY <2>3 DEF M
<1> DEFINE g == [k \in 0 .. n |-> f[1 .. k]]
<1>9. /\ g \in [0 .. n -> V]
      /\ g[0] = base
      /\ \A k \in 1 .. n : g[k] = RetainRoot(g[k - 1], seq[k], r)
      /\ Retain(seq, r) = g[n]
  <2> HIDE DEF n
  <2> QED BY <1>1, <1>5, <1>6, <1>7, <1>8
<1> QED BY <1>9 DEF V

(* The expansion of the identifiers is built up one by one. *)
LEMMA FoldExpandDatasetIds ==
  ASSUME NEW V, NEW T, NEW base \in V, base = << >>, NEW seq \in Seq(T),
         \A v \in V, x \in T : PushExpanded(v, x) \in V
  PROVE  \E g \in [0 .. Len(seq) -> V] :
           /\ g[0] = base
           /\ \A k \in 1 .. Len(seq) : g[k] = PushExpanded(g[k - 1], seq[k])
           /\ ExpandDatasetIds(seq) = g[Len(seq)]
<1> DEFINE n == Len(seq)
           step == [p \in V \X (1 .. n) |-> PushExpanded(p[1], seq[p[2]])]
           Iter(f) == f = [s \in SUBSET DOMAIN seq |->
                            IF s = {} THEN << >> ELSE PushExpanded(f[s \ {Max(s)}], seq[Max(s)])]
<1>1. n \in Nat /\ DOMAIN seq = 1 .. n /\ \A k \in 1 .. n : seq[k] \in T
  OBVIOUS
<1>2. step \in [V \X (1 .. n) -> V]
  <2> HIDE DEF n
  <2> QED BY <1>1
<1>3. \E f : Iter(f)
  <2> HIDE DEF n, step
  <2>1. PICK f : FoldOver(n, base, step, V, f)
    BY <1>1, <1>2, FoldExists
  <2>2. ASSUME NEW s \in SUBSET (1 .. n), s # {}
        PROVE  f[s] = PushExpanded(f[s \ {Max(s)}], seq[Max(s)])
    <3>1. Max(s) \in 1 .. n /\ f[s] = step[<<f[s \ {Max(s)}], Max(s)>>]
      BY <2>1, <2>2 DEF FoldOver
    <3>2. f[s \ {Max(s)}] \in V
      BY <2>1 DEF FoldOver
    <3> QED BY <3>1, <3>2 DEF step
  <2> QED BY <2>1, <2>2, <1>1 DEF FoldOver
<1> DEFINE f == CHOOSE f : Iter(f)
<1>4. Iter(f)
  <2> HIDE DEF Iter
  <2> QED BY <1>3
<1>5. ExpandDatasetIds(seq) = f[1 .. n]
  BY <1>1 DEF FoldLeft, MapThenFoldSet, ExpandDatasetIds
<1> HIDE DEF f
<1>6. \A k \in 1 .. n : f[1 .. k] = PushExpanded(f[1 .. (k - 1)], seq[k])
  <2> SUFFICES ASSUME NEW k \in 1 .. n PROVE f[1 .. k] = PushExpanded(f[1 .. (k - 1)], seq[k])
    OBVIOUS
  <2> HIDE DEF n
  <2>1. k \in Nat /\ k # 0 /\ 1 .. k \in SUBSET DOMAIN seq
    BY <1>1
  <2>2. Max(1 .. k) = k /\ (1 .. k) \ {Max(1 .. k)} = 1 .. (k - 1) /\ 1 .. k # {}
    BY <2>1, MaxInterval
  <2> QED BY <1>4, <2>1, <2>2
<1>7. f[1 .. 0] = base
  <2>1. 1 .. 0 = {} /\ 1 .. 0 \in SUBSET DOMAIN seq
    OBVIOUS
  <2> HIDE DEF n
  <2> QED BY <1>4, <2>1
<1>8. \A k \in 0 .. n : f[1 .. k] \in V
  <2> DEFINE M == {k \in 0 .. n : f[1 .. k] \in V}
  <2> HIDE DEF n
  <2>1. 0 \in M
    BY <1>1, <1>7
  <2>2. ASSUME NEW k \in 1 .. n, k - 1 \in M PROVE k \in M
    BY <2>2, <1>1, <1>6
  <2> HIDE DEF M
  <2>3. 0 .. n \subseteq M
    BY <1>1, <2>1, <2>2, IntervalInduction
  <2> QED BY <2>3 DEF M
<1> DEFINE g == [k \in 0 .. n |-> f[1 .. k]]
<1>9. /\ g \in [0 .. n -> V]
      /\ g[0] = base
      /\ \A k \in 1 .. n : g[k] = PushExpanded(g[k - 1], seq[k])
      /\ ExpandDatasetIds(seq) = g[n]
  <2> HIDE DEF n
  <2> QED BY <1>1, <1>5, <1>6, <1>7, <1>8
<1> QED BY <1>9

(* The scan roots of a selection are built up dataset by dataset. *)
LEMMA FoldScanRoots ==
  ASSUME NEW V, NEW T, NEW base \in V, base = << >>, NEW seq \in Seq(T),
         \A v \in V, x \in T : PushRoots(v, x) \in V
  PROVE  \E g \in [0 .. Len(seq) -> V] :
           /\ g[0] = base
           /\ \A k \in 1 .. Len(seq) : g[k] = PushRoots(g[k - 1], seq[k])
           /\ ScanRoots(seq) = g[Len(seq)]
<1> DEFINE n == Len(seq)
           step == [p \in V \X (1 .. n) |-> PushRoots(p[1], seq[p[2]])]
           Iter(f) == f = [s \in SUBSET DOMAIN seq |->
                            IF s = {} THEN << >> ELSE PushRoots(f[s \ {Max(s)}], seq[Max(s)])]
<1>1. n \in Nat /\ DOMAIN seq = 1 .. n /\ \A k \in 1 .. n : seq[k] \in T
  OBVIOUS
<1>2. step \in [V \X (1 .. n) -> V]
  <2> HIDE DEF n
  <2> QED BY <1>1
<1>3. \E f : Iter(f)
  <2> HIDE DEF n, step
  <2>1. PICK f : FoldOver(n, base, step, V, f)
    BY <1>1, <1>2, FoldExists
  <2>2. ASSUME NEW s \in SUBSET (1 .. n), s # {}
        PROVE  f[s] = PushRoots(f[s \ {Max(s)}], seq[Max(s)])
    <3>1. Max(s) \in 1 .. n /\ f[s] = step[<<f[s \ {Max(s)}], Max(s)>>]
      BY <2>1, <2>2 DEF FoldOver
    <3>2. f[s \ {Max(s)}] \in V
      BY <2>1 DEF FoldOver
    <3> QED BY <3>1, <3>2 DEF step
  <2> QED BY <2>1, <2>2, <1>1 DEF FoldOver
<1> DEFINE f == CHOOSE f : Iter(f)
<1>4. Iter(f)
  <2> HIDE DEF Iter
  <2> QED BY <1>3
<1>5. ScanRoots(seq) = f[1 .. n]
  BY <1>1 DEF FoldLeft, MapThenFoldSet, ScanRoots
<1> HIDE DEF f
<1>6. \A k \in 1 .. n : f[1 .. k] = PushRoots(f[1 .. (k - 1)], seq[k])
  <2> SUFFICES ASSUME NEW k \in 1 .. n PROVE f[1 .. k] = PushRoots(f[1 .. (k - 1)], seq[k])
    OBVIOUS
  <2> HIDE DEF n
  <2>1. k \in Nat /\ k # 0 /\ 1 .. k \in SUBSET DOMAIN seq
    BY <1>1
  <2>2. Max(1 .. k) = k /\ (1 .. k) \ {Max(1 .. k)} = 1 .. (k - 1) /\ 1 .. k # {}
    BY <2>1, MaxInterval
  <2> QED BY <1>4, <2>1, <2>2
<1>7. f[1 .. 0] = base
  <2>1. 1 .. 0 = {} /\ 1 .. 0 \in SUBSET DOMAIN seq
    OBVIOUS
  <2> HIDE DEF n
  <2> QED BY <1>4, <2>1
<1>8. \A k \in 0 .. n : f[1 .. k] \in V
  <2> DEFINE M == {k \in 0 .. n : f[1 .. k] \in V}
  <2> HIDE DEF n
  <2>1. 0 \in M
    BY <1>1, <1>7
  <2>2. ASSUME NEW k \in 1 .. n, k - 1 \in M PROVE k \in M
    BY <2>2, <1>1, <1>6
  <2> HIDE DEF M
  <2>3. 0 .. n \subseteq M
    BY <1>1, <2>1, <2>2, IntervalInduction
  <2> QED BY <2>3 DEF M
<1> DEFINE g == [k \in 0 .. n |-> f[1 .. k]]
<1>9. /\ g \in [0 .. n -> V]
      /\ g[0] = base
      /\ \A k \in 1 .. n : g[k] = PushRoots(g[k - 1], seq[k])
      /\ ScanRoots(seq) = g[n]
  <2> HIDE DEF n
  <2> QED BY <1>1, <1>5, <1>6, <1>7, <1>8
<1> QED BY <1>9

(* The datasets of one profile are pushed one by one. *)
LEMMA FoldPushExpanded ==
  ASSUME NEW V, NEW T, NEW base \in V, NEW id, Expansion(id) \in Seq(T),
         \A v \in V, x \in T : PushUnique(v, x) \in V
  PROVE  \E g \in [0 .. Len(Expansion(id)) -> V] :
           /\ g[0] = base
           /\ \A k \in 1 .. Len(Expansion(id)) : g[k] = PushUnique(g[k - 1], Expansion(id)[k])
           /\ PushExpanded(base, id) = g[Len(Expansion(id))]
<1> DEFINE seq == Expansion(id)
<1>0. seq \in Seq(T)
  OBVIOUS
<1> HIDE DEF seq
<1> DEFINE n == Len(seq)
           step == [p \in V \X (1 .. n) |-> PushUnique(p[1], seq[p[2]])]
           Iter(f) == f = [s \in SUBSET DOMAIN seq |->
                            IF s = {} THEN base ELSE PushUnique(f[s \ {Max(s)}], seq[Max(s)])]
<1>1. n \in Nat /\ DOMAIN seq = 1 .. n /\ \A k \in 1 .. n : seq[k] \in T
  BY <1>0
<1>2. step \in [V \X (1 .. n) -> V]
  <2> HIDE DEF n
  <2> QED BY <1>1
<1>3. \E f : Iter(f)
  <2> HIDE DEF n, step
  <2>1. PICK f : FoldOver(n, base, step, V, f)
    BY <1>1, <1>2, FoldExists
  <2>2. ASSUME NEW s \in SUBSET (1 .. n), s # {}
        PROVE  f[s] = PushUnique(f[s \ {Max(s)}], seq[Max(s)])
    <3>1. Max(s) \in 1 .. n /\ f[s] = step[<<f[s \ {Max(s)}], Max(s)>>]
      BY <2>1, <2>2 DEF FoldOver
    <3>2. f[s \ {Max(s)}] \in V
      BY <2>1 DEF FoldOver
    <3> QED BY <3>1, <3>2 DEF step
  <2> QED BY <2>1, <2>2, <1>1 DEF FoldOver
<1> DEFINE f == CHOOSE f : Iter(f)
<1>4. Iter(f)
  <2> HIDE DEF Iter
  <2> QED BY <1>3
<1>5. PushExpanded(base, id) = f[1 .. n]
  BY <1>1 DEF seq, FoldLeft, MapThenFoldSet, PushExpanded, Expansion
<1> HIDE DEF f
<1>6. \A k \in 1 .. n : f[1 .. k] = PushUnique(f[1 .. (k - 1)], seq[k])
  <2> SUFFICES ASSUME NEW k \in 1 .. n PROVE f[1 .. k] = PushUnique(f[1 .. (k - 1)], seq[k])
    OBVIOUS
  <2> HIDE DEF n
  <2>1. k \in Nat /\ k # 0 /\ 1 .. k \in SUBSET DOMAIN seq
    BY <1>1
  <2>2. Max(1 .. k) = k /\ (1 .. k) \ {Max(1 .. k)} = 1 .. (k - 1) /\ 1 .. k # {}
    BY <2>1, MaxInterval
  <2> QED BY <1>4, <2>1, <2>2
<1>7. f[1 .. 0] = base
  <2>1. 1 .. 0 = {} /\ 1 .. 0 \in SUBSET DOMAIN seq
    OBVIOUS
  <2> HIDE DEF n
  <2> QED BY <1>4, <2>1
<1>8. \A k \in 0 .. n : f[1 .. k] \in V
  <2> DEFINE M == {k \in 0 .. n : f[1 .. k] \in V}
  <2> HIDE DEF n
  <2>1. 0 \in M
    BY <1>1, <1>7
  <2>2. ASSUME NEW k \in 1 .. n, k - 1 \in M PROVE k \in M
    BY <2>2, <1>1, <1>6
  <2> HIDE DEF M
  <2>3. 0 .. n \subseteq M
    BY <1>1, <2>1, <2>2, IntervalInduction
  <2> QED BY <2>3 DEF M
<1> DEFINE g == [k \in 0 .. n |-> f[1 .. k]]
<1>9. /\ g \in [0 .. n -> V]
      /\ g[0] = base
      /\ \A k \in 1 .. n : g[k] = PushUnique(g[k - 1], seq[k])
      /\ PushExpanded(base, id) = g[n]
  <2> HIDE DEF n
  <2> QED BY <1>1, <1>5, <1>6, <1>7, <1>8
<1> QED BY <1>9 DEF seq

-----------------------------------------------------------------------------
(* The catalog and the scan roots of a selection. *)

(* A prefix, item by item. *)
LEMMA PrefixIff ==
  ASSUME NEW S, NEW s \in Seq(S), NEW t \in Seq(S)
  PROVE  IsPrefix(s, t) <=> Len(s) <= Len(t) /\ \A i \in 1 .. Len(s) : s[i] = t[i]
<1>1. ASSUME IsPrefix(s, t), NEW i \in 1 .. Len(s) PROVE s[i] = t[i]
  <2>1. SubSeq(s, 1, Len(s))[i] = s[i]
    BY <1>1
  <2>2. SubSeq(t, 1, Len(s))[i] = t[i]
    BY <1>1 DEF IsPrefix
  <2> QED BY <2>1, <2>2, <1>1 DEF IsPrefix
<1>2. ASSUME Len(s) <= Len(t), \A i \in 1 .. Len(s) : s[i] = t[i] PROVE IsPrefix(s, t)
  BY <1>2 DEF IsPrefix
<1> QED BY <1>1, <1>2 DEF IsPrefix

Ids == {"settings_core", "secrets_api_keys", "chat_character_history", "character_avatars",
        "user_files", "extensions_third_party", "extensions_sources", "extensions_databases",
        "agent_persistent_state", "agent_run_journal", "agent_run_context",
        "agent_model_responses"}

RootNames ==
  {<<"default-user", "chats">>, <<"default-user", "UserAvatars">>,
   <<"default-user", "user", "files">>, <<"extensions", "third-party">>,
   <<"_tauritavern", "extension-sources", "local">>,
   <<"_tauritavern", "extension-sources", "global">>,
   <<"_tauritavern", "databases">>, <<"_tauritavern", "agent-workspaces", "chats">>,
   <<"_tauritavern", "agent-workspaces", "index", "runs">>}

Path == Seq(STRING)
(* The datasets of the catalog. *)
LEMMA IdsAre == DOMAIN DATASETS = Ids
  BY DEF DATASETS, Ids

(* The scan roots are sequences of strings. *)
LEMMA RootsTyped == RootNames \subseteq Seq(STRING)
<1>1. <<"default-user", "chats">> \in Seq(STRING)
  <2>1. "default-user" \in STRING /\ "chats" \in STRING
    BY LiteralsAssumption
  <2> QED BY <2>1
<1>2. <<"default-user", "UserAvatars">> \in Seq(STRING)
  <2>1. "default-user" \in STRING /\ "UserAvatars" \in STRING
    BY LiteralsAssumption
  <2> QED BY <2>1
<1>3. <<"default-user", "user", "files">> \in Seq(STRING)
  <2>1. "default-user" \in STRING /\ "user" \in STRING /\ "files" \in STRING
    BY LiteralsAssumption
  <2> QED BY <2>1
<1>4. <<"extensions", "third-party">> \in Seq(STRING)
  <2>1. "extensions" \in STRING /\ "third-party" \in STRING
    BY LiteralsAssumption
  <2> QED BY <2>1
<1>5. <<"_tauritavern", "extension-sources", "local">> \in Seq(STRING)
  <2>1. "_tauritavern" \in STRING /\ "extension-sources" \in STRING /\ "local" \in STRING
    BY LiteralsAssumption
  <2> QED BY <2>1
<1>6. <<"_tauritavern", "extension-sources", "global">> \in Seq(STRING)
  <2>1. "_tauritavern" \in STRING /\ "extension-sources" \in STRING /\ "global" \in STRING
    BY LiteralsAssumption
  <2> QED BY <2>1
<1>7. <<"_tauritavern", "databases">> \in Seq(STRING)
  <2>1. "_tauritavern" \in STRING /\ "databases" \in STRING
    BY LiteralsAssumption
  <2> QED BY <2>1
<1>8. <<"_tauritavern", "agent-workspaces", "chats">> \in Seq(STRING)
  <2>1. "_tauritavern" \in STRING /\ "agent-workspaces" \in STRING /\ "chats" \in STRING
    BY LiteralsAssumption
  <2> QED BY <2>1
<1>9. <<"_tauritavern", "agent-workspaces", "index", "runs">> \in Seq(STRING)
  <2>1. "_tauritavern" \in STRING /\ "agent-workspaces" \in STRING /\ "index" \in STRING /\ "runs" \in STRING
    BY LiteralsAssumption
  <2> QED BY <2>1
<1> QED BY <1>1, <1>2, <1>3, <1>4, <1>5, <1>6, <1>7, <1>8, <1>9 DEF RootNames

(* A scan root has two to four components. *)
LEMMA RootCases ==
  ASSUME NEW r \in RootNames
  PROVE  \/ Len(r) = 2 /\ r[1] = "default-user" /\ r[2] \in {"chats", "UserAvatars"}
         \/ Len(r) = 2 /\ r[1] = "extensions" /\ r[2] = "third-party"
         \/ Len(r) = 2 /\ r[1] = "_tauritavern" /\ r[2] = "databases"
         \/ Len(r) = 3 /\ r[1] = "default-user" /\ r[2] = "user" /\ r[3] = "files"
         \/ /\ Len(r) = 3 /\ r[1] = "_tauritavern" /\ r[2] = "extension-sources"
            /\ r[3] \in {"local", "global"}
         \/ Len(r) = 3 /\ r[1] = "_tauritavern" /\ r[2] = "agent-workspaces" /\ r[3] = "chats"
         \/ /\ Len(r) = 4 /\ r[1] = "_tauritavern" /\ r[2] = "agent-workspaces"
            /\ r[3] = "index" /\ r[4] = "runs"
  BY DEF RootNames

(* No scan root lies under another one. *)
LEMMA RootsBeside ==
  ASSUME NEW r \in RootNames, NEW s \in RootNames, IsPrefix(r, s)
  PROVE  r = s
<1>1. r \in Seq(STRING) /\ s \in Seq(STRING)
  BY RootsTyped
<1>2. Len(r) <= Len(s) /\ \A i \in 1 .. Len(r) : r[i] = s[i]
  BY <1>1, PrefixIff
<1>3. Len(r) \in 2 .. 4
  BY RootCases
<1>4. r[1] = s[1] /\ r[2] = s[2] /\ (Len(r) > 2 => r[3] = s[3])
  BY <1>2, <1>3
<1>5. Len(r) = Len(s)
  <2>1. CASE r[1] = "default-user"
    BY <2>1, <1>3, <1>4, RootCases
  <2>2. CASE r[1] = "extensions"
    BY <2>2, <1>3, <1>4, RootCases
  <2>3. CASE r[1] = "_tauritavern"
    BY <2>3, <1>3, <1>4, RootCases
  <2> QED BY <2>1, <2>2, <2>3, RootCases
<1> QED BY <1>1, <1>2, <1>5, SeqEqual

(* The scan roots of a dataset are roots of the catalog. *)
LEMMA DatasetRoots ==
  ASSUME NEW id \in Ids
  PROVE  DATASETS[id].scan_roots \in Seq(RootNames)
<1>1. /\ DATASETS["settings_core"].scan_roots = << >>
      /\ DATASETS["secrets_api_keys"].scan_roots = << >>
      /\ DATASETS["chat_character_history"].scan_roots = <<<<"default-user", "chats">>>>
      /\ DATASETS["character_avatars"].scan_roots = <<<<"default-user", "UserAvatars">>>>
      /\ DATASETS["user_files"].scan_roots = <<<<"default-user", "user", "files">>>>
  BY DEF DATASETS, Dirs, Dataset
<1>2. /\ DATASETS["extensions_third_party"].scan_roots = <<<<"extensions", "third-party">>>>
      /\ DATASETS["extensions_sources"].scan_roots =
           <<<<"_tauritavern", "extension-sources", "local">>,
             <<"_tauritavern", "extension-sources", "global">>>>
      /\ DATASETS["extensions_databases"].scan_roots = <<DatabaseRoot>>
      /\ DATASETS["agent_persistent_state"].scan_roots = <<Chats>>
      /\ DATASETS["agent_run_journal"].scan_roots = <<RunIndex, Chats>>
      /\ DATASETS["agent_run_context"].scan_roots = <<Chats>>
      /\ DATASETS["agent_model_responses"].scan_roots = <<Chats>>
  BY DEF DATASETS, Dirs, Dataset
<1>3. DatabaseRoot \in RootNames /\ Chats \in RootNames /\ RunIndex \in RootNames
  BY DEF RootNames, DatabaseRoot, Chats, RunIndex
<1>4. /\ <<"default-user", "chats">> \in RootNames /\ <<"default-user", "UserAvatars">> \in RootNames
      /\ <<"default-user", "user", "files">> \in RootNames
      /\ <<"extensions", "third-party">> \in RootNames
      /\ <<"_tauritavern", "extension-sources", "local">> \in RootNames
      /\ <<"_tauritavern", "extension-sources", "global">> \in RootNames
  BY DEF RootNames
<1>5. /\ << >> \in Seq(RootNames)
      /\ \A r \in RootNames : <<r>> \in Seq(RootNames)
      /\ \A r, s \in RootNames : <<r, s>> \in Seq(RootNames)
  OBVIOUS
<1> HIDE DEF Ids
<1>6. /\ DATASETS["settings_core"].scan_roots \in Seq(RootNames)
      /\ DATASETS["secrets_api_keys"].scan_roots \in Seq(RootNames)
      /\ DATASETS["chat_character_history"].scan_roots \in Seq(RootNames)
      /\ DATASETS["character_avatars"].scan_roots \in Seq(RootNames)
      /\ DATASETS["user_files"].scan_roots \in Seq(RootNames)
  BY <1>1, <1>4, <1>5
<1>7. /\ DATASETS["extensions_third_party"].scan_roots \in Seq(RootNames)
      /\ DATASETS["extensions_sources"].scan_roots \in Seq(RootNames)
      /\ DATASETS["extensions_databases"].scan_roots \in Seq(RootNames)
      /\ DATASETS["agent_persistent_state"].scan_roots \in Seq(RootNames)
      /\ DATASETS["agent_run_journal"].scan_roots \in Seq(RootNames)
      /\ DATASETS["agent_run_context"].scan_roots \in Seq(RootNames)
      /\ DATASETS["agent_model_responses"].scan_roots \in Seq(RootNames)
  BY <1>2, <1>3, <1>4, <1>5
<1> QED BY <1>6, <1>7 DEF Ids

(* Retain keeps every root that is not under the new one. *)
LEMMA RetainAll ==
  ASSUME NEW T, NEW seq \in Seq(T), NEW r, \A x \in T : ~IsStrictPrefix(r, x)
  PROVE  Retain(seq, r) = seq
<1>1. \A v \in Seq(T), x \in T : RetainRoot(v, x, r) = Append(v, x) /\ Append(v, x) \in Seq(T)
  BY DEF RetainRoot
<1>2. << >> \in Seq(T)
  OBVIOUS
<1>3. PICK g \in [0 .. Len(seq) -> Seq(T)] :
        /\ g[0] = << >>
        /\ \A k \in 1 .. Len(seq) : g[k] = RetainRoot(g[k - 1], seq[k], r)
        /\ Retain(seq, r) = g[Len(seq)]
  BY FoldRetain, ZenonT(60)
<1> DEFINE n == Len(seq)
           M == {k \in 0 .. n : Len(g[k]) = k /\ \A i \in 1 .. k : g[k][i] = seq[i]}
<1>4. n \in Nat
  OBVIOUS
<1>5. 0 \in M
  BY <1>3
<1>6. ASSUME NEW k \in 1 .. n, k - 1 \in M PROVE k \in M
  <2>1. g[k - 1] \in Seq(T) /\ seq[k] \in T
    BY <1>3
  <2>2. g[k] = Append(g[k - 1], seq[k])
    BY <1>1, <1>3, <2>1
  <2>3. Len(g[k - 1]) = k - 1 /\ \A i \in 1 .. k - 1 : g[k - 1][i] = seq[i]
    BY <1>6
  <2> QED BY <2>1, <2>2, <2>3, SMTT(40)
<1>7. 0 .. n \subseteq M
  <2> HIDE DEF n, M
  <2> QED BY <1>4, <1>5, <1>6, IntervalInduction
<1>8. g[n] \in Seq(T) /\ Len(g[n]) = n /\ \A i \in 1 .. n : g[n][i] = seq[i]
  BY <1>3, <1>4, <1>7
<1> QED BY <1>3, <1>8, SeqEqual

(* Sequences of scan roots, each root once. *)
RootSeqs == {s \in Seq(RootNames) : \A i, j \in DOMAIN s : s[i] = s[j] => i = j}

(* A root that is pushed is there afterwards, once, and none is lost. *)
LEMMA PushCompactRootFacts ==
  ASSUME NEW s \in RootSeqs, NEW r \in RootNames
  PROVE  /\ PushCompactRoot(s, r) \in RootSeqs
         /\ ToSet(PushCompactRoot(s, r)) = ToSet(s) \cup {r}
<1>1. CASE \E i \in DOMAIN s : s[i] = r
  <2>1. IsPrefix(r, r)
    BY RootsTyped, PrefixIff
  <2>2. PushCompactRoot(s, r) = s
    BY <1>1, <2>1 DEF PushCompactRoot, IsSameOrUnder
  <2> QED BY <1>1, <2>2 DEF ToSet
<1>2. CASE ~\E i \in DOMAIN s : s[i] = r
  <2>1. \A i \in DOMAIN s : ~IsSameOrUnder(r, s[i])
    BY <1>2, RootsBeside DEF IsSameOrUnder, RootSeqs
  <2>2. \A x \in RootNames : ~IsStrictPrefix(r, x)
    BY RootsBeside DEF IsStrictPrefix
  <2>3. s \in Seq(RootNames)
    BY DEF RootSeqs
  <2>4. PushCompactRoot(s, r) = Append(s, r)
    BY <2>1, <2>2, <2>3, RetainAll DEF PushCompactRoot
  <2> DEFINE t == Append(s, r)
  <2>5. /\ t \in Seq(RootNames) /\ DOMAIN t = 1 .. Len(s) + 1 /\ t[Len(s) + 1] = r
        /\ DOMAIN s = 1 .. Len(s) /\ \A i \in 1 .. Len(s) : t[i] = s[i]
        /\ Len(s) \in Nat
    BY <2>3
  <2> HIDE DEF t
  <2>6. t \in RootSeqs
    BY <1>2, <2>5 DEF RootSeqs
  <2>7. ToSet(t) = ToSet(s) \cup {r}
    <3>1. 1 .. Len(s) + 1 = 1 .. Len(s) \cup {Len(s) + 1}
      BY <2>5
    <3> QED BY <2>5, <3>1 DEF ToSet
  <2> QED BY <2>4, <2>6, <2>7 DEF t
<1> QED BY <1>1, <1>2

(* The roots of one dataset are pushed one by one. *)
LEMMA FoldPushRoots ==
  ASSUME NEW base \in RootSeqs, NEW id \in Ids
  PROVE  \E g \in [0 .. Len(DATASETS[id].scan_roots) -> RootSeqs] :
           /\ g[0] = base
           /\ \A k \in 1 .. Len(DATASETS[id].scan_roots) :
                g[k] = PushCompactRoot(g[k - 1], DATASETS[id].scan_roots[k])
           /\ PushRoots(base, id) = g[Len(DATASETS[id].scan_roots)]
<1> DEFINE V == RootSeqs
           T == RootNames
<1>a. base \in V /\ \A v \in V, x \in T : PushCompactRoot(v, x) \in V
  BY PushCompactRootFacts
<1> DEFINE seq == DATASETS[id].scan_roots
<1>0. seq \in Seq(T)
  BY DatasetRoots
<1> HIDE DEF V, T
<1> HIDE DEF seq
<1> DEFINE n == Len(seq)
           step == [p \in V \X (1 .. n) |-> PushCompactRoot(p[1], seq[p[2]])]
           Iter(f) == f = [s \in SUBSET DOMAIN seq |->
                            IF s = {} THEN base ELSE PushCompactRoot(f[s \ {Max(s)}], seq[Max(s)])]
<1>1. n \in Nat /\ DOMAIN seq = 1 .. n /\ \A k \in 1 .. n : seq[k] \in T
  BY <1>0
<1>2. step \in [V \X (1 .. n) -> V]
  <2> HIDE DEF n
  <2> QED BY <1>1, <1>a
<1>3. \E f : Iter(f)
  <2> HIDE DEF n, step
  <2>1. PICK f : FoldOver(n, base, step, V, f)
    BY <1>1, <1>2, <1>a, FoldExists
  <2>2. ASSUME NEW s \in SUBSET (1 .. n), s # {}
        PROVE  f[s] = PushCompactRoot(f[s \ {Max(s)}], seq[Max(s)])
    <3>1. Max(s) \in 1 .. n /\ f[s] = step[<<f[s \ {Max(s)}], Max(s)>>]
      BY <2>1, <2>2 DEF FoldOver
    <3>2. f[s \ {Max(s)}] \in V
      BY <2>1 DEF FoldOver
    <3> QED BY <3>1, <3>2 DEF step
  <2> QED BY <2>1, <2>2, <1>1 DEF FoldOver
<1> DEFINE f == CHOOSE f : Iter(f)
<1>4. Iter(f)
  <2> HIDE DEF Iter
  <2> QED BY <1>3
<1>5. PushRoots(base, id) = f[1 .. n]
  BY <1>1 DEF seq, FoldLeft, MapThenFoldSet, PushRoots
<1> HIDE DEF f
<1>6. \A k \in 1 .. n : f[1 .. k] = PushCompactRoot(f[1 .. (k - 1)], seq[k])
  <2> SUFFICES ASSUME NEW k \in 1 .. n PROVE f[1 .. k] = PushCompactRoot(f[1 .. (k - 1)], seq[k])
    OBVIOUS
  <2> HIDE DEF n
  <2>1. k \in Nat /\ k # 0 /\ 1 .. k \in SUBSET DOMAIN seq
    BY <1>1
  <2>2. Max(1 .. k) = k /\ (1 .. k) \ {Max(1 .. k)} = 1 .. (k - 1) /\ 1 .. k # {}
    BY <2>1, MaxInterval
  <2> QED BY <1>4, <2>1, <2>2
<1>7. f[1 .. 0] = base
  <2>1. 1 .. 0 = {} /\ 1 .. 0 \in SUBSET DOMAIN seq
    OBVIOUS
  <2> HIDE DEF n
  <2> QED BY <1>4, <2>1
<1>8. \A k \in 0 .. n : f[1 .. k] \in V
  <2> DEFINE M == {k \in 0 .. n : f[1 .. k] \in V}
  <2> HIDE DEF n
  <2>1. 0 \in M
    BY <1>1, <1>7, <1>a
  <2>2. ASSUME NEW k \in 1 .. n, k - 1 \in M PROVE k \in M
    BY <2>2, <1>1, <1>6, <1>a
  <2> HIDE DEF M
  <2>3. 0 .. n \subseteq M
    BY <1>1, <2>1, <2>2, IntervalInduction
  <2> QED BY <2>3 DEF M
<1> DEFINE g == [k \in 0 .. n |-> f[1 .. k]]
<1>9. /\ g \in [0 .. n -> V]
      /\ g[0] = base
      /\ \A k \in 1 .. n : g[k] = PushCompactRoot(g[k - 1], seq[k])
      /\ PushRoots(base, id) = g[n]
  <2> HIDE DEF n
  <2> QED BY <1>1, <1>5, <1>6, <1>7, <1>8
<1> QED BY <1>9 DEF seq, V

(* Pushing the roots of a dataset keeps the others and adds its own. *)
LEMMA PushRootsFacts ==
  ASSUME NEW s \in RootSeqs, NEW id \in Ids
  PROVE  /\ PushRoots(s, id) \in RootSeqs
         /\ ToSet(s) \cup ToSet(DATASETS[id].scan_roots) \subseteq ToSet(PushRoots(s, id))
<1> DEFINE seq == DATASETS[id].scan_roots
           n == Len(seq)
<1>1. seq \in Seq(RootNames)
  BY DatasetRoots
<1>2. \A v \in RootSeqs, x \in RootNames : PushCompactRoot(v, x) \in RootSeqs
  BY PushCompactRootFacts
<1>3. PICK g \in [0 .. n -> RootSeqs] :
        /\ g[0] = s
        /\ \A k \in 1 .. n : g[k] = PushCompactRoot(g[k - 1], seq[k])
        /\ PushRoots(s, id) = g[n]
  BY FoldPushRoots
<1> HIDE DEF seq
<1>4. n \in Nat /\ DOMAIN seq = 1 .. n /\ \A k \in 1 .. n : seq[k] \in RootNames
  BY <1>1
<1> HIDE DEF n
<1> DEFINE M == {k \in 0 .. n : /\ ToSet(s) \subseteq ToSet(g[k])
                                /\ \A i \in 1 .. k : seq[i] \in ToSet(g[k])}
<1>5. 0 \in M
  BY <1>3, <1>4
<1>6. ASSUME NEW k \in 1 .. n, k - 1 \in M PROVE k \in M
  <2>1. g[k - 1] \in RootSeqs /\ seq[k] \in RootNames
    BY <1>3, <1>4
  <2>2. ToSet(g[k]) = ToSet(g[k - 1]) \cup {seq[k]}
    BY <1>3, <2>1, PushCompactRootFacts
  <2> QED BY <1>4, <1>6, <2>2
<1>7. 0 .. n \subseteq M
  <2> HIDE DEF M
  <2> QED BY <1>4, <1>5, <1>6, IntervalInduction
<1>8. ToSet(s) \cup ToSet(seq) \subseteq ToSet(g[n])
  <2>1. n \in M
    BY <1>4, <1>7
  <2>2. ToSet(seq) = {seq[i] : i \in 1 .. n}
    BY <1>4 DEF ToSet
  <2> QED BY <2>1, <2>2
<1> QED BY <1>3, <1>4, <1>8 DEF seq

(* The scan roots of a selection are those of its datasets, each once. *)
LEMMA ScanRootsFacts ==
  ASSUME NEW ids \in Seq(Ids)
  PROVE  /\ ScanRoots(ids) \in RootSeqs
         /\ \A id \in ToSet(ids) : ToSet(DATASETS[id].scan_roots) \subseteq ToSet(ScanRoots(ids))
<1> DEFINE n == Len(ids)
<1>1. \A v \in RootSeqs, x \in Ids : PushRoots(v, x) \in RootSeqs
  BY PushRootsFacts
<1>2. << >> \in RootSeqs
  BY DEF RootSeqs
<1>3. PICK g \in [0 .. n -> RootSeqs] :
        /\ g[0] = << >>
        /\ \A k \in 1 .. n : g[k] = PushRoots(g[k - 1], ids[k])
        /\ ScanRoots(ids) = g[n]
  BY <1>1, <1>2, FoldScanRoots
<1>4. n \in Nat /\ DOMAIN ids = 1 .. n /\ \A k \in 1 .. n : ids[k] \in Ids
  OBVIOUS
<1> HIDE DEF n
<1> DEFINE M == {k \in 0 .. n :
                  \A i \in 1 .. k : ToSet(DATASETS[ids[i]].scan_roots) \subseteq ToSet(g[k])}
<1>5. 0 \in M
  BY <1>3, <1>4
<1>6. ASSUME NEW k \in 1 .. n, k - 1 \in M PROVE k \in M
  <2>1. g[k - 1] \in RootSeqs /\ ids[k] \in Ids
    BY <1>3, <1>4
  <2>2. ToSet(g[k - 1]) \cup ToSet(DATASETS[ids[k]].scan_roots) \subseteq ToSet(g[k])
    BY <1>3, <2>1, PushRootsFacts
  <2> QED BY <1>4, <1>6, <2>2
<1>7. 0 .. n \subseteq M
  <2> HIDE DEF M
  <2> QED BY <1>4, <1>5, <1>6, IntervalInduction
<1>8. n \in M /\ ToSet(ids) = {ids[i] : i \in 1 .. n}
  BY <1>4, <1>7 DEF ToSet
<1> QED BY <1>3, <1>4, <1>8

ProfileIds == {"tauritavern_default", "tauritavern_full", "agent_run_history_full"}

(* A profile names datasets of the catalog only. *)
LEMMA ProfileDatasets ==
  /\ DOMAIN PROFILES = ProfileIds
  /\ \A id \in ProfileIds : PROFILES[id] \in Seq(Ids)
<1>1. DefaultDatasets \in Seq(Ids)
  BY DEF DefaultDatasets, Ids
<1>2. FullExtraDatasets \in Seq(Ids)
  BY DEF FullExtraDatasets, Ids
<1>3. <<"agent_run_journal", "agent_run_context", "agent_model_responses">> \in Seq(Ids)
  BY DEF Ids
<1>4. DefaultDatasets \o FullExtraDatasets \in Seq(Ids)
  BY <1>1, <1>2
<1> QED BY <1>1, <1>3, <1>4 DEF PROFILES, ProfileIds

(* A valid selection expands to datasets of the catalog. *)
LEMMA ExpandedTyped ==
  ASSUME NEW ids \in Seq(ProfileIds \cup Ids)
  PROVE  ExpandDatasetIds(ids) \in Seq(Ids)
<1> DEFINE V == Seq(Ids)
<1>1. \A v \in V, x \in Ids : PushUnique(v, x) \in V
  BY DEF PushUnique
<1>2. << >> \in V
  OBVIOUS
<1>3. ASSUME NEW v \in V, NEW x \in ProfileIds \cup Ids
      PROVE  PushExpanded(v, x) \in V
  <2>1. Expansion(x) \in Seq(Ids)
    BY ProfileDatasets DEF Expansion
  <2> HIDE DEF V
  <2>2. PICK g \in [0 .. Len(Expansion(x)) -> V] :
          PushExpanded(v, x) = g[Len(Expansion(x))]
    BY <1>1, <2>1, FoldPushExpanded
  <2> QED BY <2>1, <2>2
<1> HIDE DEF V
<1>4. PICK g \in [0 .. Len(ids) -> V] : ExpandDatasetIds(ids) = g[Len(ids)]
  BY <1>2, <1>3, FoldExpandDatasetIds
<1> QED BY <1>4 DEF V

-----------------------------------------------------------------------------
(* Prefixes and rules. *)

(* Every sequence is a prefix of itself. *)
LEMMA PrefixOfSelf ==
  ASSUME NEW S, NEW s \in Seq(S)
  PROVE  IsPrefix(s, s)
  BY PrefixIff

(* Prefixes of prefixes are prefixes. *)
LEMMA PrefixTransitive ==
  ASSUME NEW S, NEW s \in Seq(S), NEW t \in Seq(S), NEW u \in Seq(S),
         IsPrefix(s, t), IsPrefix(t, u)
  PROVE  IsPrefix(s, u)
<1>1. Len(s) <= Len(t) /\ \A i \in 1 .. Len(s) : s[i] = t[i]
  BY PrefixIff
<1>2. Len(t) <= Len(u) /\ \A i \in 1 .. Len(t) : t[i] = u[i]
  BY PrefixIff
<1>3. Len(s) <= Len(u) /\ \A i \in 1 .. Len(s) : s[i] = u[i]
  BY <1>1, <1>2
<1> QED BY <1>3, PrefixIff

(* Of two prefixes of one sequence the shorter is a prefix of the longer. *)
LEMMA PrefixesOfOne ==
  ASSUME NEW S, NEW s \in Seq(S), NEW t \in Seq(S), NEW u \in Seq(S),
         IsPrefix(s, u), IsPrefix(t, u)
  PROVE  Len(s) <= Len(t) => IsPrefix(s, t)
<1>1. Len(s) <= Len(u) /\ \A i \in 1 .. Len(s) : s[i] = u[i]
  BY PrefixIff
<1>2. Len(t) <= Len(u) /\ \A i \in 1 .. Len(t) : t[i] = u[i]
  BY PrefixIff
<1>3. Len(s) <= Len(t) => \A i \in 1 .. Len(s) : s[i] = t[i]
  BY <1>1, <1>2
<1> QED BY <1>3, PrefixIff

(* A prefix of the same length is the sequence. *)
LEMMA PrefixSameLength ==
  ASSUME NEW S, NEW s \in Seq(S), NEW t \in Seq(S), IsPrefix(s, t), Len(s) = Len(t)
  PROVE  s = t
<1>1. \A i \in 1 .. Len(s) : s[i] = t[i]
  BY PrefixIff
<1> QED BY <1>1, SeqEqual

(* The rules of the catalog. *)
RuleSet ==
  {Prefix(dir) : dir \in RootNames} \cup
  {Database, AgentWorkspaceComponent("persistent-states")} \cup
  {AgentRunFile(name) : name \in {"run.json", "events.jsonl", "manifest.json"}} \cup
  {AgentRunComponent(name) : name \in {"input", "model-responses"}}

RootOf(r) ==
  CASE r.rule = "Prefix" -> r.dir
    [] r.rule = "Database" -> DatabaseRoot
    [] OTHER -> Chats

(* The rules of a dataset are below one of its scan roots. *)
LEMMA RulesAre ==
  ASSUME NEW id \in Ids, NEW r \in DATASETS[id].rules
  PROVE  r \in RuleSet /\ RootOf(r) \in ToSet(DATASETS[id].scan_roots)
<1> DEFINE DirIds == {"settings_core", "secrets_api_keys", "chat_character_history",
                      "character_avatars", "user_files", "extensions_third_party",
                      "extensions_sources"}
<1>1. CASE id \in DirIds
  <2>1. PICK rs, fs : DATASETS[id] = Dirs(rs, fs)
    <3>1. CASE id \in {"settings_core", "secrets_api_keys"}
      BY <3>1 DEF DATASETS
    <3>2. CASE id = "chat_character_history"
      BY <3>2 DEF DATASETS
    <3>3. CASE id = "character_avatars"
      BY <3>3 DEF DATASETS
    <3>4. CASE id = "user_files"
      BY <3>4 DEF DATASETS
    <3>5. CASE id = "extensions_third_party"
      BY <3>5 DEF DATASETS
    <3>6. CASE id = "extensions_sources"
      BY <3>6 DEF DATASETS
    <3> QED BY <1>1, <3>1, <3>2, <3>3, <3>4, <3>5, <3>6
  <2>0. DATASETS[id].rules = {Prefix(dir) : dir \in ToSet(DATASETS[id].scan_roots)}
    BY <2>1 DEF Dirs, Dataset
  <2>2. PICK dir \in ToSet(DATASETS[id].scan_roots) : r = Prefix(dir)
    BY <2>0
  <2>3. dir \in RootNames
    BY DatasetRoots DEF ToSet
  <2>4. RootOf(r) = dir
    BY <2>2 DEF RootOf, Prefix
  <2> QED BY <2>2, <2>3, <2>4 DEF RuleSet
<1>2. CASE id = "extensions_databases"
  <2>1. DATASETS[id] = Dataset(<<DatabaseRoot>>, {}, {Database})
    BY <1>2 DEF DATASETS
  <2> QED BY <2>1 DEF Dataset, Database, RuleSet, RootOf, ToSet
<1>3. CASE id = "agent_persistent_state"
  <2>1. DATASETS[id] = Dataset(<<Chats>>, {}, {AgentWorkspaceComponent("persistent-states")})
    BY <1>3 DEF DATASETS
  <2> QED BY <2>1 DEF Dataset, AgentWorkspaceComponent, RuleSet, RootOf, ToSet
<1>4. CASE id = "agent_run_journal"
  <2>1. DATASETS[id] = Dataset(<<RunIndex, Chats>>, {},
            {Prefix(RunIndex), AgentRunFile("run.json"), AgentRunFile("events.jsonl")})
    BY <1>4 DEF DATASETS
  <2>2. RunIndex \in RootNames
    BY DEF RunIndex, RootNames
  <2>3. ToSet(DATASETS[id].scan_roots) = {RunIndex, Chats}
    BY <2>1 DEF Dataset, ToSet
  <2>4. r \in {Prefix(RunIndex), AgentRunFile("run.json"), AgentRunFile("events.jsonl")}
    BY <2>1 DEF Dataset
  <2>5. r \in RuleSet
    BY <2>2, <2>4 DEF RuleSet
  <2>6. RootOf(r) \in {RunIndex, Chats}
    BY <2>4 DEF RootOf, Prefix, AgentRunFile
  <2> QED BY <2>3, <2>5, <2>6
<1>5. CASE id = "agent_run_context"
  <2>1. DATASETS[id] = Dataset(<<Chats>>, {}, {AgentRunFile("manifest.json"), AgentRunComponent("input")})
    BY <1>5 DEF DATASETS
  <2> QED BY <2>1 DEF Dataset, AgentRunFile, AgentRunComponent, RuleSet, RootOf, ToSet
<1>6. CASE id = "agent_model_responses"
  <2>1. DATASETS[id] = Dataset(<<Chats>>, {}, {AgentRunComponent("model-responses")})
    BY <1>6 DEF DATASETS
  <2> QED BY <2>1 DEF Dataset, AgentRunComponent, RuleSet, RootOf, ToSet
<1> QED BY <1>1, <1>2, <1>3, <1>4, <1>5, <1>6 DEF Ids

(* What a rule matches lies under the root of the rule. *)
LEMMA MatchesUnderRoot ==
  ASSUME NEW r \in RuleSet, NEW path, Matches(r, path)
  PROVE  IsPrefix(RootOf(r), path)
<1>1. CASE r \in {Prefix(dir) : dir \in RootNames}
  <2>1. r.rule = "Prefix"
    BY <1>1 DEF Prefix
  <2> QED BY <2>1 DEF Matches, RootOf, IsSameOrUnder
<1>2. CASE r = Database
  <2>1. r.rule = "Database"
    BY <1>2 DEF Database
  <2> QED BY <2>1 DEF Matches, RootOf, IsDatabaseFile
<1>3. CASE r = AgentWorkspaceComponent("persistent-states")
  <2>1. r.rule = "AgentWorkspaceComponent"
    BY <1>3 DEF AgentWorkspaceComponent
  <2> QED BY <2>1 DEF Matches, RootOf, IsAgentWorkspacePath
<1>4. CASE r \in {AgentRunFile(name) : name \in {"run.json", "events.jsonl", "manifest.json"}}
  <2>1. r.rule = "AgentRunFile"
    BY <1>4 DEF AgentRunFile
  <2> QED BY <2>1 DEF Matches, RootOf, IsAgentWorkspacePath, IsAgentRunPath
<1>5. CASE r \in {AgentRunComponent(name) : name \in {"input", "model-responses"}}
  <2>1. r.rule = "AgentRunComponent"
    BY <1>5 DEF AgentRunComponent
  <2> QED BY <2>1 DEF Matches, RootOf, IsAgentWorkspacePath, IsAgentRunPath
<1> QED BY <1>1, <1>2, <1>3, <1>4, <1>5 DEF RuleSet

(* The directories the rules are about. *)
LEMMA CatalogTyped ==
  /\ DatabaseRoot \in Seq(STRING) /\ Len(DatabaseRoot) = 2
  /\ Chats \in Seq(STRING) /\ Len(Chats) = 3
  /\ RunIndex \in Seq(STRING) /\ Len(RunIndex) = 4
  BY RootsTyped DEF RootNames, DatabaseRoot, Chats, RunIndex

(* Above a path that lies under a root there are only the directories      *)
(* above the root and those under it.                                      *)
LEMMA AboveOrUnder ==
  ASSUME NEW dir \in Seq(STRING), NEW path \in Seq(STRING), NEW r \in Seq(STRING),
         IsPrefix(dir, path), IsPrefix(r, path)
  PROVE  /\ Len(dir) <= Len(r) => IsPrefix(dir, r)
         /\ Len(r) <= Len(dir) => IsPrefix(r, dir)
  BY PrefixesOfOne

(* A strict prefix is shorter and agrees item by item. *)
LEMMA PrefixItems ==
  ASSUME NEW dir \in Seq(STRING), NEW path \in Seq(STRING), IsStrictPrefix(dir, path)
  PROVE  Len(dir) < Len(path) /\ IsPrefix(dir, path) /\ \A i \in 1 .. Len(dir) : path[i] = dir[i]
<1>1. IsPrefix(dir, path) /\ dir # path
  BY DEF IsStrictPrefix
<1>2. Len(dir) <= Len(path) /\ \A i \in 1 .. Len(dir) : path[i] = dir[i]
  BY <1>1, PrefixIff
<1>3. Len(dir) # Len(path)
  BY <1>1, PrefixSameLength
<1> QED BY <1>1, <1>2, <1>3

(* The items of an appended sequence. *)
LEMMA AppendItems ==
  ASSUME NEW S, NEW s \in Seq(S), NEW x \in S
  PROVE  /\ Append(s, x) \in Seq(S) /\ Len(Append(s, x)) = Len(s) + 1
         /\ Append(s, x)[Len(s) + 1] = x
         /\ \A i \in 1 .. Len(s) : Append(s, x)[i] = s[i]
  OBVIOUS

(* A prefix remains one when something is appended. *)
LEMMA PrefixOfAppend ==
  ASSUME NEW S, NEW s \in Seq(S), NEW t \in Seq(S), NEW x \in S, IsPrefix(s, t)
  PROVE  IsPrefix(s, Append(t, x))
<1>1. Len(s) <= Len(t) /\ \A i \in 1 .. Len(s) : s[i] = t[i]
  BY PrefixIff
<1>2. /\ Append(t, x) \in Seq(S) /\ Len(Append(t, x)) = Len(t) + 1
      /\ \A i \in 1 .. Len(t) : Append(t, x)[i] = t[i]
  BY AppendItems
<1>3. Len(s) <= Len(Append(t, x)) /\ \A i \in 1 .. Len(s) : s[i] = Append(t, x)[i]
  BY <1>1, <1>2
<1> QED BY <1>2, <1>3, PrefixIff

(* What is appended to three items is the fourth. *)
LEMMA AppendFourth ==
  ASSUME NEW S, NEW s \in Seq(S), NEW x \in S
  PROVE  Len(s) = 3 => /\ Append(s, x) \in Seq(S) /\ Len(Append(s, x)) = 4
                       /\ Append(s, x)[4] = x /\ Append(s, x)[3] = s[3]
<1>1. /\ Append(s, x) \in Seq(S) /\ Len(Append(s, x)) = Len(s) + 1
      /\ Append(s, x)[Len(s) + 1] = x
      /\ \A i \in 1 .. Len(s) : Append(s, x)[i] = s[i]
  BY AppendItems
<1>2. \A n : n = 3 => n + 1 = 4 /\ 3 \in 1 .. n
  OBVIOUS
<1> QED BY <1>1, <1>2, Zenon

(* A namespace directory may hold a database file. *)
LEMMA DatabaseBelow ==
  \A dir \in Seq(STRING) :
    Len(dir) = 3 /\ IsPrefix(DatabaseRoot, dir) /\ dir[3] \in NamespaceNames
    => IsDatabaseFile(Append(dir, "database.tdb"))
<1> TAKE dir \in Seq(STRING)
<1>1. PICK name \in STRING : name = "database.tdb"
  BY LiteralsAssumption
<1> HAVE Len(dir) = 3 /\ IsPrefix(DatabaseRoot, dir) /\ dir[3] \in NamespaceNames
<1>2. /\ Append(dir, name) \in Seq(STRING) /\ Len(Append(dir, name)) = 4
      /\ Append(dir, name)[4] = name /\ Append(dir, name)[3] = dir[3]
  BY AppendFourth, ZenonT(60)
<1>3. IsPrefix(DatabaseRoot, Append(dir, name))
  BY PrefixOfAppend, CatalogTyped, Zenon
<1>4. IsDatabaseFile(Append(dir, name))
  BY <1>1, <1>2, <1>3, Zenon DEF IsDatabaseFile, DatabaseFiles
<1> QED BY <1>1, <1>4, Zenon

(* Every directory above a file that a rule matches is worth entering:     *)
(* may_match_descendant is complete.                                       *)
THEOREM MayMatchAbove ==
  ASSUME NEW r \in RuleSet, NEW dir \in Seq(STRING), NEW path \in Seq(STRING),
         Matches(r, path), IsStrictPrefix(dir, path)
  PROVE  MayMatchDescendant(r, dir)
<1>1. Len(dir) < Len(path) /\ IsPrefix(dir, path) /\ \A i \in 1 .. Len(dir) : path[i] = dir[i]
  BY PrefixItems
<1>0. Len(dir) \in Nat /\ Len(path) \in Nat
  OBVIOUS
<1>2. CASE r \in {Prefix(d) : d \in RootNames}
  <2>1. r.rule = "Prefix" /\ r.dir \in RootNames
    BY <1>2 DEF Prefix
  <2>2. IsPrefix(r.dir, path) /\ r.dir \in Seq(STRING)
    BY <2>1, MatchesUnderRoot, RootsTyped DEF RootOf
  <2>3. IsPrefix(dir, r.dir) \/ IsPrefix(r.dir, dir)
    BY <2>2, <1>1, AboveOrUnder
  <2>4. IsSameOrUnder(dir, r.dir) \/ IsSameOrUnder(r.dir, dir)
    BY <2>3 DEF IsSameOrUnder
  <2> QED BY <2>1, <2>4 DEF MayMatchDescendant
<1>3. CASE r = Database
  <2>1. r.rule = "Database"
    BY <1>3 DEF Database
  <2>2. IsDatabaseFile(path)
    BY <2>1 DEF Matches
  <2>3. Len(path) = 4 /\ IsPrefix(DatabaseRoot, path) /\ path[3] \in NamespaceNames
    BY <2>2 DEF IsDatabaseFile
  <2>4. CASE Len(dir) <= 2
    <3>1. IsPrefix(dir, DatabaseRoot)
      BY <2>3, <2>4, <1>1, AboveOrUnder, CatalogTyped
    <3> QED BY <2>1, <3>1 DEF MayMatchDescendant, IsSameOrUnder
  <2>5. CASE Len(dir) = 3
    <3>1. IsPrefix(DatabaseRoot, dir)
      BY <2>3, <2>5, <1>1, AboveOrUnder, CatalogTyped
    <3>2. dir[3] \in NamespaceNames
      BY <2>3, <2>5, <1>1
    <3>3. IsDatabaseFile(Append(dir, "database.tdb"))
      BY <2>5, <3>1, <3>2, DatabaseBelow
    <3> QED BY <2>1, <3>3 DEF MayMatchDescendant
  <2>6. Len(dir) <= 2 \/ Len(dir) = 3
    <3>1. Len(dir) < 4
      BY <2>3, <1>1
    <3>2. \A n \in Nat : n < 4 => n <= 2 \/ n = 3
      OBVIOUS
    <3> QED BY <3>1, <3>2, <1>0, Zenon
  <2> QED BY <2>4, <2>5, <2>6
<1>4. ASSUME IsAgentWorkspacePath(path) PROVE MatchesWorkspacePrefix(dir)
  <2>1. IsPrefix(Chats, path)
    BY <1>4 DEF IsAgentWorkspacePath
  <2>2. IsPrefix(dir, Chats) \/ IsPrefix(Chats, dir)
    BY <2>1, <1>0, <1>1, AboveOrUnder, CatalogTyped
  <2> QED BY <2>2 DEF MatchesWorkspacePrefix
<1>5. Len(dir) > 4 => dir[5] = path[5]
  BY <1>0, <1>1
<1>6. CASE r = AgentWorkspaceComponent("persistent-states")
  <2>1. r.rule = "AgentWorkspaceComponent"
    BY <1>6 DEF AgentWorkspaceComponent
  <2>2. IsAgentWorkspacePath(path) /\ path[5] = r.name
    BY <2>1 DEF Matches
  <2>3. AgentWorkspaceComponentMayContain(dir, r.name)
    BY <2>2, <1>4, <1>5 DEF AgentWorkspaceComponentMayContain
  <2> QED BY <2>1, <2>3 DEF MayMatchDescendant
<1>7. CASE r \in {AgentRunFile(name) : name \in {"run.json", "events.jsonl", "manifest.json"}}
  <2>1. r.rule = "AgentRunFile"
    BY <1>7 DEF AgentRunFile
  <2>2. IsAgentRunPath(path) /\ Len(path) = 7
    BY <2>1 DEF Matches
  <2>3. AgentRunFileMayContain(dir)
    BY <2>2, <1>0, <1>1, <1>4, <1>5 DEF AgentRunFileMayContain, IsAgentRunPath
  <2> QED BY <2>1, <2>3 DEF MayMatchDescendant
<1>8. CASE r \in {AgentRunComponent(name) : name \in {"input", "model-responses"}}
  <2>1. r.rule = "AgentRunComponent"
    BY <1>8 DEF AgentRunComponent
  <2>2. IsAgentRunPath(path) /\ path[7] = r.name
    BY <2>1 DEF Matches
  <2>3. Len(dir) > 6 => dir[7] = path[7]
    BY <1>0, <1>1
  <2>4. AgentRunComponentMayContain(dir, r.name)
    BY <2>2, <2>3, <1>4, <1>5 DEF AgentRunComponentMayContain, IsAgentRunPath
  <2> QED BY <2>1, <2>4 DEF MayMatchDescendant
<1> QED BY <1>2, <1>3, <1>6, <1>7, <1>8 DEF RuleSet

(* What is below an excluded directory is excluded. *)
LEMMA ExcludedBelow ==
  ASSUME NEW dir \in Seq(STRING), NEW path \in Seq(STRING), IsPrefix(dir, path),
         IsGloballyExcluded(dir)
  PROVE  IsGloballyExcluded(path)
<1>1. Len(dir) <= Len(path) /\ \A i \in 1 .. Len(dir) : dir[i] = path[i]
  BY PrefixIff
<1>2. CASE \E i \in DOMAIN dir : dir[i] \in ExcludedComponents
  BY <1>1, <1>2 DEF IsGloballyExcluded
<1>3. ASSUME NEW prefix \in GlobalExcludedPrefixes, IsSameOrUnder(dir, prefix)
      PROVE  IsSameOrUnder(path, prefix)
  <2>1. Len(prefix) <= Len(dir) /\ SubSeq(prefix, 1, Len(prefix)) = SubSeq(dir, 1, Len(prefix))
    BY <1>3 DEF IsSameOrUnder, IsPrefix
  <2>2. Len(prefix) \in 1 .. 3
    BY DEF GlobalExcludedPrefixes
  <2>3. SubSeq(dir, 1, Len(prefix)) = SubSeq(path, 1, Len(prefix))
    <3> DEFINE n == Len(prefix)
    <3>1. n \in Nat /\ n <= Len(dir) /\ n <= Len(path) /\ Len(path) \in Nat /\ Len(dir) \in Nat
      BY <1>1, <2>1, <2>2
    <3> HIDE DEF n
    <3>2. \A i \in 1 .. n : dir[i] = path[i]
      BY <1>1, <3>1
    <3>3. SubSeq(dir, 1, n) = SubSeq(path, 1, n)
      BY <3>1, <3>2
    <3> QED BY <3>3 DEF n
  <2>4. Len(prefix) <= Len(path)
    BY <1>1, <2>1, <2>2
  <2> QED BY <2>1, <2>3, <2>4 DEF IsSameOrUnder, IsPrefix
<1> QED BY <1>2, <1>3 DEF IsGloballyExcluded

SingleNames ==
  {<<"default-user", "settings.json">>, <<"default-user", "secrets.json">>,
   <<"default-user", "settings", "persona-state.json">>}

(* The single files of the catalog. *)
LEMMA SinglesAre == SingleFiles \subseteq SingleNames
<1> SUFFICES ASSUME NEW id \in Ids PROVE DATASETS[id].files \subseteq SingleNames
  BY IdsAre DEF SingleFiles
<1>1. CASE id = "settings_core"
  BY <1>1 DEF DATASETS, Dirs, Dataset, SingleNames
<1>2. CASE id = "secrets_api_keys"
  BY <1>2 DEF DATASETS, Dirs, Dataset, SingleNames
<1>3. CASE id = "character_avatars"
  BY <1>3 DEF DATASETS, Dirs, Dataset, SingleNames
<1>4. CASE id \in Ids \ {"settings_core", "secrets_api_keys", "character_avatars"}
  <2>1. CASE id = "chat_character_history"
    BY <2>1 DEF DATASETS, Dirs, Dataset
  <2>2. CASE id = "user_files"
    BY <2>2 DEF DATASETS, Dirs, Dataset
  <2>3. CASE id = "extensions_third_party"
    BY <2>3 DEF DATASETS, Dirs, Dataset
  <2>4. CASE id = "extensions_sources"
    BY <2>4 DEF DATASETS, Dirs, Dataset
  <2>5. CASE id = "extensions_databases"
    BY <2>5 DEF DATASETS, Dataset
  <2>6. CASE id = "agent_persistent_state"
    BY <2>6 DEF DATASETS, Dataset
  <2>7. CASE id = "agent_run_journal"
    BY <2>7 DEF DATASETS, Dataset
  <2>8. CASE id = "agent_run_context"
    BY <2>8 DEF DATASETS, Dataset
  <2>9. CASE id = "agent_model_responses"
    BY <2>9 DEF DATASETS, Dataset
  <2> QED BY <1>4, <2>1, <2>2, <2>3, <2>4, <2>5, <2>6, <2>7, <2>8, <2>9 DEF Ids
<1> QED BY <1>1, <1>2, <1>3, <1>4

(* Single files are sequences of strings. *)
LEMMA SinglesTyped == SingleNames \subseteq Seq(STRING)
<1>1. /\ "default-user" \in STRING /\ "settings.json" \in STRING /\ "secrets.json" \in STRING
      /\ "settings" \in STRING /\ "persona-state.json" \in STRING
  BY LiteralsAssumption
<1> QED BY <1>1 DEF SingleNames

(* A single file lies under no scan root, and belongs to no run. *)
LEMMA SinglesApart ==
  ASSUME NEW name \in SingleNames
  PROVE  /\ name \in Seq(STRING) /\ Len(name) \in 2 .. 3
         /\ \A r \in RootNames : ~IsPrefix(r, name)
         /\ ~IsAgentRunIndexFile(name) /\ ~IsAgentRunPath(name)
<1>1. name \in Seq(STRING)
  BY SinglesTyped
<1>2. /\ Len(name) \in 2 .. 3 /\ name[1] = "default-user"
      /\ name[2] \in {"settings.json", "secrets.json", "settings"}
  BY DEF SingleNames
<1>3. ASSUME NEW r \in RootNames, IsPrefix(r, name) PROVE FALSE
  <2>1. r \in Seq(STRING) /\ Len(r) <= Len(name) /\ \A i \in 1 .. Len(r) : r[i] = name[i]
    BY <1>1, <1>3, RootsTyped, PrefixIff
  <2>2. Len(r) \in 2 .. 4
    BY RootCases
  <2>3. r[1] = name[1] /\ r[2] = name[2]
    BY <2>1, <2>2
  <2> QED BY <1>2, <2>2, <2>3, RootCases
<1> QED BY <1>1, <1>2, <1>3 DEF IsAgentRunIndexFile, IsAgentRunPath, IsAgentWorkspacePath

(* What from_selection answers for a valid selection: scan roots without   *)
(* repetition, and each rule below one of them.                            *)
THEOREM Selection ==
  ASSUME NEW ids \in Seq(STRING), ValidSelection(ids), NEW p, p = FromSelection(ids)
  PROVE  /\ p.scan_roots \in RootSeqs
         /\ p.files \subseteq SingleNames
         /\ p.rules \subseteq RuleSet
         /\ \A r \in p.rules : RootOf(r) \in ToSet(p.scan_roots)
<1>1. ids \in Seq(ProfileIds \cup Ids)
  BY ProfileDatasets, IdsAre DEF ValidSelection, ToSet
<1> DEFINE selected == ExpandDatasetIds(ids)
<1>2. selected \in Seq(Ids)
  BY <1>1, ExpandedTyped
<1> HIDE DEF selected
<1>3. ToSet(selected) \subseteq Ids
  BY <1>2 DEF ToSet
<1>4. /\ p.scan_roots = ScanRoots(selected)
      /\ p.files = UNION {DATASETS[id].files : id \in ToSet(selected)}
      /\ p.rules = UNION {DATASETS[id].rules : id \in ToSet(selected)}
  BY DEF FromSelection, selected
<1>5. p.files \subseteq SingleFiles
  BY <1>3, <1>4, IdsAre DEF SingleFiles
<1>6. ASSUME NEW r \in p.rules PROVE r \in RuleSet /\ RootOf(r) \in ToSet(p.scan_roots)
  <2>1. PICK id \in ToSet(selected) : r \in DATASETS[id].rules
    BY <1>4
  <2>2. id \in Ids
    BY <1>3
  <2>3. RootOf(r) \in ToSet(DATASETS[id].scan_roots) /\ r \in RuleSet
    BY <2>1, <2>2, RulesAre
  <2> QED BY <1>2, <1>4, <2>3, ScanRootsFacts
<1>7. p.scan_roots \in RootSeqs
  BY <1>2, <1>4, ScanRootsFacts
<1> QED BY <1>5, <1>6, <1>7, SinglesAre

-----------------------------------------------------------------------------
(* Sequences, and the paths made of them. *)

(* The items of a concatenation. *)
LEMMA ConcatItems ==
  ASSUME NEW S, NEW s \in Seq(S), NEW t \in Seq(S)
  PROVE  /\ s \o t \in Seq(S) /\ Len(s \o t) = Len(s) + Len(t)
         /\ \A i \in 1 .. Len(s) : (s \o t)[i] = s[i]
         /\ \A i \in 1 .. Len(t) : (s \o t)[Len(s) + i] = t[i]
  OBVIOUS

(* The items of a part of a sequence. *)
LEMMA SubSeqItems ==
  ASSUME NEW S, NEW s \in Seq(S), NEW m \in 1 .. Len(s) + 1, NEW n \in m - 1 .. Len(s)
  PROVE  /\ SubSeq(s, m, n) \in Seq(S) /\ Len(SubSeq(s, m, n)) = n - m + 1
         /\ \A i \in 1 .. n - m + 1 : SubSeq(s, m, n)[i] = s[m + i - 1]
  OBVIOUS

(* The first part of a concatenation is its prefix. *)
LEMMA PrefixOfConcat ==
  ASSUME NEW S, NEW s \in Seq(S), NEW t \in Seq(S)
  PROVE  IsPrefix(s, s \o t)
<1>1. /\ s \o t \in Seq(S) /\ Len(s \o t) = Len(s) + Len(t)
      /\ \A i \in 1 .. Len(s) : (s \o t)[i] = s[i]
  BY ConcatItems
<1>2. Len(s) <= Len(s \o t)
  BY <1>1
<1> QED BY <1>1, <1>2, PrefixIff

(* What is left of a sequence after a prefix. *)
LEMMA PrefixSplit ==
  ASSUME NEW S, NEW s \in Seq(S), NEW t \in Seq(S), IsPrefix(s, t),
         NEW u, u = SubSeq(t, Len(s) + 1, Len(t))
  PROVE  u \in Seq(S) /\ t = s \o u /\ Len(u) = Len(t) - Len(s)
<1>1. Len(s) <= Len(t) /\ \A i \in 1 .. Len(s) : s[i] = t[i]
  BY PrefixIff
<1>2. /\ u \in Seq(S) /\ Len(u) = Len(t) - Len(s)
      /\ \A i \in 1 .. Len(t) - Len(s) : u[i] = t[Len(s) + i]
  <2> DEFINE m == Len(s) + 1
             n == Len(t)
  <2>1. m \in 1 .. Len(t) + 1 /\ n \in m - 1 .. Len(t)
    BY <1>1
  <2>2. n - m + 1 = Len(t) - Len(s) /\ \A i \in 1 .. n - m + 1 : m + i - 1 = Len(s) + i
    OBVIOUS
  <2>3. u = SubSeq(t, m, n)
    OBVIOUS
  <2> HIDE DEF m, n
  <2>4. /\ u \in Seq(S) /\ Len(u) = n - m + 1
        /\ \A i \in 1 .. n - m + 1 : u[i] = t[m + i - 1]
    BY <2>1, <2>3, SubSeqItems
  <2> QED BY <2>2, <2>4
<1>3. /\ s \o u \in Seq(S) /\ Len(s \o u) = Len(s) + Len(u)
      /\ \A i \in 1 .. Len(s) : (s \o u)[i] = s[i]
      /\ \A i \in 1 .. Len(u) : (s \o u)[Len(s) + i] = u[i]
  BY <1>2, ConcatItems
<1>4. Len(s \o u) = Len(t)
  BY <1>2, <1>3
<1>5. ASSUME NEW i \in 1 .. Len(t) PROVE (s \o u)[i] = t[i]
  <2>1. CASE i <= Len(s)
    BY <1>1, <1>3, <2>1
  <2>2. CASE i > Len(s)
    <3>1. i - Len(s) \in 1 .. Len(u) /\ i = Len(s) + (i - Len(s))
      BY <1>2, <2>2
    <3> DEFINE j == i - Len(s)
    <3>2. j \in 1 .. Len(u) /\ i = Len(s) + j
      BY <3>1
    <3> HIDE DEF j
    <3> QED BY <1>2, <1>3, <3>2
  <2> QED BY <2>1, <2>2
<1>6. s \o u = t
  BY <1>3, <1>4, <1>5, SeqEqual
<1> QED BY <1>2, <1>6

(* What is left of a concatenation after its first part. *)
LEMMA SplitConcat ==
  ASSUME NEW S, NEW s \in Seq(S), NEW t \in Seq(S)
  PROVE  SubSeq(s \o t, Len(s) + 1, Len(s \o t)) = t
<1> DEFINE u == SubSeq(s \o t, Len(s) + 1, Len(s \o t))
<1>1. s \o t \in Seq(S) /\ IsPrefix(s, s \o t)
  BY ConcatItems, PrefixOfConcat
<1>2. u \in Seq(S) /\ s \o t = s \o u /\ Len(u) = Len(s \o t) - Len(s)
  BY <1>1, PrefixSplit
<1> HIDE DEF u
<1>3. Len(u) = Len(t)
  BY <1>2, ConcatItems
<1>4. ASSUME NEW i \in 1 .. Len(t) PROVE u[i] = t[i]
  <2>1. (s \o t)[Len(s) + i] = t[i]
    BY ConcatItems
  <2>2. (s \o u)[Len(s) + i] = u[i]
    BY <1>2, <1>3, ConcatItems
  <2> QED BY <1>2, <2>1, <2>2
<1>5. u = t
  BY <1>2, <1>3, <1>4, SeqEqual
<1> QED BY <1>5 DEF u

(* Prefixes under a common prefix. *)
LEMMA PrefixJoin ==
  ASSUME NEW S, NEW r \in Seq(S), NEW s \in Seq(S), NEW t \in Seq(S)
  PROVE  IsPrefix(r \o s, r \o t) <=> IsPrefix(s, t)
<1> DEFINE a == r \o s
           b == r \o t
<1>1. /\ a \in Seq(S) /\ Len(a) = Len(r) + Len(s)
      /\ \A i \in 1 .. Len(r) : a[i] = r[i]
      /\ \A i \in 1 .. Len(s) : a[Len(r) + i] = s[i]
  BY ConcatItems
<1>2. /\ b \in Seq(S) /\ Len(b) = Len(r) + Len(t)
      /\ \A i \in 1 .. Len(r) : b[i] = r[i]
      /\ \A i \in 1 .. Len(t) : b[Len(r) + i] = t[i]
  BY ConcatItems
<1> HIDE DEF a, b
<1>0. a \in Seq(S) /\ b \in Seq(S)
  BY <1>1, <1>2
<1>3. ASSUME IsPrefix(a, b) PROVE IsPrefix(s, t)
  <2>1. Len(a) <= Len(b) /\ \A i \in 1 .. Len(a) : a[i] = b[i]
    BY <1>0, <1>3, PrefixIff
  <2>2. Len(s) <= Len(t)
    BY <1>1, <1>2, <2>1
  <2>3. ASSUME NEW i \in 1 .. Len(s) PROVE s[i] = t[i]
    <3>1. Len(r) + i \in 1 .. Len(a) /\ i \in 1 .. Len(t)
      BY <1>1, <2>2
    <3>2. a[Len(r) + i] = s[i]
      BY <1>1
    <3>3. b[Len(r) + i] = t[i]
      BY <1>2, <3>1
    <3> QED BY <2>1, <3>1, <3>2, <3>3
  <2> QED BY <2>2, <2>3, PrefixIff
<1>4. ASSUME IsPrefix(s, t) PROVE IsPrefix(a, b)
  <2>1. Len(s) <= Len(t) /\ \A i \in 1 .. Len(s) : s[i] = t[i]
    BY <1>4, PrefixIff
  <2>2. Len(a) <= Len(b)
    BY <1>1, <1>2, <2>1
  <2>3. ASSUME NEW i \in 1 .. Len(a) PROVE a[i] = b[i]
    <3>1. CASE i <= Len(r)
      BY <1>1, <1>2, <3>1
    <3>2. CASE i > Len(r)
      <4> DEFINE j == i - Len(r)
      <4>1. j \in 1 .. Len(s) /\ j \in 1 .. Len(t) /\ i = Len(r) + j
        BY <1>1, <2>1, <3>2
      <4> HIDE DEF j
      <4> QED BY <1>1, <1>2, <2>1, <4>1
    <3> QED BY <3>1, <3>2
  <2> QED BY <1>1, <1>2, <2>2, <2>3, PrefixIff
<1> QED BY <1>3, <1>4 DEF a, b

(* Sequences that begin or end with one component. *)
LEMMA SingleComponent ==
  ASSUME NEW S, NEW x \in S
  PROVE  /\ <<x>> \in Seq(S) /\ Len(<<x>>) = 1
         /\ \A s \in Seq(S) : s # << >> => (IsPrefix(<<x>>, s) <=> s[1] = x)
         /\ \A s \in Seq(S) : s # << >> /\ s[1] = x => Tail(s) \in Seq(S) /\ s = <<x>> \o Tail(s)
         /\ \A s \in Seq(S) : Append(s, x) = s \o <<x>>
<1>1. <<x>> \in Seq(S) /\ Len(<<x>>) = 1 /\ <<x>>[1] = x
  OBVIOUS
<1>2. ASSUME NEW s \in Seq(S), s # << >> PROVE IsPrefix(<<x>>, s) <=> s[1] = x
  <2> DEFINE t == <<x>>
  <2>1. t \in Seq(S) /\ Len(t) = 1 /\ t[1] = x
    OBVIOUS
  <2>2. Len(s) \in Nat /\ Len(s) >= 1
    BY <1>2
  <2> HIDE DEF t
  <2>3. IsPrefix(t, s) <=> Len(t) <= Len(s) /\ \A i \in 1 .. Len(t) : t[i] = s[i]
    BY <2>1, PrefixIff
  <2>4. IsPrefix(t, s) <=> s[1] = x
    BY <2>1, <2>2, <2>3
  <2> QED BY <2>4 DEF t
<1>3. ASSUME NEW s \in Seq(S), s # << >>, s[1] = x PROVE Tail(s) \in Seq(S) /\ s = <<x>> \o Tail(s)
  BY <1>3
<1>4. ASSUME NEW s \in Seq(S) PROVE Append(s, x) = s \o <<x>>
  OBVIOUS
<1> QED BY <1>1, <1>2, <1>3, <1>4

(* Prefixes of paths. *)
LEMMA PathPrefix ==
  /\ \A p \in Path : IsPrefix(p, p) /\ Len(p) \in Nat
  /\ \A p, q \in Path : IsPrefix(p, q) => Len(p) <= Len(q)
  /\ \A p, q \in Path : IsPrefix(p, q) /\ Len(p) = Len(q) => p = q
  /\ \A p, q, r \in Path : IsPrefix(p, q) /\ IsPrefix(q, r) => IsPrefix(p, r)
  /\ \A p, q, r \in Path : IsPrefix(p, r) /\ IsPrefix(q, r) /\ Len(p) <= Len(q) => IsPrefix(p, q)
<1>1. \A p \in Path : IsPrefix(p, p) /\ Len(p) \in Nat
  BY PrefixOfSelf DEF Path
<1>2. \A p, q \in Path : IsPrefix(p, q) => Len(p) <= Len(q)
  BY PrefixIff DEF Path
<1>3. \A p, q \in Path : IsPrefix(p, q) /\ Len(p) = Len(q) => p = q
  BY PrefixSameLength DEF Path
<1>4. \A p, q, r \in Path : IsPrefix(p, q) /\ IsPrefix(q, r) => IsPrefix(p, r)
  BY PrefixTransitive DEF Path
<1>5. \A p, q, r \in Path : IsPrefix(p, r) /\ IsPrefix(q, r) /\ Len(p) <= Len(q) => IsPrefix(p, q)
  BY PrefixesOfOne DEF Path
<1> QED BY <1>1, <1>2, <1>3, <1>4, <1>5

(* The directory of a path, and its last component. *)
LEMMA FrontFacts ==
  ASSUME NEW p \in Path, p # << >>
  PROVE  /\ Front(p) \in Path /\ Len(p) = Len(Front(p)) + 1 /\ IsPrefix(Front(p), p)
         /\ Last(p) \in STRING /\ p = Append(Front(p), Last(p))
         /\ \A q \in Path : IsPrefix(q, p) /\ q # p => IsPrefix(q, Front(p))
<1>1. Len(p) \in Nat /\ Len(p) # 0
  BY DEF Path
<1>2. /\ Front(p) \in Path /\ Len(Front(p)) = Len(p) - 1
      /\ \A i \in 1 .. Len(p) - 1 : Front(p)[i] = p[i]
  <2> DEFINE n == Len(p) - 1
  <2>1. n \in 0 .. Len(p)
    BY <1>1
  <2> HIDE DEF n
  <2>2. /\ SubSeq(p, 1, n) \in Path /\ Len(SubSeq(p, 1, n)) = n
        /\ \A i \in 1 .. n : SubSeq(p, 1, n)[i] = p[i]
    BY <1>1, <2>1 DEF Path
  <2> QED BY <2>2 DEF Front, n
<1>3. IsPrefix(Front(p), p)
  <2>1. Len(Front(p)) <= Len(p) /\ \A i \in 1 .. Len(Front(p)) : Front(p)[i] = p[i]
    BY <1>1, <1>2
  <2> QED BY <1>2, <2>1, PrefixIff DEF Path
<1>4. ASSUME NEW q \in Path, IsPrefix(q, p), q # p PROVE IsPrefix(q, Front(p))
  <2>1. Len(q) <= Len(p) /\ Len(q) # Len(p) /\ Len(q) \in Nat
    BY <1>4, PathPrefix
  <2>2. Len(q) <= Len(Front(p))
    BY <1>1, <1>2, <2>1
  <2> QED BY <1>2, <1>3, <1>4, <2>2, PathPrefix
<1>5. Last(p) \in STRING
  BY <1>1 DEF Path, Last
<1>6. p = Append(Front(p), Last(p))
  <2>1. \A S, s, t : s \in Seq(S) /\ t \in Seq(S) /\ Len(s) = Len(t)
                     /\ (\A i \in 1 .. Len(s) : s[i] = t[i]) => s = t
    BY SeqEqual
  <2>2. /\ Append(Front(p), Last(p)) \in Path /\ Len(Append(Front(p), Last(p))) = Len(Front(p)) + 1
        /\ Append(Front(p), Last(p))[Len(Front(p)) + 1] = Last(p)
    BY <1>2, <1>5, AppendItems DEF Path
  <2>3. \A i \in 1 .. Len(Front(p)) : Append(Front(p), Last(p))[i] = Front(p)[i]
    BY <1>2, <1>5, AppendItems DEF Path
  <2>4. \A i \in 1 .. Len(p) : p[i] = Append(Front(p), Last(p))[i]
    BY <1>1, <1>2, <2>2, <2>3 DEF Last
  <2>5. Len(p) = Len(Append(Front(p), Last(p)))
    BY <1>1, <1>2, <2>2
  <2> QED BY <2>1, <2>2, <2>4, <2>5 DEF Path
<1> QED BY <1>1, <1>2, <1>3, <1>4, <1>5, <1>6

(* The directories above a path are the prefixes of its name. *)
LEMMA AncestorsAre ==
  ASSUME NEW p \in Path
  PROVE  Ancestors(p) = {q \in Path : q # << >> /\ IsPrefix(q, p) /\ q # p}
<1>1. ASSUME NEW n \in 1 .. Len(p) - 1
      PROVE  SubSeq(p, 1, n) \in Path /\ SubSeq(p, 1, n) # << >>
             /\ IsPrefix(SubSeq(p, 1, n), p) /\ SubSeq(p, 1, n) # p
  <2> DEFINE q == SubSeq(p, 1, n)
  <2>1. Len(p) \in Nat
    BY PathPrefix
  <2>2. q \in Path /\ Len(q) = n /\ \A i \in 1 .. n : q[i] = p[i]
    BY <2>1 DEF Path
  <2> HIDE DEF q
  <2>3. Len(q) <= Len(p) /\ Len(q) # Len(p) /\ Len(q) # 0 /\ \A i \in 1 .. Len(q) : q[i] = p[i]
    BY <2>1, <2>2
  <2>4. IsPrefix(q, p)
    BY <2>2, <2>3, PrefixIff DEF Path
  <2>5. q # << >> /\ q # p
    BY <2>3, SMTT(40)
  <2> QED BY <2>2, <2>4, <2>5 DEF q
<1>2. ASSUME NEW q \in Path, q # << >>, IsPrefix(q, p), q # p
      PROVE  q \in Ancestors(p)
  <2>1. Len(q) \in Nat /\ Len(p) \in Nat /\ Len(q) <= Len(p) /\ Len(q) # Len(p)
    BY <1>2, PathPrefix
  <2>2. Len(q) # 0
    BY <1>2 DEF Path
  <2>3. Len(q) \in 1 .. Len(p) - 1
    BY <2>1, <2>2
  <2>4. q = SubSeq(p, 1, Len(q))
    <3>1. SubSeq(q, 1, Len(q)) = SubSeq(p, 1, Len(q))
      BY <1>2 DEF IsPrefix
    <3>2. SubSeq(q, 1, Len(q)) = q
      BY DEF Path
    <3> QED BY <3>1, <3>2
  <2> QED BY <2>3, <2>4 DEF Ancestors
<1> QED BY <1>1, <1>2 DEF Ancestors

(* An entry of a directory. *)
Child(path, dir) == IsPrefix(dir, path) /\ Len(path) = Len(dir) + 1

(* The two ways to say that a path is an entry of a directory. *)
LEMMA ChildIff ==
  ASSUME NEW path \in Path, NEW dir \in Path
  PROVE  Len(path) = Len(dir) + 1 /\ Front(path) = dir <=> Child(path, dir)
<1>1. Len(path) \in Nat /\ Len(dir) \in Nat
  BY PathPrefix
<1>2. ASSUME Len(path) = Len(dir) + 1 PROVE path # << >>
  BY <1>1, <1>2 DEF Path
<1>3. ASSUME Len(path) = Len(dir) + 1, Front(path) = dir PROVE Child(path, dir)
  BY <1>2, <1>3, FrontFacts DEF Child
<1>4. ASSUME Child(path, dir) PROVE Len(path) = Len(dir) + 1 /\ Front(path) = dir
  <2>1. path # << >> /\ path # dir
    BY <1>1, <1>2, <1>4 DEF Child
  <2>2. IsPrefix(dir, Front(path)) /\ Len(Front(path)) = Len(dir) /\ Front(path) \in Path
    <3>1. Len(path) = Len(Front(path)) + 1 /\ Front(path) \in Path /\ IsPrefix(dir, Front(path))
      BY <1>4, <2>1, FrontFacts DEF Child
    <3>2. Len(Front(path)) \in Nat
      BY <3>1, PathPrefix
    <3> QED BY <1>1, <1>4, <3>1, <3>2 DEF Child
  <2> QED BY <1>4, <2>2, PathPrefix DEF Child
<1> QED BY <1>3, <1>4

(* On the way from a directory to a path below it there is an entry of the *)
(* directory: the path itself, or a directory above it.                    *)
LEMMA Toward ==
  ASSUME NEW dir \in Path, NEW path \in Path, IsPrefix(dir, path), dir # path
  PROVE  \E c \in Path : Child(c, dir) /\ IsPrefix(c, path) /\ (c = path \/ c \in Ancestors(path))
<1> DEFINE n == Len(dir) + 1
           c == SubSeq(path, 1, n)
<1>1. Len(path) \in Nat /\ Len(dir) \in Nat /\ Len(dir) <= Len(path) /\ Len(dir) # Len(path)
  BY PathPrefix
<1>2. n \in 1 .. Len(path) /\ n # 0
  BY <1>1
<1>3. c \in Path /\ Len(c) = n /\ \A i \in 1 .. n : c[i] = path[i]
  BY <1>1, <1>2 DEF Path
<1> HIDE DEF c
<1>4. IsPrefix(c, path)
  <2>1. Len(c) <= Len(path) /\ \A i \in 1 .. Len(c) : c[i] = path[i]
    BY <1>1, <1>2, <1>3
  <2> QED BY <1>3, <2>1, PrefixIff DEF Path
<1>5. IsPrefix(dir, c)
  <2>1. Len(dir) <= Len(c)
    BY <1>1, <1>3
  <2> QED BY <1>3, <1>4, <2>1, PathPrefix
<1>6. c # << >>
  BY <1>2, <1>3
<1>7. Child(c, dir)
  BY <1>3, <1>5 DEF Child
<1> QED BY <1>3, <1>4, <1>6, <1>7, AncestorsAre

(* A component is appended to a directory. *)
LEMMA AppendChild ==
  ASSUME NEW dir \in Path, NEW x \in STRING
  PROVE  Append(dir, x) \in Path /\ Child(Append(dir, x), dir) /\ Front(Append(dir, x)) = dir
         /\ Last(Append(dir, x)) = x
<1>1. /\ Append(dir, x) \in Path /\ Len(Append(dir, x)) = Len(dir) + 1
      /\ Append(dir, x)[Len(dir) + 1] = x
  BY AppendItems, Zenon DEF Path
<1>2. IsPrefix(dir, Append(dir, x))
  BY PathPrefix, PrefixOfAppend, Zenon DEF Path
<1> QED BY <1>1, <1>2, ChildIff DEF Child, Last

(* Paths are concatenated. *)
LEMMA PathConcat ==
  \A s, t \in Path : s \o t \in Path /\ Len(s \o t) = Len(s) + Len(t) /\ IsPrefix(s, s \o t)
  BY ConcatItems, PrefixOfConcat DEF Path

(* Concatenation of paths is associative. *)
LEMMA PathAssociative ==
  \A r, s, t \in Path : r \o (s \o t) = (r \o s) \o t
  BY ConcatAssociative, SMTT(40) DEF Path

(* Prefixes of paths under a common directory. *)
LEMMA PathJoin ==
  \A r, s, t \in Path : IsPrefix(r \o s, r \o t) <=> IsPrefix(s, t)
  BY PrefixJoin DEF Path

(* A path is a prefix of it and the rest. *)
LEMMA PathSplit ==
  \A s, t \in Path : IsPrefix(s, t) =>
       /\ SubSeq(t, Len(s) + 1, Len(t)) \in Path
       /\ t = s \o SubSeq(t, Len(s) + 1, Len(t))
       /\ Len(SubSeq(t, Len(s) + 1, Len(t))) = Len(t) - Len(s)
  BY PrefixSplit DEF Path

(* What is left of a joined path. *)
LEMMA PathRest ==
  \A s, t \in Path : SubSeq(s \o t, Len(s) + 1, Len(s \o t)) = t
  BY SplitConcat DEF Path

-----------------------------------------------------------------------------
(* Layouts: where names are, and where the code looks for them. *)

ThirdParty == <<"extensions", "third-party">>

(* The names the application keeps apart from the data directory. *)
Apart(name) == layout.mode # "tauri-tavern" /\ IsPrefix(ThirdParty, name)

(* The directory of the extensions is a scan root. *)
LEMMA ThirdPartyTyped ==
  ThirdParty \in RootNames /\ ThirdParty \in Path /\ Len(ThirdParty) = 2
  /\ ThirdParty[1] = "extensions"
<1>1. ThirdParty \in RootNames
  BY DEF ThirdParty, RootNames
<1> QED BY <1>1, RootsTyped DEF ThirdParty, Path

(* A name is a path that is not empty. *)
LEMMA NamesArePaths == \A name \in Names : name \in Path /\ name # << >> /\ Len(name) \in Nat \ {0}
  BY DEF Names, Path

(* A path that is not empty is a name. *)
LEMMA PathsAreNames == \A name \in Path : name # << >> => name \in Names
  BY DEF Names, Path

UserDir == <<"default-user">>

(* Names in the directory of the user. *)
LEMMA UserDirFacts ==
  /\ UserDir \in Path /\ Len(UserDir) = 1
  /\ \A name \in Names : IsPrefix(UserDir, name) <=> name[1] = "default-user"
  /\ \A name \in Names : name[1] = "default-user" =>
       Tail(name) \in Path /\ name = UserDir \o Tail(name)
  /\ \A dir \in Path : Append(dir, "default-user") = dir \o UserDir
<1> DEFINE Facts(x) ==
      /\ <<x>> \in Seq(STRING) /\ Len(<<x>>) = 1
      /\ \A s \in Seq(STRING) : s # << >> => (IsPrefix(<<x>>, s) <=> s[1] = x)
      /\ \A s \in Seq(STRING) : s # << >> /\ s[1] = x =>
           Tail(s) \in Seq(STRING) /\ s = <<x>> \o Tail(s)
      /\ \A s \in Seq(STRING) : Append(s, x) = s \o <<x>>
<1>1. \A x \in STRING : Facts(x)
  BY SingleComponent
<1>2. Facts("default-user")
  BY <1>1, LiteralsAssumption, Zenon
<1> QED BY <1>2, Zenon DEF UserDir, Path, Names

(* The directory of the user is in the data directory. *)
LEMMA UserRoot ==
  ASSUME IsLayout(layout)
  PROVE  layout.data \in Path /\ layout.data # << >> /\ layout.user \in Path
         /\ layout.user = Append(layout.data, "default-user") /\ Last(layout.user) = "default-user"
         /\ Front(layout.user) = layout.data
<1>1. "default-user" \in STRING
  BY LiteralsAssumption
<1>2. layout.data \in Path /\ layout.data # << >> /\ layout.user = Append(layout.data, "default-user")
  BY NamesArePaths DEF IsLayout
<1> QED BY <1>1, <1>2, AppendChild

(* The code finds the three directories of a layout. *)
LEMMA MountsAre ==
  ASSUME IsLayout(layout)
  PROVE  /\ DataRoot = layout.data
         /\ DefaultUserRoot = layout.user
         /\ ExtensionsRoot = layout.extensions
<1> DEFINE data == layout.data
           w == layout.workspace
<1>1. /\ data \in Path /\ data # << >> /\ layout.user = Append(data, "default-user")
      /\ Last(layout.user) = "default-user" /\ Front(layout.user) = data
  BY UserRoot
<1>2. CASE layout.mode = "tauri-tavern"
  <2>1. /\ layout.extensions = data \o <<"extensions", "third-party">>
        /\ w \in {data, layout.user} /\ Last(data) # "default-user"
    BY <1>2 DEF IsLayout
  <2>2. DataRoot = data
    BY <1>1, <1>2, <2>1 DEF DataRoot
  <2>3. DefaultUserRoot = layout.user
    BY <1>1, <2>1, <2>2 DEF DefaultUserRoot
  <2>4. ExtensionsRoot = layout.extensions
    BY <1>2, <2>1, <2>2, Zenon DEF ExtensionsRoot
  <2> QED BY <2>2, <2>3, <2>4
<1>3. CASE layout.mode \in {"silly-tavern", "silly-tavern-docker"}
  <2>1. /\ layout.mode # "tauri-tavern" /\ Last(data) = "data"
        /\ w \in {Front(data), data, layout.user}
        /\ Last(Front(data)) \notin {"data", "default-user"}
    BY <1>3 DEF IsLayout
  <2>2. Append(Front(data), "data") = data
    <3>1. data = Append(Front(data), Last(data))
      BY <1>1, FrontFacts
    <3> QED BY <2>1, <3>1
  <2>0. "data" # "default-user"
    OBVIOUS
  <2>3. DataRoot = data
    <3>1. CASE w = Front(data)
      BY <2>1, <2>2, <3>1 DEF DataRoot
    <3>2. CASE w = data
      BY <2>0, <2>1, <3>2 DEF DataRoot
    <3>3. CASE w = layout.user
      BY <1>1, <3>3, Zenon DEF DataRoot
    <3> QED BY <2>1, <3>1, <3>2, <3>3
  <2>4. DefaultUserRoot = layout.user
    <3>1. CASE w = layout.user
      BY <1>1, <3>1 DEF DefaultUserRoot
    <3>2. CASE w \in {Front(data), data}
      <4>1. Last(w) # "default-user"
        BY <2>0, <2>1, <3>2
      <4> QED BY <1>1, <2>3, <4>1 DEF DefaultUserRoot
    <3> QED BY <2>1, <3>1, <3>2
  <2>5. ExtensionsRoot = layout.extensions
    <3>1. CASE layout.mode = "silly-tavern"
      <4>1. layout.extensions = Front(data) \o <<"public", "scripts", "extensions", "third-party">>
        BY <1>3, <3>1 DEF IsLayout
      <4>2. layout.mode # "tauri-tavern" /\ layout.mode # "silly-tavern-docker"
        BY <3>1
      <4> QED BY <2>3, <3>1, <4>1, <4>2, Zenon DEF ExtensionsRoot
    <3>2. CASE layout.mode = "silly-tavern-docker"
      <4>1. layout.extensions = Front(data) \o <<"extensions">>
        BY <1>3, <3>2 DEF IsLayout
      <4>2. layout.mode # "tauri-tavern" /\ layout.mode # "silly-tavern"
        BY <3>2
      <4>3. Append(Front(data), "extensions") = Front(data) \o <<"extensions">>
        <5>1. Front(data) \in Path /\ "extensions" \in STRING
          BY <1>1, FrontFacts, LiteralsAssumption
        <5> QED BY <5>1, AppendIsConcat DEF Path
      <4> QED BY <2>3, <3>2, <4>1, <4>2, <4>3, Zenon DEF ExtensionsRoot
    <3> QED BY <1>3, <3>1, <3>2
  <2> QED BY <2>3, <2>4, <2>5
<1> QED BY <1>2, <1>3 DEF IsLayout

(* Where a name is, in terms of two directories only. *)
LEMMA PlaceIs ==
  ASSUME IsLayout(layout), NEW name \in Names
  PROVE  Place(name) = IF Apart(name) THEN layout.extensions \o SubSeq(name, 3, Len(name))
                       ELSE layout.data \o name
<1>1. name \in Path /\ name # << >> /\ Len(name) \in Nat \ {0}
  BY NamesArePaths
<1>2. CASE name[1] = "default-user"
  <2>1. ~IsPrefix(ThirdParty, name)
    <3>1. ASSUME IsPrefix(ThirdParty, name) PROVE FALSE
      <4>1. Len(ThirdParty) <= Len(name) /\ \A i \in 1 .. Len(ThirdParty) : ThirdParty[i] = name[i]
        BY <1>1, <3>1, ThirdPartyTyped, PrefixIff DEF Path
      <4>2. ThirdParty[1] = name[1]
        BY <4>1, ThirdPartyTyped
      <4> QED BY <1>2, <4>2, ThirdPartyTyped
    <3> QED BY <3>1
  <2>2. Place(name) = layout.user \o Tail(name)
    BY <1>2, <2>1 DEF Place, ThirdParty
  <2>4. layout.user = layout.data \o UserDir /\ UserDir \in Path /\ layout.data \in Path
    BY UserRoot, UserDirFacts
  <2>5. Tail(name) \in Path /\ name = UserDir \o Tail(name)
    BY <1>2, UserDirFacts
  <2>6. layout.data \o (UserDir \o Tail(name)) = (layout.data \o UserDir) \o Tail(name)
    BY <2>4, <2>5, PathAssociative
  <2> QED BY <2>1, <2>2, <2>4, <2>5, <2>6 DEF Apart
<1>3. CASE name[1] # "default-user" /\ IsPrefix(ThirdParty, name)
  <2>1. Place(name) = layout.extensions \o SubSeq(name, 3, Len(name))
    BY <1>3 DEF Place, ThirdParty
  <2>2. CASE layout.mode = "tauri-tavern"
    <3>1. layout.extensions = layout.data \o ThirdParty /\ layout.data \in Path
      BY <2>2, UserRoot DEF IsLayout, ThirdParty
    <3> DEFINE rest == SubSeq(name, Len(ThirdParty) + 1, Len(name))
    <3>2. rest \in Path /\ name = ThirdParty \o rest
      BY <1>1, <1>3, ThirdPartyTyped, PathSplit
    <3>3. rest = SubSeq(name, 3, Len(name))
      <4>1. Len(ThirdParty) + 1 = 3
        BY ThirdPartyTyped
      <4> QED BY <4>1, Zenon
    <3> HIDE DEF rest
    <3>4. layout.data \o (ThirdParty \o rest) = (layout.data \o ThirdParty) \o rest
      BY <3>1, <3>2, ThirdPartyTyped, PathAssociative
    <3> QED BY <2>1, <2>2, <3>1, <3>2, <3>3, <3>4 DEF Apart
  <2> QED BY <1>3, <2>1, <2>2 DEF Apart
<1>4. CASE name[1] # "default-user" /\ ~IsPrefix(ThirdParty, name)
  BY <1>4 DEF Place, ThirdParty, Apart
<1> QED BY <1>2, <1>3, <1>4

(* resolve_canonical_to_local finds a name where the application keeps it, *)
(* in each of the three layouts.                                           *)
THEOREM ResolveIsPlace ==
  ASSUME IsLayout(layout), NEW name \in Names
  PROVE  ResolveToLocal(name) = Place(name)
<1>1. name \in Path /\ name # << >> /\ Len(name) \in Nat \ {0}
  BY NamesArePaths
<1>4. IsPrefix(UserDir, name) <=> name[1] = "default-user"
  BY UserDirFacts
<1>5. layout.user = layout.data \o UserDir
  BY UserRoot, UserDirFacts
<1>6. CASE name[1] = "default-user" /\ name # UserDir
  <2>1. IsStrictPrefix(<<"default-user">>, name)
    BY <1>4, <1>6 DEF IsStrictPrefix, UserDir
  <2> QED BY <1>6, <2>1, MountsAre, Zenon DEF ResolveToLocal, Place
<1>7. CASE name = UserDir
  <2>1. ~IsPrefix(ThirdParty, name)
    <3>1. ASSUME IsPrefix(ThirdParty, name) PROVE FALSE
      <4>1. Len(ThirdParty) <= Len(name)
        BY <1>1, <3>1, ThirdPartyTyped, PathPrefix
      <4>2. Len(name) = 1
        BY <1>7, UserDirFacts
      <4> QED BY <4>1, <4>2, ThirdPartyTyped
    <3> QED BY <3>1
  <2>2. ~IsStrictPrefix(<<"default-user">>, name)
    BY <1>7 DEF IsStrictPrefix, UserDir
  <2>3. ResolveToLocal(name) = DataRoot \o name
    BY <2>1, <2>2, Zenon DEF ResolveToLocal, ThirdParty
  <2> QED BY <2>1, <2>3, PlaceIs, MountsAre DEF Apart
<1>8. CASE name[1] # "default-user"
  <2>1. ~IsStrictPrefix(<<"default-user">>, name)
    BY <1>4, <1>8 DEF IsStrictPrefix, UserDir
  <2> QED BY <1>8, <2>1, MountsAre, Zenon DEF ResolveToLocal, Place
<1> QED BY <1>6, <1>7, <1>8

(* The directory of the extensions is beside the data directory, or in it. *)
LEMMA ExtensionsApart ==
  ASSUME IsLayout(layout), layout.mode # "tauri-tavern"
  PROVE  /\ layout.extensions \in Path /\ layout.extensions # << >>
         /\ Len(layout.data) \in Nat \ {0} /\ Len(layout.data) <= Len(layout.extensions)
         /\ layout.extensions[Len(layout.data)] # layout.data[Len(layout.data)]
<1> DEFINE data == layout.data
           n == Len(data)
<1>1. /\ data \in Path /\ data # << >> /\ Front(data) \in Path /\ n = Len(Front(data)) + 1
      /\ Len(Front(data)) \in Nat /\ data[n] = "data"
  <2>1. data \in Path /\ data # << >>
    BY UserRoot
  <2>2. Front(data) \in Path /\ n = Len(Front(data)) + 1
    BY <2>1, FrontFacts
  <2>3. Len(Front(data)) \in Nat
    BY <2>2, PathPrefix
  <2>4. data[n] = "data"
    BY DEF IsLayout, Last
  <2> QED BY <2>1, <2>2, <2>3, <2>4
<1>2. PICK rest \in Path : /\ layout.extensions = Front(data) \o rest /\ Len(rest) >= 1
                           /\ rest[1] # "data" /\ Len(rest) \in Nat
  <2>1. "public" \in STRING /\ "scripts" \in STRING /\ "extensions" \in STRING /\ "third-party" \in STRING
    BY LiteralsAssumption
  <2>2. CASE layout.mode = "silly-tavern"
    <3> DEFINE rest == <<"public", "scripts", "extensions", "third-party">>
    <3>1. rest \in Path /\ Len(rest) >= 1 /\ Len(rest) \in Nat /\ rest[1] # "data"
      BY <2>1 DEF Path
    <3>2. layout.extensions = Front(data) \o rest
      BY <2>2 DEF IsLayout
    <3> HIDE DEF rest
    <3> QED BY <3>1, <3>2
  <2>3. CASE layout.mode = "silly-tavern-docker"
    <3> DEFINE rest == <<"extensions">>
    <3>1. rest \in Path /\ Len(rest) >= 1 /\ Len(rest) \in Nat /\ rest[1] # "data"
      BY <2>1 DEF Path
    <3>2. layout.extensions = Front(data) \o rest
      BY <2>3 DEF IsLayout
    <3> HIDE DEF rest
    <3> QED BY <3>1, <3>2
  <2> QED BY <2>2, <2>3 DEF IsLayout
<1>3. /\ layout.extensions \in Path /\ Len(layout.extensions) = Len(Front(data)) + Len(rest)
      /\ \A i \in 1 .. Len(rest) : layout.extensions[Len(Front(data)) + i] = rest[i]
  BY <1>1, <1>2, ConcatItems DEF Path
<1>4. n <= Len(layout.extensions) /\ n \in Nat \ {0}
  BY <1>1, <1>2, <1>3
<1>5. layout.extensions[n] = rest[1]
  <2>1. 1 \in 1 .. Len(rest)
    BY <1>2
  <2> QED BY <1>1, <1>3, <2>1
<1>6. layout.extensions # << >>
  <2>1. Len(<< >>) = 0
    OBVIOUS
  <2> QED BY <1>1, <1>4, <2>1
<1> QED BY <1>1, <1>2, <1>3, <1>4, <1>5, <1>6

(* A name has a place. *)
LEMMA PlaceTyped ==
  ASSUME IsLayout(layout), NEW name \in Names
  PROVE  Place(name) \in Path /\ Place(name) # << >>
<1>1. name \in Path /\ name # << >> /\ Len(name) \in Nat \ {0}
  BY NamesArePaths
<1>2. layout.data \in Path /\ layout.data # << >>
  BY UserRoot
<1>3. CASE Apart(name)
  <2> DEFINE rest == SubSeq(name, 3, Len(name))
  <2>1. rest \in Path
    <3>1. SubSeq(name, Len(ThirdParty) + 1, Len(name)) \in Path
      BY <1>1, <1>3, ThirdPartyTyped, PathSplit DEF Apart
    <3>2. Len(ThirdParty) + 1 = 3
      BY ThirdPartyTyped
    <3> QED BY <3>1, <3>2, Zenon
  <2>2. Place(name) = layout.extensions \o rest
    BY <1>3, PlaceIs
  <2>3. layout.extensions \in Path /\ layout.extensions # << >>
    BY <1>3, ExtensionsApart DEF Apart
  <2> HIDE DEF rest
  <2> QED BY <2>1, <2>2, <2>3 DEF Path
<1>4. CASE ~Apart(name)
  <2>1. Place(name) = layout.data \o name
    BY <1>4, PlaceIs
  <2> QED BY <1>1, <1>2, <2>1 DEF Path
<1> QED BY <1>3, <1>4

(* Where an extension is that is not in the data directory. *)
LEMMA ApartPlace ==
  ASSUME IsLayout(layout), NEW name \in Names, Apart(name)
  PROVE  \E rest \in Path : /\ name = ThirdParty \o rest
                            /\ Place(name) = layout.extensions \o rest
<1>1. name \in Path
  BY NamesArePaths
<1>2. Len(ThirdParty) + 1 = 3
  BY ThirdPartyTyped
<1>3. SubSeq(name, 3, Len(name)) \in Path /\ name = ThirdParty \o SubSeq(name, 3, Len(name))
  BY <1>1, <1>2, ThirdPartyTyped, PathSplit, Zenon DEF Apart
<1>4. Place(name) = layout.extensions \o SubSeq(name, 3, Len(name))
  BY PlaceIs
<1> QED BY <1>3, <1>4

(* What is under the place of a name is under the name. *)
LEMMA PlacePrefix ==
  ASSUME IsLayout(layout), NEW a \in Names, NEW b \in Names, IsPrefix(Place(a), Place(b))
  PROVE  IsPrefix(a, b)
<1>0. a \in Path /\ b \in Path /\ layout.data \in Path /\ Len(layout.data) \in Nat
  BY NamesArePaths, UserRoot, PathPrefix
<1> DEFINE n == Len(layout.data)
<1>1. CASE ~Apart(a) /\ ~Apart(b)
  <2>1. Place(a) = layout.data \o a /\ Place(b) = layout.data \o b
    BY <1>1, PlaceIs
  <2> QED BY <1>0, <2>1, PathJoin
<1>2. CASE Apart(a) /\ Apart(b)
  <2>1. PICK s \in Path : a = ThirdParty \o s /\ Place(a) = layout.extensions \o s
    BY <1>2, ApartPlace
  <2>2. PICK t \in Path : b = ThirdParty \o t /\ Place(b) = layout.extensions \o t
    BY <1>2, ApartPlace
  <2>3. layout.extensions \in Path
    BY <1>2, ExtensionsApart DEF Apart
  <2>4. IsPrefix(s, t)
    BY <2>1, <2>2, <2>3, PathJoin
  <2> QED BY <2>1, <2>2, <2>4, ThirdPartyTyped, PathJoin
<1>3. CASE Apart(a) # Apart(b)
  <2>1. PICK c \in {a, b} : Apart(c)
    BY <1>3 DEF Apart
  <2>2. PICK o \in {a, b} : ~Apart(o)
    BY <1>3 DEF Apart
  <2>3. PICK s \in Path : Place(c) = layout.extensions \o s
    BY <2>1, ApartPlace
  <2>4. Place(o) = layout.data \o o
    BY <2>2, PlaceIs
  <2>5. /\ layout.extensions \in Path /\ n \in 1 .. Len(layout.extensions) /\ n \in 1 .. n
        /\ layout.extensions[n] # layout.data[n]
    <3>1. /\ layout.extensions \in Path /\ n \in Nat \ {0} /\ n <= Len(layout.extensions)
          /\ layout.extensions[n] # layout.data[n]
      BY <2>1, ExtensionsApart DEF Apart
    <3>2. Len(layout.extensions) \in Nat
      BY <3>1, PathPrefix
    <3> QED BY <3>1, <3>2
  <2>6. Place(c)[n] = layout.extensions[n]
    <3>1. \A i \in 1 .. Len(layout.extensions) : (layout.extensions \o s)[i] = layout.extensions[i]
      BY <2>5, ConcatItems DEF Path
    <3> QED BY <2>3, <2>5, <3>1, Zenon
  <2>7. Place(o)[n] = layout.data[n] /\ o \in Path
    BY <1>0, <2>4, <2>5, ConcatItems DEF Path
  <2>8. \A i \in 1 .. Len(Place(a)) : Place(a)[i] = Place(b)[i]
    BY PlaceTyped, PrefixIff DEF Path
  <2>9. n \in 1 .. Len(Place(a))
    <3>1. Place(a) = layout.extensions \o s \/ Place(a) = layout.data \o o
      BY <1>3, <2>1, <2>2, <2>3, <2>4
    <3>2. Len(Place(a)) = Len(layout.extensions) + Len(s) \/ Len(Place(a)) = n + Len(o)
      BY <1>0, <2>5, <2>7, <3>1, PathConcat
    <3>3. Len(s) \in Nat /\ Len(o) \in Nat /\ Len(layout.extensions) \in Nat
      BY <2>5, <2>7, PathPrefix
    <3> HIDE DEF n
    <3> QED BY <1>0, <2>5, <3>2, <3>3
  <2> QED BY <1>3, <2>1, <2>2, <2>5, <2>6, <2>7, <2>8, <2>9
<1> QED BY <1>1, <1>2, <1>3 DEF Apart

(* Two names never share a place. *)
THEOREM PlaceInjective ==
  ASSUME IsLayout(layout), NEW a \in Names, NEW b \in Names, Place(a) = Place(b)
  PROVE  a = b
<1>1. Place(a) \in Path /\ IsPrefix(Place(a), Place(b)) /\ IsPrefix(Place(b), Place(a))
  BY PlaceTyped, PathPrefix
<1>2. IsPrefix(a, b) /\ IsPrefix(b, a) /\ a \in Path /\ b \in Path
  BY <1>1, PlacePrefix, NamesArePaths
<1>3. Len(a) = Len(b)
  <2>1. Len(a) <= Len(b) /\ Len(b) <= Len(a) /\ Len(a) \in Nat /\ Len(b) \in Nat
    BY <1>2, PathPrefix
  <2> QED BY <2>1
<1> QED BY <1>2, <1>3, PathPrefix

(* The scan roots are names. *)
LEMMA RootNamesAreNames == \A r \in RootNames : r \in Path /\ r \in Names /\ Len(r) \in 2 .. 4
<1> TAKE r \in RootNames
<1>1. r \in Path /\ Len(r) \in 2 .. 4
  BY RootsTyped, RootCases DEF Path
<1>2. r # << >>
  <2>1. Len(<< >>) = 0
    OBVIOUS
  <2> QED BY <1>1, <2>1
<1> QED BY <1>1, <1>2, PathsAreNames

(* Under a scan root names and places go together. *)
LEMMA PlaceBelow ==
  ASSUME IsLayout(layout), NEW r \in RootNames, NEW s \in Path
  PROVE  r \o s \in Names /\ Place(r \o s) = Place(r) \o s
<1>1. r \in Path /\ r \in Names /\ Len(r) \in 2 .. 4
  BY RootNamesAreNames
<1>2. r \o s \in Path /\ IsPrefix(r, r \o s) /\ r \o s # << >>
  <2>1. r \o s \in Path /\ IsPrefix(r, r \o s) /\ Len(r \o s) = Len(r) + Len(s) /\ Len(s) \in Nat
    BY <1>1, PathConcat, PathPrefix
  <2>2. Len(r \o s) # 0
    BY <1>1, <2>1
  <2>3. Len(<< >>) = 0
    OBVIOUS
  <2> QED BY <2>1, <2>2, <2>3
<1>3. r \o s \in Names
  BY <1>2, PathsAreNames
<1>4. Apart(r \o s) <=> Apart(r)
  <2>1. ASSUME IsPrefix(ThirdParty, r) PROVE IsPrefix(ThirdParty, r \o s)
    BY <1>1, <1>2, <2>1, ThirdPartyTyped, PathPrefix
  <2>2. ASSUME IsPrefix(ThirdParty, r \o s) PROVE IsPrefix(ThirdParty, r)
    <3>1. Len(ThirdParty) <= Len(r)
      <4>1. \A m \in 2 .. 4 : 2 <= m
        OBVIOUS
      <4> QED BY <1>1, <4>1, ThirdPartyTyped, Zenon
    <3> QED BY <1>1, <1>2, <2>2, <3>1, ThirdPartyTyped, PathPrefix
  <2> QED BY <2>1, <2>2 DEF Apart
<1>5. CASE Apart(r)
  <2>1. r = ThirdParty
    BY <1>5, ThirdPartyTyped, RootsBeside DEF Apart
  <2>2. layout.extensions \in Path
    BY <1>5, ExtensionsApart DEF Apart
  <2>3. PICK t \in Path : r \o s = ThirdParty \o t /\ Place(r \o s) = layout.extensions \o t
    BY <1>3, <1>4, <1>5, ApartPlace
  <2>4. t = s
    <3>1. SubSeq(ThirdParty \o t, Len(ThirdParty) + 1, Len(ThirdParty \o t)) = t
      BY ThirdPartyTyped, PathRest
    <3>2. SubSeq(r \o s, Len(r) + 1, Len(r \o s)) = s
      BY <1>1, PathRest
    <3> QED BY <2>1, <2>3, <3>1, <3>2, Zenon
  <2>5. PICK u \in Path : r = ThirdParty \o u /\ Place(r) = layout.extensions \o u
    BY <1>1, <1>5, ApartPlace
  <2>6. u = << >>
    <3>1. Len(ThirdParty) = Len(ThirdParty) + Len(u) /\ Len(u) \in Nat /\ Len(ThirdParty) = 2
      BY <2>1, <2>5, ThirdPartyTyped, PathConcat, PathPrefix
    <3>2. Len(u) = 0
      BY <3>1
    <3> QED BY <3>2 DEF Path
  <2>7. Place(r) = layout.extensions
    BY <2>2, <2>5, <2>6 DEF Path
  <2> QED BY <1>3, <2>3, <2>4, <2>7
<1>6. CASE ~Apart(r)
  <2>1. Place(r) = layout.data \o r /\ Place(r \o s) = layout.data \o (r \o s)
    BY <1>1, <1>3, <1>4, <1>6, PlaceIs
  <2>2. layout.data \o (r \o s) = (layout.data \o r) \o s
    BY <1>1, UserRoot, PathAssociative
  <2> QED BY <1>3, <2>1, <2>2
<1> QED BY <1>5, <1>6

(* Below a scan root the places of names are nested as the names are. *)
LEMMA UnderRoot ==
  ASSUME IsLayout(layout), NEW r \in RootNames, NEW a \in Names, NEW b \in Names,
         IsPrefix(r, a), IsPrefix(a, b)
  PROVE  IsPrefix(Place(a), Place(b))
<1>1. a \in Path /\ b \in Path /\ r \in Path /\ r \in Names /\ Place(r) \in Path
  BY NamesArePaths, RootNamesAreNames, PlaceTyped
<1>2. PICK s \in Path : a = r \o s
  BY <1>1, PathSplit
<1>3. IsPrefix(r, b)
  BY <1>1, PathPrefix
<1>4. PICK t \in Path : b = r \o t
  BY <1>1, <1>3, PathSplit
<1>5. IsPrefix(s, t)
  BY <1>1, <1>2, <1>4, PathJoin
<1>6. Place(a) = Place(r) \o s /\ Place(b) = Place(r) \o t
  BY <1>2, <1>4, PlaceBelow
<1> QED BY <1>1, <1>5, <1>6, PathJoin

(* The canonical name of an entry leads back to where it is. *)
LEMMA WireFacts ==
  ASSUME IsLayout(layout), root \in RootNames, NEW local \in Path, IsPrefix(Place(root), local)
  PROVE  /\ WirePath(local) \in Names /\ IsPrefix(root, WirePath(local))
         /\ Place(WirePath(local)) = local
         /\ Len(WirePath(local)) = Len(root) + (Len(local) - Len(Place(root)))
<1>1. root \in Path /\ root \in Names /\ Place(root) \in Path
  BY RootNamesAreNames, PlaceTyped
<1> DEFINE s == SubSeq(local, Len(Place(root)) + 1, Len(local))
<1>2. WirePath(local) = root \o s
  BY <1>1, ResolveIsPlace DEF WirePath
<1>3. s \in Path /\ local = Place(root) \o s /\ Len(s) = Len(local) - Len(Place(root))
  BY <1>1, PathSplit
<1> HIDE DEF s
<1>4. root \o s \in Names /\ Place(root \o s) = Place(root) \o s
  BY <1>3, PlaceBelow
<1>5. IsPrefix(root, root \o s) /\ Len(root \o s) = Len(root) + Len(s)
  BY <1>1, <1>3, PathConcat
<1> QED BY <1>2, <1>3, <1>4, <1>5

(* A component appended to a name is appended to its place. *)
LEMMA AppendPlace ==
  ASSUME IsLayout(layout), NEW r \in RootNames, NEW name \in Names, IsPrefix(r, name),
         NEW x \in STRING
  PROVE  Append(name, x) \in Names /\ Place(Append(name, x)) = Append(Place(name), x)
<1>1. name \in Path /\ r \in Path /\ r \in Names /\ Place(r) \in Path
  BY NamesArePaths, RootNamesAreNames, PlaceTyped
<1>2. PICK s \in Path : name = r \o s
  BY <1>1, PathSplit
<1>3. Append(s, x) \in Path
  BY AppendChild
<1>4. ASSUME NEW t \in Path PROVE Append(t \o s, x) = t \o Append(s, x)
  <2> DEFINE u == <<x>>
  <2>1. u \in Path /\ t \o s \in Path
    <3>1. u \in Path
      BY SingleComponent, Zenon DEF Path
    <3> QED BY <3>1, PathConcat
  <2>2. Append(t \o s, x) = (t \o s) \o u /\ Append(s, x) = s \o u
    BY <2>1, AppendIsConcat, Zenon DEF Path
  <2> HIDE DEF u
  <2>3. t \o (s \o u) = (t \o s) \o u
    BY <2>1, PathAssociative
  <2> QED BY <2>2, <2>3
<1>5. r \o Append(s, x) \in Names /\ Place(r \o Append(s, x)) = Place(r) \o Append(s, x)
  BY <1>3, PlaceBelow
<1>6. Place(name) = Place(r) \o s
  BY <1>2, PlaceBelow
<1> QED BY <1>1, <1>2, <1>4, <1>5, <1>6

(* Names do not move. *)
LEMMA PlaceFixed ==
  ASSUME input' = input, NEW name
  PROVE  Place(name)' = Place(name)
  BY DEF Place, layout

-----------------------------------------------------------------------------
(* The inductive invariant. *)

FilePlaces == {Place(name) : name \in Files}

Frame == [dir : Path, opened : BOOLEAN, files : SUBSET Path, dirs : SUBSET Path]

DelStates == {"idle", "pruning", "collecting", "emptying", "ok", "failed"}

Deletion == [at : DelStates, boundary : Path, current : Path,
             pending : Seq(Path), directories : Seq(Path)]

Types ==
  /\ input \in Cases
  /\ dirs \subseteq Path /\ IsFiniteSet(dirs)
  /\ status \in [RunFiles -> Statuses]
  /\ at \in {"idle", "roots", "reading", "ok", "failed", "refused"}
  /\ stack \in Seq(Frame)
  /\ del \in [Deleters -> Deletion]
  /\ edits \in 0 .. input.edits

(* The directories are a tree whose leaves may be files. *)
Tree ==
  /\ files \subseteq FilePlaces
  /\ dirs \cap FilePlaces = {}
  /\ \A p \in files \cup dirs : Ancestors(p) \subseteq dirs

Agenda ==
  /\ at = "idle" => BagToSet(entries) = {}
  /\ at \notin {"idle", "refused"} =>
       /\ ValidSelection(input.ids) /\ policy = FromSelection(input.ids)
       /\ ToSet(roots) \subseteq ToSet(policy.scan_roots)
  /\ roots \in RootSeqs
  /\ exact \subseteq policy.files
  /\ at = "reading" => root \in RootNames /\ root \notin ToSet(roots) /\ stack # << >>
  /\ at \in {"idle", "roots"} => stack = << >>
  /\ at = "ok" => roots = << >> /\ exact = {}

(* Files that were there when the scan began or later, and runs that had   *)
(* ended.                                                                  *)
Past ==
  /\ stable \subseteq files
  /\ at # "idle" => files \subseteq seen
  /\ \A run \in settled :
       run \in RunFiles /\ (Place(run) \in stable => status[run] = "terminal")

Ended == {run \in RunFiles : status[run] = "terminal" /\ Place(run) \in seen}

(* A directory being read, under the scan root ... *)
GoodFrame(f) ==
  /\ IsPrefix(Place(root), f.dir)
  /\ \A c \in f.files \cup f.dirs : Child(c, f.dir)
  /\ f.files \subseteq FilePlaces /\ f.dirs \cap FilePlaces = {}
  /\ ~f.opened => f.files = {} /\ f.dirs = {}

(* ... which the selection looks into, and which was not entered before    *)
(* the run it belongs to had ended ...                                     *)
Entered(f) ==
  /\ Walked(WirePath(f.dir))
  /\ IsAgentRunPath(WirePath(f.dir)) /\ Len(WirePath(f.dir)) > 5 =>
       Append(SubSeq(WirePath(f.dir), 1, 6), "run.json") \in Ended

(* ... and which is as it was read, as long as nothing is removed. *)
Current(f) == lost \/ (f.dir \in dirs /\ f.files \subseteq files /\ f.dirs \subseteq dirs)

(* The directory g is read on behalf of f, which does not list it any more. *)
Beneath(f, g) ==
  Len(f.dir) < Len(g.dir) /\ f.opened /\ \A d \in f.dirs : ~IsPrefix(d, g.dir)

Ordered(s) == \A i, j \in DOMAIN s : i < j => Beneath(s[i], s[j])

Spine ==
  at = "reading" =>
    /\ Ordered(stack)
    /\ \A f \in ToSet(stack) : GoodFrame(f) /\ Entered(f) /\ Current(f)

(* What the directories being read will still lead to. *)
Pending(f, path) ==
  \/ path \in f.files
  \/ \E d \in f.dirs : IsPrefix(d, path)
  \/ ~f.opened /\ IsPrefix(f.dir, path)

InStack(path) == at = "reading" /\ \E f \in ToSet(stack) : Pending(f, path)

InRoots(name) == \E r \in ToSet(roots) : IsPrefix(r, name)

Listed ==
  \A name \in BagToSet(entries) :
    /\ name \in Files
    /\ ContainsPath(policy, name)
    /\ Place(name) \in seen
    /\ RunEnded(name, Ended)
    /\ entries[name] = 1

Once ==
  \A name \in BagToSet(entries) :
    name \notin exact /\ ~InRoots(name) /\ ~InStack(Place(name))

Wanted(name) ==
  /\ ContainsPath(policy, name)
  /\ name \in policy.files \/ name \notin Links
  /\ Place(name) \in stable
  /\ RunEnded(name, {run \in settled : Place(run) \in stable})

Nothing ==
  at \in {"roots", "reading", "ok"} =>
    \A name \in Files : Wanted(name) =>
      \/ name \in BagToSet(entries)
      \/ name \in exact
      \/ name \notin policy.files /\ (InRoots(name) \/ InStack(Place(name)))

(* What a call of delete_file is about to remove lies under a scan root of *)
(* the catalog, and is not the root.                                       *)
PruneBelow(c) ==
  c.at \in {"pruning", "collecting", "emptying"} =>
    /\ \E id \in Ids : \E i \in DOMAIN DATASETS[id].scan_roots :
         c.boundary = Place(DATASETS[id].scan_roots[i])
    /\ c.boundary # << >>
    /\ IsPrefix(c.boundary, c.current)
    /\ c.at # "pruning" => c.boundary # c.current
    /\ c.at = "collecting" => c.pending # << >>
    /\ \A p \in ToSet(c.pending) \cup ToSet(c.directories) : IsPrefix(c.current, p)

Pruning == \A d \in Deleters : PruneBelow(del[d])

IInv == /\ Types /\ Tree /\ Agenda /\ Past /\ Spine /\ Listed /\ Once /\ Nothing /\ Pruning
        /\ FailureExplained

(* What the cases assume. *)
LEMMA LayoutOf == input \in Cases => IsLayout(layout) /\ input.ids \in Seq(STRING)
  BY CasesAssumption DEF layout

(* What the constants assume of the names of files. *)
LEMMA FileNames ==
  /\ Files \subseteq Names /\ Links \subseteq Files /\ Volatile \subseteq Files
  /\ Deletable \subseteq Files /\ RunFiles \subseteq Files
  /\ \A a, b \in Files : IsPrefix(a, b) => a = b
  BY NamesAssumption DEF RunFiles

(* Names do not move, and neither do the places of files. *)
LEMMA PlacesFixed ==
  ASSUME input' = input
  PROVE  /\ \A name : Place(name)' = Place(name)
         /\ FilePlaces' = FilePlaces
<1>1. \A name : Place(name)' = Place(name)
  BY DEF Place, layout
<1> QED BY <1>1 DEF FilePlaces

(* What everybody else does while a scan goes on. *)
Meanwhile ==
  /\ UNCHANGED <<input, policy, scan, settled>>
  /\ stable' \subseteq stable /\ seen \subseteq seen'
  /\ lost => lost'
  /\ lost' \/ (files \subseteq files' /\ dirs \subseteq dirs')
  /\ \A run \in RunFiles :
       Place(run) \in seen /\ status[run] # "active" => status'[run] = status[run]

(* What keeps a scan from ending well, besides removals and the files it   *)
(* finds where it expects a run or a directory.                            *)
Unlisted(name) ==
  /\ ContainsPath(policy, name) /\ Place(name) \in seen
  /\ name \in policy.files \/ name \notin Links

Unread ==
  \/ \E dir \in input.closed : Walked(dir)
  \/ \E name \in input.undecodable : name \notin Links /\ Walked(Front(name))

LEMMA ExplainedBy ==
  FailureExplained <=>
    (at = "failed" =>
       \/ lost
       \/ \E run \in RunFiles : Place(run) \in seen /\ status[run] = "broken"
       \/ \E i \in DOMAIN policy.scan_roots : Place(policy.scan_roots[i]) \in seen
       \/ \E name \in input.unlistable : Unlisted(name)
       \/ Unread)
  BY DEF FailureExplained, Unlisted, Unread

(* Such a thing stays in the way. *)
LEMMA UnreadFixed ==
  ASSUME input' = input, policy' = policy
  PROVE  Unread' = Unread /\ \A dir : Walked(dir)' = Walked(dir)
<1>1. \A dir : Walked(dir)' = Walked(dir)
  BY DEF Walked
<1> QED BY <1>1 DEF Unread

(* A run that had ended has still ended. *)
LEMMA MeanwhileEnded ==
  ASSUME Meanwhile
  PROVE  Ended \subseteq Ended'
<1>1. \A name : Place(name)' = Place(name)
  BY PlacesFixed DEF Meanwhile
<1>2. ASSUME NEW run \in Ended PROVE run \in Ended'
  <2>1. run \in RunFiles /\ status[run] = "terminal" /\ Place(run) \in seen
    BY DEF Ended
  <2>2. status'[run] = "terminal" /\ Place(run)' \in seen'
    BY <1>1, <2>1 DEF Meanwhile
  <2> QED BY <2>1, <2>2 DEF Ended
<1> QED BY <1>2

(* A run that has ended for one set of run files has for a larger one. *)
LEMMA EndedMore ==
  ASSUME NEW name, NEW A, NEW B, A \subseteq B, RunEnded(name, A)
  PROVE  RunEnded(name, B)
  BY DEF RunEnded

(* The others do not disturb the directories being read. *)
LEMMA MeanwhileSpine ==
  ASSUME Meanwhile, Spine
  PROVE  Spine'
<1>1. (\A name : Place(name)' = Place(name)) /\ FilePlaces' = FilePlaces
  BY PlacesFixed DEF Meanwhile
<1>2. at' = at /\ root' = root /\ stack' = stack /\ input' = input
  BY DEF Meanwhile, scan
<1>3. \A f : GoodFrame(f) => GoodFrame(f)'
  BY <1>1, <1>2 DEF GoodFrame
<1>4. \A local : WirePath(local)' = WirePath(local)
  BY <1>2 DEF WirePath, ResolveToLocal, DefaultUserRoot, ExtensionsRoot, DataRoot, layout
<1>5. \A f : Entered(f) => Entered(f)'
  <2>1. \A dir : Walked(dir)' = Walked(dir)
    BY DEF Walked, Meanwhile
  <2> QED BY <1>4, <2>1, MeanwhileEnded DEF Entered
<1>6. \A f : Current(f) => Current(f)'
  BY DEF Current, Meanwhile
<1> QED BY <1>2, <1>3, <1>5, <1>6 DEF Spine

(* The others do not disturb what was listed, nor what is still to come. *)
LEMMA MeanwhileLists ==
  ASSUME Meanwhile, Agenda, Listed, Once, Nothing, FailureExplained
  PROVE  Agenda' /\ Listed' /\ Once' /\ Nothing' /\ FailureExplained'
<1>1. \A name : Place(name)' = Place(name)
  BY PlacesFixed DEF Meanwhile
<1>2. /\ at' = at /\ roots' = roots /\ root' = root /\ stack' = stack /\ exact' = exact
      /\ entries' = entries /\ input' = input /\ policy' = policy
  BY DEF Meanwhile, scan
<1>3. Agenda'
  BY <1>2 DEF Agenda
<1>4. Listed'
  <2> SUFFICES ASSUME NEW name \in BagToSet(entries)
               PROVE  /\ name \in Files /\ ContainsPath(policy, name)
                      /\ Place(name) \in seen' /\ RunEnded(name, Ended') /\ entries[name] = 1
    BY <1>1, <1>2 DEF Listed
  <2> QED BY MeanwhileEnded, EndedMore DEF Listed, Meanwhile
<1>5. (\A path : InStack(path)' = InStack(path)) /\ (\A name : InRoots(name)' = InRoots(name))
  BY <1>2 DEF InStack, InRoots
<1>6. Once'
  BY <1>1, <1>2, <1>5 DEF Once
<1>7. Nothing'
  <2>1. ASSUME NEW name, Wanted(name)' PROVE Wanted(name)
    <3> DEFINE A == {run \in settled : Place(run) \in stable'}
               B == {run \in settled : Place(run) \in stable}
    <3>1. /\ ContainsPath(policy, name)
          /\ name \in policy.files \/ name \notin Links
          /\ Place(name) \in stable'
          /\ RunEnded(name, A)
      BY <1>1, <1>2, <2>1 DEF Wanted, Meanwhile
    <3>2. A \subseteq B /\ Place(name) \in stable
      BY <3>1 DEF Meanwhile
    <3> HIDE DEF A
    <3>3. RunEnded(name, B)
      BY <3>1, <3>2, EndedMore
    <3> QED BY <3>1, <3>2, <3>3 DEF Wanted
  <2> QED BY <1>1, <1>2, <1>5, <2>1 DEF Nothing
<1>8. FailureExplained'
  <2> SUFFICES ASSUME at = "failed" PROVE FailureExplained'
    BY <1>2 DEF FailureExplained
  <2>1. CASE lost
    BY <2>1 DEF FailureExplained, Meanwhile
  <2>2. ASSUME NEW run \in RunFiles, Place(run) \in seen, status[run] = "broken"
        PROVE FailureExplained'
    <3>1. Place(run)' \in seen' /\ status'[run] = "broken"
      BY <1>1, <2>2 DEF Meanwhile
    <3> QED BY <3>1 DEF FailureExplained
  <2>3. ASSUME NEW i \in DOMAIN policy.scan_roots, Place(policy.scan_roots[i]) \in seen
        PROVE FailureExplained'
    <3>1. Place(policy.scan_roots[i])' \in seen'
      BY <1>1, <1>2, <2>3 DEF Meanwhile
    <3> QED BY <1>2, <3>1 DEF FailureExplained
  <2>4. ASSUME NEW name \in input.unlistable, Unlisted(name) PROVE FailureExplained'
    <3>1. Unlisted(name)'
      BY <1>1, <1>2, <2>4 DEF Unlisted, Meanwhile
    <3> QED BY <1>2, <2>4, <3>1 DEF FailureExplained, Unlisted
  <2>5. CASE Unread
    <3>1. Unread'
      BY <1>2, <2>5, UnreadFixed
    <3> QED BY <3>1 DEF FailureExplained, Unread
  <2> QED BY <2>1, <2>2, <2>3, <2>4, <2>5, ExplainedBy
<1> QED BY <1>3, <1>4, <1>6, <1>7, <1>8

-----------------------------------------------------------------------------
(* The tree. *)

(* Finitely many names have finitely many places. *)
LEMMA FinitePlaces ==
  ASSUME NEW D \in SUBSET Names, IsFiniteSet(D), NEW f, f = [d \in D |-> Place(d)]
  PROVE  IsFiniteSet({Place(d) : d \in D})
<1>1. f \in Surjection(D, {Place(d) : d \in D})
  BY DEF Surjection
<1> QED BY <1>1, FS_Surjection DEF ExistsSurjection

(* A path has finitely many directories above it. *)
LEMMA FiniteAncestors ==
  ASSUME NEW p \in Path
  PROVE  IsFiniteSet(Ancestors(p))
<1> DEFINE n == Len(p) - 1
           f == [k \in 1 .. n |-> SubSeq(p, 1, k)]
<1>1. Len(p) \in Nat
  BY PathPrefix
<1>2. IsFiniteSet(1 .. n)
  BY <1>1, FS_Interval
<1>3. f \in Surjection(1 .. n, Ancestors(p))
  BY DEF Surjection, Ancestors
<1> QED BY <1>2, <1>3, FS_Surjection DEF ExistsSurjection

(* What the tree is made of. *)
LEMMA PathsOfTree ==
  ASSUME Types, Tree
  PROVE  /\ IsLayout(layout)
         /\ \A name \in Names : Place(name) \in Path /\ Place(name) # << >>
         /\ FilePlaces \subseteq Path \ {<< >>} /\ files \subseteq Path \ {<< >>} /\ dirs \subseteq Path
<1>1. IsLayout(layout)
  BY LayoutOf DEF Types
<1>2. \A name \in Names : Place(name) \in Path /\ Place(name) # << >>
  BY <1>1, PlaceTyped
<1> QED BY <1>1, <1>2, FileNames DEF FilePlaces, Types, Tree

(* What lies under a directory lies under one of its entries. *)
LEMMA EntryToward ==
  ASSUME Types, Tree, NEW dir \in Path, NEW path \in files \cup dirs, IsPrefix(dir, path),
         dir # path
  PROVE  \/ path \in FilesIn(dir)
         \/ \E c \in DirsIn(dir) : IsPrefix(c, path)
<1>1. path \in Path
  BY PathsOfTree
<1>2. PICK c \in Path : Child(c, dir) /\ IsPrefix(c, path) /\ (c = path \/ c \in Ancestors(path))
  BY <1>1, Toward
<1>3. c \in files \/ c \in dirs
  BY <1>2 DEF Tree
<1>4. Len(c) = Len(dir) + 1 /\ Front(c) = dir
  BY <1>2, ChildIff
<1>5. CASE c \in dirs
  BY <1>2, <1>4, <1>5 DEF DirsIn
<1>6. CASE c \in files /\ c \notin dirs
  <2>1. c = path
    BY <1>2, <1>6 DEF Tree
  <2> QED BY <1>4, <1>6, <2>1 DEF FilesIn
<1> QED BY <1>3, <1>5, <1>6

(* Removing an empty directory leaves a tree. *)
LEMMA RemoveEmptyDir ==
  ASSUME Types, Tree, NEW dir \in Path, IsEmpty(dir), dirs' = dirs \ {dir}, files' = files,
         input' = input
  PROVE  Tree' /\ dirs' \subseteq Path /\ IsFiniteSet(dirs')
<1>1. FilePlaces' = FilePlaces
  BY PlacesFixed
<1>2. ASSUME NEW p \in files \cup dirs PROVE dir \notin Ancestors(p)
  <2> SUFFICES ASSUME dir \in Ancestors(p) PROVE FALSE
    OBVIOUS
  <2>1. p \in Path
    BY PathsOfTree
  <2>2. IsPrefix(dir, p) /\ dir # p
    BY <2>1, AncestorsAre
  <2> QED BY <2>2, EntryToward DEF IsEmpty
<1>3. Tree'
  BY <1>1, <1>2 DEF Tree
<1>4. dirs' \subseteq Path /\ IsFiniteSet(dirs')
  BY FS_Subset DEF Types
<1> QED BY <1>3, <1>4

(* Removing files leaves a tree. *)
LEMMA RemoveSomeFile ==
  ASSUME Types, Tree, files' \subseteq files, dirs' = dirs, input' = input
  PROVE  Tree'
<1>1. FilePlaces' = FilePlaces
  BY PlacesFixed
<1> QED BY <1>1 DEF Tree

(* Adding a file with the directories above it leaves a tree. *)
LEMMA AddFile ==
  ASSUME Types, Tree, NEW name \in Files, files' = files \cup {Place(name)},
         dirs' = dirs \cup Ancestors(Place(name)), input' = input
  PROVE  Tree' /\ dirs' \subseteq Path /\ IsFiniteSet(dirs')
<1>1. FilePlaces' = FilePlaces
  BY PlacesFixed
<1> DEFINE p == Place(name)
<1>2. p \in Path /\ p \in FilePlaces /\ IsLayout(layout)
  BY PathsOfTree, FileNames DEF FilePlaces
<1>3. Ancestors(p) = {q \in Path : q # << >> /\ IsPrefix(q, p) /\ q # p}
  BY <1>2, AncestorsAre
<1>4. ASSUME NEW file \in Files, Place(file) \in Ancestors(p) PROVE FALSE
  <2>1. IsPrefix(Place(file), p) /\ Place(file) # p
    BY <1>3, <1>4
  <2>2. IsPrefix(file, name)
    BY <1>2, <2>1, PlacePrefix, FileNames
  <2> QED BY <2>1, <2>2, FileNames
<1> HIDE DEF p
<1>5. dirs' \cap FilePlaces = {}
  BY <1>4 DEF Tree, FilePlaces, p
<1>6. ASSUME NEW q \in Ancestors(p) PROVE Ancestors(q) \subseteq Ancestors(p)
  <2>1. q \in Path /\ IsPrefix(q, p) /\ q # p
    BY <1>3
  <2>2. ASSUME NEW o \in Ancestors(q) PROVE o \in Ancestors(p)
    <3>1. o \in Path /\ o # << >> /\ IsPrefix(o, q) /\ o # q
      BY <2>1, AncestorsAre
    <3>2. IsPrefix(o, p)
      BY <1>2, <2>1, <3>1, PathPrefix
    <3>3. o # p
      <4>1. Len(o) <= Len(q) /\ Len(q) <= Len(p) /\ Len(o) # Len(q)
        BY <1>2, <2>1, <3>1, PathPrefix
      <4>2. Len(o) \in Nat /\ Len(q) \in Nat /\ Len(p) \in Nat
        BY <1>2, <2>1, <3>1, PathPrefix
      <4> QED BY <4>1, <4>2
    <3> QED BY <1>3, <3>1, <3>2, <3>3
  <2> QED BY <2>2
<1>7. \A q \in files' \cup dirs' : Ancestors(q) \subseteq dirs'
  BY <1>6 DEF Tree, p
<1>8. files' \subseteq FilePlaces
  BY <1>2 DEF Tree, p
<1>9. dirs' \subseteq Path /\ IsFiniteSet(dirs')
  <2>1. IsFiniteSet(Ancestors(p)) /\ IsFiniteSet(dirs) /\ dirs \subseteq Path
    BY <1>2, FiniteAncestors DEF Types
  <2>2. IsFiniteSet(dirs \cup Ancestors(p))
    BY <2>1, FS_Union
  <2> QED BY <1>3, <2>1, <2>2 DEF p
<1> QED BY <1>1, <1>5, <1>7, <1>8, <1>9 DEF Tree

(* Where pruning stops is a scan root of the catalog. *)
LEMMA BoundaryIsRoot ==
  ASSUME NEW name \in Path, Prunable(name), name \notin SingleFiles
  PROVE  \E id \in Ids : \E i \in DOMAIN DATASETS[id].scan_roots :
           /\ PruneBoundary(name) = DATASETS[id].scan_roots[i]
           /\ PruneBoundary(name) \in RootNames
<1> DEFINE above == UNION {RootsAbove(id, name) : id \in Owners(name)}
<1>1. above # {}
  BY DEF Prunable
<1>2. ASSUME NEW r \in above
      PROVE  /\ r \in RootNames /\ IsPrefix(r, name)
             /\ \E id \in Ids : \E i \in DOMAIN DATASETS[id].scan_roots : r = DATASETS[id].scan_roots[i]
  <2>1. PICK id \in Owners(name) : r \in RootsAbove(id, name)
    OBVIOUS
  <2>2. id \in Ids
    BY IdsAre DEF Owners
  <2>3. r \in ToSet(DATASETS[id].scan_roots) /\ IsPrefix(r, name)
    BY <2>1 DEF RootsAbove, IsSameOrUnder
  <2>4. PICK i \in DOMAIN DATASETS[id].scan_roots : r = DATASETS[id].scan_roots[i]
    BY <2>3 DEF ToSet
  <2>5. r \in RootNames
    BY <2>2, <2>4, DatasetRoots
  <2> QED BY <2>2, <2>3, <2>4, <2>5
<1>3. \A r, s \in above : Len(s) <= Len(r)
  <2> SUFFICES ASSUME NEW r \in above, NEW s \in above PROVE Len(s) <= Len(r)
    OBVIOUS
  <2>1. r \in RootNames /\ s \in RootNames /\ IsPrefix(r, name) /\ IsPrefix(s, name)
    BY <1>2
  <2>2. r \in Path /\ s \in Path /\ Len(r) \in Nat /\ Len(s) \in Nat
    BY <2>1, RootNamesAreNames, PathPrefix
  <2>3. IsPrefix(r, s) \/ IsPrefix(s, r)
    BY <2>1, <2>2, PathPrefix
  <2>4. r = s
    BY <2>1, <2>3, RootsBeside
  <2> QED BY <2>2, <2>4
<1>4. PruneBoundary(name) = CHOOSE r \in above : \A other \in above : Len(other) <= Len(r)
  BY DEF PruneBoundary
<1> HIDE DEF above
<1>5. PruneBoundary(name) \in above
  BY <1>1, <1>3, <1>4
<1> QED BY <1>2, <1>5

-----------------------------------------------------------------------------
(* The application, and delete_file. *)

World == Types /\ Tree /\ Past /\ Pruning

(* Pruning depends on the calls of delete_file only. *)
LEMMA PruningFixed ==
  ASSUME Pruning, input' = input, del' = del
  PROVE  Pruning'
<1>1. \A name : Place(name)' = Place(name)
  BY PlacesFixed
<1> QED BY <1>1 DEF Pruning, PruneBelow

(* The application creates a file. *)
LEMMA CreateFileStep ==
  ASSUME World, NEW name \in Volatile, CreateFile(name)
  PROVE  World' /\ Meanwhile
<1>0. Types /\ Tree /\ Past /\ Pruning /\ name \in Files
  BY FileNames DEF World
<1>1. /\ edits < input.edits /\ edits' = edits + 1 /\ at \notin {"idle", "ok", "failed", "refused"}
      /\ Place(name) \notin files \cup seen
      /\ files' = files \cup {Place(name)} /\ dirs' = dirs \cup Ancestors(Place(name))
      /\ status' = IF name \in RunFiles THEN [status EXCEPT ![name] = "active"] ELSE status
      /\ seen' = seen \cup {Place(name)}
      /\ UNCHANGED <<input, policy, scan, del, stable, settled, lost>>
  BY DEF CreateFile, Edit, Scanning
<1>2. at' = at /\ stack' = stack /\ input' = input /\ del' = del
  BY <1>1 DEF scan
<1>3. Tree' /\ dirs' \subseteq Path /\ IsFiniteSet(dirs')
  BY <1>0, <1>1, <1>2, AddFile
<1>4. \A n : Place(n)' = Place(n)
  BY <1>2, PlacesFixed
<1>5. \A run \in RunFiles : Place(run) \in seen \cup files => status'[run] = status[run]
  <2> SUFFICES ASSUME NEW run \in RunFiles, Place(run) \in seen \cup files
               PROVE  status'[run] = status[run]
    OBVIOUS
  <2>1. run # name
    BY <1>1
  <2> QED BY <1>0, <1>1, <2>1 DEF Types
<1>6. status' \in [RunFiles -> Statuses]
  BY <1>0, <1>1 DEF Types, Statuses
<1>7. edits' \in 0 .. input.edits
  <2>1. edits \in 0 .. input.edits /\ input.edits \in Nat
    BY <1>0, CasesAssumption DEF Types
  <2> QED BY <1>1, <2>1
<1>8. Types'
  BY <1>0, <1>2, <1>3, <1>6, <1>7 DEF Types
<1>9. Past'
  <2>1. \A run \in settled : Place(run) \in stable => status'[run] = "terminal"
    BY <1>0, <1>5 DEF Past
  <2> QED BY <1>0, <1>1, <1>2, <1>4, <2>1 DEF Past
<1>10. Pruning'
  BY <1>0, <1>2, PruningFixed
<1>11. Meanwhile
  BY <1>1, <1>5 DEF Meanwhile
<1> QED BY <1>3, <1>8, <1>9, <1>10, <1>11 DEF World

(* The application removes a file. *)
LEMMA RemoveFileStep ==
  ASSUME World, NEW name \in Volatile, RemoveFile(name)
  PROVE  World' /\ Meanwhile
<1>0. Types /\ Tree /\ Past /\ Pruning
  BY DEF World
<1>1. /\ edits < input.edits /\ edits' = edits + 1
      /\ files' = files \ {Place(name)} /\ stable' = stable \ {Place(name)} /\ lost' = TRUE
      /\ UNCHANGED <<input, policy, dirs, status, scan, del, settled, seen>>
  BY DEF RemoveFile, Edit
<1>2. at' = at /\ stack' = stack /\ input' = input /\ del' = del
  BY <1>1 DEF scan
<1>3. Tree'
  BY <1>0, <1>1, <1>2, RemoveSomeFile
<1>4. \A n : Place(n)' = Place(n)
  BY <1>2, PlacesFixed
<1>7. edits' \in 0 .. input.edits
  <2>1. edits \in 0 .. input.edits /\ input.edits \in Nat
    BY <1>0, CasesAssumption DEF Types
  <2> QED BY <1>1, <2>1
<1>8. Types'
  BY <1>0, <1>1, <1>2, <1>7 DEF Types
<1>9. Past'
  BY <1>0, <1>1, <1>2, <1>4 DEF Past
<1>10. Pruning'
  BY <1>0, <1>2, PruningFixed
<1>11. Meanwhile
  BY <1>1 DEF Meanwhile
<1> QED BY <1>3, <1>8, <1>9, <1>10, <1>11 DEF World

(* A run ends. *)
LEMMA EndRunStep ==
  ASSUME World, NEW name \in RunFiles, EndRun(name)
  PROVE  World' /\ Meanwhile
<1>0. Types /\ Tree /\ Past /\ Pruning
  BY DEF World
<1>1. /\ edits < input.edits /\ edits' = edits + 1 /\ status[name] = "active"
      /\ status' = [status EXCEPT ![name] = "terminal"]
      /\ UNCHANGED <<input, policy, files, dirs, scan, del, history>>
  BY DEF EndRun, Edit
<1>2. /\ at' = at /\ stack' = stack /\ input' = input /\ del' = del /\ stable' = stable
      /\ settled' = settled /\ seen' = seen /\ lost' = lost
  BY <1>1 DEF scan, history
<1>3. Tree'
  BY <1>0, <1>1, <1>2, RemoveSomeFile
<1>4. \A n : Place(n)' = Place(n)
  BY <1>2, PlacesFixed
<1>5. \A run \in RunFiles : status[run] # "active" => status'[run] = status[run]
  BY <1>0, <1>1 DEF Types
<1>7. edits' \in 0 .. input.edits
  <2>1. edits \in 0 .. input.edits /\ input.edits \in Nat
    BY <1>0, CasesAssumption DEF Types
  <2> QED BY <1>1, <2>1
<1>8. Types'
  BY <1>0, <1>1, <1>2, <1>7 DEF Types, Statuses
<1>9. Past'
  <2>1. \A run \in settled : Place(run) \in stable => status'[run] = "terminal"
    BY <1>0, <1>5 DEF Past
  <2> QED BY <1>0, <1>1, <1>2, <1>4, <2>1 DEF Past
<1>10. Pruning'
  BY <1>0, <1>2, PruningFixed
<1>11. Meanwhile
  BY <1>1, <1>2, <1>5 DEF Meanwhile
<1> QED BY <1>3, <1>8, <1>9, <1>10, <1>11 DEF World

(* What the steps of delete_file have in common. *)
LEMMA DeletionStep ==
  ASSUME World, NEW d \in Deleters, NEW c \in Deletion, del' = [del EXCEPT ![d] = c],
         PruneBelow(c), Tree', dirs' \subseteq dirs, files' \subseteq files,
         stable' \subseteq stable, stable' \subseteq files', lost => lost',
         lost' \/ (files' = files /\ dirs' = dirs),
         UNCHANGED <<input, policy, status, scan, edits, settled, seen>>
  PROVE  World' /\ Meanwhile
<1>0. Types /\ Tree /\ Past /\ Pruning
  BY DEF World
<1>1. at' = at /\ stack' = stack /\ input' = input
  BY DEF scan
<1>2. \A n : Place(n)' = Place(n)
  BY PlacesFixed
<1>3. IsFiniteSet(dirs') /\ dirs' \subseteq Path
  BY <1>0, FS_Subset DEF Types
<1>4. Types'
  BY <1>0, <1>1, <1>3 DEF Types
<1>5. Past'
  BY <1>0, <1>1, <1>2 DEF Past
<1>6. \A e : PruneBelow(e) => PruneBelow(e)'
  BY <1>2 DEF PruneBelow
<1>7. Pruning'
  <2> SUFFICES ASSUME NEW e \in Deleters PROVE PruneBelow(del'[e])
    BY <1>6 DEF Pruning
  <2>1. CASE e = d
    <3>1. del'[e] = c
      BY <1>0, <2>1 DEF Types
    <3> QED BY <3>1
  <2>2. CASE e # d
    <3>1. del'[e] = del[e]
      BY <1>0, <2>2 DEF Types
    <3> QED BY <1>0, <3>1 DEF Pruning
  <2> QED BY <2>1, <2>2
<1>8. Meanwhile
  BY DEF Meanwhile
<1> QED BY <1>4, <1>5, <1>7, <1>8 DEF World

(* The empty path is typed. *)
LEMMA EmptyPath == << >> \in Path /\ << >> \in Seq(Path)
  BY DEF Path

(* A call of delete_file that is over. *)
LEMMA IdleDeletion ==
  ASSUME NEW result \in {"ok", "failed"}
  PROVE  [Idle EXCEPT !.at = result] \in Deletion /\ PruneBelow([Idle EXCEPT !.at = result])
  BY EmptyPath DEF Idle, Deletion, DelStates, PruneBelow

(* delete_file removes a file and begins to prune, below its boundary. *)
LEMMA DeleteFileStep ==
  ASSUME World, NEW d \in Deleters, DeleteFile(d)
  PROVE  World' /\ Meanwhile
<1>0. Types /\ Tree /\ Past /\ Pruning
  BY DEF World
<1>1. /\ UNCHANGED <<policy, dirs, status, scan, edits, settled, seen>> /\ input' = input
  BY DEF DeleteFile
<1> DEFINE local(n) == ResolveToLocal(n)
           boundary(n) == ResolveToLocal(PruneBoundary(n))
           allowed(n) == Prunable(n) /\ (n \notin SingleFiles => IsPrefix(boundary(n), Front(local(n))))
           started(n) == [Idle EXCEPT !.at = "pruning", !.boundary = boundary(n),
                                      !.current = Front(local(n))]
<1>2. PICK name \in Deletable :
        \/ End(d, "failed") /\ UNCHANGED <<files, stable, lost>>
        \/ /\ allowed(name)
           /\ files' = files \ {local(name)} /\ stable' = stable \ {local(name)}
           /\ lost' = (lost \/ local(name) \in files)
           /\ IF name \in SingleFiles THEN End(d, "ok")
              ELSE del' = [del EXCEPT ![d] = started(name)]
  BY DEF DeleteFile
<1>3. IsLayout(layout) /\ name \in Names /\ name \in Path
  BY <1>0, PathsOfTree, FileNames, NamesArePaths
<1> DEFINE p == local(name)
<1>4. /\ files' \subseteq files /\ stable' \subseteq stable /\ stable' \subseteq files'
      /\ (lost => lost') /\ (lost' \/ files' = files)
  <2>1. \/ UNCHANGED <<files, stable, lost>>
        \/ files' = files \ {p} /\ stable' = stable \ {p} /\ lost' = (lost \/ p \in files)
    BY <1>2
  <2> HIDE DEF p
  <2>2. files' \subseteq files /\ stable' \subseteq stable /\ stable' \subseteq files'
    BY <1>0, <2>1, Zenon DEF Past
  <2>3. lost => lost'
    BY <2>1, Zenon
  <2>4. (p \notin files => files \ {p} = files) /\ (p \in files \/ p \notin files)
    OBVIOUS
  <2>5. lost' \/ files' = files
    BY <2>1, <2>4, Zenon
  <2> QED BY <2>2, <2>3, <2>5
<1>5. Tree'
  BY <1>0, <1>1, <1>4, RemoveSomeFile
<1>6. \E c \in Deletion : del' = [del EXCEPT ![d] = c] /\ PruneBelow(c)
  <2>1. CASE End(d, "failed")
    BY <2>1, IdleDeletion DEF End
  <2>2. CASE allowed(name) /\ name \in SingleFiles /\ End(d, "ok")
    BY <2>2, IdleDeletion DEF End
  <2>3. CASE allowed(name) /\ name \notin SingleFiles /\ del' = [del EXCEPT ![d] = started(name)]
    <3>1. PICK id \in Ids : \E i \in DOMAIN DATASETS[id].scan_roots :
             /\ PruneBoundary(name) = DATASETS[id].scan_roots[i]
             /\ PruneBoundary(name) \in RootNames
      BY <1>3, <2>3, BoundaryIsRoot
    <3>2. PICK i \in DOMAIN DATASETS[id].scan_roots :
             /\ PruneBoundary(name) = DATASETS[id].scan_roots[i]
             /\ PruneBoundary(name) \in RootNames
      BY <3>1
    <3>3. /\ boundary(name) = Place(DATASETS[id].scan_roots[i])
          /\ boundary(name) \in Path /\ boundary(name) # << >>
      BY <1>3, <3>2, ResolveIsPlace, RootNamesAreNames, PlaceTyped
    <3>4. local(name) \in Path /\ local(name) # << >>
      BY <1>3, ResolveIsPlace, PlaceTyped
    <3>5. Front(local(name)) \in Path
      BY <3>4, FrontFacts
    <3>6. IsPrefix(boundary(name), Front(local(name)))
      BY <2>3
    <3> DEFINE c == started(name)
    <3>7. /\ c \in Deletion /\ c.at = "pruning" /\ c.boundary = boundary(name)
          /\ c.current = Front(local(name)) /\ c.pending = << >> /\ c.directories = << >>
      BY <3>3, <3>5, EmptyPath DEF Idle, Deletion, DelStates
    <3>8. ToSet(c.pending) \cup ToSet(c.directories) = {}
      BY <3>7 DEF ToSet
    <3> HIDE DEF c, boundary, local
    <3>9. PruneBelow(c)
      BY <3>2, <3>3, <3>6, <3>7, <3>8 DEF PruneBelow
    <3> QED BY <2>3, <3>7, <3>9 DEF c
  <2> QED BY <1>2, <2>1, <2>2, <2>3
<1> QED BY <1>1, <1>4, <1>5, <1>6, DeletionStep

-----------------------------------------------------------------------------
(* Pruning. *)

(* A sequence, its last item and those before. *)
LEMMA SeqTop ==
  ASSUME NEW S, NEW s \in Seq(S), s # << >>
  PROVE  /\ Front(s) \in Seq(S) /\ Last(s) \in S /\ Len(s) \in Nat \ {0}
         /\ Len(Front(s)) = Len(s) - 1
         /\ \A i \in 1 .. Len(s) - 1 : Front(s)[i] = s[i]
         /\ ToSet(s) = ToSet(Front(s)) \cup {Last(s)}
<1>1. Len(s) \in Nat \ {0}
  OBVIOUS
<1>2. /\ Front(s) \in Seq(S) /\ Len(Front(s)) = Len(s) - 1
      /\ \A i \in 1 .. Len(s) - 1 : Front(s)[i] = s[i]
  <2> DEFINE n == Len(s) - 1
  <2>1. n \in 0 .. Len(s)
    BY <1>1
  <2> HIDE DEF n
  <2>2. /\ SubSeq(s, 1, n) \in Seq(S) /\ Len(SubSeq(s, 1, n)) = n
        /\ \A i \in 1 .. n : SubSeq(s, 1, n)[i] = s[i]
    BY <1>1, <2>1
  <2> QED BY <2>2 DEF Front, n
<1>3. Last(s) \in S
  BY <1>1 DEF Last
<1>4. ToSet(s) = ToSet(Front(s)) \cup {Last(s)}
  <2>1. DOMAIN s = 1 .. Len(s) /\ DOMAIN Front(s) = 1 .. Len(s) - 1
    BY <1>2
  <2>2. \A i \in 1 .. Len(s) : i \in 1 .. Len(s) - 1 \/ i = Len(s)
    BY <1>1
  <2>3. Len(s) \in 1 .. Len(s) /\ \A i \in 1 .. Len(s) - 1 : i \in 1 .. Len(s)
    BY <1>1
  <2> QED BY <1>2, <2>1, <2>2, <2>3 DEF ToSet, Last
<1> QED BY <1>1, <1>2, <1>3, <1>4

(* The items of an appended sequence, as a set. *)
LEMMA AppendSet ==
  ASSUME NEW S, NEW s \in Seq(S), NEW x \in S
  PROVE  Append(s, x) \in Seq(S) /\ ToSet(Append(s, x)) = ToSet(s) \cup {x}
<1>1. /\ Append(s, x) \in Seq(S) /\ Len(Append(s, x)) = Len(s) + 1
      /\ Append(s, x)[Len(s) + 1] = x /\ \A i \in 1 .. Len(s) : Append(s, x)[i] = s[i]
  BY AppendItems
<1>2. DOMAIN s = 1 .. Len(s) /\ DOMAIN Append(s, x) = 1 .. Len(s) + 1 /\ Len(s) \in Nat
  BY <1>1
<1>3. \A i \in 1 .. Len(s) + 1 : i \in 1 .. Len(s) \/ i = Len(s) + 1
  BY <1>2
<1>4. Len(s) + 1 \in 1 .. Len(s) + 1 /\ \A i \in 1 .. Len(s) : i \in 1 .. Len(s) + 1
  BY <1>2
<1> QED BY <1>1, <1>2, <1>3, <1>4 DEF ToSet

(* The items of a concatenation, as a set. *)
LEMMA ConcatSet ==
  ASSUME NEW S, NEW s \in Seq(S), NEW t \in Seq(S)
  PROVE  s \o t \in Seq(S) /\ ToSet(s \o t) \subseteq ToSet(s) \cup ToSet(t)
<1>1. /\ s \o t \in Seq(S) /\ Len(s \o t) = Len(s) + Len(t)
      /\ \A i \in 1 .. Len(s) : (s \o t)[i] = s[i]
      /\ \A i \in 1 .. Len(t) : (s \o t)[Len(s) + i] = t[i]
  BY ConcatItems
<1>2. ASSUME NEW i \in DOMAIN (s \o t) PROVE (s \o t)[i] \in ToSet(s) \cup ToSet(t)
  <2>1. i \in 1 .. Len(s) + Len(t) /\ Len(s) \in Nat /\ Len(t) \in Nat
    BY <1>1
  <2>2. CASE i <= Len(s)
    <3>1. i \in DOMAIN s /\ (s \o t)[i] = s[i]
      BY <1>1, <2>1, <2>2
    <3> QED BY <3>1 DEF ToSet
  <2>3. CASE i > Len(s)
    <3> DEFINE j == i - Len(s)
    <3>1. j \in 1 .. Len(t) /\ i = Len(s) + j
      BY <2>1, <2>3
    <3> HIDE DEF j
    <3>2. j \in DOMAIN t /\ (s \o t)[i] = t[j]
      BY <1>1, <3>1
    <3> QED BY <3>2 DEF ToSet
  <2> QED BY <2>1, <2>2, <2>3
<1> QED BY <1>1, <1>2 DEF ToSet

(* Every directory a step removes lies below a scan root of the catalog. *)
OnlyBelowRoots ==
  \A dir \in dirs \ dirs' :
    \E id \in DOMAIN DATASETS : \E i \in DOMAIN DATASETS[id].scan_roots :
      IsStrictPrefix(Place(DATASETS[id].scan_roots[i]), dir)

(* A directory below the boundary of a call lies below a scan root. *)
LEMMA BelowBoundary ==
  ASSUME NEW c \in Deletion, PruneBelow(c), c.at \in {"pruning", "collecting", "emptying"},
         NEW dir, IsPrefix(c.boundary, dir), dir # c.boundary, dirs' = dirs \ {dir}
  PROVE  OnlyBelowRoots
<1>1. PICK id \in Ids : \E i \in DOMAIN DATASETS[id].scan_roots :
         c.boundary = Place(DATASETS[id].scan_roots[i])
  BY DEF PruneBelow
<1>2. PICK i \in DOMAIN DATASETS[id].scan_roots : c.boundary = Place(DATASETS[id].scan_roots[i])
  BY <1>1
<1>3. IsStrictPrefix(Place(DATASETS[id].scan_roots[i]), dir)
  BY <1>2 DEF IsStrictPrefix
<1> QED BY <1>1, <1>3, IdsAre DEF OnlyBelowRoots

(* One directory up. *)
LEMMA AboveFacts ==
  ASSUME World, NEW d \in Deleters, del[d].at \in {"pruning", "collecting", "emptying"},
         del[d].current # del[d].boundary, Above(d)
  PROVE  \E c \in Deletion : del' = [del EXCEPT ![d] = c] /\ PruneBelow(c)
<1> DEFINE b == del[d]
           c == [b EXCEPT !.at = "pruning", !.current = Front(b.current)]
<1>1. b \in Deletion /\ PruneBelow(b) /\ b.at \in {"pruning", "collecting", "emptying"}
      /\ b.current # b.boundary
  BY DEF World, Types, Pruning
<1>2. del' = [del EXCEPT ![d] = c]
  BY <1>1 DEF Above, World, Types, Deletion
<1>3. /\ b.boundary \in Path /\ b.current \in Path /\ IsPrefix(b.boundary, b.current)
      /\ b.boundary # << >> /\ \A p \in ToSet(b.pending) \cup ToSet(b.directories) : IsPrefix(b.current, p)
      /\ ToSet(b.pending) \cup ToSet(b.directories) \subseteq Path
  <2>1. b.pending \in Seq(Path) /\ b.directories \in Seq(Path)
    BY <1>1 DEF Deletion
  <2>2. ToSet(b.pending) \cup ToSet(b.directories) \subseteq Path
    BY <2>1 DEF ToSet
  <2> QED BY <1>1, <2>2 DEF PruneBelow, Deletion
<1>4. b.current # << >>
  <2>1. Len(b.boundary) <= Len(b.current) /\ Len(b.boundary) \in Nat
    BY <1>3, PathPrefix
  <2>2. Len(b.boundary) # 0
    BY <1>3 DEF Path
  <2>3. Len(<< >>) = 0
    OBVIOUS
  <2> HIDE DEF b
  <2> QED BY <2>1, <2>2, <2>3
<1>5. /\ Front(b.current) \in Path /\ IsPrefix(Front(b.current), b.current)
      /\ IsPrefix(b.boundary, Front(b.current))
  BY <1>1, <1>3, <1>4, FrontFacts
<1>6. /\ c \in Deletion /\ c.at = "pruning" /\ c.boundary = b.boundary
      /\ c.current = Front(b.current) /\ c.pending = b.pending /\ c.directories = b.directories
  BY <1>1, <1>5 DEF Deletion, DelStates
<1> HIDE DEF c
<1>7. \A p \in ToSet(c.pending) \cup ToSet(c.directories) : IsPrefix(c.current, p)
  <2> SUFFICES ASSUME NEW p \in ToSet(b.pending) \cup ToSet(b.directories)
               PROVE  IsPrefix(Front(b.current), p)
    BY <1>6
  <2> QED BY <1>3, <1>5, PathPrefix
<1>8. PruneBelow(c)
  BY <1>1, <1>5, <1>6, <1>7 DEF PruneBelow
<1> QED BY <1>2, <1>6, <1>8

(* prune_fileless_ancestors goes one directory up, and removes nothing     *)
(* above the boundary.                                                     *)
LEMMA PruneStepStep ==
  ASSUME World, NEW d \in Deleters, PruneStep(d)
  PROVE  World' /\ Meanwhile /\ OnlyBelowRoots
<1> DEFINE c == del[d]
<1>0. Types /\ Tree /\ Past /\ Pruning
  BY DEF World
<1>1. /\ UNCHANGED <<input, policy, files, status, scan, edits, stable, settled, seen>>
      /\ c.at = "pruning" /\ c \in Deletion /\ PruneBelow(c) /\ input' = input
      /\ files' = files /\ stable' = stable
  BY <1>0 DEF PruneStep, Types, Pruning
<1>2. c.current \in Path /\ IsPrefix(c.boundary, c.current) /\ stable \subseteq files
  BY <1>0, <1>1 DEF PruneBelow, Deletion, Past
<1>3. CASE dirs' = dirs /\ lost' = lost /\ \E e \in Deletion : del' = [del EXCEPT ![d] = e] /\ PruneBelow(e)
  <2>1. Tree'
    BY <1>0, <1>1, <1>3, RemoveSomeFile
  <2>2. OnlyBelowRoots
    BY <1>3 DEF OnlyBelowRoots
  <2>3. PICK e \in Deletion : del' = [del EXCEPT ![d] = e] /\ PruneBelow(e)
    BY <1>3
  <2>4. World' /\ Meanwhile
    BY <1>1, <1>2, <1>3, <2>1, <2>3, DeletionStep
  <2> QED BY <2>2, <2>4
<1>4. CASE c.current = c.boundary /\ End(d, "ok") /\ UNCHANGED <<dirs, lost>>
  <2>1. \E e \in Deletion : del' = [del EXCEPT ![d] = e] /\ PruneBelow(e)
    BY <1>4, IdleDeletion DEF End
  <2> QED BY <1>3, <1>4, <2>1
<1>5. CASE c.current # c.boundary /\ c.current \notin dirs /\ Above(d) /\ UNCHANGED <<dirs, lost>>
  <2>1. \E e \in Deletion : del' = [del EXCEPT ![d] = e] /\ PruneBelow(e)
    BY <1>1, <1>5, AboveFacts
  <2> QED BY <1>3, <1>5, <2>1
<1>6. CASE c.current # c.boundary /\ c.current \in dirs /\ IsEmpty(c.current) /\ Above(d) /\ RemoveDir(c.current)
  <2>1. PICK e \in Deletion : del' = [del EXCEPT ![d] = e] /\ PruneBelow(e)
    BY <1>1, <1>6, AboveFacts
  <2>2. dirs' = dirs \ {c.current} /\ lost'
    BY <1>6 DEF RemoveDir
  <2>3. Tree'
    BY <1>0, <1>1, <1>2, <1>6, <2>2, RemoveEmptyDir
  <2>4. OnlyBelowRoots
    BY <1>1, <1>2, <1>6, <2>2, BelowBoundary
  <2>5. dirs' \subseteq dirs
    BY <2>2
  <2>6. World' /\ Meanwhile
    BY <1>1, <1>2, <2>1, <2>2, <2>3, <2>5, DeletionStep
  <2> QED BY <2>4, <2>6
<1>7. CASE /\ c.current # c.boundary
           /\ del' = [del EXCEPT ![d].at = "collecting", ![d].pending = <<c.current>>]
           /\ UNCHANGED <<dirs, lost>>
  <2> DEFINE e == [c EXCEPT !.at = "collecting", !.pending = <<c.current>>]
  <2>1. del' = [del EXCEPT ![d] = e]
    BY <1>0, <1>1, <1>7 DEF Types, Deletion
  <2>2. <<c.current>> \in Seq(Path) /\ <<c.current>> # << >> /\ ToSet(<<c.current>>) = {c.current}
    BY <1>2 DEF ToSet
  <2>3. /\ e \in Deletion /\ e.at = "collecting" /\ e.boundary = c.boundary
        /\ e.current = c.current /\ e.pending = <<c.current>> /\ e.directories = c.directories
    BY <1>1, <2>2 DEF Deletion, DelStates
  <2> HIDE DEF e
  <2>4. IsPrefix(c.current, c.current)
    BY <1>2, PathPrefix
  <2>5. PruneBelow(e)
    BY <1>1, <1>7, <2>2, <2>3, <2>4 DEF PruneBelow
  <2> QED BY <1>3, <1>7, <2>1, <2>3, <2>5
<1> QED BY <1>4, <1>5, <1>6, <1>7 DEF PruneStep

(* A step that changes nothing but the call of delete_file. *)
LEMMA OnlyDeletion ==
  ASSUME World, NEW d \in Deleters, NEW e \in Deletion, del' = [del EXCEPT ![d] = e], PruneBelow(e),
         UNCHANGED <<input, policy, files, dirs, status, scan, edits, history>>
  PROVE  World' /\ Meanwhile /\ OnlyBelowRoots
<1>0. Types /\ Tree /\ Past /\ Pruning
  BY DEF World
<1>1. /\ files' = files /\ dirs' = dirs /\ input' = input /\ stable' = stable /\ settled' = settled
      /\ seen' = seen /\ lost' = lost /\ stable \subseteq files
  BY <1>0 DEF history, Past
<1>2. Tree'
  BY <1>0, <1>1, RemoveSomeFile
<1>3. World' /\ Meanwhile
  BY <1>1, <1>2, DeletionStep
<1> QED BY <1>1, <1>3 DEF OnlyBelowRoots

(* The entries of a directory in some order. *)
LEMMA OrderTyped ==
  ASSUME Types, NEW dir, NEW order \in SetToSeqs(DirsIn(dir))
  PROVE  order \in Seq(Path) /\ ToSet(order) \subseteq DirsIn(dir)
<1>1. DirsIn(dir) \subseteq dirs /\ IsFiniteSet(dirs) /\ dirs \subseteq Path
  BY DEF DirsIn, Types
<1>2. IsFiniteSet(DirsIn(dir))
  BY <1>1, FS_Subset
<1>3. Cardinality(DirsIn(dir)) \in Nat
  BY <1>2, FS_CardinalityType
<1>4. order \in [1 .. Cardinality(DirsIn(dir)) -> DirsIn(dir)]
  BY DEF SetToSeqs
<1>5. order \in Seq(DirsIn(dir))
  BY <1>3, <1>4, SMTT(40)
<1> QED BY <1>1, <1>5 DEF ToSet

(* collect_fileless_tree visits a directory, and removes nothing. *)
LEMMA CollectDirStep ==
  ASSUME World, NEW d \in Deleters, CollectDir(d)
  PROVE  World' /\ Meanwhile /\ OnlyBelowRoots
<1> DEFINE c == del[d]
           dir == Last(c.pending)
<1>0. Types /\ Tree /\ Past /\ Pruning
  BY DEF World
<1>1. /\ UNCHANGED <<input, policy, files, dirs, status, scan, edits, history>>
      /\ c.at = "collecting" /\ c \in Deletion /\ PruneBelow(c)
  BY <1>0 DEF CollectDir, Types, Pruning, tree
<1>2. /\ c.pending \in Seq(Path) /\ c.pending # << >> /\ c.directories \in Seq(Path)
      /\ c.current \in Path /\ c.boundary # c.current
      /\ \A p \in ToSet(c.pending) \cup ToSet(c.directories) : IsPrefix(c.current, p)
  BY <1>1 DEF PruneBelow, Deletion
<1> SUFFICES \E e \in Deletion : del' = [del EXCEPT ![d] = e] /\ PruneBelow(e)
  BY <1>1, OnlyDeletion
<1>3. /\ Front(c.pending) \in Seq(Path) /\ dir \in Path
      /\ ToSet(c.pending) = ToSet(Front(c.pending)) \cup {dir}
  BY <1>2, SeqTop
<1>4. IsPrefix(c.current, dir)
  BY <1>2, <1>3
<1>5. CASE End(d, "failed") \/ End(d, "ok")
  BY <1>5, IdleDeletion DEF End
<1>6. CASE \E order \in SetToSeqs(DirsIn(dir)) :
             LET pending == Front(c.pending) \o order
             IN del' = [del EXCEPT ![d].pending = pending,
                                   ![d].directories = Append(@, dir),
                                   ![d].at = IF pending = << >> THEN "emptying" ELSE @]
  <2>1. PICK order \in SetToSeqs(DirsIn(dir)) :
             LET pending == Front(c.pending) \o order
             IN del' = [del EXCEPT ![d].pending = pending,
                                   ![d].directories = Append(@, dir),
                                   ![d].at = IF pending = << >> THEN "emptying" ELSE @]
    BY <1>6
  <2> DEFINE pending == Front(c.pending) \o order
             directories == Append(c.directories, dir)
             stage == IF pending = << >> THEN "emptying" ELSE "collecting"
             e == [c EXCEPT !.pending = pending, !.directories = directories, !.at = stage]
  <2>2. del' = [del EXCEPT ![d] = e]
    BY <1>0, <1>1, <2>1 DEF Types, Deletion
  <2>3. order \in Seq(Path) /\ ToSet(order) \subseteq DirsIn(dir)
    BY <1>0, OrderTyped
  <2>4. pending \in Seq(Path) /\ ToSet(pending) \subseteq ToSet(Front(c.pending)) \cup ToSet(order)
    BY <1>3, <2>3, ConcatSet
  <2>5. directories \in Seq(Path) /\ ToSet(directories) = ToSet(c.directories) \cup {dir}
    BY <1>2, <1>3, AppendSet
  <2>6. stage \in {"collecting", "emptying"} /\ (stage = "collecting" => pending # << >>)
    OBVIOUS
  <2>7. ASSUME NEW p \in DirsIn(dir) PROVE IsPrefix(c.current, p)
    <3>1. p \in Path /\ Len(p) = Len(dir) + 1 /\ Front(p) = dir
      BY <1>0, <2>7 DEF DirsIn, Types
    <3>2. IsPrefix(dir, p)
      BY <1>3, <3>1, ChildIff DEF Child
    <3> QED BY <1>2, <1>3, <1>4, <3>1, <3>2, PathPrefix
  <2> HIDE DEF pending, directories, stage
  <2>8. /\ e \in Deletion /\ e.at = stage /\ e.boundary = c.boundary
        /\ e.current = c.current /\ e.pending = pending /\ e.directories = directories
    BY <1>1, <2>4, <2>5, <2>6 DEF Deletion, DelStates
  <2>9. \A p \in ToSet(pending) \cup ToSet(directories) : IsPrefix(c.current, p)
    BY <1>2, <1>3, <1>4, <2>3, <2>4, <2>5, <2>7
  <2> HIDE DEF e
  <2>10. PruneBelow(e)
    BY <1>1, <1>2, <2>6, <2>8, <2>9 DEF PruneBelow
  <2> QED BY <2>2, <2>8, <2>10
<1> QED BY <1>5, <1>6, ZenonT(60) DEF CollectDir

(* A collected directory is removed; it lies below the boundary. *)
LEMMA EmptyDirStep ==
  ASSUME World, NEW d \in Deleters, EmptyDir(d)
  PROVE  World' /\ Meanwhile /\ OnlyBelowRoots
<1> DEFINE c == del[d]
           dir == Last(c.directories)
<1>0. Types /\ Tree /\ Past /\ Pruning
  BY DEF World
<1>1. /\ UNCHANGED <<input, policy, files, status, scan, edits, stable, settled, seen>>
      /\ c.at = "emptying" /\ c \in Deletion /\ PruneBelow(c) /\ input' = input
      /\ files' = files /\ stable' = stable
  BY <1>0 DEF EmptyDir, Types, Pruning
<1>2. /\ c.directories \in Seq(Path) /\ c.current \in Path /\ c.boundary # c.current
      /\ c.boundary \in Path /\ IsPrefix(c.boundary, c.current)
      /\ \A p \in ToSet(c.directories) : IsPrefix(c.current, p)
  BY <1>1 DEF PruneBelow, Deletion
<1>3. /\ \/ c.directories = << >> /\ Above(d) /\ UNCHANGED <<dirs, lost>>
         \/ c.directories # << >> /\ dir \notin dirs /\ Forget(d) /\ UNCHANGED <<dirs, lost>>
         \/ c.directories # << >> /\ dir \in dirs /\ IsEmpty(dir) /\ Forget(d) /\ RemoveDir(dir)
         \/ c.directories # << >> /\ ~IsEmpty(dir) /\ End(d, "ok") /\ UNCHANGED <<dirs, lost>>
  BY DEF EmptyDir
<1>4. CASE Above(d) /\ UNCHANGED <<dirs, lost>>
  <2>1. PICK e \in Deletion : del' = [del EXCEPT ![d] = e] /\ PruneBelow(e)
    BY <1>1, <1>2, <1>4, AboveFacts
  <2>2. UNCHANGED <<input, policy, files, dirs, status, scan, edits, history>>
    BY <1>1, <1>4 DEF history
  <2> QED BY <2>1, <2>2, OnlyDeletion
<1>5. CASE End(d, "ok") /\ UNCHANGED <<dirs, lost>>
  <2>1. PICK e \in Deletion : del' = [del EXCEPT ![d] = e] /\ PruneBelow(e)
    BY <1>5, IdleDeletion DEF End
  <2>2. UNCHANGED <<input, policy, files, dirs, status, scan, edits, history>>
    BY <1>1, <1>5 DEF history
  <2> QED BY <2>1, <2>2, OnlyDeletion
<1>6. ASSUME c.directories # << >>, Forget(d)
      PROVE  /\ \E e \in Deletion : del' = [del EXCEPT ![d] = e] /\ PruneBelow(e)
             /\ dir \in Path /\ IsPrefix(c.current, dir)
  <2> DEFINE front == Front(c.directories)
             e == [c EXCEPT !.directories = front]
  <2>1. front \in Seq(Path) /\ dir \in Path /\ ToSet(c.directories) = ToSet(front) \cup {dir}
    BY <1>2, <1>6, SeqTop
  <2>2. del' = [del EXCEPT ![d] = e]
    BY <1>0, <1>1, <1>6 DEF Types, Deletion, Forget
  <2> HIDE DEF front
  <2>3. /\ e \in Deletion /\ e.at = c.at /\ e.boundary = c.boundary
        /\ e.current = c.current /\ e.pending = c.pending /\ e.directories = front
    BY <1>1, <2>1 DEF Deletion
  <2> HIDE DEF e
  <2>4. PruneBelow(e)
    BY <1>1, <2>1, <2>3 DEF PruneBelow
  <2>5. IsPrefix(c.current, dir)
    BY <1>2, <2>1
  <2> QED BY <2>1, <2>2, <2>3, <2>4, <2>5
<1>7. CASE c.directories # << >> /\ Forget(d) /\ UNCHANGED <<dirs, lost>>
  <2>1. UNCHANGED <<input, policy, files, dirs, status, scan, edits, history>>
    BY <1>1, <1>7 DEF history
  <2> QED BY <1>6, <1>7, <2>1, OnlyDeletion
<1>8. CASE c.directories # << >> /\ dir \in dirs /\ IsEmpty(dir) /\ Forget(d) /\ RemoveDir(dir)
  <2>1. PICK e \in Deletion : del' = [del EXCEPT ![d] = e] /\ PruneBelow(e)
    BY <1>6, <1>8
  <2>2. dirs' = dirs \ {dir} /\ lost' /\ dir \in Path /\ IsPrefix(c.current, dir)
    BY <1>6, <1>8 DEF RemoveDir
  <2>3. IsPrefix(c.boundary, dir) /\ dir # c.boundary
    <3>1. IsPrefix(c.boundary, dir)
      BY <1>2, <2>2, PathPrefix
    <3>2. ASSUME dir = c.boundary PROVE FALSE
      <4>1. Len(c.boundary) <= Len(c.current) /\ Len(c.current) <= Len(c.boundary)
            /\ Len(c.boundary) \in Nat /\ Len(c.current) \in Nat
        BY <1>2, <2>2, <3>2, PathPrefix
      <4>2. Len(c.boundary) = Len(c.current)
        BY <4>1
      <4> QED BY <1>2, <4>2, PathPrefix
    <3> QED BY <3>1, <3>2
  <2>4. Tree'
    BY <1>0, <1>1, <1>8, <2>2, RemoveEmptyDir
  <2>5. OnlyBelowRoots
    BY <1>1, <2>2, <2>3, BelowBoundary
  <2>6. dirs' \subseteq dirs /\ stable \subseteq files
    BY <1>0, <2>2 DEF Past
  <2>7. World' /\ Meanwhile
    BY <1>1, <2>1, <2>2, <2>4, <2>6, DeletionStep
  <2> QED BY <2>5, <2>7
<1> QED BY <1>3, <1>4, <1>5, <1>7, <1>8

-----------------------------------------------------------------------------
(* The steps of the scan. *)

(* The directories being read without the last of them. *)
LEMMA OrderedFront ==
  ASSUME NEW s \in Seq(Frame), s # << >>, Ordered(s)
  PROVE  Ordered(Front(s)) /\ \A f \in ToSet(Front(s)) : Beneath(f, Last(s))
<1>1. /\ Front(s) \in Seq(Frame) /\ Len(s) \in Nat \ {0} /\ Len(Front(s)) = Len(s) - 1
      /\ \A i \in 1 .. Len(s) - 1 : Front(s)[i] = s[i]
  BY SeqTop
<1>2. DOMAIN s = 1 .. Len(s) /\ DOMAIN Front(s) = 1 .. Len(s) - 1
  BY <1>1
<1>3. \A i \in 1 .. Len(s) - 1 : i \in 1 .. Len(s) /\ i < Len(s) /\ Len(s) \in 1 .. Len(s)
  BY <1>1
<1>4. Ordered(Front(s))
  <2> SUFFICES ASSUME NEW i \in DOMAIN Front(s), NEW j \in DOMAIN Front(s), i < j
               PROVE  Beneath(Front(s)[i], Front(s)[j])
    BY DEF Ordered
  <2>1. Front(s)[i] = s[i] /\ Front(s)[j] = s[j] /\ i \in DOMAIN s /\ j \in DOMAIN s
    BY <1>1, <1>2, <1>3
  <2> QED BY <2>1 DEF Ordered
<1>5. ASSUME NEW i \in DOMAIN Front(s) PROVE Beneath(Front(s)[i], Last(s))
  BY <1>1, <1>2, <1>3 DEF Ordered, Last
<1> QED BY <1>4, <1>5 DEF ToSet

(* One more directory is read on behalf of the last one. *)
LEMMA OrderedAppend ==
  ASSUME NEW s \in Seq(Frame), Ordered(s), NEW g \in Frame, \A f \in ToSet(s) : Beneath(f, g)
  PROVE  Ordered(Append(s, g))
<1>1. /\ Append(s, g) \in Seq(Frame) /\ Len(Append(s, g)) = Len(s) + 1
      /\ Append(s, g)[Len(s) + 1] = g /\ \A i \in 1 .. Len(s) : Append(s, g)[i] = s[i]
  BY AppendItems
<1>2. DOMAIN s = 1 .. Len(s) /\ DOMAIN Append(s, g) = 1 .. Len(s) + 1 /\ Len(s) \in Nat
  BY <1>1
<1> SUFFICES ASSUME NEW i \in DOMAIN Append(s, g), NEW j \in DOMAIN Append(s, g), i < j
             PROVE  Beneath(Append(s, g)[i], Append(s, g)[j])
  BY DEF Ordered
<1>3. i \in 1 .. Len(s) /\ (j \in 1 .. Len(s) \/ j = Len(s) + 1)
  BY <1>2
<1>4. CASE j \in 1 .. Len(s)
  BY <1>1, <1>2, <1>3, <1>4 DEF Ordered
<1>5. CASE j = Len(s) + 1
  <2>1. s[i] \in ToSet(s)
    BY <1>2, <1>3 DEF ToSet
  <2> QED BY <1>1, <1>3, <1>5, <2>1
<1> QED BY <1>3, <1>4, <1>5

(* What is known of a directory being read does not depend on the scan     *)
(* itself.                                                                 *)
LEMMA FramesFixed ==
  ASSUME UNCHANGED <<input, policy, tree, history>>, root' = root
  PROVE  \A f : /\ GoodFrame(f)' = GoodFrame(f)
                /\ Entered(f)' = Entered(f)
                /\ Current(f)' = Current(f)
<1>1. /\ files' = files /\ dirs' = dirs /\ status' = status /\ lost' = lost /\ seen' = seen
      /\ input' = input /\ policy' = policy
  BY DEF tree, history
<1>2. (\A name : Place(name)' = Place(name)) /\ FilePlaces' = FilePlaces
  BY <1>1, PlacesFixed
<1>3. \A local : WirePath(local)' = WirePath(local)
  BY <1>1 DEF WirePath, ResolveToLocal, DefaultUserRoot, ExtensionsRoot, DataRoot, layout
<1>4. Ended' = Ended
  BY <1>1, <1>2 DEF Ended
<1>5. \A f : GoodFrame(f)' = GoodFrame(f)
  BY <1>2 DEF GoodFrame
<1>6. \A f : Entered(f)' = Entered(f)
  <2>1. \A dir : Walked(dir)' = Walked(dir)
    BY <1>1, UnreadFixed
  <2> QED BY <1>3, <1>4, <2>1 DEF Entered
<1>7. \A f : Current(f)' = Current(f)
  BY <1>1 DEF Current
<1> QED BY <1>5, <1>6, <1>7

(* A directory that is about to be read. *)
LEMMA UnopenedTyped ==
  ASSUME NEW dir \in Path
  PROVE  /\ Unopened(dir) \in Frame /\ Unopened(dir).dir = dir /\ ~Unopened(dir).opened
         /\ Unopened(dir).files = {} /\ Unopened(dir).dirs = {}
  BY DEF Unopened, Frame

(* A step of the scan changes nothing outside the scan. *)
LEMMA ScanKeepsWorld ==
  ASSUME World, at # "idle", stack' \in Seq(Frame),
         at' \in {"roots", "reading", "ok", "failed", "refused"},
         UNCHANGED <<input, tree, del, edits, history>>
  PROVE  World'
<1>1. /\ files' = files /\ dirs' = dirs /\ status' = status /\ lost' = lost /\ seen' = seen
      /\ input' = input /\ del' = del /\ edits' = edits /\ stable' = stable /\ settled' = settled
  BY DEF tree, history
<1>2. (\A name : Place(name)' = Place(name)) /\ FilePlaces' = FilePlaces
  BY <1>1, PlacesFixed
<1>3. Types'
  BY <1>1 DEF World, Types
<1>4. Tree'
  BY <1>1, <1>2 DEF World, Tree
<1>5. Past'
  BY <1>1, <1>2 DEF World, Past
<1>6. Pruning'
  BY <1>1, PruningFixed DEF World
<1> QED BY <1>3, <1>4, <1>5, <1>6 DEF World

(* The first of several scan roots, and the other ones. *)
LEMMA RootsHead ==
  ASSUME NEW s \in RootSeqs, s # << >>
  PROVE  /\ Head(s) \in RootNames /\ Tail(s) \in RootSeqs
         /\ ToSet(s) = {Head(s)} \cup ToSet(Tail(s)) /\ Head(s) \notin ToSet(Tail(s))
<1>1. s \in Seq(RootNames) /\ \A i, j \in DOMAIN s : s[i] = s[j] => i = j
  BY DEF RootSeqs
<1>2. /\ Len(s) \in Nat \ {0} /\ Head(s) = s[1] /\ Head(s) \in RootNames
      /\ Tail(s) \in Seq(RootNames) /\ Len(Tail(s)) = Len(s) - 1
      /\ \A i \in 1 .. Len(s) - 1 : Tail(s)[i] = s[i + 1]
  BY <1>1
<1>3. DOMAIN s = 1 .. Len(s) /\ DOMAIN Tail(s) = 1 .. Len(s) - 1
  BY <1>1, <1>2
<1>4. \A i \in 1 .. Len(s) - 1 : i + 1 \in 1 .. Len(s) /\ i + 1 # 1
  BY <1>2
<1>5. \A i, j \in DOMAIN Tail(s) : Tail(s)[i] = Tail(s)[j] => i = j
  <2> SUFFICES ASSUME NEW i \in DOMAIN Tail(s), NEW j \in DOMAIN Tail(s), Tail(s)[i] = Tail(s)[j]
               PROVE  i = j
    OBVIOUS
  <2>1. s[i + 1] = s[j + 1] /\ i + 1 \in DOMAIN s /\ j + 1 \in DOMAIN s
    BY <1>2, <1>3, <1>4
  <2>2. i + 1 = j + 1 /\ i \in Nat /\ j \in Nat
    BY <1>1, <1>2, <1>3, <2>1
  <2> QED BY <2>2
<1>6. Head(s) \notin ToSet(Tail(s))
  <2> SUFFICES ASSUME NEW i \in DOMAIN Tail(s), Tail(s)[i] = Head(s) PROVE FALSE
    BY DEF ToSet
  <2>1. s[i + 1] = s[1] /\ i + 1 \in DOMAIN s /\ 1 \in DOMAIN s /\ i + 1 # 1
    BY <1>2, <1>3, <1>4
  <2> QED BY <1>1, <2>1
<1>7. ToSet(s) = {Head(s)} \cup ToSet(Tail(s))
  <2>1. ASSUME NEW i \in DOMAIN s PROVE s[i] \in {Head(s)} \cup ToSet(Tail(s))
    <3>1. CASE i = 1
      BY <1>2, <3>1
    <3>2. CASE i # 1
      <4> DEFINE j == i - 1
      <4>1. j \in 1 .. Len(s) - 1 /\ i = j + 1
        BY <1>2, <1>3, <3>2
      <4> HIDE DEF j
      <4>2. j \in DOMAIN Tail(s) /\ Tail(s)[j] = s[i]
        BY <1>2, <1>3, <4>1
      <4> QED BY <4>2 DEF ToSet
    <3> QED BY <3>1, <3>2
  <2>2. ASSUME NEW i \in DOMAIN Tail(s) PROVE Tail(s)[i] \in ToSet(s)
    <3>1. i + 1 \in DOMAIN s /\ Tail(s)[i] = s[i + 1]
      BY <1>2, <1>3, <1>4
    <3> QED BY <3>1 DEF ToSet
  <2>3. Head(s) \in ToSet(s)
    <3>1. 1 \in DOMAIN s
      BY <1>2, <1>3
    <3> QED BY <1>2, <3>1 DEF ToSet
  <2> QED BY <2>1, <2>2, <2>3 DEF ToSet
<1> QED BY <1>1, <1>2, <1>5, <1>6, <1>7 DEF RootSeqs

(* A file that is added to the manifest is listed once. *)
LEMMA AddEntry ==
  ASSUME Listed, NEW x \in Files, x \notin BagToSet(entries), ContainsPath(policy, x),
         Place(x) \in seen, RunEnded(x, Ended), entries' = entries (+) SetToBag({x}),
         UNCHANGED <<input, policy, status, seen>>
  PROVE  Listed' /\ BagToSet(entries') = BagToSet(entries) \cup {x}
<1>1. \A name : Place(name)' = Place(name)
  BY PlacesFixed
<1>2. Ended' = Ended
  BY <1>1 DEF Ended
<1>3. /\ BagToSet(entries') = BagToSet(entries) \cup {x}
      /\ \A name \in BagToSet(entries) \cup {x} : entries'[name] =
           (IF name \in BagToSet(entries) THEN entries[name] ELSE 0) + (IF name = x THEN 1 ELSE 0)
  BY DEF BagToSet, SetToBag, (+)
<1>4. \A name \in BagToSet(entries') : entries'[name] = 1
  BY <1>3 DEF Listed
<1> QED BY <1>1, <1>2, <1>3, <1>4 DEF Listed

(* A scan root that is a directory may be read. *)
LEMMA RootFrame ==
  ASSUME World, UNCHANGED <<input, policy, tree, history>>, NEW h \in RootNames, root' = h,
         h \in ToSet(policy.scan_roots),
         NEW local, local = ResolveToLocal(h), local \in dirs, NEW f, f = Unopened(local)
  PROVE  f \in Frame /\ GoodFrame(f)' /\ Entered(f)' /\ Current(f)'
<1>1. /\ Types /\ Tree /\ IsLayout(layout) /\ h \in Names /\ h \in Path /\ Len(h) \in 2 .. 4
      /\ input' = input /\ dirs' = dirs
  BY PathsOfTree, RootNamesAreNames DEF World, tree
<1>2. local = Place(h) /\ local \in Path /\ local \in dirs
  BY <1>1, ResolveIsPlace, PlaceTyped
<1>3. (\A name : Place(name)' = Place(name)) /\ FilePlaces' = FilePlaces
  BY <1>1, PlacesFixed, SMTT(40)
<1>4. WirePath(local)' = h \o SubSeq(local, Len(local) + 1, Len(local))
  BY <1>1 DEF WirePath, ResolveToLocal, DefaultUserRoot, ExtensionsRoot, DataRoot, layout
<1>5. /\ f \in Frame /\ f.dir = local /\ ~f.opened /\ f.files = {} /\ f.dirs = {}
  BY <1>2, UnopenedTyped
<1>6. GoodFrame(f)'
  <2>1. IsPrefix(local, local)
    BY <1>2, PathPrefix
  <2>2. Place(root)' = Place(h)
    BY <1>1 DEF Place, layout
  <2>3. IsPrefix(Place(root), f.dir)'
    BY <1>2, <1>5, <2>1, <2>2 DEF IsPrefix
  <2> QED BY <1>3, <1>5, <2>3 DEF GoodFrame
<1>7. Entered(f)'
  <2> DEFINE rest == SubSeq(local, Len(local) + 1, Len(local))
  <2>1. rest \in Path /\ Len(rest) = Len(local) - Len(local) /\ Len(local) \in Nat
    BY <1>2, PathPrefix, PathSplit
  <2>2. Len(rest) = 0
    BY <2>1
  <2> HIDE DEF rest
  <2>3. Len(h \o rest) = Len(h) + 0
    BY <1>1, <2>1, <2>2, PathConcat
  <2>4. \A n \in 2 .. 4 : ~(n + 0 > 5)
    OBVIOUS
  <2>5. ~(Len(h \o rest) > 5)
    BY <1>1, <2>3, <2>4, Zenon
  <2>6. WirePath(f.dir)' = h \o rest
    BY <1>4, <1>5 DEF rest
  <2>7. h \o rest = h
    BY <1>1, <2>1, <2>2, SMTT(40) DEF Path
  <2>8. Walked(h)'
    BY DEF Walked
  <2> QED BY <2>5, <2>6, <2>7, <2>8 DEF Entered
<1>8. Current(f)'
  BY <1>1, <1>2, <1>5 DEF Current
<1> QED BY <1>5, <1>6, <1>7, <1>8

(* A file under a scan root that is not there is not there either. *)
LEMMA NothingUnder ==
  ASSUME World, NEW h \in RootNames, NEW name \in Files, IsPrefix(h, name), Place(name) \in files
  PROVE  ResolveToLocal(h) \in dirs \cup files
<1>1. Types /\ Tree /\ IsLayout(layout) /\ h \in Names /\ h \in Path /\ name \in Names
  BY PathsOfTree, RootNamesAreNames, FileNames DEF World
<1>2. ResolveToLocal(h) = Place(h) /\ Place(h) \in Path /\ Place(h) # << >> /\ Place(name) \in Path
  BY <1>1, ResolveIsPlace, PlaceTyped
<1>3. IsPrefix(Place(h), Place(name))
  BY <1>1, PathPrefix, UnderRoot
<1>4. CASE Place(h) = Place(name)
  BY <1>2, <1>4
<1>5. CASE Place(h) # Place(name)
  <2>1. Place(h) \in Ancestors(Place(name))
    BY <1>2, <1>3, <1>5, AncestorsAre
  <2> QED BY <1>1, <1>2, <2>1 DEF Tree
<1> QED BY <1>4, <1>5

(* scan_manifest_sync takes the next scan root. *)
LEMMA NextRootStep ==
  ASSUME World, Agenda, Spine, Listed, Once, Nothing, FailureExplained, NextRoot
  PROVE  World' /\ Agenda' /\ Spine' /\ Listed' /\ Once' /\ Nothing' /\ FailureExplained'
<1> DEFINE h == Head(roots)
           local == ResolveToLocal(h)
<1>1. /\ at = "roots" /\ roots # << >> /\ roots' = Tail(roots)
      /\ input' = input /\ policy' = policy /\ exact' = exact /\ entries' = entries
      /\ UNCHANGED <<input, tree, del, edits, history>>
      /\ \/ local \in dirs /\ at' = "reading" /\ root' = h /\ stack' = <<Unopened(local)>>
         \/ local \notin dirs \cup files /\ UNCHANGED <<at, root, stack>>
         \/ local \in files /\ at' = "failed" /\ UNCHANGED <<root, stack>>
  BY DEF NextRoot, Fail
<1>2. /\ files' = files /\ dirs' = dirs /\ status' = status /\ lost' = lost /\ seen' = seen
      /\ stable' = stable /\ settled' = settled
  BY <1>1 DEF tree, history
<1>3. (\A name : Place(name)' = Place(name))
  BY <1>1, PlacesFixed
<1>4. /\ h \in RootNames /\ Tail(roots) \in RootSeqs
      /\ ToSet(roots) = {h} \cup ToSet(Tail(roots)) /\ h \notin ToSet(Tail(roots))
  BY <1>1, RootsHead DEF Agenda
<1>5. /\ Types /\ Tree /\ Past /\ IsLayout(layout) /\ h \in Names /\ h \in Path
      /\ local = Place(h) /\ local \in Path /\ stack = << >>
  <2>1. Types /\ Tree /\ Past /\ IsLayout(layout) /\ h \in Names /\ h \in Path /\ stack = << >>
    BY <1>1, <1>4, PathsOfTree, RootNamesAreNames DEF World, Agenda
  <2> QED BY <2>1, ResolveIsPlace, PlaceTyped
<1> HIDE DEF h, local
<1>6. at # "idle" /\ at # "refused" /\ at # "reading" /\ at # "failed" /\ at \in {"roots", "reading", "ok"}
  BY <1>1
<1>7. Listed'
  <2>1. Ended' = Ended
    BY <1>2, <1>3 DEF Ended
  <2> QED BY <1>1, <1>2, <1>3, <2>1 DEF Listed
<1>8. \A name : Wanted(name)' = Wanted(name)
  BY <1>1, <1>2, <1>3 DEF Wanted
<1>9. \A name : InRoots(name) <=> IsPrefix(h, name) \/ InRoots(name)'
  BY <1>1, <1>4 DEF InRoots
<1>10. \A path : ~InStack(path)
  BY <1>6 DEF InStack
<1>11. CASE local \in dirs /\ at' = "reading" /\ root' = h /\ stack' = <<Unopened(local)>>
  <2>0. PICK f : f = Unopened(local)
    OBVIOUS
  <2>1. f \in Frame /\ GoodFrame(f)' /\ Entered(f)' /\ Current(f)'
    <3>1. h \in ToSet(policy.scan_roots)
      BY <1>4, <1>6 DEF Agenda
    <3> QED BY <1>1, <1>4, <1>11, <2>0, <3>1, RootFrame DEF local
  <2>2. f.dir = local /\ ~f.opened /\ f.files = {} /\ f.dirs = {}
    BY <1>5, <2>0, UnopenedTyped
  <2>3. stack' = <<f>> /\ stack' \in Seq(Frame) /\ ToSet(stack') = {f} /\ stack' # << >>
        /\ DOMAIN stack' = {1}
    <3>1. <<f>> \in Seq(Frame) /\ <<f>> # << >> /\ DOMAIN <<f>> = {1} /\ <<f>>[1] = f
      BY <2>1
    <3>2. stack' = <<f>>
      BY <1>11, <2>0
    <3> QED BY <3>1, <3>2 DEF ToSet
  <2>4. World'
    BY <1>1, <1>6, <1>11, <2>3, ScanKeepsWorld
  <2>5. Agenda'
    BY <1>1, <1>4, <1>6, <1>11, <2>3 DEF Agenda
  <2>6. Spine'
    <3>1. Ordered(stack')
      BY <2>3 DEF Ordered
    <3> QED BY <2>1, <2>3, <3>1 DEF Spine
  <2>7. \A path : InStack(path)' <=> IsPrefix(local, path)
    BY <1>11, <2>2, <2>3 DEF InStack, Pending
  <2>8. Once'
    <3> SUFFICES ASSUME NEW name \in BagToSet(entries)
                 PROVE  name \notin exact' /\ ~InRoots(name)' /\ ~InStack(Place(name))'
      BY <1>1, <1>3 DEF Once
    <3>1. name \notin exact' /\ ~InRoots(name)' /\ ~IsPrefix(h, name)
      BY <1>1, <1>9 DEF Once
    <3>2. ASSUME InStack(Place(name))' PROVE FALSE
      <4>1. IsPrefix(Place(h), Place(name))
        BY <1>3, <1>5, <2>7, <3>2
      <4> QED BY <1>5, <3>1, <4>1, PlacePrefix, FileNames DEF Listed
    <3> QED BY <3>1, <3>2
  <2>9. Nothing'
    <3> SUFFICES ASSUME NEW name \in Files, Wanted(name)
                 PROVE  \/ name \in BagToSet(entries) \/ name \in exact
                        \/ name \notin policy.files /\ (InRoots(name)' \/ InStack(Place(name))')
      BY <1>1, <1>3, <1>8 DEF Nothing
    <3>1. \/ name \in BagToSet(entries) \/ name \in exact
          \/ name \notin policy.files /\ InRoots(name)
      BY <1>6, <1>10 DEF Nothing
    <3>2. ASSUME IsPrefix(h, name) PROVE InStack(Place(name))'
      <4>1. IsPrefix(Place(h), Place(name))
        BY <1>4, <1>5, <3>2, FileNames, PathPrefix, UnderRoot
      <4> QED BY <1>3, <1>5, <2>7, <4>1
    <3> QED BY <1>9, <3>1, <3>2
  <2>10. FailureExplained'
    BY <1>11 DEF FailureExplained
  <2> QED BY <1>7, <2>4, <2>5, <2>6, <2>8, <2>9, <2>10
<1>12. CASE local \notin dirs \cup files /\ UNCHANGED <<at, root, stack>>
  <2>1. World'
    BY <1>1, <1>5, <1>6, <1>12, ScanKeepsWorld DEF Types
  <2>2. Agenda'
    BY <1>1, <1>4, <1>6, <1>12 DEF Agenda
  <2>3. Spine' /\ FailureExplained'
    BY <1>6, <1>12 DEF Spine, FailureExplained
  <2>4. \A path : ~InStack(path)'
    BY <1>6, <1>12 DEF InStack
  <2>5. Once'
    BY <1>1, <1>3, <1>9, <2>4 DEF Once
  <2>6. Nothing'
    <3> SUFFICES ASSUME NEW name \in Files, Wanted(name)
                 PROVE  \/ name \in BagToSet(entries) \/ name \in exact
                        \/ name \notin policy.files /\ InRoots(name)'
      BY <1>1, <1>3, <1>8 DEF Nothing
    <3>1. \/ name \in BagToSet(entries) \/ name \in exact
          \/ name \notin policy.files /\ InRoots(name)
      BY <1>6, <1>10 DEF Nothing
    <3>2. ~IsPrefix(h, name)
      <4>1. Place(name) \in files
        BY <1>5 DEF Wanted, Past
      <4> QED BY <1>4, <1>12, <4>1, NothingUnder DEF local
    <3> QED BY <1>9, <3>1, <3>2
  <2> QED BY <1>7, <2>1, <2>2, <2>3, <2>5, <2>6
<1>13. CASE local \in files /\ at' = "failed" /\ UNCHANGED <<root, stack>>
  <2>1. World'
    BY <1>1, <1>5, <1>6, <1>13, ScanKeepsWorld DEF Types
  <2>2. Agenda'
    BY <1>1, <1>4, <1>6, <1>13 DEF Agenda
  <2>3. Spine' /\ Nothing'
    BY <1>13 DEF Spine, Nothing
  <2>4. Once'
    <3>1. \A path : ~InStack(path)'
      BY <1>13 DEF InStack
    <3> QED BY <1>1, <1>3, <1>9, <3>1 DEF Once
  <2>5. FailureExplained'
    <3>1. h \in ToSet(policy.scan_roots)
      BY <1>4, <1>6 DEF Agenda
    <3>2. PICK i \in DOMAIN policy.scan_roots : policy.scan_roots[i] = h
      BY <3>1 DEF ToSet
    <3>3. Place(policy.scan_roots[i])' \in seen'
      BY <1>1, <1>2, <1>3, <1>5, <1>6, <1>13, <3>2 DEF Past
    <3> QED BY <1>1, <3>3 DEF FailureExplained
  <2> QED BY <1>7, <2>1, <2>2, <2>3, <2>4, <2>5
<1> QED BY <1>1, <1>11, <1>12, <1>13

(* A scan begins: every wanted file is a single file or lies under a scan  *)
(* root.                                                                   *)
LEMMA StartScanStep ==
  ASSUME World, Agenda, Spine, Listed, Once, Nothing, FailureExplained, StartScan
  PROVE  World' /\ Agenda' /\ Spine' /\ Listed' /\ Once' /\ Nothing' /\ FailureExplained'
<1>1. /\ at = "idle" /\ stable' = files /\ seen' = files /\ lost' = FALSE
      /\ settled' = {name \in RunFiles : status[name] = "terminal"}
      /\ UNCHANGED <<input, tree, root, stack, entries, del, edits>>
      /\ input' = input /\ stack' = stack /\ entries' = entries /\ del' = del /\ edits' = edits
      /\ \/ /\ ValidSelection(input.ids) /\ policy' = FromSelection(input.ids) /\ at' = "roots"
            /\ roots' = policy'.scan_roots /\ exact' = policy'.files
         \/ /\ at' = "refused" /\ UNCHANGED <<policy, roots, exact>>
  BY DEF StartScan
<1>2. files' = files /\ dirs' = dirs /\ status' = status
  BY <1>1 DEF tree
<1>3. (\A name : Place(name)' = Place(name)) /\ FilePlaces' = FilePlaces
  BY <1>1, PlacesFixed
<1>4. BagToSet(entries') = {} /\ stack' = << >>
  BY <1>1 DEF Agenda
<1>5. World'
  <2>1. Types'
    BY <1>1, <1>2 DEF World, Types
  <2>2. Tree'
    BY <1>2, <1>3 DEF World, Tree
  <2>3. Past'
    BY <1>1, <1>2 DEF Past
  <2>4. Pruning'
    BY <1>1, PruningFixed DEF World
  <2> QED BY <2>1, <2>2, <2>3, <2>4 DEF World
<1>6. Spine' /\ FailureExplained'
  BY <1>1 DEF Spine, FailureExplained
<1>7. Listed' /\ Once'
  BY <1>4 DEF Listed, Once
<1>8. CASE at' = "refused" /\ UNCHANGED <<policy, roots, exact>>
  BY <1>4, <1>5, <1>6, <1>7, <1>8 DEF Agenda, Nothing
<1>9. CASE /\ ValidSelection(input.ids) /\ policy' = FromSelection(input.ids) /\ at' = "roots"
           /\ roots' = policy'.scan_roots /\ exact' = policy'.files
  <2> DEFINE p == policy'
  <2>1. input.ids \in Seq(STRING)
    BY LayoutOf DEF World, Types
  <2>2. /\ p.scan_roots \in RootSeqs /\ p.rules \subseteq RuleSet
        /\ \A r \in p.rules : RootOf(r) \in ToSet(p.scan_roots)
    BY <1>9, <2>1, Selection
  <2> HIDE DEF p
  <2>3. Agenda'
    BY <1>1, <1>4, <1>9, <2>2 DEF Agenda, p
  <2>4. Nothing'
    <3> SUFFICES ASSUME NEW name \in Files, Wanted(name)', name \notin p.files
                 PROVE  InRoots(name)'
      BY <1>9 DEF Nothing, p
    <3>1. PICK r \in p.rules : Matches(r, name)
      BY DEF Wanted, ContainsPath, p
    <3>2. IsPrefix(RootOf(r), name) /\ RootOf(r) \in ToSet(roots')
      BY <1>9, <2>2, <3>1, MatchesUnderRoot DEF p
    <3> QED BY <3>2 DEF InRoots
  <2> QED BY <1>5, <1>6, <1>7, <2>3, <2>4
<1> QED BY <1>1, <1>8, <1>9

(* A single file is looked at. *)
LEMMA ScanFileStep ==
  ASSUME World, Agenda, Spine, Listed, Once, Nothing, FailureExplained, ScanFile
  PROVE  World' /\ Agenda' /\ Spine' /\ Listed' /\ Once' /\ Nothing' /\ FailureExplained'
<1>1. PICK file \in exact :
        /\ exact' = exact \ {file}
        /\ LET wanted == ContainsPath(policy, file) /\ ResolveToLocal(file) \in files
           IN \/ ~wanted /\ UNCHANGED <<at, entries>>
              \/ /\ wanted /\ file \notin input.unlistable
                 /\ entries' = entries (+) SetToBag({file})
                 /\ UNCHANGED at
              \/ wanted /\ file \in input.unlistable /\ Fail /\ UNCHANGED entries
  BY DEF ScanFile
<1>2. /\ at = "roots" /\ roots = << >>
      /\ UNCHANGED <<input, policy, tree, roots, root, stack, del, edits, history>>
      /\ at' \in {"roots", "failed"}
  <2>1. /\ at = "roots" /\ roots = << >>
        /\ UNCHANGED <<input, policy, tree, roots, root, stack, del, edits, history>>
    BY DEF ScanFile
  <2> QED BY <1>1, <2>1 DEF Fail
<1>3. /\ files' = files /\ dirs' = dirs /\ status' = status /\ lost' = lost /\ seen' = seen
      /\ stable' = stable /\ settled' = settled /\ input' = input /\ policy' = policy
      /\ roots' = roots /\ stack' = stack /\ root' = root
  BY <1>2 DEF tree, history
<1>4. \A name : Place(name)' = Place(name)
  BY <1>3, PlacesFixed
<1>5. /\ Types /\ Tree /\ Past /\ IsLayout(layout) /\ input.ids \in Seq(STRING)
  BY PathsOfTree, LayoutOf DEF World, Types
<1>6. file \in policy.files /\ policy.files \subseteq SingleNames
  BY <1>2, <1>5, Selection DEF Agenda
<1>7. file \in Names /\ ResolveToLocal(file) = Place(file)
      /\ ~IsAgentRunIndexFile(file) /\ ~IsAgentRunPath(file)
  <2>1. file \in Path /\ ~IsAgentRunIndexFile(file) /\ ~IsAgentRunPath(file) /\ Len(file) \in 2 .. 3
    BY <1>6, SinglesApart DEF Path
  <2>2. file # << >>
    <3>1. Len(<< >>) = 0
      OBVIOUS
    <3> QED BY <2>1, <3>1
  <2> QED BY <1>5, <2>1, <2>2, PathsAreNames, ResolveIsPlace
<1>8. \A path : ~InStack(path) /\ ~InStack(path)'
  BY <1>2, <1>3 DEF InStack
<1>9. \A name : ~InRoots(name) /\ ~InRoots(name)'
  BY <1>2, <1>3 DEF InRoots, ToSet
<1>10. World'
  BY <1>2, <1>3, <1>5, ScanKeepsWorld DEF Types
<1>11. Agenda'
  BY <1>1, <1>2, <1>3 DEF Agenda
<1>12. Spine' /\ (at' = at => FailureExplained')
  BY <1>2 DEF Spine, FailureExplained
<1>13. \A name : Wanted(name)' = Wanted(name)
  BY <1>3, <1>4 DEF Wanted
<1>14. CASE /\ ContainsPath(policy, file) /\ Place(file) \in files
            /\ entries' = entries (+) SetToBag({file}) /\ at' = at
  <2>1. PICK name \in Files : Place(file) = Place(name)
    BY <1>5, <1>14 DEF Tree, FilePlaces
  <2>2. file \in Files
    BY <1>5, <1>7, <2>1, FileNames, PlaceInjective
  <2>3. file \notin BagToSet(entries)
    BY DEF Once
  <2>4. Place(file) \in seen /\ RunEnded(file, Ended)
    BY <1>2, <1>5, <1>7, <1>14 DEF Past, RunEnded
  <2>5. Listed' /\ BagToSet(entries') = BagToSet(entries) \cup {file}
    BY <1>1, <1>3, <1>7, <1>14, <2>2, <2>3, <2>4, AddEntry
  <2>6. Once'
    BY <1>1, <1>8, <1>9, <2>5 DEF Once
  <2>7. Nothing'
    BY <1>1, <1>2, <1>3, <1>8, <1>9, <1>13, <2>5 DEF Nothing
  <2> QED BY <1>10, <1>11, <1>12, <1>14, <2>5, <2>6, <2>7
<1>15. ASSUME entries' = entries
       PROVE  Listed' /\ Once'
  <2>1. Ended' = Ended
    BY <1>3, <1>4 DEF Ended
  <2> QED BY <1>1, <1>3, <1>4, <1>8, <1>9, <1>15, <2>1 DEF Listed, Once
<1>16. CASE /\ ~(ContainsPath(policy, file) /\ Place(file) \in files)
            /\ entries' = entries /\ at' = at
  <2>1. ~Wanted(file)
    BY <1>5, <1>16 DEF Wanted, Past
  <2>2. Nothing'
    BY <1>1, <1>2, <1>3, <1>8, <1>9, <1>13, <1>16, <2>1 DEF Nothing
  <2> QED BY <1>10, <1>11, <1>12, <1>15, <1>16, <2>2
<1>17. CASE /\ ContainsPath(policy, file) /\ Place(file) \in files
            /\ file \in input.unlistable /\ at' = "failed" /\ entries' = entries
  <2>1. Unlisted(file)'
    BY <1>2, <1>3, <1>4, <1>5, <1>6, <1>17 DEF Unlisted, Past
  <2>2. FailureExplained'
    BY <1>3, <1>17, <2>1 DEF FailureExplained, Unlisted
  <2>3. Nothing'
    BY <1>17 DEF Nothing
  <2> QED BY <1>10, <1>11, <1>12, <1>15, <1>17, <2>2, <2>3
<1>18. \/ /\ ContainsPath(policy, file) /\ Place(file) \in files
          /\ entries' = entries (+) SetToBag({file}) /\ at' = at
       \/ /\ ~(ContainsPath(policy, file) /\ Place(file) \in files)
          /\ entries' = entries /\ at' = at
       \/ /\ ContainsPath(policy, file) /\ Place(file) \in files
          /\ file \in input.unlistable /\ at' = "failed" /\ entries' = entries
  BY <1>1, <1>7 DEF Fail
<1> QED BY <1>14, <1>16, <1>17, <1>18

(* The scan ends. *)
LEMMA FinishScanStep ==
  ASSUME World, Agenda, Spine, Listed, Once, Nothing, FailureExplained, FinishScan
  PROVE  World' /\ Agenda' /\ Spine' /\ Listed' /\ Once' /\ Nothing' /\ FailureExplained'
<1>1. /\ at = "roots" /\ roots = << >> /\ exact = {} /\ at' = "ok"
      /\ UNCHANGED <<input, policy, tree, roots, root, stack, exact, entries, del, edits, history>>
  BY DEF FinishScan
<1>2. /\ files' = files /\ dirs' = dirs /\ status' = status /\ lost' = lost /\ seen' = seen
      /\ stable' = stable /\ settled' = settled /\ input' = input /\ policy' = policy
      /\ roots' = roots /\ stack' = stack /\ exact' = exact /\ entries' = entries
  BY <1>1 DEF tree, history
<1>3. \A name : Place(name)' = Place(name)
  BY <1>2, PlacesFixed
<1>4. World'
  BY <1>1, ScanKeepsWorld DEF World, Types
<1>5. Agenda' /\ Spine' /\ FailureExplained'
  BY <1>1, <1>2 DEF Agenda, Spine, FailureExplained
<1>6. Listed'
  <2>1. Ended' = Ended
    BY <1>2, <1>3 DEF Ended
  <2> QED BY <1>2, <1>3, <2>1 DEF Listed
<1>7. (\A path : ~InStack(path) /\ ~InStack(path)') /\ (\A name : InRoots(name)' = InRoots(name))
  BY <1>1, <1>2 DEF InStack, InRoots
<1>8. Once'
  BY <1>2, <1>7 DEF Once
<1>9. \A name : Wanted(name)' = Wanted(name)
  BY <1>2, <1>3 DEF Wanted
<1>10. Nothing'
  BY <1>1, <1>2, <1>7, <1>9 DEF Nothing
<1> QED BY <1>4, <1>5, <1>6, <1>8, <1>10

(* The directories being read, and the one being read now. *)
LEMMA TopFacts ==
  ASSUME World, Agenda, Spine, at = "reading"
  PROVE  /\ stack # << >> /\ Top \in Frame /\ Front(stack) \in Seq(Frame)
         /\ ToSet(stack) = ToSet(Front(stack)) \cup {Top}
         /\ Ordered(Front(stack))
         /\ \A f \in ToSet(Front(stack)) :
              f \in Frame /\ Beneath(f, Top) /\ GoodFrame(f) /\ Entered(f) /\ Current(f)
         /\ GoodFrame(Top) /\ Entered(Top) /\ Current(Top)
         /\ root \in RootNames
         /\ \A path : InStack(path) <=>
              Pending(Top, path) \/ \E f \in ToSet(Front(stack)) : Pending(f, path)
<1>1. stack \in Seq(Frame) /\ stack # << >> /\ root \in RootNames
  BY DEF World, Types, Agenda
<1>2. /\ Top \in Frame /\ Front(stack) \in Seq(Frame)
      /\ ToSet(stack) = ToSet(Front(stack)) \cup {Top}
  BY <1>1, SeqTop DEF Top
<1>3. Ordered(stack) /\ \A f \in ToSet(stack) : GoodFrame(f) /\ Entered(f) /\ Current(f)
  BY DEF Spine
<1>4. Ordered(Front(stack)) /\ \A f \in ToSet(Front(stack)) : Beneath(f, Top)
  BY <1>1, <1>3, OrderedFront DEF Top
<1>5. \A f \in ToSet(Front(stack)) : f \in Frame
  BY <1>2 DEF ToSet
<1>6. \A path : InStack(path) <=>
        Pending(Top, path) \/ \E f \in ToSet(Front(stack)) : Pending(f, path)
  BY <1>2 DEF InStack
<1> QED BY <1>1, <1>2, <1>3, <1>4, <1>5, <1>6

(* What holds of the directories holds of them after a step of the scan. *)
LEMMA SpineOf ==
  ASSUME UNCHANGED <<input, policy, tree, history>>, root' = root, at' = "reading",
         NEW s \in Seq(Frame), stack' = s, Ordered(s),
         \A f \in ToSet(s) : GoodFrame(f) /\ Entered(f) /\ Current(f)
  PROVE  Spine' /\ \A path : InStack(path)' <=> \E f \in ToSet(s) : Pending(f, path)
<1>1. \A f \in ToSet(s) : GoodFrame(f)' /\ Entered(f)' /\ Current(f)'
  BY FramesFixed
<1>2. Spine'
  BY <1>1 DEF Spine
<1> QED BY <1>2 DEF InStack

(* The directory being read now is replaced. *)
LEMMA NewTop ==
  ASSUME World, Agenda, Spine, at = "reading",
         NEW g \in Frame, g.dir = Top.dir, GoodFrame(g), Current(g),
         NEW s, s = Append(Front(stack), g)
  PROVE  /\ s \in Seq(Frame) /\ s # << >> /\ Ordered(s)
         /\ ToSet(s) = ToSet(Front(stack)) \cup {g}
         /\ \A f \in ToSet(s) : GoodFrame(f) /\ Entered(f) /\ Current(f)
<1>1. s \in Seq(Frame) /\ ToSet(s) = ToSet(Front(stack)) \cup {g}
  BY TopFacts, AppendSet
<1>2. s # << >>
  BY TopFacts
<1>3. \A f \in ToSet(Front(stack)) : Beneath(f, g)
  BY TopFacts DEF Beneath
<1>4. Ordered(s)
  BY <1>3, TopFacts, OrderedAppend
<1>5. Entered(g)
  BY TopFacts DEF Entered
<1> QED BY <1>1, <1>2, <1>4, <1>5, TopFacts

(* Nothing else changes when only the directories being read do. *)
LEMMA OnlyStack ==
  ASSUME World, Agenda, Listed, Once, at = "reading",
         UNCHANGED <<input, policy, tree, roots, root, exact, entries, del, edits, history>>,
         stack' \in Seq(Frame), at' \in {"reading", "roots", "failed"},
         at' = "reading" => stack' # << >>, at' = "roots" => stack' = << >>,
         \A name \in BagToSet(entries) : InStack(Place(name))' => InStack(Place(name))
  PROVE  World' /\ Agenda' /\ Listed' /\ Once'
<1>1. /\ files' = files /\ dirs' = dirs /\ status' = status /\ lost' = lost /\ seen' = seen
      /\ stable' = stable /\ settled' = settled
  BY DEF tree, history
<1>2. \A name : Place(name)' = Place(name)
  BY PlacesFixed
<1>3. World'
  BY ScanKeepsWorld
<1>4. Agenda'
  BY DEF Agenda
<1>5. Ended' = Ended
  BY <1>1, <1>2 DEF Ended
<1>6. Listed'
  BY <1>1, <1>2, <1>5 DEF Listed
<1>7. Once'
  <2> SUFFICES ASSUME NEW name \in BagToSet(entries)
               PROVE  name \notin exact /\ ~InRoots(name)' /\ ~InStack(Place(name))'
    BY <1>2 DEF Once
  <2>1. name \notin exact /\ ~InRoots(name) /\ ~InStack(Place(name))
    BY DEF Once
  <2>2. ~InRoots(name)'
    BY <2>1 DEF InRoots
  <2>3. ~InStack(Place(name))'
    BY <2>1
  <2> QED BY <2>1, <2>2, <2>3
<1> QED BY <1>3, <1>4, <1>6, <1>7

(* ... and no wanted file is forgotten by it. *)
LEMMA StillPending ==
  ASSUME Nothing, at = "reading",
         UNCHANGED <<input, policy, tree, roots, exact, history>>,
         BagToSet(entries) \subseteq BagToSet(entries'),
         \A name \in Files :
           Wanted(name) /\ name \notin policy.files /\ InStack(Place(name)) =>
             InStack(Place(name))' \/ name \in BagToSet(entries')
  PROVE  Nothing'
<1>1. files' = files /\ stable' = stable /\ settled' = settled
  BY DEF tree, history
<1>2. \A name : Place(name)' = Place(name)
  BY PlacesFixed
<1>3. \A name : Wanted(name)' = Wanted(name)
  BY <1>1, <1>2 DEF Wanted
<1>4. \A name : InRoots(name)' = InRoots(name)
  BY DEF InRoots
<1>5. ASSUME NEW name \in Files, Wanted(name)
      PROVE  \/ name \in BagToSet(entries') \/ name \in exact
             \/ name \notin policy.files /\ (InRoots(name) \/ InStack(Place(name))')
  BY <1>5 DEF Nothing
<1> QED BY <1>2, <1>3, <1>4, <1>5 DEF Nothing

(* read_dir: what lies under the directory lies under one of the entries   *)
(* read.                                                                   *)
LEMMA OpenDirStep ==
  ASSUME World, Agenda, Spine, Listed, Once, Nothing, FailureExplained, OpenDir
  PROVE  World' /\ Agenda' /\ Spine' /\ Listed' /\ Once' /\ Nothing' /\ FailureExplained'
<1>1. /\ at = "reading" /\ ~Top.opened
      /\ UNCHANGED <<input, policy, tree, roots, root, exact, entries, del, edits, history>>
  BY DEF OpenDir
<1>2. /\ files' = files /\ dirs' = dirs /\ lost' = lost
      /\ UNCHANGED <<input, tree, history>> /\ root' = root
      /\ UNCHANGED <<input, policy, tree, roots, exact, entries, history>>
  BY <1>1 DEF tree, history
<1>3. Types /\ Tree /\ Past /\ Top \in Frame /\ Top.dir \in Path /\ stack \in Seq(Frame)
  BY <1>1, TopFacts DEF World, Frame, Types
<1>4. CASE Top.dir \in dirs /\ ~Closed(Top.dir)
  <2> DEFINE h == [dir |-> Top.dir, opened |-> TRUE,
                   files |-> FilesIn(Top.dir), dirs |-> DirsIn(Top.dir)]
  <2>1. PICK g : g = h
    OBVIOUS
  <2>2. stack' = Append(Front(stack), g) /\ at' = "reading"
    BY <1>1, <1>4, <2>1 DEF OpenDir, Fail
  <2>3. files \subseteq Path /\ dirs \subseteq Path /\ files \subseteq FilePlaces
    BY <1>3, PathsOfTree DEF Tree
  <2>4. FilesIn(Top.dir) \subseteq files /\ DirsIn(Top.dir) \subseteq dirs
    BY DEF FilesIn, DirsIn
  <2>5. g \in Frame /\ g.dir = Top.dir /\ g.opened /\ g.files = FilesIn(Top.dir)
        /\ g.dirs = DirsIn(Top.dir)
    BY <1>3, <2>1, <2>3, <2>4 DEF Frame
  <2>6. \A c \in g.files \cup g.dirs : Child(c, g.dir)
    BY <1>3, <2>3, <2>5, ChildIff DEF FilesIn, DirsIn
  <2>7. GoodFrame(g)
    <3>1. g.dirs \cap FilePlaces = {}
      BY <1>3, <2>4, <2>5 DEF Tree
    <3>2. IsPrefix(Place(root), g.dir)
      BY <1>1, <2>5, TopFacts DEF GoodFrame
    <3> QED BY <2>3, <2>4, <2>5, <2>6, <3>1, <3>2 DEF GoodFrame
  <2>8. Current(g)
    BY <1>4, <2>4, <2>5 DEF Current
  <2>9. PICK s : s = Append(Front(stack), g)
    OBVIOUS
  <2>10. /\ s \in Seq(Frame) /\ s # << >> /\ Ordered(s)
         /\ ToSet(s) = ToSet(Front(stack)) \cup {g}
         /\ \A f \in ToSet(s) : GoodFrame(f) /\ Entered(f) /\ Current(f)
    BY <1>1, <2>5, <2>7, <2>8, <2>9, NewTop
  <2>11. Spine' /\ \A path : InStack(path)' <=> \E f \in ToSet(s) : Pending(f, path)
    BY <1>2, <2>2, <2>9, <2>10, SpineOf
  <2>12. \A name \in BagToSet(entries) : InStack(Place(name))' => InStack(Place(name))
    <3> SUFFICES ASSUME NEW name \in BagToSet(entries), Pending(g, Place(name))
                 PROVE  Pending(Top, Place(name))
      BY <1>1, <1>2, <2>10, <2>11, PlacesFixed, TopFacts
    <3>1. Place(name) \in Path
      BY <1>3, PathsOfTree, FileNames DEF Listed
    <3>2. PICK c \in g.files \cup g.dirs : IsPrefix(c, Place(name))
      BY <2>5, <3>1, PathPrefix DEF Pending
    <3>3. IsPrefix(Top.dir, c) /\ c \in Path
      BY <2>3, <2>4, <2>5, <2>6 DEF Child
    <3>4. IsPrefix(Top.dir, Place(name))
      BY <1>3, <3>1, <3>2, <3>3, PathPrefix
    <3> QED BY <1>1, <3>4 DEF Pending
  <2>13. World' /\ Agenda' /\ Listed' /\ Once'
    BY <1>1, <2>2, <2>9, <2>10, <2>12, OnlyStack
  <2>14. ASSUME NEW name \in Files, Wanted(name), InStack(Place(name))
         PROVE  InStack(Place(name))'
    <3>1. PICK path : path = Place(name)
      OBVIOUS
    <3>2. path \in files /\ path \in FilePlaces /\ InStack(path)
      BY <1>3, <2>14, <3>1 DEF Wanted, Past, FilePlaces
    <3>3. CASE \E f \in ToSet(Front(stack)) : Pending(f, path)
      BY <1>2, <2>10, <2>11, <3>1, <3>3, PlacesFixed
    <3>4. CASE Pending(Top, path)
      <4>1. IsPrefix(Top.dir, path)
        BY <1>1, <1>3, <3>4, TopFacts DEF Pending, GoodFrame
      <4>2. Top.dir # path
        BY <1>3, <1>4, <3>2 DEF Tree
      <4>3. Pending(g, path)
        BY <1>3, <2>5, <3>2, <4>1, <4>2, EntryToward DEF Pending
      <4> QED BY <1>2, <2>10, <2>11, <3>1, <4>3, PlacesFixed
    <3> QED BY <1>1, <3>2, <3>3, <3>4, TopFacts
  <2>15. Nothing'
    BY <1>1, <1>2, <2>14, StillPending
  <2> QED BY <1>1, <2>2, <2>11, <2>13, <2>15 DEF FailureExplained
<1>5. CASE Top.dir \notin dirs \/ Closed(Top.dir)
  <2>1. at' = "failed" /\ stack' = stack
    BY <1>1, <1>5 DEF OpenDir, Fail
  <2>2. World' /\ Agenda' /\ Listed' /\ Once'
    BY <1>1, <1>3, <2>1, OnlyStack DEF InStack
  <2>3. Spine' /\ Nothing'
    BY <2>1 DEF Spine, Nothing
  <2>4. CASE Top.dir \notin dirs
    <3>1. lost'
      BY <1>1, <1>2, <2>4, TopFacts DEF Current
    <3> QED BY <2>2, <2>3, <3>1 DEF FailureExplained
  <2>5. CASE Closed(Top.dir)
    <3>1. PICK name \in input.closed : Top.dir = Place(name)
      BY <2>5 DEF Closed
    <3>2. /\ IsLayout(layout) /\ root \in RootNames /\ IsPrefix(Place(root), Top.dir)
          /\ name \in Names /\ Walked(WirePath(Top.dir))
      BY <1>1, <1>3, CasesAssumption, PathsOfTree, TopFacts DEF Types, GoodFrame, Entered
    <3>3. WirePath(Top.dir) = name
      BY <1>3, <3>1, <3>2, WireFacts, PlaceInjective
    <3>4. Unread'
      BY <1>2, <3>2, <3>3, UnreadFixed DEF Unread
    <3> QED BY <2>2, <2>3, <3>4 DEF FailureExplained, Unread
  <2> QED BY <1>5, <2>4, <2>5
<1> QED BY <1>4, <1>5

(* A directory that has no more entries holds nothing wanted. *)
LEMMA LeaveDirStep ==
  ASSUME World, Agenda, Spine, Listed, Once, Nothing, FailureExplained, LeaveDir
  PROVE  World' /\ Agenda' /\ Spine' /\ Listed' /\ Once' /\ Nothing' /\ FailureExplained'
<1>1. /\ at = "reading" /\ Top.opened /\ Top.files \cup Top.dirs = {}
      /\ stack' = Front(stack) /\ at' = IF stack' = << >> THEN "roots" ELSE at
      /\ UNCHANGED <<input, policy, tree, roots, root, exact, entries, del, edits, history>>
      /\ UNCHANGED <<input, tree, history>> /\ root' = root
      /\ UNCHANGED <<input, policy, tree, roots, exact, entries, history>>
  BY DEF LeaveDir
<1>2. PICK s : s = Front(stack)
  OBVIOUS
<1>3. s \in Seq(Frame) /\ Ordered(s)
      /\ \A f \in ToSet(s) : GoodFrame(f) /\ Entered(f) /\ Current(f)
  BY <1>1, <1>2, TopFacts
<1>4. \A path : ~Pending(Top, path)
  BY <1>1 DEF Pending
<1>5. \A path : InStack(path) <=> \E f \in ToSet(s) : Pending(f, path)
  BY <1>1, <1>2, <1>4, TopFacts
<1>6. CASE s = << >>
  <2>1. \A path : ~InStack(path) /\ ~InStack(path)'
    BY <1>1, <1>2, <1>5, <1>6 DEF InStack, ToSet
  <2>2. World' /\ Agenda' /\ Listed' /\ Once'
    BY <1>1, <1>2, <1>3, <1>6, <2>1, OnlyStack
  <2>3. Nothing'
    BY <1>1, <2>1, StillPending
  <2> QED BY <1>1, <1>2, <1>6, <2>2, <2>3 DEF Spine, FailureExplained
<1>7. CASE s # << >>
  <2>1. Spine' /\ \A path : InStack(path)' <=> \E f \in ToSet(s) : Pending(f, path)
    BY <1>1, <1>2, <1>3, <1>7, SpineOf
  <2>2. World' /\ Agenda' /\ Listed' /\ Once'
    BY <1>1, <1>2, <1>3, <1>5, <1>7, <2>1, OnlyStack, PlacesFixed
  <2>3. Nothing'
    BY <1>1, <1>5, <2>1, StillPending, PlacesFixed
  <2> QED BY <1>1, <1>2, <1>7, <2>1, <2>2, <2>3 DEF FailureExplained
<1> QED BY <1>6, <1>7

(* An entry of the directory being read, and its canonical name. *)
LEMMA EntryFacts ==
  ASSUME World, Agenda, Spine, at = "reading", Top.opened,
         NEW local \in Top.files \cup Top.dirs, NEW wire, wire = WirePath(local)
  PROVE  /\ local \in Path /\ Child(local, Top.dir) /\ Top.dir \in Path
         /\ wire \in Names /\ wire \in Path /\ Place(wire) = local /\ IsPrefix(root, wire)
         /\ WirePath(Top.dir) \in Path /\ IsPrefix(WirePath(Top.dir), wire)
         /\ Len(wire) = Len(WirePath(Top.dir)) + 1 /\ Front(wire) = WirePath(Top.dir)
         /\ local \in Top.files => wire \in Files
         /\ local \in Top.dirs => local \notin FilePlaces
         /\ \A f \in ToSet(Front(stack)) :
              ~Pending(f, local) /\ Len(f.dir) < Len(local) /\ f.opened
              /\ \A d \in f.dirs : ~IsPrefix(d, local)
<1>1. /\ IsLayout(layout) /\ Types /\ Tree /\ Top \in Frame /\ GoodFrame(Top) /\ root \in RootNames
      /\ root \in Names
  BY PathsOfTree, TopFacts, RootNamesAreNames DEF World
<1>2. /\ Place(root) \in Path /\ Top.dir \in Path /\ local \in Path
      /\ IsPrefix(Place(root), Top.dir) /\ Child(local, Top.dir)
  BY <1>1, PathsOfTree DEF GoodFrame, Frame
<1>3. IsPrefix(Top.dir, local) /\ Len(local) = Len(Top.dir) + 1
  BY <1>2 DEF Child
<1>4. IsPrefix(Place(root), local)
  BY <1>2, <1>3, PathPrefix
<1>5. /\ wire \in Names /\ wire \in Path /\ IsPrefix(root, wire) /\ Place(wire) = local
      /\ Len(wire) = Len(root) + (Len(local) - Len(Place(root)))
  BY <1>1, <1>2, <1>4, WireFacts, NamesArePaths
<1>6. PICK w : w = WirePath(Top.dir)
  OBVIOUS
<1>7. /\ w \in Names /\ w \in Path /\ Place(w) = Top.dir
      /\ Len(w) = Len(root) + (Len(Top.dir) - Len(Place(root)))
  BY <1>1, <1>2, <1>6, WireFacts, NamesArePaths
<1>8. IsPrefix(w, wire)
  BY <1>1, <1>3, <1>5, <1>7, PlacePrefix
<1>9. Len(wire) = Len(w) + 1
  <2>1. Len(root) \in Nat /\ Len(local) \in Nat /\ Len(Top.dir) \in Nat /\ Len(Place(root)) \in Nat
    BY <1>1, <1>2, PathPrefix, NamesArePaths
  <2> QED BY <1>3, <1>5, <1>7, <2>1
<1>13. Front(wire) = w
  BY <1>5, <1>7, <1>8, <1>9, ChildIff DEF Child
<1>10. ASSUME local \in Top.files PROVE wire \in Files
  <2>1. PICK name \in Files : local = Place(name)
    BY <1>1, <1>10 DEF GoodFrame, FilePlaces
  <2> QED BY <1>1, <1>5, <2>1, FileNames, PlaceInjective
<1>11. local \in Top.dirs => local \notin FilePlaces
  BY <1>1 DEF GoodFrame
<1>12. ASSUME NEW f \in ToSet(Front(stack))
       PROVE  ~Pending(f, local) /\ Len(f.dir) < Len(local) /\ f.opened
              /\ \A d \in f.dirs : ~IsPrefix(d, local)
  <2>1. f \in Frame /\ f.dir \in Path /\ f.files \subseteq Path /\ f.dirs \subseteq Path
        /\ Len(f.dir) \in Nat /\ Len(Top.dir) \in Nat /\ Len(local) \in Nat
    BY <1>2, <1>12, TopFacts, PathPrefix DEF Frame
  <2>2. Len(f.dir) < Len(Top.dir) /\ f.opened /\ \A d \in f.dirs : ~IsPrefix(d, Top.dir)
    BY <1>12, TopFacts DEF Beneath
  <2>3. \A c \in f.files \cup f.dirs : Len(c) = Len(f.dir) + 1
    BY <1>12, TopFacts DEF GoodFrame, Child
  <2>4. Len(f.dir) < Len(local)
    BY <1>3, <2>1, <2>2
  <2>5. local \notin f.files
    BY <1>3, <2>1, <2>2, <2>3
  <2>6. ASSUME NEW d \in f.dirs, IsPrefix(d, local) PROVE FALSE
    <3>1. d \in Path /\ Len(d) = Len(f.dir) + 1
      BY <2>1, <2>3, <2>6
    <3>2. Len(d) <= Len(Top.dir)
      BY <2>1, <2>2, <3>1
    <3> QED BY <1>2, <1>3, <2>2, <2>6, <3>1, <3>2, PathPrefix
  <2> QED BY <2>2, <2>4, <2>5, <2>6 DEF Pending
<1> QED BY <1>2, <1>5, <1>6, <1>7, <1>8, <1>9, <1>10, <1>11, <1>12, <1>13

(* The directory being read, without one of its entries. *)
LEMMA RestFacts ==
  ASSUME World, Agenda, Spine, at = "reading", Top.opened,
         NEW local \in Top.files \cup Top.dirs,
         NEW g, g = [Top EXCEPT !.files = @ \ {local}, !.dirs = @ \ {local}]
  PROVE  /\ g \in Frame /\ g.dir = Top.dir /\ g.opened /\ GoodFrame(g) /\ Current(g)
         /\ ~Pending(g, local) /\ Len(g.dir) < Len(local) /\ \A d \in g.dirs : ~IsPrefix(d, local)
         /\ \A path : Pending(g, path) => Pending(Top, path)
         /\ \A path : Pending(Top, path) =>
              \/ Pending(g, path)
              \/ local \in Top.files /\ path = local
              \/ local \in Top.dirs /\ IsPrefix(local, path)
<1>1. Top \in Frame /\ GoodFrame(Top) /\ Current(Top)
  BY TopFacts
<1>2. /\ g \in Frame /\ g.dir = Top.dir /\ g.opened
      /\ g.files = Top.files \ {local} /\ g.dirs = Top.dirs \ {local}
  BY <1>1 DEF Frame
<1>3. GoodFrame(g) /\ Current(g)
  BY <1>1, <1>2 DEF GoodFrame, Current
<1>4. /\ local \in Path /\ Top.dir \in Path /\ Len(Top.dir) \in Nat /\ Top.dirs \subseteq Path
      /\ \A c \in Top.files \cup Top.dirs : Len(c) = Len(Top.dir) + 1
  BY <1>1, PathPrefix DEF Frame, GoodFrame, Child
<1>5. Len(g.dir) < Len(local)
  BY <1>2, <1>4
<1>6. ASSUME NEW d \in g.dirs, IsPrefix(d, local) PROVE FALSE
  <2>1. d \in Path /\ Len(d) = Len(local) /\ d # local
    BY <1>2, <1>4, <1>6
  <2> QED BY <1>4, <1>6, <2>1, PathPrefix
<1>7. ~Pending(g, local)
  BY <1>2, <1>6 DEF Pending
<1>8. \A path : Pending(g, path) => Pending(Top, path)
  BY <1>2 DEF Pending
<1>9. \A path : Pending(Top, path) =>
        \/ Pending(g, path)
        \/ local \in Top.files /\ path = local
        \/ local \in Top.dirs /\ IsPrefix(local, path)
  BY <1>2 DEF Pending
<1> QED BY <1>2, <1>3, <1>5, <1>6, <1>7, <1>8, <1>9

(* What a run file says, or that it is not there. *)
LEMMA TerminalIs ==
  ASSUME World, at # "idle", NEW name \in Names, NEW path, path = Place(name),
         \/ IsAgentRunIndexFile(name)
         \/ IsAgentRunRootDir(Front(name)) /\ Last(name) = "run.json"
  PROVE  /\ Terminal(path, name) = "active" => ~(name \in settled /\ path \in stable)
         /\ Terminal(path, name) = "terminal" => name \in Ended
         /\ Terminal(path, name) = "broken" =>
              name \in RunFiles /\ path \in seen /\ status[name] = "broken"
<1>1. Types /\ Tree /\ Past /\ IsLayout(layout)
  BY PathsOfTree DEF World
<1>2. CASE path \in files
  <2>1. PICK x \in Files : path = Place(x)
    BY <1>1, <1>2 DEF Tree, FilePlaces
  <2>2. name \in Files
    BY <1>1, <2>1, FileNames, PlaceInjective
  <2>3. name \in RunFiles /\ path \in seen
    BY <1>1, <1>2, <2>2 DEF RunFiles, Past
  <2>4. Terminal(path, name) = status[name]
    BY <1>2 DEF Terminal
  <2>5. ~(name \in settled /\ path \in stable) \/ status[name] = "terminal"
    BY <1>1 DEF Past
  <2> QED BY <2>3, <2>4, <2>5 DEF Ended
<1>3. CASE path \notin files
  <2>1. Terminal(path, name) = "active"
    BY <1>3 DEF Terminal
  <2>2. path \notin stable
    BY <1>1, <1>3 DEF Past
  <2> QED BY <2>1, <2>2
<1> QED BY <1>2, <1>3

(* Which run file an entry depends on. *)
LEMMA RunIs ==
  ASSUME NEW local, NEW wire, NEW isDir \in BOOLEAN, NEW run, run = RunStatus(local, wire, isDir)
  PROVE  /\ isDir /\ IsAgentRunRootDir(wire) =>
              run = Terminal(Append(local, "run.json"), Append(wire, "run.json"))
         /\ ~isDir /\ IsAgentRunIndexFile(wire) => run = Terminal(local, wire)
         /\ ~(isDir /\ IsAgentRunRootDir(wire)) /\ ~(~isDir /\ IsAgentRunIndexFile(wire)) =>
              run = "terminal"
  BY DEF RunStatus

(* run.json in the directory of a run. *)
LEMMA RunJson ==
  ASSUME IsLayout(layout), root \in RootNames, NEW wire \in Names, IsPrefix(root, wire),
         NEW local, local = Place(wire), IsAgentRunRootDir(wire)
  PROVE  /\ Append(wire, "run.json") \in Names
         /\ Place(Append(wire, "run.json")) = Append(local, "run.json")
         /\ IsAgentRunRootDir(Front(Append(wire, "run.json")))
         /\ Last(Append(wire, "run.json")) = "run.json"
<1>1. "run.json" \in STRING /\ wire \in Path
  BY LiteralsAssumption, NamesArePaths
<1> QED BY <1>1, AppendPlace, AppendChild

(* A path in the directory of a run. *)
LEMMA InRun ==
  ASSUME NEW w \in Path, NEW name \in Path, IsPrefix(w, name), Len(w) > 5
  PROVE  /\ SubSeq(name, 1, 6) = SubSeq(w, 1, 6)
         /\ IsAgentRunPath(name) <=> IsAgentRunPath(w)
<1>1. /\ Len(w) \in Nat /\ Len(name) \in Nat /\ Len(w) <= Len(name)
      /\ \A i \in 1 .. Len(w) : w[i] = name[i]
  BY PrefixIff, PathPrefix DEF Path
<1>2. 5 \in 1 .. Len(w) /\ Len(w) > 4 /\ Len(name) > 4 /\ 6 <= Len(w) /\ 6 <= Len(name)
  BY <1>1
<1>3. w[5] = name[5]
  BY <1>1, <1>2
<1>4. IsPrefix(Chats, w) <=> IsPrefix(Chats, name)
  <2>1. Chats \in Path /\ Len(Chats) = 3 /\ 3 <= Len(w)
    BY <1>1, CatalogTyped DEF Path
  <2> QED BY <2>1, PathPrefix
<1>5. SubSeq(name, 1, 6) = SubSeq(w, 1, 6)
  <2>1. SubSeq(name, 1, 6) = [i \in 1 .. 6 |-> name[i]] /\ SubSeq(w, 1, 6) = [i \in 1 .. 6 |-> w[i]]
    BY <1>1, <1>2 DEF Path
  <2>2. \A i \in 1 .. 6 : i \in 1 .. Len(w)
    BY <1>1, <1>2
  <2> QED BY <1>1, <2>1, <2>2
<1> QED BY <1>2, <1>3, <1>4, <1>5 DEF IsAgentRunPath, IsAgentWorkspacePath

(* An entry that is passed over holds no wanted file of the directories. *)
LEMMA SkippedIsNotWanted ==
  ASSUME World, Agenda, Spine, at = "reading", Top.opened,
         NEW local \in Top.files \cup Top.dirs, NEW wire, wire = WirePath(local),
         NEW isFile, isFile = (local \in Top.files),
         NEW run, run = RunStatus(local, wire, ~isFile),
         \/ \E link \in Links : local = Place(link)
         \/ IsGloballyExcluded(wire)
         \/ run = "active"
         \/ run = "terminal" /\ ~isFile /\ ~ShouldDescendDir(policy, wire)
         \/ run = "terminal" /\ isFile /\ ~ContainsPath(policy, wire),
         NEW name \in Files, Wanted(name), name \notin policy.files,
         \/ isFile /\ Place(name) = local
         \/ ~isFile /\ local \in Top.dirs /\ IsPrefix(local, Place(name))
  PROVE  FALSE
<1>1. /\ IsLayout(layout) /\ Types /\ Tree /\ Past /\ root \in RootNames
      /\ input.ids \in Seq(STRING)
  BY PathsOfTree, TopFacts, LayoutOf DEF World, Types
<1>2. /\ local \in Path /\ wire \in Names /\ wire \in Path /\ Place(wire) = local
      /\ IsPrefix(root, wire) /\ (isFile => wire \in Files)
      /\ (local \in Top.dirs => local \notin FilePlaces)
  BY EntryFacts
<1>3. /\ name \in Names /\ name \in Path /\ Place(name) \in files /\ Place(name) \in stable
      /\ name \notin Links /\ ContainsPath(policy, name) /\ Place(name) \in FilePlaces
  BY <1>1, FileNames, NamesArePaths DEF Wanted, Past, FilePlaces
<1>14. /\ IsAgentRunIndexFile(name) => name \in settled
       /\ IsAgentRunPath(name) /\ Len(name) > 6 =>
            LET json == Append(SubSeq(name, 1, 6), "run.json")
            IN json \in settled /\ Place(json) \in stable
  <2> PICK E : E = {r \in settled : Place(r) \in stable}
    OBVIOUS
  <2>1. RunEnded(name, E) /\ \A r \in E : r \in settled /\ Place(r) \in stable
    BY DEF Wanted
  <2> QED BY <2>1, Zenon DEF RunEnded
<1>4. IsPrefix(local, Place(name))
  BY <1>2, PathPrefix
<1>5. IsPrefix(wire, name)
  BY <1>1, <1>2, <1>3, <1>4, PlacePrefix
<1>6. isFile => name = wire
  BY <1>1, <1>2, <1>3, PlaceInjective
<1>7. ~isFile => name # wire
  BY <1>2, <1>3
<1>8. ~IsGloballyExcluded(name) /\ \E r \in policy.rules : Matches(r, name)
  BY <1>3 DEF ContainsPath
<1>9. ~IsGloballyExcluded(wire)
  BY <1>2, <1>3, <1>5, <1>8, ExcludedBelow DEF Path
<1>10. ~ \E link \in Links : local = Place(link)
  <2> SUFFICES ASSUME NEW link \in Links, local = Place(link) PROVE FALSE
    OBVIOUS
  <2>1. link \in Files /\ link \in Names
    BY FileNames
  <2>2. CASE isFile
    BY <1>1, <1>2, <1>3, <1>6, <2>1, <2>2, PlaceInjective
  <2>3. CASE ~isFile
    BY <1>2, <2>1, <2>3 DEF FilePlaces
  <2> QED BY <2>2, <2>3
<1>11. run # "active"
  <2> SUFFICES ASSUME run = "active" PROVE FALSE
    OBVIOUS
  <2>1. at # "idle" /\ "active" # "terminal" /\ isFile \in BOOLEAN
    OBVIOUS
  <2>2. CASE isFile /\ IsAgentRunIndexFile(wire)
    <3>1. run = Terminal(local, wire)
      BY <2>1, <2>2, RunIs
    <3>2. ~(wire \in settled /\ local \in stable)
      BY <1>2, <2>1, <2>2, <3>1, TerminalIs
    <3>3. name = wire /\ Place(name) \in stable /\ Place(wire) = local
      BY <1>2, <1>3, <1>6, <2>2
    <3>4. name \in settled /\ local \in stable
      BY <1>14, <2>2, <3>3, Zenon
    <3> QED BY <3>2, <3>3, <3>4, Zenon
  <2>3. CASE ~isFile /\ IsAgentRunRootDir(wire)
    <3> DEFINE json == Append(wire, "run.json")
    <3>1. run = Terminal(Append(local, "run.json"), json)
      BY <2>1, <2>3, RunIs
    <3>2. /\ json \in Names /\ Place(json) = Append(local, "run.json")
          /\ IsAgentRunRootDir(Front(json)) /\ Last(json) = "run.json"
      BY <1>1, <1>2, <2>3, RunJson
    <3>3. LET last == Append(SubSeq(name, 1, 6), "run.json")
          IN last \in settled /\ Place(last) \in stable
      <4>1. Len(wire) = 6 /\ IsPrefix(Chats, wire) /\ wire[5] = "runs"
        BY <2>3 DEF IsAgentRunRootDir
      <4>2. IsAgentRunPath(wire) /\ Len(wire) > 5
        BY <4>1 DEF IsAgentRunPath, IsAgentWorkspacePath
      <4>3. IsAgentRunPath(name)
        BY <1>2, <1>3, <1>5, <4>2, InRun
      <4>4. Len(name) > 6
        <5>1. Len(name) \in Nat /\ Len(wire) <= Len(name) /\ Len(wire) # Len(name)
          BY <1>2, <1>3, <1>5, <1>7, <2>3, PathPrefix
        <5>2. \A n \in Nat : 6 <= n /\ 6 # n => n > 6
          OBVIOUS
        <5>3. Len(wire) = 6
          BY <4>1
        <5> QED BY <5>1, <5>2, <5>3, Zenon
      <4> QED BY <1>14, <4>3, <4>4, Zenon
    <3>4. SubSeq(name, 1, 6) = wire
      <4>1. Len(wire) = 6 /\ Len(wire) > 5
        BY <2>3 DEF IsAgentRunRootDir
      <4>2. SubSeq(name, 1, 6) = SubSeq(wire, 1, 6)
        BY <1>2, <1>3, <1>5, <4>1, InRun
      <4>3. SubSeq(wire, 1, 6) = wire
        BY <1>2, <4>1 DEF Path
      <4> QED BY <4>2, <4>3
    <3> HIDE DEF json
    <3>5. json \in settled /\ Place(json) \in stable
      BY <3>3, <3>4 DEF json
    <3> QED BY <2>1, <3>1, <3>2, <3>5, TerminalIs
  <2>4. CASE ~(isFile /\ IsAgentRunIndexFile(wire)) /\ ~(~isFile /\ IsAgentRunRootDir(wire))
    <3>1. run = "terminal"
      BY <2>1, <2>4, RunIs
    <3> QED BY <2>1, <3>1
  <2> QED BY <2>2, <2>3, <2>4
<1>12. ~isFile => ShouldDescendDir(policy, wire)
  <2> SUFFICES ASSUME ~isFile PROVE ShouldDescendDir(policy, wire)
    OBVIOUS
  <2>1. PICK r \in policy.rules : Matches(r, name)
    BY <1>8
  <2>2. r \in RuleSet
    BY <1>1, Selection DEF Agenda
  <2>3. IsStrictPrefix(wire, name)
    BY <1>5, <1>7 DEF IsStrictPrefix
  <2>4. MayMatchDescendant(r, wire)
    BY <1>2, <1>3, <2>1, <2>2, <2>3, MayMatchAbove DEF Path
  <2> QED BY <1>9, <2>4 DEF ShouldDescendDir
<1>13. isFile => ContainsPath(policy, wire)
  BY <1>3, <1>6
<1> QED BY <1>9, <1>10, <1>11, <1>12, <1>13

(* Below the directory of a run, the run has ended. *)
LEMMA EndedAbove ==
  ASSUME World, Agenda, Spine, at = "reading", Top.opened,
         NEW local \in Top.files \cup Top.dirs, NEW wire, wire = WirePath(local),
         IsAgentRunPath(wire), Len(wire) > 6
  PROVE  Append(SubSeq(wire, 1, 6), "run.json") \in Ended
<1>1. PICK w : w = WirePath(Top.dir)
  OBVIOUS
<1>2. w \in Path /\ wire \in Path /\ IsPrefix(w, wire) /\ Len(wire) = Len(w) + 1
  BY <1>1, EntryFacts
<1>3. Len(w) \in Nat /\ Len(w) > 5
  BY <1>2, PathPrefix
<1>4. SubSeq(wire, 1, 6) = SubSeq(w, 1, 6) /\ IsAgentRunPath(w)
  BY <1>2, <1>3, InRun
<1>5. Append(SubSeq(w, 1, 6), "run.json") \in Ended
  BY <1>1, <1>3, <1>4, TopFacts DEF Entered
<1> QED BY <1>4, <1>5

(* A directory that is entered belongs to no run, or to one that has ended. *)
LEMMA EnteredBelow ==
  ASSUME World, Agenda, Spine, at = "reading", Top.opened,
         NEW local \in Top.dirs, local \notin Top.files,
         RunStatus(local, WirePath(local), TRUE) = "terminal",
         ShouldDescendDir(policy, WirePath(local))
  PROVE  /\ Unopened(local) \in Frame
         /\ GoodFrame(Unopened(local)) /\ Entered(Unopened(local)) /\ Current(Unopened(local))
<1>1. PICK u : u = Unopened(local)
  OBVIOUS
<1>2. PICK wire : wire = WirePath(local)
  OBVIOUS
<1>3. /\ local \in Path /\ Child(local, Top.dir) /\ Top.dir \in Path
      /\ wire \in Names /\ wire \in Path /\ Place(wire) = local /\ IsPrefix(root, wire)
      /\ local \notin FilePlaces
  BY <1>2, EntryFacts
<1>4. u \in Frame /\ u.dir = local /\ ~u.opened /\ u.files = {} /\ u.dirs = {}
  BY <1>1, <1>3, UnopenedTyped
<1>5. IsLayout(layout) /\ root \in RootNames /\ root \in Names /\ Place(root) \in Path
      /\ GoodFrame(Top) /\ Current(Top)
  BY TopFacts, PathsOfTree, RootNamesAreNames DEF World
<1>6. GoodFrame(u)
  <2>1. IsPrefix(Place(root), local)
    BY <1>3, <1>5, PathPrefix DEF GoodFrame, Child
  <2> QED BY <1>4, <2>1 DEF GoodFrame
<1>7. Current(u)
  BY <1>4, <1>5 DEF Current
<1>8. ASSUME IsAgentRunPath(wire), Len(wire) > 5
      PROVE  Append(SubSeq(wire, 1, 6), "run.json") \in Ended
  <2>1. CASE Len(wire) > 6
    BY <1>2, <1>8, <2>1, EndedAbove
  <2>2. CASE ~(Len(wire) > 6)
    <3>1. Len(wire) = 6
      <4>1. Len(wire) \in Nat
        BY <1>3, PathPrefix
      <4>2. \A n \in Nat : n > 5 /\ ~(n > 6) => n = 6
        OBVIOUS
      <4> QED BY <1>8, <2>2, <4>1, <4>2, Zenon
    <3>2. IsAgentRunRootDir(wire)
      BY <1>8, <3>1 DEF IsAgentRunRootDir, IsAgentRunPath, IsAgentWorkspacePath
    <3>3. Terminal(Append(local, "run.json"), Append(wire, "run.json")) = "terminal"
      BY <1>2, <3>2, RunIs
    <3>4. Append(wire, "run.json") \in Ended
      <4>1. /\ Append(wire, "run.json") \in Names
            /\ Place(Append(wire, "run.json")) = Append(local, "run.json")
            /\ IsAgentRunRootDir(Front(Append(wire, "run.json")))
            /\ Last(Append(wire, "run.json")) = "run.json"
        BY <1>3, <1>5, <3>2, RunJson
      <4> QED BY <3>3, <4>1, TerminalIs
    <3>5. SubSeq(wire, 1, 6) = wire
      BY <1>3, <3>1 DEF Path
    <3> QED BY <3>4, <3>5
  <2> QED BY <2>1, <2>2
<1>9. Entered(u)
  BY <1>2, <1>4, <1>8 DEF Entered, Walked
<1> QED BY <1>1, <1>4, <1>6, <1>7, <1>9

(* A file that is listed is new to the manifest, and its run has ended. *)
LEMMA NewEntry ==
  ASSUME World, Agenda, Spine, Once, at = "reading", Top.opened,
         NEW local \in Top.files, local \in files, NEW wire, wire = WirePath(local),
         RunStatus(local, wire, FALSE) = "terminal"
  PROVE  /\ wire \in Files /\ wire \notin BagToSet(entries) /\ Place(wire) = local
         /\ local \in seen /\ RunEnded(wire, Ended)
         /\ wire \notin exact /\ ~InRoots(wire)
<1>1. /\ local \in Path /\ wire \in Names /\ wire \in Path /\ Place(wire) = local
      /\ IsPrefix(root, wire) /\ wire \in Files
  BY EntryFacts
<1>2. /\ IsLayout(layout) /\ Types /\ Tree /\ Past /\ root \in RootNames /\ root \in Path
      /\ input.ids \in Seq(STRING)
  BY PathsOfTree, TopFacts, LayoutOf, RootNamesAreNames DEF World, Types
<1>3. wire \notin BagToSet(entries)
  <2>1. Pending(Top, local)
    BY DEF Pending
  <2> QED BY <1>1, <2>1, TopFacts DEF Once
<1>4. local \in seen
  BY <1>2 DEF Past
<1>5. RunEnded(wire, Ended)
  <2>1. ASSUME IsAgentRunIndexFile(wire) PROVE wire \in Ended
    <3>1. Terminal(local, wire) = "terminal"
      BY <2>1, RunIs
    <3> QED BY <1>1, <2>1, <3>1, TerminalIs
  <2>2. IsAgentRunPath(wire) /\ Len(wire) > 6 =>
          Append(SubSeq(wire, 1, 6), "run.json") \in Ended
    BY EndedAbove
  <2> QED BY <2>1, <2>2 DEF RunEnded
<1>6. wire \notin exact
  <2>1. policy.files \subseteq SingleNames /\ exact \subseteq policy.files
    BY <1>2, Selection DEF Agenda
  <2> QED BY <1>1, <1>2, <2>1, SinglesApart
<1>7. ~InRoots(wire)
  <2> SUFFICES ASSUME NEW r \in ToSet(roots), IsPrefix(r, wire) PROVE FALSE
    BY DEF InRoots
  <2>1. r \in RootNames /\ r \in Path /\ root \notin ToSet(roots) /\ r # root
    BY RootNamesAreNames DEF Agenda, RootSeqs, ToSet
  <2>2. IsPrefix(r, root) \/ IsPrefix(root, r)
    <3>1. Len(r) \in Nat /\ Len(root) \in Nat
      BY <1>2, <2>1, PathPrefix
    <3>2. Len(r) <= Len(root) \/ Len(root) <= Len(r)
      BY <3>1
    <3> QED BY <1>1, <1>2, <2>1, <3>2, PathPrefix
  <2> QED BY <1>2, <2>1, <2>2, RootsBeside
<1> QED BY <1>1, <1>3, <1>4, <1>5, <1>6, <1>7

(* An entry is passed over, entered, listed, or fails the scan. *)
LEMMA VisitEntryStep ==
  ASSUME World, Agenda, Spine, Listed, Once, Nothing, FailureExplained, VisitEntry
  PROVE  World' /\ Agenda' /\ Spine' /\ Listed' /\ Once' /\ Nothing' /\ FailureExplained'
<1>1. /\ at = "reading" /\ Top.opened
      /\ UNCHANGED <<input, policy, tree, roots, root, exact, del, edits, history>>
      /\ UNCHANGED <<input, tree, history>> /\ root' = root
      /\ UNCHANGED <<input, policy, tree, roots, exact, history>>
      /\ files' = files /\ dirs' = dirs /\ status' = status /\ lost' = lost /\ seen' = seen
  BY SMTT(40) DEF VisitEntry, tree, history
<1>2. PICK local \in Top.files \cup Top.dirs :
        LET wire == WirePath(local)
            isFile == local \in Top.files
            isLink == \E link \in Links : local = Place(link)
            named == wire \notin input.undecodable
            rest == Append(Front(stack),
                           [Top EXCEPT !.files = @ \ {local}, !.dirs = @ \ {local}])
            skipped == isLink \/ (named /\ IsGloballyExcluded(wire))
            run == RunStatus(local, wire, ~isFile)
            listable == local \in files /\ wire \notin input.unlistable
        IN \/ /\ \/ skipped
                 \/ named /\ run = "active"
                 \/ named /\ run = "terminal" /\ ~isFile /\ ~ShouldDescendDir(policy, wire)
                 \/ named /\ run = "terminal" /\ isFile /\ ~ContainsPath(policy, wire)
              /\ stack' = rest
              /\ UNCHANGED <<at, entries>>
           \/ /\ ~skipped /\ named /\ run = "terminal"
              /\ ~isFile /\ ShouldDescendDir(policy, wire)
              /\ stack' = Append(rest, Unopened(local))
              /\ UNCHANGED <<at, entries>>
           \/ /\ ~skipped /\ named /\ run = "terminal"
              /\ isFile /\ ContainsPath(policy, wire) /\ listable
              /\ entries' = entries (+) SetToBag({wire})
              /\ stack' = rest
              /\ UNCHANGED at
           \/ /\ ~skipped
              /\ \/ ~named \/ run = "broken"
                 \/ run = "terminal" /\ isFile /\ ContainsPath(policy, wire) /\ ~listable
              /\ Fail
              /\ UNCHANGED <<stack, entries>>
  BY DEF VisitEntry
<1>3. PICK wire : wire = WirePath(local)
  OBVIOUS
<1>4. PICK isFile : isFile = (local \in Top.files)
  OBVIOUS
<1>5. PICK run : run = RunStatus(local, wire, ~isFile)
  OBVIOUS
<1>6. PICK g : g = [Top EXCEPT !.files = @ \ {local}, !.dirs = @ \ {local}]
  OBVIOUS
<1>7. PICK s : s = Append(Front(stack), g)
  OBVIOUS
<1>8. /\ g \in Frame /\ g.dir = Top.dir /\ g.opened /\ GoodFrame(g) /\ Current(g)
      /\ ~Pending(g, local) /\ Len(g.dir) < Len(local) /\ \A d \in g.dirs : ~IsPrefix(d, local)
      /\ \A path : Pending(g, path) => Pending(Top, path)
      /\ \A path : Pending(Top, path) =>
           \/ Pending(g, path)
           \/ local \in Top.files /\ path = local
           \/ local \in Top.dirs /\ IsPrefix(local, path)
  BY <1>1, <1>6, RestFacts
<1>9. /\ s \in Seq(Frame) /\ s # << >> /\ Ordered(s)
      /\ ToSet(s) = ToSet(Front(stack)) \cup {g}
      /\ \A f \in ToSet(s) : GoodFrame(f) /\ Entered(f) /\ Current(f)
  BY <1>1, <1>7, <1>8, NewTop
<1>10. \A path : InStack(path) <=>
         Pending(Top, path) \/ \E f \in ToSet(Front(stack)) : Pending(f, path)
  BY <1>1, TopFacts
<1>11. /\ local \in Path /\ wire \in Names /\ Place(wire) = local
       /\ local \in Top.files => wire \in Files
       /\ local \in Top.dirs => local \notin FilePlaces
       /\ \A f \in ToSet(Front(stack)) :
            ~Pending(f, local) /\ Len(f.dir) < Len(local) /\ f.opened
            /\ \A d \in f.dirs : ~IsPrefix(d, local)
  BY <1>1, <1>3, EntryFacts
<1> DEFINE Linked == \E link \in Links : local = Place(link)
           Stopped == \/ run = "broken"
                      \/ isFile /\ local \notin files
                      \/ ~Linked /\ wire \in input.undecodable
                      \/ ~Linked /\ isFile /\ wire \in input.unlistable
                         /\ ContainsPath(policy, wire) /\ local \in files
<1>12. \/ /\ \/ \E link \in Links : local = Place(link)
             \/ IsGloballyExcluded(wire)
             \/ run = "active"
             \/ run = "terminal" /\ ~isFile /\ ~ShouldDescendDir(policy, wire)
             \/ run = "terminal" /\ isFile /\ ~ContainsPath(policy, wire)
          /\ stack' = s /\ at' = at /\ entries' = entries
       \/ /\ run = "terminal" /\ ~isFile /\ ShouldDescendDir(policy, wire)
          /\ stack' = Append(s, Unopened(local)) /\ at' = at /\ entries' = entries
       \/ /\ run = "terminal" /\ isFile /\ ContainsPath(policy, wire) /\ local \in files
          /\ stack' = s /\ at' = at /\ entries' = entries (+) SetToBag({wire})
       \/ /\ Stopped
          /\ stack' = stack /\ at' = "failed" /\ entries' = entries
  <2> DEFINE isLink == \E link \in Links : local = Place(link)
             named == wire \notin input.undecodable
             skipped == isLink \/ (named /\ IsGloballyExcluded(wire))
             listable == local \in files /\ wire \notin input.unlistable
  <2>1. \/ /\ \/ skipped
              \/ named /\ run = "active"
              \/ named /\ run = "terminal" /\ ~isFile /\ ~ShouldDescendDir(policy, wire)
              \/ named /\ run = "terminal" /\ isFile /\ ~ContainsPath(policy, wire)
           /\ stack' = s
           /\ UNCHANGED <<at, entries>>
        \/ /\ ~skipped /\ named /\ run = "terminal"
           /\ ~isFile /\ ShouldDescendDir(policy, wire)
           /\ stack' = Append(s, Unopened(local))
           /\ UNCHANGED <<at, entries>>
        \/ /\ ~skipped /\ named /\ run = "terminal"
           /\ isFile /\ ContainsPath(policy, wire) /\ listable
           /\ entries' = entries (+) SetToBag({wire})
           /\ stack' = s
           /\ UNCHANGED at
        \/ /\ ~skipped
           /\ \/ ~named \/ run = "broken"
              \/ run = "terminal" /\ isFile /\ ContainsPath(policy, wire) /\ ~listable
           /\ Fail
           /\ UNCHANGED <<stack, entries>>
    BY <1>2, <1>3, <1>4, <1>5, <1>6, <1>7
  <2> QED BY <2>1 DEF Fail
<1>13. (\A name : Place(name)' = Place(name)) /\ isFile \in BOOLEAN
  BY <1>1, <1>4, PlacesFixed
<1>14. ASSUME stack' = s, at' = at
       PROVE  Spine' /\ \A path : InStack(path)' <=>
                Pending(g, path) \/ \E f \in ToSet(Front(stack)) : Pending(f, path)
  BY <1>1, <1>9, <1>14, SpineOf
<1>15. CASE /\ \/ \E link \in Links : local = Place(link)
               \/ IsGloballyExcluded(wire)
               \/ run = "active"
               \/ run = "terminal" /\ ~isFile /\ ~ShouldDescendDir(policy, wire)
               \/ run = "terminal" /\ isFile /\ ~ContainsPath(policy, wire)
            /\ stack' = s /\ at' = at /\ entries' = entries
  <2>1. Spine' /\ \A path : InStack(path)' <=>
          Pending(g, path) \/ \E f \in ToSet(Front(stack)) : Pending(f, path)
    BY <1>14, <1>15
  <2>2. World' /\ Agenda' /\ Listed' /\ Once'
    BY <1>1, <1>8, <1>9, <1>10, <1>13, <1>15, <2>1, OnlyStack
  <2>3. ASSUME NEW name \in Files, Wanted(name), name \notin policy.files, InStack(Place(name))
        PROVE  InStack(Place(name))'
    <3>1. PICK path : path = Place(name)
      OBVIOUS
    <3>2. ~(isFile /\ path = local)
      BY <1>1, <1>3, <1>4, <1>5, <1>15, <2>3, <3>1, SkippedIsNotWanted
    <3>3. ~(~isFile /\ local \in Top.dirs /\ IsPrefix(local, path))
      BY <1>1, <1>3, <1>4, <1>5, <1>15, <2>3, <3>1, SkippedIsNotWanted
    <3>4. ~(isFile /\ local \in Top.dirs)
      BY <1>4, <1>11 DEF FilePlaces
    <3>5. InStack(path)'
      BY <1>4, <1>8, <1>10, <2>1, <2>3, <3>1, <3>2, <3>3, <3>4
    <3> QED BY <1>13, <3>1, <3>5
  <2>4. Nothing'
    BY <1>1, <1>15, <2>3, StillPending
  <2> QED BY <1>1, <1>15, <2>1, <2>2, <2>4 DEF FailureExplained
<1>16. CASE /\ run = "terminal" /\ ~isFile /\ ShouldDescendDir(policy, wire)
            /\ stack' = Append(s, Unopened(local)) /\ at' = at /\ entries' = entries
  <2>1. PICK u : u = Unopened(local)
    OBVIOUS
  <2>2. u \in Frame /\ GoodFrame(u) /\ Entered(u) /\ Current(u)
    BY <1>1, <1>3, <1>4, <1>5, <1>16, <2>1, EnteredBelow
  <2>3. u.dir = local /\ ~u.opened /\ u.files = {} /\ u.dirs = {}
    BY <1>11, <2>1, UnopenedTyped
  <2>4. \A f \in ToSet(s) : Beneath(f, u)
    BY <1>8, <1>9, <1>11, <2>3 DEF Beneath
  <2>5. PICK t : t = Append(s, u)
    OBVIOUS
  <2>6. t \in Seq(Frame) /\ ToSet(t) = ToSet(s) \cup {u} /\ t # << >> /\ Ordered(t)
    BY <1>9, <2>2, <2>4, <2>5, AppendSet, OrderedAppend
  <2>7. Spine' /\ \A path : InStack(path)' <=> \E f \in ToSet(t) : Pending(f, path)
    BY <1>1, <1>9, <1>16, <2>1, <2>2, <2>5, <2>6, SpineOf
  <2>8. \A path : Pending(u, path) <=> IsPrefix(local, path)
    BY <2>3 DEF Pending
  <2>9. \A path : InStack(path)' <=>
          \/ Pending(g, path) \/ IsPrefix(local, path)
          \/ \E f \in ToSet(Front(stack)) : Pending(f, path)
    BY <1>9, <2>6, <2>7, <2>8
  <2>10. \A path : IsPrefix(local, path) => Pending(Top, path)
    BY <1>4, <1>16 DEF Pending
  <2>11. World' /\ Agenda' /\ Listed' /\ Once'
    BY <1>1, <1>8, <1>10, <1>13, <1>16, <2>1, <2>5, <2>6, <2>9, <2>10, OnlyStack
  <2>12. Nothing'
    BY <1>1, <1>4, <1>8, <1>10, <1>13, <1>16, <2>9, StillPending
  <2> QED BY <1>1, <1>16, <2>7, <2>11, <2>12 DEF FailureExplained
<1>17. CASE /\ run = "terminal" /\ isFile /\ ContainsPath(policy, wire) /\ local \in files
            /\ stack' = s /\ at' = at /\ entries' = entries (+) SetToBag({wire})
  <2>1. Spine' /\ \A path : InStack(path)' <=>
          Pending(g, path) \/ \E f \in ToSet(Front(stack)) : Pending(f, path)
    BY <1>14, <1>17
  <2>2. /\ wire \in Files /\ wire \notin BagToSet(entries) /\ local \in seen
        /\ RunEnded(wire, Ended) /\ wire \notin exact /\ ~InRoots(wire)
    BY <1>1, <1>3, <1>4, <1>5, <1>17, NewEntry
  <2>3. Listed' /\ BagToSet(entries') = BagToSet(entries) \cup {wire}
    BY <1>1, <1>11, <1>17, <2>2, AddEntry
  <2>4. World'
    BY <1>1, <1>9, <1>17, ScanKeepsWorld
  <2>5. Agenda'
    BY <1>1, <1>9, <1>17 DEF Agenda
  <2>6. Once'
    <3> SUFFICES ASSUME NEW name \in BagToSet(entries) \cup {wire}
                 PROVE  name \notin exact /\ ~InRoots(name)' /\ ~InStack(Place(name))'
      BY <1>1, <2>3 DEF Once
    <3>1. InRoots(name)' <=> InRoots(name)
      BY <1>1 DEF InRoots
    <3>2. CASE name = wire
      BY <1>8, <1>11, <1>13, <2>1, <2>2, <3>1, <3>2
    <3>3. CASE name \in BagToSet(entries)
      <4>1. name \notin exact /\ ~InRoots(name) /\ ~InStack(Place(name))
        BY <3>3 DEF Once
      <4> QED BY <1>8, <1>10, <1>13, <2>1, <3>1, <4>1
    <3> QED BY <3>2, <3>3
  <2>7. ASSUME NEW name \in Files, InStack(Place(name))
        PROVE  InStack(Place(name))' \/ name \in BagToSet(entries')
    <3>1. PICK path : path = Place(name)
      OBVIOUS
    <3>2. local \notin Top.dirs
      BY <1>4, <1>11, <1>17, <2>2 DEF FilePlaces
    <3>3. CASE path = local
      <4>1. name = wire
        <5>1. IsLayout(layout) /\ name \in Names
          BY FileNames, PathsOfTree DEF World
        <5> QED BY <1>11, <3>1, <3>3, <5>1, PlaceInjective
      <4> QED BY <2>3, <4>1
    <3>4. CASE path # local
      <4>1. InStack(path)'
        BY <1>8, <1>10, <2>1, <2>7, <3>1, <3>2, <3>4
      <4> QED BY <1>13, <3>1, <4>1
    <3> QED BY <3>3, <3>4
  <2>8. Nothing'
    BY <1>1, <2>3, <2>7, StillPending
  <2> QED BY <1>1, <1>17, <2>1, <2>3, <2>4, <2>5, <2>6, <2>8 DEF FailureExplained
<1>18. CASE /\ Stopped
            /\ stack' = stack /\ at' = "failed" /\ entries' = entries
  <2>1. World' /\ Agenda' /\ Listed' /\ Once'
    <3>1. stack \in Seq(Frame)
      BY DEF World, Types
    <3>2. \A path : ~InStack(path)'
      BY <1>18 DEF InStack
    <3> QED BY <1>1, <1>13, <1>18, <3>1, <3>2, OnlyStack
  <2>2. Spine' /\ Nothing'
    BY <1>18 DEF Spine, Nothing
  <2>3. FailureExplained'
    <3>1. CASE isFile /\ local \notin files
      <4>1. lost'
        BY <1>1, <1>4, <3>1, TopFacts DEF Current
      <4> QED BY <4>1 DEF FailureExplained
    <3>2. CASE run = "broken"
      <4>1. \E x \in RunFiles : Place(x) \in seen /\ status[x] = "broken"
        <5>1. IsLayout(layout) /\ root \in RootNames /\ IsPrefix(root, wire)
          BY <1>1, <1>3, TopFacts, PathsOfTree, EntryFacts DEF World
        <5>2. CASE isFile /\ IsAgentRunIndexFile(wire)
          <6>1. Terminal(local, wire) = "broken"
            BY <1>5, <1>13, <3>2, <5>2, RunIs
          <6> QED BY <1>1, <1>11, <5>2, <6>1, TerminalIs
        <5>3. CASE ~isFile /\ IsAgentRunRootDir(wire)
          <6>1. Terminal(Append(local, "run.json"), Append(wire, "run.json")) = "broken"
            BY <1>5, <1>13, <3>2, <5>3, RunIs
          <6>2. /\ Append(wire, "run.json") \in Names
                /\ Place(Append(wire, "run.json")) = Append(local, "run.json")
                /\ IsAgentRunRootDir(Front(Append(wire, "run.json")))
                /\ Last(Append(wire, "run.json")) = "run.json"
            BY <1>11, <5>1, <5>3, RunJson
          <6> QED BY <1>1, <6>1, <6>2, TerminalIs
        <5>4. CASE ~(isFile /\ IsAgentRunIndexFile(wire)) /\ ~(~isFile /\ IsAgentRunRootDir(wire))
          <6>1. run = "terminal" /\ "terminal" # "broken"
            BY <1>5, <1>13, <5>4, RunIs
          <6> QED BY <3>2, <6>1
        <5> QED BY <5>2, <5>3, <5>4
      <4>2. \E x \in RunFiles : Place(x)' \in seen' /\ status'[x] = "broken"
        BY <1>1, <1>13, <4>1
      <4> QED BY <4>2 DEF FailureExplained
    <3>3. CASE ~Linked /\ wire \in input.undecodable
      <4>1. wire \notin Links
        BY <1>11, <3>3
      <4>2. Walked(Front(wire))
        BY <1>1, <1>3, EntryFacts, TopFacts DEF Entered
      <4>3. Unread'
        BY <1>1, <3>3, <4>1, <4>2, UnreadFixed DEF Unread
      <4> QED BY <4>3 DEF FailureExplained, Unread
    <3>4. CASE ~Linked /\ isFile /\ wire \in input.unlistable
               /\ ContainsPath(policy, wire) /\ local \in files
      <4>1. wire \notin Links /\ local \in seen
        BY <1>1, <1>11, <3>4 DEF World, Past
      <4>2. Unlisted(wire)'
        BY <1>1, <1>11, <1>13, <3>4, <4>1 DEF Unlisted
      <4> QED BY <1>1, <3>4, <4>2 DEF FailureExplained, Unlisted
    <3> QED BY <1>18, <3>1, <3>2, <3>3, <3>4
  <2> QED BY <2>1, <2>2, <2>3
<1> QED BY <1>12, <1>15, <1>16, <1>17, <1>18

-----------------------------------------------------------------------------
(* The theorems. *)

(* The tree at first. *)
LEMMA InitTree ==
  ASSUME Init
  PROVE  Tree /\ dirs \subseteq Path /\ IsFiniteSet(dirs)
<1>1. /\ input \in Cases
      /\ files = {Place(name) : name \in Files \ input.missing}
      /\ dirs = UNION ({Ancestors(path) : path \in files}
                       \cup {Ancestors(Place(d)) \cup {Place(d)} : d \in Spare})
  BY DEF Init
<1>2. IsLayout(layout)
  BY <1>1, LayoutOf
<1>3. /\ Files \subseteq Names /\ Spare \subseteq Names /\ IsFiniteSet(Files) /\ IsFiniteSet(Spare)
      /\ \A file \in Files : \A name \in (Files \ {file}) \cup Spare : ~IsPrefix(file, name)
  BY NamesAssumption
<1>4. \A name \in Names : Place(name) \in Path /\ Place(name) # << >>
  BY <1>2, PlaceTyped
<1>5. /\ \A path \in files : path \in Path /\ path # << >> /\ path \in FilePlaces
      /\ files \subseteq FilePlaces
  BY <1>1, <1>3, <1>4 DEF FilePlaces
<1>6. \A p \in Path : Ancestors(p) = {q \in Path : q # << >> /\ IsPrefix(q, p) /\ q # p}
  BY AncestorsAre
<1>7. \A dir : dir \in dirs <=>
        \/ \E path \in files : dir \in Ancestors(path)
        \/ \E d \in Spare : dir \in Ancestors(Place(d)) \/ dir = Place(d)
  <2> DEFINE A == {Ancestors(path) : path \in files}
             B == {Ancestors(Place(d)) \cup {Place(d)} : d \in Spare}
  <2> SUFFICES ASSUME NEW dir
               PROVE  dir \in dirs <=>
                        \/ \E path \in files : dir \in Ancestors(path)
                        \/ \E d \in Spare : dir \in Ancestors(Place(d)) \/ dir = Place(d)
    OBVIOUS
  <2>1. (\E a \in A : dir \in a) <=> \E path \in files : dir \in Ancestors(path)
    OBVIOUS
  <2>2. (\E b \in B : dir \in b) <=>
          \E d \in Spare : dir \in Ancestors(Place(d)) \/ dir = Place(d)
    OBVIOUS
  <2>3. dirs = UNION (A \cup B)
    BY <1>1
  <2> HIDE DEF A, B
  <2> QED BY <2>1, <2>2, <2>3
<1>8. dirs \subseteq Path
  <2> SUFFICES ASSUME NEW dir \in dirs PROVE dir \in Path
    OBVIOUS
  <2>1. \A p \in Path : Ancestors(p) \subseteq Path
    BY <1>6
  <2>2. \A d \in Spare : Place(d) \in Path
    BY <1>3, <1>4
  <2> QED BY <1>5, <1>7, <2>1, <2>2
<1>9. dirs \cap FilePlaces = {}
  <2> SUFFICES ASSUME NEW dir \in dirs, NEW name \in Files, dir = Place(name) PROVE FALSE
    BY DEF FilePlaces
  <2>1. ASSUME NEW path \in files, dir \in Ancestors(path) PROVE FALSE
    <3>1. PICK x \in Files : path = Place(x)
      BY <1>1, <2>1
    <3>2. IsPrefix(dir, path) /\ dir # path
      BY <1>5, <1>6, <2>1
    <3>3. IsPrefix(name, x)
      BY <1>2, <1>3, <3>1, <3>2, PlacePrefix
    <3> QED BY <1>3, <3>1, <3>2, <3>3
  <2>2. ASSUME NEW d \in Spare, dir \in Ancestors(Place(d)) \/ dir = Place(d) PROVE FALSE
    <3>1. IsPrefix(dir, Place(d))
      BY <1>3, <1>4, <1>6, <2>2, PathPrefix
    <3>2. IsPrefix(name, d)
      BY <1>2, <1>3, <3>1, PlacePrefix
    <3> QED BY <1>3, <3>2
  <2> QED BY <1>7, <2>1, <2>2
<1>10. ASSUME NEW p \in files \cup dirs PROVE Ancestors(p) \subseteq dirs
  <2>1. CASE p \in files
    BY <1>7, <2>1
  <2>2. CASE p \in dirs
    <3> SUFFICES ASSUME NEW q \in Ancestors(p) PROVE q \in dirs
      OBVIOUS
    <3>1. p \in Path /\ q \in Path /\ q # << >> /\ IsPrefix(q, p) /\ q # p
      BY <1>6, <1>8, <2>2
    <3>2. \A r \in Path : p \in Ancestors(r) => q \in Ancestors(r)
      <4> SUFFICES ASSUME NEW r \in Path, p \in Ancestors(r) PROVE q \in Ancestors(r)
        OBVIOUS
      <4>1. IsPrefix(p, r) /\ p # r
        BY <1>6
      <4>2. IsPrefix(q, r)
        BY <3>1, <4>1, PathPrefix
      <4>3. q # r
        BY <3>1, <4>1, PathPrefix
      <4> QED BY <1>6, <3>1, <4>2, <4>3
    <3> QED BY <1>3, <1>4, <1>5, <1>7, <2>2, <3>1, <3>2
  <2> QED BY <2>1, <2>2
<1>11. IsFiniteSet(dirs)
  <2> DEFINE D == Files \ input.missing
             A == {Ancestors(path) : path \in files}
             B == {Ancestors(Place(d)) \cup {Place(d)} : d \in Spare}
  <2>1. IsFiniteSet(D) /\ D \in SUBSET Names
    BY <1>3, FS_Subset
  <2>2. IsFiniteSet(files)
    <3>1. PICK f : f = [d \in D |-> Place(d)]
      OBVIOUS
    <3>2. files = {Place(d) : d \in D}
      BY <1>1
    <3> HIDE DEF D
    <3> QED BY <2>1, <3>1, <3>2, FinitePlaces
  <2>3. IsFiniteSet(A)
    <3>1. [path \in files |-> Ancestors(path)] \in Surjection(files, A)
      BY DEF Surjection
    <3> QED BY <2>2, <3>1, FS_Surjection
  <2>4. IsFiniteSet(B)
    <3>1. [d \in Spare |-> Ancestors(Place(d)) \cup {Place(d)}] \in Surjection(Spare, B)
      BY DEF Surjection
    <3> QED BY <1>3, <3>1, FS_Surjection
  <2>5. \A a \in A : IsFiniteSet(a)
    BY <1>5, FiniteAncestors
  <2>6. \A b \in B : IsFiniteSet(b)
    BY <1>3, <1>4, FiniteAncestors, FS_AddElement
  <2>7. dirs = UNION (A \cup B)
    BY <1>1
  <2> HIDE DEF A, B
  <2>8. IsFiniteSet(A \cup B) /\ \A x \in A \cup B : IsFiniteSet(x)
    BY <2>3, <2>4, <2>5, <2>6, FS_Union
  <2> QED BY <2>7, <2>8, FS_UNION
<1> QED BY <1>5, <1>8, <1>9, <1>10, <1>11 DEF Tree

(* The invariant holds at first. *)
LEMMA InitInv == Init => IInv
<1> SUFFICES ASSUME Init PROVE IInv
  OBVIOUS
<1>1. /\ input \in Cases /\ status \in [RunFiles -> input.runs]
      /\ at = "idle" /\ roots = << >> /\ stack = << >> /\ exact = {} /\ entries = EmptyBag
      /\ del = [d \in Deleters |-> Idle] /\ edits = 0 /\ stable = {} /\ settled = {} /\ lost = FALSE
  BY DEF Init
<1>2. Tree /\ dirs \subseteq Path /\ IsFiniteSet(dirs)
  BY InitTree
<1>3. Idle \in Deletion /\ PruneBelow(Idle)
  BY EmptyPath DEF Idle, Deletion, DelStates, PruneBelow
<1>4. Types
  <2>1. status \in [RunFiles -> Statuses] /\ edits \in 0 .. input.edits
    BY <1>1, CasesAssumption DEF Statuses
  <2>2. del \in [Deleters -> Deletion]
    BY <1>1, <1>3
  <2>3. stack \in Seq(Frame)
    BY <1>1
  <2> QED BY <1>1, <1>2, <2>1, <2>2, <2>3 DEF Types
<1>5. Past
  BY <1>1 DEF Past
<1>6. Pruning
  BY <1>1, <1>3 DEF Pruning
<1>7. BagToSet(entries) = {}
  BY <1>1 DEF BagToSet, EmptyBag, SetToBag
<1>8. Agenda
  <2>1. roots \in RootSeqs
    BY <1>1 DEF RootSeqs
  <2> QED BY <1>1, <1>7, <2>1 DEF Agenda
<1>9. Spine /\ Listed /\ Once /\ Nothing /\ FailureExplained
  BY <1>1, <1>7 DEF Spine, Listed, Once, Nothing, FailureExplained
<1> QED BY <1>2, <1>4, <1>5, <1>6, <1>8, <1>9 DEF IInv

(* The parts of the invariant. *)
LEMMA WorldOf == IInv <=> /\ World /\ Agenda /\ Spine /\ Listed /\ Once /\ Nothing
                          /\ FailureExplained
  BY DEF IInv, World

(* The steps of the others keep what the scan relies on. *)
LEMMA OthersKeep ==
  ASSUME IInv, World', Meanwhile
  PROVE  IInv'
<1>1. Spine' /\ Agenda' /\ Listed' /\ Once' /\ Nothing' /\ FailureExplained'
  BY WorldOf, MeanwhileSpine, MeanwhileLists
<1> QED BY <1>1 DEF IInv, World

(* Every step of the scan keeps the invariant. *)
LEMMA ScanKeeps ==
  ASSUME IInv,
         \/ StartScan \/ NextRoot \/ OpenDir \/ VisitEntry \/ LeaveDir \/ ScanFile \/ FinishScan
  PROVE  IInv'
<1>1. World' /\ Agenda' /\ Spine' /\ Listed' /\ Once' /\ Nothing' /\ FailureExplained'
  BY WorldOf, StartScanStep, NextRootStep, OpenDirStep, VisitEntryStep, LeaveDirStep,
     ScanFileStep, FinishScanStep
<1> QED BY <1>1 DEF IInv, World

(* Steps of others keep the invariant. *)
LEMMA StutterKeeps == IInv /\ UNCHANGED vars => IInv'
<1> SUFFICES ASSUME IInv, UNCHANGED vars PROVE IInv'
  OBVIOUS
<1>1. /\ UNCHANGED <<input, policy, scan, settled, stable, seen, lost, files, dirs, status, del, edits>>
      /\ stack' = stack /\ at' = at
  BY DEF vars, tree, scan, history
<1>2. Meanwhile
  BY <1>1 DEF Meanwhile
<1>3. World'
  <2>1. (\A name : Place(name)' = Place(name)) /\ FilePlaces' = FilePlaces
    BY <1>1, PlacesFixed
  <2>2. Pruning'
    BY <1>1, WorldOf, PruningFixed DEF World
  <2>3. Types' /\ Tree' /\ Past'
    BY <1>1, <2>1 DEF IInv, Types, Tree, Past
  <2> QED BY <2>2, <2>3 DEF World
<1> QED BY <1>2, <1>3, OthersKeep

(* The invariant is inductive. *)
LEMMA StepInv == IInv /\ [Next]_vars => IInv'
<1> SUFFICES ASSUME IInv, [Next]_vars PROVE IInv'
  OBVIOUS
<1>1. World
  BY WorldOf
<1>2. ASSUME NEW name \in Volatile, CreateFile(name) \/ RemoveFile(name) PROVE IInv'
  BY <1>1, <1>2, CreateFileStep, RemoveFileStep, OthersKeep
<1>3. ASSUME NEW name \in RunFiles, EndRun(name) PROVE IInv'
  BY <1>1, <1>3, EndRunStep, OthersKeep
<1>4. CASE StartScan \/ NextRoot \/ OpenDir \/ VisitEntry \/ LeaveDir \/ ScanFile \/ FinishScan
  BY <1>4, ScanKeeps
<1>5. ASSUME NEW d \in Deleters, DeleteFile(d) \/ PruneStep(d) \/ CollectDir(d) \/ EmptyDir(d)
      PROVE  IInv'
  BY <1>1, <1>5, DeleteFileStep, PruneStepStep, CollectDirStep, EmptyDirStep, OthersKeep
<1>6. CASE UNCHANGED vars
  BY <1>6, StutterKeeps
<1> QED BY <1>2, <1>3, <1>4, <1>5, <1>6 DEF Next

(* No step removes a directory that is not below a scan root. *)
LEMMA StepPrunes == IInv /\ [Next]_vars => OnlyBelowRoots
<1> SUFFICES ASSUME IInv, [Next]_vars PROVE OnlyBelowRoots
  OBVIOUS
<1>1. World
  BY WorldOf
<1>2. (dirs \subseteq dirs') => OnlyBelowRoots
  BY DEF OnlyBelowRoots
<1>3. ASSUME NEW name \in Volatile, CreateFile(name) \/ RemoveFile(name) PROVE dirs \subseteq dirs'
  BY <1>3 DEF CreateFile, RemoveFile
<1>4. ASSUME NEW name \in RunFiles, EndRun(name) PROVE dirs \subseteq dirs'
  BY <1>4 DEF EndRun
<1>5. CASE StartScan \/ NextRoot \/ OpenDir \/ VisitEntry \/ LeaveDir \/ ScanFile \/ FinishScan
  <2>1. UNCHANGED tree
    BY <1>5 DEF StartScan, NextRoot, OpenDir, VisitEntry, LeaveDir, ScanFile, FinishScan
  <2> QED BY <1>2, <2>1, SMTT(40) DEF tree
<1>6. ASSUME NEW d \in Deleters, DeleteFile(d) PROVE dirs \subseteq dirs'
  BY <1>6 DEF DeleteFile
<1>7. ASSUME NEW d \in Deleters, PruneStep(d) \/ CollectDir(d) \/ EmptyDir(d) PROVE OnlyBelowRoots
  BY <1>1, <1>7, PruneStepStep, CollectDirStep, EmptyDirStep
<1>8. CASE UNCHANGED vars
  BY <1>2, <1>8 DEF vars, tree
<1> QED BY <1>2, <1>3, <1>4, <1>5, <1>6, <1>7, <1>8 DEF Next

(* The inductive invariant holds in every state. *)
THEOREM Invariance == Spec => []IInv
<1> QED BY InitInv, StepInv, PTL DEF Spec

(* Every variable has its type, and every file is in directories that are  *)
(* there, whatever the application and other plans do during the scan.     *)
THEOREM TypeCorrect == Spec => []TypeOK
<1>1. IInv => TypeOK
  <2> SUFFICES ASSUME IInv PROVE TypeOK
    OBVIOUS
  <2>1. Types /\ Tree /\ Listed
    BY DEF IInv
  <2>2. ASSUME NEW path \in files \cup dirs, Len(path) > 1 PROVE Front(path) \in dirs
    <3>1. Len(path) \in Nat
      BY <2>1, PathsOfTree, PathPrefix
    <3>2. Len(path) - 1 \in 1 .. Len(path) - 1
      BY <2>2, <3>1
    <3>3. Front(path) \in Ancestors(path)
      BY <3>2 DEF Front, Ancestors
    <3> QED BY <2>1, <3>3 DEF Tree
  <2>3. \A d \in Deleters :
          del[d].at \in {"idle", "pruning", "collecting", "emptying", "ok", "failed"}
    BY <2>1 DEF Types, Deletion, DelStates
  <2>4. files \subseteq {Place(name) : name \in Files}
    BY <2>1 DEF Tree, FilePlaces
  <2> QED BY <2>1, <2>2, <2>3, <2>4 DEF TypeOK, Types, Listed
<1> QED BY <1>1, Invariance, PTL

(* A finished scan lists every selected file that was there all the time   *)
(* and belongs to no run that had not ended: neither the directories the   *)
(* rules enter nor the layout hides one.                                   *)
THEOREM Complete == Spec => []ManifestComplete
<1>1. IInv => ManifestComplete
  <2> SUFFICES ASSUME IInv, at = "ok", NEW name \in Files, Wanted(name)
               PROVE  name \in BagToSet(entries)
    BY DEF ManifestComplete, Wanted
  <2>1. roots = << >> /\ exact = {}
    BY DEF IInv, Agenda
  <2>2. ~InRoots(name) /\ ~InStack(Place(name))
    BY <2>1 DEF InRoots, InStack, ToSet
  <2> QED BY <2>1, <2>2 DEF IInv, Nothing
<1> QED BY <1>1, Invariance, PTL

(* The manifest lists selected files only, each once, each one there at    *)
(* some time during the scan, and none of a run that goes on.              *)
THEOREM Sound == Spec => []ManifestSound
<1>1. IInv => ManifestSound
  <2> SUFFICES ASSUME IInv, NEW name \in BagToSet(entries)
               PROVE  /\ ContainsPath(policy, name) /\ Place(name) \in seen
                      /\ RunEnded(name, {run \in RunFiles : status[run] = "terminal"})
                      /\ entries[name] = 1
    BY DEF ManifestSound
  <2>1. Ended \subseteq {run \in RunFiles : status[run] = "terminal"}
    BY DEF Ended
  <2> QED BY <2>1, EndedMore DEF IInv, Listed
<1> QED BY <1>1, Invariance, PTL

(* A scan fails only because something was removed under it, or over what  *)
(* it has to read: a run file, a scan root, a selected file, or a          *)
(* directory the selection looks into; never over what lies outside the    *)
(* selection or behind a link.                                             *)
THEOREM Explained == Spec => []FailureExplained
<1>1. IInv => FailureExplained
  BY DEF IInv
<1> QED BY <1>1, Invariance, PTL

(* prune_fileless_ancestors removes directories strictly below a scan root *)
(* of the catalog, never the root or anything above.                       *)
THEOREM StopsAtRoot == Spec => PruneStopsAtRoot
<1>1. IInv /\ [Next]_vars =>
        [\A dir \in dirs \ dirs' :
           \E id \in DOMAIN DATASETS : \E i \in DOMAIN DATASETS[id].scan_roots :
             IsStrictPrefix(Place(DATASETS[id].scan_roots[i]), dir)]_vars
  BY StepPrunes DEF OnlyBelowRoots
<1> QED BY <1>1, Invariance, PTL DEF Spec, PruneStopsAtRoot
=============================================================================
