---------------------------- MODULE TrafficProofs ----------------------------
(***************************************************************************)
(* Proofs about the traffic counters, for every number of CPUs and every   *)
(* set of frames, whatever arrives between any two values of a read.       *)
(***************************************************************************)
EXTENDS TrafficCounters, FiniteSetTheorems, WellFoundedInduction, TLAPS

-----------------------------------------------------------------------------
(* Sums over the CPUs.                                                     *)

\* Induction on the naturals, for a set of them.
LEMMA NatSet ==
  ASSUME NEW S \in SUBSET Nat, 0 \in S, \A n \in S : n + 1 \in S
  PROVE  S = Nat
<1> DEFINE Bad == Nat \ S
<1> SUFFICES ASSUME Bad # {} PROVE FALSE
  OBVIOUS
<1>1. PICK m \in Bad : \A y \in Bad : ~ (<<y, m>> \in OpToRel(<, Nat))
  BY NatLessThanWellFounded, WFMin
<1>2. \A y \in Bad : ~(y < m)
  BY <1>1 DEF OpToRel
<1>3. m \in Nat /\ m \notin S
  OBVIOUS
<1>4. m # 0
  BY <1>3
<1>5. m - 1 \in Nat /\ m - 1 < m /\ (m - 1) + 1 = m
  BY <1>3, <1>4
<1>6. m - 1 \in S
  BY <1>2, <1>5
<1> QED BY <1>3, <1>5, <1>6

\* One of the elements, the one that a sum takes next.
Chosen(s) == CHOOSE x \in s : TRUE

\* g has the sums of f over the sets in D.
IsSums(g, f, D) ==
    g = [s \in D |-> IF s = {} THEN 0 ELSE f[Chosen(s)] + g[s \ {Chosen(s)}]]

Sums(f) == CHOOSE g : IsSums(g, f, SUBSET Cpu)

LEMMA SumIsSums ==
  ASSUME NEW f, DOMAIN f = Cpu
  PROVE  SumFunction(f) = Sums(f)[Cpu]
  BY Zenon DEF SumFunction, SumFunctionOnSet, FoldFunction, FoldFunctionOnSet,
               MapThenFoldSet, Sums, IsSums, Chosen

LEMMA CpuFinite == IsFiniteSet(Cpu) /\ Cardinality(Cpu) = NumCPUs
<1>1. NumCPUs \in Nat /\ 1 \in Int /\ NumCPUs \in Int
  BY TrafficAssumption
<1> QED BY <1>1, FS_Interval DEF Cpu

\* The recursive definition of the sum has a solution.
LEMMA SumsExist ==
  ASSUME NEW f
  PROVE  \E g : IsSums(g, f, SUBSET Cpu)
<1> DEFINE D(n) == {s \in SUBSET Cpu : Cardinality(s) <= n}
           Good == {n \in Nat : \E g : IsSums(g, f, D(n))}
<1>1. \A s \in SUBSET Cpu : IsFiniteSet(s) /\ Cardinality(s) \in Nat /\ Cardinality(s) <= NumCPUs
  BY CpuFinite, FS_Subset, FS_CardinalityType
<1>2. 0 \in Good
  <2> DEFINE g == [s \in D(0) |-> 0]
  <2>1. \A s \in D(0) : s = {}
    BY <1>1, FS_EmptySet
  <2>2. IsSums(g, f, D(0))
    BY <2>1 DEF IsSums
  <2> QED BY <2>2
<1>3. ASSUME NEW n \in Good PROVE n + 1 \in Good
  <2>1. PICK g : IsSums(g, f, D(n))
    BY <1>3
  <2> DEFINE h == [s \in D(n + 1) |-> IF s \in D(n) THEN g[s]
                                      ELSE f[Chosen(s)] + g[s \ {Chosen(s)}]]
  <2>2. \A s \in D(n) : g[s] = IF s = {} THEN 0 ELSE f[Chosen(s)] + g[s \ {Chosen(s)}]
    BY <2>1 DEF IsSums
  <2>3. ASSUME NEW s \in D(n + 1), s # {}
        PROVE  s \ {Chosen(s)} \in D(n) /\ s \ {Chosen(s)} \in D(n + 1)
    <3>1. Chosen(s) \in s
      BY <2>3 DEF Chosen
    <3>2. Cardinality(s \ {Chosen(s)}) = Cardinality(s) - 1
      BY <1>1, <3>1, FS_RemoveElement
    <3> QED BY <1>1, <3>1, <3>2
  <2>4. {} \in D(n)
    BY FS_EmptySet
  <2>5. ASSUME NEW s \in D(n + 1)
        PROVE  h[s] = IF s = {} THEN 0 ELSE f[Chosen(s)] + h[s \ {Chosen(s)}]
    BY <2>2, <2>3, <2>4
  <2>6. IsSums(h, f, D(n + 1))
    <3> HIDE DEF h
    <3>1. h = [s \in D(n + 1) |-> h[s]]
      BY DEF h
    <3> HIDE DEF D
    <3> QED BY <2>5, <3>1, Zenon DEF IsSums
  <2>7. \E k : IsSums(k, f, D(n + 1))
    <3> HIDE DEF h, D
    <3> QED BY <2>6
  <2>8. n + 1 \in Nat
    BY <1>3
  <2> HIDE DEF D
  <2> QED BY <2>7, <2>8
<1>4. NumCPUs \in Good
  <2> HIDE DEF Good
  <2>1. Good \in SUBSET Nat
    BY DEF Good
  <2>2. Good = Nat
    BY <1>2, <1>3, <2>1, NatSet
  <2> QED BY <2>2, TrafficAssumption
<1>5. D(NumCPUs) = SUBSET Cpu
  BY <1>1
<1> QED BY <1>4, <1>5

\* What the sum over a set of CPUs is: zero, or one of them and the sum over the
\* others.
LEMMA SumsDef ==
  ASSUME NEW f
  PROVE  /\ Sums(f)[{}] = 0
         /\ \A s \in SUBSET Cpu : s # {} =>
              /\ Chosen(s) \in s
              /\ Sums(f)[s] = f[Chosen(s)] + Sums(f)[s \ {Chosen(s)}]
<1>1. IsSums(Sums(f), f, SUBSET Cpu)
  BY SumsExist DEF Sums
<1>2. \A s : s # {} => Chosen(s) \in s
  BY DEF Chosen
<1> QED BY <1>1, <1>2 DEF IsSums

\* A sum of naturals is one, whichever CPU is taken out first.
LEMMA SumsAnyOrder ==
  ASSUME NEW f \in [Cpu -> Nat]
  PROVE  \A s \in SUBSET Cpu :
           /\ Sums(f)[s] \in Nat
           /\ \A x \in s : Sums(f)[s] = f[x] + Sums(f)[s \ {x}]
<1> DEFINE g == Sums(f)
           Ok(s) == /\ g[s] \in Nat
                    /\ \A x \in s : g[s] = f[x] + g[s \ {x}]
           Good == {n \in Nat : \A s \in SUBSET Cpu : Cardinality(s) <= n => Ok(s)}
<1>1. \A s \in SUBSET Cpu : IsFiniteSet(s) /\ Cardinality(s) \in Nat /\ Cardinality(s) <= NumCPUs
  BY CpuFinite, FS_Subset, FS_CardinalityType
<1>2. 0 \in Good
  <2>1. ASSUME NEW s \in SUBSET Cpu, Cardinality(s) <= 0 PROVE Ok(s)
    <3>1. s = {}
      BY <1>1, <2>1, FS_EmptySet
    <3> QED BY <3>1, SumsDef
  <2> QED BY <2>1
<1>3. ASSUME NEW n \in Good PROVE n + 1 \in Good
  <2>1. ASSUME NEW s \in SUBSET Cpu, Cardinality(s) <= n + 1 PROVE Ok(s)
    <3>1. \A t \in SUBSET Cpu : Cardinality(t) <= n => Ok(t)
      BY <1>3
    <3> HIDE DEF Ok
    <3>2. CASE s = {}
      <4>1. g[s] = 0
        BY <3>2, SumsDef
      <4> QED BY <3>2, <4>1 DEF Ok
    <3>3. CASE s # {}
      <4> DEFINE y == Chosen(s)
      <4>1. y \in s /\ g[s] = f[y] + g[s \ {y}]
        BY <3>3, SumsDef
      <4> HIDE DEF y, g
      <4>2. \A z \in s : Ok(s \ {z})
        <5> SUFFICES ASSUME NEW z \in s PROVE Ok(s \ {z})
          OBVIOUS
        <5>1. Cardinality(s \ {z}) = Cardinality(s) - 1
          BY <1>1, FS_RemoveElement
        <5>2. Cardinality(s \ {z}) <= n
          BY <1>1, <1>3, <2>1, <5>1
        <5> QED BY <3>1, <5>2
      <4>3. \A z \in s : f[z] \in Nat /\ g[s \ {z}] \in Nat
        BY <4>2 DEF Ok
      <4>4. ASSUME NEW x \in s PROVE g[s] = f[x] + g[s \ {x}]
        <5>1. CASE x = y
          BY <4>1, <5>1
        <5>2. CASE x # y
          <6> DEFINE r == g[(s \ {x}) \ {y}]
          <6>1. (s \ {y}) \ {x} = (s \ {x}) \ {y}
            OBVIOUS
          <6>2. x \in s \ {y} /\ y \in s \ {x} /\ Ok(s \ {y}) /\ Ok(s \ {x})
            BY <4>1, <4>2, <5>2
          <6>2a. g[s \ {y}] = f[x] + r /\ g[s \ {x}] = f[y] + r
            BY <6>1, <6>2 DEF Ok
          <6>3. r \in Nat
            <7>1. x \in s \ {y} /\ Cardinality(s \ {y}) = Cardinality(s) - 1
              BY <1>1, <4>1, <5>2, FS_RemoveElement
            <7>2. Cardinality((s \ {x}) \ {y}) <= n
              <8>1. Cardinality(s \ {x}) = Cardinality(s) - 1
                BY <1>1, FS_RemoveElement
              <8>2. y \in s \ {x} /\ s \ {x} \in SUBSET Cpu
                BY <4>1, <5>2
              <8>3. Cardinality((s \ {x}) \ {y}) = Cardinality(s \ {x}) - 1
                BY <1>1, <8>2, FS_RemoveElement
              <8> QED BY <1>1, <1>3, <2>1, <8>1, <8>2, <8>3
            <7> QED BY <3>1, <7>2 DEF Ok
          <6> HIDE DEF r
          <6> QED BY <4>1, <4>3, <6>2a, <6>3
        <5> QED BY <5>1, <5>2
      <4>5. g[s] \in Nat
        <5>1. f[y] \in Nat /\ g[s \ {y}] \in Nat
          BY <4>1, <4>3
        <5> QED BY <4>1, <5>1
      <4> QED BY <4>4, <4>5 DEF Ok
    <3> QED BY <3>2, <3>3
  <2>2. n + 1 \in Nat
    BY <1>3
  <2> HIDE DEF Ok
  <2> QED BY <2>1, <2>2
<1>4. NumCPUs \in Good
  <2> HIDE DEF Good
  <2>1. Good \in SUBSET Nat
    BY DEF Good
  <2>2. Good = Nat
    BY <1>2, <1>3, <2>1, NatSet
  <2> QED BY <2>2, TrafficAssumption
<1> QED BY <1>1, <1>4

\* The sum over the first k CPUs: what read_snapshot has of a bucket after k values.
UpTo(f, k) == Sums(f)[1..k]

LEMMA UpToDef ==
  ASSUME NEW f \in [Cpu -> Nat]
  PROVE  /\ UpTo(f, 0) = 0
         /\ \A k \in Cpu : UpTo(f, k) = UpTo(f, k - 1) + f[k]
         /\ \A k \in 0..NumCPUs : UpTo(f, k) \in Nat
         /\ SumFunction(f) = UpTo(f, NumCPUs)
<1>1. UpTo(f, 0) = 0
  <2>1. 1..0 = {}
    OBVIOUS
  <2> QED BY <2>1, SumsDef DEF UpTo
<1>2. ASSUME NEW k \in 0..NumCPUs PROVE 1..k \in SUBSET Cpu /\ UpTo(f, k) \in Nat
  <2>1. 1..k \in SUBSET Cpu
    BY TrafficAssumption DEF Cpu
  <2> QED BY <2>1, SumsAnyOrder DEF UpTo
<1>3. ASSUME NEW k \in Cpu PROVE UpTo(f, k) = UpTo(f, k - 1) + f[k]
  <2>1. k \in Nat /\ k \in 1..k /\ (1..k) \ {k} = 1..(k - 1) /\ k - 1 \in 0..NumCPUs /\ k \in 0..NumCPUs
    BY TrafficAssumption DEF Cpu
  <2>2. Sums(f)[1..k] = f[k] + Sums(f)[(1..k) \ {k}]
    BY <1>2, <2>1, SumsAnyOrder
  <2>3. UpTo(f, k) = f[k] + UpTo(f, k - 1)
    BY <2>1, <2>2 DEF UpTo
  <2>4. f[k] \in Nat /\ UpTo(f, k - 1) \in Nat
    BY <1>2, <2>1
  <2> QED BY <2>3, <2>4
<1>4. SumFunction(f) = UpTo(f, NumCPUs)
  BY SumIsSums DEF UpTo, Cpu
<1> QED BY <1>1, <1>2, <1>3, <1>4

\* A sum of the first k values is monotone in them, and depends on no others.
LEMMA SumMonotone ==
  ASSUME NEW f \in [Cpu -> Nat], NEW h \in [Cpu -> Nat], NEW k \in 0..NumCPUs,
         \A c \in 1..k : f[c] <= h[c]
  PROVE  UpTo(f, k) <= UpTo(h, k)
<1> DEFINE Good == {n \in Nat : n <= k => UpTo(f, n) <= UpTo(h, n)}
<1>1. 0 \in Good
  BY UpToDef
<1>2. ASSUME NEW n \in Good PROVE n + 1 \in Good
  <2>1. n \in Nat /\ n + 1 \in Nat
    OBVIOUS
  <2>2. ASSUME n + 1 <= k PROVE UpTo(f, n + 1) <= UpTo(h, n + 1)
    <3>1. /\ n + 1 \in Cpu /\ n \in 0..NumCPUs /\ (n + 1) - 1 = n
          /\ n + 1 \in 1..k
      BY <2>1, <2>2, TrafficAssumption DEF Cpu
    <3>2. /\ UpTo(f, n + 1) = UpTo(f, n) + f[n + 1]
          /\ UpTo(h, n + 1) = UpTo(h, n) + h[n + 1]
          /\ UpTo(f, n) \in Nat /\ UpTo(h, n) \in Nat
      BY <3>1, UpToDef
    <3>3. UpTo(f, n) <= UpTo(h, n)
      BY <2>1, <2>2
    <3>4. f[n + 1] \in Nat /\ h[n + 1] \in Nat /\ f[n + 1] <= h[n + 1]
      BY <3>1
    <3> QED BY <3>2, <3>3, <3>4
  <2> QED BY <2>1, <2>2
<1>3. k \in Good
  <2> HIDE DEF Good
  <2>1. Good \in SUBSET Nat
    BY DEF Good
  <2>2. Good = Nat
    BY <1>1, <1>2, <2>1, NatSet
  <2> QED BY <2>2, TrafficAssumption
<1> QED BY <1>3

LEMMA SumLocal ==
  ASSUME NEW f \in [Cpu -> Nat], NEW h \in [Cpu -> Nat], NEW k \in 0..NumCPUs,
         \A c \in 1..k : f[c] = h[c]
  PROVE  UpTo(f, k) = UpTo(h, k)
<1>1. 1..k \subseteq Cpu
  BY TrafficAssumption DEF Cpu
<1>2. \A c \in 1..k : f[c] <= h[c] /\ h[c] <= f[c]
  BY <1>1
<1>3. UpTo(f, k) <= UpTo(h, k) /\ UpTo(h, k) <= UpTo(f, k)
  BY <1>2, SumMonotone
<1> QED BY <1>3, UpToDef

\* One more on one CPU is one more in all.
LEMMA SumIncrement ==
  ASSUME NEW f \in [Cpu -> Nat], NEW c \in Cpu
  PROVE  SumFunction([f EXCEPT ![c] = @ + 1]) = SumFunction(f) + 1
<1> DEFINE h == [f EXCEPT ![c] = @ + 1]
           Good == {n \in Nat : n <= NumCPUs =>
                      UpTo(h, n) = UpTo(f, n) + (IF c <= n THEN 1 ELSE 0)}
<1>1. /\ h \in [Cpu -> Nat] /\ h[c] = f[c] + 1
      /\ \A x \in Cpu : x # c => h[x] = f[x]
  OBVIOUS
<1>2. c \in Nat /\ 1 <= c /\ c <= NumCPUs /\ NumCPUs \in Nat
  BY TrafficAssumption DEF Cpu
<1> HIDE DEF h
<1>3. 0 \in Good
  BY <1>1, <1>2, UpToDef
<1>4. ASSUME NEW n \in Good PROVE n + 1 \in Good
  <2>1. n \in Nat /\ n + 1 \in Nat
    OBVIOUS
  <2>2. ASSUME n + 1 <= NumCPUs
        PROVE  UpTo(h, n + 1) = UpTo(f, n + 1) + (IF c <= n + 1 THEN 1 ELSE 0)
    <3>1. n + 1 \in Cpu /\ n \in 0..NumCPUs /\ (n + 1) - 1 = n
      BY <2>1, <2>2, TrafficAssumption DEF Cpu
    <3>2. /\ UpTo(f, n + 1) = UpTo(f, n) + f[n + 1]
          /\ UpTo(h, n + 1) = UpTo(h, n) + h[n + 1]
          /\ UpTo(f, n) \in Nat /\ UpTo(h, n) \in Nat
      BY <1>1, <3>1, UpToDef
    <3>3. UpTo(h, n) = UpTo(f, n) + (IF c <= n THEN 1 ELSE 0)
      BY <1>2, <2>1, <2>2
    <3>4. f[n + 1] \in Nat
      BY <3>1
    <3>5. CASE n + 1 = c
      BY <1>1, <1>2, <2>1, <3>2, <3>3, <3>4, <3>5
    <3>6. CASE n + 1 # c
      <4>1. h[n + 1] = f[n + 1]
        BY <1>1, <3>1, <3>6
      <4> QED BY <1>2, <2>1, <3>2, <3>3, <3>4, <3>6, <4>1
    <3> QED BY <3>5, <3>6
  <2> QED BY <2>1, <2>2
<1>5. NumCPUs \in Good
  <2> HIDE DEF Good
  <2>1. Good \in SUBSET Nat
    BY DEF Good
  <2>2. Good = Nat
    BY <1>3, <1>4, <2>1, NatSet
  <2> QED BY <1>2, <2>2
<1>6. UpTo(h, NumCPUs) = UpTo(f, NumCPUs) + 1
  BY <1>2, <1>5
<1>7. SumFunction(h) = UpTo(h, NumCPUs) /\ SumFunction(f) = UpTo(f, NumCPUs)
  BY <1>1, UpToDef
<1> QED BY <1>6, <1>7 DEF h

-----------------------------------------------------------------------------
(* Where a read is.                                                        *)

Offset == [Icmp |-> 0, Tcp |-> NumCPUs, Udp |-> 2 * NumCPUs,
           Ipv6 |-> 3 * NumCPUs, Other |-> 4 * NumCPUs]

\* How many CPUs a read whose cursor is n has read for bucket i.
Done(n, i) == IF n - 1 <= Offset[i] THEN 0
              ELSE IF n - 1 >= Offset[i] + NumCPUs THEN NumCPUs
              ELSE n - 1 - Offset[i]

LEMMA DoneBounds ==
  /\ LastValue \in Nat /\ LastValue >= 1
  /\ \A i \in ProtoIndex : /\ Done(1, i) = 0
                           /\ Done(LastValue + 1, i) = NumCPUs
                           /\ \A n \in Nat : Done(n, i) \in 0..NumCPUs
<1>1. LastValue = 5 * NumCPUs
  BY TrafficAssumption DEF LastValue, ReadOrder
<1> QED BY <1>1, TrafficAssumption DEF Done, Offset, ProtoIndex

\* A read takes the next CPU of one bucket, and leaves the other buckets alone.
LEMMA ReadPosition ==
  ASSUME NEW n \in Nat, 1 <= n, n <= LastValue
  PROVE  /\ Bucket(n) \in ProtoIndex /\ CpuOf(n) \in Cpu
         /\ Done(n, Bucket(n)) = CpuOf(n) - 1
         /\ Done(n + 1, Bucket(n)) = CpuOf(n)
         /\ \A i \in ProtoIndex \ {Bucket(n)} : Done(n + 1, i) = Done(n, i)
<1> DEFINE b == (n - 1) \div NumCPUs
           c == (n - 1) % NumCPUs
<1>1. NumCPUs \in Nat /\ NumCPUs > 0 /\ LastValue = 5 * NumCPUs
  BY TrafficAssumption DEF LastValue, ReadOrder
<1>2. b \in Int /\ c \in Int /\ 0 <= c /\ c < NumCPUs /\ n - 1 = NumCPUs * b + c
  BY <1>1
<1> HIDE DEF b, c
<1>3. b \in 0..4
  <2>1. ~(b < 0)
    <3>1. b + 1 <= 0 => NumCPUs * (b + 1) <= 0
      BY <1>1, <1>2
    <3>2. NumCPUs * (b + 1) = NumCPUs * b + NumCPUs
      BY <1>1, <1>2
    <3> QED BY <1>1, <1>2, <3>1, <3>2
  <2>2. ~(b > 4)
    <3>1. b >= 5 => NumCPUs * b >= NumCPUs * 5
      BY <1>1, <1>2
    <3> QED BY <1>1, <1>2, <3>1
  <2> QED BY <1>2, <2>1, <2>2
<1>4. Bucket(n) = ReadOrder[b + 1] /\ CpuOf(n) = c + 1
  BY DEF Bucket, CpuOf, b, c
<1>5. CpuOf(n) \in Cpu /\ c \in Nat
  BY <1>1, <1>2, <1>4 DEF Cpu
<1>6. CASE b = 0
  BY <1>1, <1>2, <1>4, <1>5, <1>6 DEF ReadOrder, Done, Offset, ProtoIndex
<1>7. CASE b = 1
  BY <1>1, <1>2, <1>4, <1>5, <1>7 DEF ReadOrder, Done, Offset, ProtoIndex
<1>8. CASE b = 2
  BY <1>1, <1>2, <1>4, <1>5, <1>8 DEF ReadOrder, Done, Offset, ProtoIndex
<1>9. CASE b = 3
  BY <1>1, <1>2, <1>4, <1>5, <1>9 DEF ReadOrder, Done, Offset, ProtoIndex
<1>10. CASE b = 4
  BY <1>1, <1>2, <1>4, <1>5, <1>10 DEF ReadOrder, Done, Offset, ProtoIndex
<1> QED BY <1>3, <1>6, <1>7, <1>8, <1>9, <1>10

-----------------------------------------------------------------------------
(* The inductive invariant.                                                *)

PerCpu == [Cpu -> [ProtoIndex -> Nat]]

\* The packets of bucket i, CPU by CPU.
Column(r, i) == [c \in Cpu |-> r[c][i]]

\* r is a value for each counter, at most what it is now.  Per bucket the values add
\* up to no less than when the read started and than at the last good poll, and
\* those of the counters that were read add up to what the read has so far.
Witness(r) ==
    /\ r \in PerCpu
    /\ \A c \in Cpu, i \in ProtoIndex : r[c][i] <= PROTO_STATS[c][i]
    /\ \A i \in ProtoIndex :
         /\ before[i] <= UpTo(Column(r, i), NumCPUs)
         /\ \A curr \in current_counters : curr[i] <= UpTo(Column(r, i), NumCPUs)
         /\ stats[i] = UpTo(Column(r, i), Done(cursor, i))

\* The last good poll is not ahead of the kernel, nor the last mix of the poll.
Ordered ==
    /\ \A x, y \in current_counters : x = y
    /\ \A x, y \in prev_mix_counters : x = y
    /\ prev_mix_counters # {} => current_counters # {}
    /\ \A curr \in current_counters, i \in ProtoIndex :
         /\ curr[i] <= Total(i)
         /\ \A prev \in prev_mix_counters : prev[i] <= curr[i]

\* Nothing was mixed before there was a mix to compare with.
Unmixed == prev_mix_counters = {} => mixed = None

IInv == /\ TypeOK /\ Ordered /\ Unmixed /\ MixesTile
        /\ cursor > 0 => \E r : Witness(r)

LEMMA TotalIsUpTo ==
  ASSUME NEW r \in PerCpu, NEW i \in ProtoIndex
  PROVE  /\ Column(r, i) \in [Cpu -> Nat]
         /\ SumFunction(Column(r, i)) = UpTo(Column(r, i), NumCPUs)
         /\ UpTo(Column(r, i), NumCPUs) \in Nat
<1>1. Column(r, i) \in [Cpu -> Nat]
  BY DEF PerCpu, Column
<1>2. NumCPUs \in 0..NumCPUs
  BY TrafficAssumption
<1> QED BY <1>1, <1>2, UpToDef

LEMMA TotalType ==
  ASSUME TypeOK, NEW i \in ProtoIndex
  PROVE  Total(i) \in Nat /\ Total(i) = UpTo(Column(PROTO_STATS, i), NumCPUs)
<1>1. PROTO_STATS \in PerCpu
  BY DEF TypeOK, PerCpu
<1>2. Total(i) = SumFunction(Column(PROTO_STATS, i))
  BY DEF Total, Column
<1> QED BY <1>1, <1>2, TotalIsUpTo

-----------------------------------------------------------------------------
(* Initially. *)

LEMMA InvInit == Init => IInv
<1> SUFFICES ASSUME Init PROVE IInv
  OBVIOUS
<1>1. None \in [ProtoIndex -> Nat]
  BY DEF None
<1>2. PROTO_STATS \in [Cpu -> [ProtoIndex -> Nat]]
  BY <1>1 DEF Init
<1>3. Total("Tcp") \in Nat
  <2>1. PROTO_STATS \in PerCpu /\ "Tcp" \in ProtoIndex
    BY <1>2 DEF PerCpu, ProtoIndex
  <2>2. Total("Tcp") = SumFunction(Column(PROTO_STATS, "Tcp"))
    BY DEF Total, Column
  <2> QED BY <2>1, <2>2, TotalIsUpTo
<1>4. TypeOK
  BY <1>1, <1>2, <1>3, DoneBounds DEF Init, TypeOK
<1>5. Ordered /\ Unmixed /\ MixesTile /\ ~(cursor > 0)
  BY DEF Init, Ordered, Unmixed, MixesTile, None
<1> QED BY <1>4, <1>5 DEF IInv

-----------------------------------------------------------------------------
(* The kernel. *)

\* What parsing makes of a frame: an IPv6 or malformed packet, or an IPv4 header's
\* fields.
LEMMA ParsedFrame ==
  ASSUME NEW f \in Frame, NEW l3 \in parse_l4_protocol(f)
  PROVE  \/ l3 = V6
         \/ l3 = Malformed
         \/ /\ f.ether_type = "Ipv4" /\ f.version = 4 /\ f.ihl * 4 >= 20
            /\ l3 = [kind |-> "V4", proto |-> f.proto, ip_hdr_len |-> f.ihl * 4,
                     tot_len |-> f.tot_len, is_first_fragment |-> f.frag_offset = 0]
<1> USE DEF Ipv4Hdr
<1>1. f.ether_type \in {"Ipv4", "Ipv6", "Other"} /\ f.ihl \in Nat
  BY DEF Frame
<1>2. CASE f.ether_type = "Ipv4"
  <2>1. l3 \in parse_ipv4hdr(f)
    BY <1>2 DEF parse_l4_protocol
  <2> QED BY <1>1, <1>2, <2>1 DEF parse_ipv4hdr
<1>3. CASE f.ether_type = "Ipv6"
  BY <1>3 DEF parse_l4_protocol
<1>4. CASE f.ether_type = "Other"
  BY <1>4 DEF parse_l4_protocol
<1> QED BY <1>1, <1>2, <1>3, <1>4

LEMMA FrameProto ==
  ASSUME NEW f \in Frame
  PROVE  f.proto \in {"Icmp", "Tcp", "Udp", "Other"}
  BY DEF Frame

\* A counted frame raises one counter by one, and nothing else.
LEMMA CountRaises ==
  ASSUME TypeOK, NEW c \in Cpu, NEW f \in Frames, NEW l3 \in parse_l4_protocol(f),
         Count(c, f, l3)
  PROVE  /\ PROTO_STATS' \in PerCpu
         /\ \A x \in Cpu, i \in ProtoIndex : PROTO_STATS[x][i] <= PROTO_STATS'[x][i]
         /\ \A i \in ProtoIndex : Total(i) <= Total(i)'
         /\ syns' \in Nat /\ syns' <= Total("Tcp")'
<1> DEFINE b == proto_to_index(l3)
<1>1. f \in Frame
  BY TrafficAssumption
<1>2. b \in ProtoIndex /\ (Tracked(f, l3) => b = "Tcp")
  <2>1. l3 = V6 \/ l3 = Malformed \/ (l3.kind = "V4" /\ l3.proto = f.proto)
    BY <1>1, ParsedFrame
  <2>2. CASE l3 = V6
    BY <2>2 DEF proto_to_index, ProtoIndex, Tracked, V6
  <2>3. CASE l3 = Malformed
    BY <2>3 DEF proto_to_index, ProtoIndex, Tracked, Malformed
  <2>4. CASE l3.kind = "V4" /\ l3.proto = f.proto
    <3>1. f.proto \in {"Icmp", "Tcp", "Udp", "Other"}
      BY <1>1, FrameProto
    <3>2. b = l3.proto
      BY <2>4 DEF proto_to_index
    <3> QED BY <2>4, <3>1, <3>2 DEF ProtoIndex, Tracked
  <2> QED BY <2>1, <2>2, <2>3, <2>4
<1> HIDE DEF b
<1>3. PROTO_STATS \in PerCpu
  BY DEF TypeOK, PerCpu
<1>4. PROTO_STATS' = [PROTO_STATS EXCEPT ![c][b] = @ + 1]
  BY DEF Count, b
<1>5. PROTO_STATS' \in PerCpu
  BY <1>2, <1>3, <1>4 DEF PerCpu
<1>6. \A x \in Cpu, i \in ProtoIndex :
         PROTO_STATS'[x][i] = IF x = c /\ i = b THEN PROTO_STATS[x][i] + 1
                                                ELSE PROTO_STATS[x][i]
  BY <1>2, <1>3, <1>4 DEF PerCpu
<1>7. ASSUME NEW i \in ProtoIndex
      PROVE  Total(i) \in Nat /\ Total(i)' = IF i = b THEN Total(i) + 1 ELSE Total(i)
  <2>1. Total(i)' = SumFunction(Column(PROTO_STATS', i)) /\ Total(i) = SumFunction(Column(PROTO_STATS, i))
    BY DEF Total, Column
  <2>2. CASE i = b
    <3>1. Column(PROTO_STATS', i) = [Column(PROTO_STATS, i) EXCEPT ![c] = @ + 1]
      BY <1>6, <2>2 DEF Column
    <3>2. Column(PROTO_STATS, i) \in [Cpu -> Nat]
      BY <1>3, TotalIsUpTo
    <3>3. SumFunction(Column(PROTO_STATS', i)) = SumFunction(Column(PROTO_STATS, i)) + 1
      BY <3>1, <3>2, SumIncrement
    <3> QED BY <2>1, <2>2, <3>3, TotalType
  <2>3. CASE i # b
    <3>1. Column(PROTO_STATS', i) = Column(PROTO_STATS, i)
      BY <1>6, <2>3 DEF Column
    <3> QED BY <2>1, <2>3, <3>1, TotalType
  <2> QED BY <2>2, <2>3
<1>8. \A x \in Cpu, i \in ProtoIndex : PROTO_STATS[x][i] <= PROTO_STATS'[x][i]
  <2>1. \A x \in Cpu, i \in ProtoIndex : PROTO_STATS[x][i] \in Nat
    BY <1>3 DEF PerCpu
  <2> QED BY <1>6, <2>1
<1>9. syns' \in Nat /\ syns' <= Total("Tcp")'
  <2>1. syns \in Nat /\ syns <= Total("Tcp") /\ "Tcp" \in ProtoIndex
    BY DEF TypeOK, ProtoIndex
  <2>2. syns' = IF Tracked(f, l3) THEN syns + 1 ELSE syns
    BY DEF Count
  <2> QED BY <1>2, <1>7, <2>1, <2>2
<1>10. \A i \in ProtoIndex : Total(i) <= Total(i)'
  BY <1>7
<1> QED BY <1>5, <1>8, <1>9, <1>10

\* What a frame leaves alone keeps the invariant, as all counters only grow.
LEMMA ReceiveStep ==
  ASSUME IInv, NEW c \in Cpu, NEW f \in Frames, Receive(c, f)
  PROVE  IInv'
<1>1. /\ UNCHANGED <<cursor, stats, before, polls, current_counters>>
      /\ UNCHANGED <<prev_mix_counters, mix_pct, mixed, primed, mixes>>
      /\ received' = received + 1
  BY DEF Receive, readVars, mixVars
<1>2. TypeOK
  BY DEF IInv
<1>3. PROTO_STATS \in PerCpu
  BY <1>2 DEF TypeOK, PerCpu
<1>4. /\ PROTO_STATS' \in PerCpu
      /\ \A x \in Cpu, i \in ProtoIndex : PROTO_STATS[x][i] <= PROTO_STATS'[x][i]
      /\ \A i \in ProtoIndex : Total(i) <= Total(i)'
      /\ syns' \in Nat /\ syns' <= Total("Tcp")'
  <2>1. CASE \E l3 \in parse_l4_protocol(f) : Count(c, f, l3)
    BY <1>2, <2>1, CountRaises
  <2>2. CASE UNCHANGED <<PROTO_STATS, syns>>
    <3>1. \A i \in ProtoIndex : Total(i)' = Total(i) /\ Total(i) \in Nat
      BY <1>2, <2>2, TotalType DEF Total
    <3>2. \A x \in Cpu, i \in ProtoIndex : PROTO_STATS[x][i] \in Nat
      BY <1>3 DEF PerCpu
    <3>3. syns \in Nat /\ syns <= Total("Tcp") /\ "Tcp" \in ProtoIndex
      BY <1>2 DEF TypeOK, ProtoIndex
    <3> QED BY <1>3, <2>2, <3>1, <3>2, <3>3
  <2> QED BY <2>1, <2>2 DEF Receive
<1>5. TypeOK'
  BY <1>1, <1>2, <1>4 DEF TypeOK, PerCpu
<1>6. Ordered'
  <2>1. \A i \in ProtoIndex : Total(i) \in Nat /\ Total(i)' \in Nat
    <3>1. \A i \in ProtoIndex : Total(i)' = SumFunction(Column(PROTO_STATS', i))
      BY DEF Total, Column
    <3> QED BY <1>2, <1>4, <3>1, TotalType, TotalIsUpTo
  <2>2. \A curr \in current_counters, i \in ProtoIndex : curr[i] \in Nat /\ curr[i] <= Total(i)
    BY <1>2 DEF IInv, Ordered, TypeOK
  <2>3. \A curr \in current_counters, i \in ProtoIndex : curr[i] <= Total(i)'
    BY <1>4, <2>1, <2>2
  <2> QED BY <1>1, <2>3 DEF IInv, Ordered
<1>7. Unmixed' /\ MixesTile'
  BY <1>1 DEF IInv, Unmixed, MixesTile
<1>8. ASSUME cursor' > 0 PROVE \E r : Witness(r)'
  <2>1. PICK r : Witness(r)
    BY <1>1, <1>8 DEF IInv
  <2>2. \A x \in Cpu, i \in ProtoIndex :
           r[x][i] \in Nat /\ PROTO_STATS[x][i] \in Nat /\ PROTO_STATS'[x][i] \in Nat
    BY <1>3, <1>4, <2>1 DEF Witness, PerCpu
  <2>3. \A x \in Cpu, i \in ProtoIndex : r[x][i] <= PROTO_STATS'[x][i]
    BY <1>4, <2>1, <2>2 DEF Witness
  <2>4. Witness(r)'
    BY <1>1, <2>1, <2>3 DEF Witness
  <2> QED BY <2>4
<1> QED BY <1>5, <1>6, <1>7, <1>8 DEF IInv

-----------------------------------------------------------------------------
(* The stats poll. *)

LEMMA StartPollStep ==
  ASSUME IInv, StartPoll
  PROVE  IInv'
<1>1. /\ cursor' = 1 /\ stats' = None /\ polls' = polls + 1
      /\ before' = [i \in ProtoIndex |-> Total(i)]
      /\ UNCHANGED <<PROTO_STATS, received, syns, current_counters>>
      /\ UNCHANGED <<prev_mix_counters, mix_pct, mixed, primed, mixes>>
  BY DEF StartPoll, kernelVars, mixVars
<1>2. TypeOK
  BY DEF IInv
<1>3. \A i \in ProtoIndex : /\ Total(i) \in Nat /\ Total(i)' = Total(i)
                            /\ Total(i) = UpTo(Column(PROTO_STATS, i), NumCPUs)
  BY <1>1, <1>2, TotalType DEF Total
<1>4. TypeOK'
  <2>1. stats' \in [ProtoIndex -> Nat] /\ before' \in [ProtoIndex -> Nat]
    BY <1>1, <1>3 DEF None
  <2>2. cursor' \in 0..LastValue
    BY <1>1, DoneBounds
  <2>3. "Tcp" \in ProtoIndex
    BY DEF ProtoIndex
  <2> QED BY <1>1, <1>2, <1>3, <2>1, <2>2, <2>3 DEF TypeOK
<1>5. Ordered' /\ Unmixed' /\ MixesTile'
  BY <1>1, <1>3 DEF IInv, Ordered, Unmixed, MixesTile
<1>6. Witness(PROTO_STATS)'
  <2>1. PROTO_STATS \in PerCpu
    BY <1>2 DEF TypeOK, PerCpu
  <2>2. \A x \in Cpu, i \in ProtoIndex : PROTO_STATS[x][i] <= PROTO_STATS[x][i]
    BY <2>1 DEF PerCpu
  <2>3. ASSUME NEW i \in ProtoIndex
        PROVE  /\ before'[i] <= UpTo(Column(PROTO_STATS, i), NumCPUs)
               /\ \A curr \in current_counters : curr[i] <= UpTo(Column(PROTO_STATS, i), NumCPUs)
               /\ stats'[i] = UpTo(Column(PROTO_STATS, i), Done(cursor', i))
    <3>1. Done(cursor', i) = 0
      BY <1>1, DoneBounds
    <3>2. UpTo(Column(PROTO_STATS, i), 0) = 0
      BY <2>1, TotalIsUpTo, UpToDef
    <3>3. before'[i] = Total(i) /\ stats'[i] = 0
      BY <1>1 DEF None
    <3> QED BY <1>3, <3>1, <3>2, <3>3 DEF IInv, Ordered
  <2> QED BY <1>1, <2>1, <2>2, <2>3 DEF Witness
<1> QED BY <1>4, <1>5, <1>6 DEF IInv

LEMMA PollFailsStep ==
  ASSUME IInv, PollFails
  PROVE  IInv'
<1>1. /\ cursor' = 0 /\ stats' = None /\ before' = None
      /\ UNCHANGED <<PROTO_STATS, received, syns, polls, current_counters>>
      /\ UNCHANGED <<prev_mix_counters, mix_pct, mixed, primed, mixes>>
  BY DEF PollFails, kernelVars, mixVars
<1>2. \A i : Total(i)' = Total(i)
  BY <1>1 DEF Total
<1>3. TypeOK'
  BY <1>1, <1>2, DoneBounds DEF IInv, TypeOK, None
<1>4. Ordered' /\ Unmixed' /\ MixesTile'
  BY <1>1, <1>2 DEF IInv, Ordered, Unmixed, MixesTile
<1> QED BY <1>1, <1>3, <1>4 DEF IInv

-----------------------------------------------------------------------------
\* A read value is added to its bucket's sum; the new sums are those of the
\* witness that takes it over, and between what was and what is.
LEMMA ReadAdds ==
  ASSUME IInv, cursor > 0,
         NEW sums,
         sums = AddValue(stats, Bucket(cursor), PROTO_STATS[CpuOf(cursor)][Bucket(cursor)])
  PROVE  /\ sums \in [ProtoIndex -> Nat]
         /\ \E r \in PerCpu :
              /\ \A c \in Cpu, i \in ProtoIndex : r[c][i] <= PROTO_STATS[c][i]
              /\ \A i \in ProtoIndex :
                   /\ before[i] <= UpTo(Column(r, i), NumCPUs)
                   /\ \A curr \in current_counters : curr[i] <= UpTo(Column(r, i), NumCPUs)
                   /\ sums[i] = UpTo(Column(r, i), Done(cursor + 1, i))
<1> DEFINE b == Bucket(cursor)
           d == CpuOf(cursor)
<1>1. cursor \in Nat /\ 1 <= cursor /\ cursor <= LastValue
  BY DoneBounds DEF IInv, TypeOK
<1>2. /\ b \in ProtoIndex /\ d \in Cpu
      /\ Done(cursor, b) = d - 1 /\ Done(cursor + 1, b) = d
      /\ \A i \in ProtoIndex \ {b} : Done(cursor + 1, i) = Done(cursor, i)
  BY <1>1, ReadPosition
<1>3. sums = [stats EXCEPT ![b] = @ + PROTO_STATS[d][b]]
  BY DEF AddValue
<1> HIDE DEF b, d
<1>4. PROTO_STATS \in PerCpu /\ stats \in [ProtoIndex -> Nat] /\ before \in [ProtoIndex -> Nat]
  BY DEF IInv, TypeOK, PerCpu
<1>5. \A c \in Cpu, i \in ProtoIndex : PROTO_STATS[c][i] \in Nat
  BY <1>4 DEF PerCpu
<1>6. PICK q : Witness(q)
  BY DEF IInv
<1>7. q \in PerCpu /\ \A c \in Cpu, i \in ProtoIndex : q[c][i] \in Nat /\ q[c][i] <= PROTO_STATS[c][i]
  BY <1>6 DEF Witness, PerCpu
<1> DEFINE r == [q EXCEPT ![d][b] = PROTO_STATS[d][b]]
<1>8. r \in PerCpu
  BY <1>2, <1>5, <1>7 DEF PerCpu
<1>9. \A c \in Cpu, i \in ProtoIndex :
         r[c][i] = IF c = d /\ i = b THEN PROTO_STATS[d][b] ELSE q[c][i]
  BY <1>2, <1>7 DEF PerCpu
<1> HIDE DEF r
<1>10. \A c \in Cpu, i \in ProtoIndex : q[c][i] <= r[c][i] /\ r[c][i] <= PROTO_STATS[c][i]
  BY <1>5, <1>7, <1>9
<1>11. ASSUME NEW i \in ProtoIndex
       PROVE  /\ before[i] <= UpTo(Column(r, i), NumCPUs)
              /\ \A curr \in current_counters : curr[i] <= UpTo(Column(r, i), NumCPUs)
              /\ sums[i] = UpTo(Column(r, i), Done(cursor + 1, i))
              /\ sums[i] \in Nat
  <2>1. /\ Column(q, i) \in [Cpu -> Nat] /\ Column(r, i) \in [Cpu -> Nat]
        /\ UpTo(Column(q, i), NumCPUs) \in Nat /\ UpTo(Column(r, i), NumCPUs) \in Nat
    BY <1>7, <1>8, TotalIsUpTo
  <2>2. UpTo(Column(q, i), NumCPUs) <= UpTo(Column(r, i), NumCPUs)
    <3>1. \A c \in 1..NumCPUs : Column(q, i)[c] <= Column(r, i)[c]
      BY <1>10 DEF Column, Cpu
    <3>2. NumCPUs \in 0..NumCPUs
      BY TrafficAssumption
    <3> QED BY <2>1, <3>1, <3>2, SumMonotone
  <2>3. /\ before[i] <= UpTo(Column(q, i), NumCPUs)
        /\ \A curr \in current_counters : curr[i] <= UpTo(Column(q, i), NumCPUs)
        /\ stats[i] = UpTo(Column(q, i), Done(cursor, i))
    BY <1>6 DEF Witness
  <2>4. before[i] <= UpTo(Column(r, i), NumCPUs)
    BY <1>4, <2>1, <2>2, <2>3
  <2>5. \A curr \in current_counters : curr[i] <= UpTo(Column(r, i), NumCPUs)
    <3>1. \A curr \in current_counters : curr[i] \in Nat
      BY DEF IInv, TypeOK
    <3> QED BY <2>1, <2>2, <2>3, <3>1
  <2>6. sums[i] = UpTo(Column(r, i), Done(cursor + 1, i)) /\ sums[i] \in Nat
    <3>1. CASE i = b
      <4>1. d \in Nat /\ d - 1 \in 0..NumCPUs /\ d \in 0..NumCPUs
        BY <1>2, TrafficAssumption DEF Cpu
      <4>2. \A c \in 1..(d - 1) : Column(q, i)[c] = Column(r, i)[c]
        BY <1>2, <1>9, <4>1, TrafficAssumption DEF Column, Cpu
      <4>3. UpTo(Column(q, i), d - 1) = UpTo(Column(r, i), d - 1)
        BY <2>1, <4>1, <4>2, SumLocal
      <4>4. /\ UpTo(Column(r, i), d) = UpTo(Column(r, i), d - 1) + Column(r, i)[d]
            /\ UpTo(Column(r, i), d) \in Nat
        BY <1>2, <2>1, <4>1, UpToDef
      <4>5. Column(r, i)[d] = PROTO_STATS[d][b]
        BY <1>2, <1>9, <3>1 DEF Column
      <4>6. sums[i] = stats[i] + PROTO_STATS[d][b]
        BY <1>3, <1>4, <3>1
      <4>7. stats[i] = UpTo(Column(q, i), d - 1) /\ Done(cursor + 1, i) = d
        BY <1>2, <2>3, <3>1
      <4> QED BY <4>3, <4>4, <4>5, <4>6, <4>7
    <3>2. CASE i # b
      <4>1. \A c \in Cpu : Column(q, i)[c] = Column(r, i)[c]
        BY <1>9, <3>2 DEF Column
      <4>2. Column(q, i) = Column(r, i)
        BY <1>9, <3>2 DEF Column
      <4>3. sums[i] = stats[i] /\ stats[i] \in Nat
        BY <1>3, <1>4, <3>2
      <4>4. Done(cursor + 1, i) = Done(cursor, i)
        BY <1>2, <3>2
      <4> QED BY <2>3, <4>2, <4>3, <4>4
    <3> QED BY <3>1, <3>2
  <2> QED BY <2>4, <2>5, <2>6
<1>12. sums \in [ProtoIndex -> Nat]
  <2>1. sums = [i \in ProtoIndex |-> sums[i]]
    BY <1>3, <1>4
  <2> QED BY <1>11, <2>1
<1> QED BY <1>8, <1>10, <1>11, <1>12

LEMMA ReadValueStep ==
  ASSUME IInv, ReadValue
  PROVE  /\ IInv'
         /\ current_counters' # current_counters =>
              \A curr \in current_counters', i \in ProtoIndex : curr[i] \in before[i]..Total(i)
<1> DEFINE sums == AddValue(stats, Bucket(cursor), PROTO_STATS[CpuOf(cursor)][Bucket(cursor)])
<1>1. /\ cursor > 0
      /\ \/ /\ cursor < LastValue /\ cursor' = cursor + 1 /\ stats' = sums
            /\ UNCHANGED <<before, current_counters>>
         \/ /\ cursor = LastValue /\ cursor' = 0 /\ stats' = None /\ before' = None
            /\ current_counters' = {sums}
      /\ UNCHANGED <<PROTO_STATS, received, syns, polls>>
      /\ UNCHANGED <<prev_mix_counters, mix_pct, mixed, primed, mixes>>
  BY DEF ReadValue, kernelVars, mixVars
<1> HIDE DEF sums
<1>2. /\ sums \in [ProtoIndex -> Nat]
      /\ \E r \in PerCpu :
           /\ \A c \in Cpu, i \in ProtoIndex : r[c][i] <= PROTO_STATS[c][i]
           /\ \A i \in ProtoIndex :
                /\ before[i] <= UpTo(Column(r, i), NumCPUs)
                /\ \A curr \in current_counters : curr[i] <= UpTo(Column(r, i), NumCPUs)
                /\ sums[i] = UpTo(Column(r, i), Done(cursor + 1, i))
  BY <1>1, ReadAdds DEF sums
<1>3. PICK r \in PerCpu :
        /\ \A c \in Cpu, i \in ProtoIndex : r[c][i] <= PROTO_STATS[c][i]
        /\ \A i \in ProtoIndex :
             /\ before[i] <= UpTo(Column(r, i), NumCPUs)
             /\ \A curr \in current_counters : curr[i] <= UpTo(Column(r, i), NumCPUs)
             /\ sums[i] = UpTo(Column(r, i), Done(cursor + 1, i))
  BY <1>2
<1>4. TypeOK /\ PROTO_STATS \in PerCpu
  BY DEF IInv, TypeOK, PerCpu
<1>5. \A i \in ProtoIndex : Total(i)' = Total(i) /\ Total(i) \in Nat
  BY <1>1, <1>4, TotalType DEF Total
<1>6. TypeOK'
  <2>1. cursor \in Nat /\ cursor <= LastValue /\ cursor' \in 0..LastValue
    BY <1>1, <1>4, DoneBounds DEF TypeOK
  <2>2. None \in [ProtoIndex -> Nat] /\ "Tcp" \in ProtoIndex
    BY DEF None, ProtoIndex
  <2> QED BY <1>1, <1>2, <1>4, <1>5, <2>1, <2>2 DEF TypeOK
<1>7. CASE cursor < LastValue
  <2>1. /\ cursor' = cursor + 1 /\ stats' = sums
        /\ UNCHANGED <<before, current_counters>>
    <3>1. cursor # LastValue
      BY <1>4, <1>7, DoneBounds DEF TypeOK
    <3> QED BY <1>1, <3>1
  <2>2. Witness(r)'
    BY <1>1, <1>3, <2>1 DEF Witness
  <2>3. Ordered' /\ Unmixed' /\ MixesTile'
    BY <1>1, <1>5, <2>1 DEF IInv, Ordered, Unmixed, MixesTile
  <2> QED BY <1>6, <2>1, <2>2, <2>3 DEF IInv
<1>8. CASE cursor = LastValue
  <2>1. /\ cursor' = 0 /\ current_counters' = {sums}
    BY <1>1, <1>8, DoneBounds
  <2>2. ASSUME NEW i \in ProtoIndex
        PROVE  /\ sums[i] \in Nat
               /\ before[i] <= sums[i] /\ sums[i] <= Total(i)
               /\ \A curr \in current_counters : curr[i] <= sums[i]
    <3>1. sums[i] = UpTo(Column(r, i), NumCPUs)
      BY <1>3, <1>8, DoneBounds
    <3>2. /\ Column(r, i) \in [Cpu -> Nat] /\ Column(PROTO_STATS, i) \in [Cpu -> Nat]
          /\ Total(i) = UpTo(Column(PROTO_STATS, i), NumCPUs)
      BY <1>4, TotalIsUpTo, TotalType
    <3>3. \A c \in 1..NumCPUs : Column(r, i)[c] <= Column(PROTO_STATS, i)[c]
      BY <1>3 DEF Column, Cpu
    <3>4. NumCPUs \in 0..NumCPUs
      BY TrafficAssumption
    <3>5. UpTo(Column(r, i), NumCPUs) <= Total(i)
      BY <3>2, <3>3, <3>4, SumMonotone
    <3> QED BY <1>2, <1>3, <3>1, <3>5
  <2>3. Ordered'
    <3>1. \A prev \in prev_mix_counters, i \in ProtoIndex : prev[i] <= sums[i]
      <4> SUFFICES ASSUME NEW prev \in prev_mix_counters, NEW i \in ProtoIndex
                   PROVE  prev[i] <= sums[i]
        OBVIOUS
      <4>1. PICK curr : curr \in current_counters
        BY DEF IInv, Ordered
      <4>2. prev[i] <= curr[i] /\ curr[i] <= sums[i]
        BY <2>2, <4>1 DEF IInv, Ordered
      <4>3. prev[i] \in Nat /\ curr[i] \in Nat /\ sums[i] \in Nat
        BY <1>2, <1>4, <4>1 DEF TypeOK
      <4> QED BY <4>2, <4>3
    <3> QED BY <1>1, <1>5, <2>1, <2>2, <3>1 DEF IInv, Ordered
  <2>4. Unmixed' /\ MixesTile' /\ ~(cursor' > 0)
    BY <1>1, <2>1 DEF IInv, Unmixed, MixesTile
  <2>5. IInv'
    BY <1>6, <2>3, <2>4 DEF IInv
  <2>6. \A curr \in current_counters', i \in ProtoIndex : curr[i] \in before[i]..Total(i)
    <3>1. \A i \in ProtoIndex : before[i] \in Nat
      BY <1>4 DEF TypeOK
    <3> QED BY <1>5, <2>1, <2>2, <3>1
  <2> QED BY <2>5, <2>6
<1> QED BY <1>1, <1>7, <1>8

-----------------------------------------------------------------------------
(* The mix. *)

\* Counters that did not go back differ by what was added, bucket by bucket.
LEMMA DiffExact ==
  ASSUME NEW curr \in [ProtoIndex -> Nat], NEW prev \in [ProtoIndex -> Nat],
         \A i \in ProtoIndex : prev[i] <= curr[i]
  PROVE  /\ diff_stats(curr, prev) \in [ProtoIndex -> Nat]
         /\ \A i \in ProtoIndex : prev[i] + diff_stats(curr, prev)[i] = curr[i]
<1>1. \A i \in ProtoIndex : curr[i] \in Nat /\ prev[i] \in Nat
  OBVIOUS
<1>2. \A i \in ProtoIndex : /\ diff_stats(curr, prev)[i] \in Nat
                            /\ prev[i] + diff_stats(curr, prev)[i] = curr[i]
  <2> SUFFICES ASSUME NEW i \in ProtoIndex
               PROVE  /\ diff_stats(curr, prev)[i] \in Nat
                      /\ prev[i] + diff_stats(curr, prev)[i] = curr[i]
    OBVIOUS
  <2>1. diff_stats(curr, prev)[i] = IF curr[i] > prev[i] THEN curr[i] - prev[i] ELSE 0
    BY DEF diff_stats
  <2>2. curr[i] \in Nat /\ prev[i] \in Nat /\ prev[i] <= curr[i]
    BY <1>1
  <2> QED BY <2>1, <2>2
<1>3. diff_stats(curr, prev) = [i \in ProtoIndex |-> diff_stats(curr, prev)[i]]
  BY DEF diff_stats
<1> QED BY <1>2, <1>3

LEMMA MixTickStep ==
  ASSUME IInv, MixTick
  PROVE  IInv'
<1>1. /\ cursor = 0 /\ mixes' = mixes + 1
      /\ UNCHANGED <<PROTO_STATS, received, syns, cursor, stats, before, polls>>
      /\ UNCHANGED current_counters
  BY DEF MixTick, kernelVars, readVars
<1>2. TypeOK
  BY DEF IInv
<1>3. \A i : Total(i)' = Total(i)
  BY <1>1 DEF Total
<1>4. ASSUME prev_mix_counters' \subseteq [ProtoIndex -> Nat],
             {mix_pct', mixed', primed'} \subseteq [ProtoIndex -> Nat]
      PROVE  TypeOK'
  BY <1>1, <1>2, <1>3, <1>4 DEF TypeOK
<1>5. CASE UNCHANGED <<prev_mix_counters, mix_pct, mixed, primed>>
  <2>1. TypeOK'
    BY <1>2, <1>4, <1>5 DEF TypeOK
  <2> QED BY <1>1, <1>3, <1>5, <2>1 DEF IInv, Ordered, Unmixed, MixesTile
<1>6. ASSUME NEW curr \in current_counters,
             prev_mix_counters = {}, prev_mix_counters' = {curr}, primed' = curr,
             UNCHANGED <<mix_pct, mixed>>
      PROVE  IInv'
  <2>1. curr \in [ProtoIndex -> Nat] /\ \A i \in ProtoIndex : curr[i] \in Nat
    BY <1>2, <1>6 DEF TypeOK
  <2>2. TypeOK'
    BY <1>2, <1>4, <1>6, <2>1 DEF TypeOK
  <2>3. Ordered'
    <3>1. \A x \in current_counters : x = curr
      BY <1>6 DEF IInv, Ordered
    <3> QED BY <1>1, <1>3, <1>6, <2>1, <3>1 DEF IInv, Ordered
  <2>4. mixed' = None /\ \A i \in ProtoIndex : mix_pct[i] <= mixed[i]
    BY <1>6 DEF IInv, Unmixed, MixesTile
  <2>5. \A i \in ProtoIndex : primed'[i] + mixed'[i] = curr[i]
    BY <1>6, <2>1, <2>4 DEF None
  <2>6. Unmixed' /\ MixesTile'
    BY <1>6, <2>4, <2>5 DEF Unmixed, MixesTile
  <2> QED BY <1>1, <2>2, <2>3, <2>6 DEF IInv
<1>7. ASSUME NEW curr \in current_counters, NEW prev \in prev_mix_counters,
             Rotate(curr, prev), update_mix(diff_stats(curr, prev)),
             mixed' = [i \in ProtoIndex |-> mixed[i] + diff_stats(curr, prev)[i]],
             UNCHANGED primed
      PROVE  IInv'
  <2> DEFINE delta == diff_stats(curr, prev)
  <2>1. curr \in [ProtoIndex -> Nat] /\ prev \in [ProtoIndex -> Nat]
    BY <1>2, <1>7 DEF TypeOK
  <2>2. \A i \in ProtoIndex : prev[i] <= curr[i]
    BY <1>7 DEF IInv, Ordered
  <2>3. /\ delta \in [ProtoIndex -> Nat]
        /\ \A i \in ProtoIndex : prev[i] + delta[i] = curr[i]
    BY <2>1, <2>2, DiffExact
  <2>4. mix_pct' = IF delta = None THEN mix_pct ELSE delta
    BY <1>7 DEF update_mix
  <2>5. prev_mix_counters' = {curr}
    BY <1>7 DEF Rotate
  <2>6. mixed' = [i \in ProtoIndex |-> mixed[i] + delta[i]]
    BY <1>7
  <2> HIDE DEF delta
  <2>7. {mixed, primed, mix_pct} \subseteq [ProtoIndex -> Nat]
    BY <1>2 DEF TypeOK
  <2>8. mixed' \in [ProtoIndex -> Nat] /\ \A i \in ProtoIndex : mixed'[i] = mixed[i] + delta[i]
    BY <2>3, <2>6, <2>7
  <2>9. TypeOK'
    BY <1>4, <1>7, <2>1, <2>3, <2>4, <2>5, <2>7, <2>8
  <2>10. Ordered'
    <3>1. \A x \in current_counters : x = curr
      BY <1>7 DEF IInv, Ordered
    <3>2. \A i \in ProtoIndex : curr[i] <= curr[i]
      BY <2>1
    <3> QED BY <1>1, <1>3, <2>5, <3>1, <3>2 DEF IInv, Ordered
  <2>11. \A i \in ProtoIndex : primed'[i] + mixed'[i] = curr[i]
    <3>1. \A i \in ProtoIndex : primed[i] + mixed[i] = prev[i]
      BY <1>7 DEF IInv, MixesTile
    <3>2. \A i \in ProtoIndex : primed[i] \in Nat /\ mixed[i] \in Nat /\ delta[i] \in Nat
      BY <2>3, <2>7
    <3> QED BY <1>7, <2>3, <2>8, <3>1, <3>2
  \* What is shown is of one mix, and that mix is among those counted.
  <2>12. \A i \in ProtoIndex : mix_pct'[i] <= mixed'[i]
    <3>1. \A i \in ProtoIndex : mix_pct[i] <= mixed[i]
      BY DEF IInv, MixesTile
    <3>2. \A i \in ProtoIndex : mix_pct[i] \in Nat /\ mixed[i] \in Nat /\ delta[i] \in Nat
      BY <2>3, <2>7
    <3> QED BY <2>4, <2>8, <3>1, <3>2
  <2>13. mix_pct' = None => mixed' = None
    <3> SUFFICES ASSUME mix_pct' = None PROVE mixed' = None
      OBVIOUS
    <3>1. delta = None /\ mix_pct = None
      BY <2>4
    <3>2. mixed = None
      BY <3>1 DEF IInv, MixesTile
    <3> QED BY <2>6, <3>1, <3>2 DEF None
  <2>14. Unmixed' /\ MixesTile'
    BY <2>5, <2>11, <2>12, <2>13 DEF Unmixed, MixesTile
  <2> QED BY <1>1, <2>9, <2>10, <2>14 DEF IInv
<1> QED BY <1>5, <1>6, <1>7 DEF MixTick

-----------------------------------------------------------------------------
(* The theorems. *)

\* The inductive invariant of the counters: a read under way is on its way to a sum
\* between that of the last good poll, or of its start, and that of now, and polls
\* and mixes stay in order.
THEOREM CountersCorrect == Spec => []IInv
<1>1. IInv /\ [Next]_vars => IInv'
  <2>1. CASE UNCHANGED vars
    <3>1. IInv => IInv'
      <4> SUFFICES ASSUME IInv PROVE IInv'
        OBVIOUS
      <4> USE <2>1 DEF vars, kernelVars, readVars, mixVars
      <4>1. \A i : Total(i)' = Total(i)
        BY DEF Total
      <4>2. \A r : Witness(r)' <=> Witness(r)
        BY DEF Witness
      <4>3. TypeOK' /\ Ordered' /\ Unmixed' /\ MixesTile'
        BY <4>1 DEF IInv, TypeOK, Ordered, Unmixed, MixesTile
      <4> QED BY <4>2, <4>3 DEF IInv
    <3> QED BY <3>1
  <2>2. IInv /\ Next => IInv'
    BY ReceiveStep, StartPollStep, ReadValueStep, PollFailsStep, MixTickStep DEF Next
  <2> QED BY <2>1, <2>2
<1> QED BY <1>1, InvInit, PTL DEF Spec

\* Whatever arrives during a read, every variable has its type and no frame
\* reaches the trackers that is not counted as TCP.
THEOREM TypeCorrect == Spec => []TypeOK
<1>1. IInv => TypeOK
  BY DEF IInv
<1> QED BY <1>1, CountersCorrect, PTL

\* Every frame up to the last snapshot a mix looked at is in exactly one mix, or
\* in the first snapshot, whatever polls fail in between.
THEOREM MixesTileTheorem == Spec => []MixesTile
<1>1. IInv => MixesTile
  BY DEF IInv
<1> QED BY <1>1, CountersCorrect, PTL

\* The sums of a poll are between the counts at its start and at its end.
THEOREM BracketedTheorem == Spec => SnapshotsBracketed
<1> DEFINE Bracketed == current_counters' # current_counters =>
              \A curr \in current_counters', i \in ProtoIndex : curr[i] \in before[i]..Total(i)
<1>1. IInv /\ [Next]_vars => [Bracketed]_vars
  <2> SUFFICES ASSUME IInv, Next PROVE Bracketed
    OBVIOUS
  <2>1. ASSUME ReadValue PROVE Bracketed
    BY <2>1, ReadValueStep
  <2>2. ASSUME NEW c \in Cpu, NEW f \in Frames, Receive(c, f) PROVE Bracketed
    BY <2>2 DEF Receive
  <2>3. ASSUME StartPoll \/ PollFails \/ MixTick PROVE Bracketed
    BY <2>3 DEF StartPoll, PollFails, MixTick
  <2> QED BY <2>1, <2>2, <2>3 DEF Next
<1> QED BY <1>1, CountersCorrect, PTL DEF Spec, SnapshotsBracketed

-----------------------------------------------------------------------------
(* The flags. *)

\* Parsing looks at no flag, and without a TCP header in the datagram none matters
\* to the trackers either.
LEMMA FlagsIgnored ==
  ASSUME NEW f \in Frame, ~TcpInDatagram(f), NEW s \in BOOLEAN, NEW a \in BOOLEAN
  PROVE  LET g == [f EXCEPT !.syn = s, !.ack = a]
         IN  /\ parse_l4_protocol(g) = parse_l4_protocol(f)
             /\ \A l3 \in parse_l4_protocol(f) : ~Tracked(f, l3) /\ ~Tracked(g, l3)
<1> DEFINE g == [f EXCEPT !.syn = s, !.ack = a]
<1>1. /\ g.len = f.len /\ g.ether_type = f.ether_type /\ g.version = f.version
      /\ g.ihl = f.ihl /\ g.tot_len = f.tot_len /\ g.proto = f.proto
      /\ g.frag_offset = f.frag_offset
  BY DEF Frame
<1>2. f.len \in Nat /\ f.ihl \in Nat
  BY DEF Frame
<1> HIDE DEF g
<1>3. parse_l4_protocol(g) = parse_l4_protocol(f)
  BY <1>1 DEF parse_l4_protocol, parse_ipv4hdr, ptr_at
<1>4. ASSUME NEW l3 \in parse_l4_protocol(f), NEW h, h.len = f.len, Tracked(h, l3)
      PROVE  FALSE
  <2>1. l3.kind = "V4"
    BY <1>4 DEF Tracked
  <2>2. /\ f.ether_type = "Ipv4" /\ f.version = 4 /\ f.ihl * 4 >= 20
        /\ l3 = [kind |-> "V4", proto |-> f.proto, ip_hdr_len |-> f.ihl * 4,
                 tot_len |-> f.tot_len, is_first_fragment |-> f.frag_offset = 0]
    BY <2>1, ParsedFrame DEF V6, Malformed
  <2>3. /\ f.proto = "Tcp" /\ f.frag_offset = 0
        /\ f.ihl * 4 + TcpHdr <= f.tot_len
        /\ EthHdr + f.ihl * 4 + TcpHdr <= f.len
    BY <1>4, <2>2 DEF Tracked, is_syn, ptr_at
  <2>4. f.ihl >= 5
    BY <1>2, <2>2
  <2> QED BY <2>2, <2>3, <2>4 DEF TcpInDatagram
<1> QED BY <1>1, <1>3, <1>4 DEF g

\* The flags of a TCP header decide only where there is one: with any other flags
\* such a frame is counted and tracked the same.
THEOREM PaddingTheorem == Spec => PaddingIsIgnored
<1> DEFINE Ignored ==
             \A f \in {g \in Frames : received' # received /\ ~TcpInDatagram(g)}, c \in Cpu :
               Receive(c, f) => \A s, a \in BOOLEAN : Receive(c, [f EXCEPT !.syn = s, !.ack = a])
<1>1. Ignored
  <2> SUFFICES ASSUME NEW f \in Frames, ~TcpInDatagram(f), NEW c \in Cpu, Receive(c, f),
                      NEW s \in BOOLEAN, NEW a \in BOOLEAN
               PROVE  Receive(c, [f EXCEPT !.syn = s, !.ack = a])
    OBVIOUS
  <2> DEFINE g == [f EXCEPT !.syn = s, !.ack = a]
  <2>1. /\ parse_l4_protocol(g) = parse_l4_protocol(f)
        /\ \A l3 \in parse_l4_protocol(f) : ~Tracked(f, l3) /\ ~Tracked(g, l3)
    BY FlagsIgnored, TrafficAssumption
  <2> HIDE DEF g
  <2>2. \A l3 \in parse_l4_protocol(f) : Count(c, f, l3) => Count(c, g, l3)
    BY <2>1 DEF Count
  <2>3. Receive(c, g)
    BY <2>1, <2>2 DEF Receive
  <2> QED BY <2>3 DEF g
<1>2. [Next]_vars => [Ignored]_vars
  BY <1>1
<1> QED BY <1>2, PTL DEF Spec, PaddingIsIgnored
=============================================================================
