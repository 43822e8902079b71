------------------------------ MODULE PcrProofs ------------------------------
(***************************************************************************)
(* The safety of the PCR calls, for any banks in any order, any PCRs, PCR  *)
(* lists and read limit, and any changes of PCRs between the commands.     *)
(***************************************************************************)
EXTENDS PcrPolicy, FiniteSetTheorems, FunctionTheorems, NaturalsInduction, WellFoundedInduction, TLAPS

\* A set of numbers that has a member has a least one.
LEMMA LeastOf ==
    ASSUME NEW S, S \subseteq Nat, S # {}
    PROVE  \E x \in S : \A y \in S : x <= y
<1> DEFINE Less == OpToRel(<, Nat)
<1>1. ASSUME NEW x \in Nat, NEW y \in Nat, y < x PROVE <<y, x>> \in Less
    BY <1>1, Zenon DEF OpToRel
<1>2. IsWellFoundedOn(Less, Nat)
    BY NatLessThanWellFounded, Zenon
<1> HIDE DEF Less
<1>3. PICK x \in S : \A y \in S : ~(<<y, x>> \in Less)
    BY <1>2, WFMin
<1>4. \A y \in S : ~(y < x)
    BY <1>1, <1>3
<1> QED
    BY <1>4

-----------------------------------------------------------------------------
(* Ascending: a finite set of numbers can be enumerated in order.          *)

Sorted(s, n) == \A j, k \in 1 .. n : j < k => s[j] < s[k]

Enumerates(s, S) ==
    /\ s \in [1 .. Cardinality(S) -> S]
    /\ Sorted(s, Cardinality(S))

\* The least member, followed by an enumeration of the others, enumerates a set.
LEMMA LeastFirst ==
    ASSUME NEW S, S \subseteq Nat, IsFiniteSet(S), NEW m \in S, \A y \in S : m <= y,
           NEW t, Enumerates(t, S \ {m})
    PROVE  \E s : Enumerates(s, S)
<1> DEFINE n == Cardinality(S)
<1> DEFINE s == [k \in 1 .. n |-> IF k = 1 THEN m ELSE t[k - 1]]
<1>1. n \in Nat /\ Cardinality(S \ {m}) = n - 1 /\ n > 0
  <2>1. n \in Nat /\ (n = 0 => S = {})
    BY FS_CardinalityType, FS_EmptySet
  <2>2. Cardinality(S \ {m}) = n - 1
    BY FS_RemoveElement
  <2> QED
    BY <2>1, <2>2
<1> HIDE DEF n
<1>2. t \in [1 .. n - 1 -> S \ {m}] /\ Sorted(t, n - 1)
  BY <1>1 DEF Enumerates
<1>3. ASSUME NEW k \in 1 .. n, k # 1 PROVE k - 1 \in 1 .. n - 1 /\ s[k] = t[k - 1] /\ s[k] \in S \ {m}
  <2>1. k - 1 \in 1 .. n - 1
    BY <1>1, <1>3
  <2> QED
    BY <2>1, <1>2, <1>3
<1>4. s[1] = m /\ 1 \in 1 .. n
  BY <1>1
<1>5. s \in [1 .. n -> S]
  BY <1>3, <1>4
<1>6. Sorted(s, n)
  <2> SUFFICES ASSUME NEW j \in 1 .. n, NEW k \in 1 .. n, j < k PROVE s[j] < s[k]
    BY DEF Sorted
  <2>1. k # 1 /\ k - 1 \in 1 .. n - 1 /\ s[k] = t[k - 1] /\ s[k] \in S \ {m}
    BY <1>1, <1>3
  <2>2. CASE j = 1
    <3>1. s[j] = m /\ m <= s[k] /\ s[k] # m /\ m \in Nat /\ s[k] \in Nat
      BY <2>1, <2>2, <1>4
    <3> HIDE DEF s
    <3> QED
      BY <3>1
  <2>3. CASE j # 1
    <3>1. j - 1 \in 1 .. n - 1 /\ s[j] = t[j - 1]
      BY <2>3, <1>3
    <3>2. j - 1 < k - 1
      BY <1>1
    <3> QED
      BY <3>1, <3>2, <2>1, <1>2 DEF Sorted
  <2> QED
    BY <2>2, <2>3
<1> HIDE DEF s
<1> QED
  BY <1>5, <1>6 DEF Enumerates, n

\* Every finite set of numbers has an enumeration.
LEMMA Enumerable ==
    ASSUME NEW S, S \subseteq Nat, IsFiniteSet(S)
    PROVE  \E s : Enumerates(s, S)
<1> DEFINE Bad(T) == T \subseteq Nat /\ IsFiniteSet(T) /\ ~(\E s : Enumerates(s, T))
<1> DEFINE B == {n \in Nat : \E T : Bad(T) /\ Cardinality(T) = n}
<1> SUFFICES ASSUME Bad(S) PROVE FALSE
  OBVIOUS
<1>1. Cardinality(S) \in B
  BY FS_CardinalityType
<1>2. PICK n \in B : \A y \in B : n <= y
  BY <1>1, LeastOf
<1>3. PICK T : Bad(T) /\ Cardinality(T) = n
  BY <1>2
<1>4. CASE T = {}
  <2> DEFINE s == [k \in 1 .. 0 |-> 0]
  <2>1. Cardinality(T) = 0
    BY <1>4, FS_EmptySet
  <2>2. 1 .. 0 = {}
    OBVIOUS
  <2>3. Enumerates(s, T)
    BY <1>4, <2>1, <2>2 DEF Enumerates, Sorted
  <2> QED
    BY <2>3, <1>3
<1>5. CASE T # {}
  <2>1. PICK m \in T : \A y \in T : m <= y
    BY <1>3, <1>5, LeastOf
  <2>2. IsFiniteSet(T \ {m}) /\ Cardinality(T \ {m}) = n - 1
    BY <1>3, FS_RemoveElement
  <2>3. Cardinality(T \ {m}) \in Nat
    BY <2>2, FS_CardinalityType
  <2>4. ~Bad(T \ {m})
    <3>1. SUFFICES ASSUME Bad(T \ {m}) PROVE FALSE
      OBVIOUS
    <3>2. n - 1 \in B
      BY <2>2, <2>3, <3>1
    <3> QED
      BY <3>2, <1>2
  <2>5. PICK t : Enumerates(t, T \ {m})
    BY <2>2, <2>4, <1>3
  <2> QED
    BY <2>1, <2>5, <1>3, LeastFirst
<1> QED
  BY <1>4, <1>5

\* Ascending lists every member of a finite set of numbers.
LEMMA AscendingLists ==
    ASSUME NEW S, S \subseteq Nat, IsFiniteSet(S)
    PROVE  /\ Cardinality(S) \in Nat
           /\ Ascending(S) \in [1 .. Cardinality(S) -> S]
           /\ \A j, k \in 1 .. Cardinality(S) : j # k => Ascending(S)[j] # Ascending(S)[k]
           /\ ToSet(Ascending(S)) = S
<1> DEFINE n == Cardinality(S)
<1> DEFINE s == Ascending(S)
<1> DEFINE T == ToSet(s)
<1>1. n \in Nat
  BY FS_CardinalityType
<1>2. PICK t : t \in [1 .. n -> S] /\ Sorted(t, n)
  BY Enumerable DEF Enumerates
<1>3. s \in [1 .. n -> S] /\ Sorted(s, n)
  BY <1>2, Zenon DEF Ascending, Sorted
<1> HIDE DEF n, s
<1>4. ASSUME NEW j \in 1 .. n, NEW k \in 1 .. n, j # k PROVE s[j] # s[k]
  <2>1. j < k \/ k < j
    BY <1>1, <1>4
  <2>2. s[j] < s[k] \/ s[k] < s[j]
    BY <2>1, <1>3, Zenon DEF Sorted
  <2>3. s[j] \in Nat /\ s[k] \in Nat
    BY <1>3, Zenon
  <2> QED
    BY <2>2, <2>3
<1>5. T \subseteq S /\ s \in [1 .. n -> T] /\ \A x \in T : \E k \in 1 .. n : s[k] = x
  BY <1>3 DEF ToSet
<1>6. IsFiniteSet(1 .. n) /\ Cardinality(1 .. n) = n
  BY <1>1, FS_Interval
<1>7. s \in Bijection(1 .. n, T)
  BY <1>4, <1>5, Fun_IsBij
<1>8. Cardinality(T) = n
  BY <1>6, <1>7, FS_Bijection DEF ExistsBijection
<1>9. T = S
  <2> HIDE DEF T
  <2> QED
    BY <1>5, <1>8, FS_Subset DEF n
<1> QED
  BY <1>1, <1>3, <1>4, <1>9 DEF n, s

-----------------------------------------------------------------------------
(* getPCRHashAlg: its loop, for a list of banks of any length.             *)

Round(f, l, n) == [k \in 0 .. n |-> IF k = 0 THEN None ELSE Prefer(f[k - 1], l[k])]

\* The rounds of the loop exist for a list of any length.
LEMMA RoundsExist == ASSUME NEW l, NEW n \in Nat PROVE \E f : f = Round(f, l, n)
<1> DEFINE B == {k \in Nat : ~(\E f : f = Round(f, l, k))}
<1> SUFFICES ASSUME n \in B PROVE FALSE
  OBVIOUS
<1>1. PICK k \in B : \A y \in B : k <= y
  BY LeastOf
<1>2. CASE k = 0
  <2> DEFINE f == [j \in 0 .. 0 |-> None]
  <2>1. f = Round(f, l, 0)
    BY DEF Round
  <2> HIDE DEF f
  <2> QED
    BY <1>1, <1>2, <2>1
<1>3. CASE k # 0
  <2>1. k - 1 \in Nat /\ k - 1 \notin B
    BY <1>1, <1>3
  <2>2. PICK g : g = Round(g, l, k - 1)
    BY <2>1
  <2> DEFINE f == [j \in 0 .. k |-> IF j = k THEN Prefer(g[k - 1], l[k]) ELSE g[j]]
  <2>3. ASSUME NEW j \in 0 .. k
        PROVE f[j] = IF j = 0 THEN None ELSE Prefer(f[j - 1], l[j])
    <3>1. CASE j = k
      <4>1. k - 1 \in 0 .. k /\ k - 1 # k
        BY <2>1
      <4>2. f[k - 1] = g[k - 1] /\ f[k] = Prefer(g[k - 1], l[k])
        BY <4>1
      <4> HIDE DEF f
      <4> QED
        BY <3>1, <4>2, <1>3
    <3>2. CASE j # k
      <4>1. j \in 0 .. k - 1 /\ f[j] = g[j]
        BY <3>2, <2>1
      <4>2. g[j] = IF j = 0 THEN None ELSE Prefer(g[j - 1], l[j])
        BY <2>2, <4>1, Zenon DEF Round
      <4>3. j # 0 => j - 1 \in 0 .. k /\ j - 1 # k
        BY <4>1, <2>1
      <4>4. j # 0 => f[j - 1] = g[j - 1]
        BY <4>3
      <4> HIDE DEF f
      <4> QED
        BY <4>1, <4>2, <4>4
    <3> QED
      BY <3>1, <3>2
  <2>4. f = Round(f, l, k)
    <3>1. f = [j \in 0 .. k |-> f[j]]
      OBVIOUS
    <3> HIDE DEF f
    <3> QED
      BY <2>3, <3>1, Zenon DEF Round
  <2> HIDE DEF f
  <2> QED
    BY <2>4, <1>1
<1> QED
  BY <1>2, <1>3

FullIn(l, k, h) == \E j \in 1 .. k : l[j].hash = h /\ l[j].full

\* The bank preferred among the first k of a list.
Best(l, k) ==
    IF FullIn(l, k, "SHA256") THEN "SHA256" ELSE IF FullIn(l, k, "SHA384") THEN "SHA384"
    ELSE IF FullIn(l, k, "SHA512") THEN "SHA512" ELSE None

\* One round keeps the best bank so far.
LEMMA PreferBest ==
    ASSUME NEW l \in Seq([hash : Hash, full : BOOLEAN]), NEW k \in 1 .. Len(l)
    PROVE  Best(l, k) = Prefer(Best(l, k - 1), l[k])
<1>1. l[k].hash \in Hash /\ l[k].full \in BOOLEAN
  <2> DEFINE Bank == [hash : Hash, full : BOOLEAN]
  <2>1. \A b \in Bank : b.hash \in Hash /\ b.full \in BOOLEAN
    OBVIOUS
  <2> HIDE DEF Bank
  <2>2. l \in Seq(Bank) => l[k] \in Bank
    OBVIOUS
  <2>3. l[k] \in Bank
    BY <2>2 DEF Bank
  <2> QED
    BY <2>1, <2>3
<1>2. ASSUME NEW h PROVE FullIn(l, k, h) <=> FullIn(l, k - 1, h) \/ (l[k].hash = h /\ l[k].full)
  <2>1. \A j : j \in 1 .. k <=> j \in 1 .. k - 1 \/ j = k
    OBVIOUS
  <2> QED
    BY <2>1, Zenon DEF FullIn
<1>3. None \notin Hash
  BY PcrWorld
<1> QED
  BY <1>1, <1>2, <1>3 DEF Best, Prefer, Hash

\* getPCRHashAlg computes the best bank of the whole list.
LEMMA LoopComputesBest ==
    ASSUME NEW l \in Seq([hash : Hash, full : BOOLEAN])
    PROVE  getPCRHashAlg(l) = Best(l, Len(l))
<1> DEFINE n == Len(l)
<1> DEFINE f == CHOOSE g : g = Round(g, l, n)
<1>1. n \in Nat
  OBVIOUS
<1>2. f = Round(f, l, n)
  BY <1>1, RoundsExist, Zenon
<1>3. getPCRHashAlg(l) = f[n]
  BY Zenon DEF getPCRHashAlg, Round
<1> HIDE DEF f, n
<1> DEFINE B == {k \in Nat : k <= n /\ f[k] # Best(l, k)}
<1>4. B = {}
  <2> SUFFICES ASSUME B # {} PROVE FALSE
    OBVIOUS
  <2>1. PICK k \in B : \A y \in B : k <= y
    BY LeastOf
  <2>2. k \in 0 .. n
    BY <1>1
  <2>3. f[k] = IF k = 0 THEN None ELSE Prefer(f[k - 1], l[k])
    BY <1>2, <2>2, Zenon DEF Round
  <2>4. CASE k = 0
    <3>1. 1 .. k = {}
      BY <2>4
    <3>2. Best(l, k) = None
      BY <3>1 DEF Best, FullIn
    <3> QED
      BY <2>1, <2>3, <2>4, <3>2
  <2>5. CASE k # 0
    <3>1. k - 1 \in Nat /\ k - 1 <= n /\ k - 1 \notin B /\ k \in 1 .. n
      BY <2>1, <2>5, <1>1
    <3>2. f[k - 1] = Best(l, k - 1)
      BY <3>1
    <3>3. Best(l, k) = Prefer(Best(l, k - 1), l[k])
      BY <3>1, PreferBest DEF n
    <3> QED
      BY <2>1, <2>3, <2>5, <3>2, <3>3
  <2> QED
    BY <2>4, <2>5
<1> QED
  BY <1>1, <1>3, <1>4 DEF n

\* The bank of the TPM's list that getPCRHashAlg prefers.
LEMMA ListsPreferred == ASSUME banks \in BankLists PROVE BankPreferred
<1>1. banks \in Seq([hash : Hash, full : BOOLEAN])
  BY PcrWorld
<1>2. getPCRHashAlg(banks) = Best(banks, Len(banks))
  BY <1>1, LoopComputesBest
<1>3. DOMAIN banks = 1 .. Len(banks)
  BY <1>1
<1>4. \A h : Full(h) <=> FullIn(banks, Len(banks), h)
  BY <1>3, Zenon DEF Full, FullIn
<1>5. {"SHA256", "SHA384", "SHA512"} \subseteq Hash
  BY DEF Hash
<1> QED
  BY <1>2, <1>4, <1>5 DEF BankPreferred, Best

-----------------------------------------------------------------------------
(* The inductive invariant.                                                *)

Bank == SelectPCRs(banks)

Reading == [index : PCRs, bank : Hash, value : Nat]
Indexes(s) == {s[k].index : k \in DOMAIN s}

\* What was read is of the bank b, and each value is one that the history H has
\* of its PCR.
Good(s, b, H) ==
    /\ s \in Seq(Reading)
    /\ \A k \in DOMAIN s : s[k].bank = b /\ s[k].value \in H[s[k].index]

\* A digest that the TPM computed from PCRs of the bank b.
IsPolicy(p, b) ==
    /\ p = [bank |-> b, sel |-> p.sel, seq |-> p.seq]
    /\ p.sel \subseteq PCRs
    /\ p.seq \in [1 .. Cardinality(p.sel) -> Nat]

Types ==
    /\ banks \in BankLists
    /\ pcr \in [Hash -> [PCRs -> Nat]]
    /\ changes \in 0 .. MaxChanges
    /\ pc \in {"idle", "read", "policy", "create", "callback", "sign", "quote"}
    /\ req \in Seq(Nat) /\ remaining \subseteq ToSet(req)

\* A call works on the preferred bank; no call, no locals.
CallInv ==
    /\ pc # "idle" => alg = Bank /\ alg \in Hash
    /\ pc = "idle" => values = << >>

\* Between two commands of ReadPCRs every requested PCR is either read, once, or
\* still to be read.
ReadInv ==
    pc = "read" =>
        /\ Good(values, Bank, since)
        /\ Indexes(values) = ToSet(req) \ remaining
        /\ Len(values) + Cardinality(remaining) = Cardinality(ToSet(req))

\* The history has the present values of the PCRs from the start of the read on.
SinceInv ==
    /\ DOMAIN since = PCRs /\ \A i \in PCRs : IsFiniteSet(since[i])
    /\ pc = "read" \/ attested # None =>
        Bank \in Hash /\ \A i \in PCRs : pcr[Bank][i] \in since[i]

AttestedInv == attested # None => Good(attested, Bank, since)

\* The digest of the session is of the present values unless a PCR has changed.
SessionInv ==
    pc \in {"create", "sign"} =>
        /\ Present
        /\ IsPolicy(session.digest, Bank)
        /\ session.counter \in 0 .. changes
        /\ session.counter = changes => session.digest = PolicyOf(alg, ToSet(req))

KeyInv == key # None => IsPolicy(key.policy, Bank)

ReadResult ==
    result.kind = "read" =>
        /\ Good(result.values, Bank, since)
        /\ Indexes(result.values) = ToSet(result.list)
        /\ Len(result.values) = Cardinality(ToSet(result.list))

QuoteResult ==
    result.kind = "quoted" =>
        /\ IsPolicy(result.quote, Bank)
        /\ attested # None =>
            \A k \in DOMAIN result.quote.seq :
                result.quote.seq[k] \in since[Ascending(result.quote.sel)[k]]

ResultInv == ReadResult /\ QuoteResult /\ SignIffPolicy /\ VerifyIffUnchanged

IInv ==
    /\ Types
    /\ CallInv
    /\ ReadInv
    /\ SinceInv
    /\ AttestedInv
    /\ SessionInv
    /\ KeyInv
    /\ ResultInv

-----------------------------------------------------------------------------
(* Lists of PCRs and of readings.                                          *)

\* The PCRs of a list are finitely many.
LEMMA ListFinite ==
    ASSUME NEW r \in Seq(Nat)
    PROVE  ToSet(r) \subseteq Nat /\ IsFiniteSet(ToSet(r)) /\ Cardinality(ToSet(r)) \in Nat
<1> DEFINE n == Len(r)
<1>1. n \in Nat /\ r \in [1 .. n -> Nat] /\ DOMAIN r = 1 .. n
  OBVIOUS
<1>2. r \in [1 .. n -> ToSet(r)] /\ \A x \in ToSet(r) : \E k \in 1 .. n : r[k] = x
  BY <1>1 DEF ToSet
<1>3. ToSet(r) \subseteq Nat
  BY <1>1 DEF ToSet
<1>4. r \in Surjection(1 .. n, ToSet(r))
  BY <1>2, Fun_IsSurj
<1>5. IsFiniteSet(1 .. n)
  BY <1>1, FS_Interval
<1>6. IsFiniteSet(ToSet(r))
  BY <1>4, <1>5, FS_Surjection
<1> QED
  BY <1>3, <1>6, FS_CardinalityType

\* The TPM's PCRs, and any of them, are finitely many numbers.
LEMMA PCRsFinite ==
    ASSUME NEW S, S \subseteq PCRs
    PROVE  S \subseteq Nat /\ IsFiniteSet(S) /\ Cardinality(S) \in Nat
<1>1. PCRs \subseteq Nat /\ IsFiniteSet(PCRs)
  BY PcrWorld
<1>2. IsFiniteSet(S)
  BY <1>1, FS_Subset
<1> QED
  BY <1>1, <1>2, FS_CardinalityType

\* One PCR_Read answers PCRs that were asked for.
LEMMA AnsweredIsAsked ==
    ASSUME remaining \subseteq Nat, IsFiniteSet(remaining)
    PROVE  Answered \subseteq remaining
<1> DEFINE A == {i \in remaining : Full(alg)}
<1> DEFINE s == Ascending(A)
<1> DEFINE m == IF Len(s) < ReadLimit THEN Len(s) ELSE ReadLimit
<1>1. A \subseteq remaining
  OBVIOUS
<1> HIDE DEF A
<1>2. IsFiniteSet(A) /\ A \subseteq Nat
  BY <1>1, FS_Subset
<1>3. Cardinality(A) \in Nat /\ s \in [1 .. Cardinality(A) -> A]
  BY <1>2, AscendingLists
<1> HIDE DEF s
<1>4. s \in Seq(A) /\ Len(s) = Cardinality(A)
  BY <1>3
<1>5. m \in 0 .. Len(s)
  BY <1>3, <1>4, PcrWorld
<1> HIDE DEF m
<1>6. DOMAIN SubSeq(s, 1, m) = 1 .. m /\ \A k \in 1 .. m : SubSeq(s, 1, m)[k] = s[k]
  BY <1>4, <1>5
<1>7. \A k \in 1 .. m : s[k] \in A
  BY <1>3, <1>4, <1>5
<1>8. ToSet(SubSeq(s, 1, m)) \subseteq A
  BY <1>6, <1>7 DEF ToSet
<1> QED
  BY <1>1, <1>8 DEF Answered, A, s, m

\* The values that the TPM hashes, and the digest it makes of them.
LEMMA PolicyMade ==
    ASSUME pcr \in [Hash -> [PCRs -> Nat]], NEW h \in Hash, NEW S, S \subseteq PCRs
    PROVE  /\ Cardinality(S) \in Nat
           /\ Ascending(S) \in [1 .. Cardinality(S) -> S]
           /\ Current(h, S) \in [1 .. Cardinality(S) -> Nat]
           /\ \A k \in 1 .. Cardinality(S) : Current(h, S)[k] = pcr[h][Ascending(S)[k]]
           /\ IsPolicy(PolicyOf(h, S), h)
           /\ PolicyOf(h, S).bank = h /\ PolicyOf(h, S).sel = S /\ PolicyOf(h, S).seq = Current(h, S)
<1> DEFINE n == Cardinality(S)
<1> DEFINE s == Ascending(S)
<1>1. S \subseteq Nat /\ IsFiniteSet(S)
  BY PCRsFinite
<1>2. n \in Nat /\ s \in [1 .. n -> S]
  BY <1>1, AscendingLists
<1>3. Current(h, S) = [k \in 1 .. n |-> pcr[h][s[k]]]
  BY DEF Current
<1> HIDE DEF n, s
<1>4. \A k \in 1 .. n : pcr[h][s[k]] \in Nat
  BY <1>2
<1>5. /\ Current(h, S) \in [1 .. n -> Nat]
      /\ \A k \in 1 .. n : Current(h, S)[k] = pcr[h][s[k]]
  BY <1>3, <1>4
<1>6. /\ PolicyOf(h, S).bank = h /\ PolicyOf(h, S).sel = S /\ PolicyOf(h, S).seq = Current(h, S)
      /\ PolicyOf(h, S) = [bank |-> h, sel |-> S, seq |-> Current(h, S)]
  BY DEF PolicyOf
<1>7. IsPolicy(PolicyOf(h, S), h)
  BY <1>5, <1>6 DEF IsPolicy, n
<1> QED
  BY <1>2, <1>5, <1>6, <1>7 DEF n, s

\* What one PCR_Read is paired to: one good reading of each PCR answered.
LEMMA PairIsGood ==
    ASSUME pcr \in [Hash -> [PCRs -> Nat]], NEW R, R \subseteq PCRs, alg \in Hash,
           \A i \in PCRs : pcr[alg][i] \in since[i]
    PROVE  LET p == Pair(R, Current(alg, R)) IN
           Good(p, alg, since) /\ Indexes(p) = R /\ Len(p) = Cardinality(R)
<1> DEFINE n == Cardinality(R)
<1> DEFINE s == Ascending(R)
<1> DEFINE p == Pair(R, Current(alg, R))
<1>1. /\ n \in Nat /\ s \in [1 .. n -> R] /\ Current(alg, R) \in [1 .. n -> Nat]
      /\ \A k \in 1 .. n : Current(alg, R)[k] = pcr[alg][s[k]]
  BY PolicyMade
<1>2. p = [k \in 1 .. n |-> [index |-> s[k], bank |-> alg, value |-> Current(alg, R)[k]]]
  BY DEF Pair
<1>3. ToSet(s) = R
  BY PCRsFinite, AscendingLists
<1> HIDE DEF n, s, p
<1>4. ASSUME NEW k \in 1 .. n
      PROVE  /\ p[k] \in Reading
             /\ p[k].index = s[k] /\ p[k].bank = alg /\ p[k].value = pcr[alg][s[k]]
             /\ s[k] \in PCRs
  <2>1. p[k] = [index |-> s[k], bank |-> alg, value |-> Current(alg, R)[k]]
    BY <1>2
  <2>2. s[k] \in PCRs /\ Current(alg, R)[k] \in Nat
    BY <1>1
  <2> QED
    BY <2>1, <2>2, <1>1 DEF Reading
<1>5. p \in Seq(Reading) /\ Len(p) = n /\ DOMAIN p = 1 .. n
  <2>1. p \in [1 .. n -> Reading]
    BY <1>2, <1>4
  <2> HIDE DEF Reading
  <2> QED
    BY <2>1, <1>1
<1>6. Good(p, alg, since)
  BY <1>4, <1>5 DEF Good
<1>7. Indexes(p) = {s[k] : k \in 1 .. n}
  <2>1. \A k \in 1 .. n : p[k].index = s[k]
    BY <1>4, Zenon
  <2>2. Indexes(p) = {p[k].index : k \in 1 .. n}
    BY <1>5, Zenon DEF Indexes
  <2> QED
    BY <2>1, <2>2, Zenon
<1>8. DOMAIN s = 1 .. n
  BY <1>1
<1>9. Indexes(p) = R
  BY <1>3, <1>7, <1>8, Zenon DEF ToSet
<1> QED
  BY <1>5, <1>6, <1>9 DEF n, p

\* Good readings of two commands together are good readings.
LEMMA GoodTogether ==
    ASSUME NEW b, NEW H, NEW s, NEW t, Good(s, b, H), Good(t, b, H)
    PROVE  /\ Good(s \o t, b, H)
           /\ Indexes(s \o t) = Indexes(s) \cup Indexes(t)
           /\ Len(s \o t) = Len(s) + Len(t)
<1>1. s \in Seq(Reading) /\ t \in Seq(Reading)
  BY DEF Good
<1> HIDE DEF Reading
<1>2. /\ s \o t \in Seq(Reading) /\ Len(s \o t) = Len(s) + Len(t)
      /\ DOMAIN s = 1 .. Len(s) /\ DOMAIN t = 1 .. Len(t) /\ DOMAIN (s \o t) = 1 .. Len(s) + Len(t)
      /\ Len(s) \in Nat /\ Len(t) \in Nat
  BY <1>1
<1>3. \A k \in DOMAIN s : k \in DOMAIN (s \o t) /\ (s \o t)[k] = s[k]
  BY <1>1, <1>2
<1>4. \A k \in DOMAIN t : k + Len(s) \in DOMAIN (s \o t) /\ (s \o t)[k + Len(s)] = t[k]
  BY <1>1, <1>2
<1>5. \A k \in DOMAIN (s \o t) : k \in DOMAIN s \/ \E j \in DOMAIN t : k = j + Len(s)
  <2> TAKE k \in DOMAIN (s \o t)
  <2>1. k \in Nat /\ 1 <= k /\ k <= Len(s) + Len(t)
    BY <1>2
  <2>2. CASE k <= Len(s)
    BY <2>1, <2>2, <1>2
  <2>3. CASE k > Len(s)
    <3>1. k - Len(s) \in DOMAIN t /\ k = (k - Len(s)) + Len(s)
      BY <2>1, <2>3, <1>2
    <3> QED
      BY <3>1
  <2> QED
    BY <2>1, <2>2, <2>3, <1>2
<1>6. Indexes(s \o t) = Indexes(s) \cup Indexes(t)
  BY <1>3, <1>4, <1>5 DEF Indexes
<1>7. Good(s \o t, b, H)
  BY <1>2, <1>3, <1>4, <1>5 DEF Good
<1> QED
  BY <1>2, <1>6, <1>7

\* A history that has grown still has what was read.
LEMMA GoodStays ==
    ASSUME NEW s, NEW b, NEW H, NEW K, Good(s, b, H), \A i \in PCRs : H[i] \subseteq K[i]
    PROVE  Good(s, b, K)
<1>1. ASSUME NEW k \in DOMAIN s PROVE s[k].index \in PCRs
  <2>1. s \in Seq(Reading)
    BY DEF Good
  <2>2. s[k] \in Reading
    <3> HIDE DEF Reading
    <3> QED
      BY <2>1
  <2> QED
    BY <2>2 DEF Reading
<1> QED
  BY <1>1 DEF Good

-----------------------------------------------------------------------------
(* The steps.                                                              *)

\* The bank of the selection is one the model knows, or there is none.
LEMMA BankIsHash == ASSUME banks \in BankLists PROVE Bank \in Hash \/ Bank = None
<1>1. BankPreferred
  BY ListsPreferred
<1> QED
  BY <1>1 DEF BankPreferred, Bank, SelectPCRs, Hash

\* A call that returns leaves nothing behind.
LEMMA Returns ==
    ASSUME Types, NEW r, Return(r), UNCHANGED tpm
    PROVE  Types' /\ CallInv' /\ ReadInv' /\ SessionInv'
<1>1. pc' = "idle" /\ req' = << >> /\ remaining' = {} /\ values' = << >>
  BY DEF Return
<1>2. Types'
  <2>1. << >> \in Seq(Nat)
    OBVIOUS
  <2>2. /\ banks' \in BankLists /\ pcr' \in [Hash -> [PCRs -> Nat]]
        /\ changes' \in 0 .. MaxChanges
    BY DEF Types, tpm
  <2> QED
    BY <2>1, <2>2, <1>1 DEF Types
<1>3. CallInv'
  BY <1>1 DEF CallInv
<1>4. ReadInv'
  BY <1>1 DEF ReadInv
<1>5. SessionInv'
  BY <1>1 DEF SessionInv
<1> QED
  BY <1>2, <1>3, <1>4, <1>5

\* A step that is no part of a ReadPCRs leaves its history and its answer alone.
LEMMA HistoryStays ==
    ASSUME SinceInv, AttestedInv, UNCHANGED <<tpm, attested, since>>, pc' = "read" => pc = "read"
    PROVE  SinceInv' /\ AttestedInv'
<1>1. Bank' = Bank /\ pcr' = pcr /\ attested' = attested /\ since' = since
  BY DEF tpm, Bank
<1>2. SinceInv'
  BY <1>1 DEF SinceInv
<1>3. AttestedInv'
  BY <1>1 DEF AttestedInv
<1> QED
  BY <1>2, <1>3

\* The key stays the key.
LEMMA KeyStays == ASSUME KeyInv, UNCHANGED <<tpm, key>> PROVE KeyInv'
BY DEF KeyInv, tpm, Bank

\* A result that claims nothing.
LEMMA NothingClaimed == ASSUME result'.kind \in {"none", "error", "created"} PROVE ResultInv'
BY DEF ResultInv, ReadResult, QuoteResult, SignIffPolicy, VerifyIffUnchanged

\* What a result says stays true while the history grows.
LEMMA ResultStays ==
    ASSUME ResultInv, UNCHANGED <<banks, key, attested, result>>,
           \A i \in PCRs : since[i] \subseteq since'[i]
    PROVE  ResultInv'
<1>1. Bank' = Bank
  BY DEF Bank
<1>2. ReadResult'
  <2> SUFFICES ASSUME result.kind = "read" PROVE ReadResult'
    BY DEF ReadResult
  <2>1. Good(result.values, Bank, since')
    BY GoodStays DEF ResultInv, ReadResult
  <2> QED
    BY <2>1, <1>1 DEF ResultInv, ReadResult
<1>3. QuoteResult'
  <2> SUFFICES ASSUME result.kind = "quoted" PROVE QuoteResult'
    BY DEF QuoteResult
  <2> DEFINE q == result.quote
  <2>1. IsPolicy(q, Bank)
    BY DEF ResultInv, QuoteResult
  <2>2. ASSUME attested # None, NEW k \in DOMAIN q.seq PROVE q.seq[k] \in since'[Ascending(q.sel)[k]]
    <3>1. q.seq[k] \in since[Ascending(q.sel)[k]]
      BY <2>2 DEF ResultInv, QuoteResult
    <3>2. q.sel \subseteq PCRs /\ k \in 1 .. Cardinality(q.sel)
      BY <2>1 DEF IsPolicy
    <3> HIDE DEF q
    <3>3. Ascending(q.sel)[k] \in PCRs
      BY <3>2, PCRsFinite, AscendingLists
    <3> QED
      BY <3>1, <3>3
  <2> QED
    BY <2>1, <2>2, <1>1 DEF QuoteResult
<1>4. SignIffPolicy'
  BY Zenon DEF ResultInv, SignIffPolicy
<1>5. VerifyIffUnchanged'
  BY Zenon DEF ResultInv, VerifyIffUnchanged, VerifyAnyOrder
<1> QED
  BY <1>2, <1>3, <1>4, <1>5 DEF ResultInv

\* The call that begins with a selection.
LEMMA Begins ==
    ASSUME IInv, NEW r \in Requests, NEW label \in {"read", "policy", "callback", "quote"},
           Begin(r, label)
    PROVE  /\ Types' /\ CallInv' /\ SessionInv' /\ KeyInv' /\ ResultInv'
           /\ Bank' = Bank /\ pcr' = pcr
           /\ \/ pc' = "idle" /\ alg' = None
              \/ /\ pc' = label /\ alg' = Bank /\ Bank \in Hash
                 /\ req' = r /\ r \in Seq(Nat) /\ remaining' = ToSet(r) /\ values' = << >>
<1>1. UNCHANGED <<tpm, key>> /\ pc = "idle" /\ Bank' = Bank /\ pcr' = pcr
  BY DEF Begin, Bank, tpm
<1>2. KeyInv'
  BY <1>1, KeyStays DEF IInv
<1>3. CASE Return([kind |-> "error"])
  <2>1. Types' /\ CallInv' /\ SessionInv'
    BY <1>1, <1>3, Returns DEF IInv
  <2>2. result'.kind = "error" /\ pc' = "idle" /\ alg' = None
    BY <1>3 DEF Return
  <2> QED
    BY <1>1, <1>2, <2>1, <2>2, NothingClaimed
<1>4. CASE /\ BankFound(Bank)
           /\ pc' = label /\ result' = NoResult
           /\ req' = r /\ alg' = Bank /\ remaining' = ToSet(r)
           /\ UNCHANGED <<values, session>>
  <2>1. Bank \in Hash
    BY <1>4, BankIsHash DEF BankFound, IInv, Types
  <2>2. r \in Seq(Nat) /\ values' = << >>
    BY <1>1, <1>4, PcrWorld DEF IInv, CallInv
  <2>3. Types'
    BY <1>1, <1>4, <2>2 DEF IInv, Types, tpm
  <2>4. CallInv' /\ SessionInv'
    BY <1>1, <1>4, <2>1 DEF CallInv, SessionInv
  <2>5. result'.kind = "none"
    BY <1>4 DEF NoResult
  <2> QED
    BY <1>1, <1>2, <1>4, <2>1, <2>2, <2>3, <2>4, <2>5, NothingClaimed
<1> QED
  BY <1>3, <1>4 DEF Begin, Bank

\* A call other than ReadPCRs begins.
LEMMA BeginKeeps ==
    ASSUME IInv, NEW r \in Requests, NEW label \in {"policy", "callback", "quote"},
           Begin(r, label), UNCHANGED <<attested, since>>
    PROVE  IInv'
<1>1. /\ Types' /\ CallInv' /\ SessionInv' /\ KeyInv' /\ ResultInv'
      /\ pc' \in {"idle", label}
  BY Begins
<1>2. UNCHANGED <<tpm, attested, since>> /\ pc' # "read"
  BY <1>1 DEF Begin
<1>3. SinceInv' /\ AttestedInv'
  BY <1>2, HistoryStays DEF IInv
<1>4. ReadInv'
  BY <1>2 DEF ReadInv
<1> QED
  BY <1>1, <1>3, <1>4 DEF IInv

\* ReadPCRs begins, with nothing read and a history of the present values.
LEMMA ReadBegins == ASSUME IInv, NEW r \in Requests, ReadPCRs(r) PROVE IInv'
<1>1. Begin(r, "read")
  BY DEF ReadPCRs
<1>2. /\ Types' /\ CallInv' /\ SessionInv' /\ KeyInv' /\ ResultInv'
      /\ Bank' = Bank /\ pcr' = pcr
      /\ \/ pc' = "idle" /\ alg' = None
         \/ /\ pc' = "read" /\ alg' = Bank /\ Bank \in Hash
            /\ req' = r /\ r \in Seq(Nat) /\ remaining' = ToSet(r) /\ values' = << >>
  BY <1>1, Begins
<1>3. attested' = None /\ since' = [i \in PCRs |-> IF BankFound(alg') THEN {pcr[alg'][i]} ELSE {}]
  BY DEF ReadPCRs
<1>4. AttestedInv'
  BY <1>3 DEF AttestedInv
<1>5. SinceInv'
  <2>1. DOMAIN since' = PCRs
    BY <1>3
  <2>2. \A i \in PCRs : IsFiniteSet(since'[i])
    <3> TAKE i \in PCRs
    <3>1. since'[i] = {} \/ since'[i] = {pcr[alg'][i]}
      BY <1>3
    <3> QED
      BY <3>1, FS_EmptySet, FS_Singleton, ZenonT(30)
  <2>3. ASSUME pc' = "read" PROVE Bank' \in Hash /\ \A i \in PCRs : pcr'[Bank'][i] \in since'[i]
    <3>1. alg' = Bank /\ Bank \in Hash /\ None \notin Hash
      BY <2>3, <1>2, PcrWorld
    <3> QED
      BY <3>1, <1>2, <1>3 DEF BankFound
  <2> QED
    BY <2>1, <2>2, <2>3, <1>3 DEF SinceInv
<1>6. ReadInv'
  <2> SUFFICES ASSUME pc' = "read" PROVE ReadInv'
    BY DEF ReadInv
  <2>1. req' = r /\ r \in Seq(Nat) /\ remaining' = ToSet(r) /\ values' = << >>
    BY <1>2
  <2>2. Cardinality(ToSet(r)) \in Nat
    BY <2>1, ListFinite
  <2>3. Good(values', Bank', since') /\ Indexes(values') = {} /\ Len(values') = 0
    BY <2>1 DEF Good, Indexes
  <2> QED
    BY <2>1, <2>2, <2>3 DEF ReadInv
<1> QED
  BY <1>2, <1>4, <1>5, <1>6 DEF IInv

\* A command fails and the call with it.
LEMMA FailKeeps == ASSUME IInv, Fail, UNCHANGED <<tpm, key, attested, since>> PROVE IInv'
<1>1. Return([kind |-> "error"])
  BY DEF Fail
<1>2. Types' /\ CallInv' /\ ReadInv' /\ SessionInv'
  BY <1>1, Returns DEF IInv
<1>3. pc' = "idle" /\ result'.kind = "error"
  BY <1>1 DEF Return
<1>4. SinceInv' /\ AttestedInv'
  BY <1>3, HistoryStays DEF IInv
<1> QED
  BY <1>2, <1>3, <1>4, KeyStays, NothingClaimed DEF IInv

\* One PCR_Read.
LEMMA PCRReadKeeps == ASSUME IInv, PCRRead PROVE IInv'
<1> DEFINE R == Answered
<1> DEFINE pairs == Pair(R, Current(alg, R))
<1> DEFINE now == values \o pairs
<1>1. pc = "read" /\ UNCHANGED <<tpm, key, since>> /\ Bank' = Bank
  BY DEF PCRRead, Bank, tpm
<1>2. CASE Fail /\ UNCHANGED attested
  BY <1>1, <1>2, FailKeeps
<1>3. ASSUME Present
      PROVE  /\ R \subseteq remaining
             /\ Good(now, Bank, since)
             /\ Indexes(now) = (ToSet(req) \ remaining) \cup R
             /\ Len(now) + Cardinality(Unread(R)) = Cardinality(ToSet(req))
             /\ remaining \subseteq R => Cardinality(Unread(R)) = 0
  <2>1. remaining \subseteq PCRs /\ remaining \subseteq ToSet(req)
    BY <1>3 DEF Present, IInv, Types
  <2>2. remaining \subseteq Nat /\ IsFiniteSet(remaining) /\ Cardinality(remaining) \in Nat
    BY <2>1, PCRsFinite
  <2>3. R \subseteq remaining
    BY <2>2, AnsweredIsAsked
  <2> HIDE DEF R
  <2>4. pcr \in [Hash -> [PCRs -> Nat]] /\ alg = Bank /\ alg \in Hash
        /\ \A i \in PCRs : pcr[alg][i] \in since[i]
    BY <1>1 DEF IInv, Types, CallInv, SinceInv
  <2>5. Good(pairs, Bank, since) /\ Indexes(pairs) = R /\ Len(pairs) = Cardinality(R)
    BY <2>1, <2>3, <2>4, PairIsGood
  <2> HIDE DEF pairs
  <2>6. /\ Good(values, Bank, since) /\ Indexes(values) = ToSet(req) \ remaining
        /\ Len(values) + Cardinality(remaining) = Cardinality(ToSet(req))
    BY <1>1 DEF IInv, ReadInv
  <2>7. /\ Good(now, Bank, since) /\ Indexes(now) = (ToSet(req) \ remaining) \cup R
        /\ Len(now) = Len(values) + Cardinality(R)
    <3>1. /\ Good(now, Bank, since) /\ Indexes(now) = Indexes(values) \cup Indexes(pairs)
          /\ Len(now) = Len(values) + Len(pairs)
      <4>1. ASSUME NEW v, NEW w, NEW b, NEW H, Good(v, b, H), Good(w, b, H)
            PROVE  /\ Good(v \o w, b, H) /\ Indexes(v \o w) = Indexes(v) \cup Indexes(w)
                   /\ Len(v \o w) = Len(v) + Len(w)
        BY <4>1, GoodTogether
      <4>2. Good(values, Bank, since) /\ Good(pairs, Bank, since)
        BY <2>5, <2>6
      <4> QED
        BY <4>1, <4>2, Zenon
    <3> HIDE DEF now
    <3> QED
      BY <3>1, <2>5, <2>6
  <2>8. Cardinality(Unread(R)) = Cardinality(remaining) - Cardinality(R) /\ Cardinality(R) \in Nat
    <3>1. remaining \cap R = R
      BY <2>3
    <3>2. Cardinality(remaining \ R) = Cardinality(remaining) - Cardinality(R)
      BY <2>2, <3>1, FS_Difference
    <3>3. Cardinality(R) \in Nat
      BY <2>1, <2>3, PCRsFinite
    <3> QED
      BY <3>2, <3>3 DEF Unread
  <2>9. remaining \subseteq R => Cardinality(Unread(R)) = 0
    BY FS_EmptySet DEF Unread
  <2>10. Len(values) \in Nat
    <3> HIDE DEF Reading
    <3> QED
      BY <2>6 DEF Good
  <2>11. Len(now) + Cardinality(Unread(R)) = Cardinality(ToSet(req))
    <3> HIDE DEF now
    <3> QED
      BY <2>2, <2>6, <2>7, <2>8, <2>10
  <2> QED
    BY <2>3, <2>7, <2>9, <2>11
<1>4. CASE /\ Present /\ remaining \subseteq R
           /\ attested' = now
           /\ Return([kind |-> "read", list |-> req, values |-> now])
  <2>1. /\ Good(now, Bank, since) /\ Indexes(now) = ToSet(req)
        /\ Len(now) = Cardinality(ToSet(req))
    <3>1. (ToSet(req) \ remaining) \cup R = ToSet(req)
      BY <1>3, <1>4 DEF IInv, Types
    <3>2. Len(now) \in Nat
      <4> HIDE DEF now, Reading
      <4> QED
        BY <1>3, <1>4 DEF Good
    <3> HIDE DEF now, R
    <3>3. /\ Len(now) + Cardinality(Unread(R)) = Cardinality(ToSet(req))
          /\ Cardinality(Unread(R)) = 0
          /\ Good(now, Bank, since) /\ Indexes(now) = (ToSet(req) \ remaining) \cup R
      BY <1>3, <1>4
    <3>4. Len(now) = Cardinality(ToSet(req))
      BY <3>2, <3>3
    <3> QED
      BY <3>1, <3>3, <3>4
  <2> HIDE DEF now
  <2>2. /\ pc' = "idle" /\ result'.kind = "read" /\ result'.list = req /\ result'.values = now
    BY <1>4 DEF Return
  <2>3. Types' /\ CallInv' /\ ReadInv' /\ SessionInv'
    BY <1>1, <1>4, Returns DEF IInv
  <2>4. AttestedInv'
    BY <1>1, <1>4, <2>1 DEF AttestedInv
  <2>5. SinceInv'
    BY <1>1 DEF IInv, SinceInv, tpm
  <2>6. ResultInv'
    BY <1>1, <2>1, <2>2
    DEF ResultInv, ReadResult, QuoteResult, SignIffPolicy, VerifyIffUnchanged
  <2> QED
    BY <1>1, <2>3, <2>4, <2>5, <2>6, KeyStays DEF IInv
<1>5. CASE /\ Present /\ ~(remaining \subseteq R)
           /\ remaining' = Unread(R) /\ values' = now
           /\ UNCHANGED <<pc, req, alg, session, attested, result>>
  <2>1. ReadInv'
    <3>1. (ToSet(req) \ remaining) \cup R = ToSet(req) \ Unread(R)
      BY <1>3, <1>5 DEF IInv, Types, Unread
    <3> HIDE DEF now, R
    <3> QED
      BY <1>1, <1>3, <1>5, <3>1 DEF ReadInv
  <2>2. Types'
    <3>1. Unread(R) \subseteq ToSet(req)
      BY DEF IInv, Types, Unread
    <3> HIDE DEF R, now
    <3> QED
      BY <1>1, <1>5, <3>1 DEF IInv, Types, tpm
  <2> HIDE DEF now, R
  <2>3. CallInv' /\ SessionInv'
    BY <1>1, <1>5 DEF IInv, CallInv, SessionInv
  <2>4. SinceInv' /\ AttestedInv'
    BY <1>1, <1>5, HistoryStays DEF IInv
  <2>5. ResultInv'
    <3>1. \A i \in PCRs : since[i] \subseteq since'[i]
      BY <1>1
    <3> QED
      BY <1>1, <1>5, <3>1, ResultStays DEF IInv, tpm
  <2> QED
    BY <1>1, <2>1, <2>2, <2>3, <2>4, <2>5, KeyStays DEF IInv
<1> QED
  BY <1>2, <1>4, <1>5 DEF PCRRead

\* PolicyPCR, of the call that makes a key and of the one that uses it.
LEMMA PolicyPCRKeeps ==
    ASSUME IInv, NEW label \in {"policy", "callback"}, NEW next \in {"create", "sign"},
           PolicyPCR(label, next, PolicyOf(alg, ToSet(req)))
    PROVE  IInv'
<1> DEFINE d == PolicyOf(alg, ToSet(req))
<1>1. pc = label /\ UNCHANGED <<tpm, key, attested, since>> /\ Bank' = Bank
  BY DEF PolicyPCR, Bank, tpm
<1>2. CASE Fail
  BY <1>1, <1>2, FailKeeps
<1>3. CASE /\ Present
           /\ session' = [digest |-> d, counter |-> changes]
           /\ pc' = next
           /\ UNCHANGED <<req, alg, remaining, values, result>>
  <2>1. alg = Bank /\ alg \in Hash /\ pcr \in [Hash -> [PCRs -> Nat]] /\ changes \in Nat
    BY <1>1 DEF IInv, CallInv, Types
  <2>2. IsPolicy(d, Bank)
    BY <1>3, <2>1, PolicyMade DEF Present
  <2>3. PolicyOf(alg, ToSet(req))' = d
    BY <1>1, <1>3 DEF PolicyOf, Current, tpm
  <2> HIDE DEF d
  <2>4. SessionInv'
    <3>1. session'.digest = d /\ session'.counter = changes /\ changes \in 0 .. changes'
      BY <1>1, <1>3, <2>1 DEF tpm
    <3>2. Present'
      BY <1>3 DEF Present
    <3> QED
      BY <1>1, <2>2, <2>3, <3>1, <3>2 DEF SessionInv
  <2>5. Types'
    BY <1>1, <1>3 DEF IInv, Types, tpm
  <2>6. CallInv' /\ ReadInv'
    BY <1>1, <1>3, <2>1 DEF CallInv, ReadInv
  <2>7. SinceInv' /\ AttestedInv'
    BY <1>1, <1>3, HistoryStays DEF IInv
  <2>8. ResultInv'
    <3>1. \A i \in PCRs : since[i] \subseteq since'[i]
      BY <1>1
    <3> QED
      BY <1>1, <1>3, <3>1, ResultStays DEF IInv, tpm
  <2> QED
    BY <1>1, <2>4, <2>5, <2>6, <2>7, <2>8, KeyStays DEF IInv
<1> QED
  BY <1>2, <1>3 DEF PolicyPCR

\* The key gets the digest of the session.
LEMMA CreateKeyKeeps == ASSUME IInv, CreateKey PROVE IInv'
<1>1. pc = "create" /\ UNCHANGED <<tpm, attested, since>> /\ Bank' = Bank
  BY DEF CreateKey, Bank, tpm
<1>2. CASE Fail /\ UNCHANGED key
  BY <1>1, <1>2, FailKeeps
<1>3. CASE key' = [policy |-> session.digest] /\ Return([kind |-> "created"])
  <2>1. Types' /\ CallInv' /\ ReadInv' /\ SessionInv'
    BY <1>1, <1>3, Returns DEF IInv
  <2>2. pc' = "idle" /\ result'.kind = "created"
    BY <1>3 DEF Return
  <2>3. KeyInv'
    BY <1>1, <1>3 DEF IInv, SessionInv, KeyInv
  <2>4. SinceInv' /\ AttestedInv'
    BY <1>1, <2>2, HistoryStays DEF IInv
  <2> QED
    BY <2>1, <2>2, <2>3, <2>4, NothingClaimed DEF IInv
<1> QED
  BY <1>2, <1>3 DEF CreateKey

\* Sign: an accepted session has a digest of the present values.
LEMMA SignKeeps == ASSUME IInv, Sign PROVE IInv'
<1> DEFINE d == PolicyOf(alg, ToSet(req))
<1>1. pc = "sign" /\ UNCHANGED <<tpm, key, attested, since>>
  BY DEF Sign
<1>2. session.counter = changes => session.digest = d
  BY <1>1 DEF IInv, SessionInv
<1> HIDE DEF d
<1>3. CASE Fail
  BY <1>1, <1>3, FailKeeps
<1>4. ASSUME NEW r, Return(r), r.kind \in {"signed", "refused"},
             r.kind = "signed" => r.now = key.policy,
             r.kind = "refused" => r.now # key.policy \/ r.raced
      PROVE  IInv'
  <2>1. Types' /\ CallInv' /\ ReadInv' /\ SessionInv'
    BY <1>1, <1>4, Returns DEF IInv
  <2>2. pc' = "idle" /\ result' = r
    BY <1>4 DEF Return
  <2>3. SinceInv' /\ AttestedInv'
    BY <1>1, <2>2, HistoryStays DEF IInv
  <2>4. SignIffPolicy'
    BY <1>1, <1>4, <2>2, Zenon DEF SignIffPolicy
  <2>5. ReadResult' /\ QuoteResult' /\ VerifyIffUnchanged'
    BY <1>4, <2>2 DEF ReadResult, QuoteResult, VerifyIffUnchanged
  <2> QED
    BY <1>1, <2>1, <2>3, <2>4, <2>5, KeyStays DEF IInv, ResultInv
<1>5. CASE Accepts /\ Return([kind |-> "signed", now |-> d, raced |-> FALSE])
  <2>1. PICK r : r = [kind |-> "signed", now |-> d, raced |-> FALSE]
    OBVIOUS
  <2>2. r.kind = "signed" /\ r.now = d
    BY <2>1
  <2>3. d = key.policy
    BY <1>2, <1>5 DEF Accepts
  <2> QED
    BY <1>4, <1>5, <2>1, <2>2, <2>3
<1>6. CASE ~Accepts /\ Return([kind |-> "refused", now |-> d, raced |-> session.counter # changes])
  <2>1. PICK r : r = [kind |-> "refused", now |-> d, raced |-> session.counter # changes]
    OBVIOUS
  <2>2. r.kind = "refused" /\ r.now = d /\ r.raced = (session.counter # changes)
    BY <2>1, Zenon
  <2>3. d # key.policy \/ session.counter # changes
    BY <1>2, <1>6 DEF Accepts
  <2>4. r.now # key.policy \/ r.raced
    BY <2>2, <2>3, Zenon
  <2> QED
    BY <1>4, <1>6, <2>1, <2>2, <2>4, Zenon
<1> QED
  BY <1>3, <1>5, <1>6 DEF Sign, d

\* The quote of the present values.
LEMMA QuoteKeeps == ASSUME IInv, ExecuteQuote PROVE IInv'
<1>1. pc = "quote" /\ UNCHANGED <<tpm, key, attested, since>> /\ Bank' = Bank
  BY DEF ExecuteQuote, Bank, tpm
<1>2. CASE Fail
  BY <1>1, <1>2, FailKeeps
<1>3. CASE Present /\ Return([kind |-> "quoted", quote |-> PolicyOf(QuotedBank, ToSet(req))])
  <2>1. PICK S : S = ToSet(req) /\ S \subseteq PCRs
    BY <1>3 DEF Present
  <2>2. PICK q : q = PolicyOf(Bank, S)
    OBVIOUS
  <2>3. alg = Bank /\ Bank \in Hash /\ pcr \in [Hash -> [PCRs -> Nat]]
    BY <1>1 DEF IInv, CallInv, Types
  <2>4. /\ Cardinality(S) \in Nat
        /\ Ascending(S) \in [1 .. Cardinality(S) -> S]
        /\ q.seq \in [1 .. Cardinality(S) -> Nat]
        /\ \A k \in 1 .. Cardinality(S) : q.seq[k] = pcr[Bank][Ascending(S)[k]]
        /\ IsPolicy(q, Bank) /\ q.sel = S
    BY <2>1, <2>2, <2>3, PolicyMade
  <2>5. pc' = "idle" /\ result'.kind = "quoted" /\ result'.quote = q
    BY <1>3, <2>1, <2>2, <2>3 DEF Return, QuotedBank
  <2>6. Types' /\ CallInv' /\ ReadInv' /\ SessionInv'
    BY <1>1, <1>3, Returns DEF IInv
  <2>7. SinceInv' /\ AttestedInv'
    BY <1>1, <2>5, HistoryStays DEF IInv
  <2>8. ASSUME attested # None, NEW k \in DOMAIN q.seq PROVE q.seq[k] \in since[Ascending(q.sel)[k]]
    <3>1. \A i \in PCRs : pcr[Bank][i] \in since[i]
      BY <2>8 DEF IInv, SinceInv
    <3>2. k \in 1 .. Cardinality(S)
      BY <2>4
    <3>3. Ascending(S)[k] \in PCRs
      BY <2>1, <2>4, <3>2
    <3> QED
      BY <2>4, <3>1, <3>2, <3>3
  <2>9. QuoteResult'
    BY <1>1, <2>4, <2>5, <2>8 DEF QuoteResult
  <2>10. ReadResult' /\ SignIffPolicy' /\ VerifyIffUnchanged'
    BY <2>5 DEF ReadResult, SignIffPolicy, VerifyIffUnchanged
  <2> QED
    BY <1>1, <2>6, <2>7, <2>9, <2>10, KeyStays DEF IInv, ResultInv
<1> QED
  BY <1>2, <1>3 DEF ExecuteQuote

\* VerifyPolicyDigest of a list in ascending order compares the values that were
\* read with those of the key's policy.
LEMMA VerifyCompares ==
    ASSUME IInv, key # None, attested # None, NEW r \in Requests, r = Ascending(ToSet(r)),
           pcrBankAlg(r, attested) # None
    PROVE  computePolicyDigestFromPCRs(r, attested) = key.policy <=>
           /\ ToSet(r) = key.policy.sel
           /\ \A k \in DOMAIN key.policy.seq :
                DigestOf(attested, Ascending(key.policy.sel)[k]).value = key.policy.seq[k]
<1> DEFINE p == key.policy
<1> DEFINE S == ToSet(r)
<1> DEFINE val(k) == DigestOf(attested, r[k]).value
<1> DEFINE v == [k \in DOMAIN r |-> val(k)]
<1>1. IsPolicy(p, Bank)
  BY DEF IInv, KeyInv
<1>2. r \in Seq(Nat)
  BY PcrWorld
<1>3. S \subseteq Nat /\ IsFiniteSet(S) /\ Cardinality(S) \in Nat
  BY <1>2, ListFinite
<1>4. r = Ascending(S) /\ Ascending(S) \in [1 .. Cardinality(S) -> S]
  BY <1>3, AscendingLists
<1>5. DOMAIN r = 1 .. Cardinality(S)
  BY <1>4
<1>6. pcrBankAlg(r, attested) = Bank
  <2>1. r # << >> /\ \A k \in DOMAIN r : Has(attested, r[k])
    BY Zenon DEF pcrBankAlg
  <2>2. pcrBankAlg(r, attested) = DigestOf(attested, r[1]).bank
    BY <2>1, Zenon DEF pcrBankAlg
  <2>3. 1 \in DOMAIN r
    BY <2>1, <1>2
  <2>4. \E k \in DOMAIN attested : attested[k].index = r[1]
    BY <2>1, <2>3 DEF Has
  <2>5. PICK k \in DOMAIN attested : DigestOf(attested, r[1]) = attested[k]
    BY <2>4, Zenon DEF DigestOf
  <2>6. attested[k].bank = Bank
    BY DEF IInv, AttestedInv, Good
  <2> QED
    BY <2>2, <2>5, <2>6
<1>7. computePolicyDigestFromPCRs(r, attested) = [bank |-> Bank, sel |-> S, seq |-> v]
  BY <1>6 DEF computePolicyDigestFromPCRs
<1>8. computePolicyDigestFromPCRs(r, attested) = p <=> S = p.sel /\ v = p.seq
  <2> HIDE DEF p, S, v
  <2>1. p = [bank |-> Bank, sel |-> p.sel, seq |-> p.seq]
    BY <1>1 DEF IsPolicy
  <2> QED
    BY <1>7, <2>1
<1>9. ASSUME S = p.sel
      PROVE  v = p.seq <=>
             \A k \in DOMAIN p.seq : DigestOf(attested, Ascending(p.sel)[k]).value = p.seq[k]
  <2>1. p.seq \in [1 .. Cardinality(S) -> Nat]
    BY <1>1, <1>9 DEF IsPolicy
  <2>2. DOMAIN p.seq = DOMAIN r
    BY <2>1, <1>5
  <2>3. \A k : DigestOf(attested, Ascending(p.sel)[k]).value = val(k)
    BY <1>4, <1>9
  <2> HIDE DEF p, val, S
  <2>4. p.seq = [k \in DOMAIN r |-> p.seq[k]]
    BY <2>1, <2>2
  <2>5. v = p.seq <=> \A k \in DOMAIN r : val(k) = p.seq[k]
    BY <2>4
  <2> QED
    BY <2>2, <2>3, <2>5
<1> QED
  BY <1>8, <1>9

\* VerifyPolicyDigest.
LEMMA VerifyKeeps == ASSUME IInv, NEW r \in Requests, VerifyPolicyDigest(r) PROVE IInv'
<1> DEFINE c == computePolicyDigestFromPCRs(r, attested)
<1>1. /\ pc = "idle" /\ key # None /\ attested # None
      /\ UNCHANGED <<tpm, call, key, attested, since>> /\ Bank' = Bank
  BY DEF VerifyPolicyDigest, Bank, tpm
<1>2. Types' /\ CallInv' /\ ReadInv' /\ SessionInv'
  <2>1. Types'
    BY <1>1 DEF IInv, Types, tpm, call
  <2>2. CallInv' /\ ReadInv' /\ SessionInv'
    BY <1>1 DEF IInv, CallInv, ReadInv, SessionInv, call
  <2> QED
    BY <2>1, <2>2
<1>3. SinceInv' /\ AttestedInv'
  BY <1>1, HistoryStays DEF IInv, call
<1>4. result'.kind \in {"unverifiable", "verified", "mismatch"} /\ result'.list = r
  BY DEF VerifyPolicyDigest
<1>5. ReadResult' /\ QuoteResult' /\ SignIffPolicy'
  BY <1>4 DEF ReadResult, QuoteResult, SignIffPolicy
<1>6. VerifyIffUnchanged'
  <2> SUFFICES ASSUME result'.kind \in {"verified", "mismatch"}, r = Ascending(ToSet(r))
               PROVE  VerifyAnyOrder'
    BY <1>4 DEF VerifyIffUnchanged
  <2>1. pcrBankAlg(r, attested) # None /\ (result'.kind = "verified" <=> c = key.policy)
    BY DEF VerifyPolicyDigest
  <2>2. c = key.policy <=>
        /\ ToSet(r) = key.policy.sel
        /\ \A k \in DOMAIN key.policy.seq :
              DigestOf(attested, Ascending(key.policy.sel)[k]).value = key.policy.seq[k]
    BY <1>1, <2>1, VerifyCompares
  <2> HIDE DEF c
  <2> QED
    BY <1>1, <1>4, <2>1, <2>2, Zenon DEF VerifyAnyOrder
<1> QED
  BY <1>1, <1>2, <1>3, <1>5, <1>6, KeyStays DEF IInv, ResultInv

\* Another program changes a PCR.
LEMMA ChangeKeeps ==
    ASSUME IInv, NEW i \in PCRs, NEW p \in [Hash -> [PCRs -> Nat]],
           \A h \in Hash : \A j \in PCRs \ {i} : p[h][j] = pcr[h][j],
           Change(p, i)
    PROVE  IInv'
<1>1. /\ changes < MaxChanges /\ changes' = changes + 1 /\ pcr' = p
      /\ since' = [since EXCEPT ![i] = IF @ = {} THEN @ ELSE @ \cup {p[Bank][i]}]
      /\ UNCHANGED <<banks, call, key, attested, result>> /\ Bank' = Bank
  BY DEF Change, Bank
<1>2. DOMAIN since = PCRs /\ \A j \in PCRs : IsFiniteSet(since[j])
  BY DEF IInv, SinceInv
<1>3. /\ since'[i] = IF since[i] = {} THEN since[i] ELSE since[i] \cup {p[Bank][i]}
      /\ \A j \in PCRs \ {i} : since'[j] = since[j]
      /\ DOMAIN since' = PCRs
  BY <1>1, <1>2
<1>4. \A j \in PCRs : since[j] \subseteq since'[j]
  BY <1>3
<1>5. Types'
  <2>1. changes' \in 0 .. MaxChanges
    BY <1>1, PcrWorld DEF IInv, Types
  <2> QED
    BY <1>1, <2>1 DEF IInv, Types, call
<1>6. CallInv' /\ KeyInv'
  BY <1>1 DEF IInv, CallInv, KeyInv, call
<1>7. ReadInv'
  <2> SUFFICES ASSUME pc = "read" PROVE ReadInv'
    BY <1>1 DEF ReadInv, call
  <2>1. Good(values, Bank, since')
    BY <1>4, GoodStays DEF IInv, ReadInv
  <2> QED
    BY <1>1, <2>1 DEF IInv, ReadInv, call
<1>8. SinceInv'
  <2>1. \A j \in PCRs : IsFiniteSet(since'[j])
    <3> TAKE j \in PCRs
    <3>1. since'[j] = since[j] \/ since'[j] = since[j] \cup {p[Bank][i]}
      BY <1>3
    <3>2. IsFiniteSet(since[j] \cup {p[Bank][i]})
      BY <1>2, FS_AddElement
    <3> QED
      BY <3>1, <3>2, <1>2
  <2>2. ASSUME pc = "read" \/ attested # None
        PROVE  Bank \in Hash /\ \A j \in PCRs : p[Bank][j] \in since'[j]
    <3>1. Bank \in Hash /\ \A j \in PCRs : pcr[Bank][j] \in since[j]
      BY <2>2 DEF IInv, SinceInv
    <3>2. p[Bank][i] \in since'[i]
      BY <1>3, <3>1
    <3> QED
      BY <1>3, <3>1, <3>2
  <2> QED
    BY <1>1, <1>3, <2>1, <2>2 DEF SinceInv, call
<1>9. AttestedInv'
  BY <1>1, <1>4, GoodStays DEF IInv, AttestedInv
<1>10. SessionInv'
  <2> SUFFICES ASSUME pc \in {"create", "sign"} PROVE SessionInv'
    BY <1>1 DEF SessionInv, call
  <2>1. Present /\ IsPolicy(session.digest, Bank) /\ session.counter \in 0 .. changes
    BY DEF IInv, SessionInv
  <2>2. changes \in Nat
    BY DEF IInv, Types
  <2>3. session.counter \in 0 .. changes + 1 /\ session.counter # changes + 1
    BY <2>1, <2>2
  <2> QED
    BY <1>1, <2>1, <2>3 DEF SessionInv, Present, call
<1>11. ResultInv'
  BY <1>1, <1>4, ResultStays DEF IInv
<1> QED
  BY <1>5, <1>6, <1>7, <1>8, <1>9, <1>10, <1>11 DEF IInv

\* The three ways of changing a PCR change that one only.
LEMMA ChangesKeep ==
    ASSUME IInv, NEW i \in PCRs, ExtendPCR(i) \/ Measure(i) \/ ResetPCR(i)
    PROVE  IInv'
<1>1. pcr \in [Hash -> [PCRs -> Nat]]
  BY DEF IInv, Types
<1>2. ASSUME NEW v, \A h \in Hash : v[h] \in Nat,
             Change([h \in Hash |-> [pcr[h] EXCEPT ![i] = v[h]]], i)
      PROVE  IInv'
  <2>1. PICK p : p = [h \in Hash |-> [pcr[h] EXCEPT ![i] = v[h]]]
    OBVIOUS
  <2>2. \A h \in Hash : p[h] = [pcr[h] EXCEPT ![i] = v[h]] /\ pcr[h] \in [PCRs -> Nat]
    BY <1>1, <2>1
  <2>3. \A h \in Hash : p[h] \in [PCRs -> Nat] /\ \A j \in PCRs \ {i} : p[h][j] = pcr[h][j]
    BY <1>2, <2>2
  <2>4. p \in [Hash -> [PCRs -> Nat]]
    BY <2>1, <2>3
  <2> QED
    BY <1>2, <2>1, <2>3, <2>4, ChangeKeeps
<1>3. CASE ExtendPCR(i)
  <2> DEFINE v == [h \in Hash |-> IF h \in Allocated /\ ExtendBank(h) THEN pcr[h][i] + 1 ELSE pcr[h][i]]
  <2>1. \A h \in Hash : v[h] \in Nat
    BY <1>1
  <2>2. Change([h \in Hash |-> [pcr[h] EXCEPT ![i] = v[h]]], i)
    BY <1>3 DEF ExtendPCR
  <2> HIDE DEF v
  <2> QED
    BY <1>2, <2>1, <2>2
<1>4. CASE Measure(i)
  <2> DEFINE v == [h \in Hash |-> IF h \in Allocated THEN pcr[h][i] + 1 ELSE pcr[h][i]]
  <2>1. \A h \in Hash : v[h] \in Nat
    BY <1>1
  <2>2. Change([h \in Hash |-> [pcr[h] EXCEPT ![i] = v[h]]], i)
    BY <1>4 DEF Measure
  <2> HIDE DEF v
  <2> QED
    BY <1>2, <2>1, <2>2
<1>5. CASE ResetPCR(i)
  <2> DEFINE v == [h \in Hash |-> 0]
  <2>1. \A h \in Hash : v[h] \in Nat
    OBVIOUS
  <2>2. Change([h \in Hash |-> [pcr[h] EXCEPT ![i] = v[h]]], i)
    BY <1>5 DEF ResetPCR
  <2> HIDE DEF v
  <2> QED
    BY <1>2, <2>1, <2>2
<1> QED
  BY <1>3, <1>4, <1>5

-----------------------------------------------------------------------------
(* The theorems.                                                           *)

\* The invariant holds at the start.
LEMMA InitIInv == Init => IInv
<1> SUFFICES ASSUME Init PROVE IInv
  OBVIOUS
<1>1. Types
  <2>1. pcr \in [Hash -> [PCRs -> Nat]] /\ changes \in 0 .. MaxChanges
    BY PcrWorld DEF Init
  <2> QED
    BY <2>1 DEF Init, Types
<1>2. CallInv /\ ReadInv /\ SessionInv /\ KeyInv /\ AttestedInv
  BY DEF Init, CallInv, ReadInv, SessionInv, KeyInv, AttestedInv
<1>3. SinceInv
  BY FS_EmptySet DEF Init, SinceInv, NoHistory
<1>4. ResultInv
  BY DEF Init, NoResult, ResultInv, ReadResult, QuoteResult, SignIffPolicy, VerifyIffUnchanged
<1> QED
  BY <1>1, <1>2, <1>3, <1>4 DEF IInv

\* Every step keeps the invariant.
LEMMA NextIInv == IInv /\ [Next]_vars => IInv'
<1> SUFFICES ASSUME IInv, [Next]_vars PROVE IInv'
  OBVIOUS
<1>1. ASSUME NEW r \in Requests, ReadPCRs(r) PROVE IInv'
  BY <1>1, ReadBegins
<1>2. ASSUME NEW r \in Requests,
             GenerateSigningKeyWithPolicy(r) \/ SignWithPolicy(r) \/ Quote(r)
      PROVE  IInv'
  BY <1>2, BeginKeeps DEF GenerateSigningKeyWithPolicy, SignWithPolicy, Quote
<1>3. ASSUME NEW r \in Requests, VerifyPolicyDigest(r) PROVE IInv'
  BY <1>3, VerifyKeeps
<1>4. CASE PCRRead
  BY <1>4, PCRReadKeeps
<1>5. CASE PCRPolicy \/ pcrPolicyCallback
  BY <1>5, PolicyPCRKeeps DEF PCRPolicy, pcrPolicyCallback
<1>6. CASE CreateKey
  BY <1>6, CreateKeyKeeps
<1>7. CASE Sign
  BY <1>7, SignKeeps
<1>8. CASE ExecuteQuote
  BY <1>8, QuoteKeeps
<1>9. ASSUME NEW i \in PCRs, ExtendPCR(i) \/ Measure(i) \/ ResetPCR(i) PROVE IInv'
  BY <1>9, ChangesKeep
<1>10. CASE UNCHANGED vars
  <2>1. /\ banks' = banks /\ pcr' = pcr /\ changes' = changes /\ pc' = pc /\ req' = req
        /\ alg' = alg /\ remaining' = remaining /\ values' = values /\ session' = session
        /\ key' = key /\ attested' = attested /\ result' = result /\ since' = since
    BY <1>10 DEF vars, tpm, call
  <2>2. Types' /\ CallInv' /\ ReadInv'
    BY <2>1 DEF IInv, Types, CallInv, ReadInv, Bank
  <2>3. SinceInv' /\ AttestedInv' /\ KeyInv'
    BY <2>1 DEF IInv, SinceInv, AttestedInv, KeyInv, Bank
  <2>4. SessionInv'
    BY <2>1 DEF IInv, SessionInv, Bank, Present, PolicyOf, Current
  <2>5. \A i \in PCRs : since[i] \subseteq since'[i]
    BY <2>1
  <2>6. ResultInv'
    BY <2>1, <2>5, ResultStays DEF IInv
  <2> QED
    BY <2>2, <2>3, <2>4, <2>6 DEF IInv
<1> QED
  BY <1>1, <1>2, <1>3, <1>4, <1>5, <1>6, <1>7, <1>8, <1>9, <1>10 DEF Next, Step

\* The invariant holds in every reachable state.
LEMMA Invariant == Spec => []IInv
BY InitIInv, NextIInv, PTL DEF Spec

\* A ReadPCRs that succeeds has read every PCR it was asked for, once, from the
\* preferred bank, each with a value that the PCR had during the call, however
\* many PCR_Read commands it took: for TPMs that list any banks in any order.
THEOREM EveryPCRIsRead == Spec => []ReadIsComplete
<1>1. IInv => ReadIsComplete
  <2> SUFFICES ASSUME IInv PROVE ReadIsComplete
    OBVIOUS
  <2>1. BankPreferred
    BY ListsPreferred DEF IInv, Types
  <2>2. TypeOK
    BY DEF IInv, Types, CallInv, ReadInv, TypeOK
  <2>3. ASSUME result.kind = "read"
        PROVE  /\ ToSet(result.list) = {result.values[k].index : k \in DOMAIN result.values}
               /\ Len(result.values) = Cardinality(ToSet(result.list))
               /\ \A k \in DOMAIN result.values :
                    result.values[k].value \in since[result.values[k].index]
    BY <2>3 DEF IInv, ResultInv, ReadResult, Good, Indexes
  <2> QED
    BY <2>1, <2>2, <2>3 DEF ReadIsComplete
<1> QED
  BY <1>1, Invariant, PTL

\* SignWithPolicy signs if, and only if, the PCRs have the values that the key
\* is bound to; it may also be refused when a PCR changed during the call.
THEOREM SignatureMeansPolicy == Spec => []SignIffPolicy
<1>1. IInv => SignIffPolicy
  BY DEF IInv, ResultInv
<1> QED
  BY <1>1, Invariant, PTL

\* VerifyPolicyDigest of an ascending list accepts the key's policy if, and only
\* if, the attested values are those the key is bound to.
THEOREM VerificationIsExact == Spec => []VerifyIffUnchanged
<1>1. IInv => VerifyIffUnchanged
  BY DEF IInv, ResultInv
<1> QED
  BY <1>1, Invariant, PTL

\* A quote is of the bank of the PCRs read before it, and of their values unless
\* one of them has changed since that read began.
THEOREM QuoteVouchesForRead == Spec => []QuoteMatchesRead
<1>1. IInv => QuoteMatchesRead
  <2> DEFINE q == result.quote
  <2> SUFFICES ASSUME IInv, result.kind = "quoted", attested # None,
                      q.sel = {attested[k].index : k \in DOMAIN attested},
                      \A i \in q.sel : Cardinality(since[i]) = 1,
                      NEW k \in DOMAIN q.seq
               PROVE  [index |-> Ascending(q.sel)[k], bank |-> q.bank, value |-> q.seq[k]]
                        \in ToSet(attested)
    BY DEF QuoteMatchesRead
  <2> DEFINE i == Ascending(q.sel)[k]
  <2>1. IsPolicy(q, Bank) /\ q.seq[k] \in since[i]
    BY DEF IInv, ResultInv, QuoteResult
  <2>2. q.bank = Bank /\ q.sel \subseteq PCRs /\ k \in 1 .. Cardinality(q.sel)
    <3>1. ASSUME NEW p, NEW b, IsPolicy(p, b)
          PROVE  p.bank = b /\ p.sel \subseteq PCRs /\ DOMAIN p.seq = 1 .. Cardinality(p.sel)
      BY <3>1 DEF IsPolicy
    <3> QED
      BY <2>1, <3>1, Zenon
  <2> HIDE DEF q
  <2>3. i \in q.sel
    BY <2>2, PCRsFinite, AscendingLists
  <2> HIDE DEF i
  <2>4. PICK j \in DOMAIN attested : attested[j].index = i
    BY <2>3
  <2>5. attested[j].bank = Bank /\ attested[j].value \in since[i]
    BY <2>4 DEF IInv, AttestedInv, Good
  <2>6. attested[j].value = q.seq[k]
    <3>1. IsFiniteSet(since[i]) /\ Cardinality(since[i]) = 1
      BY <2>2, <2>3 DEF IInv, SinceInv
    <3>2. PICK x : since[i] = {x}
      BY <3>1, FS_Singleton
    <3> QED
      BY <2>1, <2>5, <3>2
  <2>7. attested[j] \in Reading
    <3>1. attested \in Seq(Reading)
      BY DEF IInv, AttestedInv, Good
    <3> HIDE DEF Reading
    <3> QED
      BY <3>1
  <2>8. attested[j] = [index |-> i, bank |-> q.bank, value |-> q.seq[k]]
    BY <2>2, <2>4, <2>5, <2>6, <2>7 DEF Reading
  <2>9. attested[j] \in ToSet(attested)
    BY DEF ToSet
  <2> QED
    BY <2>8, <2>9 DEF i
<1> QED
  BY <1>1, Invariant, PTL

=============================================================================
