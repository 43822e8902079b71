----------------------------- MODULE BlobProofs -----------------------------
(***************************************************************************)
(* Wrapping and unwrapping implement Vault, and give back what was put     *)
(* away, for data of any length, any segment size and any damage.          *)
(***************************************************************************)
EXTENDS KeyBlobs, FiniteSetTheorems, FunctionTheorems, SequenceTheorems, TLAPS

\* Where the data of the k-th segment begins, and its bytes in the blob.
Ofs(k) == k * MaxSealLength
Start(k) == 1 + 2 * Ofs(k) + 4 * k

\* The first n bytes of m agree with the c bytes of d from o, sealed at p.
SegmentAt(m, n, d, o, c, p) ==
    /\ p <= n => m[p] = c + 1
    /\ p + 1 <= n => m[p + 1] = 1
    /\ \A i \in 1 .. c : p + 1 + i <= n => m[p + 1 + i] = d[o + i]
    /\ p + c + 2 <= n => m[p + c + 2] = c + 1
    /\ p + c + 3 <= n => m[p + c + 3] = 2
    /\ \A i \in 1 .. c : p + c + 3 + i <= n => m[p + c + 3 + i] = d[o + i]

Segment(m, n, d, k) == SegmentAt(m, n, d, Ofs(k), Count(d, Ofs(k)), Start(k) + 1)

Fits(d) == Len(d) <= MaxSealLength * MaxSealCount
WrappedLen(d) == 1 + 2 * Len(d) + 4 * Segments(d)

\* A blob is the beginning of what Wrap or Pack made of its secret, all of it if
\* the blob is intact.
Wrapped(s, d) ==
    /\ s.secret = <<d>> /\ Fits(d)
    /\ s.len <= WrappedLen(d) /\ (s.intact => s.len = WrappedLen(d))
    /\ 1 <= s.len => s.mem[1] = Segments(d)
    /\ \A k \in 0 .. Segments(d) - 1 : Segment(s.mem, s.len, d, k)

Packed(s, b) ==
    /\ s.len <= Len(Pack(b)) /\ (s.intact => s.len = Len(Pack(b)))
    /\ \A i \in 1 .. s.len : s.mem[i] = Pack(b)[i]

PackedImport(s) ==
    \E d \in Data, pcrs \in PCRSets : \E order \in SetToSeqs(pcrs) :
        s.secret = <<d>> /\ Packed(s, ImportBlob(d, pcrs, order))

PackedKey(s) ==
    \E d \in Data : s.secret = <<Public(d), Private(d)>> /\ Packed(s, KeyBlob(d))

Sound(s) ==
    /\ s.kind = "wrap" => \E d \in Data : Wrapped(s, d)
    /\ s.kind = "import" => PackedImport(s)
    /\ s.kind = "key" => PackedKey(s)

\* Wrap has written its first k segments.
Wrapping(k) ==
    /\ call.ofs = (IF Ofs(k) < Len(call.data) THEN Ofs(k) ELSE Len(call.data))
    /\ Len(call.bytes) = 1 + 2 * call.ofs + 4 * k
    /\ call.bytes[1] = Segments(call.data)
    /\ \A j \in 0 .. k - 1 : Segment(call.bytes, Len(call.bytes), call.data, j)

WrapCalls == [op : {"Wrap"}, data : Data, ofs : Nat, bytes : Seq(Bytes)]

WrapInv ==
    /\ call \in WrapCalls /\ Fits(call.data)
    /\ \E k \in 0 .. Segments(call.data) : Wrapping(k)

\* Unwrap has read the first k of the segments.
Unwrapping(k) ==
    /\ call.segments = Segments(stored.secret[1]) - k
    /\ call.ofs = Start(k)
    /\ call.data = SubSeq(stored.secret[1], 1, Ofs(k))

UnwrapCalls == [op : {"Unwrap"}, ofs : Nat, segments : Nat, data : Seq(Bytes)]

UnwrapInv ==
    /\ stored # None /\ stored.kind = "wrap"
    /\ call \in UnwrapCalls
    /\ \E k \in 0 .. Segments(stored.secret[1]) - 1 : Unwrapping(k)

\* An operation that failed, although no command of it did, had a reason to.
Explained ==
    \/ call.op = "Wrap" /\ Len(call.data) > MaxSealLength * MaxSealCount
    \/ call.op = "Unwrap" /\ (~stored.intact \/ stored.secret = <<<<>>>>)
    \/ call.op = "UnwrapImportable" /\ (~stored.intact \/ stored.kind # "import")
    \/ call.op = "ReadKeyParts" /\ (~stored.intact \/ stored.kind # "key")

Reported == pc = "idle" /\ ~faulty /\ result \in {Error, Crash} => Explained

IInv ==
    /\ TypeOK
    /\ Reported
    /\ stored # None => Sound(stored)
    /\ pc = "wrap" => WrapInv
    /\ pc = "unwrap" => UnwrapInv

\* A step of Vault, or none of it.
VaultStep == V!Next \/ UNCHANGED V!vars

-----------------------------------------------------------------------------
(* Segments.                                                               *)

\* Multiples of different numbers.
LEMMA Multiples ==
    ASSUME NEW j \in Nat, NEW k \in Nat, NEW m \in Nat \ {0}
    PROVE  /\ k * m \in Nat /\ (k + 1) * m = k * m + m /\ k <= k * m
           /\ j < k => j * m + m <= k * m
OBVIOUS

\* Offsets grow by a segment at a time.
LEMMA OffsetsGrow ==
    /\ MaxSealLength \in Nat \ {0}
    /\ Ofs(0) = 0
    /\ \A k \in Nat : Ofs(k) \in Nat /\ Ofs(k + 1) = Ofs(k) + MaxSealLength
    /\ \A j, k \in Nat : j < k => Ofs(j) + MaxSealLength <= Ofs(k)
<1>1. MaxSealLength \in Nat \ {0}
  BY BlobsAssumption
<1> QED  BY <1>1, Multiples DEF Ofs

\* Rounding up: the segments are those that begin within the data.
LEMMA Quotient ==
    ASSUME NEW n \in Nat, NEW m \in Nat \ {0}, NEW q, q = (n + m - 1) \div m
    PROVE  q \in Nat /\ q * m <= n + m - 1 /\ n + m - 1 < q * m + m
<1> DEFINE a == n + m - 1
<1>1. a \in Nat
  OBVIOUS
<1>2. ASSUME NEW x \in Nat PROVE x \div m \in Nat /\ x = m * (x \div m) + (x % m) /\ x % m \in 0 .. m - 1
  OBVIOUS
<1>3. q \in Nat /\ a = m * q + (a % m) /\ a % m \in 0 .. m - 1
  BY <1>1, <1>2
<1>4. PICK r \in 0 .. m - 1 : a = m * q + r
  BY <1>3
<1> QED  BY <1>1, <1>3, <1>4

\* A segment begins within the data if and only if it is one of them.
LEMMA SegmentsBegin ==
    ASSUME NEW d \in Seq(Bytes)
    PROVE  /\ Segments(d) \in Nat
           /\ \A k \in Nat : Ofs(k) < Len(d) <=> k < Segments(d)
<1> DEFINE n == Len(d)
           m == MaxSealLength
<1>1. n \in Nat /\ m \in Nat \ {0}
  BY BlobsAssumption
<1>2. PICK q : q = Segments(d)
  OBVIOUS
<1>3. q \in Nat /\ Ofs(q) <= n + m - 1 /\ n + m - 1 < Ofs(q) + m
  BY <1>1, <1>2, Quotient DEF Segments, Ofs
<1>4. ASSUME NEW k \in Nat PROVE Ofs(k) < n <=> k < q
  <2>1. Ofs(k) \in Nat /\ Ofs(q) \in Nat /\ (k < q => Ofs(k) + m <= Ofs(q)) /\ (q < k => Ofs(q) + m <= Ofs(k))
    BY <1>3, OffsetsGrow
  <2> QED  BY <1>1, <1>3, <2>1
<1> QED  BY <1>2, <1>3, <1>4

\* The number of segments of data that fits is that of a byte that Unwrap takes,
\* and zero for nothing only.
LEMMA SegmentsFit ==
    ASSUME NEW d \in Seq(Bytes), Fits(d)
    PROVE  /\ Segments(d) \in 0 .. MaxSealCount
           /\ Byte(Segments(d)) = Segments(d) /\ Segments(d) \in Bytes
           /\ Segments(d) = 0 <=> d = <<>>
<1>1. Segments(d) \in Nat /\ \A k \in Nat : Ofs(k) < Len(d) <=> k < Segments(d)
  BY SegmentsBegin
<1>2. MaxSealCount \in Nat /\ MaxSealCount < Base /\ Base \in Nat /\ Len(d) \in Nat
  BY BlobsAssumption
<1>3. Ofs(MaxSealCount) = MaxSealLength * MaxSealCount
  BY BlobsAssumption DEF Ofs
<1>4. Segments(d) \in 0 .. MaxSealCount
  <2>1. ~(Ofs(MaxSealCount) < Len(d))
    BY <1>2, <1>3, OffsetsGrow DEF Fits
  <2> QED  BY <1>1, <1>2, <2>1
<1>5. Byte(Segments(d)) = Segments(d) /\ Segments(d) \in Bytes
  BY <1>2, <1>4 DEF Byte, Bytes
<1>6. Segments(d) = 0 <=> Len(d) = 0
  <2>1. 0 < Len(d) <=> 0 < Segments(d)
    BY <1>1, OffsetsGrow
  <2> QED  BY <1>1, <1>2, <2>1
<1> QED  BY <1>4, <1>5, <1>6

\* The length of a segment's data.
LEMMA Counts ==
    ASSUME NEW d \in Seq(Bytes), NEW k \in Nat, k < Segments(d)
    PROVE  /\ Count(d, Ofs(k)) \in 1 .. MaxSealLength
           /\ Ofs(k) + Count(d, Ofs(k)) <= Len(d)
           /\ Ofs(k) + Count(d, Ofs(k)) = IF Ofs(k + 1) < Len(d) THEN Ofs(k + 1) ELSE Len(d)
           /\ k + 1 < Segments(d) => Count(d, Ofs(k)) = MaxSealLength
           /\ k + 1 = Segments(d) => Ofs(k) + Count(d, Ofs(k)) = Len(d)
<1>1. Segments(d) \in Nat /\ Ofs(k) < Len(d) /\ (Ofs(k + 1) < Len(d) <=> k + 1 < Segments(d))
  BY SegmentsBegin
<1>2. Ofs(k) \in Nat /\ Ofs(k + 1) = Ofs(k) + MaxSealLength /\ MaxSealLength \in Nat \ {0} /\ Len(d) \in Nat
  BY OffsetsGrow, BlobsAssumption
<1> QED  BY <1>1, <1>2 DEF Count

-----------------------------------------------------------------------------
(* Wrap.                                                                   *)

\* The elements of a concatenation.
LEMMA Concat ==
    ASSUME NEW S, NEW s \in Seq(S), NEW t \in Seq(S), NEW r, r = s \o t
    PROVE  /\ r \in Seq(S) /\ Len(r) = Len(s) + Len(t)
           /\ \A i \in 1 .. Len(s) : r[i] = s[i]
           /\ \A i \in 1 .. Len(t) : r[Len(s) + i] = t[i]
<1>1. PICK m \in Nat : m = Len(s)
  OBVIOUS
<1>2. PICK n \in Nat : n = Len(t)
  OBVIOUS
<1>3. /\ r \in Seq(S) /\ Len(r) = m + n
      /\ \A i \in 1 .. m + n : r[i] = IF i <= m THEN s[i] ELSE t[i - m]
  BY <1>1, <1>2, ConcatProperties
<1>4. ASSUME NEW i \in 1 .. m PROVE r[i] = s[i]
  BY <1>3
<1>5. ASSUME NEW i \in 1 .. n PROVE r[m + i] = t[i]
  <2>1. m + i \in 1 .. m + n /\ ~(m + i <= m) /\ (m + i) - m = i
    OBVIOUS
  <2> QED  BY <1>3, <2>1
<1> QED  BY <1>1, <1>2, <1>3, <1>4, <1>5

\* Sequences with the same elements are the same.
LEMMA SameElements ==
    ASSUME NEW S, NEW s \in Seq(S), NEW t \in Seq(S), Len(s) = Len(t),
           \A i \in 1 .. Len(t) : s[i] = t[i]
    PROVE  s = t
BY SeqEqual

\* A byte before a sequence.
LEMMA Prepend ==
    ASSUME NEW b \in Bytes, NEW h, h = <<b>>, NEW d \in Seq(Bytes), NEW u, u = h \o d
    PROVE  /\ u \in Seq(Bytes) /\ Len(u) = Len(d) + 1
           /\ u[1] = b /\ \A i \in 1 .. Len(d) : u[i + 1] = d[i]
OBVIOUS

\* What follows it.
LEMMA PrependTail ==
    ASSUME NEW b \in Bytes, NEW h, h = <<b>>, NEW d \in Seq(Bytes), NEW u, u = h \o d
    PROVE  Tail(u) = d /\ u # <<>>
<1>1. PICK n \in Nat : n = Len(d)
  OBVIOUS
<1>2. u \in Seq(Bytes) /\ Len(u) = n + 1 /\ \A i \in 1 .. n : u[i + 1] = d[i]
  BY <1>1, Prepend
<1>3. u # <<>> /\ Tail(u) \in Seq(Bytes) /\ Len(Tail(u)) = n /\ \A i \in 1 .. n : Tail(u)[i] = u[i + 1]
  BY <1>2
<1> QED  BY <1>1, <1>2, <1>3, SameElements

\* The tags of the parts, and the byte values that blobs are made of.
LEMMA Tags == {0, 1, 2, 3, 4, 6} \subseteq Bytes /\ Base \in Nat /\ Base > 6
BY BlobsAssumption DEF Bytes

\* The field of a part.
LEMMA FieldOf ==
    ASSUME NEW b \in Bytes, NEW d \in Seq(Bytes), Len(d) <= MaxSealLength,
           NEW f, f = Field(<<b>> \o d)
    PROVE  /\ f \in Seq(Bytes) /\ Len(f) = Len(d) + 2
           /\ f[1] = Len(d) + 1 /\ f[2] = b /\ \A i \in 1 .. Len(d) : f[i + 2] = d[i]
<1>0. PICK h : h = <<b>>
  OBVIOUS
<1>1. PICK u : u = h \o d
  OBVIOUS
<1>2. PICK n \in Nat : n = Len(d)
  OBVIOUS
<1>3. u \in Seq(Bytes) /\ Len(u) = n + 1 /\ u[1] = b /\ \A i \in 1 .. n : u[i + 1] = d[i]
  BY <1>0, <1>1, <1>2, Prepend
<1>4. (n + 1) % Base = n + 1 /\ n + 1 \in 0 .. Base - 1
  BY <1>2, BlobsAssumption
<1>5. PICK x \in Bytes : x = n + 1 /\ x = Byte(Len(u))
  BY <1>3, <1>4 DEF Byte, Bytes
<1>6. f \in Seq(Bytes) /\ Len(f) = Len(u) + 1 /\ f[1] = x /\ \A i \in 1 .. Len(u) : f[i + 1] = u[i]
  <2>1. f = <<x>> \o u
    BY <1>0, <1>1, <1>5 DEF Field
  <2>2. u \in Seq(Bytes)
    BY <1>3
  <2>3. x \in Bytes
    BY <1>5
  <2>4. PICK k : k = <<x>>
    OBVIOUS
  <2>5. f = k \o u
    BY <2>1, <2>4
  <2>6. f \in Seq(Bytes)
    BY <2>2, <2>3, <2>4, <2>5, Prepend, ZenonT(30)
  <2>7. Len(f) = Len(u) + 1
    BY <2>2, <2>3, <2>4, <2>5, Prepend
  <2>8. f[1] = x
    BY <2>2, <2>4, <2>5
  <2>9. \A i \in 1 .. Len(u) : f[i + 1] = u[i]
    BY <2>2, <2>3, <2>4, <2>5, Prepend
  <2> QED  BY <2>6, <2>7, <2>8, <2>9
<1>7. f[2] = b
  <2>1. 1 \in 1 .. Len(u) /\ 1 + 1 = 2
    BY <1>3
  <2>2. f[1 + 1] = u[1]
    BY <1>6, <2>1
  <2> QED  BY <1>3, <2>1, <2>2
<1>8. ASSUME NEW i \in 1 .. n PROVE f[i + 2] = d[i]
  <2>1. i + 1 \in 1 .. Len(u) /\ (i + 1) + 1 = i + 2
    BY <1>3
  <2>2. f[(i + 1) + 1] = u[i + 1]
    BY <1>6, <2>1
  <2> QED  BY <1>3, <2>1, <2>2
<1> QED  BY <1>2, <1>3, <1>5, <1>6, <1>7, <1>8, SMTT(20)

\* What a chunk d of c bytes adds to the n bytes x of wrapped data.
WithChunk(y, x, n, d, c) ==
    /\ y \in Seq(Bytes) /\ Len(y) = n + 2 * c + 4
    /\ \A i \in 1 .. n : y[i] = x[i]
    /\ y[n + 1] = c + 1 /\ y[n + 2] = 1
    /\ \A i \in 1 .. c : y[n + 2 + i] = d[i]
    /\ y[n + c + 3] = c + 1 /\ y[n + c + 4] = 2
    /\ \A i \in 1 .. c : y[n + c + 4 + i] = d[i]

\* That is what its two fields add.
LEMMA Sealed ==
    ASSUME NEW x \in Seq(Bytes), NEW d \in Seq(Bytes), Len(d) <= MaxSealLength,
           NEW y, y = x \o Field(Private(d)) \o Field(Public(d)),
           NEW n, n = Len(x), NEW c, c = Len(d)
    PROVE  WithChunk(y, x, n, d, c)
<1>0. n \in Nat /\ c \in Nat
  OBVIOUS
<1>1. PICK f : f = Field(Private(d))
  OBVIOUS
<1>2. PICK g : g = Field(Public(d))
  OBVIOUS
<1>3. /\ f \in Seq(Bytes) /\ Len(f) = c + 2
      /\ f[1] = c + 1 /\ f[2] = 1 /\ \A i \in 1 .. c : f[i + 2] = d[i]
  BY <1>1, FieldOf, Tags DEF Private
<1>4. /\ g \in Seq(Bytes) /\ Len(g) = c + 2
      /\ g[1] = c + 1 /\ g[2] = 2 /\ \A i \in 1 .. c : g[i + 2] = d[i]
  BY <1>2, FieldOf, Tags DEF Public
<1>5. PICK z : z = x \o f
  OBVIOUS
<1>6. /\ z \in Seq(Bytes) /\ Len(z) = n + (c + 2)
      /\ \A i \in 1 .. n : z[i] = x[i]
      /\ \A i \in 1 .. c + 2 : z[n + i] = f[i]
  <2>1. /\ z \in Seq(Bytes) /\ Len(z) = Len(x) + Len(f)
        /\ \A i \in 1 .. Len(x) : z[i] = x[i]
        /\ \A i \in 1 .. Len(f) : z[Len(x) + i] = f[i]
    <3>1. f \in Seq(Bytes)
      BY <1>3
    <3> QED  BY <1>5, <3>1, Concat
  <2> QED  BY <1>3, <2>1
<1>7. y = z \o g
  BY <1>1, <1>2, <1>5
<1>8. /\ y \in Seq(Bytes) /\ Len(y) = (n + (c + 2)) + (c + 2)
      /\ \A i \in 1 .. n + (c + 2) : y[i] = z[i]
      /\ \A i \in 1 .. c + 2 : y[(n + (c + 2)) + i] = g[i]
  <2>1. /\ y \in Seq(Bytes) /\ Len(y) = Len(z) + Len(g)
        /\ \A i \in 1 .. Len(z) : y[i] = z[i]
        /\ \A i \in 1 .. Len(g) : y[Len(z) + i] = g[i]
    <3>1. z \in Seq(Bytes) /\ g \in Seq(Bytes)
      BY <1>4, <1>6
    <3> QED  BY <1>7, <3>1, Concat
  <2> QED  BY <1>4, <1>6, <2>1
<1>9. ASSUME NEW i \in 1 .. n PROVE y[i] = x[i]
  <2>1. i \in 1 .. n + (c + 2)
    BY <1>0
  <2> QED  BY <1>6, <1>8, <2>1
<1>10. y[n + 1] = c + 1 /\ y[n + 2] = 1
  <2>1. 1 \in 1 .. c + 2 /\ 2 \in 1 .. c + 2 /\ n + 1 \in 1 .. n + (c + 2) /\ n + 2 \in 1 .. n + (c + 2)
    BY <1>0
  <2>2. y[n + 1] = f[1] /\ y[n + 2] = f[2]
    BY <1>6, <1>8, <2>1
  <2> QED  BY <1>3, <2>2
<1>11. y[n + c + 3] = c + 1 /\ y[n + c + 4] = 2
  <2>1. 1 \in 1 .. c + 2 /\ 2 \in 1 .. c + 2 /\ (n + (c + 2)) + 1 = n + c + 3 /\ (n + (c + 2)) + 2 = n + c + 4
    BY <1>0
  <2>2. y[(n + (c + 2)) + 1] = g[1] /\ y[(n + (c + 2)) + 2] = g[2]
    BY <1>8, <2>1
  <2> QED  BY <1>4, <2>1, <2>2
<1>12. ASSUME NEW i \in 1 .. c PROVE y[n + 2 + i] = d[i] /\ y[n + c + 4 + i] = d[i]
  <2>1. /\ i + 2 \in 1 .. c + 2 /\ n + (i + 2) \in 1 .. n + (c + 2)
        /\ n + (i + 2) = n + 2 + i /\ (n + (c + 2)) + (i + 2) = n + c + 4 + i
    BY <1>0
  <2>2. y[n + (i + 2)] = f[i + 2] /\ y[(n + (c + 2)) + (i + 2)] = g[i + 2]
    BY <1>6, <1>8, <2>1
  <2> QED  BY <1>3, <1>4, <2>1, <2>2
<1>13. Len(y) = n + 2 * c + 4
  BY <1>0, <1>8
<1> QED  BY <1>8, <1>9, <1>10, <1>11, <1>12, <1>13 DEF WithChunk

\* A segment stays one when something is written behind it.
LEMMA SegmentKept ==
    ASSUME NEW m, NEW w, NEW n \in Nat, NEW l \in Nat, NEW d, NEW o \in Nat, NEW c \in Nat, NEW p \in Nat \ {0},
           SegmentAt(m, n, d, o, c, p), p + 3 + 2 * c <= n,
           \A i \in 1 .. n : w[i] = m[i]
    PROVE  SegmentAt(w, l, d, o, c, p)
<1> USE DEF SegmentAt
<1>1. p <= l => w[p] = c + 1
  OBVIOUS
<1>2. p + 1 <= l => w[p + 1] = 1
  OBVIOUS
<1>3. ASSUME NEW i \in 1 .. c, p + 1 + i <= l PROVE w[p + 1 + i] = d[o + i]
  BY <1>3
<1>4. p + c + 2 <= l => w[p + c + 2] = c + 1
  OBVIOUS
<1>5. p + c + 3 <= l => w[p + c + 3] = 2
  OBVIOUS
<1>6. ASSUME NEW i \in 1 .. c, p + c + 3 + i <= l PROVE w[p + c + 3 + i] = d[o + i]
  BY <1>6
<1> QED  BY <1>1, <1>2, <1>3, <1>4, <1>5, <1>6

\* The place of a segment, and its end.
LEMMA Starts ==
    /\ Start(0) = 1
    /\ \A k \in Nat : Start(k) \in Nat \ {0} /\ Start(k + 1) = Start(k) + 2 * MaxSealLength + 4
    /\ \A j, k \in Nat : j < k => Start(j) + 2 * MaxSealLength + 4 <= Start(k)
<1>1. Start(0) = 1
  BY OffsetsGrow DEF Start
<1>2. ASSUME NEW k \in Nat PROVE Start(k) \in Nat \ {0} /\ Start(k + 1) = Start(k) + 2 * MaxSealLength + 4
  <2>1. Ofs(k) \in Nat /\ Ofs(k + 1) = Ofs(k) + MaxSealLength /\ MaxSealLength \in Nat
    BY OffsetsGrow
  <2> QED  BY <2>1 DEF Start
<1>3. ASSUME NEW j \in Nat, NEW k \in Nat, j < k PROVE Start(j) + 2 * MaxSealLength + 4 <= Start(k)
  <2>1. /\ Ofs(j) \in Nat /\ Ofs(k) \in Nat /\ MaxSealLength \in Nat
        /\ Ofs(j) + MaxSealLength <= Ofs(k)
    BY <1>3, OffsetsGrow
  <2> QED  BY <1>3, <2>1 DEF Start
<1> QED  BY <1>1, <1>2, <1>3

\* The data of a segment.
LEMMA Chunk ==
    ASSUME NEW d \in Seq(Bytes), NEW o \in Nat, NEW c \in Nat, o + c <= Len(d),
           NEW e, e = SubSeq(d, o + 1, o + c)
    PROVE  /\ e \in Seq(Bytes) /\ Len(e) = c
           /\ \A i \in 1 .. c : e[i] = d[o + i]
OBVIOUS

\* The segments before the k-th one end where it starts.
LEMMA EarlierSegment ==
    ASSUME NEW d \in Seq(Bytes), NEW k \in Nat, k < Segments(d), NEW j \in 0 .. k - 1,
           NEW x, NEW y, NEW l \in Nat, Segment(x, Start(k), d, j),
           \A i \in 1 .. Start(k) : y[i] = x[i]
    PROVE  Segment(y, l, d, j)
<1>1. Segments(d) \in Nat
  BY SegmentsBegin
<1>2. j \in Nat /\ j < k /\ j + 1 < Segments(d) /\ j < Segments(d)
  BY <1>1
<1>3. Count(d, Ofs(j)) = MaxSealLength
  BY <1>2, Counts
<1>4. PICK n \in Nat : n = Start(k)
  BY Starts
<1>5. PICK o \in Nat : o = Ofs(j)
  BY <1>2, OffsetsGrow
<1>6. PICK p \in Nat : p = Start(j)
  BY <1>2, Starts
<1>7. PICK m \in Nat : m = MaxSealLength
  BY OffsetsGrow
<1>8. p + 2 * m + 4 <= n
  BY <1>2, <1>4, <1>6, <1>7, Starts
<1>9. SegmentAt(x, n, d, o, m, p + 1) /\ \A i \in 1 .. n : y[i] = x[i]
  BY <1>3, <1>4, <1>5, <1>6, <1>7 DEF Segment
<1>10. p + 1 \in Nat \ {0} /\ (p + 1) + 3 + 2 * m <= n
  BY <1>8
<1>11. SegmentAt(y, l, d, o, m, p + 1)
  BY <1>9, <1>10, SegmentKept
<1> QED  BY <1>3, <1>5, <1>6, <1>7, <1>11 DEF Segment

\* A segment that has just been written.
LEMMA NewSegment ==
    ASSUME NEW y, NEW x, NEW n \in Nat, NEW c \in Nat, NEW o \in Nat, NEW e, NEW d, NEW l \in Nat,
           WithChunk(y, x, n, e, c), \A i \in 1 .. c : e[i] = d[o + i]
    PROVE  SegmentAt(y, l, d, o, c, n + 1)
<1>1. y[n + 1] = c + 1 /\ y[n + 1 + 1] = 1 /\ y[n + 1 + c + 2] = c + 1 /\ y[n + 1 + c + 3] = 2
  <2>1. n + 1 + 1 = n + 2 /\ n + 1 + c + 2 = n + c + 3 /\ n + 1 + c + 3 = n + c + 4
    OBVIOUS
  <2> QED  BY <2>1 DEF WithChunk
<1>2. ASSUME NEW i \in 1 .. c PROVE y[n + 1 + 1 + i] = d[o + i] /\ y[n + 1 + c + 3 + i] = d[o + i]
  <2>1. n + 1 + 1 + i = n + 2 + i /\ n + 1 + c + 3 + i = n + c + 4 + i
    OBVIOUS
  <2>2. y[n + 2 + i] = e[i] /\ y[n + c + 4 + i] = e[i] /\ e[i] = d[o + i]
    BY DEF WithChunk
  <2> QED  BY <2>1, <2>2
<1> QED  BY <1>1, <1>2 DEF SegmentAt

\* Wrapped data x with one more segment, of c bytes.
WithSegment(y, x, d, k, c) ==
    /\ y \in Seq(Bytes) /\ Len(y) = Start(k) + 2 * c + 4
    /\ y[1] = x[1]
    /\ \A j \in 0 .. k : Segment(y, Len(y), d, j)

\* Sealing one more segment.
LEMMA NextSegment ==
    ASSUME NEW d \in Seq(Bytes), NEW k \in Nat, k < Segments(d),
           NEW x \in Seq(Bytes), NEW c, NEW e, NEW y
    PROVE  /\ Len(x) = Start(k) /\ \A j \in 0 .. k - 1 : Segment(x, Len(x), d, j)
           /\ c = Count(d, Ofs(k)) /\ e = SubSeq(d, Ofs(k) + 1, Ofs(k) + c)
           /\ y = x \o Field(Private(e)) \o Field(Public(e))
           => WithSegment(y, x, d, k, c)
<1>0. SUFFICES ASSUME /\ Len(x) = Start(k) /\ \A j \in 0 .. k - 1 : Segment(x, Len(x), d, j)
                      /\ c = Count(d, Ofs(k)) /\ e = SubSeq(d, Ofs(k) + 1, Ofs(k) + c)
                      /\ y = x \o Field(Private(e)) \o Field(Public(e))
               PROVE  WithSegment(y, x, d, k, c)
  OBVIOUS
<1>1. PICK o \in Nat : o = Ofs(k)
  BY OffsetsGrow
<1>2. PICK n \in Nat \ {0} : n = Start(k)
  BY Starts
<1>3. c \in 1 .. MaxSealLength /\ o + c <= Len(d)
  BY <1>0, <1>1, Counts
<1>4. MaxSealLength \in Nat /\ c \in Nat /\ c <= MaxSealLength
  BY <1>3, OffsetsGrow
<1>5. e \in Seq(Bytes) /\ Len(e) = c /\ \A i \in 1 .. c : e[i] = d[o + i]
  <2>1. e = SubSeq(d, o + 1, o + c) /\ o + c <= Len(d) /\ c \in Nat
    BY <1>0, <1>1, <1>3, <1>4
  <2> QED  BY <2>1, Chunk, SMTT(20)
<1>6. n = Len(x) /\ c = Len(e) /\ e \in Seq(Bytes) /\ Len(e) <= MaxSealLength
  BY <1>0, <1>2, <1>4, <1>5
<1>7. WithChunk(y, x, n, e, c)
  <2>1. y = x \o Field(Private(e)) \o Field(Public(e))
    BY <1>0
  <2> QED  BY <1>6, <2>1, Sealed
<1>7a. y \in Seq(Bytes) /\ Len(y) = n + 2 * c + 4 /\ \A i \in 1 .. n : y[i] = x[i]
  BY <1>7 DEF WithChunk
<1>8. Len(y) = n + 2 * c + 4 /\ Len(y) \in Nat /\ y[1] = x[1]
  <2>1. Len(y) = n + 2 * c + 4 /\ 1 \in 1 .. n
    BY <1>7a
  <2>2. y[1] = x[1]
    BY <1>7a, <2>1
  <2> QED  BY <1>4, <2>1, <2>2
<1>9. Segment(y, Len(y), d, k)
  <2>1. SegmentAt(y, Len(y), d, o, c, n + 1)
    BY <1>4, <1>5, <1>7, <1>8, NewSegment
  <2> QED  BY <1>0, <1>1, <1>2, <2>1 DEF Segment
<1>10. ASSUME NEW j \in 0 .. k - 1 PROVE Segment(y, Len(y), d, j)
  <2>1. Segment(x, Start(k), d, j) /\ Len(y) \in Nat
    BY <1>0, <1>8
  <2>2. \A i \in 1 .. Start(k) : y[i] = x[i]
    BY <1>2, <1>7a
  <2> QED  BY <2>1, <2>2, EarlierSegment
<1>11. \A j \in 0 .. k : j \in 0 .. k - 1 \/ j = k
  OBVIOUS
<1> QED  BY <1>2, <1>7a, <1>8, <1>9, <1>10, <1>11 DEF WithSegment

-----------------------------------------------------------------------------
(* What operations do to the invariant and to the vault, in general.       *)

\* A blob has the fields of one, and is not None.
LEMMA BlobFields ==
    ASSUME NEW s \in Blobs
    PROVE  /\ s # None /\ s.secret # None /\ s.kind \in {"wrap", "import", "key"} /\ s.intact \in BOOLEAN
           /\ s.secret \in Seq(Seq(Bytes)) /\ s.mem \in Seq(Bytes) /\ s.len \in Nat
<1>1. s.secret \in Seq(Seq(Bytes)) /\ s # None
  BY OutcomesDiffer DEF Blobs
<1> QED  BY <1>1, OutcomesDiffer DEF Blobs

\* An operation that ends without changing what is kept.
LEMMA EndKeeps ==
    ASSUME IInv, stored' = stored, pc' = "idle", faulty' \in BOOLEAN, Reported'
    PROVE  IInv'
BY DEF IInv, TypeOK

\* An operation that puts a blob away.
LEMMA KeepKeeps ==
    ASSUME stored' \in Blobs, stored'.len <= Len(stored'.mem), Sound(stored'),
           pc' = "idle", result' = None, faulty' \in BOOLEAN
    PROVE  IInv'
<1>1. TypeOK'
  BY DEF TypeOK
<1>2. Reported'
  BY OutcomesDiffer DEF Reported
<1> QED  BY <1>1, <1>2 DEF IInv

\* To end is a step of Vault if the outcome is an error, the secret, or a crash
\* over a damaged copy.
LEMMA VaultEnd ==
    ASSUME TypeOK, stored' = stored,
           \/ result' = Error
           \/ stored # None /\ result' = stored.secret
           \/ stored # None /\ ~stored.intact /\ result' = Crash
    PROVE  VaultStep
<1>1. stored # None => stored.secret # None
  BY BlobFields DEF TypeOK
<1>2. V!End
  BY <1>1 DEF V!End
<1> QED  BY <1>2 DEF VaultStep, V!Next

\* To begin is one.
LEMMA VaultBegin == ASSUME stored' = stored, result' = None PROVE VaultStep
BY DEF VaultStep, V!Next, V!Begin

\* To put a secret away is one.
LEMMA VaultPut ==
    ASSUME stored' \in Blobs, stored'.intact = TRUE, result' = None,
           \/ \E d \in Data : stored'.secret = <<d>>
           \/ \E d \in Data : stored'.secret = <<Public(d), Private(d)>>
    PROVE  VaultStep
<1>1. stored' # None
  BY BlobFields
<1>2. \E s \in {<<d>> : d \in Data} \cup {<<Public(d), Private(d)>> : d \in Data} : V!Put(s)
  BY <1>1 DEF V!Put
<1> QED  BY <1>2 DEF VaultStep, V!Next

\* To damage the copy is one.
LEMMA VaultDamage ==
    ASSUME stored \in Blobs, stored' \in Blobs, stored'.secret = stored.secret, stored'.intact = FALSE,
           result' = result
    PROVE  VaultStep
<1>1. stored # None /\ stored' # None /\ stored.secret # None
  BY BlobFields
<1>2. V!Damage
  BY <1>1 DEF V!Damage
<1> QED  BY <1>2 DEF VaultStep, V!Next

-----------------------------------------------------------------------------
(* Wrap, Seal and WrapDone.                                                *)

\* A byte sequence of one.
LEMMA OneByte ==
    ASSUME NEW b \in Bytes
    PROVE  <<b>> \in Seq(Bytes) /\ Len(<<b>>) = 1 /\ <<b>>[1] = b
OBVIOUS

\* Wrap starts with the number of the segments, or refuses.
LEMMA WrapKeeps == ASSUME IInv, NEW d \in Data, Wrap(d) PROVE IInv' /\ VaultStep
<1>0. stored' = stored /\ faulty' = FALSE
  BY DEF Wrap, Begin, End
<1>d. d \in Seq(Bytes)
  BY BlobsAssumption
<1>t. TypeOK
  BY DEF IInv
<1>1. CASE TooMuch(d)
  <2>1. /\ pc' = "idle" /\ result' = Error
        /\ call' = [op |-> "Wrap", data |-> d, ofs |-> 0, bytes |-> <<Byte(Segments(d))>>]
    BY <1>1 DEF Wrap, Begin, End
  <2>2. Len(d) > MaxSealLength * MaxSealCount
    BY <1>1 DEF TooMuch
  <2>3. call'.op = "Wrap" /\ call'.data = d
    BY <2>1
  <2>4. Reported'
    BY <2>2, <2>3 DEF Reported, Explained
  <2> QED  BY <1>0, <1>t, <2>1, <2>4, EndKeeps, VaultEnd
<1>2. CASE ~TooMuch(d)
  <2>1. /\ pc' = "wrap" /\ result' = None
        /\ call' = [op |-> "Wrap", data |-> d, ofs |-> 0, bytes |-> <<Byte(Segments(d))>>]
    BY <1>2 DEF Wrap, Begin, End
  <2>2. Fits(d)
    BY <1>2, <1>d, BlobsAssumption DEF TooMuch, Fits
  <2>3. Segments(d) \in Nat /\ Byte(Segments(d)) = Segments(d) /\ Segments(d) \in Bytes
    BY <1>d, <2>2, SegmentsFit
  <2>4. PICK b : b = <<Segments(d)>>
    OBVIOUS
  <2>5. b \in Seq(Bytes) /\ Len(b) = 1 /\ b[1] = Segments(d)
    BY <2>3, <2>4, OneByte
  <2>6. call'.op = "Wrap" /\ call'.data = d /\ call'.ofs = 0 /\ call'.bytes = b
    BY <2>1, <2>3, <2>4
  <2>7. call' \in WrapCalls
    BY <2>1, <2>3, <2>4, <2>5 DEF WrapCalls
  <2>8. Wrapping(0)'
    <3>1. Ofs(0) = 0 /\ Len(d) \in Nat
      BY <1>d, OffsetsGrow
    <3>2. (IF Ofs(0) < Len(d) THEN Ofs(0) ELSE Len(d)) = 0
      BY <3>1
    <3>3. 0 .. 0 - 1 = {}
      OBVIOUS
    <3> QED  BY <2>5, <2>6, <3>2, <3>3 DEF Wrapping
  <2>9. WrapInv'
    <3>1. 0 \in 0 .. Segments(d)
      BY <2>3
    <3> QED  BY <2>2, <2>6, <2>7, <2>8, <3>1 DEF WrapInv
  <2>10. TypeOK' /\ Reported'
    BY <1>0, <1>t, <2>1 DEF TypeOK, Reported
  <2>11. IInv'
    BY <1>0, <2>1, <2>9, <2>10 DEF IInv
  <2> QED  BY <1>0, <2>1, <2>11, VaultBegin
<1> QED  BY <1>1, <1>2

\* What Wrap has written, and how far it is.
LEMMA WrapState ==
    ASSUME WrapInv
    PROVE  \E d \in Data, k \in Nat :
              /\ d = call.data /\ d \in Seq(Bytes) /\ Fits(d) /\ call.op = "Wrap"
              /\ Segments(d) \in Nat /\ k <= Segments(d) /\ Wrapping(k)
              /\ call.bytes \in Seq(Bytes) /\ call.ofs \in Nat
              /\ call.ofs < Len(d) => k < Segments(d) /\ call.ofs = Ofs(k) /\ Len(call.bytes) = Start(k)
              /\ call.ofs >= Len(d) => k = Segments(d) /\ call.ofs = Len(d)
<1>1. PICK d \in Data : d = call.data /\ Fits(d)
  BY DEF WrapInv, WrapCalls
<1>2. d \in Seq(Bytes)
  BY BlobsAssumption
<1>3. call.bytes \in Seq(Bytes) /\ call.ofs \in Nat /\ call.op = "Wrap"
  BY DEF WrapInv, WrapCalls
<1>4. Segments(d) \in Nat /\ \A k \in Nat : Ofs(k) < Len(d) <=> k < Segments(d)
  BY <1>2, SegmentsBegin
<1>5. PICK k \in Nat : k <= Segments(d) /\ Wrapping(k)
  BY <1>1, <1>4 DEF WrapInv
<1>6. PICK l \in Nat : l = Len(d)
  BY <1>2
<1>7. PICK o \in Nat : o = Ofs(k)
  BY OffsetsGrow
<1>8. (o < l <=> k < Segments(d)) /\ call.ofs = (IF o < l THEN o ELSE l)
  BY <1>1, <1>4, <1>5, <1>6, <1>7 DEF Wrapping
<1>9. Len(call.bytes) = 1 + 2 * call.ofs + 4 * k /\ Start(k) = 1 + 2 * o + 4 * k
  BY <1>5, <1>7 DEF Wrapping, Start
<1>10. call.ofs < l => k < Segments(d) /\ call.ofs = o /\ Len(call.bytes) = Start(k)
  BY <1>8, <1>9
<1>11. call.ofs >= l => k = Segments(d) /\ call.ofs = l
  BY <1>4, <1>5, <1>8
<1> QED  BY <1>1, <1>2, <1>3, <1>4, <1>5, <1>6, <1>7, <1>10, <1>11

\* Seal adds the next segment, or the command fails.
LEMMA SealKeeps == ASSUME IInv, Seal PROVE IInv' /\ VaultStep
<1>0. WrapInv /\ TypeOK /\ call.ofs < Len(call.data) /\ pc = "wrap"
  BY DEF IInv, Seal
<1>1. CASE End(Error) /\ faulty' = TRUE
  <2>1. stored' = stored /\ pc' = "idle" /\ result' = Error
    BY <1>1 DEF End
  <2>2. Reported'
    BY <1>1 DEF Reported
  <2> QED  BY <1>0, <1>1, <2>1, <2>2, EndKeeps, VaultEnd
<1>2. CASE ~(End(Error) /\ faulty' = TRUE)
  <2>1. PICK d \in Data, k \in Nat :
              /\ d = call.data /\ d \in Seq(Bytes) /\ Fits(d) /\ call.op = "Wrap"
              /\ Segments(d) \in Nat /\ k <= Segments(d) /\ Wrapping(k)
              /\ call.bytes \in Seq(Bytes) /\ call.ofs \in Nat
              /\ call.ofs < Len(d) => k < Segments(d) /\ call.ofs = Ofs(k) /\ Len(call.bytes) = Start(k)
    BY <1>0, WrapState
  <2>2. k < Segments(d) /\ call.ofs = Ofs(k) /\ Len(call.bytes) = Start(k)
    BY <1>0, <2>1
  <2>3. PICK c : c = Count(d, Ofs(k))
    OBVIOUS
  <2>4. PICK e : e = SubSeq(d, Ofs(k) + 1, Ofs(k) + c)
    OBVIOUS
  <2>5. PICK x \in Seq(Bytes) : x = call.bytes
    BY <2>1
  <2>6. PICK y : y = x \o Field(Private(e)) \o Field(Public(e))
    OBVIOUS
  <2>7. UNCHANGED <<stored, pc, faulty, result>> /\ call' = [call EXCEPT !.ofs = call.ofs + c, !.bytes = y]
    BY <1>2, <2>1, <2>2, <2>3, <2>4, <2>5, <2>6 DEF Seal
  <2>8. /\ y \in Seq(Bytes) /\ Len(y) = Start(k) + 2 * c + 4
        /\ y[1] = x[1]
        /\ \A j \in 0 .. k : Segment(y, Len(y), d, j)
    <3>1. Len(x) = Start(k) /\ \A j \in 0 .. k - 1 : Segment(x, Len(x), d, j)
      BY <2>1, <2>2, <2>5 DEF Wrapping
    <3>2. d \in Seq(Bytes) /\ k < Segments(d)
      BY <2>1, <2>2
    <3>3. WithSegment(y, x, d, k, c)
      BY <2>3, <2>4, <2>6, <3>1, <3>2, NextSegment
    <3> QED  BY <3>3 DEF WithSegment
  <2>9. /\ c \in Nat /\ Ofs(k) \in Nat
        /\ Ofs(k) + c = IF Ofs(k + 1) < Len(d) THEN Ofs(k + 1) ELSE Len(d)
    <3>1. d \in Seq(Bytes) /\ k < Segments(d)
      BY <2>1, <2>2
    <3>2. c \in 1 .. MaxSealLength
      BY <2>3, <3>1, Counts
    <3>3. Ofs(k) + c = IF Ofs(k + 1) < Len(d) THEN Ofs(k + 1) ELSE Len(d)
      BY <2>3, <3>1, Counts
    <3> QED  BY <3>2, <3>3, OffsetsGrow
  <2>10. call' \in WrapCalls /\ call'.data = d /\ call'.ofs = Ofs(k) + c /\ call'.bytes = y
    <3>1. PICK o \in Nat : o = call.ofs + c
      BY <2>2, <2>9
    <3>2. y \in Seq(Bytes)
      BY <2>8
    <3>3. call \in WrapCalls
      BY <1>0 DEF WrapInv
    <3>4. call' = [call EXCEPT !.ofs = o, !.bytes = y]
      BY <2>7, <3>1
    <3> QED  BY <2>1, <2>2, <3>1, <3>2, <3>3, <3>4 DEF WrapCalls
  <2>11. Wrapping(k + 1)'
    <3>1. call'.bytes[1] = Segments(call'.data)
      BY <2>1, <2>5, <2>8, <2>10 DEF Wrapping
    <3>2. Len(call'.bytes) = 1 + 2 * call'.ofs + 4 * (k + 1)
      <4>1. Len(y) = (1 + 2 * Ofs(k) + 4 * k) + 2 * c + 4
        BY <2>8 DEF Start
      <4>2. (1 + 2 * Ofs(k) + 4 * k) + 2 * c + 4 = 1 + 2 * (Ofs(k) + c) + 4 * (k + 1)
        BY <2>9, SMTT(20)
      <4> QED  BY <2>10, <4>1, <4>2
    <3>3. \A j \in 0 .. (k + 1) - 1 : Segment(call'.bytes, Len(call'.bytes), call'.data, j)
      <4>1. (k + 1) - 1 = k
        OBVIOUS
      <4> QED  BY <2>8, <2>10, <4>1
    <3> QED  BY <2>9, <2>10, <3>1, <3>2, <3>3 DEF Wrapping
  <2>12. WrapInv'
    <3>1. k + 1 \in 0 .. Segments(d)
      BY <2>1, <2>2
    <3> QED  BY <2>1, <2>10, <2>11, <3>1 DEF WrapInv
  <2>13. TypeOK' /\ Reported'
    BY <1>0, <2>7 DEF TypeOK, Reported
  <2>14. IInv'
    BY <1>0, <2>7, <2>12, <2>13 DEF IInv
  <2>15. UNCHANGED V!vars
    BY <2>7 DEF V!vars
  <2> QED  BY <2>14, <2>15 DEF VaultStep
<1> QED  BY <1>1, <1>2

\* The blob of a finished Wrap.
LEMMA WrapDoneKeeps == ASSUME IInv, WrapDone PROVE IInv' /\ VaultStep
<1>0. WrapInv /\ TypeOK /\ call.ofs >= Len(call.data)
  BY DEF IInv, WrapDone
<1>1. PICK d \in Data, k \in Nat :
            /\ d = call.data /\ d \in Seq(Bytes) /\ Fits(d)
            /\ Segments(d) \in Nat /\ Wrapping(k)
            /\ call.bytes \in Seq(Bytes)
            /\ k = Segments(d) /\ call.ofs = Len(d)
  BY <1>0, WrapState
<1>2. /\ stored' = Stored("wrap", <<d>>, call.bytes)
      /\ pc' = "idle" /\ result' = None /\ faulty' = faulty
  BY <1>1 DEF WrapDone, Keep
<1>3. PICK b \in Seq(Bytes) : b = call.bytes
  BY <1>1
<1>4. PICK s : s = stored'
  OBVIOUS
<1>5. s = [kind |-> "wrap", secret |-> <<d>>, intact |-> TRUE, mem |-> b, len |-> Len(b)]
  BY <1>2, <1>3, <1>4 DEF Stored
<1>6. s.kind = "wrap" /\ s.secret = <<d>> /\ s.intact = TRUE /\ s.mem = b /\ s.len = Len(b)
  BY <1>5
<1>7. s \in Blobs
  <2>1. <<d>> \in Seq(Seq(Bytes)) /\ Len(b) \in Nat
    BY <1>1
  <2> QED  BY <1>5, <2>1 DEF Blobs
<1>8. Wrapped(s, d)
  <2>1. Len(b) = WrappedLen(d) /\ b[1] = Segments(d) /\ \A j \in 0 .. Segments(d) - 1 : Segment(b, Len(b), d, j)
    BY <1>1, <1>3 DEF Wrapping, WrappedLen
  <2>2. Len(b) <= WrappedLen(d)
    BY <2>1
  <2> QED  BY <1>1, <1>6, <2>1, <2>2 DEF Wrapped
<1>9. Sound(s)
  BY <1>6, <1>8 DEF Sound
<1>10. s.len <= Len(s.mem) /\ faulty' \in BOOLEAN
  BY <1>0, <1>2, <1>6 DEF TypeOK
<1> QED  BY <1>2, <1>4, <1>6, <1>7, <1>9, <1>10, KeepKeeps, VaultPut

-----------------------------------------------------------------------------
(* Unwrap and Unseal.                                                      *)

\* The c bytes e and their tag t, in m behind the first q.
TaggedAt(m, q, c, t, e) ==
    /\ q + 1 + c <= Len(m) /\ m[q + 1] = t
    /\ \A i \in 1 .. c : m[q + 1 + i] = e[i]

Tagged(t, e) == <<t>> \o e
Part(m, q, c) == SubSeq(m, q + 1, q + (c + 1))

\* That part is read as it was written.
LEMMA TaggedSlice ==
    ASSUME NEW m \in Seq(Bytes), NEW q \in Nat, NEW c \in Nat, NEW t \in Bytes,
           NEW e \in Seq(Bytes), Len(e) = c,
           TaggedAt(m, q, c, t, e)
    PROVE  Part(m, q, c) = Tagged(t, e)
<1>h. PICK h : h = <<t>>
  OBVIOUS
<1>0. q + 1 + c <= Len(m) /\ m[q + 1] = t /\ \A i \in 1 .. c : m[q + 1 + i] = e[i]
  BY DEF TaggedAt
<1>1. PICK u : u = h \o e
  OBVIOUS
<1>2. u \in Seq(Bytes) /\ Len(u) = c + 1 /\ u[1] = t /\ \A i \in 1 .. c : u[i + 1] = e[i]
  BY <1>h, <1>1, Prepend
<1>3. PICK v : v = SubSeq(m, q + 1, q + (c + 1))
  OBVIOUS
<1>4. v \in Seq(Bytes) /\ Len(v) = c + 1 /\ \A i \in 1 .. c + 1 : v[i] = m[q + i]
  <2>1. c + 1 \in Nat /\ q + (c + 1) <= Len(m)
    BY <1>0
  <2> QED  BY <1>3, <2>1, Chunk
<1>5. ASSUME NEW i \in 1 .. c + 1 PROVE v[i] = u[i]
  <2>1. CASE i = 1
    BY <1>0, <1>2, <1>4, <2>1
  <2>2. CASE i # 1
    <3>1. PICK j \in 1 .. c : i = j + 1
      BY <2>2
    <3>2. q + i = q + 1 + j
      BY <3>1
    <3>3. v[i] = m[q + 1 + j]
      BY <1>4, <3>2
    <3>4. m[q + 1 + j] = e[j]
      BY <1>0
    <3>5. u[j + 1] = e[j]
      BY <1>2
    <3> QED  BY <3>1, <3>3, <3>4, <3>5
  <2> QED  BY <2>1, <2>2
<1>6. u = v
  <2>1. u \in Seq(Bytes) /\ v \in Seq(Bytes) /\ Len(v) = Len(u) /\ \A i \in 1 .. Len(u) : v[i] = u[i]
    BY <1>2, <1>4, <1>5
  <2> QED  BY <2>1, SameElements
<1> QED  BY <1>h, <1>1, <1>3, <1>6 DEF Part, Tagged

\* The TPM gives back what was sealed, if the public part is the one that
\* belongs to the private part.
LEMMA UnsealedIs ==
    ASSUME NEW e \in Seq(Bytes), NEW x
    PROVE  Unsealed(Private(e), x) = IF x = Public(e) THEN e ELSE Error
<1>1. PICK h : h = <<1>>
  OBVIOUS
<1>2. PICK v : v = h \o e
  OBVIOUS
<1>3. Private(e) = v
  BY <1>1, <1>2 DEF Private
<1>4. Tail(v) = e /\ v # <<>>
  BY <1>1, <1>2, PrependTail, Tags
<1> QED  BY <1>3, <1>4 DEF Unsealed

\* What Unseal reads of the segment whose first byte has index p.
PublicAt(s, p) == p + 1 + At(s, p) + 1
NextAt(s, p) == PublicAt(s, p) + At(s, PublicAt(s, p) - 1)
ReadableAt(s, p) ==
    /\ Index(s, p) /\ Reach(s, PublicAt(s, p) - 1)
    /\ Index(s, PublicAt(s, p) - 1) /\ Reach(s, NextAt(s, p))
UnsealedAt(s, p) ==
    Unsealed(Slice(s, p + 1, At(s, p)), Slice(s, PublicAt(s, p), At(s, PublicAt(s, p) - 1)))

\* It is the c bytes e or an error, and the bytes if all of the segment is there.
ReadAs(s, p, c, e) ==
    /\ ReadableAt(s, p) => UnsealedAt(s, p) \in {e, Error} /\ NextAt(s, p) = p + 2 * c + 4
    /\ p + 2 * c + 4 <= s.len => ReadableAt(s, p) /\ UnsealedAt(s, p) = e

\* A segment is read as what was sealed.
LEMMA SegmentRead ==
    ASSUME NEW s \in Blobs, s.len <= Len(s.mem),
           NEW d \in Seq(Bytes), NEW o \in Nat, NEW c \in Nat, NEW p \in Nat, o + c <= Len(d),
           SegmentAt(s.mem, s.len, d, o, c, p + 1)
    PROVE  ReadAs(s, p, c, SubSeq(d, o + 1, o + c))
<1>e. PICK e : e = SubSeq(d, o + 1, o + c)
  OBVIOUS
<1>p. PICK public : public = PublicAt(s, p)
  OBVIOUS
<1>x. PICK next : next = NextAt(s, p)
  OBVIOUS
<1>r. PICK readable : readable <=> ReadableAt(s, p)
  OBVIOUS
<1>s. PICK segment : segment = UnsealedAt(s, p)
  OBVIOUS
<1>a. /\ e = SubSeq(d, o + 1, o + c)
      /\ public = p + 1 + At(s, p) + 1
      /\ next = public + At(s, public - 1)
      /\ readable <=> /\ Index(s, p) /\ Reach(s, public - 1)
                      /\ Index(s, public - 1) /\ Reach(s, next)
      /\ segment = Unsealed(Slice(s, p + 1, At(s, p)), Slice(s, public, At(s, public - 1)))
  BY <1>e, <1>p, <1>x, <1>r, <1>s DEF PublicAt, NextAt, ReadableAt, UnsealedAt
<1>0. PICK m \in Seq(Bytes), n \in Nat : m = s.mem /\ n = s.len /\ n <= Len(m) /\ Len(m) \in Nat
  BY BlobFields
<1>1. e \in Seq(Bytes) /\ Len(e) = c /\ \A i \in 1 .. c : e[i] = d[o + i]
  BY <1>a, Chunk
<1>2. SegmentAt(m, n, d, o, c, p + 1)
  BY <1>0
<1>3. ASSUME p < n PROVE At(s, p) = c + 1 /\ public = p + c + 3 /\ public - 1 = p + c + 2
  <2>1. At(s, p) = m[p + 1]
    BY <1>0, <1>3 DEF At
  <2>2. m[p + 1] = c + 1
    BY <1>0, <1>2, <1>3 DEF SegmentAt
  <2> QED  BY <1>a, <2>1, <2>2
<1>4. ASSUME p + c + 2 < n
      PROVE  /\ At(s, public - 1) = c + 1 /\ next = p + 2 * c + 4 /\ public = p + c + 3
             /\ Slice(s, p + 1, At(s, p)) = Private(e)
  <2>1. p < n /\ p + c + 2 < Len(m)
    BY <1>0, <1>4
  <2>2. At(s, public - 1) = m[p + c + 2 + 1]
    BY <1>0, <1>3, <2>1 DEF At
  <2>3. m[p + c + 2 + 1] = c + 1
    <3>1. p + c + 2 + 1 = (p + 1) + c + 2 /\ (p + 1) + c + 2 <= n
      BY <1>0, <1>4
    <3> QED  BY <1>2, <3>1 DEF SegmentAt
  <2>4. public = p + c + 3 /\ next = p + 2 * c + 4
    BY <1>a, <1>3, <2>1, <2>2, <2>3
  <2>6. /\ (p + 1) + 1 + c <= Len(m) /\ m[(p + 1) + 1] = 1
        /\ \A i \in 1 .. c : m[(p + 1) + 1 + i] = e[i]
    <3>1. (p + 1) + 1 + c <= Len(m) /\ (p + 1) + 1 <= n
      BY <1>0, <1>4
    <3>2. m[(p + 1) + 1] = 1
      BY <1>2, <3>1 DEF SegmentAt
    <3>3. ASSUME NEW i \in 1 .. c PROVE m[(p + 1) + 1 + i] = e[i]
      <4>1. (p + 1) + 1 + i <= n
        BY <1>0, <1>4
      <4>2. m[(p + 1) + 1 + i] = d[o + i]
        BY <1>2, <4>1 DEF SegmentAt
      <4> QED  BY <1>1, <4>2
    <3> QED  BY <3>1, <3>2, <3>3
  <2>7. Part(m, p + 1, c) = Tagged(1, e)
    <3>1. TaggedAt(m, p + 1, c, 1, e)
      BY <2>6 DEF TaggedAt
    <3>2. p + 1 \in Nat /\ 1 \in Bytes /\ e \in Seq(Bytes) /\ Len(e) = c
      BY <1>1, Tags
    <3> QED  BY <3>1, <3>2, TaggedSlice
  <2>8. Slice(s, p + 1, At(s, p)) = Private(e)
    BY <1>0, <1>3, <2>1, <2>7 DEF Slice, Private, Part, Tagged
  <2> QED  BY <2>2, <2>3, <2>4, <2>8
<1>5. ASSUME p + 2 * c + 4 <= n PROVE Slice(s, public, At(s, public - 1)) = Public(e)
  <2>2. PICK q \in Nat : q = p + c + 3
    OBVIOUS
  <2>3. p + c + 2 < n
    BY <1>0, <1>5
  <2>4. /\ q + 1 + c <= Len(m) /\ m[q + 1] = 2
        /\ \A i \in 1 .. c : m[q + 1 + i] = e[i]
    <3>1. q + 1 + c <= Len(m) /\ q + 1 = (p + 1) + c + 3 /\ (p + 1) + c + 3 <= n
      BY <1>0, <1>5, <2>2
    <3>2. m[(p + 1) + c + 3] = 2
      BY <1>2, <3>1 DEF SegmentAt
    <3>3. ASSUME NEW i \in 1 .. c PROVE m[q + 1 + i] = e[i]
      <4>1. q + 1 + i = (p + 1) + c + 3 + i /\ (p + 1) + c + 3 + i <= n
        BY <1>0, <1>5, <2>2
      <4>2. m[(p + 1) + c + 3 + i] = d[o + i]
        BY <1>2, <4>1 DEF SegmentAt
      <4> QED  BY <1>1, <4>1, <4>2
    <3> QED  BY <3>1, <3>2, <3>3
  <2>5. Part(m, q, c) = Tagged(2, e)
    <3>1. TaggedAt(m, q, c, 2, e)
      BY <2>4 DEF TaggedAt
    <3>2. 2 \in Bytes /\ e \in Seq(Bytes) /\ Len(e) = c
      BY <1>1, Tags
    <3> QED  BY <3>1, <3>2, TaggedSlice
  <2> QED  BY <1>0, <1>4, <2>2, <2>3, <2>5 DEF Slice, Public, Part, Tagged
<1>6. ASSUME readable PROVE segment \in {e, Error} /\ next = p + 2 * c + 4
  <2>1. p < n
    BY <1>a, <1>0, <1>6 DEF Index
  <2>2. p + c + 2 < n
    BY <1>a, <1>0, <1>3, <1>6, <2>1 DEF Index
  <2>3. Unsealed(Private(e), Slice(s, public, At(s, public - 1))) \in {e, Error}
    BY <1>1, UnsealedIs
  <2> QED  BY <1>a, <1>4, <2>2, <2>3
<1>7. ASSUME p + 2 * c + 4 <= n PROVE readable /\ segment = e
  <2>1. p < n /\ p + c + 2 < n /\ p + c + 2 <= Len(m) /\ p + 2 * c + 4 <= Len(m)
    BY <1>0, <1>7
  <2>2. readable
    BY <1>a, <1>0, <1>3, <1>4, <2>1 DEF Index, Reach
  <2>3. Unsealed(Private(e), Public(e)) = e
    BY <1>1, UnsealedIs
  <2> QED  BY <1>a, <1>4, <1>5, <1>7, <2>1, <2>2, <2>3
<1> QED  BY <1>e, <1>x, <1>r, <1>s, <1>0, <1>6, <1>7 DEF ReadAs

\* The first byte of wrapped data is the number of its segments; none is
\* missing unless the blob is damaged.
LEMMA FirstByte ==
    ASSUME NEW s \in Blobs, s.len <= Len(s.mem), NEW d \in Seq(Bytes), Wrapped(s, d)
    PROVE  /\ Index(s, 0) => At(s, 0) = Segments(d)
           /\ ~Index(s, 0) => ~s.intact
           /\ Segments(d) \in 0 .. MaxSealCount
           /\ s.secret[1] = d
<1>1. s.mem \in Seq(Bytes) /\ s.len \in Nat /\ Len(s.mem) \in Nat
  BY BlobFields
<1>2. Segments(d) \in 0 .. MaxSealCount /\ Segments(d) \in Nat
  BY SegmentsFit DEF Wrapped
<1>3. Index(s, 0) => At(s, 0) = Segments(d)
  BY <1>1 DEF Index, At, Wrapped
<1>4. s.intact => 1 <= s.len
  <2>1. WrappedLen(d) >= 1
    BY <1>2 DEF WrappedLen
  <2> QED  BY <2>1 DEF Wrapped
<1> QED  BY <1>1, <1>2, <1>3, <1>4 DEF Index, Wrapped

\* A wrapped blob that is kept.
LEMMA WrapKept ==
    ASSUME IInv, stored # None, stored.kind = "wrap"
    PROVE  \E d \in Data : d \in Seq(Bytes) /\ Wrapped(stored, d) /\ stored.secret = <<d>>
<1>1. \E d \in Data : Wrapped(stored, d)
  BY DEF IInv, Sound
<1> QED  BY <1>1, BlobsAssumption DEF Wrapped

\* Unwrap starts with the first segment, or refuses.
LEMMA UnwrapKeeps == ASSUME IInv, Unwrap PROVE IInv' /\ VaultStep
<1>0. stored # None /\ stored.kind = "wrap" /\ TypeOK /\ stored \in Blobs /\ stored.len <= Len(stored.mem)
  BY DEF IInv, Unwrap, TypeOK
<1>1. /\ stored' = stored /\ faulty' = FALSE
      /\ call' = [op |-> "Unwrap", ofs |-> 1, segments |-> At(stored, 0), data |-> <<>>]
  BY DEF Unwrap, Begin, End
<1>2. PICK d \in Data : d \in Seq(Bytes) /\ Wrapped(stored, d) /\ stored.secret = <<d>>
  BY <1>0, WrapKept
<1>3. /\ Index(stored, 0) => At(stored, 0) = Segments(d)
      /\ ~Index(stored, 0) => ~stored.intact
      /\ Segments(d) \in 0 .. MaxSealCount
      /\ stored.secret[1] = d
  BY <1>0, <1>2, FirstByte
<1>4. call'.op = "Unwrap" /\ call'.ofs = 1 /\ call'.segments = At(stored, 0) /\ call'.data = <<>>
  BY <1>1
<1>5. CASE ~Index(stored, 0)
  <2>1. pc' = "idle" /\ result' = Crash
    BY <1>5 DEF Unwrap, End
  <2>2. ~stored.intact
    BY <1>3, <1>5
  <2>3. Reported'
    BY <1>1, <1>4, <2>2 DEF Reported, Explained
  <2> QED  BY <1>0, <1>1, <2>1, <2>2, <2>3, EndKeeps, VaultEnd
<1>6. CASE Index(stored, 0) /\ (At(stored, 0) = 0 \/ At(stored, 0) > MaxSealCount)
  <2>1. Segments(d) = 0
    BY <1>3, <1>6, BlobsAssumption
  <2>2. d = <<>>
    BY <1>2, <2>1, SegmentsFit DEF Wrapped
  <2>3. pc' = "idle" /\ result' = Error
    BY <1>3, <1>6, <2>1 DEF Unwrap, End
  <2>4. Reported'
    BY <1>1, <1>2, <1>4, <2>2 DEF Reported, Explained
  <2> QED  BY <1>0, <1>1, <2>3, <2>4, EndKeeps, VaultEnd
<1>7. CASE Index(stored, 0) /\ At(stored, 0) \in 1 .. MaxSealCount
  <2>1. pc' = "unwrap" /\ result' = None
    BY <1>7, BlobsAssumption DEF Unwrap, End
  <2>2. At(stored, 0) = Segments(d) /\ Segments(d) \in Nat \ {0}
    BY <1>3, <1>7, BlobsAssumption
  <2>3. call' \in UnwrapCalls
    <3>1. <<>> \in Seq(Bytes)
      OBVIOUS
    <3> QED  BY <1>1, <2>2, <3>1 DEF UnwrapCalls
  <2>4. Unwrapping(0)'
    <3>1. SubSeq(d, 1, 0) = <<>>
      BY <1>2
    <3>2. Ofs(0) = 0 /\ Start(0) = 1 /\ Segments(d) - 0 = Segments(d)
      BY <2>2, OffsetsGrow, Starts
    <3> QED  BY <1>1, <1>3, <1>4, <2>2, <3>1, <3>2 DEF Unwrapping
  <2>5. UnwrapInv'
    <3>1. 0 \in 0 .. Segments(d) - 1
      BY <2>2
    <3> QED  BY <1>0, <1>1, <1>3, <2>3, <2>4, <3>1 DEF UnwrapInv
  <2>6. TypeOK' /\ Reported'
    BY <1>0, <1>1, <2>1 DEF TypeOK, Reported
  <2>7. IInv'
    BY <1>1, <2>1, <2>5, <2>6 DEF IInv
  <2> QED  BY <1>1, <2>1, <2>7, VaultBegin
<1> QED  BY <1>3, <1>5, <1>6, <1>7, BlobsAssumption

\* Two parts of data that follow each other.
LEMMA Joined ==
    ASSUME NEW d \in Seq(Bytes), NEW o \in Nat, NEW c \in Nat, o + c <= Len(d)
    PROVE  SubSeq(d, 1, o) \o SubSeq(d, o + 1, o + c) = SubSeq(d, 1, o + c)
<1>1. PICK a : a = SubSeq(d, 1, o)
  OBVIOUS
<1>2. PICK b : b = SubSeq(d, o + 1, o + c)
  OBVIOUS
<1>3. PICK u : u = SubSeq(d, 1, o + c)
  OBVIOUS
<1>4. a \in Seq(Bytes) /\ Len(a) = o /\ \A i \in 1 .. o : a[i] = d[i]
  BY <1>1
<1>5. b \in Seq(Bytes) /\ Len(b) = c /\ \A i \in 1 .. c : b[i] = d[o + i]
  BY <1>2, Chunk
<1>6. u \in Seq(Bytes) /\ Len(u) = o + c /\ \A i \in 1 .. o + c : u[i] = d[i]
  BY <1>3
<1>7. PICK v : v = a \o b
  OBVIOUS
<1>8. v \in Seq(Bytes) /\ Len(v) = o + c /\ (\A i \in 1 .. o : v[i] = a[i]) /\ \A i \in 1 .. c : v[o + i] = b[i]
  <2>1. a \in Seq(Bytes) /\ b \in Seq(Bytes)
    BY <1>4, <1>5
  <2>2. /\ v \in Seq(Bytes) /\ Len(v) = Len(a) + Len(b)
        /\ \A i \in 1 .. Len(a) : v[i] = a[i]
        /\ \A i \in 1 .. Len(b) : v[Len(a) + i] = b[i]
    BY <1>7, <2>1, Concat
  <2> QED  BY <1>4, <1>5, <2>2
<1>9. ASSUME NEW i \in 1 .. o + c PROVE v[i] = u[i]
  <2>1. CASE i <= o
    BY <1>4, <1>6, <1>8, <2>1
  <2>2. CASE o < i
    <3>1. PICK j \in 1 .. c : i = o + j
      <4>1. i - o \in 1 .. c /\ i = o + (i - o)
        BY <2>2
      <4> QED  BY <4>1
    <3>2. v[o + j] = b[j] /\ b[j] = d[o + j] /\ u[i] = d[i]
      BY <1>5, <1>6, <1>8
    <3> QED  BY <3>1, <3>2
  <2> QED  BY <2>1, <2>2
<1>10. v = u
  BY <1>6, <1>8, <1>9, SameElements
<1> QED  BY <1>1, <1>2, <1>3, <1>7, <1>10

\* A beginning of it.
LEMMA Prefix == ASSUME NEW d \in Seq(Bytes), NEW n \in Nat, n <= Len(d) PROVE SubSeq(d, 1, n) \in Seq(Bytes)
OBVIOUS

\* All of the data.
LEMMA Whole == ASSUME NEW d \in Seq(Bytes), NEW n, n = Len(d) PROVE SubSeq(d, 1, n) = d
OBVIOUS

\* How far Unwrap is, and what is left.
LEMMA UnwrapState ==
    ASSUME IInv, pc = "unwrap"
    PROVE  \E d \in Data, k \in Nat :
              /\ d \in Seq(Bytes) /\ Wrapped(stored, d) /\ stored.secret = <<d>>
              /\ Segments(d) \in Nat /\ k < Segments(d)
              /\ call.segments = Segments(d) - k
              /\ call.ofs = Start(k)
              /\ call.data = SubSeq(d, 1, Ofs(k))
              /\ stored \in Blobs /\ stored # None /\ stored.len <= Len(stored.mem) /\ stored.kind = "wrap"
              /\ call \in UnwrapCalls
<1>1. UnwrapInv /\ TypeOK
  BY DEF IInv
<1>2. /\ stored \in Blobs /\ stored # None /\ stored.len <= Len(stored.mem) /\ stored.kind = "wrap"
      /\ call \in UnwrapCalls
  BY <1>1 DEF UnwrapInv, TypeOK
<1>3. PICK d \in Data : d \in Seq(Bytes) /\ Wrapped(stored, d) /\ stored.secret = <<d>>
  BY <1>2, WrapKept
<1>4. stored.secret[1] = d /\ Segments(d) \in Nat
  BY <1>3, SegmentsBegin
<1>5. PICK k \in 0 .. Segments(d) - 1 : Unwrapping(k)
  BY <1>1, <1>4 DEF UnwrapInv
<1>6. k \in Nat /\ k < Segments(d)
  BY <1>4
<1>7. call.segments = Segments(d) - k /\ call.ofs = Start(k) /\ call.data = SubSeq(d, 1, Ofs(k))
  BY <1>4, <1>5 DEF Unwrapping
<1> QED  BY <1>2, <1>3, <1>4, <1>6, <1>7

\* Unseal gives the data of the next segment, or an error; it panics over a
\* damaged blob only.
LEMMA UnsealKeeps == ASSUME IInv, Unseal PROVE IInv' /\ VaultStep
<1>0. pc = "unwrap" /\ TypeOK
  BY DEF Unseal, IInv
<1>1. PICK d \in Data, k \in Nat :
              /\ d \in Seq(Bytes) /\ Wrapped(stored, d) /\ stored.secret = <<d>>
              /\ Segments(d) \in Nat /\ k < Segments(d)
              /\ call.segments = Segments(d) - k
              /\ call.ofs = Start(k)
              /\ call.data = SubSeq(d, 1, Ofs(k))
              /\ stored \in Blobs /\ stored # None /\ stored.len <= Len(stored.mem) /\ stored.kind = "wrap"
              /\ call \in UnwrapCalls
  BY <1>0, UnwrapState
<1>2. PICK o \in Nat : o = Ofs(k)
  BY OffsetsGrow
<1>3. PICK p \in Nat : p = Start(k)
  BY Starts
<1>4. PICK c \in Nat : c = Count(d, o) /\ o + c <= Len(d)
  <2>1. Count(d, Ofs(k)) \in 1 .. MaxSealLength /\ Ofs(k) + Count(d, Ofs(k)) <= Len(d)
    BY <1>1, Counts
  <2> QED  BY <1>2, <2>1, OffsetsGrow
<1>5. /\ k + 1 < Segments(d) => o + c = Ofs(k + 1)
      /\ k + 1 = Segments(d) => o + c = Len(d)
  <2>1. /\ k + 1 < Segments(d) => Count(d, Ofs(k)) = MaxSealLength
        /\ k + 1 = Segments(d) => Ofs(k) + Count(d, Ofs(k)) = Len(d)
    BY <1>1, Counts
  <2> QED  BY <1>2, <1>4, <2>1, OffsetsGrow
<1>6. p + 2 * c + 4 = 1 + 2 * (o + c) + 4 * (k + 1)
  BY <1>2, <1>3 DEF Start
<1>7. PICK e : e = SubSeq(d, o + 1, o + c)
  OBVIOUS
<1>8. PICK readable : readable <=> ReadableAt(stored, p)
  OBVIOUS
<1>9. PICK segment : segment = UnsealedAt(stored, p)
  OBVIOUS
<1>10. PICK next : next = NextAt(stored, p)
  OBVIOUS
<1>12. /\ readable => segment \in {e, Error} /\ next = p + 2 * c + 4
       /\ p + 2 * c + 4 <= stored.len => readable /\ segment = e
  <2>1. SegmentAt(stored.mem, stored.len, d, o, c, p + 1)
    <3>1. k \in 0 .. Segments(d) - 1
      BY <1>1
    <3>2. Segment(stored.mem, stored.len, d, k)
      BY <1>1, <3>1 DEF Wrapped
    <3> QED  BY <1>2, <1>3, <1>4, <3>2 DEF Segment
  <2>2. stored \in Blobs /\ stored.len <= Len(stored.mem) /\ d \in Seq(Bytes) /\ o + c <= Len(d)
    BY <1>1, <1>4
  <2>3. ReadAs(stored, p, c, SubSeq(d, o + 1, o + c))
    BY <2>1, <2>2, SegmentRead
  <2> QED  BY <1>7, <1>8, <1>9, <1>10, <2>3 DEF ReadAs
<1>13. stored.intact => p + 2 * c + 4 <= stored.len
  <2>1. stored.intact => stored.len = 1 + 2 * Len(d) + 4 * Segments(d)
    BY <1>1 DEF Wrapped, WrappedLen
  <2>2. 1 + 2 * (o + c) + 4 * (k + 1) <= 1 + 2 * Len(d) + 4 * Segments(d)
    BY <1>1, <1>4, SMTT(20)
  <2> QED  BY <1>6, <2>1, <2>2
<1>14. \/ ~readable /\ End(Crash) /\ UNCHANGED <<call, faulty>>
       \/ readable /\ segment = Error /\ End(Error) /\ UNCHANGED <<call, faulty>>
       \/ readable /\ End(Error) /\ faulty' = TRUE /\ UNCHANGED call
       \/ /\ readable /\ segment # Error
          /\ call' = [call EXCEPT !.ofs = next, !.segments = call.segments - 1, !.data = call.data \o segment]
          /\ IF call.segments = 1
             THEN End(<<call'.data>>)
             ELSE UNCHANGED <<stored, pc, result>>
          /\ UNCHANGED faulty
  BY <1>1, <1>3, <1>8, <1>9, <1>10 DEF Unseal, PublicAt, NextAt, ReadableAt, UnsealedAt
<1>15. CASE ~readable /\ End(Crash) /\ UNCHANGED <<call, faulty>>
  <2>1. ~stored.intact
    BY <1>12, <1>13, <1>15
  <2>2. stored' = stored /\ pc' = "idle" /\ result' = Crash /\ call' = call /\ faulty' = faulty
    BY <1>15 DEF End
  <2>3. call.op = "Unwrap" /\ faulty' \in BOOLEAN
    BY <1>0, <1>1, <2>2 DEF UnwrapCalls, TypeOK
  <2>4. Reported'
    BY <2>1, <2>2, <2>3 DEF Reported, Explained
  <2> QED  BY <1>0, <1>1, <2>1, <2>2, <2>3, <2>4, EndKeeps, VaultEnd
<1>16. CASE readable /\ segment = Error /\ End(Error) /\ UNCHANGED <<call, faulty>>
  <2>1. ~stored.intact
    <3>1. e \in Seq(Bytes)
      BY <1>1, <1>4, <1>7, Chunk
    <3>2. e # Error
      BY <3>1, OutcomesDiffer
    <3> QED  BY <1>12, <1>13, <1>16, <3>2
  <2>2. stored' = stored /\ pc' = "idle" /\ result' = Error /\ call' = call /\ faulty' = faulty
    BY <1>16 DEF End
  <2>3. call.op = "Unwrap" /\ faulty' \in BOOLEAN
    BY <1>0, <1>1, <2>2 DEF UnwrapCalls, TypeOK
  <2>4. Reported'
    BY <2>1, <2>2, <2>3 DEF Reported, Explained
  <2> QED  BY <1>0, <2>2, <2>3, <2>4, EndKeeps, VaultEnd
<1>17. CASE readable /\ End(Error) /\ faulty' = TRUE /\ UNCHANGED call
  <2>1. stored' = stored /\ pc' = "idle" /\ result' = Error
    BY <1>17 DEF End
  <2>2. Reported'
    BY <1>17 DEF Reported
  <2> QED  BY <1>0, <1>17, <2>1, <2>2, EndKeeps, VaultEnd
<1>18. CASE /\ readable /\ segment # Error
            /\ call' = [call EXCEPT !.ofs = next, !.segments = call.segments - 1, !.data = call.data \o segment]
            /\ IF call.segments = 1
               THEN End(<<call'.data>>)
               ELSE UNCHANGED <<stored, pc, result>>
            /\ UNCHANGED faulty
  <2>1. segment = e /\ next = p + 2 * c + 4 /\ next \in Nat
    BY <1>12, <1>18
  <2>2. call.data \o segment = SubSeq(d, 1, o + c)
    <3>1. d \in Seq(Bytes) /\ o + c <= Len(d)
      BY <1>1, <1>4
    <3>2. SubSeq(d, 1, o) \o SubSeq(d, o + 1, o + c) = SubSeq(d, 1, o + c)
      BY <3>1, Joined
    <3> QED  BY <1>1, <1>2, <1>7, <2>1, <3>2
  <2>3. PICK z \in Seq(Bytes) : z = SubSeq(d, 1, o + c)
    <3>1. d \in Seq(Bytes) /\ o + c <= Len(d) /\ o + c \in Nat
      BY <1>1, <1>4
    <3> QED  BY <3>1, Prefix
  <2>4. PICK g \in Nat : g = call.segments - 1
    BY <1>1
  <2>5. PICK a \in Nat : a = next
    BY <2>1
  <2>6. call' = [call EXCEPT !.ofs = a, !.segments = g, !.data = z] /\ faulty' = faulty
    BY <1>18, <2>2, <2>3, <2>4, <2>5
  <2>7. call' \in UnwrapCalls /\ call'.ofs = a /\ call'.segments = g /\ call'.data = z
    <3>1. call \in UnwrapCalls
      BY <1>1
    <3> QED  BY <2>6, <3>1 DEF UnwrapCalls
  <2>8. CASE call.segments = 1
    <3>1. k + 1 = Segments(d)
      BY <1>1, <2>8
    <3>2. z = d
      BY <1>1, <1>5, <2>3, <3>1, Whole
    <3>3. stored' = stored /\ pc' = "idle" /\ result' = stored.secret
      BY <1>1, <1>18, <2>7, <2>8, <3>2 DEF End
    <3>4. Reported'
      <4>1. stored.secret \notin {Error, Crash}
        <5>1. stored.secret \in Seq(Seq(Bytes))
          BY <1>1, BlobFields
        <5> QED  BY <5>1, OutcomesDiffer
      <4> QED  BY <3>3, <4>1 DEF Reported
    <3>5. faulty' \in BOOLEAN
      BY <1>0, <2>6 DEF TypeOK
    <3> QED  BY <1>0, <1>1, <3>3, <3>4, <3>5, EndKeeps, VaultEnd
  <2>9. CASE call.segments # 1
    <3>1. stored' = stored /\ pc' = pc /\ result' = result
      BY <1>18, <2>9
    <3>2. k + 1 < Segments(d) /\ k + 1 \in 0 .. Segments(d) - 1
      BY <1>1, <2>9
    <3>3. stored.secret[1] = d
      BY <1>1
    <3>4. Unwrapping(k + 1)'
      <4>1. g = Segments(d) - (k + 1)
        BY <1>1, <2>4
      <4>2. a = Start(k + 1)
        <5>1. Start(k + 1) = 1 + 2 * (o + c) + 4 * (k + 1)
          BY <1>5, <3>2 DEF Start
        <5> QED  BY <1>6, <2>1, <2>5, <5>1
      <4>3. z = SubSeq(d, 1, Ofs(k + 1))
        BY <1>5, <2>3, <3>2
      <4> QED  BY <2>7, <3>1, <3>3, <4>1, <4>2, <4>3 DEF Unwrapping
    <3>5. UnwrapInv'
      BY <1>1, <2>7, <3>1, <3>2, <3>3, <3>4 DEF UnwrapInv
    <3>6. TypeOK' /\ Reported'
      BY <1>0, <2>6, <3>1 DEF TypeOK, Reported
    <3>7. IInv'
      BY <1>0, <3>1, <3>5, <3>6 DEF IInv
    <3>8. UNCHANGED V!vars
      BY <3>1 DEF V!vars
    <3> QED  BY <3>7, <3>8 DEF VaultStep
  <2> QED  BY <2>8, <2>9
<1> QED  BY <1>14, <1>15, <1>16, <1>17, <1>18

-----------------------------------------------------------------------------
(* Pack and Unpack.                                                        *)

\* The sequence a is in w, behind the first p bytes.
Holds(w, p, a) == p + Len(a) <= Len(w) /\ \A i \in 1 .. Len(a) : w[p + i] = a[i]

\* w is x with a behind it.
Joins(w, x, a) == w = x \o a

\* A part that is written last, and the ones before it.
LEMMA Written ==
    ASSUME NEW x \in Seq(Bytes), NEW a \in Seq(Bytes), NEW w, Joins(w, x, a)
    PROVE  /\ w \in Seq(Bytes) /\ Len(w) = Len(x) + Len(a) /\ Holds(w, Len(x), a)
           /\ \A p \in Nat : \A c \in Seq(Bytes) : Holds(x, p, c) => Holds(w, p, c)
<1>1. /\ w \in Seq(Bytes) /\ Len(w) = Len(x) + Len(a)
      /\ \A i \in 1 .. Len(x) : w[i] = x[i]
      /\ \A i \in 1 .. Len(a) : w[Len(x) + i] = a[i]
  BY Concat DEF Joins
<1>2. Holds(w, Len(x), a)
  BY <1>1 DEF Holds
<1>3. ASSUME NEW p \in Nat, NEW c \in Seq(Bytes), Holds(x, p, c) PROVE Holds(w, p, c)
  <2>1. PICK l \in Nat, n \in Nat, k \in Nat : l = Len(c) /\ n = Len(x) /\ k = Len(w)
    BY <1>1
  <2>2. p + l <= n /\ n <= k
    BY <1>1, <1>3, <2>1 DEF Holds
  <2>3. ASSUME NEW i \in 1 .. l PROVE w[p + i] = c[i]
    <3>1. p + i \in 1 .. n
      BY <2>2
    <3>2. w[p + i] = x[p + i]
      BY <1>1, <2>1, <3>1
    <3>3. x[p + i] = c[i]
      BY <1>3, <2>1 DEF Holds
    <3> QED  BY <3>2, <3>3
  <2> QED  BY <2>1, <2>2, <2>3 DEF Holds
<1> QED  BY <1>1, <1>2, <1>3

\* A number below the square of the base, in two digits.
LEMMA TwoDigits ==
    ASSUME NEW b \in Nat \ {0}, NEW n \in Nat, n < b * b
    PROVE  /\ n % b \in 0 .. b - 1 /\ (n \div b) \in 0 .. b - 1 /\ (n \div b) % b = n \div b
           /\ (n % b) + b * (n \div b) = n
<1>1. n \div b \in Nat /\ n = b * (n \div b) + (n % b) /\ n % b \in 0 .. b - 1
  OBVIOUS
<1>2. PICK q \in Nat, r \in 0 .. b - 1 : q = n \div b /\ r = n % b /\ n = b * q + r
  BY <1>1
<1>3. q < b
  BY <1>2
<1>4. q % b = q
  BY <1>2, <1>3
<1> QED  BY <1>1, <1>2, <1>3, <1>4

\* Two bytes hold a length below that.
LEMMA Int16 ==
    ASSUME NEW n \in Nat, n < Base * Base
    PROVE  /\ packInt16(n) \in Seq(Bytes) /\ Len(packInt16(n)) = 2
           /\ packInt16(n)[1] + Base * packInt16(n)[2] = n
<1>1. Base \in Nat \ {0}
  BY BlobsAssumption
<1>2. PICK x, y : x = Byte(n) /\ y = Byte(n \div Base)
  OBVIOUS
<1>3. x \in Bytes /\ y \in Bytes /\ x + Base * y = n
  BY <1>1, <1>2, TwoDigits DEF Byte, Bytes
<1>4. packInt16(n) = <<x, y>>
  BY <1>2 DEF packInt16
<1> QED  BY <1>3, <1>4

\* The contents of a blob that Pack can write down.
Sized(b) ==
    /\ b \in Contents
    /\ Len(b.Public) < Base * Base /\ Len(b.Private) < Base * Base
    /\ Len(b.PCRs) < Base /\ Len(b.EncryptedSeeds) < Base * Base

\* Where Pack puts the PCRs, and the seeds.
PcrPlace(b) == 6 + Len(b.Public) + Len(b.Private)
SeedPlace(b) == PcrPlace(b) + 1 + Len(b.PCRs)

\* What it writes.
Laid(w, b) ==
    /\ w \in Seq(Bytes) /\ Len(w) = SeedPlace(b) + 2 + Len(b.EncryptedSeeds)
    /\ Holds(w, 0, <<b.Btype, b.Stype>>)
    /\ Holds(w, 2, packInt16(Len(b.Public))) /\ Holds(w, 4, packInt16(Len(b.Private)))
    /\ Holds(w, 6, b.Public) /\ Holds(w, 6 + Len(b.Public), b.Private)
    /\ Holds(w, PcrPlace(b), <<Len(b.PCRs)>>) /\ Holds(w, PcrPlace(b) + 1, b.PCRs)
    /\ Holds(w, SeedPlace(b), packInt16(Len(b.EncryptedSeeds)))
    /\ Holds(w, SeedPlace(b) + 2, b.EncryptedSeeds)

\* The fields of contents.
LEMMA ContentFields ==
    ASSUME NEW b \in Contents
    PROVE  /\ b.Btype \in Bytes /\ b.Stype \in Bytes
           /\ b.Public \in Seq(Bytes) /\ b.Private \in Seq(Bytes)
           /\ b.PCRs \in Seq(Bytes) /\ b.EncryptedSeeds \in Seq(Bytes)
           /\ b = [Btype |-> b.Btype, Stype |-> b.Stype, Public |-> b.Public, Private |-> b.Private,
                   PCRs |-> b.PCRs, EncryptedSeeds |-> b.EncryptedSeeds]
BY DEF Contents

\* Bytes are bytes.
LEMMA ByteIs == ASSUME NEW n \in Bytes PROVE Byte(n) = n
BY BlobsAssumption DEF Byte, Bytes

\* Pack writes that.
LEMMA PackLays == ASSUME NEW b, Sized(b) PROVE Laid(Pack(b), b)
<1>0. /\ b \in Contents
      /\ b.Btype \in Bytes /\ b.Stype \in Bytes
      /\ b.Public \in Seq(Bytes) /\ b.Private \in Seq(Bytes)
      /\ b.PCRs \in Seq(Bytes) /\ b.EncryptedSeeds \in Seq(Bytes)
  BY ContentFields DEF Sized
<1>1. PICK u \in Seq(Bytes), v \in Seq(Bytes), q \in Seq(Bytes), e \in Seq(Bytes) :
        u = b.Public /\ v = b.Private /\ q = b.PCRs /\ e = b.EncryptedSeeds
  BY <1>0
<1>2. /\ Len(u) \in Nat /\ Len(v) \in Nat /\ Len(q) \in Nat /\ Len(e) \in Nat
      /\ Len(u) < Base * Base /\ Len(v) < Base * Base /\ Len(e) < Base * Base
  BY <1>1 DEF Sized
<1>3. PICK a1 \in Seq(Bytes) : a1 = <<b.Btype, b.Stype>> /\ Len(a1) = 2
  <2>1. PICK x \in Bytes, y \in Bytes : x = b.Btype /\ y = b.Stype
    BY <1>0
  <2>2. <<x, y>> \in Seq(Bytes) /\ Len(<<x, y>>) = 2
    OBVIOUS
  <2> QED  BY <2>1, <2>2
<1>4. PICK a2 \in Seq(Bytes) : a2 = packInt16(Len(u)) /\ Len(a2) = 2
  BY <1>2, Int16
<1>5. PICK a3 \in Seq(Bytes) : a3 = packInt16(Len(v)) /\ Len(a3) = 2
  BY <1>2, Int16
<1>6. Byte(Len(q)) = Len(q) /\ Len(q) \in Bytes
  <2>1. Len(q) \in Bytes
    BY <1>1, <1>2, BlobsAssumption DEF Sized, Bytes
  <2> QED  BY <2>1, ByteIs
<1>7. PICK a4 \in Seq(Bytes) : a4 = <<Byte(Len(q))>> /\ a4 = <<Len(q)>> /\ Len(a4) = 1
  <2>1. PICK x \in Bytes : x = Len(q)
    BY <1>6
  <2>2. <<x>> \in Seq(Bytes) /\ Len(<<x>>) = 1
    BY OneByte
  <2> QED  BY <1>6, <2>1, <2>2
<1>8. [i \in DOMAIN q |-> Byte(q[i])] = q
  <2>1. q = [i \in DOMAIN q |-> q[i]] /\ \A i \in DOMAIN q : q[i] \in Bytes
    OBVIOUS
  <2>2. \A i \in DOMAIN q : Byte(q[i]) = q[i]
    BY <2>1, ByteIs
  <2> QED  BY <2>1, <2>2
<1>9. PICK a5 \in Seq(Bytes) : a5 = packInt16(Len(e)) /\ Len(a5) = 2
  BY <1>2, Int16
<1>10. Len(a1) = 2 /\ Len(a2) = 2 /\ Len(a3) = 2 /\ Len(a4) = 1 /\ Len(a5) = 2
  BY <1>3, <1>4, <1>5, <1>7, <1>9
<1>11. PICK w2 : Joins(w2, a1, a2)
  BY DEF Joins
<1>12. PICK i1 \in Nat : i1 = 6 + Len(u)
  BY <1>2
<1>13. PICK i2 \in Nat : i2 = i1 + Len(v)
  BY <1>2
<1>14. PICK i3 \in Nat : i3 = i2 + 1
  OBVIOUS
<1>15. PICK i4 \in Nat : i4 = i3 + Len(q)
  BY <1>2
<1>16. PICK i5 \in Nat : i5 = i4 + 2
  OBVIOUS
<1>17. w2 \in Seq(Bytes) /\ Len(w2) = 4
  <2>1. w2 \in Seq(Bytes) /\ Len(w2) = Len(a1) + Len(a2)
    BY <1>11, Written
  <2> QED  BY <1>10, <2>1
<1>18. Holds(w2, 0, a1) /\ Holds(w2, 2, a2)
  <2>1. Holds(w2, Len(a1), a2) /\ \A p \in Nat : \A c \in Seq(Bytes) : Holds(a1, p, c) => Holds(w2, p, c)
    BY <1>11, Written
  <2>2. Holds(a1, 0, a1)
    BY DEF Holds
  <2> QED  BY <1>10, <2>1, <2>2
<1>19. PICK w3 : Joins(w3, w2, a3)
  BY DEF Joins
<1>20. w3 \in Seq(Bytes) /\ Len(w3) = 6
  <2>1. w3 \in Seq(Bytes) /\ Len(w3) = Len(w2) + Len(a3)
    BY <1>17, <1>19, Written
  <2> QED  BY <1>17, <1>10, <2>1
<1>21. Holds(w3, 0, a1) /\ Holds(w3, 2, a2) /\ Holds(w3, 4, a3)
  <2>1. Holds(w3, Len(w2), a3) /\ \A p \in Nat : \A c \in Seq(Bytes) : Holds(w2, p, c) => Holds(w3, p, c)
    BY <1>17, <1>19, Written
  <2> QED  BY <1>17, <1>18, <2>1
<1>22. PICK w4 : Joins(w4, w3, u)
  BY DEF Joins
<1>23. w4 \in Seq(Bytes) /\ Len(w4) = i1
  <2>1. w4 \in Seq(Bytes) /\ Len(w4) = Len(w3) + Len(u)
    BY <1>20, <1>22, Written
  <2> QED  BY <1>20, <1>12, <2>1
<1>24. Holds(w4, 0, a1) /\ Holds(w4, 2, a2) /\ Holds(w4, 4, a3) /\ Holds(w4, 6, u)
  <2>1. Holds(w4, Len(w3), u) /\ \A p \in Nat : \A c \in Seq(Bytes) : Holds(w3, p, c) => Holds(w4, p, c)
    BY <1>20, <1>22, Written
  <2> QED  BY <1>20, <1>21, <2>1
<1>25. PICK w5 : Joins(w5, w4, v)
  BY DEF Joins
<1>26. w5 \in Seq(Bytes) /\ Len(w5) = i2
  <2>1. w5 \in Seq(Bytes) /\ Len(w5) = Len(w4) + Len(v)
    BY <1>23, <1>25, Written
  <2> QED  BY <1>23, <1>13, <2>1
<1>27. Holds(w5, 0, a1) /\ Holds(w5, 2, a2) /\ Holds(w5, 4, a3) /\ Holds(w5, 6, u) /\ Holds(w5, i1, v)
  <2>1. Holds(w5, Len(w4), v) /\ \A p \in Nat : \A c \in Seq(Bytes) : Holds(w4, p, c) => Holds(w5, p, c)
    BY <1>23, <1>25, Written
  <2> QED  BY <1>23, <1>24, <2>1
<1>28. PICK w6 : Joins(w6, w5, a4)
  BY DEF Joins
<1>29. w6 \in Seq(Bytes) /\ Len(w6) = i3
  <2>1. w6 \in Seq(Bytes) /\ Len(w6) = Len(w5) + Len(a4)
    BY <1>26, <1>28, Written
  <2> QED  BY <1>26, <1>10, <1>14, <2>1
<1>30. /\ Holds(w6, 0, a1) /\ Holds(w6, 2, a2) /\ Holds(w6, 4, a3) /\ Holds(w6, 6, u) /\ Holds(w6, i1, v)
       /\ Holds(w6, i2, a4)
  <2>1. Holds(w6, Len(w5), a4) /\ \A p \in Nat : \A c \in Seq(Bytes) : Holds(w5, p, c) => Holds(w6, p, c)
    BY <1>26, <1>28, Written
  <2> QED  BY <1>26, <1>27, <2>1
<1>31. PICK w7 : Joins(w7, w6, q)
  BY DEF Joins
<1>32. w7 \in Seq(Bytes) /\ Len(w7) = i4
  <2>1. w7 \in Seq(Bytes) /\ Len(w7) = Len(w6) + Len(q)
    BY <1>29, <1>31, Written
  <2> QED  BY <1>29, <1>15, <2>1
<1>33. /\ Holds(w7, 0, a1) /\ Holds(w7, 2, a2) /\ Holds(w7, 4, a3) /\ Holds(w7, 6, u) /\ Holds(w7, i1, v)
       /\ Holds(w7, i2, a4) /\ Holds(w7, i3, q)
  <2>1. Holds(w7, Len(w6), q) /\ \A p \in Nat : \A c \in Seq(Bytes) : Holds(w6, p, c) => Holds(w7, p, c)
    BY <1>29, <1>31, Written
  <2> QED  BY <1>29, <1>30, <2>1
<1>34. PICK w8 : Joins(w8, w7, a5)
  BY DEF Joins
<1>35. w8 \in Seq(Bytes) /\ Len(w8) = i5
  <2>1. w8 \in Seq(Bytes) /\ Len(w8) = Len(w7) + Len(a5)
    BY <1>32, <1>34, Written
  <2> QED  BY <1>32, <1>10, <1>16, <2>1
<1>36. /\ Holds(w8, 0, a1) /\ Holds(w8, 2, a2) /\ Holds(w8, 4, a3) /\ Holds(w8, 6, u) /\ Holds(w8, i1, v)
       /\ Holds(w8, i2, a4) /\ Holds(w8, i3, q) /\ Holds(w8, i4, a5)
  <2>1. Holds(w8, Len(w7), a5) /\ \A p \in Nat : \A c \in Seq(Bytes) : Holds(w7, p, c) => Holds(w8, p, c)
    BY <1>32, <1>34, Written
  <2> QED  BY <1>32, <1>33, <2>1
<1>37. PICK w : Joins(w, w8, e)
  BY DEF Joins
<1>38. w \in Seq(Bytes) /\ Len(w) = i5 + Len(e)
  <2>1. w \in Seq(Bytes) /\ Len(w) = Len(w8) + Len(e)
    BY <1>35, <1>37, Written
  <2> QED  BY <1>35, <2>1
<1>39. /\ Holds(w, 0, a1) /\ Holds(w, 2, a2) /\ Holds(w, 4, a3) /\ Holds(w, 6, u) /\ Holds(w, i1, v)
       /\ Holds(w, i2, a4) /\ Holds(w, i3, q) /\ Holds(w, i4, a5) /\ Holds(w, i5, e)
  <2>1. Holds(w, Len(w8), e) /\ \A p \in Nat : \A c \in Seq(Bytes) : Holds(w8, p, c) => Holds(w, p, c)
    BY <1>35, <1>37, Written
  <2> QED  BY <1>35, <1>36, <2>1
<1>40. w = Pack(b)
  BY <1>1, <1>3, <1>4, <1>5, <1>7, <1>8, <1>9, <1>11, <1>19, <1>22, <1>25, <1>28, <1>31, <1>34,
       <1>37 DEF Pack, Joins
<1>41. /\ i1 = 6 + Len(b.Public) /\ i2 = PcrPlace(b) /\ i3 = PcrPlace(b) + 1
      /\ i4 = SeedPlace(b) /\ i5 = SeedPlace(b) + 2 /\ Len(w) = SeedPlace(b) + 2 + Len(b.EncryptedSeeds)
  BY <1>1, <1>2, <1>12, <1>13, <1>14, <1>15, <1>16, <1>38 DEF PcrPlace, SeedPlace
<1> QED  BY <1>1, <1>3, <1>4, <1>5, <1>7, <1>9, <1>38, <1>39, <1>40, <1>41 DEF Laid

\* What Unpack reads of a slice.
PubLen(s) == unpackInt16(s, 2)
PrivLen(s) == unpackInt16(s, 4)
PcrsAt(s) == 6 + PubLen(s) + PrivLen(s)
SeedsAt(s) == PcrsAt(s) + 1 + At(s, PcrsAt(s))
SeedLen(s) == unpackInt16(s, SeedsAt(s))

Legible(s) ==
    /\ Index(s, 1) /\ Reach(s, 6) /\ Reach(s, PcrsAt(s)) /\ Index(s, PcrsAt(s)) /\ Index(s, SeedsAt(s) - 1)
    /\ Reach(s, SeedsAt(s) + 2) /\ Reach(s, SeedsAt(s) + 2 + SeedLen(s))

PublicIn(s) == Slice(s, 6, PubLen(s))
PrivateIn(s) == Slice(s, 6 + PubLen(s), PrivLen(s))

ReadBlob(s) ==
    [Btype |-> At(s, 0), Stype |-> At(s, 1), Public |-> PublicIn(s), Private |-> PrivateIn(s),
     PCRs |-> Slice(s, PcrsAt(s) + 1, At(s, PcrsAt(s))),
     EncryptedSeeds |-> Slice(s, SeedsAt(s) + 2, SeedLen(s))]

\* The outcomes of Unpack.
LEMMA UnpackIs ==
    ASSUME NEW s \in Blobs, NEW type
    PROVE  Unpack(s, type) = IF ~Index(s, 0) THEN Crash
                             ELSE IF At(s, 0) # type THEN Error
                             ELSE IF Legible(s) THEN ReadBlob(s) ELSE Crash
<1>1. CASE ~Index(s, 0)
  <2>1. ~Index(s, 1)
    BY <1>1, BlobFields DEF Index
  <2> QED  BY <1>1, <2>1 DEF Unpack
<1>2. CASE Index(s, 0) /\ At(s, 0) # type
  BY <1>2 DEF Unpack
<1>3. CASE Index(s, 0) /\ At(s, 0) = type /\ Legible(s)
  BY <1>3 DEF Unpack, Legible, ReadBlob, PublicIn, PrivateIn, PubLen, PrivLen, PcrsAt, SeedsAt, SeedLen
<1>4. CASE Index(s, 0) /\ At(s, 0) = type /\ ~Legible(s)
  BY <1>4 DEF Unpack, Legible, PubLen, PrivLen, PcrsAt, SeedsAt, SeedLen
<1> QED  BY <1>1, <1>2, <1>3, <1>4

\* The first n bytes of m are those of w.
Agree(m, n, w) == n <= Len(m) /\ n <= Len(w) /\ \A i \in 1 .. n : m[i] = w[i]

\* A part that has not been cut off is read as it was written.
LEMMA PartRead ==
    ASSUME NEW s \in Blobs, NEW w \in Seq(Bytes), Agree(s.mem, s.len, w),
           NEW p \in Nat, NEW a \in Seq(Bytes), Holds(w, p, a), p + Len(a) <= s.len
    PROVE  /\ Slice(s, p, Len(a)) = a
           /\ \A i \in 1 .. Len(a) : At(s, p + i - 1) = a[i]
<1>1. PICK m \in Seq(Bytes), n \in Nat, l \in Nat : m = s.mem /\ n = s.len /\ l = Len(a)
  BY BlobFields
<1>2. n <= Len(m) /\ p + l <= n /\ Len(m) \in Nat
  BY <1>1 DEF Agree
<1>3. ASSUME NEW i \in 1 .. l PROVE m[p + i] = a[i] /\ p + i - 1 < Len(m) /\ p + i - 1 + 1 = p + i
  <2>1. p + i \in 1 .. n
    BY <1>2
  <2>2. m[p + i] = w[p + i]
    BY <1>1, <2>1 DEF Agree
  <2>3. w[p + i] = a[i]
    BY <1>1 DEF Holds
  <2> QED  BY <1>2, <2>2, <2>3
<1>4. PICK v : v = SubSeq(m, p + 1, p + l)
  OBVIOUS
<1>5. v \in Seq(Bytes) /\ Len(v) = l /\ \A i \in 1 .. l : v[i] = m[p + i]
  <2>1. p + l <= Len(m) /\ l \in Nat /\ p \in Nat
    BY <1>2
  <2> QED  BY <1>4, <2>1, Chunk
<1>6. v = a
  <2>1. v \in Seq(Bytes) /\ Len(v) = Len(a) /\ \A i \in 1 .. Len(a) : v[i] = a[i]
    BY <1>1, <1>3, <1>5
  <2> QED  BY <2>1, SameElements
<1>7. Slice(s, p, Len(a)) = a
  BY <1>1, <1>4, <1>6 DEF Slice
<1>8. ASSUME NEW i \in 1 .. l PROVE At(s, p + i - 1) = a[i]
  BY <1>1, <1>3 DEF At
<1> QED  BY <1>1, <1>7, <1>8

\* So is a length.
LEMMA LengthRead ==
    ASSUME NEW s \in Blobs, NEW w \in Seq(Bytes), Agree(s.mem, s.len, w),
           NEW p \in Nat, NEW n \in Nat, n < Base * Base, Holds(w, p, packInt16(n)), p + 2 <= s.len
    PROVE  unpackInt16(s, p) = n
<1>1. PICK a \in Seq(Bytes) : a = packInt16(n) /\ Len(a) = 2 /\ a[1] + Base * a[2] = n
  BY Int16
<1>2. Len(a) = 2 /\ Holds(w, p, a) /\ p + Len(a) <= s.len
  BY <1>1
<1>3. \A i \in 1 .. Len(a) : At(s, p + i - 1) = a[i]
  BY <1>2, PartRead
<1>4. 1 \in 1 .. 2 /\ 2 \in 1 .. 2 /\ p + 1 - 1 = p /\ p + 2 - 1 = p + 1
  OBVIOUS
<1>5. At(s, p) = a[1] /\ At(s, p + 1) = a[2]
  BY <1>2, <1>3, <1>4
<1> QED  BY <1>1, <1>5 DEF unpackInt16

\* And a byte.
LEMMA ByteRead ==
    ASSUME NEW s \in Blobs, NEW w \in Seq(Bytes), Agree(s.mem, s.len, w),
           NEW p \in Nat, NEW b \in Bytes, Holds(w, p, <<b>>), p < s.len
    PROVE  At(s, p) = b
<1>1. PICK a \in Seq(Bytes) : a = <<b>> /\ Len(a) = 1 /\ a[1] = b
  BY OneByte
<1>2. s.len \in Nat
  BY BlobFields
<1>3. Len(a) = 1 /\ Holds(w, p, a) /\ p + Len(a) <= s.len
  BY <1>1, <1>2
<1>4. \A i \in 1 .. Len(a) : At(s, p + i - 1) = a[i]
  BY <1>3, PartRead
<1>5. 1 \in 1 .. 1 /\ p + 1 - 1 = p
  OBVIOUS
<1> QED  BY <1>1, <1>3, <1>4, <1>5

\* A slice's bytes, and the numbers they make.
LEMMA AtNat == ASSUME NEW s \in Blobs, NEW p \in Nat PROVE At(s, p) \in Nat /\ unpackInt16(s, p) \in Nat
<1>1. PICK m \in Seq(Bytes) : m = s.mem
  BY BlobFields
<1>2. ASSUME NEW i \in Nat PROVE At(s, i) \in Bytes
  <2>1. i < Len(m) => i + 1 \in 1 .. Len(m)
    OBVIOUS
  <2>2. i < Len(m) => m[i + 1] \in Bytes
    BY <2>1
  <2> QED  BY <1>1, <2>2, Tags DEF At
<1>3. At(s, p) \in Nat /\ At(s, p + 1) \in Nat
  <2>1. p + 1 \in Nat
    OBVIOUS
  <2> QED  BY <1>2, <2>1, BlobsAssumption, SMTT(20) DEF Bytes
<1> QED  BY <1>3, BlobsAssumption DEF unpackInt16

\* A slice whose header, public and private part are there has them.
LEMMA HeaderRead ==
    ASSUME NEW s \in Blobs, NEW b, Sized(b), NEW w, Laid(w, b), Agree(s.mem, s.len, w), 6 <= s.len
    PROVE  PubLen(s) = Len(b.Public) /\ PrivLen(s) = Len(b.Private) /\ PcrsAt(s) = PcrPlace(b)
<1>1. w \in Seq(Bytes) /\ Holds(w, 2, packInt16(Len(b.Public))) /\ Holds(w, 4, packInt16(Len(b.Private)))
  BY DEF Laid
<1>2. PICK n \in Nat, l \in Nat : n = Len(b.Public) /\ l = Len(b.Private) /\ n < Base * Base /\ l < Base * Base
  <2>1. Len(b.Public) \in Nat /\ Len(b.Private) \in Nat
    BY ContentFields DEF Sized
  <2> QED  BY <2>1 DEF Sized
<1>3. s.len \in Nat /\ 2 + 2 <= s.len /\ 4 + 2 <= s.len
  BY BlobFields
<1>4. unpackInt16(s, 2) = n
  <2>1. Holds(w, 2, packInt16(n)) /\ w \in Seq(Bytes) /\ 2 \in Nat
    BY <1>1, <1>2
  <2> QED  BY <1>2, <1>3, <2>1, LengthRead
<1>5. unpackInt16(s, 4) = l
  <2>1. Holds(w, 4, packInt16(l)) /\ w \in Seq(Bytes) /\ 4 \in Nat
    BY <1>1, <1>2
  <2> QED  BY <1>2, <1>3, <2>1, LengthRead
<1> QED  BY <1>2, <1>4, <1>5 DEF PubLen, PrivLen, PcrsAt, PcrPlace

\* What Unpack may make of the beginning s of what Pack made of b.
UnpackedAs(s, type, b) ==
    /\ Unpack(s, type) = Crash => ~s.intact
    /\ type # b.Btype => Unpack(s, type) \in {Crash, Error}
    /\ type = b.Btype =>
        /\ s.intact => Unpack(s, type) = b
        /\ \/ Unpack(s, type) \in {Crash, Error}
           \/ Unpack(s, type).Public = b.Public /\ Unpack(s, type).Private = b.Private

\* What can be read at all has the public and the private part that were packed.
LEMMA PartsRead ==
    ASSUME NEW s \in Blobs, NEW b, Sized(b), NEW w, Laid(w, b), Agree(s.mem, s.len, w), Legible(s)
    PROVE  PublicIn(s) = b.Public /\ PrivateIn(s) = b.Private /\ PcrPlace(b) < s.len
<1>1. s.len \in Nat /\ PubLen(s) \in Nat /\ PrivLen(s) \in Nat
  BY BlobFields, AtNat DEF PubLen, PrivLen
<1>2. PcrsAt(s) < s.len /\ 6 <= s.len
  BY <1>1 DEF Legible, Index, PcrsAt
<1>3. PubLen(s) = Len(b.Public) /\ PrivLen(s) = Len(b.Private) /\ PcrsAt(s) = PcrPlace(b)
  BY <1>2, HeaderRead
<1>4. PICK u \in Seq(Bytes), v \in Seq(Bytes) : u = b.Public /\ v = b.Private
  BY ContentFields DEF Sized
<1>5. w \in Seq(Bytes) /\ Holds(w, 6, u) /\ Holds(w, 6 + Len(u), v)
  BY <1>4 DEF Laid
<1>6. Len(u) \in Nat /\ Len(v) \in Nat /\ 6 + Len(u) \in Nat
  OBVIOUS
<1>7. 6 + Len(u) <= s.len /\ (6 + Len(u)) + Len(v) <= s.len
  <2>1. PcrsAt(s) = 6 + Len(u) + Len(v)
    BY <1>3, <1>4 DEF PcrPlace
  <2> QED  BY <1>1, <1>2, <1>6, <2>1
<1>8. Slice(s, 6, Len(u)) = u
  BY <1>5, <1>7, PartRead
<1>9. Slice(s, 6 + Len(u), Len(v)) = v
  BY <1>5, <1>6, <1>7, PartRead
<1> QED  BY <1>2, <1>3, <1>4, <1>8, <1>9 DEF PublicIn, PrivateIn

\* A complete slice can be read, and has all that was packed.
LEMMA AllRead ==
    ASSUME NEW s \in Blobs, NEW b, Sized(b), NEW w, Laid(w, b), Agree(s.mem, s.len, w), s.len = Len(w)
    PROVE  Legible(s) /\ ReadBlob(s) = b
<1>1. PICK u \in Seq(Bytes), v \in Seq(Bytes), q \in Seq(Bytes), e \in Seq(Bytes) :
        u = b.Public /\ v = b.Private /\ q = b.PCRs /\ e = b.EncryptedSeeds
  BY ContentFields DEF Sized
<1>2. PICK lu \in Nat, lv \in Nat, lq \in Nat, le \in Nat :
        lu = Len(u) /\ lv = Len(v) /\ lq = Len(q) /\ le = Len(e)
  OBVIOUS
<1>3. PICK i2 \in Nat, i4 \in Nat : i2 = 6 + lu + lv /\ i4 = i2 + 1 + lq
  <2>1. 6 + lu + lv \in Nat /\ (6 + lu + lv) + 1 + lq \in Nat
    OBVIOUS
  <2> QED  BY <2>1
<1>a. i4 = i2 + 1 + lq /\ 6 <= i2
  BY <1>3
<1>4. i2 = PcrPlace(b) /\ i4 = SeedPlace(b)
  <2>1. PcrPlace(b) = 6 + lu + lv
    BY <1>1, <1>2 DEF PcrPlace
  <2>2. SeedPlace(b) = PcrPlace(b) + 1 + lq
    BY <1>1, <1>2 DEF SeedPlace
  <2> QED  BY <1>3, <2>1, <2>2
<1>5. s.len = i4 + 2 + le /\ s.len \in Nat /\ Len(s.mem) \in Nat /\ s.len <= Len(s.mem)
  BY <1>1, <1>2, <1>4, BlobFields, SMTT(20) DEF Laid, Agree
<1>6. PcrsAt(s) = i2
  <2>1. 6 <= s.len
    BY <1>a, <1>5
  <2> QED  BY <1>4, <2>1, HeaderRead
<1>7. /\ w \in Seq(Bytes) /\ Holds(w, i2, <<lq>>) /\ Holds(w, i2 + 1, q) /\ Holds(w, i4, packInt16(le))
      /\ Holds(w, i4 + 2, e)
  BY <1>1, <1>2, <1>4 DEF Laid
<1>8. At(s, i2) = lq
  <2>1. lq \in Bytes
    BY <1>1, <1>2, BlobsAssumption DEF Sized, Bytes
  <2>2. i2 < s.len
    BY <1>a, <1>5
  <2>3. w \in Seq(Bytes) /\ Holds(w, i2, <<lq>>)
    BY <1>7
  <2> QED  BY <2>1, <2>2, <2>3, ByteRead
<1>9. SeedsAt(s) = i4
  BY <1>a, <1>6, <1>8 DEF SeedsAt
<1>10. unpackInt16(s, i4) = le
  <2>1. le < Base * Base
    BY <1>1, <1>2 DEF Sized
  <2>3. i4 + 2 <= s.len
    BY <1>5
  <2>2. w \in Seq(Bytes) /\ Holds(w, i4, packInt16(le))
    BY <1>7
  <2> QED  BY <2>1, <2>2, <2>3, LengthRead
<1>11. SeedLen(s) = le
  BY <1>9, <1>10 DEF SeedLen
<1>12. Legible(s)
  <2>1. 1 < s.len /\ 6 <= Len(s.mem) /\ i2 <= Len(s.mem) /\ i2 < s.len /\ i4 - 1 < s.len
    BY <1>a, <1>5
  <2>2. i4 + 2 <= Len(s.mem) /\ i4 + 2 + le <= Len(s.mem)
    BY <1>5
  <2> QED  BY <1>6, <1>9, <1>11, <2>1, <2>2 DEF Legible, Index, Reach
<1>13. PublicIn(s) = b.Public /\ PrivateIn(s) = b.Private
  BY <1>12, PartsRead
<1>14. Slice(s, i2 + 1, lq) = q
  <2>1. i2 + 1 \in Nat /\ (i2 + 1) + Len(q) <= s.len
    BY <1>2, <1>a, <1>5
  <2>2. w \in Seq(Bytes) /\ Holds(w, i2 + 1, q)
    BY <1>7
  <2>3. Slice(s, i2 + 1, Len(q)) = q
    BY <2>1, <2>2, PartRead, ZenonT(30)
  <2> QED  BY <1>2, <2>3
<1>15. Slice(s, i4 + 2, le) = e
  <2>1. i4 + 2 \in Nat /\ (i4 + 2) + Len(e) <= s.len
    BY <1>2, <1>5
  <2>2. w \in Seq(Bytes) /\ Holds(w, i4 + 2, e)
    BY <1>7
  <2>3. Slice(s, i4 + 2, Len(e)) = e
    BY <2>1, <2>2, PartRead, ZenonT(30)
  <2> QED  BY <1>2, <2>3
<1>16. At(s, 0) = b.Btype /\ At(s, 1) = b.Stype
  <2>1. PICK x \in Bytes, y \in Bytes : x = b.Btype /\ y = b.Stype
    BY ContentFields DEF Sized
  <2>2. PICK a \in Seq(Bytes) : a = <<x, y>> /\ Len(a) = 2 /\ a[1] = x /\ a[2] = y
    <3>1. <<x, y>> \in Seq(Bytes) /\ Len(<<x, y>>) = 2 /\ <<x, y>>[1] = x /\ <<x, y>>[2] = y
      OBVIOUS
    <3> QED  BY <3>1
  <2>3. Len(a) = 2 /\ Holds(w, 0, a) /\ 0 + Len(a) <= s.len /\ 0 \in Nat
    <3>1. Holds(w, 0, a) /\ Len(a) = 2
      BY <2>1, <2>2 DEF Laid
    <3>2. 2 <= s.len
      BY <1>a, <1>5
    <3> QED  BY <3>1, <3>2
  <2>4. \A i \in 1 .. Len(a) : At(s, 0 + i - 1) = a[i]
    <3>1. w \in Seq(Bytes)
      BY <1>7
    <3>2. Holds(w, 0, a) /\ 0 + Len(a) <= s.len /\ 0 \in Nat
      BY <2>3
    <3> QED  BY <3>1, <3>2, PartRead
  <2>5. 0 + 1 - 1 = 0 /\ 0 + 2 - 1 = 1 /\ 1 \in 1 .. 2 /\ 2 \in 1 .. 2
    OBVIOUS
  <2>6. At(s, 0) = a[1] /\ At(s, 1) = a[2]
    BY <2>3, <2>4, <2>5
  <2> QED  BY <2>1, <2>2, <2>6
<1>17. ReadBlob(s) = [Btype |-> b.Btype, Stype |-> b.Stype, Public |-> b.Public, Private |-> b.Private,
                      PCRs |-> b.PCRs, EncryptedSeeds |-> b.EncryptedSeeds]
  BY <1>1, <1>6, <1>8, <1>9, <1>11, <1>13, <1>14, <1>15, <1>16 DEF ReadBlob
<1> QED  BY <1>12, <1>17, ContentFields DEF Sized

\* Unpack gives back what Pack wrote.
LEMMA Unpacked ==
    ASSUME NEW s \in Blobs, s.len <= Len(s.mem), NEW b, Sized(b), Packed(s, b), NEW type \in Bytes
    PROVE  UnpackedAs(s, type, b)
<1>1. PICK w : w = Pack(b)
  OBVIOUS
<1>2. Laid(w, b)
  BY <1>1, PackLays
<1>3. Agree(s.mem, s.len, w) /\ (s.intact => s.len = Len(w))
  BY <1>1 DEF Packed, Agree
<1>4. PICK x : x = Unpack(s, type)
  OBVIOUS
<1>5. x = IF ~Index(s, 0) THEN Crash ELSE IF At(s, 0) # type THEN Error
          ELSE IF Legible(s) THEN ReadBlob(s) ELSE Crash
  BY <1>4, UnpackIs
<1>6. s.intact => Legible(s) /\ ReadBlob(s) = b
  BY <1>2, <1>3, AllRead
<1>7. Index(s, 0) => At(s, 0) = b.Btype
  <2>1. PICK t \in Bytes, y \in Bytes : t = b.Btype /\ y = b.Stype
    BY ContentFields DEF Sized
  <2>2. PICK h : h = <<t, y>>
    OBVIOUS
  <2>3. Holds(w, 0, h) /\ Len(h) = 2 /\ h[1] = t
    BY <1>2, <2>1, <2>2 DEF Laid
  <2>4. w[0 + 1] = t
    <3>1. 1 \in 1 .. 2
      OBVIOUS
    <3> QED  BY <2>3, <3>1 DEF Holds
  <2>5. s.len \in Nat /\ Len(s.mem) \in Nat /\ s.len <= Len(s.mem) /\ \A i \in 1 .. s.len : s.mem[i] = w[i]
    BY <1>3, BlobFields DEF Agree
  <2>6. ASSUME 0 < s.len PROVE At(s, 0) = t
    <3>1. 0 + 1 = 1 /\ 1 \in 1 .. s.len /\ 0 < Len(s.mem)
      BY <2>5, <2>6
    <3>2. s.mem[0 + 1] = t
      BY <2>4, <2>5, <3>1
    <3> QED  BY <3>1, <3>2 DEF At
  <2> QED  BY <2>1, <2>6 DEF Index
<1>8. s.intact => Index(s, 0)
  <2>1. Legible(s) => 1 < s.len
    BY DEF Legible, Index
  <2>2. s.len \in Nat
    BY BlobFields
  <2> QED  BY <1>6, <2>1, <2>2 DEF Index
<1>9. Legible(s) => PublicIn(s) = b.Public /\ PrivateIn(s) = b.Private
  BY <1>2, <1>3, PartsRead
<1>10. ReadBlob(s).Public = PublicIn(s) /\ ReadBlob(s).Private = PrivateIn(s)
  BY DEF ReadBlob
<1>11. b # Crash /\ b # Error /\ Error # Crash
  BY OutcomesDiffer DEF Sized
<1>12. /\ x = Crash => ~s.intact
       /\ type # b.Btype => x \in {Crash, Error}
       /\ type = b.Btype =>
           /\ s.intact => x = b
           /\ x \in {Crash, Error} \/ (x.Public = b.Public /\ x.Private = b.Private)
  BY <1>5, <1>6, <1>7, <1>8, <1>9, <1>10, <1>11
<1> QED  BY <1>4, <1>12 DEF UnpackedAs

-----------------------------------------------------------------------------
(* OffHostWrap, PackKey, UnwrapImportable and ReadKeyParts.                *)

\* The PCRs in any order are the PCRs.
LEMMA Orders ==
    ASSUME NEW pcrs \in PCRSets, NEW order \in SetToSeqs(pcrs)
    PROVE  order \in Seq(Bytes) /\ Len(order) < Base /\ Range(order) = pcrs
<1>1. pcrs \subseteq Bytes /\ Cardinality(pcrs) < Base
  BY BlobsAssumption
<1>2. IsFiniteSet(pcrs)
  <2>1. 0 \in Int /\ Base - 1 \in Int
    BY BlobsAssumption
  <2>2. IsFiniteSet(Bytes)
    BY <2>1, FS_Interval DEF Bytes
  <2> QED  BY <1>1, <2>2, FS_Subset
<1>3. PICK n \in Nat : n = Cardinality(pcrs)
  BY <1>2, FS_CardinalityType
<1>4. order \in [1 .. n -> pcrs] /\ \A i, j \in 1 .. n : i # j => order[i] # order[j]
  BY <1>3 DEF SetToSeqs
<1>5. order \in Seq(Bytes) /\ Len(order) = n
  BY <1>1, <1>4
<1>6. order \in Injection(1 .. n, pcrs)
  BY <1>4 DEF Injection, IsInjective
<1>7. Cardinality(1 .. n) = n
  <2>1. 1 \in Int /\ n \in Int /\ (IF 1 > n THEN 0 ELSE n - 1 + 1) = n
    OBVIOUS
  <2> QED  BY <2>1, FS_Interval
<1>8. order \in Surjection(1 .. n, pcrs)
  BY <1>2, <1>3, <1>6, <1>7, FS_Injection
<1> QED  BY <1>1, <1>3, <1>5, <1>8, Fun_SurjectionProperties

\* The parts of blobs are bytes, and short enough.
LEMMA PartsSized ==
    ASSUME NEW d \in Data
    PROVE  /\ d \in Seq(Bytes)
           /\ Private(d) \in Seq(Bytes) /\ Len(Private(d)) < Base * Base
           /\ Public(d) \in Seq(Bytes) /\ Len(Public(d)) < Base * Base
           /\ Tail(Private(d)) = d /\ Private(d) # <<>>
<1>1. d \in Seq(Bytes) /\ Len(d) + 1 < Base * Base
  BY BlobsAssumption
<1>2. PICK h : h = <<1>>
  OBVIOUS
<1>3. PICK g : g = <<2>>
  OBVIOUS
<1>4. PICK u : u = h \o d
  OBVIOUS
<1>5. PICK v : v = g \o d
  OBVIOUS
<1>6. d \in Seq(Bytes) /\ 1 \in Bytes /\ 2 \in Bytes
  BY <1>1, Tags
<1>7. u \in Seq(Bytes) /\ Len(u) = Len(d) + 1
  BY <1>2, <1>4, <1>6, Prepend
<1>8. v \in Seq(Bytes) /\ Len(v) = Len(d) + 1
  BY <1>3, <1>5, <1>6, Prepend
<1>9. Tail(u) = d /\ u # <<>>
  BY <1>2, <1>4, <1>6, PrependTail
<1>10. Private(d) = u /\ Public(d) = v
  BY <1>2, <1>3, <1>4, <1>5 DEF Private, Public
<1> QED  BY <1>1, <1>7, <1>8, <1>9, <1>10

\* So is the public area of an import blob.
LEMMA AreaSized ==
    ASSUME NEW pcrs
    PROVE  Area(pcrs) \in Seq(Bytes) /\ Len(Area(pcrs)) < Base * Base
<1>1. PICK n \in Nat : n = Base /\ n > 6
  BY BlobsAssumption
<1>2. PICK f : f = [i \in 1 .. Base |-> IF i - 1 \in pcrs THEN 1 ELSE 0]
  OBVIOUS
<1>3. f \in Seq(Bytes) /\ Len(f) = n
  <2>1. 0 \in Bytes /\ 1 \in Bytes
    BY Tags
  <2>2. f \in [1 .. n -> Bytes]
    BY <1>1, <1>2, <2>1
  <2> QED  BY <2>2
<1>4. PICK h : h = <<2>>
  OBVIOUS
<1>5. PICK u : u = h \o f
  OBVIOUS
<1>6. f \in Seq(Bytes) /\ 2 \in Bytes
  BY <1>3, Tags
<1>7. u \in Seq(Bytes) /\ Len(u) = Len(f) + 1
  BY <1>4, <1>5, <1>6, Prepend
<1>8. n + 1 < n * n
  BY <1>1
<1>9. Area(pcrs) = u
  BY <1>2, <1>4, <1>5 DEF Area
<1>10. Len(u) = n + 1
  BY <1>3, <1>7
<1> QED  BY <1>1, <1>7, <1>8, <1>9, <1>10

\* Import blobs can be packed.
LEMMA ImportSized ==
    ASSUME NEW d \in Data, NEW pcrs \in PCRSets, NEW order \in SetToSeqs(pcrs)
    PROVE  Sized(ImportBlob(d, pcrs, order))
<1>1. Seed \in Seq(Bytes) /\ Len(Seed) = 2
  BY Tags DEF Seed
<1>2. Base * Base > 2
  BY BlobsAssumption
<1>3. 6 \in Bytes /\ 0 \in Bytes
  BY Tags
<1>4. PICK u \in Seq(Bytes), v \in Seq(Bytes), e \in Seq(Bytes) : u = Area(pcrs) /\ v = Private(d) /\ e = Seed
  BY <1>1, PartsSized, AreaSized
<1>5. order \in Seq(Bytes) /\ Len(order) < Base
  BY Orders
<1>6. PICK b : b = [Btype |-> 6, Stype |-> 0, Public |-> u, Private |-> v, PCRs |-> order, EncryptedSeeds |-> e]
  OBVIOUS
<1>7. b \in Contents /\ b.Public = u /\ b.Private = v /\ b.PCRs = order /\ b.EncryptedSeeds = e
  BY <1>3, <1>5, <1>6 DEF Contents
<1>8. Len(u) < Base * Base /\ Len(v) < Base * Base /\ Len(e) < Base * Base
  BY <1>1, <1>2, <1>4, PartsSized, AreaSized
<1>9. Sized(b)
  BY <1>5, <1>7, <1>8 DEF Sized
<1> QED  BY <1>4, <1>6, <1>9 DEF ImportBlob, ImportTypeTPM

\* And key blobs.
LEMMA KeySized == ASSUME NEW d \in Data PROVE Sized(KeyBlob(d))
<1>1. PICK z : z = <<>>
  OBVIOUS
<1>2. z \in Seq(Bytes) /\ Len(z) = 0
  BY <1>1
<1>3. 4 \in Bytes /\ 0 \in Bytes
  BY Tags
<1>4. PICK u \in Seq(Bytes), v \in Seq(Bytes) : u = Public(d) /\ v = Private(d)
  BY PartsSized
<1>5. PICK b : b = [Btype |-> 4, Stype |-> 0, Public |-> u, Private |-> v, PCRs |-> z, EncryptedSeeds |-> z]
  OBVIOUS
<1>6. b \in Contents /\ b.Public = u /\ b.Private = v /\ b.PCRs = z /\ b.EncryptedSeeds = z
  BY <1>2, <1>3, <1>5 DEF Contents
<1>7. Len(u) < Base * Base /\ Len(v) < Base * Base
  BY <1>4, PartsSized
<1>8. Len(z) < Base * Base /\ Len(z) < Base
  <2>1. 0 < Base * Base /\ 0 < Base
    BY BlobsAssumption
  <2> QED  BY <1>2, <2>1
<1>9. Sized(b)
  BY <1>6, <1>7, <1>8 DEF Sized
<1> QED  BY <1>1, <1>4, <1>5, <1>9 DEF KeyBlob, KeyTypeTPM

\* The slice s is all that Pack made of b.
Puts(s, kind, secret, b) == s = Stored(kind, secret, Pack(b))

\* What Pack wrote, put away, is kept whole.
LEMMA PackedStored ==
    ASSUME NEW kind \in {"wrap", "import", "key"}, NEW secret \in Seq(Seq(Bytes)), NEW b, Sized(b),
           NEW s, Puts(s, kind, secret, b)
    PROVE  /\ s \in Blobs /\ s.len <= Len(s.mem) /\ s.intact = TRUE
           /\ s.kind = kind /\ s.secret = secret /\ Packed(s, b)
<1>1. PICK w \in Seq(Bytes) : w = Pack(b)
  BY PackLays DEF Laid
<1>2. PICK n \in Nat : n = Len(w)
  OBVIOUS
<1>3. s = [kind |-> kind, secret |-> secret, intact |-> TRUE, mem |-> w, len |-> n]
  BY <1>1, <1>2 DEF Puts, Stored
<1>4. s \in Blobs
  BY <1>3 DEF Blobs
<1>5. s.intact = TRUE /\ s.kind = kind /\ s.secret = secret /\ s.mem = w /\ s.len = n
  BY <1>3
<1>6. s.len <= Len(s.mem) /\ Packed(s, b)
  BY <1>1, <1>2, <1>5 DEF Packed
<1> QED  BY <1>4, <1>5, <1>6

\* OffHostWrap puts an import blob away, or nothing and fails.
LEMMA OffHostWrapKeeps ==
    ASSUME IInv, NEW d \in Data, NEW pcrs \in PCRSets, OffHostWrap(d, pcrs)
    PROVE  IInv' /\ VaultStep
<1>1. CASE End(Error) /\ faulty' = TRUE
  <2>1. stored' = stored /\ pc' = "idle" /\ result' = Error /\ faulty' = TRUE
    BY <1>1 DEF End
  <2>2. Reported'
    BY <2>1, OutcomesDiffer DEF Reported
  <2> QED  BY <2>1, <2>2, EndKeeps, VaultEnd DEF IInv
<1>2. CASE ~(End(Error) /\ faulty' = TRUE)
  <2>1. PICK order \in SetToSeqs(pcrs) :
          /\ stored' = Stored("import", <<d>>, Pack(ImportBlob(d, pcrs, order)))
          /\ pc' = "idle" /\ result' = None /\ faulty' = FALSE
    BY <1>2 DEF OffHostWrap, Keep
  <2>2. PICK s : s = stored'
    OBVIOUS
  <2>3. PICK t : t = <<d>>
    OBVIOUS
  <2>4. t \in Seq(Seq(Bytes))
    <3>1. d \in Seq(Bytes)
      BY PartsSized
    <3> QED  BY <2>3, <3>1
  <2>5. PICK b : b = ImportBlob(d, pcrs, order) /\ Sized(b)
    BY ImportSized
  <2>6. Sized(b) /\ Puts(s, "import", t, b) /\ "import" \in {"wrap", "import", "key"}
    BY <2>1, <2>2, <2>3, <2>5 DEF Puts
  <2>7. /\ s \in Blobs /\ s.len <= Len(s.mem) /\ s.intact = TRUE
        /\ s.kind = "import" /\ s.secret = t /\ Packed(s, b)
    BY <2>4, <2>6, PackedStored
  <2>8. PackedImport(s)
    BY <2>3, <2>5, <2>7 DEF PackedImport
  <2>9. Sound(s)
    BY <2>7, <2>8 DEF Sound
  <2>10. IInv'
    BY <2>1, <2>2, <2>7, <2>9, KeepKeeps
  <2>11. VaultStep
    BY <2>1, <2>2, <2>3, <2>7, VaultPut
  <2> QED  BY <2>10, <2>11
<1> QED  BY <1>1, <1>2

\* A caller of Pack puts a key blob away.
LEMMA PackKeyKeeps == ASSUME IInv, NEW d \in Data, PackKey(d) PROVE IInv' /\ VaultStep
<1>1. /\ stored' = Stored("key", <<Public(d), Private(d)>>, Pack(KeyBlob(d)))
      /\ pc' = "idle" /\ result' = None /\ faulty' = FALSE
  BY DEF PackKey, Begin, Keep
<1>2. PICK s : s = stored'
  OBVIOUS
<1>3. PICK t : t = <<Public(d), Private(d)>>
  OBVIOUS
<1>4. t \in Seq(Seq(Bytes))
  <2>1. PICK u \in Seq(Bytes), v \in Seq(Bytes) : u = Public(d) /\ v = Private(d)
    BY PartsSized
  <2>2. <<u, v>> \in Seq(Seq(Bytes))
    OBVIOUS
  <2> QED  BY <1>3, <2>1, <2>2
<1>5. PICK b : b = KeyBlob(d) /\ Sized(b)
  BY KeySized
<1>6. Sized(b) /\ Puts(s, "key", t, b) /\ "key" \in {"wrap", "import", "key"}
  BY <1>1, <1>2, <1>3, <1>5 DEF Puts
<1>7. /\ s \in Blobs /\ s.len <= Len(s.mem) /\ s.intact = TRUE
      /\ s.kind = "key" /\ s.secret = t /\ Packed(s, b)
  BY <1>4, <1>6, PackedStored
<1>8. PackedKey(s)
  BY <1>3, <1>5, <1>7 DEF PackedKey
<1>9. Sound(s)
  BY <1>7, <1>8 DEF Sound
<1>10. IInv'
  BY <1>1, <1>2, <1>7, <1>9, KeepKeeps
<1>11. VaultStep
  BY <1>1, <1>2, <1>3, <1>7, VaultPut
<1> QED  BY <1>10, <1>11

\* The contents of a blob that is kept and is not wrapped data.
LEMMA PackKept ==
    ASSUME IInv, stored # None, stored.kind # "wrap"
    PROVE  /\ stored \in Blobs /\ stored.len <= Len(stored.mem) /\ stored.secret \notin {Error, Crash}
           /\ \/ /\ stored.kind = "import"
                 /\ \E d \in Data, pcrs \in PCRSets : \E order \in SetToSeqs(pcrs) :
                       stored.secret = <<d>> /\ Packed(stored, ImportBlob(d, pcrs, order))
              \/ /\ stored.kind = "key"
                 /\ \E d \in Data : stored.secret = <<Public(d), Private(d)>> /\ Packed(stored, KeyBlob(d))
<1>1. stored \in Blobs /\ stored.len <= Len(stored.mem) /\ Sound(stored)
  BY DEF IInv, TypeOK
<1>2. stored.kind \in {"wrap", "import", "key"} /\ stored.secret \in Seq(Seq(Bytes))
  BY <1>1, BlobFields
<1>3. stored.secret \notin {Error, Crash}
  BY <1>2, OutcomesDiffer
<1> QED  BY <1>1, <1>2, <1>3 DEF Sound, PackedImport, PackedKey

\* The types of the blobs.
LEMMA Types ==
    /\ KeyTypeTPM \in Bytes /\ ImportTypeTPM \in Bytes /\ KeyTypeTPM # ImportTypeTPM
    /\ \A d, pcrs, order : ImportBlob(d, pcrs, order).Btype = ImportTypeTPM
    /\ \A d : KeyBlob(d).Btype = KeyTypeTPM
BY Tags DEF KeyTypeTPM, ImportTypeTPM, ImportBlob, KeyBlob

\* ReadKeyParts gives the parts of a key blob, or refuses; it panics over a
\* damaged blob only.
LEMMA ReadKeyPartsKeeps == ASSUME IInv, ReadKeyParts PROVE IInv' /\ VaultStep
<1>0. stored # None /\ stored.kind # "wrap" /\ TypeOK
  BY DEF ReadKeyParts, IInv
<1>1. PICK x : x = Unpack(stored, KeyTypeTPM)
  OBVIOUS
<1>2. /\ stored' = stored /\ pc' = "idle" /\ faulty' = FALSE /\ call' = [op |-> "ReadKeyParts"]
      /\ result' = IF x \in {Crash, Error} THEN x ELSE <<x.Public, x.Private>>
  BY <1>1 DEF ReadKeyParts, Begin, End
<1>3. stored \in Blobs /\ stored.len <= Len(stored.mem) /\ stored.secret \notin {Error, Crash}
  BY <1>0, PackKept
<1>4. call'.op = "ReadKeyParts"
  BY <1>2
<1>5. CASE stored.kind = "import"
  <2>1. PICK d \in Data, pcrs \in PCRSets : \E order \in SetToSeqs(pcrs) : Packed(stored, ImportBlob(d, pcrs, order))
    BY <1>0, <1>5, PackKept
  <2>2. PICK order \in SetToSeqs(pcrs) : Packed(stored, ImportBlob(d, pcrs, order))
    BY <2>1
  <2>3. PICK b : b = ImportBlob(d, pcrs, order)
    OBVIOUS
  <2>4. Sized(b) /\ Packed(stored, b) /\ KeyTypeTPM \in Bytes /\ KeyTypeTPM # b.Btype
    BY <2>2, <2>3, ImportSized, Types
  <2>5. UnpackedAs(stored, KeyTypeTPM, b)
    BY <1>3, <2>4, Unpacked
  <2>6. x \in {Crash, Error} /\ (x = Crash => ~stored.intact)
    BY <1>1, <2>4, <2>5 DEF UnpackedAs
  <2>7. Reported'
    BY <1>2, <1>4, <1>5 DEF Reported, Explained
  <2>8. IInv'
    BY <1>2, <2>7, EndKeeps
  <2>9. \/ result' = Error
        \/ ~stored.intact /\ result' = Crash
    BY <1>2, <2>6
  <2>10. VaultStep
    BY <1>0, <1>2, <2>9, VaultEnd
  <2> QED  BY <2>8, <2>10
<1>6. CASE stored.kind = "key"
  <2>1. PICK d \in Data : stored.secret = <<Public(d), Private(d)>> /\ Packed(stored, KeyBlob(d))
    BY <1>0, <1>6, PackKept
  <2>2. PICK b : b = KeyBlob(d)
    OBVIOUS
  <2>3. Sized(b) /\ Packed(stored, b) /\ KeyTypeTPM \in Bytes /\ KeyTypeTPM = b.Btype
    BY <2>1, <2>2, KeySized, Types
  <2>4. UnpackedAs(stored, KeyTypeTPM, b)
    BY <1>3, <2>3, Unpacked
  <2>5. b.Public = Public(d) /\ b.Private = Private(d)
    BY <2>2 DEF KeyBlob
  <2>6. b \notin {Crash, Error}
    BY <2>3, OutcomesDiffer DEF Sized
  <2>7. /\ x = Crash => ~stored.intact
        /\ stored.intact => x = b
        /\ x \in {Crash, Error} \/ (x.Public = b.Public /\ x.Private = b.Private)
    BY <1>1, <2>3, <2>4 DEF UnpackedAs
  <2>8. CASE x \in {Crash, Error}
    <3>1. ~stored.intact
      BY <2>6, <2>7, <2>8
    <3>2. Reported'
      BY <1>2, <1>4, <3>1 DEF Reported, Explained
    <3>3. IInv'
      BY <1>2, <3>2, EndKeeps
    <3>4. \/ result' = Error
          \/ ~stored.intact /\ result' = Crash
      BY <1>2, <2>8, <3>1
    <3>5. VaultStep
      BY <1>0, <1>2, <3>4, VaultEnd
    <3> QED  BY <3>3, <3>5
  <2>9. CASE x \notin {Crash, Error}
    <3>1. result' = stored.secret
      BY <1>2, <2>1, <2>5, <2>7, <2>9
    <3>2. Reported'
      BY <1>3, <3>1 DEF Reported
    <3>3. IInv'
      BY <1>2, <3>2, EndKeeps
    <3>4. VaultStep
      BY <1>0, <1>2, <3>1, VaultEnd
    <3> QED  BY <3>3, <3>4
  <2> QED  BY <2>8, <2>9
<1> QED  BY <1>0, <1>5, <1>6, PackKept

\* What UnwrapImportable checks before it gives out the secret.
Accepted(x) ==
    /\ x.Public = Area(Range(x.PCRs)) /\ x.EncryptedSeeds = Seed
    /\ x.Private # <<>> /\ x.Private = Private(Tail(x.Private))

\* It accepts an import blob.
LEMMA ImportAccepted ==
    ASSUME NEW d \in Data, NEW pcrs \in PCRSets, NEW order \in SetToSeqs(pcrs), NEW b,
           b = ImportBlob(d, pcrs, order)
    PROVE  Accepted(b)
<1>1. b.Public = Area(pcrs) /\ b.PCRs = order /\ b.EncryptedSeeds = Seed /\ b.Private = Private(d)
  BY DEF ImportBlob
<1>2. Range(order) = pcrs
  BY Orders
<1>3. Tail(Private(d)) = d /\ Private(d) # <<>>
  BY PartsSized
<1> QED  BY <1>1, <1>2, <1>3 DEF Accepted

\* UnwrapImportable gives the secret of an import blob, or refuses; it panics
\* over a damaged blob only.
LEMMA UnwrapImportableKeeps == ASSUME IInv, UnwrapImportable PROVE IInv' /\ VaultStep
<1>0. stored # None /\ stored.kind # "wrap" /\ TypeOK
  BY DEF UnwrapImportable, IInv
<1>1. PICK x : x = Unpack(stored, ImportTypeTPM)
  OBVIOUS
<1>2. call' = [op |-> "UnwrapImportable"] /\ stored' = stored /\ pc' = "idle"
  BY DEF UnwrapImportable, End
<1>3. stored \in Blobs /\ stored.len <= Len(stored.mem) /\ stored.secret \notin {Error, Crash}
  BY <1>0, PackKept
<1>4. call'.op = "UnwrapImportable"
  BY <1>2
<1>5. IF x \in {Crash, Error} THEN result' = x /\ faulty' = FALSE
      ELSE \/ result' = (IF Accepted(x) THEN <<Tail(x.Private)>> ELSE Error) /\ faulty' = FALSE
           \/ result' = Error /\ faulty' = TRUE
  BY <1>1 DEF UnwrapImportable, End, Accepted
<1>6. faulty' \in BOOLEAN
  BY <1>5
<1>7. CASE stored.kind = "key"
  <2>1. PICK d \in Data : Packed(stored, KeyBlob(d))
    BY <1>0, <1>7, PackKept
  <2>2. PICK b : b = KeyBlob(d)
    OBVIOUS
  <2>3. Sized(b) /\ Packed(stored, b) /\ ImportTypeTPM \in Bytes /\ ImportTypeTPM # b.Btype
    BY <2>1, <2>2, KeySized, Types
  <2>4. UnpackedAs(stored, ImportTypeTPM, b)
    BY <1>3, <2>3, Unpacked
  <2>5. x \in {Crash, Error} /\ (x = Crash => ~stored.intact)
    BY <1>1, <2>3, <2>4 DEF UnpackedAs
  <2>6. Reported'
    BY <1>2, <1>4, <1>7 DEF Reported, Explained
  <2>7. IInv'
    BY <1>2, <1>6, <2>6, EndKeeps
  <2>8. \/ result' = Error
        \/ ~stored.intact /\ result' = Crash
    BY <1>5, <2>5
  <2>9. VaultStep
    BY <1>0, <1>2, <2>8, VaultEnd
  <2> QED  BY <2>7, <2>9
<1>8. CASE stored.kind = "import"
  <2>1. PICK d \in Data, pcrs \in PCRSets : \E order \in SetToSeqs(pcrs) :
          stored.secret = <<d>> /\ Packed(stored, ImportBlob(d, pcrs, order))
    BY <1>0, <1>8, PackKept
  <2>2. PICK order \in SetToSeqs(pcrs) : stored.secret = <<d>> /\ Packed(stored, ImportBlob(d, pcrs, order))
    BY <2>1
  <2>3. PICK b : b = ImportBlob(d, pcrs, order)
    OBVIOUS
  <2>4. Sized(b) /\ Packed(stored, b) /\ ImportTypeTPM \in Bytes /\ ImportTypeTPM = b.Btype
    BY <2>2, <2>3, ImportSized, Types
  <2>5. UnpackedAs(stored, ImportTypeTPM, b)
    BY <1>3, <2>4, Unpacked
  <2>6. b.Private = Private(d) /\ Accepted(b)
    <3>1. Accepted(b)
      BY <2>3, ImportAccepted
    <3> QED  BY <2>3, <3>1 DEF ImportBlob
  <2>7. b \notin {Crash, Error}
    BY <2>4, OutcomesDiffer DEF Sized
  <2>8. /\ x = Crash => ~stored.intact
        /\ stored.intact => x = b
        /\ x \in {Crash, Error} \/ x.Private = b.Private
    BY <1>1, <2>4, <2>5 DEF UnpackedAs
  <2>9. Tail(Private(d)) = d
    BY PartsSized
  <2>10. \/ result' = stored.secret
         \/ result' = Error /\ (faulty' = TRUE \/ ~stored.intact)
         \/ result' = Crash /\ ~stored.intact
    <3>1. CASE x \in {Crash, Error}
      BY <1>5, <2>7, <2>8, <3>1
    <3>2. CASE x \notin {Crash, Error} /\ result' = Error /\ faulty' = TRUE
      BY <3>2
    <3>3. CASE x \notin {Crash, Error} /\ result' = (IF Accepted(x) THEN <<Tail(x.Private)>> ELSE Error)
      <4>1. x.Private = Private(d)
        BY <2>6, <2>8, <3>3
      <4>2. stored.intact => Accepted(x)
        BY <2>6, <2>8
      <4>3. <<Tail(x.Private)>> = stored.secret
        BY <2>2, <2>9, <4>1
      <4> QED  BY <3>3, <4>2, <4>3
    <3> QED  BY <1>5, <3>1, <3>2, <3>3
  <2>11. Reported'
    BY <1>2, <1>3, <1>4, <2>10 DEF Reported, Explained
  <2>12. IInv'
    BY <1>2, <1>6, <2>11, EndKeeps
  <2>13. VaultStep
    BY <1>0, <1>2, <2>10, VaultEnd
  <2> QED  BY <2>12, <2>13
<1> QED  BY <1>0, <1>7, <1>8, PackKept

-----------------------------------------------------------------------------
(* A copy that loses its end.                                              *)

\* What is left of a segment.
LEMMA SegmentCut ==
    ASSUME NEW m, NEW w, NEW n \in Nat, NEW l \in Nat, NEW d, NEW o \in Nat, NEW c \in Nat, NEW p \in Nat \ {0},
           SegmentAt(m, n, d, o, c, p), l <= n, \A i \in 1 .. l : w[i] = m[i]
    PROVE  SegmentAt(w, l, d, o, c, p)
<1> USE DEF SegmentAt
<1>1. p <= l => w[p] = c + 1
  OBVIOUS
<1>2. p + 1 <= l => w[p + 1] = 1
  OBVIOUS
<1>3. ASSUME NEW i \in 1 .. c, p + 1 + i <= l PROVE w[p + 1 + i] = d[o + i]
  BY <1>3
<1>4. p + c + 2 <= l => w[p + c + 2] = c + 1
  OBVIOUS
<1>5. p + c + 3 <= l => w[p + c + 3] = 2
  OBVIOUS
<1>6. ASSUME NEW i \in 1 .. c, p + c + 3 + i <= l PROVE w[p + c + 3 + i] = d[o + i]
  BY <1>6
<1> QED  BY <1>1, <1>2, <1>3, <1>4, <1>5, <1>6

\* The slice t has the first bytes of s, and has lost something.
Cut(t, s) ==
    /\ t \in Blobs /\ t.len <= Len(t.mem)
    /\ t.kind = s.kind /\ t.secret = s.secret /\ t.intact = FALSE
    /\ t.len <= s.len /\ \A i \in 1 .. t.len : t.mem[i] = s.mem[i]

\* What is left of wrapped data.
LEMMA WrappedCut ==
    ASSUME NEW s \in Blobs, NEW t, Cut(t, s), NEW d \in Seq(Bytes), Wrapped(s, d)
    PROVE  Wrapped(t, d)
<1>1. s.len \in Nat /\ t.len \in Nat /\ t.len <= s.len /\ t.intact = FALSE /\ t.secret = <<d>> /\ Fits(d)
  BY BlobFields DEF Cut, Wrapped
<1>2. Segments(d) \in Nat
  BY SegmentsBegin
<1>3. t.len <= WrappedLen(d)
  <2>1. WrappedLen(d) \in Nat /\ s.len <= WrappedLen(d)
    BY <1>2 DEF WrappedLen, Wrapped
  <2> QED  BY <1>1, <2>1
<1>4. 1 <= t.len => t.mem[1] = Segments(d)
  <2>1. 1 <= t.len => 1 \in 1 .. t.len /\ 1 <= s.len
    BY <1>1
  <2> QED  BY <2>1 DEF Cut, Wrapped
<1>5. ASSUME NEW k \in 0 .. Segments(d) - 1 PROVE Segment(t.mem, t.len, d, k)
  <2>1. k \in Nat /\ k < Segments(d)
    BY <1>2
  <2>2. PICK o \in Nat : o = Ofs(k)
    BY <2>1, OffsetsGrow
  <2>3. PICK p \in Nat \ {0} : p = Start(k) + 1
    BY <2>1, Starts, SMTT(20)
  <2>4. PICK c \in Nat : c = Count(d, Ofs(k))
    <3>1. Count(d, Ofs(k)) \in 1 .. MaxSealLength
      BY <2>1, Counts
    <3> QED  BY <3>1, OffsetsGrow
  <2>5. SegmentAt(s.mem, s.len, d, o, c, p)
    BY <2>2, <2>3, <2>4 DEF Wrapped, Segment
  <2>6. \A i \in 1 .. t.len : t.mem[i] = s.mem[i]
    BY DEF Cut
  <2>7. SegmentAt(t.mem, t.len, d, o, c, p)
    BY <1>1, <2>5, <2>6, SegmentCut
  <2> QED  BY <2>2, <2>3, <2>4, <2>7 DEF Segment
<1> QED  BY <1>1, <1>3, <1>4, <1>5 DEF Wrapped

\* What is left of a packed blob.
LEMMA PackedCut ==
    ASSUME NEW s \in Blobs, NEW t, Cut(t, s), NEW b, Sized(b), Packed(s, b)
    PROVE  Packed(t, b)
<1>1. s.len \in Nat /\ t.len \in Nat /\ t.len <= s.len /\ t.intact = FALSE
  BY BlobFields DEF Cut
<1>2. PICK w : w = Pack(b)
  OBVIOUS
<1>3. w \in Seq(Bytes) /\ s.len <= Len(w) /\ \A i \in 1 .. s.len : s.mem[i] = w[i]
  BY <1>2, PackLays DEF Laid, Packed
<1>4. t.len <= Len(w)
  BY <1>1, <1>3
<1>5. ASSUME NEW i \in 1 .. t.len PROVE t.mem[i] = w[i]
  <2>1. i \in 1 .. s.len
    BY <1>1
  <2>2. t.mem[i] = s.mem[i]
    BY DEF Cut
  <2> QED  BY <1>3, <2>1, <2>2
<1> QED  BY <1>1, <1>2, <1>4, <1>5 DEF Packed

\* What is left is sound.
LEMMA SoundCut == ASSUME NEW s \in Blobs, NEW t, Cut(t, s), Sound(s) PROVE Sound(t)
<1>0. t.kind = s.kind /\ t.secret = s.secret
  BY DEF Cut
<1>1. ASSUME t.kind = "wrap" PROVE \E d \in Data : Wrapped(t, d)
  <2>1. PICK d \in Data : Wrapped(s, d)
    BY <1>0, <1>1 DEF Sound
  <2>2. d \in Seq(Bytes)
    BY PartsSized
  <2> QED  BY <2>1, <2>2, WrappedCut
<1>2. ASSUME t.kind = "import" PROVE PackedImport(t)
  <2>1. PackedImport(s)
    BY <1>0, <1>2 DEF Sound
  <2>2. PICK d \in Data, pcrs \in PCRSets : \E order \in SetToSeqs(pcrs) :
          s.secret = <<d>> /\ Packed(s, ImportBlob(d, pcrs, order))
    BY <2>1 DEF PackedImport
  <2>3. PICK order \in SetToSeqs(pcrs) : s.secret = <<d>> /\ Packed(s, ImportBlob(d, pcrs, order))
    BY <2>2
  <2>4. PICK b : b = ImportBlob(d, pcrs, order)
    OBVIOUS
  <2>5. Sized(b) /\ Packed(s, b)
    BY <2>3, <2>4, ImportSized
  <2>6. Packed(t, b)
    BY <2>5, PackedCut
  <2> QED  BY <1>0, <2>3, <2>4, <2>6 DEF PackedImport
<1>3. ASSUME t.kind = "key" PROVE PackedKey(t)
  <2>1. PICK d \in Data : s.secret = <<Public(d), Private(d)>> /\ Packed(s, KeyBlob(d))
    BY <1>0, <1>3 DEF Sound, PackedKey
  <2>2. PICK b : b = KeyBlob(d)
    OBVIOUS
  <2>3. Sized(b) /\ Packed(s, b)
    BY <2>1, <2>2, KeySized
  <2>4. Packed(t, b)
    BY <2>3, PackedCut
  <2> QED  BY <1>0, <2>1, <2>2, <2>4 DEF PackedKey
<1> QED  BY <1>1, <1>2, <1>3 DEF Sound

\* Whatever the spare capacity holds.
LEMMA TruncatedIsCut ==
    ASSUME NEW s \in Blobs, s.len <= Len(s.mem), NEW n \in Nat, n < s.len, NEW spare \in Seq(Bytes), NEW t,
           t = [s EXCEPT !.intact = FALSE, !.len = n, !.mem = SubSeq(s.mem, 1, n) \o spare]
    PROVE  Cut(t, s)
<1>1. PICK m \in Seq(Bytes) : m = s.mem
  BY BlobFields
<1>2. s.len \in Nat /\ n <= Len(m) /\ n <= s.len
  BY <1>1, BlobFields
<1>3. PICK x : x = SubSeq(m, 1, n)
  OBVIOUS
<1>4. x \in Seq(Bytes) /\ Len(x) = n /\ \A i \in 1 .. n : x[i] = m[i]
  BY <1>2, <1>3
<1>5. PICK w : w = x \o spare
  OBVIOUS
<1>6. w \in Seq(Bytes) /\ n <= Len(w) /\ \A i \in 1 .. n : w[i] = m[i]
  <2>1. x \in Seq(Bytes)
    BY <1>4
  <2>2. w \in Seq(Bytes) /\ Len(w) = Len(x) + Len(spare) /\ \A i \in 1 .. Len(x) : w[i] = x[i]
    BY <1>5, <2>1, Concat
  <2> QED  BY <1>4, <2>2
<1>7. t = [s EXCEPT !.intact = FALSE, !.len = n, !.mem = w]
  BY <1>1, <1>3, <1>5
<1>8. t \in Blobs /\ t.kind = s.kind /\ t.secret = s.secret /\ t.intact = FALSE /\ t.len = n /\ t.mem = w
  <2>1. w \in Seq(Bytes)
    BY <1>6
  <2> QED  BY <1>7, <2>1 DEF Blobs
<1> QED  BY <1>1, <1>2, <1>6, <1>8 DEF Cut

\* Truncate damages the copy, and leaves its beginning.
LEMMA TruncateKeeps ==
    ASSUME IInv, stored # None, NEW n \in 0 .. stored.len - 1, Truncate(n)
    PROVE  IInv' /\ VaultStep
<1>0. stored \in Blobs /\ stored.len <= Len(stored.mem) /\ TypeOK /\ Reported /\ Sound(stored)
  BY DEF IInv, TypeOK
<1>1. /\ pc = "idle" /\ pc' = pc /\ call' = call /\ faulty' = faulty /\ result' = result
      /\ n < stored.len
  BY DEF Truncate
<1>2. PICK spare \in {<<>>, <<0, 0>>, [i \in 1 .. stored.len |-> 0], SubSeq(stored.mem, n + 1, stored.len)} :
        stored' = [stored EXCEPT !.intact = FALSE, !.len = n, !.mem = SubSeq(stored.mem, 1, n) \o spare]
  BY DEF Truncate
<1>3. n \in Nat /\ stored.len \in Nat /\ stored.mem \in Seq(Bytes)
  BY <1>0, BlobFields
<1>4. spare \in Seq(Bytes)
  <2>1. 0 \in Bytes
    BY Tags
  <2>2. <<>> \in Seq(Bytes) /\ <<0, 0>> \in Seq(Bytes)
    BY <2>1
  <2>3. [i \in 1 .. stored.len |-> 0] \in Seq(Bytes)
    BY <1>3, <2>1
  <2>4. SubSeq(stored.mem, n + 1, stored.len) \in Seq(Bytes)
    BY <1>0, <1>3
  <2> QED  BY <1>2, <2>2, <2>3, <2>4
<1>5. PICK s \in Blobs : s = stored
  BY <1>0
<1>6. PICK t : t = stored'
  OBVIOUS
<1>7. Cut(t, s)
  <2>1. t = [s EXCEPT !.intact = FALSE, !.len = n, !.mem = SubSeq(s.mem, 1, n) \o spare]
    BY <1>2, <1>5, <1>6
  <2>2. s.len <= Len(s.mem) /\ n \in Nat /\ n < s.len /\ spare \in Seq(Bytes)
    BY <1>0, <1>1, <1>3, <1>4, <1>5
  <2> QED  BY <2>1, <2>2, TruncatedIsCut
<1>8. Sound(t)
  BY <1>0, <1>5, <1>7, SoundCut
<1>9. /\ t \in Blobs /\ t # None /\ t.len <= Len(t.mem)
      /\ t.kind = stored.kind /\ t.secret = stored.secret /\ t.intact = FALSE
  BY <1>5, <1>7, BlobFields DEF Cut
<1>10. TypeOK'
  BY <1>0, <1>1, <1>6, <1>9 DEF TypeOK
<1>11. Reported'
  BY <1>0, <1>1, <1>6, <1>9 DEF Reported, Explained
<1>12. IInv'
  BY <1>1, <1>6, <1>8, <1>10, <1>11 DEF IInv
<1>13. VaultStep
  BY <1>0, <1>1, <1>6, <1>9, VaultDamage
<1> QED  BY <1>12, <1>13

-----------------------------------------------------------------------------
(* The theorems.                                                           *)

\* Nothing is kept at first.
LEMMA InitInv == Init => IInv /\ V!Init
<1>1. Init => TypeOK
  BY DEF Init, TypeOK
<1>2. Init => Reported
  BY OutcomesDiffer DEF Init, Reported
<1>3. Init => IInv
  BY <1>1, <1>2 DEF Init, IInv
<1>4. Init => V!Init
  BY DEF Init, V!Init
<1> QED  BY <1>3, <1>4

\* Every operation keeps the invariant, and is a step of the vault or none.
LEMMA NextInv == ASSUME IInv, [Next]_vars PROVE IInv' /\ VaultStep
<1>1. CASE UNCHANGED vars
  <2>1. IInv'
    BY <1>1 DEF vars, IInv, TypeOK, Reported, Explained, WrapInv, Wrapping, UnwrapInv, Unwrapping
  <2>2. UNCHANGED V!vars
    BY <1>1 DEF vars, V!vars
  <2> QED  BY <2>1, <2>2 DEF VaultStep
<1>2. CASE \E d \in Data : Wrap(d)
  BY <1>2, WrapKeeps
<1>3. CASE \E d \in Data : PackKey(d)
  BY <1>3, PackKeyKeeps
<1>4. CASE \E d \in Data : \E pcrs \in PCRSets : OffHostWrap(d, pcrs)
  BY <1>4, OffHostWrapKeeps
<1>5. CASE Seal
  BY <1>5, SealKeeps
<1>6. CASE WrapDone
  BY <1>6, WrapDoneKeeps
<1>7. CASE Unwrap
  BY <1>7, UnwrapKeeps
<1>8. CASE Unseal
  BY <1>8, UnsealKeeps
<1>9. CASE UnwrapImportable
  BY <1>9, UnwrapImportableKeeps
<1>10. CASE ReadKeyParts
  BY <1>10, ReadKeyPartsKeeps
<1>11. CASE stored # None /\ \E n \in 0 .. stored.len - 1 : Truncate(n)
  BY <1>11, TruncateKeeps
<1> QED  BY <1>1, <1>2, <1>3, <1>4, <1>5, <1>6, <1>7, <1>8, <1>9, <1>10, <1>11 DEF Next

\* The invariant holds always.
LEMMA Inductive == Spec => []IInv
<1>1. Init => IInv
  BY InitInv
<1>2. IInv /\ [Next]_vars => IInv'
  BY NextInv
<1> QED  BY <1>1, <1>2, PTL DEF Spec

\* An operation that failed for a reason of its own is one that RoundTrip allows
\* to fail.
LEMMA ExplainedIs ==
    ASSUME IInv
    PROVE  RoundTrip
<1>1. ASSUME pc = "idle", ~faulty, result \in {Error, Crash}
      PROVE  CASE call.op = "Wrap" -> Len(call.data) > MaxSealLength * MaxSealCount
               [] call.op = "Unwrap" -> ~stored.intact \/ stored.secret = <<<<>>>>
               [] call.op = "UnwrapImportable" -> ~stored.intact \/ stored.kind # "import"
               [] call.op = "ReadKeyParts" -> ~stored.intact \/ stored.kind # "key"
               [] OTHER -> FALSE
  <2>1. Explained
    BY <1>1 DEF IInv, Reported
  <2>2. CASE call.op = "Wrap" /\ Len(call.data) > MaxSealLength * MaxSealCount
    BY <2>2
  <2>3. CASE call.op = "Unwrap" /\ (~stored.intact \/ stored.secret = <<<<>>>>)
    BY <2>3
  <2>4. CASE call.op = "UnwrapImportable" /\ (~stored.intact \/ stored.kind # "import")
    BY <2>4
  <2>5. CASE call.op = "ReadKeyParts" /\ (~stored.intact \/ stored.kind # "key")
    BY <2>5
  <2> QED  BY <2>1, <2>2, <2>3, <2>4, <2>5 DEF Explained
<1> QED  BY <1>1 DEF RoundTrip, IInv

\* If no command fails, wrapping fails for too much data only, and an undamaged
\* blob gives its secret to the reader of its kind: for data of any length, any
\* size and number of segments, and any byte.
THEOREM RoundTripHolds == Spec => []RoundTrip
<1>1. IInv => RoundTrip
  BY ExplainedIs
<1> QED  BY <1>1, Inductive, PTL

\* Wrap, Unwrap, Pack and Unpack, with all their interleaved damage, implement
\* the vault: what is got is the secret, an error, or a crash over a damaged
\* copy.
THEOREM BlobsImplementVault == Spec => ImplementsVault
<1>1. Init => V!Init
  BY InitInv
<1>2. IInv /\ [Next]_vars => [V!Next]_(V!vars)
  BY NextInv DEF VaultStep
<1> QED  BY <1>1, <1>2, Inductive, PTL DEF Spec, ImplementsVault, V!Spec

=============================================================================
