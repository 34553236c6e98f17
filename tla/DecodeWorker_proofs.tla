------------------------- MODULE DecodeWorker_proofs -------------------------
EXTENDS DecodeWorker, SequenceTheorems, FiniteSetTheorems, WellFoundedInduction, TLAPS

(***************************************************************************)
(* What LineTelemetryDecodeWorker promises for every stream, every way to  *)
(* cut it into chunks, every bound and any number of starts: the theorems  *)
(* OverloadIsKept, NothingIsLeft and RowsAreWhole.                         *)
(*                                                                         *)
(* QInv speaks of the queue: a chunk is a piece of the stream, chunks are  *)
(* in its order behind what the worker has taken, and where one does not   *)
(* follow the other a gap is marked.  DInv says that what deliver() read   *)
(* has been reported or is in flight.  NInv says of the samples, wherever  *)
(* they wait, that they are whole lines in order, all of them before the   *)
(* line that the decoder has open, and that this line is all that follows  *)
(* a newline or the start.                                                 *)
(***************************************************************************)

(***************************************************************************)
(* Folds over sequences: BytesOf adds up chunks, Ingest decodes bytes.     *)
(* Either is determined element by element, so that what it computes is    *)
(* shown by going from one prefix of the sequence to the next.             *)
(***************************************************************************)

\* Induction over the natural numbers, the formula being given by the set of the
\* numbers it holds for.
LEMMA EveryNumber ==
    ASSUME NEW T, 0 \in T, \A n \in Nat : n \in T => n + 1 \in T
    PROVE  Nat \subseteq T
<1> SUFFICES ASSUME Nat \ T # {} PROVE FALSE
    OBVIOUS
<1> DEFINE R == OpToRel(<, Nat)
<1>1. IsWellFoundedOn(R, Nat)
  BY NatLessThanWellFounded
<1>2. \A x, y \in Nat : y < x => <<y, x>> \in R
  BY DEF OpToRel
<1> HIDE DEF R
<1>3. PICK x \in Nat \ T : \A y \in Nat \ T : ~(<<y, x>> \in R)
  BY <1>1, WFMin
<1>4. x - 1 \in Nat /\ x - 1 < x /\ x = (x - 1) + 1
  BY <1>3
<1>5. x - 1 \in T
  BY <1>2, <1>3, <1>4
<1> QED BY <1>3, <1>4, <1>5

\* A set of numbers has a least one.
LEMMA LeastNumber ==
    ASSUME NEW T \in SUBSET Nat, T # {}
    PROVE  \E n \in T : \A m \in T : n <= m
<1> DEFINE R == OpToRel(<, Nat)
<1>1. IsWellFoundedOn(R, Nat)
  BY NatLessThanWellFounded
<1>2. \A x, y \in Nat : y < x => <<y, x>> \in R
  BY DEF OpToRel
<1> HIDE DEF R
<1>3. PICK x \in T : \A y \in T : ~(<<y, x>> \in R)
  BY <1>1, WFMin
<1>4. \A y \in T : ~(y < x)
  BY <1>2, <1>3
<1>5. \A y \in T : x <= y
  BY <1>4
<1> QED BY <1>5

\* A set of places in a sequence has a last one.
LEMMA LastPlace ==
    ASSUME NEW n \in Nat, NEW a \in SUBSET (1..n), a # {}
    PROVE  Max(a) \in a /\ \A y \in a : y <= Max(a)
<1> DEFINE T == {k \in Nat : \E y \in a : y = n - k}
<1>1. \E x \in a : \A y \in a : x >= y
  <2>1. PICK y \in a : TRUE
    OBVIOUS
  <2>2. n - y \in T
    BY <2>1
  <2>3. PICK k \in T : \A m \in T : k <= m
    BY <2>2, LeastNumber
  <2>4. n - k \in a /\ \A z \in a : n - z \in T
    BY <2>3
  <2>5. \A z \in a : n - k >= z
    <3> TAKE z \in a
    <3>1. n - z \in T
      BY <2>4
    <3> HIDE DEF T
    <3>2. k <= n - z
      BY <2>3, <3>1
    <3>3. k \in Nat /\ z \in Nat
      BY <2>3 DEF T
    <3> QED BY <3>2, <3>3
  <2> QED BY <2>4, <2>5
<1> QED BY <1>1 DEF Max

\* The two folds of the worker.
Kinds == {"sum", "decode"}
Fold(k, v, x) == IF k = "sum" THEN v + Len(x.bytes) ELSE IngestByte(v, x)

IsFold(h, k, v, s, D) ==
    h = [a \in D |-> IF a = {} THEN v ELSE Fold(k, h[a \ {Max(a)}], s[Max(a)])]

\* Folding is well defined.
LEMMA FoldExists ==
    ASSUME NEW k, NEW v, NEW s, NEW n \in Nat
    PROVE  \E h : IsFold(h, k, v, s, SUBSET (1..n))
<1> DEFINE Small(j) == {a \in SUBSET (1..n) : Cardinality(a) <= j}
           T == {j \in Nat : \E h : IsFold(h, k, v, s, Small(j))}
<1>0. \A a \in SUBSET (1..n) : /\ IsFiniteSet(a) /\ Cardinality(a) \in Nat
                              /\ Cardinality(a) <= n
                              /\ (Cardinality(a) = 0 <=> a = {})
  <2>1. IsFiniteSet(1..n) /\ Cardinality(1..n) = n
    BY FS_Interval
  <2> TAKE a \in SUBSET (1..n)
  <2>2. IsFiniteSet(a) /\ Cardinality(a) <= n
    BY <2>1, FS_Subset
  <2> QED BY <2>2, FS_CardinalityType, FS_EmptySet
<1>1. \A a \in SUBSET (1..n) : a # {} =>
          /\ a \ {Max(a)} \in SUBSET (1..n)
          /\ Cardinality(a \ {Max(a)}) = Cardinality(a) - 1
  <2> TAKE a \in SUBSET (1..n)
  <2> HAVE a # {}
  <2>1. Max(a) \in a
    BY LastPlace
  <2> QED BY <1>0, <2>1, FS_RemoveElement
<1>2. 0 \in T
  <2> DEFINE h == [a \in Small(0) |-> v]
  <2>1. \A a \in Small(0) : a = {}
    BY <1>0
  <2>2. h = [a \in Small(0) |-> IF a = {} THEN v ELSE Fold(k, h[a \ {Max(a)}], s[Max(a)])]
    BY <2>1
  <2> QED BY <2>2 DEF IsFold
<1>3. ASSUME NEW j \in Nat, j \in T PROVE j + 1 \in T
  <2>1. PICK h : IsFold(h, k, v, s, Small(j))
    BY <1>3
  <2> DEFINE next(f, a) == IF a = {} THEN v ELSE Fold(k, f[a \ {Max(a)}], s[Max(a)])
             g == [a \in Small(j + 1) |-> IF a \in Small(j) THEN h[a] ELSE next(h, a)]
  <2>2. \A a \in Small(j + 1) : a # {} => a \ {Max(a)} \in Small(j)
    BY <1>0, <1>1
  <2>3. \A a \in Small(j) : a \in Small(j + 1) /\ h[a] = next(h, a)
    <3>1. \A a \in Small(j) : h[a] = next(h, a)
      BY <2>1 DEF IsFold
    <3>2. \A a \in Small(j) : a \in Small(j + 1)
      <4> TAKE a \in Small(j)
      <4>1. a \in SUBSET (1..n) /\ Cardinality(a) \in Nat /\ Cardinality(a) <= j
        BY <1>0
      <4> QED BY <4>1
    <3> QED BY <3>1, <3>2
  <2> HIDE DEF Small
  <2>4. \A a \in Small(j + 1) : g[a] = next(h, a)
    BY <2>3
  <2>5. \A a \in Small(j + 1) : a # {} => g[a \ {Max(a)}] = h[a \ {Max(a)}]
    BY <2>2, <2>3
  <2>6. \A a \in Small(j + 1) : g[a] = next(g, a)
    BY <2>4, <2>5
  <2>7. g = [a \in Small(j + 1) |-> next(g, a)]
    BY <2>6
  <2> HIDE DEF g
  <2>8. IsFold(g, k, v, s, Small(j + 1))
    BY <2>7 DEF IsFold
  <2> QED BY <2>8
<1>4. n \in T
  <2> HIDE DEF T
  <2> QED BY <1>2, <1>3, EveryNumber
<1>5. Small(n) = SUBSET (1..n)
  BY <1>0
<1> QED BY <1>4, <1>5

FoldOf(h, k, v, s, n) == IsFold(h, k, v, s, SUBSET (1..n))
Alike(s, t, n) == \A i \in 1..n : s[i] = t[i]

\* What has been folded does not depend on what is to come.
LEMMA FoldsAgree ==
    ASSUME NEW k, NEW v, NEW s, NEW t, NEW n \in Nat, NEW m \in Nat, NEW g, NEW h,
           n <= m, Alike(s, t, n),
           FoldOf(g, k, v, s, n), FoldOf(h, k, v, t, m)
    PROVE  g[1..n] = h[1..n]
<1> DEFINE T == {j \in Nat : j <= n => g[1..j] = h[1..j]}
<1>0. \A j \in Nat : j > 0 => Max(1..j) = j /\ (1..j) \ {Max(1..j)} = 1..(j - 1)
  <2> SUFFICES ASSUME NEW j \in Nat, j > 0 PROVE Max(1..j) = j /\ (1..j) \ {j} = 1..(j - 1)
      OBVIOUS
  <2>1. 1..j \in SUBSET (1..j) /\ j \in 1..j
    OBVIOUS
  <2>2. Max(1..j) \in 1..j /\ \A y \in 1..j : y <= Max(1..j)
    BY <2>1, LastPlace
  <2>3. Max(1..j) = j
    BY <2>1, <2>2
  <2> QED BY <2>3
<1>1. 0 \in T
  <2>1. 1..0 = {} /\ {} \in SUBSET (1..n) /\ {} \in SUBSET (1..m)
    OBVIOUS
  <2> QED BY <2>1 DEF FoldOf, IsFold
<1>2. ASSUME NEW j \in Nat, j \in T PROVE j + 1 \in T
  <2> SUFFICES ASSUME j + 1 <= n PROVE g[1..(j + 1)] = h[1..(j + 1)]
      OBVIOUS
  <2> DEFINE a == 1..(j + 1)
  <2>1. a \in SUBSET (1..n) /\ a \in SUBSET (1..m) /\ a # {} /\ j + 1 \in 1..n
    <3>1. j + 1 \in 1..n /\ j + 1 \in a /\ \A i \in a : i \in 1..n /\ i \in 1..m
      OBVIOUS
    <3> QED BY <3>1
  <2>2. Max(a) = j + 1 /\ a \ {Max(a)} = 1..j
    BY <1>0
  <2> HIDE DEF a
  <2>3. g[a] = Fold(k, g[1..j], s[j + 1]) /\ h[a] = Fold(k, h[1..j], t[j + 1])
    BY <2>1, <2>2 DEF FoldOf, IsFold
  <2>4. g[1..j] = h[1..j]
    BY <1>2
  <2>5. s[j + 1] = t[j + 1]
    BY <2>1 DEF Alike
  <2> QED BY <2>3, <2>4, <2>5 DEF a
<1>3. n \in T
  <2> HIDE DEF T
  <2> QED BY <1>1, <1>2, EveryNumber
<1> QED BY <1>3

Folded(k, v, s) ==
    IF k = "sum" THEN FoldLeft(LAMBDA n, c : n + Len(c.bytes), v, s)
    ELSE FoldLeft(IngestByte, v, s)

\* The definition of the folds, as a function of the sets of places.
LEMMA FoldedIsFold ==
    ASSUME NEW k \in Kinds, NEW v, NEW A, NEW s \in Seq(A)
    PROVE  \E h : FoldOf(h, k, v, s, Len(s)) /\ Folded(k, v, s) = h[1..Len(s)]
<1> DEFINE sum(h) == [a \in SUBSET DOMAIN s |->
                         IF a = {} THEN v ELSE h[a \ {Max(a)}] + Len(s[Max(a)].bytes)]
           decode(h) == [a \in SUBSET DOMAIN s |->
                            IF a = {} THEN v ELSE IngestByte(h[a \ {Max(a)}], s[Max(a)])]
<1>1. DOMAIN s = 1..Len(s) /\ Len(s) \in Nat
  OBVIOUS
<1>2. \E h : IsFold(h, k, v, s, SUBSET DOMAIN s)
  BY <1>1, FoldExists
<1>3. ASSUME k = "sum"
      PROVE  \E h : IsFold(h, k, v, s, SUBSET DOMAIN s) /\ Folded(k, v, s) = h[DOMAIN s]
  <2>1. ASSUME NEW h PROVE IsFold(h, k, v, s, SUBSET DOMAIN s) <=> h = sum(h)
    BY <1>3 DEF IsFold, Fold
  <2> DEFINE f == CHOOSE h : h = sum(h)
  <2>2. FoldLeft(LAMBDA n, c : n + Len(c.bytes), v, s) = f[DOMAIN s]
    BY Zenon DEF FoldLeft, MapThenFoldSet
  <2> HIDE DEF sum
  <2>3. f = sum(f)
    BY <1>2, <2>1
  <2>4. Folded(k, v, s) = FoldLeft(LAMBDA n, c : n + Len(c.bytes), v, s)
    BY <1>3 DEF Folded
  <2> HIDE DEF f
  <2> QED BY <2>1, <2>2, <2>3, <2>4
<1>4. ASSUME k = "decode"
      PROVE  \E h : IsFold(h, k, v, s, SUBSET DOMAIN s) /\ Folded(k, v, s) = h[DOMAIN s]
  <2>1. ASSUME NEW h PROVE IsFold(h, k, v, s, SUBSET DOMAIN s) <=> h = decode(h)
    BY <1>4 DEF IsFold, Fold
  <2> DEFINE f == CHOOSE h : h = decode(h)
  <2>2. FoldLeft(IngestByte, v, s) = f[DOMAIN s]
    BY Zenon DEF FoldLeft, MapThenFoldSet
  <2> HIDE DEF decode
  <2>3. f = decode(f)
    BY <1>2, <2>1
  <2>4. Folded(k, v, s) = FoldLeft(IngestByte, v, s)
    BY <1>4 DEF Folded
  <2> HIDE DEF f
  <2> QED BY <2>1, <2>2, <2>3, <2>4
<1> QED BY <1>1, <1>3, <1>4 DEF FoldOf, Kinds

\* No element, no change.
LEMMA FoldNothing ==
    ASSUME NEW k \in Kinds, NEW v
    PROVE  Folded(k, v, <<>>) = v
<1> DEFINE s == <<>>
<1>1. s \in Seq({}) /\ Len(s) = 0 /\ 1..0 = {}
  OBVIOUS
<1> HIDE DEF s
<1>2. PICK h : FoldOf(h, k, v, s, Len(s)) /\ Folded(k, v, s) = h[1..Len(s)]
  BY <1>1, FoldedIsFold
<1>3. h[{}] = v
  BY <1>1, <1>2, Zenon DEF FoldOf, IsFold
<1> QED BY <1>1, <1>2, <1>3 DEF s

\* One element more is one turn of the loop more.
LEMMA FoldOneMore ==
    ASSUME NEW k \in Kinds, NEW v, NEW A, NEW s \in Seq(A), NEW x \in A
    PROVE  Folded(k, v, Append(s, x)) = Fold(k, Folded(k, v, s), x)
<1> DEFINE n == Len(s)
           t == Append(s, x)
<1>1. /\ t \in Seq(A) /\ n \in Nat /\ Len(t) = n + 1
      /\ t[n + 1] = x /\ \A i \in 1..n : s[i] = t[i]
  OBVIOUS
<1>2. PICK g : FoldOf(g, k, v, s, n) /\ Folded(k, v, s) = g[1..n]
  BY FoldedIsFold
<1> HIDE DEF n, t
<1>3. PICK h : FoldOf(h, k, v, t, n + 1) /\ Folded(k, v, t) = h[1..(n + 1)]
  BY <1>1, FoldedIsFold
<1>4. g[1..n] = h[1..n]
  <2> DEFINE m == n + 1
  <2>1. n \in Nat /\ m \in Nat /\ n <= m
    BY <1>1
  <2>2. Alike(s, t, n)
    BY <1>1 DEF Alike
  <2> HIDE DEF m
  <2>3. FoldOf(h, k, v, t, m)
    BY <1>3 DEF m
  <2> QED BY <1>2, <2>1, <2>2, <2>3, FoldsAgree
<1> DEFINE a == 1..(n + 1)
<1>5. a \in SUBSET (1..(n + 1)) /\ a # {} /\ Max(a) = n + 1 /\ a \ {Max(a)} = 1..n
  <2>1. n + 1 \in Nat /\ n + 1 \in a /\ a \in SUBSET (1..(n + 1))
    BY <1>1
  <2>2. a # {}
    BY <2>1
  <2> HIDE DEF a
  <2>3. Max(a) \in a /\ \A y \in a : y <= Max(a)
    BY <2>1, <2>2, LastPlace
  <2>4. Max(a) \in 1..(n + 1) /\ n + 1 <= Max(a)
    BY <2>1, <2>3 DEF a
  <2>5. Max(a) = n + 1
    BY <1>1, <2>4
  <2>6. a \ {n + 1} = 1..n
    BY <1>1 DEF a
  <2> QED BY <2>1, <2>2, <2>5, <2>6 DEF a
<1> HIDE DEF a
<1>6. h[a] = Fold(k, h[1..n], t[n + 1])
  BY <1>3, <1>5 DEF FoldOf, IsFold
<1> QED BY <1>1, <1>2, <1>3, <1>4, <1>6 DEF a, t

\* A prefix of a sequence, or of what is left of it, grows by one element.
LEMMA PrefixGrows ==
    ASSUME NEW A, NEW q \in Seq(A), NEW lo \in Nat, lo >= 1,
           NEW m \in Nat, lo - 1 <= m, m + 1 <= Len(q)
    PROVE  /\ SubSeq(q, lo, m) \in Seq(A) /\ q[m + 1] \in A
           /\ SubSeq(q, lo, m + 1) = Append(SubSeq(q, lo, m), q[m + 1])
<1>1. q[m + 1] \in A /\ Len(q) \in Nat
  OBVIOUS
<1>2. /\ SubSeq(q, lo, m) \in Seq(A) /\ Len(SubSeq(q, lo, m)) = m - lo + 1
      /\ \A i \in 1..m - lo + 1 : SubSeq(q, lo, m)[i] = q[lo + i - 1]
  OBVIOUS
<1>3. /\ SubSeq(q, lo, m + 1) \in Seq(A) /\ Len(SubSeq(q, lo, m + 1)) = m - lo + 2
      /\ \A i \in 1..m - lo + 2 : SubSeq(q, lo, m + 1)[i] = q[lo + i - 1]
  OBVIOUS
<1> DEFINE s == SubSeq(q, lo, m)
           t == SubSeq(q, lo, m + 1)
           u == Append(s, q[m + 1])
           n == m - lo + 1
<1>4. n \in Nat /\ n + 1 = m - lo + 2 /\ lo + (n + 1) - 1 = m + 1
  OBVIOUS
<1>5. /\ s \in Seq(A) /\ Len(s) = n /\ \A i \in 1..n : s[i] = q[lo + i - 1]
      /\ t \in Seq(A) /\ Len(t) = n + 1 /\ \A i \in 1..(n + 1) : t[i] = q[lo + i - 1]
  BY <1>2, <1>3, <1>4
<1> HIDE DEF s, t, n
<1>6. /\ u \in Seq(A) /\ Len(u) = n + 1 /\ u[n + 1] = q[m + 1]
      /\ \A i \in 1..n : u[i] = s[i]
  BY <1>1, <1>5, AppendProperties
<1> HIDE DEF u
<1>7. \A i \in 1..(n + 1) : t[i] = u[i]
  <2> TAKE i \in 1..(n + 1)
  <2>1. CASE i \in 1..n
    BY <1>5, <1>6, <2>1
  <2>2. CASE i = n + 1
    <3>1. t[n + 1] = q[lo + (n + 1) - 1] /\ n + 1 \in 1..(n + 1)
      BY <1>4, <1>5
    <3>2. t[n + 1] = u[n + 1]
      BY <1>4, <1>6, <3>1
    <3> QED BY <2>2, <3>2
  <2>3. i \in 1..n \/ i = n + 1
    BY <1>4
  <2> QED BY <2>1, <2>2, <2>3
<1>8. t = u
  BY <1>5, <1>6, <1>7, SeqEqual
<1> QED BY <1>1, <1>2, <1>8 DEF s, t, u

\* What is left of a sequence without its first elements.
LEMMA RestOf ==
    ASSUME NEW A, NEW q \in Seq(A), NEW n \in 0..Len(q)
    PROVE  /\ SubSeq(q, n + 1, Len(q)) \in Seq(A) /\ Len(SubSeq(q, n + 1, Len(q))) = Len(q) - n
           /\ \A i \in 1..(Len(q) - n) : SubSeq(q, n + 1, Len(q))[i] = q[n + i]
<1> DEFINE lo == n + 1
           m == Len(q)
           s == SubSeq(q, lo, m)
<1>1. lo \in Nat /\ lo >= 1 /\ m \in Nat /\ m - lo + 1 = m - n /\ lo - 1 <= m
  OBVIOUS
<1>2. /\ s \in Seq(A) /\ Len(s) = m - lo + 1
      /\ \A i \in 1..m - lo + 1 : s[i] = q[lo + i - 1]
  <2> HIDE DEF lo
  <2> QED BY <1>1
<1> HIDE DEF s
<1>3. s \in Seq(A) /\ Len(s) = m - n
  BY <1>1, <1>2
<1>4. \A i \in 1..(m - n) : s[i] = q[n + i]
  <2> TAKE i \in 1..(m - n)
  <2>1. i \in 1..m - lo + 1 /\ lo + i - 1 = n + i
    BY <1>1
  <2> QED BY <1>2, <2>1
<1> QED BY <1>3, <1>4 DEF s

-----------------------------------------------------------------------------
(***************************************************************************)
(* The number of bytes of a queue.                                         *)
(***************************************************************************)

Octets == [at : Nat, kind : {"good", "bad", "newline"}]
Chunk == [bytes : Seq(Octets), gap : BOOLEAN]

\* A chunk more is its bytes more.
LEMMA BytesOfOneMore ==
    ASSUME NEW q \in Seq(Chunk), NEW c \in Chunk
    PROVE  BytesOf(<<>>) = 0 /\ BytesOf(Append(q, c)) = BytesOf(q) + Len(c.bytes)
<1>1. "sum" \in Kinds /\ \A s : BytesOf(s) = Folded("sum", 0, s)
  BY DEF Kinds, BytesOf, Folded
<1>2. Folded("sum", 0, <<>>) = 0
  BY <1>1, FoldNothing
<1>3. Folded("sum", 0, Append(q, c)) = Fold("sum", Folded("sum", 0, q), c)
  BY <1>1, FoldOneMore
<1> QED BY <1>1, <1>2, <1>3 DEF Fold

\* What is left of a queue and what was taken from its front add up.
LEMMA BytesOfSplit ==
    ASSUME NEW q \in Seq(Chunk), NEW n \in 0..Len(q)
    PROVE  /\ BytesOf(SubSeq(q, 1, n)) \in Nat
           /\ BytesOf(SubSeq(q, n + 1, Len(q))) \in Nat
           /\ BytesOf(q) = BytesOf(SubSeq(q, 1, n)) + BytesOf(SubSeq(q, n + 1, Len(q)))
<1> DEFINE Fore(m) == BytesOf(SubSeq(q, 1, m))
           Back(m) == BytesOf(SubSeq(q, n + 1, m))
<1>0. n \in Nat /\ Len(q) \in Nat /\ n <= Len(q) /\ BytesOf(<<>>) = 0
  <2>1. <<>> \in Seq(Chunk) /\ [bytes |-> <<>>, gap |-> FALSE] \in Chunk
    BY DEF Chunk
  <2> QED BY <2>1, BytesOfOneMore
<1>1. ASSUME NEW m \in Nat, m + 1 <= Len(q)
      PROVE  /\ Len(q[m + 1].bytes) \in Nat
             /\ Fore(m + 1) = Fore(m) + Len(q[m + 1].bytes)
             /\ n <= m => Back(m + 1) = Back(m) + Len(q[m + 1].bytes)
  <2>1. /\ SubSeq(q, 1, m) \in Seq(Chunk) /\ q[m + 1] \in Chunk
        /\ SubSeq(q, 1, m + 1) = Append(SubSeq(q, 1, m), q[m + 1])
    BY <1>1, PrefixGrows
  <2>2. Fore(m + 1) = Fore(m) + Len(q[m + 1].bytes)
    BY <2>1, BytesOfOneMore
  <2>3. Len(q[m + 1].bytes) \in Nat
    BY <2>1 DEF Chunk
  <2>4. ASSUME n <= m PROVE Back(m + 1) = Back(m) + Len(q[m + 1].bytes)
    <3>1. n + 1 \in Nat /\ n + 1 >= 1 /\ (n + 1) - 1 <= m
      BY <1>0, <2>4
    <3>2. /\ SubSeq(q, n + 1, m) \in Seq(Chunk)
          /\ SubSeq(q, n + 1, m + 1) = Append(SubSeq(q, n + 1, m), q[m + 1])
      BY <1>1, <3>1, PrefixGrows
    <3> QED BY <2>1, <3>2, BytesOfOneMore
  <2> QED BY <2>2, <2>3, <2>4
<1>2. Fore(0) = 0 /\ Back(n) = 0
  <2>1. SubSeq(q, 1, 0) = <<>> /\ SubSeq(q, n + 1, n) = <<>>
    BY <1>0, SubSeqEmpty
  <2> QED BY <1>0, <2>1
<1> HIDE DEF Fore, Back
<1> DEFINE T == {m \in Nat : m <= Len(q) => Fore(m) \in Nat}
           U == {d \in Nat : n + d <= Len(q) =>
                                Back(n + d) \in Nat /\ Fore(n + d) = Fore(n) + Back(n + d)}
<1>3. \A m \in Nat : m <= Len(q) => Fore(m) \in Nat
  <2>1. 0 \in T
    BY <1>2
  <2>2. ASSUME NEW m \in Nat, m \in T PROVE m + 1 \in T
    <3> SUFFICES ASSUME m + 1 <= Len(q) PROVE Fore(m + 1) \in Nat
        OBVIOUS
    <3>1. Fore(m) \in Nat
      BY <1>0, <2>2
    <3> QED BY <1>1, <3>1
  <2> HIDE DEF T
  <2>3. Nat \subseteq T
    BY <2>1, <2>2, EveryNumber
  <2> QED BY <2>3 DEF T
<1>4. \A d \in Nat : n + d <= Len(q) => Back(n + d) \in Nat /\ Fore(n + d) = Fore(n) + Back(n + d)
  <2>1. 0 \in U
    BY <1>0, <1>2, <1>3
  <2>2. ASSUME NEW d \in Nat, d \in U PROVE d + 1 \in U
    <3> SUFFICES ASSUME n + (d + 1) <= Len(q)
                 PROVE  /\ Back(n + (d + 1)) \in Nat
                        /\ Fore(n + (d + 1)) = Fore(n) + Back(n + (d + 1))
        OBVIOUS
    <3>1. Back(n + d) \in Nat /\ Fore(n + d) = Fore(n) + Back(n + d) /\ Fore(n) \in Nat
      BY <1>0, <1>3, <2>2
    <3> DEFINE m == n + d
    <3>2. m \in Nat /\ n <= m /\ m + 1 = n + (d + 1) /\ m + 1 <= Len(q)
      BY <1>0
    <3> HIDE DEF m
    <3>3. /\ Len(q[m + 1].bytes) \in Nat
          /\ Fore(m + 1) = Fore(m) + Len(q[m + 1].bytes)
          /\ Back(m + 1) = Back(m) + Len(q[m + 1].bytes)
      BY <1>1, <3>2
    <3>4. Back(m) \in Nat /\ Fore(m) = Fore(n) + Back(m)
      BY <3>1 DEF m
    <3>5. Back(m + 1) \in Nat /\ Fore(m + 1) = Fore(n) + Back(m + 1)
      BY <3>1, <3>3, <3>4
    <3> QED BY <3>2, <3>5
  <2> HIDE DEF U
  <2>3. Nat \subseteq U
    BY <2>1, <2>2, EveryNumber
  <2> QED BY <2>3 DEF U
<1>5. SubSeq(q, 1, Len(q)) = q
  BY SubSeqFull
<1>6. Fore(Len(q)) = BytesOf(q)
  BY <1>5 DEF Fore
<1>7. n + (Len(q) - n) = Len(q) /\ Len(q) - n \in Nat
  BY <1>0
<1>8. Back(Len(q)) \in Nat /\ Fore(Len(q)) = Fore(n) + Back(Len(q))
  BY <1>0, <1>4, <1>7
<1> QED BY <1>0, <1>3, <1>6, <1>8 DEF Fore, Back

\* The number of bytes does not depend on the marks of the chunks.
LEMMA BytesOfSame ==
    ASSUME NEW q \in Seq(Chunk), NEW r \in Seq(Chunk), Len(q) = Len(r),
           \A i \in 1..Len(q) : q[i].bytes = r[i].bytes
    PROVE  BytesOf(q) = BytesOf(r)
<1> DEFINE T == {m \in Nat : m <= Len(q) => BytesOf(SubSeq(q, 1, m)) = BytesOf(SubSeq(r, 1, m))}
<1>1. 0 \in T
  <2>1. SubSeq(q, 1, 0) = <<>> /\ SubSeq(r, 1, 0) = <<>>
    BY SubSeqEmpty
  <2> QED BY <2>1
<1>2. ASSUME NEW m \in Nat, m \in T PROVE m + 1 \in T
  <2> SUFFICES ASSUME m + 1 <= Len(q)
               PROVE  BytesOf(SubSeq(q, 1, m + 1)) = BytesOf(SubSeq(r, 1, m + 1))
      OBVIOUS
  <2>1. /\ SubSeq(q, 1, m) \in Seq(Chunk) /\ q[m + 1] \in Chunk
        /\ SubSeq(q, 1, m + 1) = Append(SubSeq(q, 1, m), q[m + 1])
    BY PrefixGrows
  <2>2. /\ SubSeq(r, 1, m) \in Seq(Chunk) /\ r[m + 1] \in Chunk
        /\ SubSeq(r, 1, m + 1) = Append(SubSeq(r, 1, m), r[m + 1])
    BY PrefixGrows
  <2>3. q[m + 1].bytes = r[m + 1].bytes /\ m <= Len(q)
    <3>1. Len(q) \in Nat /\ m + 1 \in 1..Len(q)
      OBVIOUS
    <3> QED BY <3>1
  <2>4. BytesOf(SubSeq(q, 1, m)) = BytesOf(SubSeq(r, 1, m))
    BY <1>2, <2>3
  <2> QED BY <2>1, <2>2, <2>3, <2>4, BytesOfOneMore
<1>3. Len(q) \in Nat
  OBVIOUS
<1> HIDE DEF T
<1>4. Len(q) \in T
  BY <1>1, <1>2, <1>3, EveryNumber
<1>5. SubSeq(q, 1, Len(q)) = q /\ SubSeq(r, 1, Len(q)) = r
  BY SubSeqFull
<1>6. BytesOf(SubSeq(q, 1, Len(q))) = BytesOf(SubSeq(r, 1, Len(q)))
  BY <1>3, <1>4 DEF T
<1> QED BY <1>5, <1>6

-----------------------------------------------------------------------------
(***************************************************************************)
(* The invariant of the queue.                                             *)
(***************************************************************************)

Sample == Seq(Nat)
Decoders == [pending : Seq(Octets), discarding : BOOLEAN, oversized : BOOLEAN,
             malformed : Nat, row : Nat, samples : Seq(Sample)]
Numbers == {"received", "droppedChunks", "droppedBytes", "malformed", "row"}
Reports == [received : Int, droppedChunks : Int, droppedBytes : Int, malformed : Int, row : Int]
Ends == {"waiting", "emitting", "finishing", "returned"}

Types ==
    /\ stream \in Seq({"good", "bad", "newline"})
    /\ presented \in 0..Len(stream)
    /\ accepting \in BOOLEAN /\ stopRequested \in BOOLEAN
    /\ queue \in Seq(Chunk) /\ queuedBytes \in Nat
    /\ gapBeforeNext \in BOOLEAN /\ statsDirty \in BOOLEAN
    /\ counters \in [received : Nat, droppedChunks : Nat, droppedBytes : Nat]
    /\ decoder \in Decoders
    /\ last \in Reports /\ told \in Reports
    /\ batch \in [samples : Seq(Sample), then : Ends, delta : Reports]
    /\ thread \in {"none", "running", "exited"} /\ owner \in {"free", "joining"}
    /\ pc \in {"waiting", "emitting", "flushing", "delivering", "finishing",
               "lastFlush", "returned"}
    /\ decoded \in Seq(Sample) /\ pendingSamples \in Seq(Sample) /\ delivered \in Seq(Sample)
    /\ deadline \in BOOLEAN /\ shouldStop \in BOOLEAN /\ gapAtEnd \in BOOLEAN
    /\ failed \in BOOLEAN
    /\ base \in Nat /\ taken \in Nat /\ ingested \in Nat

\* Who accepts is running and was not asked to stop; who stops found the queue
\* empty after that, and has taken the gap at its end with it.
Threads ==
    /\ accepting => thread = "running" /\ pc # "returned" /\ ~stopRequested
    /\ shouldStop => stopRequested /\ queue = <<>> /\ ~gapBeforeNext
    /\ gapAtEnd => shouldStop
    /\ pc = "waiting" => ~shouldStop
    /\ pc \in {"finishing", "lastFlush"} => shouldStop
    /\ pc = "delivering" =>
          batch.then \in IF shouldStop THEN {"emitting", "finishing", "returned"}
                         ELSE {"emitting", "waiting"}

Bounds ==
    /\ Len(queue) <= MaxChunks
    /\ queuedBytes = BytesOf(queue) /\ queuedBytes <= MaxBytes

Batches ==
    /\ Len(pendingSamples) <= MaxBatch
    /\ pc # "lastFlush" => Len(pendingSamples) < MaxBatch
    /\ Len(batch.samples) <= MaxBatch

\* A chunk of the queue is a piece of what was presented.
StartOf(c) == c.bytes[1].at
EndOf(c) == c.bytes[Len(c.bytes)].at
Piece(c) ==
    /\ Len(c.bytes) \in ChunkSizes
    /\ StartOf(c) >= 1 /\ EndOf(c) <= presented
    /\ \A i \in 1..Len(c.bytes) :
          /\ c.bytes[i].at = StartOf(c) + i - 1
          /\ c.bytes[i].kind = stream[c.bytes[i].at]

\* The chunks are in the order of the stream, behind what the worker has taken.
InOrder ==
    /\ base <= taken /\ taken <= presented
    /\ \A i \in 1..Len(queue) : Piece(queue[i]) /\ taken < StartOf(queue[i])
    /\ \A i, j \in 1..Len(queue) : i < j => EndOf(queue[i]) < StartOf(queue[j])

Before(i) == IF i = 1 THEN taken ELSE EndOf(queue[i - 1])

Marked ==
    /\ \A i \in 1..Len(queue) : queue[i].gap <=> StartOf(queue[i]) # Before(i) + 1
    /\ (gapBeforeNext \/ gapAtEnd) <=> LastQueued # presented

QInv == Types /\ Threads /\ Bounds /\ Batches /\ EveryByteAccounted /\ InOrder /\ Marked

-----------------------------------------------------------------------------
(***************************************************************************)
(* The decoder.                                                            *)
(***************************************************************************)

\* What each byte keeps true, the bytes of a chunk keep true.
LEMMA IngestKeeps ==
    ASSUME NEW bytes \in Seq(Octets), NEW d, NEW A,
           [d EXCEPT !.samples = <<>>] \in A[0],
           \A i \in 1..Len(bytes) : \A x \in A[i - 1] : IngestByte(x, bytes[i]) \in A[i]
    PROVE  Ingest(d, bytes) \in A[Len(bytes)]
<1> DEFINE v == [d EXCEPT !.samples = <<>>]
           part(i) == Folded("decode", v, SubSeq(bytes, 1, i))
           T == {i \in Nat : i <= Len(bytes) => part(i) \in A[i]}
<1>0. Len(bytes) \in Nat /\ "decode" \in Kinds
  BY DEF Kinds
<1>1. 0 \in T
  <2>1. SubSeq(bytes, 1, 0) = <<>>
    BY SubSeqEmpty
  <2> HIDE DEF v
  <2>2. part(0) = v
    BY <1>0, <2>1, FoldNothing
  <2> QED BY <2>2 DEF v
<1> HIDE DEF v
<1>2. ASSUME NEW i \in Nat, i \in T PROVE i + 1 \in T
  <2> SUFFICES ASSUME i + 1 <= Len(bytes) PROVE part(i + 1) \in A[i + 1]
      OBVIOUS
  <2>1. /\ SubSeq(bytes, 1, i) \in Seq(Octets) /\ bytes[i + 1] \in Octets
        /\ SubSeq(bytes, 1, i + 1) = Append(SubSeq(bytes, 1, i), bytes[i + 1])
    BY PrefixGrows
  <2>2. part(i + 1) = IngestByte(part(i), bytes[i + 1])
    <3> DEFINE s == SubSeq(bytes, 1, i)
               x == bytes[i + 1]
    <3>1. s \in Seq(Octets) /\ x \in Octets /\ SubSeq(bytes, 1, i + 1) = Append(s, x)
      BY <2>1
    <3> HIDE DEF s, x
    <3>2. Folded("decode", v, Append(s, x)) = Fold("decode", Folded("decode", v, s), x)
      BY <1>0, <3>1, FoldOneMore
    <3>3. Fold("decode", Folded("decode", v, s), x) = IngestByte(Folded("decode", v, s), x)
      BY DEF Fold
    <3> QED BY <3>1, <3>2, <3>3 DEF s, x
  <2>3. part(i) \in A[i]
    BY <1>0, <1>2
  <2>4. i + 1 \in 1..Len(bytes) /\ (i + 1) - 1 = i
    BY <1>0
  <2> HIDE DEF part
  <2> QED BY <2>2, <2>3, <2>4
<1> HIDE DEF T
<1>3. Len(bytes) \in T
  BY <1>0, <1>1, <1>2, EveryNumber
<1>4. part(Len(bytes)) \in A[Len(bytes)]
  BY <1>0, <1>3 DEF T
<1>5. SubSeq(bytes, 1, Len(bytes)) = bytes
  BY SubSeqFull
<1>6. Ingest(d, bytes) = part(Len(bytes))
  BY <1>5 DEF Ingest, Folded, v
<1> QED BY <1>4, <1>6

\* The fields of a decoder.
LEMMA FieldsTyped ==
    ASSUME NEW x \in Decoders
    PROVE  /\ x.pending \in Seq(Octets) /\ x.discarding \in BOOLEAN /\ x.oversized \in BOOLEAN
           /\ x.malformed \in Nat /\ x.malformed + 1 \in Nat
           /\ x.row \in Nat /\ x.row + 1 \in Nat /\ x.row + 0 \in Nat
           /\ x.samples \in Seq(Sample)
BY DEF Decoders

\* A decoder with one field written is a decoder.
LEMMA DecoderFields ==
    ASSUME NEW x \in Decoders
    PROVE  /\ x.pending \in Seq(Octets) /\ x.discarding \in BOOLEAN /\ x.oversized \in BOOLEAN
           /\ x.malformed \in Nat /\ x.row \in Nat /\ x.samples \in Seq(Sample)
           /\ \A p \in Seq(Octets) : [x EXCEPT !.pending = p] \in Decoders
           /\ \A b \in BOOLEAN : /\ [x EXCEPT !.discarding = b] \in Decoders
                                 /\ [x EXCEPT !.oversized = b] \in Decoders
           /\ \A n \in Nat : /\ [x EXCEPT !.malformed = n] \in Decoders
                             /\ [x EXCEPT !.row = n] \in Decoders
           /\ \A s \in Seq(Sample) : /\ [x EXCEPT !.samples = s] \in Decoders
                                     /\ [x EXCEPT !.samples = s].samples = s
           /\ \A p : [x EXCEPT !.pending = p].samples = x.samples
           /\ \A b : [x EXCEPT !.discarding = b].samples = x.samples
           /\ [x EXCEPT !.pending = <<>>] \in Decoders
           /\ [x EXCEPT !.samples = <<>>] \in Decoders
           /\ [x EXCEPT !.samples = <<>>].samples = <<>>
           /\ [x EXCEPT !.discarding = TRUE] \in Decoders
           /\ [x EXCEPT !.discarding = FALSE] \in Decoders
<1> DEFINE P == Seq(Octets)
           S == Seq(Sample)
           M == Nat
           D == [pending : P, discarding : BOOLEAN, oversized : BOOLEAN,
                 malformed : M, row : M, samples : S]
<1>1. D = Decoders
  BY DEF Decoders
<1> HIDE DEF P, S, M
<1>2. x \in D
  BY <1>1
<1>3. /\ x.pending \in P /\ x.discarding \in BOOLEAN /\ x.oversized \in BOOLEAN
      /\ x.malformed \in M /\ x.row \in M /\ x.samples \in S
  BY <1>2
<1>4. /\ \A p \in P : [x EXCEPT !.pending = p] \in D
      /\ \A b \in BOOLEAN : [x EXCEPT !.discarding = b] \in D
      /\ \A b \in BOOLEAN : [x EXCEPT !.oversized = b] \in D
      /\ \A n \in M : [x EXCEPT !.malformed = n] \in D
      /\ \A n \in M : [x EXCEPT !.row = n] \in D
      /\ \A s \in S : [x EXCEPT !.samples = s] \in D
  BY <1>2
<1>5. /\ \A s \in S : [x EXCEPT !.samples = s].samples = s
      /\ \A p : [x EXCEPT !.pending = p].samples = x.samples
      /\ \A b : [x EXCEPT !.discarding = b].samples = x.samples
  BY <1>2
<1>6. <<>> \in P /\ <<>> \in S /\ TRUE \in BOOLEAN /\ FALSE \in BOOLEAN
  BY DEF P, S
<1>7. /\ [x EXCEPT !.pending = <<>>] \in D /\ [x EXCEPT !.samples = <<>>] \in D
      /\ [x EXCEPT !.samples = <<>>].samples = <<>>
      /\ [x EXCEPT !.discarding = TRUE] \in D /\ [x EXCEPT !.discarding = FALSE] \in D
  BY <1>4, <1>5, <1>6
<1> HIDE DEF D
<1> QED BY <1>1, <1>3, <1>4, <1>5, <1>7 DEF P, S, M

\* The decoder stays a decoder.
LEMMA DecoderTyped ==
    ASSUME NEW d \in Decoders
    PROVE  /\ [d EXCEPT !.samples = <<>>] \in Decoders
           /\ NotifyDataGap(d) \in Decoders
           /\ CloseOversized(d) \in Decoders /\ ProcessLine(d) \in Decoders
           /\ \A byte \in Octets : IngestByte(d, byte) \in Decoders
           /\ \A bytes \in Seq(Octets) : Ingest(d, bytes) \in Decoders
           /\ Finish(d) \in Decoders /\ Len(Finish(d).samples) <= 1
<1>1. ASSUME NEW x \in Decoders
      PROVE  /\ [x EXCEPT !.samples = <<>>] \in Decoders
             /\ CloseOversized(x) \in Decoders
             /\ ProcessLine(x) \in Decoders
             /\ x.samples = <<>> => Len(ProcessLine(x).samples) <= 1
  <2>1. Places(x.pending) \in Sample
    <3> DEFINE p == x.pending
    <3>1. p \in Seq(Octets)
      BY DecoderFields
    <3> HIDE DEF p
    <3>2. Len(p) \in Nat /\ DOMAIN p = 1..Len(p) /\ \A i \in 1..Len(p) : p[i].at \in Nat
      <4>1. \A o \in Octets : o.at \in Nat
        BY DEF Octets
      <4>2. Len(p) \in Nat /\ DOMAIN p = 1..Len(p) /\ \A i \in 1..Len(p) : p[i] \in Octets
        BY <3>1
      <4> QED BY <4>1, <4>2
    <3>3. Places(p) = [i \in 1..Len(p) |-> p[i].at]
      BY <3>2 DEF Places
    <3>4. Places(p) \in Seq(Nat)
      BY <3>2, <3>3
    <3> QED BY <3>4 DEF Sample, p
  <2>2. [x EXCEPT !.samples = <<>>] \in Decoders
    BY DecoderFields
  <2>3. CloseOversized(x) \in Decoders
    <3>1. x.row + (IF x.oversized THEN 1 ELSE 0) \in Nat
      BY FieldsTyped
    <3> DEFINE n == x.row + (IF x.oversized THEN 1 ELSE 0)
               y == [x EXCEPT !.row = n]
    <3> HIDE DEF n
    <3>2. y \in Decoders
      BY <3>1, DecoderFields DEF n
    <3> HIDE DEF y
    <3>3. CloseOversized(x) = [y EXCEPT !.oversized = FALSE]
      BY DEF CloseOversized, y, n
    <3> QED BY <3>2, <3>3, DecoderFields
  <2> DEFINE grown == Append(x.samples, Places(x.pending))
  <2>4. grown \in Seq(Sample) /\ Len(grown) = Len(x.samples) + 1
    <3>1. x.samples \in Seq(Sample)
      BY FieldsTyped
    <3> QED BY <2>1, <3>1, AppendProperties
  <2>5. /\ ProcessLine(x) \in Decoders
        /\ ProcessLine(x).samples \in {x.samples, grown}
    <3> HIDE DEF grown
    <3>1. ProcessLine(x) = IF x.pending = <<>> THEN x
                           ELSE IF Spoiled(x.pending)
                           THEN [x EXCEPT !.row = @ + 1, !.malformed = @ + 1]
                           ELSE [x EXCEPT !.row = @ + 1, !.samples = grown]
      BY DEF ProcessLine, grown
    <3>2. x.row + 1 \in Nat /\ x.malformed + 1 \in Nat
      BY FieldsTyped
    <3> DEFINE y == [x EXCEPT !.row = x.row + 1]
    <3>3. y \in Decoders /\ y.samples = x.samples /\ y.malformed = x.malformed
      BY <3>2, DecoderFields DEF Decoders
    <3>4. ProcessLine(x) \in {x, [y EXCEPT !.malformed = x.malformed + 1],
                              [y EXCEPT !.samples = grown]}
      BY <3>1
    <3> HIDE DEF y
    <3>5. /\ [y EXCEPT !.malformed = x.malformed + 1] \in Decoders
          /\ [y EXCEPT !.samples = grown] \in Decoders
          /\ [y EXCEPT !.samples = grown].samples = grown
      BY <2>4, <3>2, <3>3, DecoderFields
    <3>6. [y EXCEPT !.malformed = x.malformed + 1].samples = x.samples
      BY <3>3 DEF Decoders
    <3> QED BY <3>4, <3>5, <3>6
  <2>6. x.samples = <<>> => Len(x.samples) = 0
    OBVIOUS
  <2> QED BY <2>2, <2>3, <2>4, <2>5, <2>6
<1>2. NotifyDataGap(d) \in Decoders
  <2> DEFINE y == [d EXCEPT !.pending = <<>>]
  <2>1. y \in Decoders
    BY DecoderFields
  <2> HIDE DEF y
  <2>2. NotifyDataGap(d) = [y EXCEPT !.discarding = TRUE]
    BY DEF NotifyDataGap, y
  <2> QED BY <2>1, <2>2, DecoderFields
<1>3. ASSUME NEW x \in Decoders, NEW byte \in Octets PROVE IngestByte(x, byte) \in Decoders
  <2>1. [CloseOversized(x) EXCEPT !.discarding = FALSE] \in Decoders
    BY <1>1, DecoderFields
  <2>2. [ProcessLine(x) EXCEPT !.pending = <<>>] \in Decoders
    BY <1>1, DecoderFields
  <2>3. [x EXCEPT !.pending = <<>>, !.discarding = TRUE,
                  !.oversized = TRUE, !.malformed = @ + 1] \in Decoders
    <3> DEFINE p == [x EXCEPT !.pending = <<>>]
               q == [p EXCEPT !.discarding = TRUE]
               r == [q EXCEPT !.oversized = TRUE]
    <3>1. p \in Decoders
      BY DecoderFields
    <3> HIDE DEF p
    <3>2. q \in Decoders
      BY <3>1, DecoderFields
    <3> HIDE DEF q
    <3>3. r \in Decoders
      BY <3>2, DecoderFields
    <3> HIDE DEF r
    <3>4. x.malformed + 1 \in Nat
      BY FieldsTyped
    <3>5. [r EXCEPT !.malformed = x.malformed + 1] \in Decoders
      BY <3>3, <3>4, DecoderFields
    <3> QED BY <3>5 DEF p, q, r
  <2>4. [x EXCEPT !.pending = Append(@, byte)] \in Decoders
    <3>1. Append(x.pending, byte) \in Seq(Octets)
      BY <1>3, DecoderFields, AppendProperties
    <3> QED BY <3>1, DecoderFields
  <2> QED BY <2>1, <2>2, <2>3, <2>4 DEF IngestByte
<1>4. ASSUME NEW bytes \in Seq(Octets) PROVE Ingest(d, bytes) \in Decoders
  <2> DEFINE A == [i \in 0..Len(bytes) |-> Decoders]
  <2>1. Len(bytes) \in Nat /\ \A i \in 0..Len(bytes) : A[i] = Decoders
    OBVIOUS
  <2> HIDE DEF A
  <2>2. [d EXCEPT !.samples = <<>>] \in A[0]
    <3>1. [d EXCEPT !.samples = <<>>] \in Decoders
      BY DecoderFields
    <3>2. 0 \in 0..Len(bytes)
      BY <2>1
    <3> QED BY <2>1, <3>1, <3>2
  <2>3. \A i \in 1..Len(bytes) : \A x \in A[i - 1] : IngestByte(x, bytes[i]) \in A[i]
    <3> TAKE i \in 1..Len(bytes)
    <3>1. A[i - 1] = Decoders /\ A[i] = Decoders /\ bytes[i] \in Octets
      BY <2>1
    <3> QED BY <1>3, <3>1
  <2>4. Ingest(d, bytes) \in A[Len(bytes)]
    BY <2>2, <2>3, IngestKeeps
  <2> QED BY <2>1, <2>4
<1>5. Finish(d) \in Decoders /\ Len(Finish(d).samples) <= 1
  <2> DEFINE closed == [CloseOversized(d) EXCEPT !.samples = <<>>]
             end == IF d.discarding THEN closed ELSE ProcessLine(closed)
  <2>1. closed \in Decoders /\ closed.samples = <<>>
    <3>1. CloseOversized(d) \in Decoders
      BY <1>1
    <3> QED BY <3>1, DecoderFields
  <2>2. Finish(d) = [end EXCEPT !.pending = <<>>, !.discarding = FALSE]
    BY DEF Finish
  <2> HIDE DEF closed
  <2>3. end \in Decoders /\ Len(end.samples) <= 1
    <3>1. ProcessLine(closed) \in Decoders /\ Len(ProcessLine(closed).samples) <= 1
      BY <1>1, <2>1
    <3>2. Len(closed.samples) = 0
      BY <2>1
    <3> QED BY <2>1, <3>1, <3>2
  <2> HIDE DEF end
  <2> DEFINE y == [end EXCEPT !.pending = <<>>]
  <2>4. y \in Decoders /\ y.samples = end.samples
    BY <2>3, DecoderFields
  <2> HIDE DEF y
  <2>5. Finish(d) = [y EXCEPT !.discarding = FALSE]
    BY <2>2 DEF y
  <2>6. Finish(d) \in Decoders /\ Finish(d).samples = y.samples
    <3>1. [y EXCEPT !.discarding = FALSE] \in Decoders
      BY <2>4, DecoderFields
    <3>2. [y EXCEPT !.discarding = FALSE].samples = y.samples
      BY <2>4 DEF Decoders
    <3> QED BY <2>5, <3>1, <3>2
  <2> QED BY <2>3, <2>4, <2>6
<1> QED BY <1>1, <1>2, <1>3, <1>4, <1>5

-----------------------------------------------------------------------------
(***************************************************************************)
(* Every step keeps the invariant of the queue.                            *)
(***************************************************************************)

\* How many chunks make room is well defined, and they do make room.
LEMMA RoomIsMade ==
    ASSUME Types, Bounds, NEW size \in Nat
    PROVE  LET n == EvictedCount(size) IN
           /\ n \in 0..Len(queue)
           /\ \/ n = Len(queue)
              \/ /\ Len(queue) - n < MaxChunks
                 /\ queuedBytes - BytesOf(SubSeq(queue, 1, n)) <= MaxBytes - size
<1> DEFINE Fits(m) == \/ m = Len(queue)
                      \/ /\ Len(queue) - m < MaxChunks
                         /\ queuedBytes - BytesOf(SubSeq(queue, 1, m)) <= MaxBytes - size
           Least(n) == Fits(n) /\ \A m \in 0..(n - 1) : ~Fits(m)
           T == {m \in 0..Len(queue) : Fits(m)}
<1>0. Len(queue) \in Nat
  BY DEF Types
<1>1. \E n \in 0..Len(queue) : Least(n)
  <2>1. Fits(Len(queue)) /\ Len(queue) \in 0..Len(queue)
    BY <1>0
  <2> HIDE DEF Fits
  <2>2. T \in SUBSET Nat /\ T # {}
    BY <2>1
  <2>3. PICK n \in T : \A m \in T : n <= m
    BY <2>2, LeastNumber
  <2>4. n \in 0..Len(queue) /\ Fits(n)
    BY <2>3
  <2>5. \A m \in 0..(n - 1) : ~Fits(m)
    <3> TAKE m \in 0..(n - 1)
    <3>1. m \in 0..Len(queue) /\ m < n
      BY <1>0, <2>4
    <3>2. m \notin T
      BY <2>3, <3>1
    <3> QED BY <3>1, <3>2
  <2> QED BY <2>4, <2>5
<1>2. EvictedCount(size) = CHOOSE n \in 0..Len(queue) : Least(n)
  BY DEF EvictedCount
<1> HIDE DEF Least
<1>3. EvictedCount(size) \in 0..Len(queue) /\ Least(EvictedCount(size))
  BY <1>1, <1>2
<1> QED BY <1>3 DEF Least

\* Counters that grow are counters.
LEMMA CountersGrow ==
    ASSUME NEW c \in [received : Nat, droppedChunks : Nat, droppedBytes : Nat],
           NEW x \in Nat, NEW y \in Nat, NEW z \in Nat
    PROVE  [c EXCEPT !.received = @ + x, !.droppedChunks = @ + y, !.droppedBytes = @ + z]
               \in [received : Nat, droppedChunks : Nat, droppedBytes : Nat]
<1>1. /\ c.received + x \in Nat /\ c.droppedChunks + y \in Nat /\ c.droppedBytes + z \in Nat
  OBVIOUS
<1> DEFINE N == Nat
           C == [received : N, droppedChunks : N, droppedBytes : N]
<1> HIDE DEF N
<1>2. \A d \in C : \A n \in N : /\ [d EXCEPT !.received = n] \in C
                                /\ [d EXCEPT !.droppedChunks = n] \in C
                                /\ [d EXCEPT !.droppedBytes = n] \in C
  OBVIOUS
<1>3. c \in C /\ Nat = N
  BY DEF N
<1> HIDE DEF C
<1> QED BY <1>1, <1>2, <1>3 DEF C, N

\* A step that leaves the input and the queue alone keeps what is said of them.
LEMMA QueueUntouched ==
    ASSUME QInv,
           UNCHANGED <<producerVars, queue, queuedBytes, gapBeforeNext, takenVars, base, gapAtEnd>>,
           UNCHANGED counters
    PROVE  Bounds' /\ EveryByteAccounted' /\ InOrder' /\ Marked'
<1>1. Bounds'
  BY DEF QInv, Bounds
<1>2. EveryByteAccounted'
  BY DEF QInv, EveryByteAccounted, producerVars, takenVars
<1>3. InOrder'
  BY DEF QInv, InOrder, Piece, StartOf, EndOf, producerVars, takenVars
<1>4. Marked'
  BY DEF QInv, Marked, LastQueued, Before, StartOf, EndOf, producerVars, takenVars
<1> QED BY <1>1, <1>2, <1>3, <1>4

\* Where the chunks of the queue begin and end.
LEMMA PieceEnds ==
    ASSUME QInv
    PROVE  \A i \in 1..Len(queue) :
               /\ StartOf(queue[i]) \in Nat /\ EndOf(queue[i]) \in Nat
               /\ StartOf(queue[i]) <= EndOf(queue[i])
               /\ Len(queue[i].bytes) \in Nat /\ Len(queue[i].bytes) >= 1
               /\ taken < StartOf(queue[i]) /\ EndOf(queue[i]) <= presented
<1> TAKE i \in 1..Len(queue)
<1> DEFINE c == queue[i]
           b == c.bytes
<1>1. c \in Chunk
  BY DEF QInv, Types
<1>2. b \in Seq(Octets)
  BY <1>1 DEF Chunk
<1>3. Piece(c) /\ taken < StartOf(c)
  BY DEF QInv, InOrder
<1> HIDE DEF c
<1>4. Len(b) \in Nat /\ Len(b) >= 1 /\ StartOf(c) >= 1 /\ EndOf(c) <= presented
  BY <1>3, ChunkAssumption DEF Piece
<1>5. b[1] \in Octets /\ b[Len(b)] \in Octets
  BY <1>2, <1>4
<1>6. StartOf(c) \in Nat /\ EndOf(c) \in Nat
  BY <1>5 DEF StartOf, EndOf, Octets
<1>7. EndOf(c) = StartOf(c) + Len(b) - 1
  BY <1>3, <1>4 DEF Piece, EndOf
<1>8. StartOf(c) <= EndOf(c)
  BY <1>4, <1>6, <1>7
<1> QED BY <1>3, <1>4, <1>6, <1>8 DEF c

\* enqueueChunk, while there is room or room can be made.
LEMMA EnqueueKeeps ==
    ASSUME QInv, NEW size \in ChunkSizes, Enqueue(size)
    PROVE  QInv'
<1> USE DEF QInv
<1> DEFINE L == Len(queue)
           n == EvictedCount(size)
           rest == SubSeq(queue, n + 1, Len(queue))
           front == SubSeq(queue, 1, n)
           evicted == BytesOf(front)
           gap == gapBeforeNext \/ (n > 0 /\ rest = <<>>)
           chunk == [bytes |-> Bytes(presented, size), gap |-> gap]
           kept == MarkFront(rest, n > 0)
<1>0. size \in Nat /\ size > 0 /\ L \in Nat
  BY ChunkAssumption DEF Types
<1>1. /\ n \in 0..L
      /\ n = L \/ (L - n < MaxChunks /\ queuedBytes - evicted <= MaxBytes - size)
  BY <1>0, RoomIsMade
<1> HIDE DEF n
<1>2. /\ accepting /\ presented + size <= Len(stream) /\ size <= MaxBytes
      /\ presented' = presented + size
      /\ queue' = Append(kept, chunk)
      /\ queuedBytes' = queuedBytes - evicted + size
      /\ gapBeforeNext' = FALSE
      /\ counters' = [counters EXCEPT !.received = @ + size,
                                      !.droppedChunks = @ + n,
                                      !.droppedBytes = @ + evicted]
      /\ statsDirty' = TRUE
      /\ UNCHANGED <<stream, lifeVars, localVars, historyVars, decoder, last, takenVars>>
  BY DEF Enqueue, n
<1>3. /\ rest \in Seq(Chunk) /\ Len(rest) = L - n
      /\ \A i \in 1..(L - n) : rest[i] = queue[n + i]
  <2>1. queue \in Seq(Chunk) /\ n + 1 \in Nat /\ n + 1 >= 1 /\ n + 1 <= L + 1
    BY <1>0, <1>1 DEF Types
  <2> QED BY <1>1, <2>1, RestOf
<1>4. /\ evicted \in Nat /\ BytesOf(rest) \in Nat
      /\ queuedBytes = evicted + BytesOf(rest)
  BY <1>1, BytesOfSplit DEF Types, Bounds
<1> HIDE DEF rest
<1>5. /\ kept \in Seq(Chunk) /\ Len(kept) = L - n
      /\ \A i \in 1..(L - n) : /\ kept[i].bytes = queue[n + i].bytes
                               /\ kept[i].gap = IF i = 1 /\ n > 0 THEN TRUE
                                                ELSE queue[n + i].gap
      /\ \A i \in 1..(L - n) : kept[i].bytes = rest[i].bytes
  <2>1. CASE n > 0 /\ rest # <<>>
    <3>1. kept = [rest EXCEPT ![1].gap = TRUE]
      BY <2>1 DEF MarkFront
    <3>2. L - n \in Nat /\ L - n # 0
      BY <1>0, <1>1, <1>3, <2>1
    <3>3. /\ DOMAIN rest = 1..(L - n)
          /\ \A i \in 1..(L - n) : rest[i] \in Chunk
      BY <1>3
    <3>4. \A c \in Chunk : /\ [c EXCEPT !.gap = TRUE] \in Chunk
                           /\ [c EXCEPT !.gap = TRUE].gap = TRUE
                           /\ [c EXCEPT !.gap = TRUE].bytes = c.bytes
      BY DEF Chunk
    <3>5. /\ DOMAIN kept = 1..(L - n)
          /\ kept = [i \in 1..(L - n) |-> IF i = 1 THEN [rest[1] EXCEPT !.gap = TRUE] ELSE rest[i]]
      BY <3>1, <3>2, <3>3
    <3>6. 1 \in 1..(L - n)
      BY <3>2
    <3> HIDE DEF kept
    <3>7. kept \in Seq(Chunk) /\ Len(kept) = L - n
      <4>1. \A i \in 1..(L - n) : kept[i] \in Chunk
        BY <3>3, <3>4, <3>5, <3>6
      <4> DEFINE m == L - n
      <4>2. m \in Nat /\ DOMAIN kept = 1..m /\ kept = [i \in 1..m |-> kept[i]]
        BY <3>2, <3>5
      <4> HIDE DEF m
      <4>3. \A i \in 1..m : kept[i] \in Chunk
        BY <4>1 DEF m
      <4>4. kept \in [1..m -> Chunk]
        BY <4>2, <4>3
      <4>5. kept \in Seq(Chunk) /\ Len(kept) = m
        BY <4>2, <4>4
      <4> QED BY <4>5 DEF m
    <3>8. \A i \in 1..(L - n) : /\ kept[i].bytes = rest[i].bytes
                                /\ kept[i].gap = IF i = 1 THEN TRUE ELSE rest[i].gap
      BY <3>3, <3>4, <3>5, <3>6
    <3> QED BY <1>3, <2>1, <3>7, <3>8
  <2>2. CASE ~(n > 0 /\ rest # <<>>)
    <3>1. kept = rest
      BY <2>2 DEF MarkFront
    <3>2. n > 0 => L - n = 0
      BY <1>3, <2>2
    <3> HIDE DEF kept
    <3>3. \A i \in 1..(L - n) : ~(i = 1 /\ n > 0)
      BY <3>2
    <3> QED BY <1>3, <3>1, <3>3
  <2> QED BY <2>1, <2>2
<1> HIDE DEF kept
<1>6. BytesOf(kept) = BytesOf(rest)
  BY <1>3, <1>5, BytesOfSame
<1>7. chunk \in Chunk /\ Len(chunk.bytes) = size /\ chunk.gap = gap
      /\ \A i \in 1..size : /\ chunk.bytes[i].at = presented + i
                            /\ chunk.bytes[i].kind = stream[presented + i]
  <2>1. Bytes(presented, size) = [i \in 1..size |-> [at |-> presented + i, kind |-> stream[presented + i]]]
    BY DEF Bytes, Byte
  <2>2. \A i \in 1..size : presented + i \in Nat /\ stream[presented + i] \in {"good", "bad", "newline"}
    <3>1. stream \in Seq({"good", "bad", "newline"}) /\ presented \in Nat /\ Len(stream) \in Nat
      BY DEF Types
    <3> TAKE i \in 1..size
    <3>2. presented + i \in 1..Len(stream)
      BY <1>0, <1>2, <3>1
    <3> QED BY <3>1, <3>2
  <2>3. \A i \in 1..size : [at |-> presented + i, kind |-> stream[presented + i]] \in Octets
    BY <2>2 DEF Octets
  <2> DEFINE b == Bytes(presented, size)
  <2>4. \A i \in 1..size : b[i] = [at |-> presented + i, kind |-> stream[presented + i]]
    BY <2>1
  <2>5. b \in Seq(Octets) /\ Len(b) = size
    <3>1. b \in [1..size -> Octets]
      BY <2>1, <2>3
    <3> HIDE DEF b
    <3> QED BY <1>0, <3>1
  <2>6. gap \in BOOLEAN
    BY DEF Types
  <2> HIDE DEF b, gap
  <2>7. chunk = [bytes |-> b, gap |-> gap]
    BY DEF b
  <2> HIDE DEF chunk
  <2>8. chunk \in Chunk /\ chunk.bytes = b /\ chunk.gap = gap
    BY <2>5, <2>6, <2>7 DEF Chunk
  <2> QED BY <2>4, <2>5, <2>8
<1> HIDE DEF chunk
<1> DEFINE M == L - n + 1
<1>8. /\ queue' \in Seq(Chunk) /\ Len(queue') = M /\ M \in Nat /\ M >= 1
      /\ queue'[M] = chunk /\ \A i \in 1..(L - n) : queue'[i] = kept[i]
  <2>1. L - n \in Nat
    BY <1>0, <1>1
  <2> QED BY <1>2, <1>5, <1>7, <2>1, AppendProperties
<1>9. BytesOf(queue') = BytesOf(kept) + size
  BY <1>2, <1>5, <1>7, BytesOfOneMore
<1> HIDE DEF evicted, gap
<1>10. /\ \A i \in 1..(L - n) : /\ queue'[i].bytes = queue[n + i].bytes
                               /\ StartOf(queue'[i]) = StartOf(queue[n + i])
                               /\ EndOf(queue'[i]) = EndOf(queue[n + i])
                               /\ n + i \in 1..L
      /\ queue'[M].bytes = chunk.bytes
      /\ StartOf(queue'[M]) = presented + 1 /\ EndOf(queue'[M]) = presented + size
  <2>1. \A i \in 1..(L - n) : queue'[i].bytes = queue[n + i].bytes
    BY <1>5, <1>8
  <2>2. StartOf(queue'[M]) = presented + 1 /\ EndOf(queue'[M]) = presented + size
    BY <1>0, <1>7, <1>8 DEF StartOf, EndOf
  <2>3. \A i \in 1..(L - n) : n + i \in 1..L
    BY <1>0, <1>1
  <2> QED BY <1>8, <2>1, <2>2, <2>3 DEF StartOf, EndOf
<1>11. \A i \in 1..L : /\ StartOf(queue[i]) \in Nat /\ EndOf(queue[i]) \in Nat
                       /\ StartOf(queue[i]) <= EndOf(queue[i])
                       /\ taken < StartOf(queue[i]) /\ EndOf(queue[i]) <= presented
  BY PieceEnds
<1>12. /\ accepting /\ thread = "running" /\ pc # "returned" /\ ~stopRequested /\ ~shouldStop
       /\ ~gapAtEnd /\ presented \in Nat /\ taken \in Nat /\ Len(stream) \in Nat
  BY <1>2 DEF Threads, Types
<1>13. Types'
  <2>1. /\ counters' \in [received : Nat, droppedChunks : Nat, droppedBytes : Nat]
    <3>1. n \in Nat
      BY <1>0, <1>1
    <3> DEFINE C == [received : Nat, droppedChunks : Nat, droppedBytes : Nat]
    <3>2. \A c \in C : \A x, y, z \in Nat :
              [c EXCEPT !.received = @ + x, !.droppedChunks = @ + y, !.droppedBytes = @ + z] \in C
      BY CountersGrow
    <3>3. counters \in C
      BY DEF Types
    <3> HIDE DEF C
    <3>4. counters' \in C
      BY <1>0, <1>2, <1>4, <3>1, <3>2, <3>3
    <3> QED BY <3>4 DEF C
  <2>2. presented' \in 0..Len(stream)
    BY <1>0, <1>2, <1>12
  <2>3. queuedBytes' \in Nat
    BY <1>0, <1>2, <1>4
  <2> QED BY <1>2, <1>8, <2>1, <2>2, <2>3 DEF Types, lifeVars, localVars, historyVars, takenVars
<1>14. Threads'
  BY <1>2, <1>12 DEF Threads, lifeVars, localVars
<1>15. Bounds'
  <2>1. M <= MaxChunks
    BY <1>0, <1>1, <1>12, ConfigAssumption
  <2>2. queuedBytes' = BytesOf(queue')
    BY <1>0, <1>2, <1>4, <1>6, <1>9
  <2>3. queuedBytes' <= MaxBytes
    <3>1. CASE n = L
      <4>1. rest = <<>>
        BY <1>3, <3>1
      <4>2. BytesOf(rest) = 0
        BY <1>7, <4>1, BytesOfOneMore, <1>5
      <4> QED BY <1>0, <1>2, <1>4, <4>2
    <3>2. CASE n # L
      BY <1>0, <1>1, <1>2, <1>4, <3>2, ConfigAssumption
    <3> QED BY <3>1, <3>2
  <2> QED BY <1>8, <2>1, <2>2, <2>3 DEF Bounds
<1>16. Batches'
  BY <1>2 DEF Batches, localVars
<1>17. EveryByteAccounted'
  <2>1. counters'.received = counters.received + size
        /\ counters'.droppedBytes = counters.droppedBytes + evicted
    BY <1>2 DEF Types
  <2>2. counters.received \in Nat /\ counters.droppedBytes \in Nat
    BY DEF Types
  <2>3. /\ counters.received = presented - base
        /\ counters.received = ingested + counters.droppedBytes + queuedBytes
    BY DEF EveryByteAccounted
  <2>4. base' = base /\ ingested' = ingested /\ base \in Nat /\ ingested \in Nat
    BY <1>2 DEF historyVars, takenVars, Types
  <2>5. /\ counters'.received = presented' - base'
        /\ counters'.received = ingested' + counters'.droppedBytes + queuedBytes'
    <3> DEFINE r == counters.received
               d == counters.droppedBytes
               rest0 == BytesOf(rest)
    <3>1. /\ r \in Nat /\ d \in Nat /\ base \in Nat /\ ingested \in Nat /\ evicted \in Nat
          /\ rest0 \in Nat /\ presented \in Nat /\ size \in Nat
          /\ queuedBytes = evicted + rest0 /\ queuedBytes' = queuedBytes - evicted + size
          /\ r = presented - base /\ r = ingested + d + queuedBytes
          /\ presented' = presented + size /\ counters'.received = r + size
          /\ counters'.droppedBytes = d + evicted /\ base' = base /\ ingested' = ingested
      BY <1>0, <1>2, <1>4, <1>12, <2>1, <2>2, <2>3, <2>4
    <3> HIDE DEF r, d, rest0
    <3>2. r + size = (presented + size) - base
      BY <3>1
    <3>3. r + size = ingested + (d + evicted) + (queuedBytes - evicted + size)
      BY <3>1
    <3> QED BY <3>1, <3>2, <3>3
  <2> QED BY <2>5 DEF EveryByteAccounted
<1>18. InOrder'
  <2>1. base <= taken /\ taken <= presented' /\ taken' = taken /\ base' = base /\ stream' = stream
    BY <1>0, <1>2, <1>12 DEF InOrder, historyVars, takenVars
  <2>2. ASSUME NEW i \in 1..M PROVE Piece(queue[i])' /\ taken' < StartOf(queue'[i])
    <3>1. CASE i \in 1..(L - n)
      <4> DEFINE c == queue[n + i]
                 d == queue'[i]
      <4>1. Piece(c) /\ taken < StartOf(c) /\ d.bytes = c.bytes
        BY <1>10, <3>1 DEF InOrder
      <4>2. EndOf(c) <= presented' /\ EndOf(c) \in Nat
        BY <1>0, <1>2, <1>10, <1>11, <1>12, <3>1
      <4> HIDE DEF c, d
      <4>3. /\ Len(d.bytes) \in ChunkSizes /\ StartOf(d) >= 1 /\ EndOf(d) <= presented'
            /\ \A j \in 1..Len(d.bytes) : /\ d.bytes[j].at = StartOf(d) + j - 1
                                          /\ d.bytes[j].kind = stream[d.bytes[j].at]
        BY <4>1, <4>2 DEF Piece, StartOf, EndOf
      <4>4. taken < StartOf(d)
        BY <4>1 DEF StartOf
      <4> QED BY <2>1, <4>3, <4>4 DEF d, Piece, StartOf, EndOf
    <3>2. CASE i = M
      <4> DEFINE d == queue'[i]
      <4>1. d.bytes = chunk.bytes /\ StartOf(d) = presented + 1 /\ EndOf(d) = presented'
        BY <1>2, <1>10, <3>2
      <4> HIDE DEF d
      <4>2. \A j \in 1..Len(d.bytes) : /\ d.bytes[j].at = StartOf(d) + j - 1
                                       /\ d.bytes[j].kind = stream[d.bytes[j].at]
        <5> DEFINE b == chunk.bytes
        <5>1. Len(b) = size /\ d.bytes = b
              /\ \A j \in 1..size : b[j].at = presented + j /\ b[j].kind = stream[presented + j]
          BY <1>7, <4>1
        <5> HIDE DEF b
        <5>2. \A j \in 1..size : presented + j = (presented + 1) + j - 1
          BY <1>0, <1>12
        <5>3. \A j \in 1..size : /\ b[j].at = StartOf(d) + j - 1
                                  /\ b[j].kind = stream[b[j].at]
          BY <4>1, <5>1, <5>2
        <5> QED BY <5>1, <5>3
      <4>3. Len(d.bytes) \in ChunkSizes /\ StartOf(d) >= 1 /\ taken < StartOf(d)
        BY <1>7, <1>12, <2>1, <4>1 DEF InOrder
      <4>4. EndOf(d) <= presented'
        BY <1>0, <1>2, <1>12, <4>1
      <4> QED BY <2>1, <4>2, <4>3, <4>4 DEF d, Piece, StartOf, EndOf
    <3> QED BY <1>0, <1>1, <3>1, <3>2
  <2>3. ASSUME NEW i \in 1..M, NEW j \in 1..M, i < j
        PROVE  EndOf(queue'[i]) < StartOf(queue'[j])
    <3>1. i \in 1..(L - n)
      BY <1>0, <1>1, <2>3
    <3>2. CASE j \in 1..(L - n)
      <4>1. n + i < n + j /\ n \in Nat
        BY <1>0, <1>1, <2>3
      <4>2. EndOf(queue[n + i]) < StartOf(queue[n + j])
        BY <1>10, <3>1, <3>2, <4>1 DEF InOrder
      <4> QED BY <1>10, <3>1, <3>2, <4>2
    <3>3. CASE j = M
      <4>1. EndOf(queue[n + i]) \in Nat /\ EndOf(queue[n + i]) <= presented
        BY <1>10, <1>11, <3>1
      <4> QED BY <1>10, <1>12, <3>1, <3>3, <4>1
    <3> QED BY <1>0, <1>1, <3>2, <3>3
  <2>4. \A i \in 1..M : Piece(queue[i])' /\ taken' < StartOf(queue'[i])
    BY <2>2
  <2>5. \A i, j \in 1..M : i < j => EndOf(queue'[i]) < StartOf(queue'[j])
    BY <2>3
  <2> HIDE DEF M
  <2> QED BY <1>8, <2>1, <2>4, <2>5 DEF InOrder, StartOf, EndOf
<1>19. Marked'
  <2> DEFINE Old(i) == IF i = 1 THEN taken ELSE EndOf(queue[i - 1])
             New(i) == IF i = 1 THEN taken ELSE EndOf(queue'[i - 1])
  <2>1. ASSUME NEW i \in 1..(L - n)
        PROVE  queue'[i].gap <=> StartOf(queue'[i]) # New(i) + 1
    <3> DEFINE k == n + i
    <3>1. k \in 1..L /\ StartOf(queue'[i]) = StartOf(queue[k])
      BY <1>10
    <3>2. queue[k].gap <=> StartOf(queue[k]) # Old(k) + 1
      BY <3>1 DEF Marked, Before
    <3>3. queue'[i].gap = IF i = 1 /\ n > 0 THEN TRUE ELSE queue[k].gap
      BY <1>5, <1>8
    <3>4. CASE i = 1 /\ n > 0
      <4>1. 1 \in 1..L /\ 1 < k
        BY <1>0, <1>1, <3>1, <3>4
      <4>2. EndOf(queue[1]) < StartOf(queue[k])
        BY <3>1, <4>1 DEF InOrder
      <4>3. taken < StartOf(queue[1]) /\ StartOf(queue[1]) <= EndOf(queue[1])
            /\ StartOf(queue[1]) \in Nat /\ EndOf(queue[1]) \in Nat /\ StartOf(queue[k]) \in Nat
        BY <1>11, <3>1, <4>1
      <4>4. StartOf(queue[k]) # taken + 1
        BY <1>12, <4>2, <4>3
      <4> QED BY <3>1, <3>3, <3>4, <4>4
    <3>5. CASE ~(i = 1 /\ n > 0)
      <4>1. New(i) = Old(k)
        <5>1. CASE i = 1
          <6>1. k = 1
            BY <1>0, <1>1, <3>5, <5>1
          <6> QED BY <5>1, <6>1
        <5>2. CASE i # 1
          <6>1. i - 1 \in 1..(L - n) /\ n + (i - 1) = k - 1 /\ k # 1
            BY <1>0, <1>1, <5>2
          <6>2. EndOf(queue'[i - 1]) = EndOf(queue[n + (i - 1)])
            BY <1>10, <6>1
          <6> QED BY <5>2, <6>1, <6>2
        <5> QED BY <5>1, <5>2
      <4> QED BY <3>1, <3>2, <3>3, <3>5, <4>1
    <3> QED BY <3>4, <3>5
  <2>2. queue'[M].gap <=> StartOf(queue'[M]) # New(M) + 1
    <3> DEFINE st == StartOf(queue'[M])
               nw == New(M)
    <3>1. (queue'[M].gap <=> gapBeforeNext \/ (n > 0 /\ rest = <<>>)) /\ st = presented + 1
      BY <1>7, <1>8, <1>10 DEF gap
    <3>2. gapBeforeNext <=> LastQueued # presented
      BY <1>12 DEF Marked
    <3>3. CASE rest = <<>> /\ n > 0
      <4>1. L - n = 0 /\ M = 1 /\ 1 \in 1..L
        BY <1>0, <1>1, <1>3, <3>3
      <4>2. taken < StartOf(queue[1]) /\ StartOf(queue[1]) <= presented /\ StartOf(queue[1]) \in Nat
        BY <1>11, <1>12, <4>1
      <4>3. presented + 1 # taken + 1
        BY <1>12, <4>2
      <4> QED BY <3>1, <3>3, <4>1, <4>3
    <3>4. CASE rest = <<>> /\ n = 0
      <4>1. L = 0 /\ M = 1
        BY <1>0, <1>3, <3>4
      <4>2. queue = <<>>
        BY <4>1 DEF Types
      <4>3. LastQueued = taken
        BY <4>2 DEF LastQueued
      <4>4. nw = taken /\ ~(n > 0)
        BY <3>4, <4>1
      <4> HIDE DEF st, nw
      <4>5. LastQueued # presented <=> st # nw + 1
        BY <1>12, <3>1, <4>3, <4>4
      <4> QED BY <3>1, <3>2, <4>4, <4>5 DEF st, nw
    <3>5. CASE rest # <<>>
      <4>1. L - n # 0
        BY <1>3, <3>5
      <4>2. L - n \in 1..(L - n) /\ n + (L - n) = L /\ M # 1 /\ M - 1 = L - n /\ L \in 1..L
        BY <1>0, <1>1, <4>1
      <4>3. New(M) = EndOf(queue[L])
        <5>1. EndOf(queue'[L - n]) = EndOf(queue[n + (L - n)])
          BY <1>10, <4>2
        <5> QED BY <4>2, <5>1
      <4>4. LastQueued = EndOf(queue[L])
        <5>1. queue # <<>>
          BY <4>2
        <5> QED BY <5>1 DEF LastQueued, EndOf
      <4>5. EndOf(queue[L]) \in Nat
        BY <1>11, <4>2
      <4>6. nw = LastQueued
        BY <4>3, <4>4
      <4> HIDE DEF st, nw
      <4>7. LastQueued # presented <=> st # nw + 1
        BY <1>12, <3>1, <4>4, <4>5, <4>6
      <4> QED BY <3>1, <3>2, <3>5, <4>7 DEF st, nw
    <3> QED BY <1>0, <1>1, <3>3, <3>4, <3>5
  <2>3. \A i \in 1..M : queue'[i].gap <=> StartOf(queue'[i]) # New(i) + 1
    <3> TAKE i \in 1..M
    <3>1. i \in 1..(L - n) \/ i = M
      BY <1>0, <1>1
    <3> QED BY <2>1, <2>2, <3>1
  <2>4. LastQueued' = presented'
    <3>1. queue' # <<>>
      BY <1>8
    <3>2. LastQueued' = EndOf(queue'[Len(queue')])
      BY <3>1 DEF LastQueued, EndOf
    <3> QED BY <1>2, <1>8, <1>10, <3>2
  <2>5. ~(gapBeforeNext \/ gapAtEnd)'
    BY <1>2, <1>12 DEF localVars
  <2>6. taken' = taken
    BY <1>2 DEF takenVars
  <2> HIDE DEF M
  <2> QED BY <1>8, <2>3, <2>4, <2>5, <2>6 DEF Marked, Before, StartOf, EndOf
<1> QED BY <1>13, <1>14, <1>15, <1>16, <1>17, <1>18, <1>19

\* enqueueChunk, when the chunk is larger than the queue.
LEMMA RejectKeeps ==
    ASSUME QInv, NEW size \in ChunkSizes, RejectOversized(size)
    PROVE  QInv'
<1> USE DEF QInv
<1>0. size \in Nat /\ size > 0 /\ presented \in Nat /\ Len(stream) \in Nat
  BY ChunkAssumption DEF Types
<1>1. /\ accepting /\ presented + size <= Len(stream)
      /\ presented' = presented + size
      /\ counters' = [counters EXCEPT !.received = @ + size,
                                      !.droppedChunks = @ + 1,
                                      !.droppedBytes = @ + size]
      /\ gapBeforeNext' = TRUE
      /\ statsDirty' = TRUE
      /\ UNCHANGED <<stream, queue, queuedBytes, lifeVars, localVars, historyVars,
                     decoder, last, takenVars>>
  BY DEF RejectOversized
<1>2. ~shouldStop /\ ~gapAtEnd /\ ~stopRequested
  BY <1>1 DEF Threads
<1>3. Types'
  <2>1. counters' \in [received : Nat, droppedChunks : Nat, droppedBytes : Nat]
    BY <1>0, <1>1, CountersGrow DEF Types
  <2>2. presented' \in 0..Len(stream)
    BY <1>0, <1>1
  <2> QED BY <1>1, <2>1, <2>2 DEF Types, lifeVars, localVars, historyVars, takenVars
<1>4. Threads'
  BY <1>1, <1>2 DEF Threads, lifeVars, localVars
<1>5. Bounds'
  BY <1>1 DEF Bounds
<1>6. Batches'
  BY <1>1 DEF Batches, localVars
<1>7. EveryByteAccounted'
  <2>1. /\ counters'.received = counters.received + size
        /\ counters'.droppedBytes = counters.droppedBytes + size
        /\ counters.received \in Nat /\ counters.droppedBytes \in Nat
    BY <1>1 DEF Types
  <2>2. base' = base /\ ingested' = ingested /\ queuedBytes' = queuedBytes
        /\ base \in Nat /\ ingested \in Nat /\ queuedBytes \in Nat
    BY <1>1 DEF historyVars, takenVars, Types
  <2> QED BY <1>0, <1>1, <2>1, <2>2 DEF EveryByteAccounted
<1>8. InOrder'
  <2>1. /\ \A i \in 1..Len(queue) : EndOf(queue[i]) <= presented'
        /\ taken <= presented'
    <3>1. taken \in Nat /\ taken <= presented
      BY DEF Types, InOrder
    <3> QED BY <1>0, <1>1, <3>1, PieceEnds
  <2>2. taken' = taken /\ base' = base /\ queue' = queue /\ stream' = stream
    BY <1>1 DEF takenVars, historyVars
  <2>3. \A i \in 1..Len(queue) : Piece(queue[i])'
    BY <2>1, <2>2 DEF InOrder, Piece, StartOf, EndOf
  <2> QED BY <2>1, <2>2, <2>3 DEF InOrder, StartOf, EndOf
<1>9. Marked'
  <2>1. taken' = taken /\ queue' = queue
    BY <1>1 DEF takenVars
  <2>2. \A i \in 1..Len(queue') : (queue[i].gap <=> StartOf(queue[i]) # Before(i) + 1)'
    BY <2>1 DEF Marked, Before, StartOf, EndOf
  <2>3. LastQueued \in Nat /\ LastQueued <= presented
    <3>1. CASE queue = <<>>
      BY <3>1 DEF LastQueued, InOrder, Types
    <3>2. CASE queue # <<>>
      <4>1. Len(queue) \in 1..Len(queue)
        BY <3>2 DEF Types
      <4> QED BY <3>2, <4>1, PieceEnds DEF LastQueued, EndOf
    <3> QED BY <3>1, <3>2
  <2>4. LastQueued' = LastQueued
    BY <2>1 DEF LastQueued
  <2>5. LastQueued' # presented'
    BY <1>0, <1>1, <2>3, <2>4
  <2> QED BY <1>1, <2>2, <2>5 DEF Marked
<1> QED BY <1>3, <1>4, <1>5, <1>6, <1>7, <1>8, <1>9

\* The section under the mutex, and the decoding of what it took.
LEMMA TakeWorkKeeps ==
    ASSUME QInv, TakeWork
    PROVE  QInv'
<1> USE DEF QInv
<1> DEFINE chunk == IF queue = <<>> THEN [bytes |-> <<>>, gap |-> FALSE] ELSE Head(queue)
           entry == IF chunk.gap THEN NotifyDataGap(decoder) ELSE decoder
           exit  == Ingest(entry, chunk.bytes)
           b     == chunk.bytes
<1>1. /\ thread = "running" /\ pc = "waiting"
      /\ statsDirty' = FALSE
      /\ queue' = IF queue = <<>> THEN <<>> ELSE Tail(queue)
      /\ queuedBytes' = queuedBytes - Len(b)
      /\ taken' = IF queue = <<>> THEN taken ELSE b[Len(b)].at
      /\ ingested' = ingested + Len(b)
      /\ shouldStop' = (queue = <<>> /\ stopRequested)
      /\ gapAtEnd' = (shouldStop' /\ gapBeforeNext)
      /\ gapBeforeNext' = (gapBeforeNext /\ ~shouldStop')
      /\ deadline' = (deadline \/ statsDirty \/ queue # <<>>)
      /\ decoder' = [exit EXCEPT !.samples = <<>>]
      /\ decoded' = exit.samples
      /\ pc' = IF Ready THEN "emitting" ELSE "flushing"
      /\ UNCHANGED <<producerVars, counters, lifeVars, historyVars, pendingSamples, batch, last>>
  BY DEF TakeWork
<1>2. chunk \in Chunk /\ b \in Seq(Octets)
  <2>1. CASE queue = <<>>
    <3>1. chunk = [bytes |-> <<>>, gap |-> FALSE]
      BY <2>1
    <3> HIDE DEF chunk
    <3>2. [bytes |-> <<>>, gap |-> FALSE] \in Chunk
      BY DEF Chunk
    <3>3. chunk \in Chunk
      BY <3>1, <3>2
    <3> QED BY <3>3 DEF Chunk
  <2>2. CASE queue # <<>>
    <3>1. chunk \in Chunk
      BY <2>2 DEF Types
    <3> HIDE DEF chunk
    <3> QED BY <3>1 DEF Chunk
  <2> QED BY <2>1, <2>2
<1>3. exit \in Decoders
  <2>1. decoder \in Decoders
    BY DEF Types
  <2>2. NotifyDataGap(decoder) \in Decoders
    BY <2>1, DecoderTyped
  <2>3. entry \in Decoders
    BY <2>1, <2>2
  <2> HIDE DEF entry, chunk
  <2> QED BY <1>2, <2>3, DecoderTyped
<1>4. decoder' \in Decoders /\ decoded' \in Seq(Sample)
  <2> HIDE DEF exit
  <2> QED BY <1>1, <1>3, DecoderFields, FieldsTyped
<1> HIDE DEF exit, entry
<1> DEFINE L == Len(queue)
<1>5. ASSUME queue = <<>>
      PROVE  /\ Len(b) = 0 /\ queue' = <<>> /\ taken' = taken
             /\ queuedBytes' = queuedBytes /\ ingested' = ingested
  BY <1>1, <1>5 DEF Types
<1>6. ASSUME queue # <<>>
      PROVE  /\ L \in Nat /\ L >= 1 /\ queue' \in Seq(Chunk) /\ Len(queue') = L - 1
             /\ \A i \in 1..(L - 1) : queue'[i] = queue[i + 1] /\ i + 1 \in 1..L
             /\ b = queue[1].bytes /\ Len(b) \in Nat /\ taken' = EndOf(queue[1]) /\ taken' \in Nat
             /\ queuedBytes' \in Nat /\ queuedBytes' = BytesOf(queue')
             /\ queuedBytes = queuedBytes' + Len(b)
             /\ 1 \in 1..L
  <2>1. L \in Nat /\ L >= 1 /\ 1 \in 1..L /\ queue \in Seq(Chunk)
    BY <1>6 DEF Types
  <2>2. /\ queue' = Tail(queue)
        /\ \A i \in 1..(L - 1) : i + 1 \in 1..L
    BY <1>1, <1>6, <2>1
  <2>3. queue' \in Seq(Chunk) /\ Len(queue') = L - 1 /\ \A i \in 1..(L - 1) : queue'[i] = queue[i + 1]
    BY <1>6, <2>1, <2>2, HeadTailProperties
  <2>4. chunk = queue[1]
    BY <1>6, <2>1
  <2> HIDE DEF chunk
  <2>5. taken' = EndOf(queue[1]) /\ taken' \in Nat
    <3>1. taken' = EndOf(queue[1])
      BY <1>1, <1>6, <2>4 DEF EndOf
    <3> QED BY <2>1, <3>1, PieceEnds
  <2>6. /\ BytesOf(queue) = BytesOf(SubSeq(queue, 1, 1)) + BytesOf(SubSeq(queue, 2, L))
        /\ BytesOf(SubSeq(queue, 2, L)) \in Nat
    <3>1. 1 \in 0..Len(queue) /\ 1 + 1 = 2
      BY <2>1
    <3> QED BY <2>1, <3>1, BytesOfSplit
  <2>7. BytesOf(SubSeq(queue, 1, 1)) = Len(b) /\ Len(b) \in Nat
    <3>1. SubSeq(queue, 1, 0) = <<>> /\ <<>> \in Seq(Chunk)
      BY <2>1, SubSeqEmpty
    <3>2. SubSeq(queue, 1, 0 + 1) = Append(SubSeq(queue, 1, 0), queue[0 + 1])
      BY <2>1, PrefixGrows
    <3>3. SubSeq(queue, 1, 1) = Append(<<>>, queue[1])
      <4>1. 0 + 1 = 1
        OBVIOUS
      <4> QED BY <3>1, <3>2, <4>1, Zenon
    <3>4. BytesOf(Append(<<>>, queue[1])) = BytesOf(<<>>) + Len(queue[1].bytes) /\ BytesOf(<<>>) = 0
      BY <1>2, <2>4, <3>1, BytesOfOneMore
    <3>5. Len(b) \in Nat
      BY <1>2
    <3>6. BytesOf(SubSeq(queue, 1, 1)) = 0 + Len(b)
      BY <2>4, <3>3, <3>4, Zenon
    <3> HIDE DEF b
    <3>7. 0 + Len(b) = Len(b)
      BY <3>5
    <3> QED BY <3>5, <3>6, <3>7
  <2>8. SubSeq(queue, 2, L) = queue'
    BY <1>6, <2>1, <2>2
  <2>9. BytesOf(queue) = Len(b) + BytesOf(queue') /\ BytesOf(queue') \in Nat
    BY <2>6, <2>7, <2>8, Zenon
  <2>10. queuedBytes = Len(b) + BytesOf(queue') /\ queuedBytes' = queuedBytes - Len(b)
    BY <1>1, <2>9 DEF Bounds
  <2> HIDE DEF b
  <2>11. queuedBytes' = BytesOf(queue') /\ queuedBytes = queuedBytes' + Len(b)
    BY <2>7, <2>9, <2>10
  <2>12. b = queue[1].bytes
    BY <2>4 DEF b
  <2> QED BY <2>1, <2>2, <2>3, <2>5, <2>7, <2>9, <2>11, <2>12
<1> HIDE DEF chunk
<1>7. ~shouldStop /\ ~gapAtEnd
  BY <1>1 DEF Threads
<1>8. Types'
  <2>0. queue \in Seq(Chunk) /\ queuedBytes \in Nat /\ taken \in Nat /\ ingested \in Nat
    BY DEF Types
  <2>1. queue' \in Seq(Chunk) /\ queuedBytes' \in Nat /\ taken' \in Nat /\ ingested' \in Nat
    <3>1. CASE queue = <<>>
      BY <1>5, <2>0, <3>1
    <3>2. CASE queue # <<>>
      <4> HIDE DEF b, L
      <4>1. ingested' = ingested + Len(b) /\ Len(b) \in Nat
        BY <1>1, <1>6, <3>2
      <4>2. ingested' \in Nat
        BY <2>0, <4>1
      <4> QED BY <1>6, <3>2, <4>2
    <3> QED BY <3>1, <3>2
  <2>2. shouldStop' \in BOOLEAN /\ gapAtEnd' \in BOOLEAN /\ gapBeforeNext' \in BOOLEAN
        /\ deadline' \in BOOLEAN
    BY <1>1 DEF Types
  <2> QED BY <1>1, <1>4, <2>1, <2>2 DEF Types, producerVars, lifeVars, historyVars
<1>9. Threads'
  <2>1. queue = <<>> => queue' = <<>>
    BY <1>5
  <2>2. UNCHANGED <<accepting, thread, stopRequested>>
    BY <1>1 DEF lifeVars
  <2> QED BY <1>1, <2>1, <2>2 DEF Threads
<1>10. Bounds'
  <2>1. CASE queue = <<>>
    BY <1>5, <2>1 DEF Bounds
  <2>2. CASE queue # <<>>
    <3>1. Len(queue') <= MaxChunks
      BY <1>6, <2>2, ConfigAssumption DEF Bounds
    <3>2. queuedBytes' = BytesOf(queue') /\ queuedBytes' <= MaxBytes
      BY <1>6, <2>2, ConfigAssumption DEF Bounds
    <3> QED BY <3>1, <3>2 DEF Bounds
  <2> QED BY <2>1, <2>2
<1>11. Batches'
  BY <1>1 DEF Batches
<1>12. EveryByteAccounted'
  <2>1. /\ ingested \in Nat /\ counters.droppedBytes \in Nat /\ queuedBytes \in Nat
        /\ UNCHANGED <<counters, presented, base>>
    BY <1>1 DEF Types, producerVars, historyVars
  <2>2. ingested' + counters.droppedBytes + queuedBytes' = ingested + counters.droppedBytes + queuedBytes
    <3>1. CASE queue = <<>>
      BY <1>5, <3>1
    <3>2. CASE queue # <<>>
      <4> DEFINE k == Len(b)
                 d == counters.droppedBytes
      <4>1. ingested' = ingested + k /\ queuedBytes = queuedBytes' + k /\ k \in Nat /\ queuedBytes' \in Nat
        BY <1>1, <1>6, <3>2
      <4> HIDE DEF k
      <4>2. d \in Nat
        BY <2>1
      <4> HIDE DEF d
      <4>3. ingested' + d + queuedBytes' = ingested + d + queuedBytes
        BY <2>1, <4>1, <4>2
      <4> QED BY <4>3 DEF d
    <3> QED BY <3>1, <3>2
  <2> QED BY <2>1, <2>2 DEF EveryByteAccounted
<1>13. InOrder'
  <2>0. UNCHANGED <<presented, stream, base>> /\ base \in Nat /\ taken \in Nat /\ presented \in Nat
    BY <1>1 DEF producerVars, historyVars, Types
  <2>1. CASE queue = <<>>
    BY <1>5, <2>0, <2>1 DEF InOrder
  <2>2. CASE queue # <<>>
    <3>1. base <= taken' /\ taken' <= presented
      <4>1. /\ StartOf(queue[1]) \in Nat /\ EndOf(queue[1]) \in Nat
            /\ StartOf(queue[1]) <= EndOf(queue[1]) /\ taken < StartOf(queue[1])
            /\ EndOf(queue[1]) <= presented
        BY <1>6, <2>2, PieceEnds
      <4> QED BY <1>6, <2>0, <2>2, <4>1 DEF InOrder
    <3>2. ASSUME NEW i \in 1..(L - 1) PROVE Piece(queue[i])' /\ taken' < StartOf(queue'[i])
      <4>1. i + 1 \in 1..L /\ queue'[i] = queue[i + 1] /\ 1 < i + 1 /\ 1 \in 1..L
        BY <1>6, <2>2
      <4>2. Piece(queue[i + 1]) /\ EndOf(queue[1]) < StartOf(queue[i + 1])
        BY <4>1 DEF InOrder
      <4> QED BY <1>6, <2>0, <2>2, <4>1, <4>2 DEF Piece, StartOf, EndOf
    <3>3. ASSUME NEW i \in 1..(L - 1), NEW j \in 1..(L - 1), i < j
          PROVE  EndOf(queue'[i]) < StartOf(queue'[j])
      <4>1. /\ i + 1 \in 1..L /\ queue'[i] = queue[i + 1]
            /\ j + 1 \in 1..L /\ queue'[j] = queue[j + 1] /\ i + 1 < j + 1
        BY <1>6, <2>2, <3>3
      <4> QED BY <4>1 DEF InOrder
    <3>4. \A i \in 1..(L - 1) : Piece(queue[i])' /\ taken' < StartOf(queue'[i])
      BY <3>2
    <3>5. \A i, j \in 1..(L - 1) : i < j => EndOf(queue'[i]) < StartOf(queue'[j])
      BY <3>3
    <3> QED BY <1>6, <2>0, <2>2, <3>1, <3>4, <3>5 DEF InOrder, StartOf, EndOf
  <2> QED BY <2>1, <2>2
<1>14. Marked'
  <2>0. presented' = presented
    BY <1>1 DEF producerVars
  <2>1. (gapBeforeNext \/ gapAtEnd)' <=> gapBeforeNext
    BY <1>1 DEF Types
  <2>2. gapBeforeNext <=> LastQueued # presented
    BY <1>7 DEF Marked
  <2>3. CASE queue = <<>>
    BY <1>5, <2>0, <2>1, <2>2, <2>3 DEF Marked, LastQueued, Before
  <2>4. CASE queue # <<>>
    <3>1. ASSUME NEW i \in 1..(L - 1)
          PROVE  (queue[i].gap <=> StartOf(queue[i]) # Before(i) + 1)'
      <4>1. i + 1 \in 1..L /\ queue'[i] = queue[i + 1] /\ i + 1 # 1 /\ (i + 1) - 1 = i
        BY <1>6, <2>4
      <4>2. queue[i + 1].gap <=> StartOf(queue[i + 1]) # EndOf(queue[i]) + 1
        BY <4>1 DEF Marked, Before
      <4>3. Before(i)' = EndOf(queue[i])
        <5>1. CASE i = 1
          BY <1>6, <2>4, <5>1 DEF Before
        <5>2. CASE i # 1
          <6>1. i - 1 \in 1..(L - 1) /\ (i - 1) + 1 = i
            BY <1>6, <2>4, <5>2
          <6>2. queue'[i - 1] = queue[i]
            BY <1>6, <2>4, <6>1
          <6> QED BY <5>2, <6>2 DEF Before, EndOf
        <5> QED BY <5>1, <5>2
      <4> QED BY <4>1, <4>2, <4>3 DEF StartOf
    <3>2. LastQueued' = LastQueued
      <4>1. LastQueued = EndOf(queue[L])
        BY <2>4 DEF LastQueued, EndOf
      <4>2. CASE L = 1
        <5>1. queue' = <<>>
          BY <1>6, <2>4, <4>2
        <5> QED BY <1>6, <2>4, <4>1, <4>2, <5>1 DEF LastQueued
      <4>3. CASE L # 1
        <5>1. L - 1 \in 1..(L - 1) /\ (L - 1) + 1 = L /\ queue' # <<>> /\ Len(queue') = L - 1
          BY <1>6, <2>4, <4>3
        <5>2. queue'[L - 1] = queue[L]
          BY <1>6, <2>4, <5>1
        <5> QED BY <4>1, <5>1, <5>2 DEF LastQueued, EndOf
      <4> QED BY <4>2, <4>3
    <3>3. \A i \in 1..(L - 1) : (queue[i].gap <=> StartOf(queue[i]) # Before(i) + 1)'
      BY <3>1
    <3> QED BY <1>6, <2>0, <2>1, <2>2, <2>4, <3>2, <3>3 DEF Marked
  <2> QED BY <2>3, <2>4
<1> QED BY <1>8, <1>9, <1>10, <1>11, <1>12, <1>13, <1>14

\* A report of the counters, and what deliver hands over.
LEMMA ReportTyped ==
    ASSUME NEW c \in [received : Nat, droppedChunks : Nat, droppedBytes : Nat],
           NEW d \in Decoders
    PROVE  Report(c, d) \in Reports
<1>1. /\ c.received \in Int /\ c.droppedChunks \in Int /\ c.droppedBytes \in Int
  OBVIOUS
<1>2. d.malformed \in Int /\ d.row \in Int
  BY FieldsTyped
<1> QED BY <1>1, <1>2 DEF Report, Reports

\* Reports are added and subtracted number by number.
LEMMA ReportsAdd ==
    ASSUME NEW r \in Reports, NEW s \in Reports
    PROVE  /\ DOMAIN r = Numbers /\ \A f \in Numbers : r[f] \in Int
           /\ [f \in DOMAIN r |-> r[f] - s[f]] \in Reports
           /\ [f \in DOMAIN r |-> r[f] + s[f]] \in Reports
           /\ (\A f \in Numbers : r[f] = s[f]) => r = s
<1>1. Reports = [Numbers -> Int]
  BY DEF Reports, Numbers
<1>2. r \in [Numbers -> Int] /\ s \in [Numbers -> Int]
  BY <1>1
<1>3. /\ DOMAIN r = Numbers /\ \A f \in Numbers : r[f] \in Int /\ s[f] \in Int
  BY <1>2
<1>4. /\ [f \in Numbers |-> r[f] - s[f]] \in [Numbers -> Int]
      /\ [f \in Numbers |-> r[f] + s[f]] \in [Numbers -> Int]
  BY <1>3
<1>5. (\A f \in Numbers : r[f] = s[f]) => r = s
  BY <1>2
<1> QED BY <1>1, <1>3, <1>4, <1>5

\* What deliver() hands to the callback.
LEMMA Delivery ==
    ASSUME Types, NEW samples \in Seq(Sample), NEW then \in Ends, Deliver(samples, then)
    PROVE  /\ batch' \in [samples : Seq(Sample), then : Ends, delta : Reports]
           /\ batch'.samples = samples /\ batch'.then = then
           /\ last' = Report(counters, decoder) /\ last' \in Reports
           /\ batch'.delta = [f \in DOMAIN last' |-> last'[f] - last[f]]
           /\ pc' = IF samples = <<>> /\ last' = last THEN then ELSE "delivering"
<1> DEFINE now == Report(counters, decoder)
           delta == [f \in DOMAIN now |-> now[f] - last[f]]
<1>1. now \in Reports
  BY ReportTyped DEF Types
<1>2. /\ batch' = [samples |-> samples, then |-> then, delta |-> delta] /\ last' = now
      /\ pc' = IF samples = <<>> /\ now = last THEN then ELSE "delivering"
  BY DEF Deliver
<1> HIDE DEF now
<1>3. delta \in Reports
  BY <1>1, ReportsAdd DEF Types
<1>4. delta = [f \in DOMAIN last' |-> last'[f] - last[f]]
  BY <1>2
<1> HIDE DEF delta
<1> QED BY <1>1, <1>2, <1>3, <1>4 DEF now

\* A batch that is full.
LEMMA EmitFullKeeps ==
    ASSUME QInv, EmitFull
    PROVE  QInv'
<1> USE DEF QInv
<1> DEFINE n == Fill
           s == pendingSamples \o SubSeq(decoded, 1, n)
<1>1. /\ thread = "running" /\ pc = "emitting" /\ Len(decoded) >= n
      /\ Deliver(s, "emitting")
      /\ decoded' = SubSeq(decoded, n + 1, Len(decoded))
      /\ pendingSamples' = <<>> /\ deadline' = FALSE
      /\ UNCHANGED <<producerVars, queueVars, lifeVars, historyVars, shouldStop,
                     gapAtEnd, decoder, takenVars>>
  BY DEF EmitFull
<1>2. n \in Nat /\ n >= 1 /\ Len(pendingSamples) + n = MaxBatch
      /\ Len(decoded) \in Nat /\ n \in 0..Len(decoded)
  <2> DEFINE p == Len(pendingSamples)
             d == Len(decoded)
  <2>1. decoded \in Seq(Sample) /\ pendingSamples \in Seq(Sample)
    BY DEF Types
  <2>2. p \in Nat /\ d \in Nat
    BY <2>1
  <2>3. MaxBatch \in Nat /\ p < MaxBatch /\ n = MaxBatch - p /\ d >= n
    BY <1>1, ConfigAssumption DEF Batches, Fill
  <2> HIDE DEF p, d, n
  <2>4. n \in Nat /\ n >= 1 /\ p + n = MaxBatch /\ n \in 0..d
    BY <2>2, <2>3
  <2> QED BY <2>2, <2>4 DEF p, d
<1> HIDE DEF n
<1>3. s \in Seq(Sample) /\ Len(s) = MaxBatch /\ decoded' \in Seq(Sample)
  <2>1. decoded \in Seq(Sample) /\ pendingSamples \in Seq(Sample)
    BY DEF Types
  <2>2. SubSeq(decoded, 1, n) \in Seq(Sample) /\ Len(SubSeq(decoded, 1, n)) = n
    BY <1>2, <2>1
  <2>3. decoded' \in Seq(Sample)
    BY <1>1, <1>2, <2>1, RestOf
  <2> HIDE DEF Sample
  <2> QED BY <1>2, <2>1, <2>2, <2>3
<1> HIDE DEF s
<1>4. /\ batch' \in [samples : Seq(Sample), then : Ends, delta : Reports]
      /\ batch'.samples = s /\ batch'.then = "emitting" /\ last' \in Reports
      /\ pc' \in {"emitting", "delivering"}
  BY <1>1, <1>3, Delivery DEF Ends
<1>5. Types'
  <2>1. pendingSamples' \in Seq(Sample) /\ deadline' \in BOOLEAN
    <3>1. <<>> \in Seq(Sample) /\ FALSE \in BOOLEAN
      OBVIOUS
    <3>2. pendingSamples' = <<>> /\ deadline' = FALSE
      BY <1>1
    <3> QED BY <3>1, <3>2
  <2> QED BY <1>1, <1>3, <1>4, <2>1
          DEF Types, producerVars, queueVars, lifeVars, historyVars, takenVars
<1>6. Threads'
  BY <1>1, <1>4 DEF Threads, queueVars, lifeVars
<1>7. Batches'
  BY <1>1, <1>3, <1>4, ConfigAssumption DEF Batches
<1>8. Bounds' /\ EveryByteAccounted' /\ InOrder' /\ Marked'
  BY <1>1, QueueUntouched DEF queueVars, historyVars
<1> QED BY <1>5, <1>6, <1>7, <1>8

\* What is left of the samples waits.
LEMMA EmitRestKeeps ==
    ASSUME QInv, EmitRest
    PROVE  QInv'
<1> USE DEF QInv
<1>1. /\ thread = "running" /\ pc = "emitting"
      /\ Len(decoded) < Fill
      /\ pendingSamples' = pendingSamples \o decoded
      /\ decoded' = <<>>
      /\ deadline' = (deadline \/ decoded # <<>>)
      /\ pc' \in {IF shouldStop THEN "finishing" ELSE "waiting", "flushing"}
      /\ UNCHANGED <<producerVars, queueVars, lifeVars, historyVars, shouldStop,
                     gapAtEnd, batch, decoder, last, takenVars>>
  BY DEF EmitRest
<1>2. /\ pendingSamples' \in Seq(Sample)
      /\ Len(pendingSamples') = Len(pendingSamples) + Len(decoded)
      /\ Len(pendingSamples) \in Nat /\ Len(decoded) \in Nat
  <2>1. decoded \in Seq(Sample) /\ pendingSamples \in Seq(Sample)
    BY DEF Types
  <2> QED BY <1>1, <2>1
<1>3. Types'
  BY <1>1, <1>2 DEF Types, producerVars, queueVars, lifeVars, historyVars, takenVars
<1>4. Threads'
  BY <1>1 DEF Threads, queueVars, lifeVars
<1>5. Batches'
  BY <1>1, <1>2, ConfigAssumption DEF Batches, Fill
<1>6. Bounds' /\ EveryByteAccounted' /\ InOrder' /\ Marked'
  BY <1>1, QueueUntouched DEF queueVars, historyVars
<1> QED BY <1>3, <1>4, <1>5, <1>6

\* The deadline has passed, and the last batch.
LEMMA FlushKeeps ==
    ASSUME QInv, Flush \/ LastFlush
    PROVE  QInv'
<1> USE DEF QInv
<1> DEFINE then == IF pc = "lastFlush" THEN "returned"
                   ELSE IF shouldStop THEN "finishing" ELSE "waiting"
<1>1. /\ thread = "running" /\ pc \in {"flushing", "lastFlush"}
      /\ Deliver(pendingSamples, then)
      /\ pendingSamples' = <<>> /\ deadline' \in BOOLEAN
      /\ UNCHANGED <<producerVars, queueVars, lifeVars, historyVars, decoded, shouldStop,
                     gapAtEnd, decoder, takenVars>>
  <2>1. CASE Flush
    BY <2>1 DEF Flush
  <2>2. CASE LastFlush
    BY <2>2 DEF LastFlush, Types
  <2> QED BY <2>1, <2>2
<1>2. then \in Ends /\ then \in {"returned", "finishing", "waiting"}
      /\ (then \in {"returned", "finishing"} => shouldStop)
      /\ (then = "waiting" => ~shouldStop)
  BY <1>1 DEF Ends, Threads
<1> HIDE DEF then
<1>3. /\ batch' \in [samples : Seq(Sample), then : Ends, delta : Reports]
      /\ batch'.samples = pendingSamples /\ batch'.then = then /\ last' \in Reports
      /\ pc' \in {then, "delivering"}
  BY <1>1, <1>2, Delivery DEF Types
<1>4. Types'
  BY <1>1, <1>2, <1>3 DEF Types, producerVars, queueVars, lifeVars, historyVars, takenVars
<1>5. Threads'
  BY <1>1, <1>2, <1>3 DEF Threads, queueVars, lifeVars
<1>6. Batches'
  BY <1>1, <1>2, <1>3, ConfigAssumption DEF Batches
<1>7. Bounds' /\ EveryByteAccounted' /\ InOrder' /\ Marked'
  BY <1>1, QueueUntouched DEF queueVars, historyVars
<1> QED BY <1>4, <1>5, <1>6, <1>7

\* The row still open is decoded at the end.
LEMMA FinishKeeps ==
    ASSUME QInv, FinishStream
    PROVE  QInv'
<1> USE DEF QInv
<1> DEFINE end == Finish(IF gapAtEnd THEN NotifyDataGap(decoder) ELSE decoder)
<1>1. /\ thread = "running" /\ pc = "finishing"
      /\ decoder' = [end EXCEPT !.samples = <<>>]
      /\ pendingSamples' = pendingSamples \o end.samples
      /\ pc' = "lastFlush"
      /\ UNCHANGED <<producerVars, queueVars, lifeVars, historyVars, decoded, deadline,
                     shouldStop, gapAtEnd, batch, last, takenVars>>
  BY DEF FinishStream
<1>2. end \in Decoders /\ Len(end.samples) <= 1
  <2>1. decoder \in Decoders /\ NotifyDataGap(decoder) \in Decoders
    BY DecoderTyped DEF Types
  <2>2. CASE gapAtEnd
    BY <2>1, <2>2, DecoderTyped
  <2>3. CASE ~gapAtEnd
    BY <2>1, <2>3, DecoderTyped
  <2> QED BY <2>2, <2>3
<1> HIDE DEF end
<1>3. decoder' \in Decoders /\ end.samples \in Seq(Sample)
  BY <1>1, <1>2, DecoderFields, FieldsTyped
<1>4. /\ pendingSamples' \in Seq(Sample)
      /\ Len(pendingSamples') = Len(pendingSamples) + Len(end.samples)
      /\ Len(pendingSamples) \in Nat /\ Len(end.samples) \in Nat
  <2> DEFINE t == end.samples
  <2>1. t \in Seq(Sample) /\ pendingSamples \in Seq(Sample) /\ pendingSamples' = pendingSamples \o t
    BY <1>1, <1>3 DEF Types
  <2> HIDE DEF t
  <2>2. /\ pendingSamples' \in Seq(Sample)
        /\ Len(pendingSamples') = Len(pendingSamples) + Len(t)
        /\ Len(pendingSamples) \in Nat /\ Len(t) \in Nat
    BY <2>1
  <2> QED BY <2>2 DEF t
<1>5. Types'
  BY <1>1, <1>3, <1>4 DEF Types, producerVars, queueVars, lifeVars, historyVars, takenVars
<1>6. Threads'
  BY <1>1 DEF Threads, queueVars, lifeVars
<1>7. Batches'
  BY <1>1, <1>2, <1>4, ConfigAssumption DEF Batches
<1>8. Bounds' /\ EveryByteAccounted' /\ InOrder' /\ Marked'
  BY <1>1, QueueUntouched DEF queueVars, historyVars
<1> QED BY <1>5, <1>6, <1>7, <1>8

\* The callback returns, having called stop() or not, or throws.
LEMMA CallbackKeeps ==
    ASSUME QInv, CallbackThrows \/ \E callsStop \in BOOLEAN : CallbackReturns(callsStop)
    PROVE  QInv'
<1> USE DEF QInv
<1>1. ASSUME CallbackThrows PROVE QInv'
  <2>1. Types'
    BY <1>1 DEF CallbackThrows, Types, producerVars, queueVars, takenVars
  <2>2. Threads'
    BY <1>1 DEF CallbackThrows, Threads, queueVars
  <2>3. Batches'
    BY <1>1 DEF CallbackThrows, Batches
  <2>4. Bounds' /\ EveryByteAccounted' /\ InOrder' /\ Marked'
    BY <1>1, QueueUntouched DEF CallbackThrows, queueVars
  <2> QED BY <2>1, <2>2, <2>3, <2>4
<1>2. ASSUME NEW callsStop \in BOOLEAN, CallbackReturns(callsStop) PROVE QInv'
  <2>1. /\ thread = "running" /\ pc = "delivering"
        /\ pc' = batch.then
        /\ delivered' = delivered \o batch.samples
        /\ told' = [f \in DOMAIN told |-> told[f] + batch.delta[f]]
        /\ accepting' = (accepting /\ ~callsStop)
        /\ stopRequested' = (stopRequested \/ callsStop)
        /\ UNCHANGED <<producerVars, queueVars, thread, owner, starts, decoded, pendingSamples,
                       deadline, shouldStop, gapAtEnd, batch, base, failed, decoder, last, takenVars>>
    BY <1>2 DEF CallbackReturns
  <2>2. batch.samples \in Seq(Sample) /\ batch.delta \in Reports /\ batch.then \in Ends
    BY DEF Types
  <2>3. told' \in Reports
    <3> DEFINE x == batch.delta
    <3>1. told \in Reports /\ x \in Reports
      BY DEF Types
    <3>2. told' = [f \in DOMAIN told |-> told[f] + x[f]]
      BY <2>1
    <3> HIDE DEF x, QInv
    <3>3. [f \in DOMAIN told |-> told[f] + x[f]] \in Reports
      BY <3>1, ReportsAdd
    <3> QED BY <3>2, <3>3, Zenon
  <2>4. delivered' \in Seq(Sample)
    <3>1. delivered \in Seq(Sample)
      BY DEF Types
    <3>2. \A a, b \in Seq(Sample) : a \o b \in Seq(Sample)
      OBVIOUS
    <3>3. delivered' = delivered \o batch.samples
      BY <2>1
    <3> QED BY <2>2, <3>1, <3>2, <3>3, Zenon
  <2>5. Types'
    <3>1. accepting' \in BOOLEAN /\ stopRequested' \in BOOLEAN
      BY <2>1 DEF Types
    <3>2. pc' \in {"waiting", "emitting", "flushing", "delivering", "finishing",
                   "lastFlush", "returned"}
      BY <2>1, <2>2 DEF Ends
    <3> QED BY <2>1, <2>3, <2>4, <3>1, <3>2 DEF Types, producerVars, queueVars, takenVars
  <2>6. Threads'
    BY <2>1 DEF Threads, queueVars
  <2>7. Batches'
    BY <2>1, <2>2 DEF Batches, Ends
  <2>8. Bounds' /\ EveryByteAccounted' /\ InOrder' /\ Marked'
    BY <2>1, QueueUntouched DEF queueVars
  <2> QED BY <2>5, <2>6, <2>7, <2>8
<1> QED BY <1>1, <1>2

\* What a worker starts with.
FreshTypes ==
    /\ FreshDecoder \in Decoders /\ NoReport \in Reports
    /\ NoCounts \in [received : Nat, droppedChunks : Nat, droppedBytes : Nat]
    /\ NoBatch \in [samples : Seq(Sample), then : Ends, delta : Reports]
    /\ NoBatch.samples = <<>>
    /\ <<>> \in Seq(Chunk) /\ <<>> \in Seq(Sample)
    /\ BytesOf(<<>>) = 0

\* ... and the types of it.
LEMMA FreshTyped == FreshTypes
<1>1. FreshDecoder \in Decoders
  BY DEF FreshDecoder, Decoders
<1>2. NoCounts \in [received : Nat, droppedChunks : Nat, droppedBytes : Nat]
  BY DEF NoCounts
<1>3. NoReport \in Reports
  BY <1>1, <1>2, ReportTyped DEF NoReport
<1>4. NoBatch \in [samples : Seq(Sample), then : Ends, delta : Reports] /\ NoBatch.samples = <<>>
  BY <1>3 DEF NoBatch, Ends
<1>5. BytesOf(<<>>) = 0
  <2>1. <<>> \in Seq(Chunk) /\ [bytes |-> <<>>, gap |-> FALSE] \in Chunk
    BY DEF Chunk
  <2> QED BY <2>1, BytesOfOneMore
<1>6. <<>> \in Seq(Chunk) /\ <<>> \in Seq(Sample)
  OBVIOUS
<1> QED BY <1>1, <1>2, <1>3, <1>4, <1>5, <1>6 DEF FreshTypes

\* start() begins with nothing queued and nothing taken.
LEMMA StartKeeps ==
    ASSUME QInv, Start \/ StartFails
    PROVE  QInv'
<1> USE DEF QInv
<1>1. /\ Reset /\ accepting' \in BOOLEAN
      /\ thread' \in {"none", "running"} /\ (accepting' => thread' = "running")
  BY DEF Start, StartFails
<1>2. /\ decoder' = FreshDecoder /\ last' = NoReport
      /\ queue' = <<>> /\ queuedBytes' = 0 /\ gapBeforeNext' = FALSE
      /\ counters' = NoCounts /\ statsDirty' = FALSE
      /\ stopRequested' = FALSE
      /\ pc' = "waiting" /\ decoded' = <<>> /\ pendingSamples' = <<>> /\ deadline' = FALSE
      /\ shouldStop' = FALSE /\ gapAtEnd' = FALSE /\ batch' = NoBatch
      /\ base' = presented /\ taken' = presented /\ ingested' = 0
      /\ delivered' = <<>> /\ told' = NoReport /\ failed' = FALSE
      /\ UNCHANGED <<stream, presented, owner>>
  BY <1>1 DEF Reset, producerVars
<1>3. FreshTypes
  BY FreshTyped
<1>4. presented \in Nat
  BY DEF Types
<1>5. Types'
  <2>1. queue' \in Seq(Chunk) /\ decoded' \in Seq(Sample) /\ pendingSamples' \in Seq(Sample)
        /\ delivered' \in Seq(Sample)
    BY <1>2, <1>3 DEF FreshTypes
  <2>2. decoder' \in Decoders /\ last' \in Reports /\ told' \in Reports
        /\ counters' \in [received : Nat, droppedChunks : Nat, droppedBytes : Nat]
        /\ batch' \in [samples : Seq(Sample), then : Ends, delta : Reports]
    BY <1>2, <1>3 DEF FreshTypes
  <2>3. stream' \in Seq({"good", "bad", "newline"}) /\ presented' \in 0..Len(stream')
        /\ owner' \in {"free", "joining"} /\ thread' \in {"none", "running", "exited"}
    BY <1>1, <1>2 DEF Types
  <2> QED BY <1>1, <1>2, <1>4, <2>1, <2>2, <2>3 DEF Types
<1>6. Threads'
  BY <1>1, <1>2 DEF Threads
<1>7. Bounds' /\ Batches'
  BY <1>2, <1>3, ConfigAssumption DEF Bounds, Batches, FreshTypes
<1>8. EveryByteAccounted'
  BY <1>2, <1>4 DEF EveryByteAccounted, NoCounts
<1>9. InOrder' /\ Marked'
  BY <1>2, <1>4 DEF InOrder, Marked, LastQueued
<1> QED BY <1>5, <1>6, <1>7, <1>8, <1>9

\* The thread ends, and stop() waits for it.
LEMMA ThreadKeeps ==
    ASSUME QInv, ThreadExits \/ Stop \/ StopReturns \/ UNCHANGED vars
    PROVE  QInv'
<1> USE DEF QInv
<1>1. /\ UNCHANGED <<producerVars, queueVars, localVars, historyVars, decoder, last, takenVars>>
      /\ thread' \in {"none", "running", "exited"} /\ owner' \in {"free", "joining"}
      /\ accepting' \in BOOLEAN /\ stopRequested' \in BOOLEAN
      /\ accepting' => accepting /\ thread' = "running" /\ ~stopRequested'
      /\ stopRequested => stopRequested'
  <2>1. CASE ThreadExits
    BY <2>1 DEF ThreadExits, Types, Threads
  <2>2. CASE Stop
    BY <2>2 DEF Stop, Types, Threads
  <2>3. CASE StopReturns
    BY <2>3 DEF StopReturns, Types, Threads
  <2>4. CASE UNCHANGED vars
    BY <2>4 DEF vars, lifeVars, Types, Threads
  <2> QED BY <2>1, <2>2, <2>3, <2>4
<1>2. Types'
  BY <1>1 DEF Types, producerVars, queueVars, localVars, historyVars, takenVars
<1>3. Threads'
  BY <1>1 DEF Threads, queueVars, localVars
<1>4. Batches'
  BY <1>1 DEF Batches, localVars
<1>5. Bounds' /\ EveryByteAccounted' /\ InOrder' /\ Marked'
  BY <1>1, QueueUntouched DEF queueVars, localVars, historyVars
<1> QED BY <1>2, <1>3, <1>4, <1>5

\* The invariant holds in every reachable state.
THEOREM QueueInvariant == Spec => []QInv
<1>1. Init => QInv
  <2> SUFFICES ASSUME Init PROVE QInv
      OBVIOUS
  <2>1. FreshTypes
    BY FreshTyped
  <2>2. Types
    <3>1. stream \in Seq({"good", "bad", "newline"}) /\ 0 \in 0..Len(stream)
      BY StreamAssumption DEF Init
    <3>2. queue \in Seq(Chunk) /\ decoded \in Seq(Sample) /\ pendingSamples \in Seq(Sample)
          /\ delivered \in Seq(Sample)
      BY <2>1 DEF Init, FreshTypes
    <3>3. decoder \in Decoders /\ last \in Reports /\ told \in Reports
          /\ counters \in [received : Nat, droppedChunks : Nat, droppedBytes : Nat]
          /\ batch \in [samples : Seq(Sample), then : Ends, delta : Reports]
      BY <2>1 DEF Init, FreshTypes
    <3> QED BY <3>1, <3>2, <3>3 DEF Init, Types
  <2>3. Threads /\ Bounds /\ Batches
    BY <2>1, ConfigAssumption DEF Init, Threads, Bounds, Batches, FreshTypes
  <2>4. EveryByteAccounted
    BY DEF Init, EveryByteAccounted, NoCounts
  <2>5. InOrder /\ Marked
    BY DEF Init, InOrder, Marked, LastQueued
  <2> QED BY <2>2, <2>3, <2>4, <2>5 DEF QInv
<1>2. QInv /\ [Next]_vars => QInv'
  <2> SUFFICES ASSUME QInv, [Next]_vars PROVE QInv'
      OBVIOUS
  <2>1. ASSUME NEW size \in ChunkSizes, Enqueue(size) PROVE QInv'
    BY <2>1, EnqueueKeeps
  <2>2. ASSUME NEW size \in ChunkSizes, RejectOversized(size) PROVE QInv'
    BY <2>2, RejectKeeps
  <2>3. CASE TakeWork
    BY <2>3, TakeWorkKeeps
  <2>4. CASE EmitFull
    BY <2>4, EmitFullKeeps
  <2>5. CASE EmitRest
    BY <2>5, EmitRestKeeps
  <2>6. CASE Flush \/ LastFlush
    BY <2>6, FlushKeeps
  <2>7. CASE FinishStream
    BY <2>7, FinishKeeps
  <2>8. CASE CallbackThrows \/ \E callsStop \in BOOLEAN : CallbackReturns(callsStop)
    BY <2>8, CallbackKeeps
  <2>9. CASE Start \/ StartFails
    BY <2>9, StartKeeps
  <2>10. CASE ThreadExits \/ Stop \/ StopReturns \/ UNCHANGED vars
    BY <2>10, ThreadKeeps
  <2>11. CASE Idle
    BY <2>11, ThreadKeeps DEF Idle
  <2> QED BY <2>1, <2>2, <2>3, <2>4, <2>5, <2>6, <2>7, <2>8, <2>9, <2>10, <2>11
          DEF Next, ProducerStep, RunStep
<1> QED BY <1>1, <1>2, PTL DEF Spec

-----------------------------------------------------------------------------
(***************************************************************************)
(* What the decoder has decoded, wherever it waits.                        *)
(***************************************************************************)

FirstOf(s) == s[1]
LastOf(s) == s[Len(s)]

\* A sample is a whole line of what was presented since the start.
RowOK(s) ==
    /\ Len(s) >= 1
    /\ \A i \in 1..Len(s) : s[i] = FirstOf(s) + i - 1
    /\ FirstOf(s) = base + 1 \/ stream[FirstOf(s) - 1] = "newline"
    /\ \/ LastOf(s) < presented /\ stream[LastOf(s) + 1] = "newline"
       \/ LastOf(s) = presented /\ ~accepting

\* Samples in the order of the stream, behind one place and up to another.
Rows(ss, lo, hi) ==
    /\ \A i \in 1..Len(ss) : RowOK(ss[i]) /\ lo < FirstOf(ss[i]) /\ LastOf(ss[i]) <= hi
    /\ \A i, j \in 1..Len(ss) : i < j => LastOf(ss[i]) < FirstOf(ss[j])

\* The place before the line that a decoder has open after the byte at t.
Edge(d, t) == t - Len(d.pending)

\* The open line is all that follows a newline, or the start; a decoder that
\* discards holds none.
Placed(d, t) ==
    /\ d.discarding => d.pending = <<>>
    /\ ~d.discarding => /\ base <= Edge(d, t)
                        /\ Edge(d, t) = base \/ stream[Edge(d, t)] = "newline"
                        /\ \A i \in 1..Len(d.pending) : d.pending[i].at = Edge(d, t) + i

\* A batch that was handed over, also one whose callback threw.
InFlight == IF pc = "delivering" \/ failed THEN batch.samples ELSE <<>>
All == (delivered \o InFlight) \o (pendingSamples \o decoded)

NInv ==
    /\ pc \in {"waiting", "emitting", "flushing", "finishing"} => Placed(decoder, taken)
    /\ pc = "delivering" /\ batch.then # "returned" => Placed(decoder, taken)
    /\ base <= Edge(decoder, taken)
    /\ Rows(All, base, Edge(decoder, taken))

\* What was reported adds up to what was last read, and a worker that ends has
\* nothing left.
Drained == pc = "returned" \/ (pc = "delivering" /\ batch.then = "returned")
SumTold ==
    \A f \in Numbers : told[f] + (IF pc = "delivering" THEN batch.delta[f] ELSE 0) = last[f]

DInv ==
    /\ pc \in {"waiting", "flushing", "finishing", "lastFlush"} => decoded = <<>>
    /\ pc = "delivering" /\ batch.then # "emitting" => decoded = <<>>
    /\ failed => pc = "returned"
    /\ ~failed => SumTold
    /\ Drained /\ ~failed =>
          /\ shouldStop /\ decoded = <<>> /\ pendingSamples = <<>>
          /\ last = Report(counters, decoder)

\* A chunk without bytes decodes nothing.
LEMMA IngestNothing ==
    ASSUME NEW d
    PROVE  Ingest(d, <<>>) = [d EXCEPT !.samples = <<>>]
<1> DEFINE v == [d EXCEPT !.samples = <<>>]
<1>1. "decode" \in Kinds
  BY DEF Kinds
<1> HIDE DEF v
<1>2. Folded("decode", v, <<>>) = v
  BY <1>1, FoldNothing
<1> QED BY <1>2 DEF Folded, Ingest, v

\* What deliver has read is what it then hands over, or nothing new.
LEMMA DeliveryAddsUp ==
    ASSUME Types, NEW samples \in Seq(Sample), NEW then \in Ends, Deliver(samples, then),
           SumTold, pc # "delivering", told' = told
    PROVE  SumTold'
<1>1. /\ batch'.delta = [f \in DOMAIN last' |-> last'[f] - last[f]] /\ last' \in Reports
      /\ pc' = IF samples = <<>> /\ last' = last THEN then ELSE "delivering"
  BY Delivery
<1>2. \A f \in Numbers : last'[f] \in Int /\ last[f] \in Int /\ told[f] \in Int
  BY <1>1, ReportsAdd DEF Types
<1>3. DOMAIN last' = Numbers
  BY <1>1, ReportsAdd
<1>4. \A f \in Numbers : told[f] = last[f]
  BY <1>2 DEF SumTold
<1> SUFFICES ASSUME NEW f \in Numbers
             PROVE  told[f] + (IF pc' = "delivering" THEN batch'.delta[f] ELSE 0) = last'[f]
    BY DEF SumTold
<1>5. CASE pc' = "delivering"
  <2>1. batch'.delta[f] = last'[f] - last[f]
    BY <1>1, <1>3
  <2>2. told[f] + (last'[f] - last[f]) = last'[f]
    BY <1>2, <1>4
  <2> QED BY <1>5, <2>1, <2>2
<1>6. CASE pc' # "delivering"
  <2>1. last' = last
    BY <1>1, <1>6
  <2>2. told[f] + 0 = last[f]
    BY <1>2, <1>4
  <2> QED BY <1>6, <2>1, <2>2
<1> QED BY <1>5, <1>6

\* Every step keeps what was reported and what is left.
LEMMA ReportKept ==
    ASSUME QInv, DInv, [Next]_vars
    PROVE  DInv'
<1>1. ASSUME NEW size \in ChunkSizes, Enqueue(size) \/ RejectOversized(size)
      PROVE  DInv'
  <2>1. accepting /\ UNCHANGED <<localVars, historyVars, decoder, last>>
    BY <1>1 DEF Enqueue, RejectOversized
  <2>2. ~shouldStop
    BY <2>1 DEF QInv, Threads
  <2> QED BY <2>1, <2>2 DEF DInv, Drained, SumTold, localVars, historyVars
<1>2. ASSUME TakeWork
      PROVE  DInv'
  <2>1. /\ pc = "waiting" /\ pc' = IF Ready THEN "emitting" ELSE "flushing"
        /\ UNCHANGED <<told, failed, batch, last>>
    BY <1>2 DEF TakeWork, historyVars
  <2>2. ASSUME ~Ready PROVE decoded' = <<>>
    <3>1. queue = <<>>
      BY <2>2 DEF Ready
    <3>2. decoded' = Ingest(decoder, <<>>).samples
      BY <1>2, <3>1 DEF TakeWork
    <3>3. decoder \in Decoders
      BY DEF QInv, Types
    <3>4. [decoder EXCEPT !.samples = <<>>].samples = <<>>
      BY <3>3, DecoderFields
    <3> QED BY <3>2, <3>4, IngestNothing
  <2>3. SumTold => SumTold'
    BY <2>1 DEF SumTold
  <2>4. ~Drained'
    BY <2>1 DEF Drained
  <2> QED BY <2>1, <2>2, <2>3, <2>4 DEF DInv
<1>3. ASSUME EmitFull
      PROVE  DInv'
  <2> DEFINE s == pendingSamples \o SubSeq(decoded, 1, Fill)
  <2>1. /\ pc = "emitting" /\ Deliver(s, "emitting") /\ UNCHANGED <<told, failed>>
    BY <1>3 DEF EmitFull, historyVars
  <2>2. s \in Seq(Sample) /\ "emitting" \in Ends /\ Types
    <3>1. decoded \in Seq(Sample) /\ pendingSamples \in Seq(Sample)
      BY DEF QInv, Types
    <3>2. Fill \in Nat /\ Fill <= Len(decoded)
      BY <1>3, <3>1, ConfigAssumption DEF QInv, Batches, EmitFull, Fill
    <3>3. SubSeq(decoded, 1, Fill) \in Seq(Sample)
      BY <3>1, <3>2
    <3> DEFINE t == SubSeq(decoded, 1, Fill)
    <3> HIDE DEF t
    <3>4. pendingSamples \o t \in Seq(Sample)
      BY <3>1, <3>3 DEF t
    <3> QED BY <3>4 DEF t, Ends, QInv
  <2> HIDE DEF s
  <2>3. batch'.then = "emitting" /\ pc' \in {"emitting", "delivering"}
    BY <2>1, <2>2, Delivery
  <2>4. SumTold => SumTold'
    BY <2>1, <2>2, DeliveryAddsUp
  <2> QED BY <2>1, <2>3, <2>4 DEF DInv, Drained
<1>4. ASSUME EmitRest
      PROVE  DInv'
  <2>1. /\ pc = "emitting" /\ decoded' = <<>> /\ pc' \in {"finishing", "waiting", "flushing"}
        /\ UNCHANGED <<told, failed, batch, last>>
    BY <1>4 DEF EmitRest, historyVars
  <2> QED BY <2>1 DEF DInv, Drained, SumTold
<1>5. ASSUME Flush
      PROVE  DInv'
  <2> DEFINE then == IF shouldStop THEN "finishing" ELSE "waiting"
  <2>1. /\ pc = "flushing" /\ Deliver(pendingSamples, then) /\ UNCHANGED <<told, failed, decoded>>
    BY <1>5 DEF Flush, historyVars
  <2>2. pendingSamples \in Seq(Sample) /\ then \in Ends /\ then \in {"finishing", "waiting"} /\ Types
    BY DEF QInv, Types, Ends
  <2> HIDE DEF then
  <2>3. batch'.then = then /\ pc' \in {then, "delivering"}
    BY <2>1, <2>2, Delivery
  <2>4. SumTold => SumTold'
    BY <2>1, <2>2, DeliveryAddsUp
  <2> QED BY <2>1, <2>2, <2>3, <2>4 DEF DInv, Drained
<1>6. ASSUME LastFlush
      PROVE  DInv'
  <2>1. /\ pc = "lastFlush" /\ Deliver(pendingSamples, "returned") /\ pendingSamples' = <<>>
        /\ UNCHANGED <<told, failed, decoded, shouldStop, counters, decoder>>
    BY <1>6 DEF LastFlush, historyVars, queueVars
  <2>2. pendingSamples \in Seq(Sample) /\ "returned" \in Ends /\ Types /\ shouldStop
    BY <2>1 DEF QInv, Types, Threads, Ends
  <2>3. batch'.then = "returned" /\ pc' \in {"returned", "delivering"}
        /\ last' = Report(counters, decoder)
    BY <2>1, <2>2, Delivery
  <2>4. SumTold => SumTold'
    BY <2>1, <2>2, DeliveryAddsUp
  <2>5. last' = Report(counters', decoder')
    BY <2>1, <2>3
  <2> QED BY <2>1, <2>2, <2>3, <2>4, <2>5 DEF DInv, Drained
<1>7. ASSUME FinishStream
      PROVE  DInv'
  <2>1. /\ pc = "finishing" /\ pc' = "lastFlush"
        /\ UNCHANGED <<told, failed, decoded, batch, last>>
    BY <1>7 DEF FinishStream, historyVars
  <2> QED BY <2>1 DEF DInv, Drained, SumTold
<1>8. ASSUME CallbackThrows
      PROVE  DInv'
  BY <1>8 DEF CallbackThrows, DInv
<1>9. ASSUME NEW callsStop \in BOOLEAN, CallbackReturns(callsStop)
      PROVE  DInv'
  <2>1. /\ pc = "delivering" /\ pc' = batch.then
        /\ told' = [f \in DOMAIN told |-> told[f] + batch.delta[f]]
        /\ UNCHANGED <<counters, decoder, shouldStop, decoded, pendingSamples, failed, batch, last>>
    BY <1>9 DEF CallbackReturns, queueVars
  <2>2. batch.then \in Ends /\ batch.then # "delivering"
    BY DEF QInv, Types, Ends
  <2>3. ~failed
    BY <2>1 DEF DInv
  <2>4. SumTold'
    <3>1. DOMAIN told = Numbers
      BY ReportsAdd DEF QInv, Types
    <3>2. \A f \in Numbers : last[f] \in Int
      BY ReportsAdd DEF QInv, Types
    <3>3. \A f \in Numbers : told'[f] = last[f]
      BY <2>1, <2>3, <3>1 DEF DInv, SumTold
    <3>4. \A f \in Numbers : told'[f] + 0 = last[f]
      BY <3>2, <3>3
    <3> QED BY <2>1, <2>2, <3>4 DEF SumTold
  <2>5. Drained' => Drained
    BY <2>1, <2>2 DEF Drained
  <2>6. Drained => shouldStop /\ decoded = <<>> /\ pendingSamples = <<>>
                    /\ last = Report(counters, decoder)
    BY <2>3 DEF DInv
  <2>7. pc' \in {"waiting", "flushing", "finishing", "lastFlush"} => decoded' = <<>>
    BY <2>1 DEF DInv
  <2> QED BY <2>1, <2>2, <2>3, <2>4, <2>5, <2>6, <2>7 DEF DInv
<1>10. ASSUME Start \/ StartFails
       PROVE  DInv'
  <2>1. /\ pc' = "waiting" /\ decoded' = <<>> /\ failed' = FALSE
        /\ told' = NoReport /\ last' = NoReport
    BY <1>10 DEF Start, StartFails, Reset
  <2>2. \A f \in Numbers : NoReport[f] \in Int /\ NoReport[f] + 0 = NoReport[f]
    <3>1. \A f \in Numbers : NoReport[f] \in Int
      BY FreshTyped, ReportsAdd DEF FreshTypes
    <3> QED BY <3>1
  <2>3. SumTold'
    BY <2>1, <2>2 DEF SumTold
  <2> QED BY <2>1, <2>3 DEF DInv, Drained
<1>11. ASSUME ThreadExits \/ Stop \/ StopReturns \/ UNCHANGED vars
       PROVE  DInv'
  <2>1. UNCHANGED <<queueVars, localVars, historyVars, decoder, last>>
    BY <1>11 DEF ThreadExits, Stop, StopReturns, vars
  <2> QED BY <2>1 DEF DInv, Drained, SumTold, queueVars, localVars, historyVars
<1> QED BY <1>1, <1>2, <1>3, <1>4, <1>5, <1>6, <1>7, <1>8, <1>9, <1>10, <1>11
        DEF Next, ProducerStep, RunStep, Idle

-----------------------------------------------------------------------------
(***************************************************************************)
(* Samples are whole lines in the order of the stream.                     *)
(***************************************************************************)

\* Where a row begins and ends.
LEMMA RowEnds ==
    ASSUME NEW s \in Sample, RowOK(s)
    PROVE  FirstOf(s) \in Nat /\ LastOf(s) \in Nat /\ FirstOf(s) <= LastOf(s) /\ Len(s) \in Nat
<1>1. s \in Seq(Nat) /\ Len(s) \in Nat /\ Len(s) >= 1
  BY DEF Sample, RowOK
<1>2. s[1] \in Nat /\ s[Len(s)] \in Nat
  BY <1>1
<1>3. s[Len(s)] = s[1] + Len(s) - 1
  BY <1>1 DEF RowOK, FirstOf
<1> QED BY <1>1, <1>2, <1>3 DEF FirstOf, LastOf

\* Rows up to a place are rows up to a later one.
LEMMA RowsMore ==
    ASSUME NEW ss \in Seq(Sample), NEW lo \in Int, NEW hi \in Int, NEW up \in Int,
           Rows(ss, lo, hi), hi <= up
    PROVE  Rows(ss, lo, up)
<1>1. \A i \in 1..Len(ss) : ss[i] \in Sample
  OBVIOUS
<1>2. \A i \in 1..Len(ss) : RowOK(ss[i]) /\ lo < FirstOf(ss[i]) /\ LastOf(ss[i]) <= up
  <2> TAKE i \in 1..Len(ss)
  <2>1. RowOK(ss[i]) /\ lo < FirstOf(ss[i]) /\ LastOf(ss[i]) <= hi
    BY DEF Rows
  <2>2. LastOf(ss[i]) \in Nat
    BY <1>1, <2>1, RowEnds
  <2>3. LastOf(ss[i]) <= up
    BY <2>1, <2>2
  <2> QED BY <2>1, <2>3
<1> QED BY <1>2 DEF Rows

\* Rows up to a place and rows from there on are rows.
LEMMA RowsJoin ==
    ASSUME NEW ss \in Seq(Sample), NEW tt \in Seq(Sample),
           NEW lo \in Int, NEW mid \in Int, NEW hi \in Int,
           Rows(ss, lo, mid), Rows(tt, mid, hi), lo <= mid, mid <= hi
    PROVE  Rows(ss \o tt, lo, hi)
<1> DEFINE u == ss \o tt
           m == Len(ss)
           n == Len(tt)
<1>1. /\ u \in Seq(Sample) /\ m \in Nat /\ n \in Nat /\ Len(u) = m + n
      /\ \A i \in 1..(m + n) : u[i] = IF i <= m THEN ss[i] ELSE tt[i - m]
      /\ \A i \in 1..m : ss[i] \in Sample
      /\ \A i \in 1..n : tt[i] \in Sample
  BY ConcatProperties
<1> HIDE DEF u
<1>2. ASSUME NEW i \in 1..(m + n)
      PROVE  \/ i \in 1..m /\ u[i] = ss[i]
             \/ i - m \in 1..n /\ u[i] = tt[i - m] /\ i \notin 1..m
  BY <1>1
<1>3. ASSUME NEW i \in 1..m
      PROVE  /\ RowOK(ss[i]) /\ lo < FirstOf(ss[i]) /\ LastOf(ss[i]) <= mid
             /\ FirstOf(ss[i]) \in Nat /\ LastOf(ss[i]) \in Nat
  <2>1. RowOK(ss[i]) /\ lo < FirstOf(ss[i]) /\ LastOf(ss[i]) <= mid
    BY DEF Rows
  <2> QED BY <1>1, <2>1, RowEnds
<1>4. ASSUME NEW i \in 1..n
      PROVE  /\ RowOK(tt[i]) /\ mid < FirstOf(tt[i]) /\ LastOf(tt[i]) <= hi
             /\ FirstOf(tt[i]) \in Nat /\ LastOf(tt[i]) \in Nat
  <2>1. RowOK(tt[i]) /\ mid < FirstOf(tt[i]) /\ LastOf(tt[i]) <= hi
    BY DEF Rows
  <2> QED BY <1>1, <2>1, RowEnds
<1> HIDE DEF m, n
<1>5. \A i \in 1..(m + n) : RowOK(u[i]) /\ lo < FirstOf(u[i]) /\ LastOf(u[i]) <= hi
  <2> TAKE i \in 1..(m + n)
  <2>1. CASE i \in 1..m /\ u[i] = ss[i]
    <3>1. RowOK(ss[i]) /\ lo < FirstOf(ss[i]) /\ LastOf(ss[i]) <= mid /\ LastOf(ss[i]) \in Nat
      BY <1>3, <2>1
    <3>2. LastOf(ss[i]) <= hi
      BY <3>1
    <3> QED BY <2>1, <3>1, <3>2
  <2>2. CASE i - m \in 1..n /\ u[i] = tt[i - m]
    <3>1. RowOK(tt[i - m]) /\ mid < FirstOf(tt[i - m]) /\ LastOf(tt[i - m]) <= hi
          /\ FirstOf(tt[i - m]) \in Nat
      BY <1>4, <2>2
    <3>2. lo < FirstOf(tt[i - m])
      BY <3>1
    <3> QED BY <2>2, <3>1, <3>2
  <2> QED BY <1>2, <2>1, <2>2
<1>6. ASSUME NEW i \in 1..(m + n), NEW j \in 1..(m + n), i < j
      PROVE  LastOf(u[i]) < FirstOf(u[j])
  <2>1. CASE i \in 1..m /\ j \in 1..m
    <3>1. u[i] = ss[i] /\ u[j] = ss[j]
      BY <1>1, <2>1
    <3> QED BY <1>6, <2>1, <3>1 DEF Rows, m
  <2>2. CASE i \in 1..m /\ j \notin 1..m
    <3>1. u[i] = ss[i] /\ j - m \in 1..n /\ u[j] = tt[j - m]
      BY <1>1, <1>2, <2>2
    <3>2. LastOf(ss[i]) <= mid /\ LastOf(ss[i]) \in Nat
      BY <1>3, <2>2
    <3>3. mid < FirstOf(tt[j - m]) /\ FirstOf(tt[j - m]) \in Nat
      BY <1>4, <3>1
    <3>4. LastOf(ss[i]) < FirstOf(tt[j - m])
      BY <3>2, <3>3
    <3> QED BY <3>1, <3>4
  <2>3. CASE i \notin 1..m
    <3>1. /\ i - m \in 1..n /\ u[i] = tt[i - m] /\ j - m \in 1..n /\ u[j] = tt[j - m]
          /\ i - m < j - m
      BY <1>1, <1>6, <2>3
    <3> QED BY <3>1 DEF Rows, n
  <2> QED BY <2>1, <2>2, <2>3
<1> QED BY <1>1, <1>5, <1>6 DEF Rows, u

\* No rows, and one row.
LEMMA RowsOne ==
    ASSUME NEW lo \in Int, NEW hi \in Int, NEW s \in Sample
    PROVE  /\ Rows(<<>>, lo, hi)
           /\ RowOK(s) /\ lo < FirstOf(s) /\ LastOf(s) <= hi => Rows(<<s>>, lo, hi)
<1>1. Len(<<>>) = 0 /\ 1..0 = {}
  OBVIOUS
<1>2. Rows(<<>>, lo, hi)
  BY <1>1 DEF Rows
<1>3. Len(<<s>>) = 1 /\ <<s>>[1] = s
  OBVIOUS
<1>4. \A i \in 1..1 : i = 1
  OBVIOUS
<1>5. ASSUME RowOK(s), lo < FirstOf(s), LastOf(s) <= hi PROVE Rows(<<s>>, lo, hi)
  <2> DEFINE q == <<s>>
  <2>1. Len(q) = 1 /\ \A i \in 1..1 : q[i] = s
    BY <1>3, <1>4
  <2> HIDE DEF q
  <2>2. \A i, j \in 1..1 : ~(i < j)
    BY <1>4
  <2>3. Rows(q, lo, hi)
    BY <1>5, <2>1, <2>2 DEF Rows
  <2> QED BY <2>3 DEF q
<1> QED BY <1>2, <1>5

\* The row of the line that is open.
LEMMA RowOfPending ==
    ASSUME NEW d \in Decoders, NEW t \in Nat, Placed(d, t), ~d.discarding, d.pending # <<>>,
           base \in Nat,
           \/ t < presented /\ stream[t + 1] = "newline"
           \/ t = presented /\ ~accepting
    PROVE  LET s == Places(d.pending) IN
           s \in Sample /\ RowOK(s) /\ Edge(d, t) < FirstOf(s) /\ LastOf(s) = t
<1> DEFINE p == d.pending
           k == Len(p)
           e == Edge(d, t)
           s == Places(p)
<1>1. p \in Seq(Octets)
  BY FieldsTyped
<1> HIDE DEF p
<1>2. k \in Nat /\ k >= 1 /\ DOMAIN p = 1..k
  BY <1>1 DEF p
<1>3. e = t - k /\ e \in Int /\ base <= e
  <2>1. e = t - k
    BY DEF Edge, p
  <2>2. base <= e
    BY DEF Placed
  <2> HIDE DEF e, k
  <2> QED BY <1>2, <2>1, <2>2
<1>4. \A i \in 1..k : p[i].at = e + i
  BY DEF Placed, p
<1> HIDE DEF k, e
<1>5. s = [i \in 1..k |-> e + i]
  <2>1. s = [i \in 1..k |-> p[i].at]
    BY <1>2 DEF Places
  <2> QED BY <1>4, <2>1
<1> HIDE DEF s
<1>6. s \in Sample /\ Len(s) = k
  <2>1. \A i \in 1..k : e + i \in Nat
    BY <1>2, <1>3
  <2>2. s \in [1..k -> Nat]
    BY <1>5, <2>1
  <2> QED BY <1>2, <1>5, <2>2 DEF Sample
<1>7. FirstOf(s) = e + 1 /\ LastOf(s) = t /\ \A i \in 1..k : s[i] = e + i
  BY <1>2, <1>3, <1>5, <1>6 DEF FirstOf, LastOf
<1>8. FirstOf(s) = base + 1 \/ stream[FirstOf(s) - 1] = "newline"
  <2>1. e = base \/ stream[e] = "newline"
    BY DEF Placed, e
  <2>2. (e + 1) - 1 = e
    BY <1>3
  <2> QED BY <1>7, <2>1, <2>2
<1>9. \A i \in 1..k : s[i] = FirstOf(s) + i - 1
  BY <1>3, <1>7
<1>10. RowOK(s)
  BY <1>2, <1>6, <1>7, <1>8, <1>9 DEF RowOK
<1>11. e < FirstOf(s)
  BY <1>3, <1>7
<1> QED BY <1>6, <1>7, <1>10, <1>11 DEF s, p, e

\* What has been fed up to the byte at t, of what was open behind lo.
Fed(d, t, lo) ==
    /\ d \in Decoders /\ Placed(d, t) /\ lo <= Edge(d, t)
    /\ Rows(d.samples, lo, Edge(d, t))

\* One byte more.
LEMMA ByteFed ==
    ASSUME NEW d, NEW t \in Nat, NEW lo \in Int, NEW byte \in Octets,
           Fed(d, t, lo), base \in Nat, base <= lo, presented \in Nat, t + 1 <= presented,
           byte.at = t + 1, byte.kind = stream[t + 1]
    PROVE  Fed(IngestByte(d, byte), t + 1, lo)
<1> DEFINE x == IngestByte(d, byte)
           e == Edge(d, t)
<1>1. d \in Decoders /\ Placed(d, t) /\ lo <= e /\ Rows(d.samples, lo, e)
  BY DEF Fed
<1>2. x \in Decoders
  BY <1>1, DecoderTyped
<1>3. /\ d.pending \in Seq(Octets) /\ Len(d.pending) \in Nat /\ d.samples \in Seq(Sample)
      /\ e = t - Len(d.pending) /\ e \in Int /\ d.discarding \in BOOLEAN
  BY <1>1, FieldsTyped DEF Edge
<1> HIDE DEF x, e
<1>4. Rows(d.samples, lo, t + 1)
  BY <1>1, <1>3, RowsMore
<1>5. ASSUME x.pending = <<>>
      PROVE  Edge(x, t + 1) = t + 1 /\ lo <= t + 1
  <2>1. Len(x.pending) = 0
    BY <1>5
  <2> QED BY <1>1, <1>3, <2>1 DEF Edge
<1>6. CASE d.discarding /\ byte.kind # "newline"
  <2>1. x = d /\ x.pending = <<>>
    BY <1>1, <1>6 DEF IngestByte, x, Placed
  <2>2. Placed(x, t + 1)
    BY <1>6, <2>1 DEF Placed
  <2> QED BY <1>2, <1>4, <1>5, <2>1, <2>2 DEF Fed, x
<1>7. CASE byte.kind = "newline" /\ x.pending = <<>> /\ ~x.discarding
           /\ Rows(x.samples, lo, t + 1)
  <2>1. Edge(x, t + 1) = t + 1 /\ lo <= t + 1
    BY <1>5, <1>7
  <2>2. Placed(x, t + 1)
    <3>1. Len(x.pending) = 0 /\ base <= t + 1
      BY <1>7, <2>1
    <3>2. stream[Edge(x, t + 1)] = "newline"
      BY <1>7, <2>1
    <3>3. 1..Len(x.pending) = {}
      BY <3>1
    <3>4. base <= Edge(x, t + 1)
      BY <2>1, <3>1
    <3> QED BY <1>7, <3>2, <3>3, <3>4 DEF Placed
  <2> QED BY <1>2, <1>7, <2>1, <2>2 DEF Fed, x
<1>8. CASE d.discarding /\ byte.kind = "newline"
  <2>1. x = [CloseOversized(d) EXCEPT !.discarding = FALSE]
    BY <1>8 DEF IngestByte, x
  <2>2. x.pending = d.pending /\ x.discarding = FALSE /\ x.samples = d.samples
    BY <1>1, <2>1 DEF CloseOversized, Decoders
  <2>3. x.pending = <<>>
    BY <1>1, <1>8, <2>2 DEF Placed
  <2> QED BY <1>4, <1>7, <1>8, <2>2, <2>3
<1>9. CASE ~d.discarding /\ byte.kind = "newline"
  <2>1. x = [ProcessLine(d) EXCEPT !.pending = <<>>]
    BY <1>9 DEF IngestByte, x
  <2>2. ProcessLine(d) \in Decoders
    BY <1>1, DecoderTyped
  <2>3. /\ x.pending = <<>> /\ x.discarding = ProcessLine(d).discarding
        /\ x.samples = ProcessLine(d).samples
    BY <2>1, <2>2 DEF Decoders
  <2> DEFINE s == Places(d.pending)
  <2>4. /\ ProcessLine(d).discarding = d.discarding
        /\ \/ ProcessLine(d).samples = d.samples
           \/ d.pending # <<>> /\ ProcessLine(d).samples = Append(d.samples, s)
    BY <1>1 DEF ProcessLine, Decoders
  <2>5. ASSUME d.pending # <<>> PROVE Rows(Append(d.samples, s), lo, t + 1)
    <3>1. t < presented /\ stream[t + 1] = "newline"
      BY <1>9
    <3>2. s \in Sample /\ RowOK(s) /\ e < FirstOf(s) /\ LastOf(s) = t
      BY <1>1, <1>9, <2>5, <3>1, RowOfPending DEF e
    <3> HIDE DEF s
    <3>3. t + 1 \in Int /\ LastOf(s) <= t + 1
      BY <3>2
    <3>4. Rows(<<s>>, e, t + 1)
      BY <1>3, <3>2, <3>3, RowsOne
    <3>5. <<s>> \in Seq(Sample) /\ e <= t + 1
      BY <1>3, <3>2
    <3>6. Append(d.samples, s) = d.samples \o <<s>>
      BY <1>3, <3>2, AppendIsConcat
    <3> QED BY <1>1, <1>3, <3>3, <3>4, <3>5, <3>6, RowsJoin
  <2>6. Rows(x.samples, lo, t + 1)
    BY <1>4, <2>3, <2>4, <2>5
  <2> QED BY <1>7, <1>9, <2>3, <2>4, <2>6
<1>10. CASE ~d.discarding /\ byte.kind # "newline" /\ Len(d.pending) >= MaxLineBytes
  <2>1. x = [d EXCEPT !.pending = <<>>, !.discarding = TRUE,
                      !.oversized = TRUE, !.malformed = @ + 1]
    BY <1>10 DEF IngestByte, x
  <2>2. x.pending = <<>> /\ x.discarding = TRUE /\ x.samples = d.samples
    BY <1>1, <2>1 DEF Decoders
  <2>3. Placed(x, t + 1)
    BY <2>2 DEF Placed
  <2> QED BY <1>2, <1>4, <1>5, <2>2, <2>3 DEF Fed, x
<1>11. CASE ~d.discarding /\ byte.kind # "newline" /\ ~(Len(d.pending) >= MaxLineBytes)
  <2>1. x = [d EXCEPT !.pending = Append(@, byte)]
    BY <1>11 DEF IngestByte, x
  <2>2. x.pending = Append(d.pending, byte) /\ x.discarding = d.discarding /\ x.samples = d.samples
    BY <1>1, <2>1 DEF Decoders
  <2> DEFINE k == Len(d.pending)
             q == x.pending
  <2>3. Len(q) = k + 1 /\ q[k + 1] = byte /\ \A i \in 1..k : q[i] = d.pending[i]
    BY <1>3, <2>2, AppendProperties
  <2>4. Edge(x, t + 1) = e
    BY <1>3, <2>3 DEF Edge
  <2>5. \A i \in 1..k : d.pending[i].at = e + i
    BY <1>1, <1>11 DEF Placed, e
  <2>6. byte.at = e + (k + 1)
    <3>1. e = t - k /\ k \in Nat
      BY <1>3
    <3> HIDE DEF k
    <3> QED BY <3>1
  <2>7. \A i \in 1..Len(q) : q[i].at = e + i
    <3> HIDE DEF k, q
    <3> TAKE i \in 1..Len(q)
    <3>1. k \in Nat
      BY <1>3 DEF k
    <3>2. i \in 1..k \/ i = k + 1
      BY <2>3, <3>1
    <3> QED BY <2>3, <2>5, <2>6, <3>2
  <2>8. base <= e /\ (e = base \/ stream[e] = "newline")
    BY <1>1, <1>11 DEF Placed, e
  <2>9. Placed(x, t + 1)
    BY <1>11, <2>2, <2>4, <2>7, <2>8 DEF Placed
  <2> QED BY <1>1, <1>2, <2>2, <2>4, <2>9 DEF Fed, x
<1> QED BY <1>3, <1>6, <1>8, <1>9, <1>10, <1>11

\* A row stays a row while the producer presents more, until the next start.
LEMMA RowsStill ==
    ASSUME QInv, NEW ss \in Seq(Sample), NEW lo, NEW hi, Rows(ss, lo, hi),
           stream' = stream, base' = base, presented' \in Nat, presented <= presented',
           accepting' => accepting, accepting \/ presented' = presented
    PROVE  Rows(ss, lo, hi)'
<1>1. presented \in Nat
  BY DEF QInv, Types
<1>2. ASSUME NEW s \in Sample, RowOK(s) PROVE RowOK(s)'
  <2>1. LastOf(s) \in Nat
    BY <1>2, RowEnds
  <2>2. \/ LastOf(s) < presented /\ stream[LastOf(s) + 1] = "newline"
        \/ LastOf(s) = presented /\ ~accepting
    BY <1>2 DEF RowOK
  <2>3. \/ LastOf(s) < presented' /\ stream[LastOf(s) + 1] = "newline"
        \/ LastOf(s) = presented' /\ ~accepting'
    BY <1>1, <2>1, <2>2
  <2> QED BY <1>2, <2>3 DEF RowOK, FirstOf, LastOf
<1>3. \A i \in 1..Len(ss) : ss[i] \in Sample
  OBVIOUS
<1>4. \A i \in 1..Len(ss) : RowOK(ss[i])'
  BY <1>2, <1>3 DEF Rows
<1> QED BY <1>4 DEF Rows, FirstOf, LastOf

\* What was decoded is a sequence of samples.
LEMMA AllTyped ==
    ASSUME Types
    PROVE  /\ InFlight \in Seq(Sample) /\ All \in Seq(Sample)
           /\ delivered \in Seq(Sample) /\ pendingSamples \in Seq(Sample) /\ decoded \in Seq(Sample)
<1>1. /\ delivered \in Seq(Sample) /\ pendingSamples \in Seq(Sample) /\ decoded \in Seq(Sample)
      /\ batch.samples \in Seq(Sample) /\ <<>> \in Seq(Sample)
  BY DEF Types
<1>2. InFlight \in Seq(Sample)
  BY <1>1 DEF InFlight
<1>3. delivered \o InFlight \in Seq(Sample) /\ pendingSamples \o decoded \in Seq(Sample)
  BY <1>1, <1>2, ConcatProperties
<1>4. All \in Seq(Sample)
  BY <1>3, ConcatProperties DEF All
<1> QED BY <1>1, <1>2, <1>4

\* The parts in which samples wait may be cut elsewhere.
LEMMA PartsOfTwo ==
    ASSUME NEW S, NEW a \in Seq(S), NEW b \in Seq(S)
    PROVE  (a \o <<>>) \o (b \o <<>>) = (a \o b) \o (<<>> \o <<>>)
<1>1. a \o <<>> = a /\ b \o <<>> = b /\ <<>> \o <<>> = <<>>
  BY ConcatEmptySeq
<1>2. a \o b \in Seq(S)
  BY ConcatProperties
<1>3. (a \o b) \o <<>> = a \o b
  BY <1>2, ConcatEmptySeq
<1> QED BY <1>1, <1>3, Zenon

\* The same of three parts.
LEMMA PartsOfThree ==
    ASSUME NEW S, NEW a \in Seq(S), NEW b \in Seq(S), NEW c \in Seq(S)
    PROVE  /\ (a \o <<>>) \o ((b \o c) \o <<>>) = (a \o <<>>) \o (b \o c)
           /\ (a \o <<>>) \o ((b \o c) \o <<>>) = ((a \o <<>>) \o (b \o <<>>)) \o c
           /\ (a \o <<>>) \o (b \o c) = ((a \o <<>>) \o (b \o <<>>)) \o c
<1>1. a \o <<>> = a /\ b \o <<>> = b
  BY ConcatEmptySeq
<1>2. b \o c \in Seq(S)
  BY ConcatProperties
<1>3. (b \o c) \o <<>> = b \o c
  BY <1>2, ConcatEmptySeq
<1>4. (a \o b) \o c = a \o (b \o c)
  OBVIOUS
<1> QED BY <1>1, <1>3, <1>4, Zenon

\* The same once the part in flight was delivered.
LEMMA PartsDelivered ==
    ASSUME NEW S, NEW a \in Seq(S), NEW b \in Seq(S), NEW c
    PROVE  ((a \o b) \o <<>>) \o c = (a \o b) \o c
<1>1. a \o b \in Seq(S)
  BY ConcatProperties
<1>2. (a \o b) \o <<>> = a \o b
  BY <1>1, ConcatEmptySeq
<1> QED BY <1>2, Zenon

\* The place before the open line.
LEMMA EdgeTyped ==
    ASSUME QInv
    PROVE  Edge(decoder, taken) \in Int /\ Edge(decoder, taken) <= taken
<1>1. Len(decoder.pending) \in Nat
  BY FieldsTyped DEF QInv, Types
<1> QED BY <1>1 DEF QInv, Types, Edge

\* The bytes of the chunk that was taken.
LEMMA TakeWorkRows ==
    ASSUME QInv, QInv', DInv, NInv, TakeWork
    PROVE  NInv'
<1> DEFINE chunk == IF queue = <<>> THEN [bytes |-> <<>>, gap |-> FALSE] ELSE Head(queue)
           entry == IF chunk.gap THEN NotifyDataGap(decoder) ELSE decoder
           exit  == Ingest(entry, chunk.bytes)
           b     == chunk.bytes
           t     == IF queue = <<>> THEN taken ELSE StartOf(queue[1]) - 1
           e     == Edge(decoder, taken)
           lo    == Edge(entry, t)
           n     == Len(b)
<1>1. /\ pc = "waiting" /\ pc' \in {"emitting", "flushing"}
      /\ taken' = IF queue = <<>> THEN taken ELSE b[Len(b)].at
      /\ decoder' = [exit EXCEPT !.samples = <<>>]
      /\ decoded' = exit.samples
      /\ UNCHANGED <<stream, presented, accepting, base, delivered, failed, pendingSamples, batch>>
  BY DEF TakeWork, producerVars, lifeVars, historyVars
<1>2. ~failed /\ decoded = <<>>
  BY <1>1 DEF DInv
<1>3. /\ decoder \in Decoders /\ base \in Nat /\ taken \in Nat /\ presented \in Nat
      /\ Placed(decoder, taken) /\ base <= e /\ Rows(All, base, e) /\ e \in Int /\ e <= taken
      /\ taken <= presented
  BY <1>1, EdgeTyped DEF QInv, Types, NInv, InOrder
<1>4. /\ t \in Nat /\ taken <= t
      /\ b \in Seq(Octets) /\ n \in Nat /\ taken' = t + n /\ taken' <= presented
      /\ \A i \in 1..n : b[i].at = t + i /\ b[i].kind = stream[t + i]
      /\ (~chunk.gap => t = taken)
  <2>1. CASE queue = <<>>
    <3>1. chunk = [bytes |-> <<>>, gap |-> FALSE]
      BY <2>1
    <3>2. b = <<>> /\ n = 0 /\ <<>> \in Seq(Octets) /\ 1..0 = {}
      BY <3>1
    <3> HIDE DEF chunk
    <3> QED BY <1>1, <1>3, <2>1, <3>2
  <2>2. CASE queue # <<>>
    <3>1. queue \in Seq(Chunk) /\ 1 \in 1..Len(queue) /\ chunk = queue[1]
      BY <2>2 DEF QInv, Types
    <3>2. chunk \in Chunk
      BY <3>1
    <3>3. /\ StartOf(chunk) \in Nat /\ EndOf(chunk) \in Nat /\ Len(chunk.bytes) \in Nat
          /\ Len(chunk.bytes) >= 1 /\ taken < StartOf(chunk) /\ EndOf(chunk) <= presented
      BY <3>1, PieceEnds
    <3>4. /\ \A i \in 1..Len(chunk.bytes) : /\ chunk.bytes[i].at = StartOf(chunk) + i - 1
                                            /\ chunk.bytes[i].kind = stream[chunk.bytes[i].at]
      BY <3>1 DEF QInv, InOrder, Piece
    <3>5. ~chunk.gap => StartOf(chunk) = taken + 1
      BY <3>1 DEF QInv, Marked, Before
    <3>6. t = StartOf(chunk) - 1 /\ taken' = EndOf(chunk)
      BY <1>1, <2>2, <3>1 DEF EndOf
    <3> HIDE DEF chunk, t
    <3>7. b \in Seq(Octets)
      BY <3>2 DEF Chunk
    <3>8. t \in Nat /\ taken <= t /\ (~chunk.gap => t = taken)
      BY <1>3, <3>3, <3>5, <3>6
    <3>9. \A i \in 1..n : b[i].at = t + i /\ b[i].kind = stream[t + i]
      <4> TAKE i \in 1..n
      <4>1. b[i].at = StartOf(chunk) + i - 1 /\ b[i].kind = stream[b[i].at]
        BY <3>4
      <4>2. StartOf(chunk) + i - 1 = t + i
        BY <3>3, <3>6
      <4> QED BY <4>1, <4>2
    <3>10. taken' = t + n
      <4>1. n \in 1..n /\ EndOf(chunk) = b[n].at
        BY <3>3 DEF EndOf
      <4> QED BY <3>6, <3>9, <4>1
    <3> QED BY <3>3, <3>6, <3>7, <3>8, <3>9, <3>10
  <2> QED BY <2>1, <2>2
<1> HIDE DEF t, b
<1>5. /\ entry \in Decoders /\ Placed(entry, t) /\ e <= lo /\ lo \in Int
  <2>1. CASE chunk.gap
    <3>1. entry = NotifyDataGap(decoder)
      BY <2>1
    <3>2. entry \in Decoders
      BY <1>3, <3>1, DecoderTyped
    <3>3. entry.pending = <<>> /\ entry.discarding = TRUE
      BY <1>3, <3>1 DEF NotifyDataGap, Decoders
    <3> HIDE DEF entry
    <3>4. lo = t
      <4>1. Len(entry.pending) = 0
        BY <3>3
      <4> QED BY <1>4, <4>1 DEF Edge
    <3>5. Placed(entry, t)
      BY <3>3 DEF Placed
    <3> HIDE DEF lo, e
    <3> QED BY <1>3, <1>4, <3>2, <3>4, <3>5
  <2>2. CASE ~chunk.gap
    <3>1. entry = decoder /\ t = taken
      BY <1>4, <2>2
    <3> HIDE DEF entry, t
    <3>2. lo = e
      BY <3>1
    <3> HIDE DEF lo, e
    <3> QED BY <1>3, <3>1, <3>2
  <2> QED BY <2>1, <2>2
<1> HIDE DEF chunk, e, lo
<1> DEFINE fresh == [entry EXCEPT !.samples = <<>>]
<1>6. fresh \in Decoders /\ fresh.pending = entry.pending /\ fresh.discarding = entry.discarding
      /\ fresh.samples = <<>>
  <2> HIDE DEF entry
  <2>1. fresh \in Decoders
    BY <1>5, DecoderFields
  <2> QED BY <1>5, <2>1 DEF Decoders
<1> HIDE DEF entry
<1>7. Fed(fresh, t, lo)
  <2> HIDE DEF fresh
  <2>1. Edge(fresh, t) = lo
    BY <1>6 DEF Edge, lo
  <2>2. Placed(fresh, t)
    BY <1>5, <1>6 DEF Placed, Edge
  <2>3. Rows(<<>>, lo, lo)
    <3>1. Len(<<>>) = 0 /\ 1..0 = {}
      OBVIOUS
    <3> QED BY <3>1 DEF Rows
  <2> QED BY <1>5, <1>6, <2>1, <2>2, <2>3 DEF Fed
<1>8. Fed(exit, t + n, lo)
  <2> DEFINE A == [i \in 0..n |-> {x \in Decoders : Fed(x, t + i, lo)}]
  <2>1. fresh \in A[0]
    <3>1. 0 \in 0..n /\ t + 0 = t
      BY <1>4
    <3> HIDE DEF fresh
    <3> QED BY <1>6, <1>7, <3>1
  <2>2. \A i \in 1..n : \A x \in A[i - 1] : IngestByte(x, b[i]) \in A[i]
    <3> TAKE i \in 1..n
    <3>1. i - 1 \in 0..n /\ i \in 0..n /\ t + (i - 1) \in Nat /\ (t + (i - 1)) + 1 = t + i
          /\ t + i <= presented /\ b[i] \in Octets
      BY <1>1, <1>3, <1>4
    <3> TAKE x \in A[i - 1]
    <3>2. Fed(x, t + (i - 1), lo)
      BY <3>1
    <3> HIDE DEF A
    <3>3. Fed(IngestByte(x, b[i]), t + i, lo)
      <4> DEFINE u == t + (i - 1)
                 o == b[i]
      <4>1. u \in Nat /\ u + 1 = t + i /\ u + 1 <= presented /\ o \in Octets
            /\ o.at = u + 1 /\ o.kind = stream[u + 1] /\ Fed(x, u, lo)
        BY <1>4, <3>1, <3>2
      <4>2. base <= lo /\ lo \in Int
        BY <1>3, <1>5
      <4> HIDE DEF u, o
      <4>3. Fed(IngestByte(x, o), u + 1, lo)
        BY <1>3, <4>1, <4>2, ByteFed
      <4> QED BY <4>1, <4>3 DEF o
    <3> QED BY <3>1, <3>3 DEF A, Fed
  <2> HIDE DEF A, n
  <2>3. exit \in A[n]
    BY <1>4, <2>1, <2>2, IngestKeeps DEF b, n
  <2>4. n \in 0..n
    BY <1>4
  <2> QED BY <2>3, <2>4 DEF A
<1> HIDE DEF exit
<1>9. /\ exit \in Decoders /\ exit.samples \in Seq(Sample)
      /\ decoder' \in Decoders /\ decoder'.pending = exit.pending
      /\ decoder'.discarding = exit.discarding
  <2>1. exit \in Decoders
    BY <1>8 DEF Fed
  <2> QED BY <1>1, <2>1, DecoderFields, FieldsTyped DEF Decoders
<1> DEFINE up == Edge(decoder', taken')
<1>10. /\ up \in Int /\ lo <= up /\ Rows(exit.samples, lo, up) /\ Placed(exit, taken')
       /\ up = Edge(exit, taken')
  <2>1. taken' = t + n /\ taken' \in Nat
    BY <1>4
  <2>2. up = Edge(exit, taken')
    BY <1>9 DEF Edge
  <2>3. Edge(exit, taken') \in Int
    <3>1. Len(exit.pending) \in Nat
      BY <1>9, FieldsTyped
    <3> QED BY <2>1, <3>1 DEF Edge
  <2> HIDE DEF up
  <2> QED BY <1>8, <2>1, <2>2, <2>3 DEF Fed
<1>11. Placed(decoder, taken)'
  BY <1>1, <1>9, <1>10 DEF Placed, Edge
<1> HIDE DEF up
<1>12. All' = All \o exit.samples
  <2>1. InFlight = <<>> /\ InFlight' = <<>>
    BY <1>1, <1>2 DEF InFlight
  <2>2. delivered \in Seq(Sample) /\ pendingSamples \in Seq(Sample)
    BY AllTyped DEF QInv
  <2>3. All = (delivered \o <<>>) \o (pendingSamples \o <<>>)
    BY <1>2, <2>1 DEF All
  <2>4. All' = (delivered \o <<>>) \o (pendingSamples \o exit.samples)
    BY <1>1, <2>1 DEF All
  <2> DEFINE x == exit.samples
  <2>5. x \in Seq(Sample)
    BY <1>9
  <2> HIDE DEF x
  <2>6. (delivered \o <<>>) \o (pendingSamples \o x)
          = ((delivered \o <<>>) \o (pendingSamples \o <<>>)) \o x
    <3> DEFINE a == delivered
               p == pendingSamples
    <3>1. a \in Seq(Sample) /\ p \in Seq(Sample)
      BY <2>2
    <3> HIDE DEF a, p
    <3>2. (a \o <<>>) \o (p \o x) = ((a \o <<>>) \o (p \o <<>>)) \o x
      BY <2>5, <3>1, PartsOfThree
    <3> QED BY <3>2 DEF a, p
  <2> QED BY <2>3, <2>4, <2>6, Zenon DEF x
<1>13. All \in Seq(Sample) /\ All' \in Seq(Sample)
  <2>1. All \in Seq(Sample)
    BY AllTyped DEF QInv
  <2> HIDE DEF All
  <2> QED BY <1>9, <1>12, <2>1, ConcatProperties
<1>14. Rows(All', base, up)
  <2>1. Rows(All, base, lo)
    BY <1>3, <1>5, <1>13, RowsMore
  <2>2. base <= lo
    BY <1>3, <1>5
  <2> QED BY <1>3, <1>5, <1>9, <1>10, <1>12, <1>13, <2>1, <2>2, RowsJoin
<1>15. Rows(All, base, Edge(decoder, taken))'
  <2> DEFINE a == All'
  <2>1. /\ a \in Seq(Sample) /\ Rows(a, base, up) /\ presented' \in Nat /\ presented <= presented'
        /\ stream' = stream /\ base' = base /\ accepting' = accepting /\ presented' = presented
    BY <1>1, <1>3, <1>13, <1>14
  <2>2. Rows(All', base', up)
    BY <2>1
  <2> QED BY <2>1, <2>2, RowsStill DEF up
<1>16. base <= up
  BY <1>3, <1>5, <1>10
<1> QED BY <1>1, <1>11, <1>15, <1>16 DEF NInv, up

\* What finish() adds is the line that is open, if it is a whole one.
LEMMA FinishRows ==
    ASSUME NEW d \in Decoders, NEW t \in Nat, Placed(d, t), base \in Nat,
           d.discarding \/ (t = presented /\ ~accepting)
    PROVE  LET f == Finish(d) IN
           /\ f \in Decoders /\ f.pending = <<>> /\ f.samples \in Seq(Sample)
           /\ Edge(d, t) \in Int /\ Edge(d, t) <= t /\ Rows(f.samples, Edge(d, t), t)
<1> DEFINE f == Finish(d)
           e == Edge(d, t)
           closed == [CloseOversized(d) EXCEPT !.samples = <<>>]
           last1 == IF d.discarding THEN closed ELSE ProcessLine(closed)
           s == Places(d.pending)
<1>1. f \in Decoders /\ f.samples \in Seq(Sample)
  <2>1. f \in Decoders
    BY DecoderTyped
  <2> QED BY <2>1, FieldsTyped
<1>2. /\ e \in Int /\ e <= t
  <2>1. Len(d.pending) \in Nat
    BY FieldsTyped
  <2> QED BY <2>1 DEF Edge
<1>3. /\ closed.pending = d.pending /\ closed.samples = <<>>
      /\ f = [last1 EXCEPT !.pending = <<>>, !.discarding = FALSE]
  BY DEF CloseOversized, Decoders, Finish
<1>4. /\ last1.samples = <<>> \/ (~d.discarding /\ d.pending # <<>> /\ last1.samples = <<s>>)
      /\ f.pending = <<>> /\ f.samples = last1.samples
  <2>1. closed \in Decoders
    <3>1. CloseOversized(d) \in Decoders
      BY DecoderTyped
    <3> QED BY <3>1, DecoderFields
  <2> HIDE DEF closed
  <2>2. ProcessLine(closed) \in Decoders
    BY <2>1, DecoderTyped
  <2>3. last1 \in Decoders
    BY <2>1, <2>2
  <2>4. \/ ProcessLine(closed).samples = <<>>
        \/ d.pending # <<>> /\ ProcessLine(closed).samples = Append(<<>>, s)
    BY <1>3, <2>1 DEF ProcessLine, Decoders
  <2>5. last1.samples = <<>> \/ (~d.discarding /\ d.pending # <<>> /\ last1.samples = <<s>>)
    <3>1. Append(<<>>, s) = <<s>>
      OBVIOUS
    <3> QED BY <1>3, <2>4, <3>1
  <2> HIDE DEF last1, f
  <2>6. f.pending = <<>> /\ f.samples = last1.samples
    BY <1>3, <2>3 DEF Decoders
  <2> QED BY <2>5, <2>6
<1> HIDE DEF last1, closed, f
<1>5. CASE last1.samples = <<>>
  <2>1. Len(<<>>) = 0 /\ 1..0 = {}
    OBVIOUS
  <2>2. Rows(<<>>, e, t)
    BY <2>1 DEF Rows
  <2> QED BY <1>1, <1>2, <1>4, <1>5, <2>2 DEF f
<1>6. CASE ~d.discarding /\ d.pending # <<>> /\ last1.samples = <<s>>
  <2>1. s \in Sample /\ RowOK(s) /\ e < FirstOf(s) /\ LastOf(s) = t
    BY <1>6, RowOfPending
  <2> HIDE DEF s, e
  <2>2. LastOf(s) <= t
    BY <2>1
  <2>3. Rows(<<s>>, e, t)
    BY <1>2, <2>1, <2>2, RowsOne
  <2> QED BY <1>1, <1>2, <1>4, <1>6, <2>3 DEF f, e
<1> QED BY <1>4, <1>5, <1>6

\* The line that is still open at the stop.
LEMMA FinishStreamRows ==
    ASSUME QInv, QInv', DInv, NInv, FinishStream
    PROVE  NInv'
<1> DEFINE entry == IF gapAtEnd THEN NotifyDataGap(decoder) ELSE decoder
           end   == Finish(entry)
           e     == Edge(decoder, taken)
           lo    == Edge(entry, taken)
<1>1. /\ pc = "finishing" /\ pc' = "lastFlush"
      /\ decoder' = [end EXCEPT !.samples = <<>>]
      /\ pendingSamples' = pendingSamples \o end.samples
      /\ UNCHANGED <<stream, presented, accepting, base, delivered, failed, decoded, batch, taken>>
  BY DEF FinishStream, producerVars, lifeVars, historyVars, takenVars
<1>2. ~failed /\ decoded = <<>>
  BY <1>1 DEF DInv
<1>3. /\ decoder \in Decoders /\ base \in Nat /\ taken \in Nat /\ presented \in Nat
      /\ Placed(decoder, taken) /\ base <= e /\ Rows(All, base, e) /\ e \in Int /\ e <= taken
  BY <1>1, EdgeTyped DEF QInv, Types, NInv
<1>4. /\ entry \in Decoders /\ Placed(entry, taken) /\ e <= lo
      /\ entry.discarding \/ (taken = presented /\ ~accepting)
  <2>1. CASE gapAtEnd
    <3>1. entry = NotifyDataGap(decoder)
      BY <2>1
    <3>2. entry \in Decoders
      BY <1>3, <3>1, DecoderTyped
    <3>3. entry.pending = <<>> /\ entry.discarding = TRUE
      BY <1>3, <3>1 DEF NotifyDataGap, Decoders
    <3> HIDE DEF entry
    <3>4. lo = taken
      <4>1. Len(entry.pending) = 0
        BY <3>3
      <4> QED BY <1>3, <4>1 DEF Edge
    <3>5. Placed(entry, taken)
      BY <3>3 DEF Placed
    <3> QED BY <1>3, <3>2, <3>3, <3>4, <3>5
  <2>2. CASE ~gapAtEnd
    <3>1. shouldStop /\ stopRequested /\ queue = <<>> /\ ~gapBeforeNext /\ ~accepting
      BY <1>1 DEF QInv, Threads
    <3>2. taken = presented
      BY <2>2, <3>1 DEF QInv, Marked, LastQueued
    <3> QED BY <1>3, <2>2, <3>1, <3>2
  <2> QED BY <2>1, <2>2
<1> HIDE DEF entry, e
<1>5. /\ end \in Decoders /\ end.pending = <<>> /\ end.samples \in Seq(Sample)
      /\ lo \in Int /\ lo <= taken /\ Rows(end.samples, lo, taken)
  BY <1>3, <1>4, FinishRows
<1> HIDE DEF end, lo
<1>6. Edge(decoder, taken)' = taken
  <2>1. decoder'.pending = <<>> /\ Len(<<>>) = 0
    BY <1>1, <1>5 DEF Decoders
  <2> QED BY <1>1, <1>3, <2>1 DEF Edge
<1>7. All' = All \o end.samples
  <2> DEFINE a == delivered
             p == pendingSamples
             x == end.samples
  <2>1. InFlight = <<>> /\ InFlight' = <<>>
    BY <1>1, <1>2 DEF InFlight
  <2>2. a \in Seq(Sample) /\ p \in Seq(Sample) /\ x \in Seq(Sample)
    BY <1>5, AllTyped DEF QInv
  <2>3. All = (a \o <<>>) \o (p \o <<>>)
    BY <1>2, <2>1 DEF All
  <2>4. All' = (a \o <<>>) \o ((p \o x) \o <<>>)
    BY <1>1, <1>2, <2>1 DEF All
  <2> HIDE DEF a, p, x
  <2>5. (a \o <<>>) \o ((p \o x) \o <<>>) = ((a \o <<>>) \o (p \o <<>>)) \o x
    BY <2>2, PartsOfThree
  <2> QED BY <2>3, <2>4, <2>5, Zenon DEF x
<1>8. All \in Seq(Sample) /\ All' \in Seq(Sample)
  <2>1. All \in Seq(Sample)
    BY AllTyped DEF QInv
  <2> HIDE DEF All
  <2> QED BY <1>5, <1>7, <2>1, ConcatProperties
<1>9. Rows(All', base, taken)
  <2>1. Rows(All, base, lo) /\ base <= lo
    BY <1>3, <1>4, <1>5, <1>8, RowsMore
  <2> QED BY <1>3, <1>5, <1>7, <1>8, <2>1, RowsJoin
<1> DEFINE up == Edge(decoder', taken')
<1>10. Rows(All, base, Edge(decoder, taken))'
  <2> HIDE DEF up
  <2> DEFINE a == All'
  <2>1. /\ a \in Seq(Sample) /\ Rows(a, base, up) /\ presented' \in Nat /\ presented <= presented'
        /\ stream' = stream /\ base' = base /\ accepting' = accepting /\ presented' = presented
    BY <1>1, <1>3, <1>6, <1>8, <1>9 DEF up
  <2>2. Rows(All', base', up)
    BY <2>1
  <2> QED BY <2>1, <2>2, RowsStill DEF up
<1>11. base' <= taken
  BY <1>1, <1>3
<1> QED BY <1>1, <1>6, <1>10, <1>11 DEF NInv

\* A step after which the same samples wait or are delivered.
LEMMA SameRows ==
    ASSUME QInv, NInv, All' = All, UNCHANGED <<stream, base, decoder, taken>>,
           presented' \in Nat, presented <= presented',
           accepting' => accepting, accepting \/ presented' = presented
    PROVE  /\ base' <= Edge(decoder, taken)'
           /\ Rows(All, base, Edge(decoder, taken))'
           /\ Placed(decoder, taken) => Placed(decoder, taken)'
<1> DEFINE a == All
           e == Edge(decoder, taken)
<1>1. a \in Seq(Sample) /\ Rows(a, base, e) /\ base <= e
  BY AllTyped DEF QInv, NInv
<1>2. e' = e
  BY DEF Edge
<1>3. Placed(decoder, taken) => Placed(decoder, taken)'
  BY DEF Placed, Edge
<1>4. Rows(a, base, e)'
  <2> DEFINE v == All'
             w == Edge(decoder, taken)'
  <2>1. v \in Seq(Sample) /\ Rows(v, base, w)
    BY <1>1, <1>2
  <2> HIDE DEF v, w
  <2>2. Rows(v, base', w) <=> Rows(v, base, w)
    OBVIOUS
  <2> QED BY <2>1, RowsStill DEF v, w
<1> QED BY <1>1, <1>2, <1>3, <1>4

\* The worker hands samples on, and the callback takes them.
LEMMA HandOverRows ==
    ASSUME QInv, DInv, NInv,
           \/ EmitFull \/ EmitRest \/ Flush \/ LastFlush \/ CallbackThrows
           \/ \E callsStop \in BOOLEAN : CallbackReturns(callsStop)
    PROVE  NInv'
<1> DEFINE D == delivered
           P == pendingSamples
           X == decoded
           I == batch.samples
<1>1. /\ D \in Seq(Sample) /\ P \in Seq(Sample) /\ X \in Seq(Sample) /\ I \in Seq(Sample)
      /\ presented \in Nat
  BY AllTyped DEF QInv, Types
<1>2. (failed => pc = "returned") /\ All = (D \o InFlight) \o (P \o X)
  BY DEF DInv, All
<1>3. ASSUME All' = All, UNCHANGED <<stream, presented, base, decoder, taken>>,
             accepting' => accepting,
             pc' \in {"waiting", "emitting", "flushing", "finishing"}
                 \/ (pc' = "delivering" /\ batch'.then # "returned") => Placed(decoder, taken)
      PROVE  NInv'
  <2>1. /\ base' <= Edge(decoder, taken)'
        /\ Rows(All, base, Edge(decoder, taken))'
        /\ Placed(decoder, taken) => Placed(decoder, taken)'
    BY <1>1, <1>3, SameRows
  <2> QED BY <1>3, <2>1 DEF NInv
<1>4. CASE EmitFull
  <2> DEFINE n == Fill
             b == SubSeq(X, 1, n)
             c == SubSeq(X, n + 1, Len(X))
  <2>1. /\ pc = "emitting" /\ Len(X) >= n
        /\ Deliver(P \o b, "emitting")
        /\ decoded' = c /\ pendingSamples' = <<>>
        /\ UNCHANGED <<stream, presented, base, accepting, delivered, failed, decoder, taken>>
    BY <1>4 DEF EmitFull, producerVars, lifeVars, historyVars, takenVars
  <2>2. n \in Nat /\ n >= 1 /\ Len(P) + n = MaxBatch /\ Len(X) \in Nat /\ n \in 0..Len(X)
    <3> DEFINE p == Len(P)
               d == Len(X)
    <3>1. p \in Nat /\ d \in Nat
      BY <1>1
    <3>2. MaxBatch \in Nat /\ p < MaxBatch /\ n = MaxBatch - p /\ d >= n
      BY <2>1, ConfigAssumption DEF QInv, Batches, Fill
    <3> HIDE DEF p, d, n
    <3>3. n \in Nat /\ n >= 1 /\ p + n = MaxBatch /\ n \in 0..d
      BY <3>1, <3>2
    <3> QED BY <3>1, <3>3 DEF p, d
  <2> HIDE DEF D, P, X, I, n
  <2>3. b \in Seq(Sample) /\ Len(b) = n /\ c \in Seq(Sample) /\ X = b \o c
    <3>1. b \in Seq(Sample) /\ Len(b) = n
      BY <1>1, <2>2
    <3>2. c \in Seq(Sample)
      BY <1>1, <2>2, RestOf
    <3>3. X = b \o c
      <4>1. X = SubSeq(X, 1, Len(X))
        BY <1>1, SubSeqFull
      <4>2. SubSeq(X, 1, n) \o SubSeq(X, n + 1, Len(X)) = SubSeq(X, 1, Len(X))
        BY <1>1, <2>2, ConcatAdjacentSubSeq
      <4> QED BY <4>1, <4>2
    <3> QED BY <3>1, <3>2, <3>3
  <2> HIDE DEF b, c
  <2>4. P \o b \in Seq(Sample) /\ P \o b # <<>>
    <3>1. P \o b \in Seq(Sample) /\ Len(P \o b) = Len(P) + n /\ Len(P) \in Nat
      BY <1>1, <2>3, ConcatProperties
    <3>2. Len(P \o b) >= 1
      BY <2>2, <3>1
    <3>3. Len(<<>>) = 0
      OBVIOUS
    <3> QED BY <3>1, <3>2, <3>3
  <2>5. pc' = "delivering" /\ batch'.samples = P \o b /\ batch'.then = "emitting"
    BY <2>1, <2>4, Delivery DEF QInv, Ends
  <2>6. InFlight = <<>> /\ InFlight' = P \o b
    BY <1>2, <2>1, <2>5 DEF InFlight
  <2>7. All = (D \o <<>>) \o (P \o (b \o c))
    BY <1>2, <2>3, <2>6
  <2>8. All' = (D \o (P \o b)) \o (<<>> \o c)
    BY <2>1, <2>6 DEF All, D
  <2>9. All' = All
    <3>1. (D \o (P \o b)) \o (<<>> \o c) = (D \o <<>>) \o (P \o (b \o c))
      <4>1. D \o <<>> = D /\ <<>> \o c = c
        BY <1>1, <2>3, ConcatEmptySeq
      <4>2. (D \o (P \o b)) \o c = D \o (P \o (b \o c))
        <5>1. D \in Seq(Sample) /\ P \in Seq(Sample) /\ b \in Seq(Sample) /\ c \in Seq(Sample)
          BY <1>1, <2>3
        <5>2. P \o b \in Seq(Sample)
          BY <5>1
        <5>3. (D \o (P \o b)) \o c = D \o ((P \o b) \o c)
          BY <5>1, <5>2
        <5>4. (P \o b) \o c = P \o (b \o c)
          BY <5>1
        <5> QED BY <5>3, <5>4, Zenon
      <4> QED BY <4>1, <4>2, Zenon
    <3> QED BY <2>7, <2>8, <3>1, Zenon
  <2>10. Placed(decoder, taken)
    BY <2>1 DEF NInv
  <2> QED BY <1>3, <2>1, <2>5, <2>9, <2>10
<1>5. CASE EmitRest
  <2>1. /\ pc = "emitting" /\ pc' \in {"finishing", "waiting", "flushing"}
        /\ pendingSamples' = P \o X /\ decoded' = <<>>
        /\ UNCHANGED <<stream, presented, base, accepting, delivered, failed, batch, decoder, taken>>
    BY <1>5 DEF EmitRest, producerVars, lifeVars, historyVars, takenVars
  <2> HIDE DEF D, P, X, I
  <2>2. InFlight = <<>> /\ InFlight' = <<>>
    BY <1>2, <2>1 DEF InFlight
  <2>3. All' = (D \o <<>>) \o ((P \o X) \o <<>>)
    BY <2>1, <2>2 DEF All, D
  <2>4. All' = All
    <3>1. (D \o <<>>) \o ((P \o X) \o <<>>) = (D \o <<>>) \o (P \o X)
      BY <1>1, PartsOfThree
    <3>2. All = (D \o <<>>) \o (P \o X)
      BY <1>2, <2>2
    <3> QED BY <2>3, <3>1, <3>2, Zenon
  <2>5. Placed(decoder, taken)
    BY <2>1 DEF NInv
  <2> QED BY <1>3, <2>1, <2>4, <2>5
<1>6. ASSUME NEW then \in Ends, Deliver(P, then), pendingSamples' = <<>>, decoded' = X,
             pc \in {"flushing", "lastFlush"}, then # "emitting",
             UNCHANGED <<delivered, failed>>
      PROVE  All' = All /\ pc' \in {then, "delivering"} /\ batch'.then = then
  <2>1. X = <<>>
    BY <1>6 DEF DInv
  <2>2. /\ batch'.samples = P /\ batch'.then = then
        /\ pc' = then \/ pc' = "delivering"
        /\ pc' = "delivering" \/ P = <<>>
    BY <1>1, <1>6, Delivery DEF QInv
  <2>3. InFlight = <<>> /\ ~failed'
    BY <1>2, <1>6 DEF InFlight
  <2>4. InFlight' = P
    BY <2>2, <2>3, <1>6 DEF InFlight, Ends
  <2>5. All = (D \o <<>>) \o (P \o <<>>)
    BY <1>2, <2>1, <2>3
  <2>6. All' = (D \o P) \o (<<>> \o <<>>)
    BY <1>6, <2>1, <2>4 DEF All
  <2> HIDE DEF D, P, X, I
  <2>7. (D \o <<>>) \o (P \o <<>>) = (D \o P) \o (<<>> \o <<>>)
    BY <1>1, PartsOfTwo
  <2> QED BY <2>2, <2>5, <2>6, <2>7
<1>7. CASE Flush
  <2> DEFINE then == IF shouldStop THEN "finishing" ELSE "waiting"
  <2>1. /\ pc = "flushing" /\ Deliver(P, then) /\ pendingSamples' = <<>> /\ decoded' = X
        /\ UNCHANGED <<stream, presented, base, accepting, delivered, failed, decoder, taken>>
    BY <1>7 DEF Flush, producerVars, lifeVars, historyVars, takenVars
  <2>2. then \in Ends /\ then # "emitting"
    BY DEF Ends
  <2> HIDE DEF then
  <2>3. All' = All
    BY <1>6, <2>1, <2>2
  <2>4. Placed(decoder, taken)
    BY <2>1 DEF NInv
  <2> QED BY <1>3, <2>1, <2>3, <2>4
<1>8. CASE LastFlush
  <2>1. /\ pc = "lastFlush" /\ Deliver(P, "returned") /\ pendingSamples' = <<>> /\ decoded' = X
        /\ UNCHANGED <<stream, presented, base, accepting, delivered, failed, decoder, taken>>
    BY <1>8 DEF LastFlush, producerVars, lifeVars, historyVars, takenVars
  <2>2. All' = All /\ pc' \in {"returned", "delivering"} /\ batch'.then = "returned"
    <3>1. "returned" \in Ends
      BY DEF Ends
    <3> QED BY <1>6, <2>1, <3>1
  <2> QED BY <1>3, <2>1, <2>2
<1>9. CASE CallbackThrows
  <2>1. /\ pc = "delivering" /\ pc' = "returned" /\ failed' = TRUE /\ accepting' = FALSE
        /\ UNCHANGED <<stream, presented, base, delivered, pendingSamples, decoded, batch,
                       decoder, taken>>
    BY <1>9 DEF CallbackThrows, producerVars, takenVars
  <2>2. InFlight' = InFlight
    BY <2>1 DEF InFlight
  <2>3. All' = All
    BY <2>1, <2>2 DEF All
  <2> QED BY <1>3, <2>1, <2>3
<1>10. ASSUME NEW callsStop \in BOOLEAN, CallbackReturns(callsStop)
       PROVE  NInv'
  <2>1. /\ pc = "delivering" /\ pc' = batch.then /\ delivered' = D \o I
        /\ accepting' => accepting
        /\ UNCHANGED <<stream, presented, base, failed, pendingSamples, decoded, batch,
                       decoder, taken>>
    BY <1>10 DEF CallbackReturns, producerVars, takenVars
  <2>2. batch.then \in Ends
    BY DEF QInv, Types
  <2>3. InFlight = I /\ InFlight' = <<>>
    BY <1>2, <2>1, <2>2 DEF InFlight, Ends
  <2> HIDE DEF D, P, X, I
  <2>4. All' = ((D \o I) \o <<>>) \o (P \o X)
    BY <2>1, <2>3 DEF All, P, X
  <2>5. ((D \o I) \o <<>>) \o (P \o X) = (D \o I) \o (P \o X)
    BY <1>1, PartsDelivered
  <2>6. All' = All
    BY <1>2, <2>3, <2>4, <2>5, Zenon
  <2>7. pc' # "returned" => Placed(decoder, taken)
    BY <2>1 DEF NInv
  <2> QED BY <1>3, <2>1, <2>2, <2>6, <2>7 DEF Ends
<1> QED BY <1>4, <1>5, <1>7, <1>8, <1>9, <1>10

\* Every other step leaves the samples alone, or begins with none.
LEMMA OtherRows ==
    ASSUME QInv, QInv', DInv, NInv,
           \/ \E size \in ChunkSizes : Enqueue(size) \/ RejectOversized(size)
           \/ Start \/ StartFails
           \/ ThreadExits \/ Stop \/ StopReturns \/ UNCHANGED vars
    PROVE  NInv'
<1>1. ASSUME UNCHANGED <<stream, localVars, historyVars, decoder, taken>>,
             presented' \in Nat, presented <= presented',
             accepting' => accepting, accepting \/ presented' = presented
      PROVE  NInv'
  <2>1. All' = All
    BY <1>1 DEF All, InFlight, localVars, historyVars
  <2>2. base' = base /\ pc' = pc /\ batch' = batch
    BY <1>1 DEF localVars, historyVars
  <2>3. /\ base' <= Edge(decoder, taken)'
        /\ Rows(All, base, Edge(decoder, taken))'
        /\ Placed(decoder, taken) => Placed(decoder, taken)'
    BY <1>1, <2>1, <2>2, SameRows
  <2> QED BY <2>2, <2>3 DEF NInv
<1>2. presented \in Nat /\ presented' \in Nat
  BY DEF QInv, Types
<1>3. ASSUME NEW size \in ChunkSizes, Enqueue(size) \/ RejectOversized(size)
      PROVE  NInv'
  <2>1. size \in Nat
    BY ChunkAssumption
  <2>2. /\ accepting /\ presented' = presented + size
        /\ UNCHANGED <<stream, lifeVars, localVars, historyVars, decoder, takenVars>>
    BY <1>3 DEF Enqueue, RejectOversized
  <2>3. presented <= presented'
    BY <1>2, <2>1, <2>2
  <2> QED BY <1>1, <1>2, <2>2, <2>3 DEF lifeVars, takenVars
<1>4. ASSUME ThreadExits \/ Stop \/ StopReturns \/ UNCHANGED vars
      PROVE  NInv'
  <2>1. /\ UNCHANGED <<stream, presented, localVars, historyVars, decoder, taken>>
        /\ accepting' => accepting
    BY <1>4 DEF ThreadExits, Stop, StopReturns, vars, lifeVars, producerVars, takenVars
  <2> QED BY <1>1, <1>2, <2>1
<1>5. ASSUME Start \/ StartFails
      PROVE  NInv'
  <2>1. Reset
    BY <1>5 DEF Start, StartFails
  <2>2. /\ decoder' = FreshDecoder /\ pc' = "waiting" /\ failed' = FALSE
        /\ decoded' = <<>> /\ pendingSamples' = <<>> /\ delivered' = <<>>
        /\ base' = presented /\ taken' = presented /\ presented' = presented
    BY <2>1 DEF Reset, producerVars
  <2>3. InFlight' = <<>>
    BY <2>2 DEF InFlight
  <2>4. All' = <<>>
    <3>1. (<<>> \o <<>>) \o (<<>> \o <<>>) = <<>>
      OBVIOUS
    <3> QED BY <2>2, <2>3, <3>1 DEF All
  <2>5. /\ decoder'.pending = <<>> /\ decoder'.discarding = FALSE
        /\ Len(<<>>) = 0 /\ 1..0 = {}
    BY <2>2 DEF FreshDecoder
  <2>6. Edge(decoder, taken)' = base'
    BY <1>2, <2>2, <2>5 DEF Edge
  <2>7. Placed(decoder, taken)'
    BY <1>2, <2>2, <2>5, <2>6 DEF Placed
  <2>8. Rows(All, base, Edge(decoder, taken))'
    BY <2>4, <2>5 DEF Rows
  <2> QED BY <1>2, <2>2, <2>6, <2>7, <2>8 DEF NInv
<1> QED BY <1>3, <1>4, <1>5

-----------------------------------------------------------------------------
(***************************************************************************)
(* Theorems.                                                               *)
(***************************************************************************)

\* Through any overload the queue keeps its bounds, every byte is accounted for
\* once, and a gap is marked where bytes are missing and nowhere else.
THEOREM OverloadIsKept == Spec => []QueueKept
<1>1. QInv => QueueKept
  <2> SUFFICES ASSUME QInv PROVE QueueKept
      OBVIOUS
  <2>1. WithinBounds
    BY DEF QInv, Bounds, Batches, WithinBounds
  <2>2. HolesAreMarked
    <3>1. DOMAIN queue = 1..Len(queue)
      BY DEF QInv, Types
    <3> QED BY <3>1 DEF QInv, Marked, HolesAreMarked, Before, StartOf, EndOf
  <2> QED BY <2>1, <2>2 DEF QInv, QueueKept
<1> QED BY <1>1, QueueInvariant, PTL

\* The reports add up in every state.
THEOREM ReportInvariant == Spec => []DInv
<1>1. Init => DInv
  <2> SUFFICES ASSUME Init PROVE DInv
      OBVIOUS
  <2>1. \A f \in Numbers : NoReport[f] \in Int /\ NoReport[f] + 0 = NoReport[f]
    <3>1. \A f \in Numbers : NoReport[f] \in Int
      BY FreshTyped, ReportsAdd DEF FreshTypes
    <3> QED BY <3>1
  <2>2. SumTold
    BY <2>1 DEF Init, SumTold
  <2> QED BY <2>2 DEF Init, DInv, Drained
<1>2. QInv /\ DInv /\ [Next]_vars => DInv'
  BY ReportKept
<1> QED BY <1>1, <1>2, QueueInvariant, PTL DEF Spec

\* A worker that ends without a failed callback has delivered what it decoded
\* and reported what it counted.
THEOREM NothingIsLeft == Spec => []StopDrains
<1>1. QInv /\ DInv => StopDrains
  <2> SUFFICES ASSUME QInv, DInv, pc = "returned", ~failed
               PROVE  /\ queue = <<>> /\ decoded = <<>> /\ pendingSamples = <<>>
                      /\ told = Report(counters, decoder)
      BY DEF StopDrains
  <2>1. /\ shouldStop /\ decoded = <<>> /\ pendingSamples = <<>>
        /\ last = Report(counters, decoder) /\ SumTold
    BY DEF DInv, Drained
  <2>2. queue = <<>>
    BY <2>1 DEF QInv, Threads
  <2>3. told = last
    <3>1. told \in Reports /\ last \in Reports
      BY DEF QInv, Types
    <3>2. \A f \in Numbers : told[f] \in Int /\ told[f] + 0 = last[f]
      BY <2>1, <3>1, ReportsAdd DEF SumTold
    <3>3. \A f \in Numbers : told[f] = last[f]
      BY <3>2
    <3> QED BY <3>1, <3>3, ReportsAdd
  <2> QED BY <2>1, <2>2, <2>3
<1> QED BY <1>1, ReportInvariant, QueueInvariant, PTL

\* Every step keeps what was decoded and what is open.
LEMMA RowsKept ==
    ASSUME QInv, QInv', DInv, NInv, [Next]_vars
    PROVE  NInv'
<1>1. CASE ProducerStep
  BY <1>1, OtherRows DEF ProducerStep
<1>2. CASE TakeWork
  BY <1>2, TakeWorkRows
<1>3. CASE FinishStream
  BY <1>3, FinishStreamRows
<1>4. CASE \/ EmitFull \/ EmitRest \/ Flush \/ LastFlush \/ CallbackThrows
           \/ \E callsStop \in BOOLEAN : CallbackReturns(callsStop)
  BY <1>4, HandOverRows
<1>5. CASE Start \/ StartFails \/ ThreadExits \/ Stop \/ StopReturns \/ UNCHANGED vars
  BY <1>5, OtherRows
<1>6. CASE Idle
  BY <1>6, OtherRows DEF Idle
<1> QED BY <1>1, <1>2, <1>3, <1>4, <1>5, <1>6 DEF Next, RunStep

\* However the chunks are cut, lost and delayed, a sample is one whole line of
\* the input, and samples are delivered in its order.
THEOREM RowsAreWhole == Spec => []NeverSpliced
<1>1. Init => NInv
  <2> SUFFICES ASSUME Init PROVE NInv
      OBVIOUS
  <2>1. InFlight = <<>>
    BY DEF Init, InFlight
  <2>2. All = <<>>
    <3>1. (<<>> \o <<>>) \o (<<>> \o <<>>) = <<>>
      OBVIOUS
    <3> QED BY <2>1, <3>1 DEF Init, All
  <2>3. decoder.pending = <<>> /\ decoder.discarding = FALSE /\ Len(<<>>) = 0 /\ 1..0 = {}
    BY DEF Init, FreshDecoder
  <2>4. Edge(decoder, taken) = base
    <3>1. Len(decoder.pending) = 0
      BY <2>3
    <3> QED BY <3>1 DEF Init, Edge
  <2>5. Placed(decoder, taken)
    BY <2>3, <2>4 DEF Init, Placed
  <2>6. Rows(All, base, Edge(decoder, taken))
    BY <2>2, <2>3 DEF Rows
  <2> QED BY <2>4, <2>5, <2>6 DEF Init, NInv
<1>2. QInv /\ QInv' /\ DInv /\ NInv /\ [Next]_vars => NInv'
  BY RowsKept
<1>3. QInv /\ NInv => NeverSpliced
  <2> SUFFICES ASSUME QInv, NInv PROVE NeverSpliced
      OBVIOUS
  <2> DEFINE n == Len(delivered)
             a == All
  <2>1. /\ delivered \in Seq(Sample) /\ n \in Nat /\ DOMAIN delivered = 1..n
        /\ a \in Seq(Sample) /\ Len(a) \in Nat /\ n <= Len(a)
        /\ \A i \in 1..n : delivered[i] = a[i] /\ delivered[i] \in Sample
    <3> DEFINE d == delivered
               f == InFlight
               r == pendingSamples \o decoded
    <3>1. d \in Seq(Sample) /\ f \in Seq(Sample) /\ r \in Seq(Sample)
      BY AllTyped, ConcatProperties DEF QInv
    <3>2. a = (d \o f) \o r
      BY DEF All
    <3> HIDE DEF d, f, r, a
    <3>3. /\ d \o f \in Seq(Sample) /\ Len(d) \in Nat /\ Len(f) \in Nat
          /\ Len(d \o f) = Len(d) + Len(f)
          /\ \A i \in 1..Len(d) : (d \o f)[i] = d[i]
      BY <3>1, ConcatProperties
    <3>4. /\ a \in Seq(Sample) /\ Len(r) \in Nat /\ Len(a) = (Len(d) + Len(f)) + Len(r)
          /\ \A i \in 1..(Len(d) + Len(f)) : a[i] = (d \o f)[i]
      BY <3>1, <3>2, <3>3, ConcatProperties
    <3>5. \A i \in 1..Len(d) : d[i] = a[i] /\ d[i] \in Sample
      <4> TAKE i \in 1..Len(d)
      <4>1. i \in 1..(Len(d) + Len(f))
        BY <3>3
      <4> QED BY <3>1, <3>3, <3>4, <4>1
    <3>6. DOMAIN d = 1..Len(d) /\ Len(a) \in Nat /\ Len(d) <= Len(a)
      BY <3>1, <3>3, <3>4
    <3> QED BY <3>1, <3>3, <3>4, <3>5, <3>6 DEF d
  <2> DEFINE hi == Edge(decoder, taken)
  <2>2. Rows(a, base, hi)
    BY DEF NInv
  <2>3. /\ presented \in Nat /\ Len(stream) \in Nat /\ presented <= Len(stream)
    BY DEF QInv, Types
  <2> HIDE DEF n, a, hi
  <2>4. \A i \in 1..n : RowOK(delivered[i])
    <3>1. \A i \in 1..n : i \in 1..Len(a)
      BY <2>1
    <3> QED BY <2>1, <2>2, <3>1 DEF Rows
  <2>5. ASSUME NEW s \in Sample, RowOK(s) PROVE WholeLine(s)
    <3>1. /\ FirstOf(s) \in Nat /\ LastOf(s) \in Nat /\ s \in Seq(Nat) /\ DOMAIN s = 1..Len(s)
      BY <2>5, RowEnds DEF Sample
    <3>2. \A i \in DOMAIN s : s[i] = FirstOf(s) + i - 1
      BY <2>5, <3>1 DEF RowOK
    <3>3. FirstOf(s) = base + 1 \/ stream[FirstOf(s) - 1] = "newline"
      BY <2>5 DEF RowOK
    <3>4. CASE LastOf(s) < presented /\ stream[LastOf(s) + 1] = "newline"
      <4>1. LastOf(s) < Len(stream)
        BY <2>3, <3>1, <3>4
      <4> QED BY <3>2, <3>3, <3>4, <4>1 DEF WholeLine, FirstOf, LastOf
    <3>5. CASE LastOf(s) = presented /\ ~accepting
      <4>1. ~(LastOf(s) < presented)
        BY <2>3, <3>5
      <4> QED BY <3>2, <3>3, <3>5, <4>1 DEF WholeLine, FirstOf, LastOf
    <3> QED BY <2>5, <3>4, <3>5 DEF RowOK
  <2>6. \A i \in DOMAIN delivered : WholeLine(delivered[i])
    BY <2>1, <2>4, <2>5
  <2>7. \A i \in 1..(n - 1) : delivered[i][Len(delivered[i])] < delivered[i + 1][1]
    <3> TAKE i \in 1..(n - 1)
    <3>1. i \in 1..n /\ i + 1 \in 1..n /\ i \in 1..Len(a) /\ i + 1 \in 1..Len(a) /\ i < i + 1
      BY <2>1
    <3>2. LastOf(a[i]) < FirstOf(a[i + 1])
      BY <2>2, <3>1 DEF Rows
    <3> QED BY <2>1, <3>1, <3>2 DEF FirstOf, LastOf
  <2> QED BY <2>6, <2>7 DEF NeverSpliced, n
<1>4. Spec => []DInv
  BY ReportInvariant
<1> QED BY <1>1, <1>2, <1>3, <1>4, QueueInvariant, PTL DEF Spec

=============================================================================
