-------------------------- MODULE TableMirrorProofs --------------------------
(***************************************************************************)
(* What holds of TableMirror for every set of positions, chunk size, set   *)
(* of threads and set of faults: its state is of its type.  With one       *)
(* pusher, tables of one chunk and nothing opened before the restore, a    *)
(* restored table holds every open position that is mirrored, and no push  *)
(* takes one out of the mirror.                                            *)
(***************************************************************************)
EXTENDS TableMirror, Integers, SequenceTheorems, FiniteSetTheorems, WellFoundedInduction, TLAPS

(***************************************************************************)
(* Contents, and what the program does to them.  Arguments by least        *)
(* counterexample stand in for induction.                                  *)
(***************************************************************************)
\* Every non-empty set of natural numbers has a least element.
LEMMA LeastNumber == ASSUME NEW T \in SUBSET Nat, T # {} PROVE \E m \in T : \A k \in T : m <= k
<1>1. PICK R : IsWellFoundedOn(R, Nat) /\ \A x, y \in Nat : <<y, x>> \in R <=> y < x
  <2>1. IsWellFoundedOn(OpToRel(<, Nat), Nat)
    BY NatLessThanWellFounded
  <2>2. \A x, y \in Nat : <<y, x>> \in OpToRel(<, Nat) <=> y < x
    BY DEF OpToRel
  <2> QED BY <2>1, <2>2, Zenon
<1>2. PICK m \in T : \A k \in T : ~(<<k, m>> \in R)
  BY <1>1, WFMin
<1>3. \A k \in T : m \in Nat /\ k \in Nat /\ ~(k < m)
  BY <1>1, <1>2
<1>4. \A k \in T : m <= k
  BY <1>3
<1> QED BY <1>4

\* The sizes the constants give.
LEMMA Sizes == /\ Cardinality(Positions) \in Nat /\ ChunkRows \in Nat \ {0}
               /\ IsFiniteSet(Positions) /\ NoMeta = Cardinality(Positions) + 1
BY PositionsAssumption, FS_CardinalityType DEF NoMeta

\* A content is a sequence without repetitions: it is no longer than there are positions.
LEMMA ContentsAre ==
    \A c : c \in Contents <=> c \in Seq(Positions) /\ IsInjective(c)
<1> TAKE c
<1>1. ASSUME c \in Contents PROVE c \in Seq(Positions) /\ IsInjective(c)
  <2>1. PICK m \in 0..Cardinality(Positions) : c \in [1..m -> Positions]
    BY <1>1 DEF Contents, SeqOf
  <2>2. m \in Nat
    BY Sizes
  <2> QED BY <1>1, <2>1, <2>2, SeqDef DEF Contents
<1>2. ASSUME c \in Seq(Positions), IsInjective(c) PROVE c \in Contents
  <2>1. c \in [1..Len(c) -> Positions] /\ Len(c) \in Nat
    BY <1>2
  <2>2. c \in Injection(1..Len(c), Positions)
    BY <1>2, <2>1 DEF Injection
  <2>3. Cardinality(1..Len(c)) <= Cardinality(Positions)
    BY <2>2, Sizes, FS_Injection
  <2>4. Cardinality(1..Len(c)) = Len(c)
    <3>1. Len(c) \in Int /\ Cardinality(1..Len(c)) = IF 1 > Len(c) THEN 0 ELSE Len(c) - 1 + 1
      BY <2>1, FS_Interval
    <3> QED BY <2>1, <3>1
  <2>5. Len(c) \in 0..Cardinality(Positions)
    BY <2>1, <2>3, <2>4, Sizes
  <2> QED BY <1>2, <2>1, <2>5 DEF Contents, SeqOf
<1> QED BY <1>1, <1>2

\* The length of a content.
LEMMA ContentsLen == \A c \in Contents : Len(c) \in 0..Cardinality(Positions)
BY Sizes DEF Contents, SeqOf

\* The rows of a sequence are its elements.
LEMMA RangeIs == \A c \in Seq(Positions) : \A p : p \in Range(c) <=> \E i \in 1..Len(c) : c[i] = p
BY DEF Range

\* Appending a row that is not there keeps a content a content.
LEMMA AppendRow ==
    ASSUME NEW c \in Contents, NEW p \in Positions, p \notin Range(c)
    PROVE  Append(c, p) \in Contents /\ Range(Append(c, p)) = Range(c) \cup {p}
<1>1. c \in Seq(Positions) /\ IsInjective(c)
  BY ContentsAre
<1> DEFINE a == Append(c, p)
<1>2. /\ a \in Seq(Positions) /\ Len(a) = Len(c) + 1 /\ Len(c) \in Nat
      /\ \A i \in 1..Len(c) : a[i] = c[i]
      /\ a[Len(c) + 1] = p
  BY <1>1, AppendProperties, LenProperties
<1> HIDE DEF a
<1>3. \A i \in 1..Len(c) : c[i] # p
  BY <1>1 DEF Range
<1>4. IsInjective(a)
  <2>1. \A i \in 1..Len(a) : i = Len(c) + 1 \/ i \in 1..Len(c)
    BY <1>2
  <2>2. \A i, j \in 1..Len(c) : c[i] = c[j] => i = j
    BY <1>1 DEF IsInjective
  <2>3. DOMAIN a = 1..Len(a)
    BY <1>2
  <2>4. ASSUME NEW i \in 1..Len(a), NEW j \in 1..Len(a), a[i] = a[j] PROVE i = j
    BY <2>1, <2>2, <2>4, <1>2, <1>3
  <2> QED BY <2>3, <2>4 DEF IsInjective
<1>5. Range(a) = Range(c) \cup {p}
  <2>1. \A q : q \in Range(a) <=> \E i \in 1..Len(a) : a[i] = q
    BY <1>2, RangeIs
  <2>2. \A q : q \in Range(c) <=> \E i \in 1..Len(c) : c[i] = q
    BY <1>1, RangeIs
  <2>3. \A i : i \in 1..Len(a) <=> i = Len(c) + 1 \/ i \in 1..Len(c)
    BY <1>2
  <2> QED BY <2>1, <2>2, <2>3, <1>2
<1> QED BY <1>2, <1>4, <1>5, ContentsAre DEF a

\* RemoveFirst takes out the one row of a position and leaves the others.
LEMMA RemoveRow ==
    ASSUME NEW c \in Contents, NEW p \in Positions
    PROVE  RemoveFirst(c, p) \in Contents /\ Range(RemoveFirst(c, p)) = Range(c) \ {p}
<1>1. c \in Seq(Positions) /\ IsInjective(c) /\ Len(c) \in Nat /\ DOMAIN c = 1..Len(c)
  BY ContentsAre
<1>2. CASE ~\E i \in 1..Len(c) : c[i] = p
  <2>1. RemoveFirst(c, p) = c
    BY <1>2 DEF RemoveFirst
  <2> QED BY <1>1, <1>2, <2>1 DEF Range
<1>3. CASE \E i \in 1..Len(c) : c[i] = p
  <2> DEFINE I == {i \in 1..Len(c) : c[i] = p}
  <2>1. PICK k \in 1..Len(c) : c[k] = p
    BY <1>3
  <2>2. I = {k}
    BY <1>1, <2>1 DEF IsInjective
  <2>3. Min({k}) = k
    BY <2>1 DEF Min
  <2>4. SelectInSeq(c, LAMBDA v : v = p) = k
    BY <2>1, <2>2, <2>3 DEF SelectInSeq
  <2> DEFINE l == SubSeq(c, 1, k - 1)
             r == SubSeq(c, k + 1, Len(c))
             d == l \o r
  <2>5. RemoveFirst(c, p) = d
    BY <1>3, <2>4 DEF RemoveFirst, RemoveAt
  <2>6. /\ l \in Seq(Positions) /\ Len(l) = k - 1
        /\ \A i \in 1..k-1 : l[i] = c[i]
    <3>1. \A i \in 1..k-1 : c[i] \in Positions
      BY <1>1, <2>1
    <3>2. /\ l \in Seq(Positions)
          /\ Len(l) = IF 1 <= k-1 THEN k-1-1+1 ELSE 0
          /\ \A i \in 1..(k-1)-1+1 : l[i] = c[1+i-1]
      BY <3>1, <2>1, SubSeqProperties
    <3> HIDE DEF l
    <3> QED BY <3>2, <2>1
  <2>7. /\ r \in Seq(Positions) /\ Len(r) = Len(c) - k
        /\ \A i \in 1..Len(c)-k : r[i] = c[k + i]
    <3>1. \A i \in k+1..Len(c) : c[i] \in Positions
      BY <1>1, <2>1
    <3>2. /\ r \in Seq(Positions)
          /\ Len(r) = IF k+1 <= Len(c) THEN Len(c)-(k+1)+1 ELSE 0
          /\ \A i \in 1..Len(c)-(k+1)+1 : r[i] = c[(k+1)+i-1]
      BY <1>1, <3>1, <2>1, SubSeqProperties
    <3> HIDE DEF r
    <3>3. Len(r) = Len(c) - k
      <4>1. \A n \in Nat : \A j \in 1..n : (IF j+1 <= n THEN n-(j+1)+1 ELSE 0) = n - j
        OBVIOUS
      <4> QED BY <1>1, <2>1, <3>2, <4>1
    <3>4. ASSUME NEW i \in 1..Len(c)-k PROVE r[i] = c[k + i]
      <4>1. i \in 1..Len(c)-(k+1)+1 /\ (k+1)+i-1 = k + i
        BY <1>1, <2>1
      <4> QED BY <3>2, <4>1
    <3> QED BY <3>2, <3>3, <3>4
  <2> HIDE DEF l, r
  <2>8. d \in Seq(Positions) /\ Len(d) = Len(c) - 1
        /\ \A i \in 1..Len(c)-1 : d[i] = IF i < k THEN c[i] ELSE c[i + 1]
    <3>1. /\ d \in Seq(Positions) /\ Len(d) = Len(l) + Len(r)
          /\ \A i \in 1..Len(l)+Len(r) : d[i] = IF i <= Len(l) THEN l[i] ELSE r[i - Len(l)]
      BY <2>6, <2>7, ConcatProperties
    <3> HIDE DEF d
    <3>2. \A i \in 1..Len(c)-1 : i >= k => r[i - (k - 1)] = c[i + 1]
      BY <1>1, <2>1, <2>7
    <3>3. Len(l) + Len(r) = Len(c) - 1
      BY <1>1, <2>1, <2>6, <2>7
    <3>4. ASSUME NEW i \in 1..Len(c)-1 PROVE d[i] = IF i < k THEN c[i] ELSE c[i + 1]
      <4>1. d[i] = IF i <= k - 1 THEN l[i] ELSE r[i - (k - 1)]
        BY <2>6, <3>1, <3>3
      <4>2. i < k => i \in 1..k-1 /\ l[i] = c[i]
        BY <2>1, <2>6
      <4> QED BY <2>1, <3>2, <4>1, <4>2
    <3> QED BY <3>1, <3>3, <3>4
  <2> HIDE DEF d
  <2>9. IsInjective(d)
    <3>1. \A i, j \in 1..Len(c) : c[i] = c[j] => i = j
      BY <1>1 DEF IsInjective
    <3>2. ASSUME NEW i \in 1..Len(c)-1, NEW j \in 1..Len(c)-1, d[i] = d[j] PROVE i = j
      BY <1>1, <2>1, <2>8, <3>1, <3>2
    <3> QED BY <2>8, <3>2 DEF IsInjective
  <2>10. Range(d) = Range(c) \ {p}
    <3>1. \A q : q \in Range(d) <=> \E i \in 1..Len(c)-1 : d[i] = q
      BY <2>8, RangeIs
    <3>2. \A q : q \in Range(c) <=> \E i \in 1..Len(c) : c[i] = q
      BY <1>1, RangeIs
    <3>3. \A i, j \in 1..Len(c) : c[i] = c[j] => i = j
      BY <1>1 DEF IsInjective
    <3>4. ASSUME NEW q \in Range(d) PROVE q \in Range(c) \ {p}
      BY <1>1, <2>1, <2>8, <3>1, <3>2, <3>3
    <3>5. ASSUME NEW q \in Range(c), q # p PROVE q \in Range(d)
      <4>1. PICK i \in 1..Len(c) : c[i] = q
        BY <3>2
      <4>2. i # k
        BY <2>1, <3>5, <4>1
      <4>3. CASE i < k
        <5>1. i \in 1..Len(c)-1 /\ d[i] = q
          BY <1>1, <2>1, <2>8, <4>1, <4>3
        <5> QED BY <5>1, <3>1
      <4>4. CASE i > k
        <5>1. i - 1 \in 1..Len(c)-1 /\ d[i-1] = q
          BY <1>1, <2>1, <2>8, <4>1, <4>4
        <5> QED BY <5>1, <3>1
      <4> QED BY <2>1, <4>1, <4>2, <4>3, <4>4
    <3> QED BY <3>4, <3>5
  <2> QED BY <2>5, <2>8, <2>9, <2>10, ContentsAre
<1> QED BY <1>2, <1>3

\* INSERT OR REPLACE of one row.
LEMMA InsertRow ==
    ASSUME NEW c \in Contents, NEW p \in Positions
    PROVE  Insert(c, p) \in Contents /\ Range(Insert(c, p)) = Range(c) \cup {p}
<1>1. RemoveFirst(c, p) \in Contents /\ Range(RemoveFirst(c, p)) = Range(c) \ {p}
  BY RemoveRow
<1>2. /\ Append(RemoveFirst(c, p), p) \in Contents
      /\ Range(Append(RemoveFirst(c, p), p)) = Range(RemoveFirst(c, p)) \cup {p}
  BY <1>1, AppendRow
<1> QED BY <1>1, <1>2 DEF Insert

\* The highest index of a non-empty set of them, and what is left below it.
LEMMA MaxIndex ==
    ASSUME NEW n \in Nat, NEW x \in SUBSET (1..n), x # {}
    PROVE  Max(x) \in x /\ n # 0 /\ x \ {Max(x)} \in SUBSET (1..(n - 1))
<1> DEFINE T == {n - j : j \in x}
<1>0. \A j \in x : j \in Nat /\ j # 0 /\ j <= n
  OBVIOUS
<1>1. T \in SUBSET Nat /\ T # {}
  <2>1. \A j \in x : n - j \in Nat
    BY <1>0
  <2> QED BY <2>1
<1>2. PICK m \in T : \A k \in T : m <= k
  <2> HIDE DEF T
  <2> QED BY <1>1, LeastNumber
<1>3. PICK j \in x : m = n - j
  BY <1>2
<1>4. \A y \in x : j >= y
  <2> TAKE y \in x
  <2>1. n - j <= n - y
    BY <1>2, <1>3
  <2> QED BY <1>0, <2>1
<1>5. \E z \in x : \A y \in x : z >= y
  BY <1>4
<1>6. Max(x) \in x /\ \A y \in x : Max(x) >= y
  BY <1>5 DEF Max
<1> DEFINE h == Max(x)
<1> HIDE DEF h
<1>7. \A y \in x \ {h} : y \in 1..(n - 1)
  <2> TAKE y \in x \ {h}
  <2>1. h \in x /\ y \in x /\ y # h /\ h >= y
    BY <1>6 DEF h
  <2> QED BY <1>0, <2>1
<1>8. n # 0
  BY <1>0, <1>3
<1> QED BY <1>6, <1>7, <1>8 DEF h

\* f[x] is what inserting the rows of s at the indices in x, lowest first, makes of c.
Inserted(f, c, s) ==
    f = [x \in SUBSET (DOMAIN s) |->
            IF x = {} THEN c ELSE Insert(f[x \ {Max(x)}], s[Max(x)])]

\* The recursion that FoldLeft is defined by has a solution: by least index up to which none has.
LEMMA InsertedExists == ASSUME NEW c, NEW s \in Seq(Positions) PROVE \E f : Inserted(f, c, s)
<1> DEFINE D == DOMAIN s
           body(f, x) == IF x = {} THEN c ELSE Insert(f[x \ {Max(x)}], s[Max(x)])
           UpTo(f, k) == /\ f = [x \in SUBSET D |-> f[x]]
                         /\ \A x \in SUBSET D : x \subseteq 1..k => f[x] = body(f, x)
           T == {k \in Nat : ~\E f : UpTo(f, k)}
<1>0. Len(s) \in Nat /\ D = 1..Len(s)
  OBVIOUS
<1> HIDE DEF D
<1>1. T = {}
  <2> SUFFICES ASSUME T # {} PROVE FALSE
    OBVIOUS
  <2>1. PICK m \in T : \A k \in T : m <= k
    <3> T \in SUBSET Nat
      OBVIOUS
    <3> HIDE DEF T
    <3> QED BY LeastNumber
  <2>2. CASE m = 0
    <3> DEFINE g == [x \in SUBSET D |-> c]
    <3>1. \A x \in SUBSET D : x \subseteq 1..0 => x = {}
      OBVIOUS
    <3>2. UpTo(g, 0)
      BY <3>1
    <3> QED BY <2>1, <2>2, <3>2
  <2>3. CASE m # 0
    <3>0. m \in Nat
      OBVIOUS
    <3>1. m \in Nat /\ m - 1 \in Nat /\ m - 1 \notin T
      <4> HIDE DEF T
      <4>1. m - 1 \in Nat /\ ~(m <= m - 1)
        BY <2>3, <3>0
      <4> QED BY <2>1, <3>0, <4>1
    <3>2. PICK f : UpTo(f, m - 1)
      BY <3>1
    <3> DEFINE g == [x \in SUBSET D |-> IF x \subseteq 1..(m - 1) THEN f[x] ELSE body(f, x)]
    <3>3. ASSUME NEW x \in SUBSET D, x \subseteq 1..m PROVE g[x] = body(g, x)
      <4>1. CASE x = {}
        BY <3>2, <4>1
      <4>2. CASE x # {}
        <5> DEFINE r == x \ {Max(x)}
        <5>1. r \in SUBSET D /\ r \subseteq 1..(m - 1)
          BY <3>0, <3>3, <4>2, MaxIndex
        <5>2. g[r] = f[r]
          BY <5>1
        <5>3. g[x] = body(f, x)
          BY <3>2
        <5> QED BY <4>2, <5>2, <5>3
      <4> QED BY <4>1, <4>2
    <3>4. UpTo(g, m)
      BY <3>3
    <3> QED BY <2>1, <3>4
  <2> QED BY <2>2, <2>3
<1>2. PICK f : UpTo(f, Len(s))
  BY <1>0, <1>1
<1>3. \A x \in SUBSET D : f[x] = body(f, x)
  BY <1>0, <1>2
<1>4. f = [x \in SUBSET D |-> body(f, x)]
  BY <1>2, <1>3
<1> QED BY <1>4 DEF Inserted, D

\* Every solution is a content with the rows of c and those of s at the indices in x.
LEMMA InsertedRows ==
    ASSUME NEW c \in Contents, NEW s \in Seq(Positions), NEW f, Inserted(f, c, s)
    PROVE  \A x \in SUBSET (DOMAIN s) :
              f[x] \in Contents /\ Range(f[x]) = Range(c) \cup {s[i] : i \in x}
<1> DEFINE Good(x) == f[x] \in Contents /\ Range(f[x]) = Range(c) \cup {s[i] : i \in x}
           T == {k \in Nat : \E x \in SUBSET (DOMAIN s) : x \subseteq 1..k /\ ~Good(x)}
<1>0. Len(s) \in Nat /\ DOMAIN s = 1..Len(s) /\ \A i \in 1..Len(s) : s[i] \in Positions
  OBVIOUS
<1>1. T = {}
  <2> SUFFICES ASSUME T # {} PROVE FALSE
    OBVIOUS
  <2>1. PICK m \in T : \A k \in T : m <= k
    <3> T \in SUBSET Nat
      OBVIOUS
    <3> HIDE DEF T
    <3> QED BY LeastNumber
  <2>2. PICK x \in SUBSET (DOMAIN s) : x \subseteq 1..m /\ ~Good(x)
    BY <2>1
  <2>3. x # {}
    <3>1. f[{}] = c
      BY DEF Inserted
    <3> QED BY <2>2, <3>1
  <2> DEFINE r == x \ {Max(x)}
  <2>4. m \in Nat /\ m # 0 /\ Max(x) \in x /\ r \in SUBSET (1..(m - 1))
    <3>1. m \in Nat
      BY <2>1
    <3> QED BY <2>2, <2>3, <3>1, MaxIndex
  <2>5. m - 1 \notin T
    <3> HIDE DEF T
    <3>1. m - 1 \in Nat /\ ~(m <= m - 1)
      BY <2>4
    <3> QED BY <2>1, <3>1
  <2>6. Good(r)
    <3>1. m - 1 \in Nat /\ r \in SUBSET (DOMAIN s)
      BY <2>4
    <3> QED BY <2>4, <2>5, <3>1
  <2>7. f[x] = Insert(f[r], s[Max(x)])
    BY <2>3 DEF Inserted
  <2>8. s[Max(x)] \in Positions
    BY <1>0, <2>4
  <2>9. f[x] \in Contents /\ Range(f[x]) = Range(f[r]) \cup {s[Max(x)]}
    <3>1. f[r] \in Contents
      BY <2>6
    <3> HIDE DEF r, Good, T
    <3> QED BY <2>7, <2>8, <3>1, InsertRow
  <2>10. {s[i] : i \in x} = {s[i] : i \in r} \cup {s[Max(x)]}
    BY <2>4
  <2> QED BY <2>2, <2>6, <2>9, <2>10
<1> QED BY <1>0, <1>1

\* INSERT OR REPLACE of the rows of s one after the other: no position twice, none lost.
LEMMA RestoredRows ==
    ASSUME NEW c \in Contents, NEW s \in Seq(Positions)
    PROVE  /\ FoldLeft(Insert, c, s) \in Contents
           /\ Range(FoldLeft(Insert, c, s)) = Range(c) \cup Range(s)
<1> DEFINE P(f) == f = [x \in SUBSET (DOMAIN s) |->
                          IF x = {} THEN c ELSE Insert(f[x \ {Max(x)}], s[Max(x)])]
<1>0. \A f : Inserted(f, c, s) <=> P(f)
  BY DEF Inserted
<1>1. \E f : P(f)
  <2>1. PICK f : Inserted(f, c, s)
    BY InsertedExists
  <2> HIDE DEF P
  <2> QED BY <1>0, <2>1
<1>2. P(CHOOSE f : P(f))
  BY <1>1
<1>3. FoldLeft(Insert, c, s) = (CHOOSE f : P(f))[DOMAIN s]
  BY DEF FoldLeft, MapThenFoldSet
<1>4. PICK f : Inserted(f, c, s) /\ FoldLeft(Insert, c, s) = f[DOMAIN s]
  <2> HIDE DEF P
  <2> QED BY <1>0, <1>2, <1>3
<1>5. f[DOMAIN s] \in Contents /\ Range(f[DOMAIN s]) = Range(c) \cup {s[i] : i \in DOMAIN s}
  BY <1>4, InsertedRows
<1> QED BY <1>4, <1>5 DEF Range

\* f[i] is the first i sequences of q, one after the other.
Joined(f, q) ==
    f = [i \in 1..Len(q) |-> IF i = 1 THEN q[i] ELSE f[i - 1] \o q[i]]

\* The recursion that FlattenSeq is defined by has a solution.
LEMMA JoinedExists == ASSUME NEW q, Len(q) \in Nat PROVE \E f : Joined(f, q)
<1> DEFINE D == 1..Len(q)
           body(f, i) == IF i = 1 THEN q[i] ELSE f[i - 1] \o q[i]
           UpTo(f, k) == f = [i \in D |-> f[i]] /\ \A i \in D : i <= k => f[i] = body(f, i)
           T == {k \in Nat : ~\E f : UpTo(f, k)}
<1>1. T = {}
  <2> SUFFICES ASSUME T # {} PROVE FALSE
    OBVIOUS
  <2>1. PICK m \in T : \A k \in T : m <= k
    <3> T \in SUBSET Nat
      OBVIOUS
    <3> HIDE DEF T
    <3> QED BY LeastNumber
  <2>2. CASE m = 0
    <3> DEFINE g == [i \in D |-> q[i]]
    <3>2. UpTo(g, 0)
      OBVIOUS
    <3> QED BY <2>1, <2>2, <3>2
  <2>3. CASE m # 0
    <3>0. m \in Nat
      OBVIOUS
    <3>1. m \in Nat /\ m - 1 \in Nat /\ m - 1 \notin T
      <4> HIDE DEF T
      <4>1. m - 1 \in Nat /\ ~(m <= m - 1)
        BY <2>3, <3>0
      <4> QED BY <2>1, <3>0, <4>1
    <3>2. PICK f : UpTo(f, m - 1)
      BY <3>1
    <3> DEFINE g == [i \in D |-> IF i <= m - 1 THEN f[i] ELSE body(f, i)]
    <3>3. ASSUME NEW i \in D, i <= m PROVE g[i] = body(g, i)
      <4>1. CASE i = 1
        BY <3>2, <4>1
      <4>2. CASE i # 1
        <5>1. i - 1 \in D /\ i - 1 <= m - 1
          BY <3>0, <3>3, <4>2
        <5>2. g[i - 1] = f[i - 1]
          BY <5>1
        <5>3. g[i] = body(f, i)
          BY <3>2
        <5> QED BY <4>2, <5>2, <5>3
      <4> QED BY <4>1, <4>2
    <3>4. UpTo(g, m)
      BY <3>3
    <3> QED BY <2>1, <3>4
  <2> QED BY <2>2, <2>3
<1>2. PICK f : UpTo(f, Len(q))
  BY <1>1
<1>3. \A i \in D : f[i] = body(f, i)
  <2>1. \A i \in D : i <= Len(q)
    OBVIOUS
  <2> QED BY <1>2, <2>1
<1>4. f = [i \in D |-> body(f, i)]
  BY <1>2, <1>3
<1> QED BY <1>4 DEF Joined

\* Every solution has the rows of the first i sequences.
LEMMA JoinedRows ==
    ASSUME NEW q \in Seq(Seq(Positions)), NEW f, Joined(f, q)
    PROVE  \A i \in 1..Len(q) :
              f[i] \in Seq(Positions) /\ Range(f[i]) = UNION {Range(q[j]) : j \in 1..i}
<1> DEFINE Good(i) == f[i] \in Seq(Positions) /\ Range(f[i]) = UNION {Range(q[j]) : j \in 1..i}
           T == {i \in 1..Len(q) : ~Good(i)}
<1>0. Len(q) \in Nat /\ \A i \in 1..Len(q) : q[i] \in Seq(Positions)
  BY LenProperties, ElementOfSeq
<1>1. T = {}
  <2> SUFFICES ASSUME T # {} PROVE FALSE
    OBVIOUS
  <2>1. PICK m \in T : \A k \in T : m <= k
    <3> T \in SUBSET Nat
      OBVIOUS
    <3> HIDE DEF T
    <3> QED BY LeastNumber
  <2>2. m \in 1..Len(q) /\ m \in Nat /\ ~Good(m) /\ q[m] \in Seq(Positions)
    BY <1>0, <2>1
  <2>3. CASE m = 1
    <3>1. f[1] = q[1]
      BY <2>2, <2>3 DEF Joined
    <3>2. UNION {Range(q[j]) : j \in 1..1} = Range(q[1])
      OBVIOUS
    <3> QED BY <2>2, <2>3, <3>1, <3>2
  <2>4. CASE m # 1
    <3>1. m - 1 \in 1..Len(q) /\ m - 1 \notin T
      <4> HIDE DEF T
      <4>1. m - 1 \in 1..Len(q) /\ ~(m <= m - 1)
        BY <1>0, <2>2, <2>4
      <4> QED BY <2>1, <4>1
    <3>2. Good(m - 1)
      BY <3>1
    <3>3. f[m] = f[m - 1] \o q[m]
      BY <2>2, <2>4 DEF Joined
    <3>4. f[m] \in Seq(Positions) /\ Range(f[m]) = Range(f[m - 1]) \cup Range(q[m])
      <4>1. f[m - 1] \in Seq(Positions)
        BY <3>2
      <4> HIDE DEF Good, T
      <4> QED BY <2>2, <3>3, <4>1, ConcatProperties, RangeConcatenation
    <3>5. \A j : j \in 1..m <=> j = m \/ j \in 1..(m - 1)
      BY <2>2
    <3>6. UNION {Range(q[j]) : j \in 1..m}
          = (UNION {Range(q[j]) : j \in 1..(m - 1)}) \cup Range(q[m])
      BY <3>5
    <3>7. Range(f[m - 1]) = UNION {Range(q[j]) : j \in 1..(m - 1)}
      BY <3>2
    <3> QED BY <2>2, <3>4, <3>6, <3>7
  <2> QED BY <2>3, <2>4
<1> QED BY <1>1

\* The text of several chunks has the rows of all of them and no other.
LEMMA JoinRows ==
    ASSUME NEW parts \in Seq(Chunk)
    PROVE  /\ Join(parts) \in Seq(Positions)
           /\ \A p : p \in Range(Join(parts)) <=>
                       \E i \in 1..Len(parts) : p \in Range(parts[i].rows)
<1> DEFINE q == [i \in DOMAIN parts |-> parts[i].rows]
           P(f) == f = [i \in 1..Len(q) |-> IF i = 1 THEN q[i] ELSE f[i - 1] \o q[i]]
<1>1. /\ q \in Seq(Seq(Positions)) /\ Len(q) = Len(parts) /\ Len(q) \in Nat
      /\ \A i \in 1..Len(parts) : q[i] = parts[i].rows
  <2>1. DOMAIN parts = 1..Len(parts) /\ Len(parts) \in Nat
    BY LenProperties
  <2>2. \A i \in 1..Len(parts) : parts[i].rows \in Seq(Positions)
    <3> TAKE i \in 1..Len(parts)
    <3>1. parts[i] \in Chunk
      BY ElementOfSeq
    <3>2. PICK m \in 0..ChunkRows : parts[i].rows \in [1..m -> Positions]
      BY <3>1 DEF Chunk, SeqOf
    <3>3. m \in Nat
      BY Sizes
    <3> QED BY <3>2, <3>3, SeqDef
  <2>3. q \in [1..Len(parts) -> Seq(Positions)]
    BY <2>1, <2>2
  <2>4. q \in Seq(Seq(Positions)) /\ DOMAIN q = 1..Len(parts)
    <3> HIDE DEF q
    <3> QED BY <2>1, <2>3, SeqDef
  <2>5. Len(q) = Len(parts)
    <3> HIDE DEF q
    <3> QED BY <2>1, <2>4, LenProperties
  <2> QED BY <2>1, <2>4, <2>5
<1> HIDE DEF q
<1>2. CASE Len(q) = 0
  <2>1. Join(parts) = q /\ q = <<>>
    BY <1>1, <1>2, EmptySeq DEF Join, FlattenSeq, q
  <2>2. Range(<<>>) = {}
    BY DEF Range
  <2>3. 1..Len(parts) = {}
    BY <1>1, <1>2
  <2> QED BY <2>1, <2>2, <2>3, EmptySeq
<1>3. CASE Len(q) # 0
  <2>0. \A f : Joined(f, q) <=> P(f)
    BY DEF Joined
  <2>1. \E f : P(f)
    <3>1. PICK f : Joined(f, q)
      BY <1>1, JoinedExists
    <3> HIDE DEF P
    <3> QED BY <2>0, <3>1
  <2>2. P(CHOOSE f : P(f))
    BY <2>1
  <2>3. Join(parts) = (CHOOSE f : P(f))[Len(q)]
    BY <1>3 DEF Join, FlattenSeq, q
  <2>4. PICK f : Joined(f, q) /\ Join(parts) = f[Len(q)]
    <3> HIDE DEF P
    <3> QED BY <2>0, <2>2, <2>3
  <2>5. Len(q) \in 1..Len(q)
    BY <1>1, <1>3
  <2>6. f[Len(q)] \in Seq(Positions) /\ Range(f[Len(q)]) = UNION {Range(q[j]) : j \in 1..Len(q)}
    BY <1>1, <2>4, <2>5, JoinedRows
  <2>7. \A p : p \in UNION {Range(q[j]) : j \in 1..Len(q)} <=>
                 \E i \in 1..Len(parts) : p \in Range(q[i])
    BY <1>1
  <2>8. \A i \in 1..Len(parts) : q[i] = parts[i].rows
    BY <1>1
  <2> HIDE DEF P
  <2> QED BY <2>4, <2>6, <2>7, <2>8
<1> QED BY <1>2, <1>3

\* The arithmetic of Cut: n is the number of chunks of d rows that len rows fill.
LEMMA Chunks ==
    ASSUME NEW len \in Nat, NEW d \in Nat \ {0}, NEW n, n = (len + d - 1) \div d
    PROVE  /\ n \in Nat /\ n <= len /\ len <= n * d /\ (n # 0 => (n - 1) * d < len)
<1>1. n \in Int /\ n * d <= len + d - 1 /\ len + d - 1 < n * d + d
  OBVIOUS
<1>2. n \in Nat
  BY <1>1
<1>3. n <= len
  BY <1>1
<1>4. len <= n * d /\ (n # 0 => (n - 1) * d < len)
  BY <1>1
<1> QED BY <1>2, <1>3, <1>4

\* The chunks of a content are chunks, no more of them than rows, and have no other rows.
LEMMA CutRows ==
    ASSUME NEW c \in Contents
    PROVE  /\ Cut(c) \in Seq(Chunk) /\ Len(Cut(c)) \in 0..Cardinality(Positions)
           /\ \A i \in 1..Len(Cut(c)) : Range(Cut(c)[i].rows) \subseteq Range(c)
<1> DEFINE len == Len(c)
           n == (len + ChunkRows - 1) \div ChunkRows
           upto(i) == IF i = n THEN len ELSE i * ChunkRows
           first(i) == (i - 1) * ChunkRows + 1
<1>1. c \in Seq(Positions) /\ len \in Nat /\ len <= Cardinality(Positions) /\ DOMAIN c = 1..len
  BY ContentsAre, ContentsLen, Sizes
<1>2. Cut(c) = [i \in 1..n |->
                  [rows |-> SubSeq(c, first(i), upto(i)), last |-> i = n, stored |-> TRUE]]
  BY DEF Cut
<1>3. n \in Nat /\ n <= len /\ len <= n * ChunkRows /\ (n # 0 => (n - 1) * ChunkRows < len)
  <2> HIDE DEF len
  <2> QED BY <1>1, Sizes, Chunks
<1> HIDE DEF len, n
<1>4. ASSUME NEW i \in 1..n
      PROVE  /\ first(i) \in Nat /\ first(i) >= 1 /\ upto(i) \in Nat /\ upto(i) <= len
             /\ upto(i) - first(i) + 1 \in 0..ChunkRows
  <2>1. CASE i = n
    <3>1. n # 0 /\ (n - 1) * ChunkRows \in Nat
      BY <1>3, <2>1, Sizes
    <3> DEFINE k == (n - 1) * ChunkRows
    <3>2. k \in Nat /\ k < len /\ len <= k + ChunkRows
      BY <1>1, <1>3, <3>1, Sizes
    <3>3. first(i) = k + 1 /\ upto(i) = len
      BY <2>1
    <3> HIDE DEF k
    <3> QED BY <1>1, <3>2, <3>3, Sizes
  <2>2. CASE i # n
    <3> DEFINE k == (i - 1) * ChunkRows
    <3>1. k \in Nat /\ i * ChunkRows = k + ChunkRows
      BY Sizes
    <3>2. i <= n - 1 /\ n - 1 \in Nat /\ i \in Nat
      BY <1>3, <2>2
    <3>3. i * ChunkRows <= (n - 1) * ChunkRows
      BY <3>2, Sizes
    <3>4. k + ChunkRows <= len
      <4>1. (n - 1) * ChunkRows < len
        BY <1>3
      <4>2. (n - 1) * ChunkRows \in Nat
        BY <3>2, Sizes
      <4> QED BY <1>1, <3>1, <3>3, <4>1, <4>2, Sizes
    <3>5. first(i) = k + 1 /\ upto(i) = k + ChunkRows
      BY <2>2, <3>1
    <3> HIDE DEF k
    <3> QED BY <3>1, <3>4, <3>5, Sizes
  <2> QED BY <2>1, <2>2
<1>5. ASSUME NEW i \in 1..n
      PROVE  /\ SubSeq(c, first(i), upto(i)) \in SeqOf(Positions, ChunkRows)
             /\ Range(SubSeq(c, first(i), upto(i))) \subseteq Range(c)
  <2> DEFINE a == first(i)
             b == upto(i)
             s == SubSeq(c, a, b)
  <2>1. a \in Nat /\ a >= 1 /\ b \in Nat /\ b <= len /\ b - a + 1 \in 0..ChunkRows
    BY <1>4
  <2> HIDE DEF a, b
  <2>2. \A j \in a..b : j \in 1..len /\ c[j] \in Positions
    BY <1>1, <2>1
  <2>3. /\ s \in Seq(Positions) /\ Len(s) = (IF a <= b THEN b - a + 1 ELSE 0)
        /\ \A j \in 1..(b - a + 1) : s[j] = c[a + j - 1]
    BY <2>1, <2>2, SubSeqProperties
  <2> HIDE DEF s
  <2>4. Len(s) = b - a + 1 /\ Len(s) \in 0..ChunkRows
    BY <2>1, <2>3
  <2>5. s \in SeqOf(Positions, ChunkRows)
    <3>1. s \in [1..Len(s) -> Positions]
      BY <2>3, LenProperties
    <3> QED BY <2>4, <3>1 DEF SeqOf
  <2>6. ASSUME NEW p \in Range(s) PROVE p \in Range(c)
    <3>1. PICK j \in 1..Len(s) : s[j] = p
      BY <2>3, RangeIs
    <3>2. a + j - 1 \in a..b /\ s[j] = c[a + j - 1]
      BY <2>1, <2>3, <2>4
    <3> QED BY <1>1, <2>2, <3>1, <3>2, RangeIs
  <2> QED BY <2>5, <2>6 DEF s, a, b
<1>6. ASSUME NEW i \in 1..n
      PROVE  [rows |-> SubSeq(c, first(i), upto(i)), last |-> i = n, stored |-> TRUE] \in Chunk
  BY <1>5 DEF Chunk
<1>7. Cut(c) \in Seq(Chunk) /\ Len(Cut(c)) = n
  <2>1. Cut(c) \in [1..n -> Chunk]
    BY <1>2, <1>6
  <2>2. Cut(c) \in Seq(Chunk) /\ DOMAIN Cut(c) = 1..n
    BY <1>3, <2>1, SeqDef
  <2> QED BY <1>3, <2>2, LenProperties
<1>8. ASSUME NEW i \in 1..n PROVE Range(Cut(c)[i].rows) \subseteq Range(c)
  <2>1. Cut(c)[i].rows = SubSeq(c, first(i), upto(i))
    BY <1>2
  <2> QED BY <1>5, <2>1
<1>9. n \in 0..Cardinality(Positions)
  BY <1>1, <1>3, Sizes
<1> QED BY <1>7, <1>8, <1>9

\* A content that fits into one chunk is that chunk.
LEMMA CutOnce ==
    ASSUME ChunkRows >= Cardinality(Positions), NEW c \in Contents
    PROVE  /\ c = <<>> => Len(Cut(c)) = 0
           /\ c # <<>> => /\ Len(Cut(c)) = 1
                          /\ Cut(c)[1] = [rows |-> c, last |-> TRUE, stored |-> TRUE]
<1> DEFINE len == Len(c)
           n == (len + ChunkRows - 1) \div ChunkRows
<1>1. c \in Seq(Positions) /\ len \in Nat /\ len <= Cardinality(Positions)
  BY ContentsAre, ContentsLen, Sizes
<1>2. n \in Nat /\ n <= len /\ len <= n * ChunkRows /\ (n # 0 => (n - 1) * ChunkRows < len)
  <2> HIDE DEF len
  <2> QED BY <1>1, Sizes, Chunks
<1>3. Len(Cut(c)) = n
  <2>1. DOMAIN Cut(c) = 1..n
    BY DEF Cut
  <2>2. Cut(c) \in Seq(Chunk)
    BY CutRows
  <2> HIDE DEF n
  <2> QED BY <1>2, <2>1, <2>2, LenProperties
<1>4. CASE c = <<>>
  <2>1. len = 0
    BY <1>4, EmptySeq
  <2> HIDE DEF len, n
  <2> QED BY <1>2, <1>3, <1>4, <2>1
<1>5. CASE c # <<>>
  <2>1. len # 0
    BY <1>1, <1>5, EmptySeq
  <2>2. n = 1
    <3>1. n # 0
      <4> HIDE DEF len, n
      <4> QED BY <1>1, <1>2, <2>1, Sizes
    <3>2. (n - 1) * ChunkRows < ChunkRows
      <4>0. (n - 1) * ChunkRows < len /\ len <= ChunkRows
        <5> HIDE DEF len, n
        <5> QED BY <1>1, <1>2, <3>1, Sizes
      <4>1. (n - 1) * ChunkRows \in Nat
        <5> HIDE DEF len, n
        <5> QED BY <1>2, <3>1, Sizes
      <4> HIDE DEF len, n
      <4> QED BY <1>1, <4>0, <4>1, Sizes
    <3> HIDE DEF len, n
    <3>3. \A k \in Nat, d \in Nat \ {0} : k * d < d => k = 0
      OBVIOUS
    <3>4. n - 1 \in Nat
      BY <1>2, <3>1
    <3>5. n - 1 = 0
      BY <3>2, <3>3, <3>4, Sizes
    <3> QED BY <1>2, <3>5
  <2>3. Cut(c)[1] = [rows |-> SubSeq(c, (1 - 1) * ChunkRows + 1, Len(c)),
                     last |-> TRUE, stored |-> TRUE]
    <3>1. Cut(c) = [i \in 1..n |->
                      [rows |-> SubSeq(c, (i - 1) * ChunkRows + 1,
                                       IF i = n THEN len ELSE i * ChunkRows),
                       last |-> i = n, stored |-> TRUE]]
      BY DEF Cut
    <3>2. 1 \in 1..n
      BY <2>2
    <3> HIDE DEF n
    <3> QED BY <2>2, <3>1, <3>2
  <2>4. (1 - 1) * ChunkRows + 1 = 1
    BY Sizes
  <2>5. SubSeq(c, 1, Len(c)) = c
    BY <1>1, SubSeqFull
  <2> QED BY <1>3, <1>5, <2>2, <2>3, <2>4, <2>5
<1> QED BY <1>4, <1>5

-----------------------------------------------------------------------------
(***************************************************************************)
(* The type invariant.  A position enters the table once because it was    *)
(* never opened before: the invariant adds to the types that a new         *)
(* position is in no content, in the table, at Upstash or on the way.      *)
(***************************************************************************)
Pcs == {"idle", "meta", "read", "write", "record"}
Thread == [at : Pcs, rows : Contents, parts : Seq(Chunk), n : 0..Cardinality(Positions)]

Shared ==
    /\ status \in [Positions -> {"new", "open", "closed"}]
    /\ table \in Contents /\ pushed \in Contents \cup {NotPushed}
    /\ chunk \in [Ids -> Chunk] /\ meta \in 0..NoMeta
    /\ hydrated \in BOOLEAN /\ up \in BOOLEAN /\ faults \in 0..MaxFaults

\* A position that was never opened is in no content, wherever it is kept.
New == {p \in Positions : status[p] = "new"}
Apart(s) == \A p \in Range(s) : p \notin New
Good(r) == /\ r \in Thread /\ Len(r.parts) <= r.n
           /\ r.at \in {"idle", "meta"} => r.parts = <<>> /\ r.n = 0
           /\ Apart(r.rows) /\ \A j \in 1..Len(r.parts) : Apart(r.parts[j].rows)
GoodThreads == thread \in [Threads -> Thread] /\ \A t \in Threads : Good(thread[t])
GoodContents == Apart(table) /\ \A i \in Ids : Apart(chunk[i].rows)

IType == Shared /\ GoodContents /\ GoodThreads

\* The type invariant is a part of it.
LEMMA TypeFollows == IType => TypeOK
BY DEF IType, Shared, GoodThreads, Good, Thread, Pcs, TypeOK

\* The empty content.
LEMMA NoRows == /\ <<>> \in Contents /\ <<>> \in Seq(Chunk) /\ Len(<<>>) = 0
                /\ \A s : s = <<>> => Range(s) = {}
<1>1. <<>> \in Contents
  <2>1. <<>> \in Seq(Positions)
    BY EmptySeq
  <2>2. IsInjective(<<>>)
    BY DEF IsInjective
  <2> QED BY <2>1, <2>2, ContentsAre
<1> QED BY <1>1, EmptySeq DEF Range

\* A thread with no call in progress.
LEMMA IdleGood == Good(Idle)
BY NoRows, Sizes DEF Good, Idle, Thread, Pcs, Apart

\* The startup handler at its first step.
LEMMA BootGood == Good([Idle EXCEPT !.at = "meta"])
<1>1. [Idle EXCEPT !.at = "meta"] = [at |-> "meta", rows |-> <<>>, parts |-> <<>>, n |-> 0]
  BY DEF Idle
<1>2. Good([at |-> "meta", rows |-> <<>>, parts |-> <<>>, n |-> 0])
  BY NoRows, Sizes DEF Good, Thread, Pcs, Apart
<1> QED BY <1>1, <1>2

\* A new process.
LEMMA InitType == Init => IType
<1> SUFFICES ASSUME Init PROVE IType
  OBVIOUS
<1>1. NoChunk \in Chunk
  <2>1. <<>> \in [1..0 -> Positions] /\ 0 \in 0..ChunkRows
    BY Sizes
  <2> QED BY <2>1 DEF NoChunk, Chunk, SeqOf
<1>2. Shared
  <2>1. NoMeta \in 0..NoMeta /\ 0 \in 0..MaxFaults
    BY Sizes, FaultsAssumption
  <2>2. status \in [Positions -> {"new", "open", "closed"}] /\ chunk \in [Ids -> Chunk]
    BY <1>1 DEF Init
  <2> QED BY <2>1, <2>2, NoRows DEF Init, Shared
<1>3. GoodContents
  BY NoRows DEF Init, GoodContents, Apart, NoChunk
<1>4. GoodThreads
  <2>1. Good(Idle) => Idle \in Thread
    BY DEF Good
  <2>2. Good([Idle EXCEPT !.at = "meta"]) => [Idle EXCEPT !.at = "meta"] \in Thread
    BY DEF Good
  <2> QED BY <2>1, <2>2, IdleGood, BootGood DEF Init, Boot, GoodThreads
<1> QED BY <1>2, <1>3, <1>4 DEF IType

\* Only what was opened leaves New, and nothing comes to it.
Grows == New' \subseteq New

\* A step that gives one thread a new record keeps the others.
LEMMA OneThread ==
    ASSUME IType, Grows, NEW t \in Threads, NEW r, Good(r), thread' = [thread EXCEPT ![t] = r]
    PROVE  GoodThreads'
<1>1. \A u \in Threads : thread'[u] = IF u = t THEN r ELSE thread[u]
  BY DEF IType, GoodThreads
<1>2. Good(r)'
  BY DEF Good, Apart, Grows
<1>3. \A u \in Threads : Good(thread[u])'
  <2> TAKE u \in Threads
  <2>1. CASE u = t
    BY <1>1, <1>2, <2>1 DEF Good, Apart, New
  <2>2. CASE u # t
    BY <1>1, <2>2 DEF IType, GoodThreads, Good, Apart, Grows
  <2> QED BY <2>1, <2>2
<1>4. thread' \in [Threads -> Thread]
  BY DEF IType, GoodThreads, Good
<1> QED BY <1>3, <1>4 DEF GoodThreads

\* A step of no thread.
LEMMA NoThread == ASSUME IType, Grows, UNCHANGED thread PROVE GoodThreads'
BY DEF IType, GoodThreads, Good, Apart, Grows

\* A step that changes no content.
LEMMA SameContents == ASSUME IType, Grows, UNCHANGED <<table, chunk>> PROVE GoodContents'
BY DEF IType, GoodContents, Apart, Grows

\* A step that opens or closes nothing.
LEMMA SameStatus == ASSUME UNCHANGED status PROVE Grows
BY DEF Grows, New

\* The bound on the faults.
LEMMA Counted ==
    ASSUME IType, NoFault \/ \E k \in FaultKinds : Fault(k) PROVE faults' \in 0..MaxFaults
BY FaultsAssumption DEF IType, Shared, NoFault, Fault

\* What the invariant says of one thread.
LEMMA ThreadIs ==
    ASSUME IType, NEW t \in Threads
    PROVE  /\ thread[t] \in Thread /\ Len(thread[t].parts) <= thread[t].n
           /\ At(t, "idle") \/ At(t, "meta") => thread[t].parts = <<>> /\ thread[t].n = 0
           /\ Apart(thread[t].rows)
           /\ \A j \in 1..Len(thread[t].parts) : Apart(thread[t].parts[j].rows)
BY DEF IType, GoodThreads, Good, At

\* Another program counter.
LEMMA GoGood ==
    ASSUME IType, NEW t \in Threads, NEW pc \in Pcs, At(t, "idle") \/ pc \notin {"idle", "meta"}
    PROVE  Good([thread[t] EXCEPT !.at = pc])
BY ThreadIs DEF Good, Thread, At

\* The end of a call.
LEMMA DoneGood == ASSUME IType, Grows, NEW t \in Threads, Done(t) PROVE GoodThreads'
BY IdleGood, OneThread DEF Done

\* A step to another program counter.
LEMMA GoThreads ==
    ASSUME IType, Grows, NEW t \in Threads, NEW pc \in Pcs, Go(t, pc),
           At(t, "idle") \/ pc \notin {"idle", "meta"}
    PROVE  GoodThreads'
<1>1. thread' = [thread EXCEPT ![t] = [thread[t] EXCEPT !.at = pc]]
  BY DEF Go
<1> QED BY <1>1, GoGood, OneThread

\* Every step keeps the invariant: the program opens and closes positions,
LEMMA TypeOpen == ASSUME IType, NEW p \in Positions, Open(p) PROVE IType'
<1>1. status' = [status EXCEPT ![p] = "open"] /\ table' = Append(table, p) /\ p \in New
  BY DEF Open, New
<1>2. \A q : q \in New' => q \in New /\ q # p
  BY <1>1 DEF New, IType, Shared
<1>3. Grows
  BY <1>2 DEF Grows
<1>4. table' \in Contents /\ Range(table') = Range(table) \cup {p}
  BY <1>1, AppendRow DEF IType, Shared, GoodContents, Apart
<1>5. Shared'
  <2>1. faults' \in 0..MaxFaults
    BY Counted DEF Open, FaultKinds
  <2> QED BY <1>1, <1>4, <2>1 DEF Open, IType, Shared, remote
<1>6. GoodContents'
  BY <1>2, <1>4 DEF Open, remote, IType, GoodContents, Apart
<1>7. GoodThreads'
  BY <1>3, NoThread DEF Open
<1> QED BY <1>5, <1>6, <1>7 DEF IType

LEMMA TypeClose == ASSUME IType, NEW p \in Positions, Close(p) PROVE IType'
<1>1. status' = [status EXCEPT ![p] = "closed"] /\ table' = RemoveFirst(table, p)
  BY DEF Close
<1>2. Grows
  BY <1>1 DEF New, Grows, IType, Shared
<1>3. table' \in Contents /\ Range(table') = Range(table) \ {p}
  BY <1>1, RemoveRow DEF IType, Shared
<1>4. Shared'
  BY <1>1, <1>3 DEF Close, IType, Shared, remote
<1>5. GoodContents'
  BY <1>2, <1>3 DEF Close, remote, IType, GoodContents, Apart, Grows
<1>6. GoodThreads'
  BY <1>2, NoThread DEF Close
<1> QED BY <1>4, <1>5, <1>6 DEF IType

\* a restore reads and inserts,
LEMMA TypeReadMeta == ASSUME IType, NEW t \in Threads, ReadMeta(t) PROVE IType'
<1>0. Grows
  BY SameStatus DEF ReadMeta
<1>1. GoodContents'
  BY <1>0, SameContents DEF ReadMeta, remote
<1>2. Shared'
  <2>1. faults' \in 0..MaxFaults
    BY Counted DEF ReadMeta, FaultKinds
  <2>2. hydrated' \in BOOLEAN /\ up' \in BOOLEAN
    BY DEF ReadMeta, Done, IType, Shared
  <2> QED BY <2>1, <2>2 DEF ReadMeta, remote, IType, Shared
<1>3. GoodThreads'
  <2>1. CASE Done(t)
    BY <1>0, <2>1, DoneGood
  <2>2. CASE /\ meta # NoMeta /\ At(t, "meta")
             /\ thread' = [thread EXCEPT ![t].at = "read", ![t].n = meta]
    <3> DEFINE r == [thread[t] EXCEPT !.at = "read", !.n = meta]
    <3>1. thread' = [thread EXCEPT ![t] = r]
      BY <2>2
    <3>2. Good(r)
      <4>1. meta \in 0..Cardinality(Positions)
        BY <2>2, Sizes DEF IType, Shared
      <4>2. thread[t] \in Thread /\ thread[t].parts = <<>> /\ Apart(thread[t].rows)
        BY <2>2, ThreadIs
      <4>3. /\ r \in Thread /\ r.at = "read" /\ r.parts = <<>> /\ r.n = meta
            /\ r.rows = thread[t].rows
        BY <4>1, <4>2 DEF Thread, Pcs
      <4> HIDE DEF r
      <4> QED BY <4>1, <4>2, <4>3, NoRows DEF Good
    <3> HIDE DEF r
    <3> QED BY <1>0, <3>1, <3>2, OneThread
  <2> QED BY <2>1, <2>2 DEF ReadMeta
<1> QED BY <1>1, <1>2, <1>3 DEF IType

LEMMA TypeReadChunk == ASSUME IType, NEW t \in Threads, ReadChunk(t) PROVE IType'
<1>0. Grows
  BY SameStatus DEF ReadChunk
<1>1. GoodContents'
  BY <1>0, SameContents DEF ReadChunk, remote
<1>2. Shared'
  <2>1. faults' \in 0..MaxFaults
    BY Counted DEF ReadChunk, FaultKinds
  <2>2. up' \in BOOLEAN
    BY DEF ReadChunk, Done, IType, Shared
  <2> QED BY <2>1, <2>2 DEF ReadChunk, remote, IType, Shared
<1>3. GoodThreads'
  <2>1. CASE Done(t)
    BY <1>0, <2>1, DoneGood
  <2> DEFINE i == Len(thread[t].parts) + 1
  <2>2. CASE /\ At(t, "read") /\ i <= thread[t].n
             /\ thread' = [thread EXCEPT ![t].parts = Append(@, chunk[i])]
    <3> DEFINE r == [thread[t] EXCEPT !.parts = Append(thread[t].parts, chunk[i])]
    <3>1. thread' = [thread EXCEPT ![t] = r]
      BY <2>2
    <3>2. thread[t].parts \in Seq(Chunk) /\ Len(thread[t].parts) \in Nat /\ i \in Ids
      BY <2>2, ThreadIs, LenProperties, Sizes DEF Thread, Ids
    <3>3. chunk[i] \in Chunk /\ Apart(chunk[i].rows)
      BY <3>2 DEF IType, Shared, GoodContents
    <3> DEFINE ps == Append(thread[t].parts, chunk[i])
    <3>4. /\ ps \in Seq(Chunk) /\ Len(ps) = i
          /\ \A j \in 1..Len(thread[t].parts) : ps[j] = thread[t].parts[j]
          /\ ps[i] = chunk[i]
      BY <3>2, <3>3, AppendProperties
    <3> HIDE DEF ps
    <3>5. \A j \in 1..i : j = i \/ j \in 1..Len(thread[t].parts)
      BY <3>2
    <3>6. \A j \in 1..i : Apart(ps[j].rows)
      BY <3>3, <3>4, <3>5, ThreadIs
    <3>7. Good(r)
      BY <2>2, <3>4, <3>6, ThreadIs DEF Good, Thread, At, ps
    <3> HIDE DEF r
    <3> QED BY <1>0, <3>1, <3>7, OneThread
  <2> QED BY <2>1, <2>2 DEF ReadChunk
<1> QED BY <1>1, <1>2, <1>3 DEF IType

LEMMA TypeRestore == ASSUME IType, NEW t \in Threads, Restore(t) PROVE IType'
<1>0. Grows
  BY SameStatus DEF Restore
<1>1. GoodThreads'
  BY <1>0, DoneGood DEF Restore
<1> DEFINE parts == thread[t].parts
<1>2. parts \in Seq(Chunk) /\ \A j \in 1..Len(parts) : Apart(parts[j].rows)
  BY ThreadIs DEF Thread
<1>3. Join(parts) \in Seq(Positions) /\ Apart(Join(parts))
  BY <1>2, JoinRows DEF Apart
<1>4. table' \in Contents /\ Apart(table')
  <2>1. CASE Parses(parts)
    <3>1. table' = FoldLeft(Insert, table, Join(parts))
      BY <2>1 DEF Restore
    <3>2. /\ FoldLeft(Insert, table, Join(parts)) \in Contents
          /\ Range(FoldLeft(Insert, table, Join(parts))) = Range(table) \cup Range(Join(parts))
      BY <1>3, RestoredRows DEF IType, Shared
    <3> HIDE DEF parts
    <3> QED BY <1>3, <3>1, <3>2 DEF IType, GoodContents, Apart
  <2>2. CASE ~Parses(parts)
    BY <2>2 DEF Restore, IType, Shared, GoodContents
  <2> QED BY <2>1, <2>2
<1>5. Shared'
  <2>1. hydrated' \in BOOLEAN /\ up' \in BOOLEAN
    BY DEF Restore, Done, IType, Shared
  <2> QED BY <1>4, <2>1 DEF Restore, remote, IType, Shared
<1>6. GoodContents'
  BY <1>0, <1>4 DEF Restore, remote, IType, GoodContents, Apart, Grows
<1> QED BY <1>1, <1>5, <1>6 DEF IType

\* a push sends what the table had when it began,
LEMMA TypeSync == ASSUME IType, NEW t \in Threads, Sync(t) PROVE IType'
<1>0. Grows
  BY SameStatus DEF Sync
<1>1. GoodContents'
  BY <1>0, SameContents DEF Sync, remote
<1>2. Shared'
  BY DEF Sync, remote, IType, Shared
<1>3. GoodThreads'
  <2>1. CASE Go(t, "meta")
    BY <1>0, <2>1, GoThreads DEF Sync, Pcs
  <2>2. CASE At(t, "idle") /\ thread' = [thread EXCEPT ![t].at = "write", ![t].rows = table]
    <3> DEFINE r == [thread[t] EXCEPT !.at = "write", !.rows = table]
    <3>1. thread' = [thread EXCEPT ![t] = r]
      BY <2>2
    <3>2. thread[t] \in Thread /\ thread[t].parts = <<>> /\ Len(thread[t].parts) <= thread[t].n
      BY <2>2, ThreadIs
    <3>3. /\ r \in Thread /\ r.at = "write" /\ r.parts = <<>> /\ r.n = thread[t].n
          /\ r.rows = table
      BY <3>2 DEF Thread, Pcs, IType, Shared
    <3> HIDE DEF r
    <3>4. Good(r)
      BY <3>2, <3>3, NoRows DEF Good, IType, GoodContents
    <3> QED BY <1>0, <3>1, <3>4, OneThread
  <2> QED BY <2>1, <2>2 DEF Sync
<1> QED BY <1>1, <1>2, <1>3 DEF IType

LEMMA TypeWriteChunk == ASSUME IType, NEW t \in Threads, WriteChunk(t) PROVE IType'
<1> DEFINE text == Cut(thread[t].rows)
           i == thread[t].n + 1
<1>0. Grows
  BY SameStatus DEF WriteChunk
<1>1. /\ thread[t].rows \in Contents /\ Apart(thread[t].rows)
      /\ thread[t].n \in Nat
  BY ThreadIs, Sizes DEF Thread
<1>2. At(t, "write") /\ i <= Len(text)
  BY DEF WriteChunk
<1>3. /\ i \in 1..Len(text) /\ i \in Ids /\ text[i] \in Chunk
      /\ Range(text[i].rows) \subseteq Range(thread[t].rows)
  <2>1. /\ text \in Seq(Chunk) /\ Len(text) \in 0..Cardinality(Positions)
        /\ \A j \in 1..Len(text) : Range(text[j].rows) \subseteq Range(thread[t].rows)
    BY <1>1, CutRows
  <2> HIDE DEF text
  <2>2. i \in 1..Len(text)
    BY <1>1, <1>2, <2>1, Sizes
  <2>3. i \in Ids
    BY <2>1, <2>2, Sizes DEF Ids
  <2> QED BY <2>1, <2>2, <2>3, ElementOfSeq
<1>4. /\ chunk' \in {chunk, [chunk EXCEPT ![i] = text[i]]} /\ UNCHANGED meta
      /\ thread' = [thread EXCEPT ![t].n = i] \/ Done(t)
      /\ up' \in {up, up \/ t = Startup}
      /\ UNCHANGED <<status, table, hydrated, pushed>>
  BY DEF WriteChunk, Set, remote, Done
<1>5. Shared'
  <2>1. faults' \in 0..MaxFaults
    BY Counted DEF WriteChunk, Set, FaultKinds
  <2>2. chunk' \in [Ids -> Chunk] /\ up' \in BOOLEAN
    <3> HIDE DEF text, i
    <3> QED BY <1>3, <1>4 DEF IType, Shared
  <2> QED BY <1>4, <2>1, <2>2 DEF IType, Shared
<1>6. GoodContents'
  <2> HIDE DEF text, i
  <2>1. ASSUME NEW j \in Ids PROVE Apart(chunk[j].rows)'
    <3>1. chunk'[j] \in {chunk[j], text[i]}
      BY <1>3, <1>4 DEF IType, Shared
    <3>2. Apart(chunk[j].rows) /\ Apart(text[i].rows)
      BY <1>1, <1>3 DEF IType, GoodContents, Apart
    <3> QED BY <1>0, <3>1, <3>2 DEF Apart, Grows
  <2>2. Apart(table)'
    BY <1>0, <1>4 DEF IType, GoodContents, Apart, Grows
  <2> QED BY <2>1, <2>2 DEF GoodContents
<1>7. GoodThreads'
  <2>1. CASE Done(t)
    BY <1>0, <2>1, DoneGood
  <2>2. CASE thread' = [thread EXCEPT ![t].n = i]
    <3> DEFINE r == [thread[t] EXCEPT !.n = i]
    <3>1. thread' = [thread EXCEPT ![t] = r]
      BY <2>2
    <3>2. i \in 0..Cardinality(Positions)
      BY <1>3, Sizes DEF Ids
    <3>3. thread[t] \in Thread /\ thread[t].at = "write" /\ Len(thread[t].parts) <= thread[t].n
      BY <1>2, ThreadIs DEF At
    <3>4. /\ r \in Thread /\ r.at = "write" /\ r.parts = thread[t].parts /\ r.n = i
          /\ r.rows = thread[t].rows
      <4> HIDE DEF i
      <4> QED BY <3>2, <3>3 DEF Thread
    <3>5. Len(thread[t].parts) \in Nat
      BY <3>3, LenProperties DEF Thread
    <3> HIDE DEF r
    <3>6. Good(r)
      BY <1>1, <3>3, <3>4, <3>5, ThreadIs DEF Good
    <3> QED BY <1>0, <3>1, <3>6, OneThread
  <2> QED BY <1>4, <2>1, <2>2
<1> QED BY <1>5, <1>6, <1>7 DEF IType

LEMMA TypeWriteMeta == ASSUME IType, NEW t \in Threads, WriteMeta(t) PROVE IType'
<1> DEFINE text == Cut(thread[t].rows)
<1>0. Grows
  BY SameStatus DEF WriteMeta
<1>1. Len(text) \in 0..NoMeta
  <2>1. thread[t].rows \in Contents
    BY ThreadIs DEF Thread
  <2>2. Len(text) \in 0..Cardinality(Positions)
    BY <2>1, CutRows
  <2> HIDE DEF text
  <2> QED BY <2>2, Sizes
<1>2. /\ meta' \in {meta, Len(text)} /\ UNCHANGED chunk
      /\ Go(t, "record") \/ Done(t)
      /\ up' \in {up, up \/ t = Startup}
      /\ UNCHANGED <<status, table, hydrated, pushed>>
  BY DEF WriteMeta, Set, remote, Done
<1>3. Shared'
  <2>1. faults' \in 0..MaxFaults
    BY Counted DEF WriteMeta, Set, FaultKinds
  <2>2. meta' \in 0..NoMeta /\ up' \in BOOLEAN
    <3> HIDE DEF text
    <3> QED BY <1>1, <1>2 DEF IType, Shared
  <2> QED BY <1>2, <2>1, <2>2 DEF IType, Shared
<1>4. GoodContents'
  BY <1>0, <1>2, SameContents
<1>5. GoodThreads'
  BY <1>0, <1>2, DoneGood, GoThreads DEF Pcs
<1> QED BY <1>3, <1>4, <1>5 DEF IType

LEMMA TypeRecord == ASSUME IType, NEW t \in Threads, Record(t) PROVE IType'
<1>0. Grows
  BY SameStatus DEF Record
<1>1. Shared'
  <2>1. pushed' \in Contents /\ up' \in BOOLEAN
    BY ThreadIs DEF Record, Done, Thread, IType, Shared
  <2> QED BY <2>1 DEF Record, remote, IType, Shared
<1>2. GoodContents'
  BY <1>0, SameContents DEF Record, remote
<1>3. GoodThreads'
  BY <1>0, DoneGood DEF Record
<1> QED BY <1>1, <1>2, <1>3 DEF IType

\* and the process starts again.
LEMMA TypeTimeout == ASSUME IType, Timeout PROVE IType'
<1>0. Grows
  BY SameStatus DEF Timeout
<1>1. Shared'
  <2>1. faults' \in 0..MaxFaults
    BY Counted DEF Timeout, FaultKinds
  <2> QED BY <2>1 DEF Timeout, remote, IType, Shared
<1>2. GoodContents'
  BY <1>0, SameContents DEF Timeout, remote
<1>3. GoodThreads'
  BY <1>0, NoThread DEF Timeout
<1> QED BY <1>1, <1>2, <1>3 DEF IType

\* The threads of a new process.
LEMMA BootThreads == Boot \in [Threads -> Thread] /\ \A t \in Threads : Good(Boot[t])
<1>1. \A t \in Threads : Good(Boot[t])
  BY IdleGood, BootGood DEF Boot
<1>2. \A t \in Threads : Boot[t] \in Thread
  BY <1>1 DEF Good
<1>3. Boot = [t \in Threads |-> Boot[t]]
  BY DEF Boot
<1> QED BY <1>1, <1>2, <1>3

LEMMA TypeRestart == ASSUME IType, Restart PROVE IType'
<1>0. Grows
  BY SameStatus DEF Restart
<1>1. Shared'
  <2>1. faults' \in 0..MaxFaults
    BY Counted DEF Restart, FaultKinds
  <2> QED BY <2>1, NoRows DEF Restart, remote, IType, Shared
<1>2. GoodContents'
  BY <1>0, NoRows DEF Restart, remote, IType, GoodContents, Apart, Grows
<1>3. GoodThreads'
  BY <1>0, BootThreads DEF Restart, GoodThreads, Good, Apart, Grows
<1> QED BY <1>1, <1>2, <1>3 DEF IType

\* Every step of the program.
LEMMA TypeNext == ASSUME IType, [Next]_vars PROVE IType'
<1>1. ASSUME NEW p \in Positions, Open(p) \/ Close(p) PROVE IType'
  BY <1>1, TypeOpen, TypeClose
<1>2. ASSUME NEW t \in Pushers, Sync(t) PROVE IType'
  BY <1>2, TypeSync DEF Threads
<1>3. ASSUME NEW t \in Threads, Call(t) PROVE IType'
  BY <1>3, TypeReadMeta, TypeReadChunk, TypeRestore, TypeWriteChunk, TypeWriteMeta, TypeRecord
     DEF Call
<1>4. CASE UNCHANGED vars
  <2>1. Grows
    BY <1>4, SameStatus DEF vars
  <2>2. Shared'
    BY <1>4 DEF vars, remote, IType, Shared
  <2>3. GoodContents' /\ GoodThreads'
    BY <1>4, <2>1, SameContents, NoThread DEF vars, remote
  <2> QED BY <2>2, <2>3 DEF IType
<1> QED BY <1>1, <1>2, <1>3, <1>4, TypeTimeout, TypeRestart DEF Next

(***************************************************************************)
(* The state of the mirror is of its type, for every chunk size and number *)
(* of pushers: no table and no push ever has a position twice, so opening  *)
(* a position or inserting the rows of a restore, also into a table that   *)
(* is being written, never makes a second row of one.                      *)
(***************************************************************************)
THEOREM TypeCorrect == Spec => []TypeOK
<1>1. Init => IType
  BY InitType
<1>2. IType /\ [Next]_vars => IType'
  BY TypeNext
<1>3. IType => TypeOK
  BY TypeFollows
<1> QED BY <1>1, <1>2, <1>3, PTL DEF Spec

-----------------------------------------------------------------------------
(***************************************************************************)
(* A push keeps the open positions.  This needs one pusher (a second one   *)
(* may send an older content after a newer one), a table of one chunk (of  *)
(* several, a push that stops half-way leaves chunks that do not parse     *)
(* together) and no position opened before the restore is over (the table  *)
(* counts as restored as soon as it has a row).  Without any of the three  *)
(* the property fails.                                                     *)
(***************************************************************************)
OneTick ==
    /\ \A s, t \in Pushers : s = t
    /\ ChunkRows >= Cardinality(Positions)
    /\ "early_write" \notin Faults

\* What a restart restores, when the text is one chunk.
InMirror(p) == meta = 1 /\ chunk[1].last /\ p \in Range(chunk[1].rows)
IsOpen(p) == status[p] = "open"

\* A table that was restored has every open row of the mirror.
Served == hydrated => \A p \in Positions : IsOpen(p) /\ InMirror(p) => p \in Range(table)
\* Nothing is written to a table before it is restored.
Unserved == ~hydrated => table = <<>>
OneChunk == meta \in {0, 1, NoMeta}
\* A push under way has every open row of the mirror, and no open row that the table lost.
Sending(t) ==
    At(t, "write") =>
       /\ t \in Pushers /\ hydrated
       /\ \A p \in Positions : IsOpen(p) =>
             /\ InMirror(p) => p \in Range(thread[t].rows)
             /\ p \in Range(thread[t].rows) => p \in Range(table)
       /\ thread[t].n # 0 =>
             thread[t].n = 1 /\ chunk[1] = [rows |-> thread[t].rows, last |-> TRUE, stored |-> TRUE]
\* Until the table is restored nobody pushes, and what a restore read is still there.
Reading(t) ==
    ~hydrated /\ At(t, "read") =>
       /\ thread[t].n = meta /\ meta # NoMeta
       /\ \A j \in 1..Len(thread[t].parts) : thread[t].parts[j] = chunk[j]

\* The inductive invariant.
IMirror == Served /\ Unserved /\ OneChunk /\ \A t \in Threads : Sending(t) /\ Reading(t)

\* The rows that come back from one chunk, or from none.
LEMMA OneChunkJoins ==
    ASSUME NEW R \in Seq(Chunk), NEW p, Len(R) \in {0, 1}
    PROVE  Parses(R) /\ p \in Range(Join(R)) <=> Len(R) = 1 /\ R[1].last /\ p \in Range(R[1].rows)
<1>1. p \in Range(Join(R)) <=> \E i \in 1..Len(R) : p \in Range(R[i].rows)
  BY JoinRows
<1>2. DOMAIN R = 1..Len(R)
  BY LenProperties
<1> DEFINE J == Range(Join(R))
<1> HIDE DEF J
<1>3. CASE Len(R) = 0
  BY <1>1, <1>3 DEF J
<1>4. CASE Len(R) = 1
  <2>1. p \in J <=> p \in Range(R[1].rows)
    BY <1>1, <1>4 DEF J
  <2>2. Parses(R) <=> (R[1].last <=> 1 = Len(R))
    BY <1>2, <1>4 DEF Parses
  <2>3. R[1] \in Chunk
    <3>1. 1 \in 1..Len(R)
      BY <1>4
    <3> QED BY <3>1, ElementOfSeq
  <2>4. R[1].last \in BOOLEAN
    BY <2>3 DEF Chunk
  <2> QED BY <1>4, <2>1, <2>2, <2>4 DEF J
<1> QED BY <1>3, <1>4

\* Of the chunks at Upstash and the number the meta key names: what a restart restores.
LEMMA RemoteIs ==
    ASSUME NEW c \in [Ids -> Chunk], NEW m \in {0, 1, NoMeta}, NEW p \in Positions
    PROVE  LET R == IF m = NoMeta THEN <<>> ELSE SubSeq(c, 1, m) IN
           Parses(R) /\ p \in Range(Join(R)) <=> m = 1 /\ c[1].last /\ p \in Range(c[1].rows)
<1>1. Cardinality(Positions) # 0 /\ Cardinality(Positions) \in Nat
  BY Sizes, FS_EmptySet
<1>2. NoMeta # 1 /\ NoMeta # 0 /\ 1 \in Ids
  BY <1>1, Sizes DEF Ids
<1> DEFINE R == IF m = NoMeta THEN <<>> ELSE SubSeq(c, 1, m)
<1>3. R \in Seq(Chunk) /\ Len(R) \in {0, 1} /\ (Len(R) = 1 <=> m = 1) /\ (m = 1 => R[1] = c[1])
  <2>1. CASE m # 1
    <3>1. R = <<>>
      BY <1>2, <2>1, SubSeqEmpty
    <3> HIDE DEF R
    <3> QED BY <2>1, <3>1, EmptySeq
  <2>2. CASE m = 1
    <3>1. R = SubSeq(c, 1, 1)
      BY <1>2, <2>2
    <3>2. \A i \in 1..1 : c[i] \in Chunk
      BY <1>2
    <3>3. /\ SubSeq(c, 1, 1) \in Seq(Chunk)
          /\ Len(SubSeq(c, 1, 1)) = IF 1 <= 1 THEN 1 - 1 + 1 ELSE 0
          /\ \A i \in 1..1 - 1 + 1 : SubSeq(c, 1, 1)[i] = c[1 + i - 1]
      BY <3>2, SubSeqProperties
    <3> HIDE DEF R
    <3> QED BY <2>2, <3>1, <3>3
  <2> QED BY <2>1, <2>2
<1> HIDE DEF R
<1>4. Parses(R) /\ p \in Range(Join(R)) <=> Len(R) = 1 /\ R[1].last /\ p \in Range(R[1].rows)
  BY <1>3, OneChunkJoins
<1>5. Parses(R) /\ p \in Range(Join(R)) <=> m = 1 /\ c[1].last /\ p \in Range(c[1].rows)
  BY <1>3, <1>4
<1> QED BY <1>5 DEF R

\* Mirrored, for one chunk,
LEMMA MirroredIs ==
    ASSUME IType, OneChunk, NEW p \in Positions PROVE Mirrored(p) <=> InMirror(p)
<1>1. chunk \in [Ids -> Chunk] /\ meta \in {0, 1, NoMeta}
  BY DEF IType, Shared, OneChunk
<1>2. Parses(Remote) /\ p \in Range(Join(Remote))
         <=> meta = 1 /\ chunk[1].last /\ p \in Range(chunk[1].rows)
  BY <1>1, RemoteIs DEF Remote
<1> QED BY <1>2 DEF Mirrored, InMirror

\* and after the step.
LEMMA MirroredNext ==
    ASSUME IType', OneChunk', NEW p \in Positions PROVE Mirrored(p)' <=> InMirror(p)'
<1>1. chunk' \in [Ids -> Chunk] /\ meta' \in {0, 1, NoMeta}
  BY DEF IType, Shared, OneChunk, NoMeta
<1>2. Parses(Remote') /\ p \in Range(Join(Remote'))
         <=> meta' = 1 /\ chunk'[1].last /\ p \in Range(chunk'[1].rows)
  BY <1>1, RemoteIs DEF Remote
<1> QED BY <1>2 DEF Mirrored, InMirror

\* A new process has restored nothing.
LEMMA InitMirror == Init => IMirror
BY DEF Init, IMirror, Served, Unserved, OneChunk, Sending, Reading, At, Boot, Idle

\* What a step leaves to the threads it does not move.
LEMMA OthersKeep ==
    ASSUME IMirror, UNCHANGED <<status, table, remote, hydrated>>, NEW u \in Threads,
           UNCHANGED thread[u]
    PROVE  (Sending(u) /\ Reading(u))'
BY DEF IMirror, Sending, Reading, At, IsOpen, InMirror, remote

\* A step that changes neither table nor mirror.
LEMMA SharedKeep ==
    ASSUME IMirror, UNCHANGED <<status, table, remote, hydrated>>
    PROVE  (Served /\ Unserved /\ OneChunk)'
BY DEF IMirror, Served, Unserved, OneChunk, IsOpen, InMirror, remote, NoMeta

\* The threads after a step of t.
LEMMA Moves ==
    ASSUME IType, NEW t \in Threads, NEW r, thread' = [thread EXCEPT ![t] = r]
    PROVE  thread'[t] = r /\ \A u \in Threads : u # t => UNCHANGED thread[u]
BY DEF IType, GoodThreads

\* A thread that neither writes nor reads has nothing to keep.
LEMMA QuietKeeps ==
    ASSUME NEW t \in Threads, thread'[t].at \notin {"write", "read"}
    PROVE  (Sending(t) /\ Reading(t))'
BY DEF Sending, Reading, At

\* Nothing opens before the restore.
LEMMA NeverEarly == ASSUME OneTick PROVE ~Fault("early_write")
BY DEF OneTick, Fault

\* A position that opens is in no mirror yet, and in the table at once.
LEMMA MirrorOpen ==
    ASSUME OneTick, IType, IMirror, NEW p \in Positions, Open(p) PROVE IMirror'
<1>1. /\ status' = [status EXCEPT ![p] = "open"] /\ table' = Append(table, p) /\ p \in New
      /\ UNCHANGED <<chunk, meta, hydrated, thread>>
  BY DEF Open, New, remote
<1>2. hydrated
  BY NeverEarly DEF Open
<1>3. \A q \in Range(table) \cup {p} : q \in Range(table')
  BY <1>1, AppendRow DEF IType, Shared, GoodContents, Apart
<1>4. \A q \in Positions : IsOpen(q)' => IsOpen(q) \/ q = p
  BY <1>1 DEF IsOpen, IType, Shared
<1>5. ~InMirror(p)
  <2>1. meta = 1 => 1 \in Ids
    <3>1. Cardinality(Positions) # 0
      BY Sizes, FS_EmptySet
    <3> QED BY <3>1, Sizes DEF Ids
  <2> QED BY <1>1, <2>1 DEF InMirror, IType, GoodContents, Apart
<1>6. Served'
  BY <1>1, <1>2, <1>3, <1>4 DEF IMirror, Served, InMirror
<1>7. Unserved' /\ OneChunk'
  BY <1>1, <1>2 DEF IMirror, Unserved, OneChunk, NoMeta
<1>8. ASSUME NEW t \in Threads PROVE Sending(t)' /\ Reading(t)'
  <2>1. p \notin Range(thread[t].rows)
    BY <1>1, ThreadIs DEF Apart
  <2> QED BY <1>1, <1>2, <1>3, <1>4, <1>5, <2>1 DEF IMirror, Sending, Reading, At, InMirror
<1> QED BY <1>6, <1>7, <1>8 DEF IMirror

\* A position leaves the table only as it closes.
LEMMA MirrorClose ==
    ASSUME IType, IMirror, NEW p \in Positions, Close(p) PROVE IMirror'
<1>1. /\ status' = [status EXCEPT ![p] = "closed"] /\ table' = RemoveFirst(table, p)
      /\ p \in Range(table) /\ UNCHANGED <<chunk, meta, hydrated, thread>>
  BY DEF Close, remote
<1>2. Range(table') = Range(table) \ {p}
  BY <1>1, RemoveRow DEF IType, Shared
<1>3. \A q \in Positions : IsOpen(q)' => IsOpen(q) /\ q # p
  BY <1>1 DEF IsOpen, IType, Shared
<1>4. hydrated
  BY <1>1, NoRows DEF IMirror, Unserved
<1>5. Served'
  BY <1>1, <1>2, <1>3 DEF IMirror, Served, InMirror
<1>6. Unserved' /\ OneChunk'
  BY <1>1, <1>4 DEF IMirror, Unserved, OneChunk, NoMeta
<1>7. ASSUME NEW t \in Threads PROVE Sending(t)' /\ Reading(t)'
  BY <1>1, <1>2, <1>3, <1>4 DEF IMirror, Sending, Reading, At, InMirror
<1> QED BY <1>5, <1>6, <1>7 DEF IMirror

\* A table that counts as restored without a read: nothing is mirrored, or it was before.
LEMMA MirrorReadMeta ==
    ASSUME IType, IMirror, NEW t \in Threads, ReadMeta(t) PROVE IMirror'
<1>1. At(t, "meta") /\ UNCHANGED <<status, table, chunk, meta>> /\ thread[t].parts = <<>>
  BY ThreadIs DEF ReadMeta, remote
<1>2. CASE Done(t) /\ UNCHANGED hydrated
  <2>1. thread'[t] = Idle /\ \A u \in Threads : u # t => UNCHANGED thread[u]
    BY <1>2, Moves DEF Done
  <2>2. \A u \in Threads : Sending(u)' /\ Reading(u)'
    BY <1>1, <1>2, <2>1, OthersKeep, QuietKeeps DEF Idle, remote
  <2> QED BY <1>1, <1>2, <2>2, SharedKeep DEF IMirror, remote
<1>3. CASE Done(t) /\ hydrated' = TRUE /\ (meta = NoMeta \/ table # <<>>)
  <2>1. thread'[t] = Idle /\ \A u \in Threads : u # t => UNCHANGED thread[u]
    BY <1>3, Moves DEF Done
  <2>2. CASE hydrated
    <3>1. UNCHANGED hydrated
      BY <1>3, <2>2 DEF IType, Shared
    <3> QED BY <1>2, <1>3, <3>1
  <2>3. CASE ~hydrated
    <3>1. meta = NoMeta
      BY <1>3, <2>3 DEF IMirror, Unserved
    <3>2. \A p \in Positions : ~InMirror(p)'
      <4>1. \A p \in Positions : NoMeta # 1
        BY Sizes, FS_EmptySet
      <4> QED BY <1>1, <3>1, <4>1 DEF InMirror
    <3>3. (Served /\ Unserved /\ OneChunk)'
      BY <1>1, <1>3, <3>1, <3>2 DEF Served, Unserved, OneChunk, NoMeta
    <3>4. \A u \in Threads : Sending(u)' /\ Reading(u)'
      <4> TAKE u \in Threads
      <4>1. CASE u = t
        BY <2>1, <4>1, QuietKeeps DEF Idle
      <4>2. CASE u # t
        BY <1>3, <2>1, <2>3, <4>2 DEF IMirror, Sending, Reading, At
      <4> QED BY <4>1, <4>2
    <3> QED BY <3>3, <3>4 DEF IMirror
  <2> QED BY <2>2, <2>3
<1>4. CASE /\ meta # NoMeta /\ UNCHANGED hydrated
           /\ thread' = [thread EXCEPT ![t].at = "read", ![t].n = meta]
  <2> DEFINE r == [thread[t] EXCEPT !.at = "read", !.n = meta]
  <2>1. thread'[t] = r /\ \A u \in Threads : u # t => UNCHANGED thread[u]
    <3>1. thread' = [thread EXCEPT ![t] = r]
      BY <1>4
    <3> HIDE DEF r
    <3> QED BY <3>1, Moves
  <2>2. r.at = "read" /\ r.n = meta /\ r.parts = <<>>
    BY <1>1, ThreadIs DEF Thread
  <2> HIDE DEF r
  <2>3. \A u \in Threads : Sending(u)' /\ Reading(u)'
    <3> TAKE u \in Threads
    <3>1. CASE u = t
      <4>1. Sending(t)'
        BY <2>1, <2>2 DEF Sending, At
      <4>2. Reading(t)'
        <5>1. ~\E j : j \in 1..Len(r.parts)
          BY <2>2, NoRows
        <5> QED BY <1>1, <1>4, <2>1, <2>2, <5>1 DEF Reading, At, NoMeta
      <4> QED BY <3>1, <4>1, <4>2
    <3>2. CASE u # t
      BY <1>1, <1>4, <2>1, <3>2, OthersKeep DEF remote
    <3> QED BY <3>1, <3>2
  <2> QED BY <1>1, <1>4, <2>3, SharedKeep DEF IMirror, remote
<1> QED BY <1>2, <1>3, <1>4 DEF ReadMeta

\* What a restore reads is what is there.
LEMMA MirrorReadChunk ==
    ASSUME IType, IMirror, NEW t \in Threads, ReadChunk(t) PROVE IMirror'
<1> DEFINE parts == thread[t].parts
           i == Len(parts) + 1
<1>1. At(t, "read") /\ i <= thread[t].n /\ UNCHANGED <<status, table, chunk, meta, hydrated>>
  BY DEF ReadChunk, remote
<1>2. (Served /\ Unserved /\ OneChunk)'
  BY <1>1, SharedKeep DEF remote
<1>3. CASE Done(t)
  <2>1. thread'[t] = Idle /\ \A u \in Threads : u # t => UNCHANGED thread[u]
    BY <1>3, Moves DEF Done
  <2>2. \A u \in Threads : Sending(u)' /\ Reading(u)'
    BY <1>1, <2>1, OthersKeep, QuietKeeps DEF Idle, remote
  <2> QED BY <1>2, <2>2 DEF IMirror
<1>4. CASE thread' = [thread EXCEPT ![t].parts = Append(@, chunk[i])]
  <2> DEFINE r == [thread[t] EXCEPT !.parts = Append(parts, chunk[i])]
  <2>1. thread'[t] = r /\ \A u \in Threads : u # t => UNCHANGED thread[u]
    <3>1. thread' = [thread EXCEPT ![t] = r]
      BY <1>4
    <3> HIDE DEF r
    <3> QED BY <3>1, Moves
  <2>2. parts \in Seq(Chunk) /\ Len(parts) \in Nat /\ chunk[i] \in Chunk
    <3>1. parts \in Seq(Chunk) /\ Len(parts) \in Nat
      BY ThreadIs, LenProperties DEF Thread
    <3>2. i \in Ids
      BY <1>1, <3>1, ThreadIs, Sizes DEF Thread, Ids
    <3> QED BY <3>1, <3>2 DEF IType, Shared
  <2>3. r.at = "read" /\ r.n = thread[t].n /\ r.parts = Append(parts, chunk[i])
    BY <1>1, ThreadIs DEF Thread, At
  <2>4. /\ Len(Append(parts, chunk[i])) = i /\ Append(parts, chunk[i])[i] = chunk[i]
        /\ \A j \in 1..Len(parts) : Append(parts, chunk[i])[j] = parts[j]
    BY <2>2, AppendProperties
  <2> HIDE DEF r
  <2>5. Sending(t)'
    BY <2>1, <2>3 DEF Sending, At
  <2>6. Reading(t)'
    <3> SUFFICES ASSUME ~hydrated
                 PROVE  /\ r.n = meta /\ meta # NoMeta
                        /\ \A j \in 1..Len(r.parts) : r.parts[j] = chunk[j]
      BY <1>1, <2>1 DEF Reading, NoMeta
    <3>1. /\ thread[t].n = meta /\ meta # NoMeta
          /\ \A j \in 1..Len(parts) : parts[j] = chunk[j]
      BY <1>1 DEF IMirror, Reading
    <3>2. \A j \in 1..i : j = i \/ j \in 1..Len(parts)
      BY <2>2
    <3> QED BY <2>3, <2>4, <3>1, <3>2
  <2>7. \A u \in Threads : Sending(u)' /\ Reading(u)'
    BY <1>1, <2>1, <2>5, <2>6, OthersKeep DEF remote
  <2> QED BY <1>2, <2>7 DEF IMirror
<1> QED BY <1>3, <1>4 DEF ReadChunk

\* A restore brings every row of the mirror.
LEMMA MirrorRestore ==
    ASSUME IType, IMirror, NEW t \in Threads, Restore(t) PROVE IMirror'
<1> DEFINE parts == thread[t].parts
<1>1. At(t, "read") /\ Len(parts) = thread[t].n /\ UNCHANGED <<status, chunk, meta>>
  BY DEF Restore, remote
<1>2. thread'[t] = Idle /\ \A u \in Threads : u # t => UNCHANGED thread[u]
  BY Moves DEF Restore, Done
<1>3. CASE ~Parses(parts)
  <2>1. UNCHANGED <<table, hydrated>>
    BY <1>3 DEF Restore
  <2>2. \A u \in Threads : Sending(u)' /\ Reading(u)'
    BY <1>1, <1>2, <2>1, OthersKeep, QuietKeeps DEF Idle, remote
  <2> QED BY <1>1, <2>1, <2>2, SharedKeep DEF IMirror, remote
<1>4. CASE Parses(parts)
  <2>1. parts \in Seq(Chunk)
    BY ThreadIs DEF Thread
  <2>2. table' = FoldLeft(Insert, table, Join(parts)) /\ hydrated' = TRUE
    BY <1>4 DEF Restore
  <2>3. Range(table') = Range(table) \cup Range(Join(parts))
    BY <2>1, <2>2, JoinRows, RestoredRows DEF IType, Shared
  <2>4. ASSUME ~hydrated, NEW p \in Positions, InMirror(p) PROVE p \in Range(Join(parts))
    <3>1. Len(parts) = 1 /\ parts[1] = chunk[1]
      BY <1>1, <2>4 DEF IMirror, Reading, InMirror
    <3>2. p \in Range(parts[1].rows) /\ 1 \in 1..Len(parts)
      BY <2>4, <3>1 DEF InMirror
    <3> QED BY <2>1, <3>2, JoinRows
  <2>5. Served'
    <3> SUFFICES ASSUME NEW p \in Positions, IsOpen(p), InMirror(p) PROVE p \in Range(table')
      BY <1>1 DEF Served, IsOpen, InMirror
    <3> QED BY <2>3, <2>4 DEF IMirror, Served
  <2>6. Unserved' /\ OneChunk'
    BY <1>1, <2>2 DEF IMirror, Unserved, OneChunk, NoMeta
  <2>7. \A u \in Threads : Sending(u)' /\ Reading(u)'
    <3> TAKE u \in Threads
    <3>1. CASE u = t
      BY <1>2, <3>1, QuietKeeps DEF Idle
    <3>2. CASE u # t
      <4>1. Reading(u)'
        BY <2>2 DEF Reading
      <4>2. Sending(u)'
        BY <1>1, <1>2, <2>2, <2>3, <3>2 DEF IMirror, Sending, At, IsOpen, InMirror
      <4> QED BY <4>1, <4>2
    <3> QED BY <3>1, <3>2
  <2> QED BY <2>5, <2>6, <2>7 DEF IMirror
<1> QED BY <1>3, <1>4

\* A push begins with all of the table, and only of a restored one.
LEMMA MirrorSync ==
    ASSUME IType, IMirror, NEW t \in Pushers, Sync(t) PROVE IMirror'
<1>1. t \in Threads /\ At(t, "idle") /\ UNCHANGED <<status, table, chunk, meta, hydrated>>
  BY DEF Sync, remote, Threads
<1>2. (Served /\ Unserved /\ OneChunk)'
  BY <1>1, SharedKeep DEF remote
<1>3. PICK r : /\ thread'[t] = r /\ \A u \in Threads : u # t => UNCHANGED thread[u]
               /\ \/ r.at = "meta"
                  \/ r.at = "write" /\ r.rows = table /\ r.n = 0 /\ hydrated
  <2>1. CASE Go(t, "meta")
    <3> DEFINE r == [thread[t] EXCEPT !.at = "meta"]
    <3>1. thread' = [thread EXCEPT ![t] = r] /\ r.at = "meta"
      BY <1>1, <2>1, ThreadIs DEF Go, Thread
    <3> HIDE DEF r
    <3> QED BY <1>1, <3>1, Moves
  <2>2. CASE hydrated /\ thread' = [thread EXCEPT ![t].at = "write", ![t].rows = table]
    <3> DEFINE r == [thread[t] EXCEPT !.at = "write", !.rows = table]
    <3>1. thread' = [thread EXCEPT ![t] = r]
      BY <2>2
    <3>2. r.at = "write" /\ r.rows = table /\ r.n = 0
      BY <1>1, ThreadIs DEF Thread
    <3> HIDE DEF r
    <3> QED BY <1>1, <2>2, <3>1, <3>2, Moves
  <2> QED BY <2>1, <2>2 DEF Sync
<1>4. Sending(t)' /\ Reading(t)'
  <2>1. CASE r.at = "meta"
    BY <1>1, <1>3, <2>1, QuietKeeps
  <2>2. CASE r.at = "write" /\ r.rows = table /\ r.n = 0 /\ hydrated
    <3>1. Reading(t)'
      BY <1>3, <2>2 DEF Reading, At
    <3>2. Sending(t)'
      BY <1>1, <1>3, <2>2 DEF Sending, At, IMirror, Served, IsOpen, InMirror
    <3> QED BY <3>1, <3>2
  <2> QED BY <1>3, <2>1, <2>2
<1>5. \A u \in Threads : Sending(u)' /\ Reading(u)'
  BY <1>1, <1>3, <1>4, OthersKeep DEF remote
<1> QED BY <1>2, <1>5 DEF IMirror

\* One thread writes at a time.
LEMMA OneSender ==
    ASSUME OneTick, IMirror, NEW t \in Threads, At(t, "write"), NEW u \in Threads, u # t
    PROVE  ~At(u, "write")
BY DEF OneTick, IMirror, Sending

\* What is pushed replaces what was there: a row that is still open is in both.
LEMMA MirrorWriteChunk ==
    ASSUME OneTick, IType, IMirror, NEW t \in Threads, WriteChunk(t)
    PROVE  IMirror' /\ \A p \in Positions : IsOpen(p)' /\ InMirror(p) => InMirror(p)'
<1> DEFINE rows == thread[t].rows
           whole == [rows |-> rows, last |-> TRUE, stored |-> TRUE]
<1>1. /\ At(t, "write") /\ UNCHANGED <<status, table, meta, hydrated>>
      /\ hydrated /\ t \in Pushers /\ thread[t] \in Thread
      /\ \A p \in Positions : IsOpen(p) =>
            (InMirror(p) => p \in Range(rows)) /\ (p \in Range(rows) => p \in Range(table))
  <2>1. At(t, "write") /\ Sending(t) /\ thread[t] \in Thread
    BY ThreadIs DEF WriteChunk, IMirror
  <2>2. UNCHANGED <<status, table, meta, hydrated>>
    BY DEF WriteChunk, Set, remote
  <2> QED BY <2>1, <2>2 DEF Sending
<1>2. thread[t].n = 0 /\ Cut(rows)[1] = whole /\ 1 \in Ids
  <2>1. rows \in Contents /\ thread[t].n \in Nat
    BY <1>1, Sizes DEF Thread
  <2>2. thread[t].n + 1 <= Len(Cut(rows))
    BY DEF WriteChunk
  <2>3. /\ rows = <<>> => Len(Cut(rows)) = 0
        /\ rows # <<>> => Len(Cut(rows)) = 1 /\ Cut(rows)[1] = whole
    BY <2>1, CutOnce DEF OneTick
  <2>4. Len(Cut(rows)) \in 0..Cardinality(Positions)
    BY <2>1, CutRows
  <2> HIDE DEF rows, whole
  <2>5. Len(Cut(rows)) = 1 /\ thread[t].n = 0
    <3>1. Len(Cut(rows)) = 0 \/ Len(Cut(rows)) = 1
      BY <2>3
    <3>2. \A n \in Nat, l \in {0, 1} : n + 1 <= l => l = 1 /\ n = 0
      OBVIOUS
    <3>3. Len(Cut(rows)) \in {0, 1} /\ thread[t].n \in Nat
      BY <2>1, <3>1
    <3> QED BY <2>2, <3>2, <3>3
  <2> QED BY <2>3, <2>4, <2>5, Sizes DEF Ids
<1> HIDE DEF whole
<1>3. chunk' \in {chunk, [chunk EXCEPT ![1] = whole]}
  BY <1>2 DEF WriteChunk, Set, remote
<1>4. chunk'[1] \in {chunk[1], whole}
  BY <1>2, <1>3 DEF IType, Shared
<1>5. whole.rows = rows /\ whole.last
  BY DEF whole
<1>6. \A p \in Positions : InMirror(p)' => InMirror(p) \/ p \in Range(rows)
  BY <1>1, <1>4, <1>5 DEF InMirror
<1>7. \A p \in Positions : IsOpen(p)' /\ InMirror(p) => InMirror(p)'
  BY <1>1, <1>4, <1>5 DEF InMirror, IsOpen
<1>8. Served'
  <2> SUFFICES ASSUME NEW p \in Positions, IsOpen(p), InMirror(p)' PROVE p \in Range(table)
    BY <1>1 DEF Served, IsOpen
  <2> QED BY <1>1, <1>6
<1>9. Unserved' /\ OneChunk'
  BY <1>1 DEF Unserved, IMirror, OneChunk, NoMeta
<1>10. Sending(t)' /\ Reading(t)'
  <2>1. CASE Done(t)
    <3>1. thread'[t] = Idle
      BY <2>1, Moves DEF Done
    <3> QED BY <3>1, QuietKeeps DEF Idle
  <2>2. CASE chunk' = [chunk EXCEPT ![1] = whole] /\ thread' = [thread EXCEPT ![t].n = 1]
    <3> DEFINE r == [thread[t] EXCEPT !.n = 1]
    <3>1. thread'[t] = r
      <4>1. thread' = [thread EXCEPT ![t] = r]
        BY <2>2
      <4> HIDE DEF r
      <4> QED BY <4>1, Moves
    <3>2. r.at = "write" /\ r.rows = rows /\ r.n = 1
      BY <1>1 DEF Thread, At
    <3>3. chunk'[1] = whole
      BY <1>2, <2>2 DEF IType, Shared
    <3> HIDE DEF r
    <3>4. Reading(t)'
      BY <3>1, <3>2 DEF Reading, At
    <3>5. \A p \in Positions : InMirror(p)' => p \in Range(rows)
      BY <1>5, <3>3 DEF InMirror
    <3> HIDE DEF rows
    <3>6. /\ t \in Pushers /\ hydrated'
          /\ \A p \in Positions : IsOpen(p)' =>
                (InMirror(p)' => p \in Range(rows)) /\ (p \in Range(rows) => p \in Range(table'))
      BY <1>1, <3>5 DEF IsOpen, rows
    <3>7. chunk'[1] = [rows |-> rows, last |-> TRUE, stored |-> TRUE]
      BY <3>3 DEF whole
    <3> QED BY <3>1, <3>2, <3>4, <3>6, <3>7 DEF Sending, At
  <2>3. Done(t) \/ (chunk' = [chunk EXCEPT ![1] = whole] /\ thread' = [thread EXCEPT ![t].n = 1])
    BY <1>2 DEF WriteChunk, Set
  <2> QED BY <2>1, <2>2, <2>3
<1>11. ASSUME NEW u \in Threads, u # t PROVE Sending(u)' /\ Reading(u)'
  <2>1. ~At(u, "write")
    BY <1>1, <1>11, OneSender
  <2>2. UNCHANGED thread[u]
    BY <1>11 DEF WriteChunk, Set, Done, IType, GoodThreads
  <2> QED BY <1>1, <2>1, <2>2 DEF Sending, Reading, At
<1>12. IMirror'
  BY <1>8, <1>9, <1>10, <1>11 DEF IMirror
<1> QED BY <1>7, <1>12

\* The number of chunks names what the push wrote, or nothing when it had no rows.
LEMMA MirrorWriteMeta ==
    ASSUME OneTick, IType, IMirror, NEW t \in Threads, WriteMeta(t)
    PROVE  IMirror' /\ \A p \in Positions : IsOpen(p)' /\ InMirror(p) => InMirror(p)'
<1> DEFINE rows == thread[t].rows
<1>1. /\ At(t, "write") /\ UNCHANGED <<status, table, chunk, hydrated>>
      /\ hydrated /\ t \in Pushers /\ thread[t] \in Thread
      /\ \A p \in Positions : IsOpen(p) =>
            (InMirror(p) => p \in Range(rows)) /\ (p \in Range(rows) => p \in Range(table))
      /\ thread[t].n # 0 =>
            thread[t].n = 1 /\ chunk[1] = [rows |-> rows, last |-> TRUE, stored |-> TRUE]
  <2>1. At(t, "write") /\ Sending(t) /\ thread[t] \in Thread
    BY ThreadIs DEF WriteMeta, IMirror
  <2>2. UNCHANGED <<status, table, chunk, hydrated>>
    BY DEF WriteMeta, Set, remote
  <2> QED BY <2>1, <2>2 DEF Sending
<1>2. /\ Len(Cut(rows)) = thread[t].n /\ thread[t].n \in {0, 1}
      /\ thread[t].n = 0 => rows = <<>>
  <2>1. rows \in Contents
    BY <1>1 DEF Thread
  <2>2. thread[t].n = Len(Cut(rows))
    BY DEF WriteMeta
  <2>3. /\ rows = <<>> => Len(Cut(rows)) = 0
        /\ rows # <<>> => Len(Cut(rows)) = 1
    BY <2>1, CutOnce DEF OneTick
  <2> HIDE DEF rows
  <2> QED BY <2>2, <2>3
<1>3. meta' \in {meta, thread[t].n} /\ (Go(t, "record") \/ Done(t))
  BY <1>2 DEF WriteMeta, Set, remote
<1>4. thread[t].n = 0 => \A p \in Positions : p \notin Range(rows)
  BY <1>2, NoRows
<1>5. thread[t].n = 1 =>
         \A p \in Positions :
            chunk[1].last /\ (p \in Range(rows) <=> p \in Range(chunk[1].rows))
  BY <1>1
<1> HIDE DEF rows
<1>6. \A p \in Positions : InMirror(p)' => InMirror(p) \/ p \in Range(rows)
  BY <1>1, <1>2, <1>3, <1>5 DEF InMirror
<1>7. \A p \in Positions : IsOpen(p)' /\ InMirror(p) => InMirror(p)'
  BY <1>1, <1>2, <1>3, <1>4, <1>5 DEF InMirror, IsOpen
<1>8. Served'
  <2> SUFFICES ASSUME NEW p \in Positions, IsOpen(p), InMirror(p)' PROVE p \in Range(table)
    BY <1>1 DEF Served, IsOpen
  <2> QED BY <1>1, <1>6 DEF rows
<1>9. Unserved' /\ OneChunk'
  BY <1>1, <1>2, <1>3 DEF Unserved, IMirror, OneChunk, NoMeta
<1>10. Sending(t)' /\ Reading(t)'
  <2>1. CASE Done(t)
    <3>1. thread'[t] = Idle
      BY <2>1, Moves DEF Done
    <3> QED BY <3>1, QuietKeeps DEF Idle
  <2>2. CASE Go(t, "record")
    <3>1. thread'[t].at = "record"
      BY <1>1, <2>2 DEF Go, IType, GoodThreads, Thread
    <3> QED BY <3>1, QuietKeeps
  <2> QED BY <1>3, <2>1, <2>2
<1>11. ASSUME NEW u \in Threads, u # t PROVE Sending(u)' /\ Reading(u)'
  <2>1. ~At(u, "write")
    BY <1>1, <1>11, OneSender
  <2>2. UNCHANGED thread[u]
    BY <1>3, <1>11 DEF Go, Done, IType, GoodThreads
  <2> QED BY <1>1, <2>1, <2>2 DEF Sending, Reading, At
<1>12. IMirror'
  BY <1>8, <1>9, <1>10, <1>11 DEF IMirror
<1> QED BY <1>7, <1>12

\* The end of a push.
LEMMA MirrorRecord ==
    ASSUME IType, IMirror, NEW t \in Threads, Record(t) PROVE IMirror'
<1>1. UNCHANGED <<status, table, remote, hydrated>>
  BY DEF Record
<1>2. thread'[t] = Idle /\ \A u \in Threads : u # t => UNCHANGED thread[u]
  BY Moves DEF Record, Done
<1>3. \A u \in Threads : Sending(u)' /\ Reading(u)'
  BY <1>1, <1>2, OthersKeep, QuietKeeps DEF Idle
<1> QED BY <1>1, <1>3, SharedKeep DEF IMirror

\* Steps that change neither table, mirror nor thread.
LEMMA MirrorIdle ==
    ASSUME IMirror, Timeout \/ UNCHANGED vars PROVE IMirror'
<1>1. UNCHANGED <<status, table, remote, hydrated>> /\ \A u \in Threads : UNCHANGED thread[u]
  BY DEF Timeout, vars
<1> QED BY <1>1, OthersKeep, SharedKeep DEF IMirror

\* A restart forgets the table and every call.
LEMMA MirrorRestart ==
    ASSUME IMirror, Restart PROVE IMirror'
<1>1. table' = <<>> /\ hydrated' = FALSE /\ thread' = Boot /\ UNCHANGED <<chunk, meta>>
  BY DEF Restart, remote
<1>2. \A u \in Threads : Boot[u].at \notin {"write", "read"}
  BY DEF Boot, Idle
<1>3. \A u \in Threads : Sending(u)' /\ Reading(u)'
  BY <1>1, <1>2, QuietKeeps
<1> QED BY <1>1, <1>3 DEF IMirror, Served, Unserved, OneChunk, NoMeta

\* Every step keeps the invariant and the open rows of the mirror.
LEMMA MirrorNext ==
    ASSUME OneTick, IType, IMirror, [Next]_vars
    PROVE  IMirror' /\ \A p \in Positions : IsOpen(p)' /\ InMirror(p) => InMirror(p)'
<1>1. ASSUME UNCHANGED remote
      PROVE  \A p \in Positions : IsOpen(p)' /\ InMirror(p) => InMirror(p)'
  BY <1>1 DEF InMirror, remote
<1>2. ASSUME NEW p \in Positions, Open(p) \/ Close(p) PROVE IMirror' /\ UNCHANGED remote
  BY <1>2, MirrorOpen, MirrorClose DEF Open, Close
<1>3. ASSUME NEW t \in Pushers, Sync(t) PROVE IMirror' /\ UNCHANGED remote
  BY <1>3, MirrorSync DEF Sync
<1>4. ASSUME NEW t \in Threads, ReadMeta(t) \/ ReadChunk(t) \/ Restore(t) \/ Record(t)
      PROVE  IMirror' /\ UNCHANGED remote
  BY <1>4, MirrorReadMeta, MirrorReadChunk, MirrorRestore, MirrorRecord
     DEF ReadMeta, ReadChunk, Restore, Record
<1>5. ASSUME Timeout \/ Restart \/ UNCHANGED vars PROVE IMirror' /\ UNCHANGED remote
  BY <1>5, MirrorIdle, MirrorRestart DEF Timeout, Restart, vars
<1>6. ASSUME NEW t \in Threads, WriteChunk(t) \/ WriteMeta(t)
      PROVE  IMirror' /\ \A p \in Positions : IsOpen(p)' /\ InMirror(p) => InMirror(p)'
  BY <1>6, MirrorWriteChunk, MirrorWriteMeta
<1> QED BY <1>1, <1>2, <1>3, <1>4, <1>5, <1>6 DEF Next, Call

\* Both invariants hold of the specification.
LEMMA SpecMirror == ASSUME OneTick PROVE Spec => [](IType /\ IMirror)
<1>1. Init => IType /\ IMirror
  BY InitType, InitMirror
<1>2. IType /\ IMirror /\ [Next]_vars => (IType /\ IMirror)'
  BY TypeNext, MirrorNext
<1> QED BY <1>1, <1>2, PTL DEF Spec

(***************************************************************************)
(* A table that counts as restored has every open position a restart would *)
(* bring back: none is lost between the mirror and the table, whichever    *)
(* reads failed and however late the startup restore ends.                 *)
(***************************************************************************)
RestoredHasOpen ==
    hydrated => \A p \in Positions : status[p] = "open" /\ Mirrored(p) => p \in Range(table)

THEOREM RestoreIsComplete == ASSUME OneTick PROVE Spec => []RestoredHasOpen
<1>1. IType /\ IMirror => RestoredHasOpen
  BY MirroredIs DEF IMirror, Served, IsOpen, RestoredHasOpen
<1> QED BY <1>1, SpecMirror, PTL

(***************************************************************************)
(* A position the mirror holds is in it for as long as it is open: no push,*)
(* whole, interrupted or lost, and no restart, late start or failed read   *)
(* takes it out.                                                           *)
(***************************************************************************)
THEOREM PushKeepsOpen == ASSUME OneTick PROVE Spec => OpenStaysMirrored
<1>1. IType /\ IMirror /\ [Next]_vars =>
          [\A p \in Positions : Mirrored(p) /\ status'[p] = "open" => Mirrored(p)']_vars
  <2> SUFFICES ASSUME IType, IMirror, [Next]_vars, NEW p \in Positions,
                      Mirrored(p), status'[p] = "open"
               PROVE  Mirrored(p)'
    OBVIOUS
  <2>1. IType' /\ OneChunk' /\ OneChunk
    BY TypeNext, MirrorNext DEF IMirror
  <2>2. InMirror(p)
    BY <2>1, MirroredIs
  <2>3. InMirror(p)'
    BY <2>2, MirrorNext DEF IsOpen
  <2> QED BY <2>1, <2>3, MirroredNext
<1> QED BY <1>1, SpecMirror, PTL DEF Spec, OpenStaysMirrored

=============================================================================
