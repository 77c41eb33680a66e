------------------------ MODULE TerminalStreamProofs ------------------------
(***************************************************************************)
(* That the output of any stream arrives as TerminalStream says, wherever  *)
(* the reads cut it and however long it is.  Places among the elements of  *)
(* a set (Rank, Nth) take the part of an induction over sequences.  The    *)
(* line is a tail of the bytes that were printed, so that a read takes the *)
(* first bytes of what a character has left; and while a character is half *)
(* read, the marks that stand for it and its bytes that are left are       *)
(* together no more than its bytes (OutputInv).                            *)
(***************************************************************************)
EXTENDS TerminalStream, FiniteSetTheorems, SequenceTheorems, FunctionTheorems, TLAPS

-----------------------------------------------------------------------------
(* Places and counts *)

Count(s, x) == Cardinality({k \in DOMAIN s : s[k] = x})

\* The places of the elements of S are the numbers up to its size, in the order of
\* the elements.
LEMMA RankProperties ==
    ASSUME NEW S \in SUBSET Nat, IsFiniteSet(S)
    PROVE  /\ \A k \in S : Rank(k, S) \in 1 .. Cardinality(S)
           /\ \A k, l \in S : k < l => Rank(k, S) < Rank(l, S)
           /\ \A k, l \in S : Rank(k, S) = Rank(l, S) => k = l
           /\ \A n \in 1 .. Cardinality(S) : \E k \in S : Rank(k, S) = n
<1> DEFINE upto(k) == {l \in S : l <= k}
<1>1. Cardinality(S) \in Nat
  BY FS_CardinalityType
<1>2. \A k : IsFiniteSet(upto(k)) /\ Cardinality(upto(k)) \in Nat /\ Cardinality(upto(k)) <= Cardinality(S)
  <2> TAKE k
  <2>1. upto(k) \in SUBSET S
    OBVIOUS
  <2>2. IsFiniteSet(upto(k)) /\ Cardinality(upto(k)) <= Cardinality(S)
    BY <2>1, FS_Subset
  <2>3. QED
    BY <2>2, FS_CardinalityType
<1>3. ASSUME NEW k \in S
      PROVE  Rank(k, S) \in 1 .. Cardinality(S)
  <2>1. k \in upto(k)
    OBVIOUS
  <2>2. Cardinality(upto(k)) # 0
    BY <1>2, <2>1, FS_EmptySet
  <2>3. QED
    BY <1>1, <1>2, <2>2 DEF Rank
<1>4. ASSUME NEW k \in S, NEW l \in S, k < l
      PROVE  Rank(k, S) < Rank(l, S)
  <2>1. upto(k) \in SUBSET upto(l) /\ l \in upto(l) /\ l \notin upto(k)
    <3>1. \A m \in S : m \in Nat
      OBVIOUS
    <3>2. \A m \in S : m <= k => m <= l
      BY <1>4, <3>1
    <3>3. l <= l /\ ~ (l <= k)
      BY <1>4, <3>1
    <3>4. QED
      BY <3>2, <3>3
  <2>2. Cardinality(upto(k)) <= Cardinality(upto(l))
    BY <1>2, <2>1, FS_Subset
  <2>3. Cardinality(upto(k)) # Cardinality(upto(l))
    BY <1>2, <2>1, FS_Subset
  <2>4. QED
    BY <1>2, <2>2, <2>3 DEF Rank
<1>5. ASSUME NEW k \in S, NEW l \in S, Rank(k, S) = Rank(l, S)
      PROVE  k = l
  <2>1. ~ (k < l) /\ ~ (l < k)
    BY <1>1, <1>3, <1>4, <1>5
  <2>2. QED
    BY <2>1
<1>6. \A n \in 1 .. Cardinality(S) : \E k \in S : Rank(k, S) = n
  <2> DEFINE f == [k \in S |-> Rank(k, S)]
  <2>1. f \in Injection(S, 1 .. Cardinality(S))
    BY <1>3, <1>5 DEF Injection, IsInjective
  <2>2. IsFiniteSet(1 .. Cardinality(S)) /\ Cardinality(1 .. Cardinality(S)) = Cardinality(S)
    BY <1>1, FS_Interval
  <2>3. f \in Surjection(S, 1 .. Cardinality(S))
    BY <2>1, <2>2, FS_Injection
  <2>4. \A n \in 1 .. Cardinality(S) : \E k \in S : f[k] = n
    <3> HIDE DEF f
    <3> QED
      BY <2>3, Fun_SurjectionProperties
  <2>5. QED
    BY <2>4
<1>7. QED
  BY <1>3, <1>4, <1>5, <1>6

\* Nth is the inverse of Rank.
LEMMA NthProperties ==
    ASSUME NEW S \in SUBSET Nat, IsFiniteSet(S)
    PROVE  /\ \A n \in 1 .. Cardinality(S) : Nth(n, S) \in S /\ Rank(Nth(n, S), S) = n
           /\ \A k \in S : Nth(Rank(k, S), S) = k
           /\ \A m, n \in 1 .. Cardinality(S) : m < n => Nth(m, S) < Nth(n, S)
<1>1. ASSUME NEW n \in 1 .. Cardinality(S)
      PROVE  Nth(n, S) \in S /\ Rank(Nth(n, S), S) = n
  <2>1. \E k \in S : Rank(k, S) = n
    BY RankProperties
  <2>2. QED
    BY <2>1 DEF Nth
<1>2. ASSUME NEW k \in S
      PROVE  Nth(Rank(k, S), S) = k
  <2>1. Rank(k, S) \in 1 .. Cardinality(S)
    BY RankProperties
  <2>2. Nth(Rank(k, S), S) \in S /\ Rank(Nth(Rank(k, S), S), S) = Rank(k, S)
    BY <1>1, <2>1
  <2>3. QED
    BY <2>2, RankProperties
<1>3. ASSUME NEW m \in 1 .. Cardinality(S), NEW n \in 1 .. Cardinality(S), m < n
      PROVE  Nth(m, S) < Nth(n, S)
  <2>1. /\ Nth(m, S) \in S /\ Rank(Nth(m, S), S) = m
        /\ Nth(n, S) \in S /\ Rank(Nth(n, S), S) = n
    BY <1>1
  <2>2. Nth(m, S) # Nth(n, S)
    BY <1>3, <2>1
  <2>3. ~ (Nth(n, S) < Nth(m, S))
    <3>1. Nth(n, S) < Nth(m, S) => Rank(Nth(n, S), S) < Rank(Nth(m, S), S)
      BY <2>1, RankProperties
    <3>2. QED
      BY <1>3, <2>1, <3>1
  <2>4. Nth(m, S) \in Nat /\ Nth(n, S) \in Nat
    BY <2>1
  <2>5. QED
    BY <2>2, <2>3, <2>4
<1>4. QED
  BY <1>1, <1>2, <1>3

\* A bijection given by its values.
LEMMA SameSize ==
    ASSUME NEW S, IsFiniteSet(S), NEW T, NEW f \in [S -> T],
           \A a, b \in S : f[a] = f[b] => a = b,
           \A y \in T : \E a \in S : f[a] = y
    PROVE  IsFiniteSet(T) /\ Cardinality(T) = Cardinality(S)
<1>1. f \in Bijection(S, T)
  BY Fun_IsBij
<1>2. ExistsBijection(S, T)
  BY <1>1, Fun_ExistsBij
<1>3. QED
  BY <1>2, FS_Bijection

LEMMA CountIsFinite ==
    ASSUME NEW X, NEW s \in Seq(X), NEW x
    PROVE  IsFiniteSet({k \in DOMAIN s : s[k] = x}) /\ Count(s, x) \in Nat
<1>1. IsFiniteSet(1 .. Len(s))
  BY FS_Interval
<1>2. {k \in DOMAIN s : s[k] = x} \in SUBSET (1 .. Len(s))
  OBVIOUS
<1>3. IsFiniteSet({k \in DOMAIN s : s[k] = x})
  BY <1>1, <1>2, FS_Subset
<1>4. QED
  BY <1>3, FS_CardinalityType DEF Count

LEMMA CountConcat ==
    ASSUME NEW X, NEW s \in Seq(X), NEW t \in Seq(X), NEW x
    PROVE  Count(s \o t, x) = Count(s, x) + Count(t, x)
<1> DEFINE A == {k \in DOMAIN s : s[k] = x}
           B == {k \in DOMAIN t : t[k] = x}
           C == {k \in DOMAIN (s \o t) : (s \o t)[k] = x}
           D == C \ A
           shift == [k \in B |-> Len(s) + k]
<1>1. IsFiniteSet(A) /\ IsFiniteSet(B) /\ Cardinality(A) \in Nat /\ Cardinality(B) \in Nat
  BY CountIsFinite DEF Count
<1>2. /\ DOMAIN (s \o t) = 1 .. Len(s) + Len(t)
      /\ \A k \in 1 .. Len(s) : (s \o t)[k] = s[k]
      /\ \A k \in 1 .. Len(t) : (s \o t)[Len(s) + k] = t[k]
  OBVIOUS
<1>3. A \subseteq C
  BY <1>2
<1>4. D = {k \in Len(s) + 1 .. Len(s) + Len(t) : t[k - Len(s)] = x}
  OBVIOUS
<1>5. shift \in [B -> D]
  BY <1>4
<1>6. \A y \in D : \E k \in B : shift[k] = y
  <2> TAKE y \in D
  <2>1. y - Len(s) \in B /\ shift[y - Len(s)] = y
    BY <1>4
  <2>2. QED
    BY <2>1
<1>7. \A k, l \in B : shift[k] = shift[l] => k = l
  OBVIOUS
<1>8. IsFiniteSet(D) /\ Cardinality(D) = Cardinality(B)
  <2> HIDE DEF D, shift, B
  <2> QED
    BY <1>1, <1>5, <1>6, <1>7, SameSize
<1>9. C = A \cup D /\ A \cap D = {}
  BY <1>3
<1>10. Cardinality(C) = Cardinality(A) + Cardinality(D) - Cardinality(A \cap D)
  <2> HIDE DEF A, D, C
  <2> QED
    BY <1>1, <1>8, <1>9, FS_Union
<1>11. Cardinality(A \cap D) = 0
  BY <1>9, FS_EmptySet
<1>12. Cardinality(C) = Cardinality(A) + Cardinality(B)
  <2> HIDE DEF A, B, C, D
  <2> QED
    BY <1>1, <1>8, <1>10, <1>11
<1>13. QED
  BY <1>12 DEF Count

-----------------------------------------------------------------------------
(* Output: the invariant *)

PieceType == [char : Nat, good : BOOLEAN]

StreamTypes ==
    /\ printed \in Seq(DOMAIN Width)
    /\ line \in Seq(Nat \X Nat)
    /\ frames \in Seq(Seq(PieceType))
    /\ display \in Seq(PieceType)

IsByte(b)    == b[1] \in DOMAIN printed /\ b[2] \in 1 .. Width[printed[b[1]]]
Before(a, b) == a[1] < b[1] \/ (a[1] = b[1] /\ a[2] < b[2])

\* Bytes in the order in which they were printed.
InByteOrder(bytes) ==
    /\ \A k \in DOMAIN bytes : IsByte(bytes[k])
    /\ \A k, l \in DOMAIN bytes : k < l => Before(bytes[k], bytes[l])

\* The line holds the last of the bytes that were printed, all from some byte on.
LineIsTail ==
    /\ InByteOrder(line)
    /\ \A k \in DOMAIN line : \A i \in DOMAIN printed : \A j \in 1 .. Width[printed[i]] :
          Before(line[k], <<i, j>>) => <<i, j>> \in Range(line)

Unread(i) == {j \in 1 .. Width[printed[i]] : <<i, j>> \in Range(line)}

InObject(i) == \E f \in DOMAIN frames : IsObject(Kinds(frames[f])) /\ Good(i) \in Range(frames[f])

\* What has become of character i: of one that is half read, a mark for each byte at
\* the most, and one at least.
Delivered(i) ==
    \/ /\ Unread(i) = 1 .. Width[printed[i]]
       /\ Pieces(i, TRUE) = 0 /\ Pieces(i, FALSE) = 0
    \/ /\ Unread(i) # {}
       /\ Pieces(i, TRUE) = 0 /\ Pieces(i, FALSE) >= 1
       /\ Pieces(i, FALSE) + Cardinality(Unread(i)) <= Width[printed[i]]
    \/ /\ Unread(i) = {}
       /\ \/ Pieces(i, TRUE) = 1 /\ Pieces(i, FALSE) = 0
          \/ Pieces(i, TRUE) = 0 /\ Pieces(i, FALSE) \in 2 .. Width[printed[i]]
          \/ Pieces(i, TRUE) = 0 /\ Pieces(i, FALSE) = 0 /\ InObject(i)

PiecesArePrinted ==
    /\ \A k \in DOMAIN display : display[k].char \in DOMAIN printed
    /\ \A f \in DOMAIN frames : \A k \in DOMAIN frames[f] : frames[f][k].char \in DOMAIN printed

OutputInv ==
    /\ StreamTypes
    /\ LineIsTail
    /\ PiecesArePrinted
    /\ InOrder
    /\ \A i \in DOMAIN printed : Delivered(i)

-----------------------------------------------------------------------------
(* Output: what a chunk decodes to *)

LEMMA WidthsAreNat ==
    ASSUME printed \in Seq(DOMAIN Width), NEW i \in DOMAIN printed
    PROVE  Width[printed[i]] \in 1 .. 4 /\ i \in Nat
<1>1. i \in 1 .. Len(printed) /\ Len(printed) \in Nat
  BY LenProperties
<1>2. printed[i] \in DOMAIN Width
  BY <1>1, ElementOfSeq
<1>3. \A K : Width \in [K -> 1 .. 4] => \A k \in K : Width[k] \in 1 .. 4
  OBVIOUS
<1>4. Width \in [DOMAIN Width -> 1 .. 4]
  BY WidthAssumption
<1>5. \A k \in DOMAIN Width : Width[k] \in 1 .. 4
  BY <1>3, <1>4, Zenon
<1>6. QED
  BY <1>1, <1>2, <1>5

LEMMA ByteInRange ==
    ASSUME NEW bytes \in Seq(Nat \X Nat), NEW i, NEW j
    PROVE  <<i, j>> \in Range(bytes) <=> \E k \in DOMAIN bytes : bytes[k][1] = i /\ bytes[k][2] = j
<1>1. \A k \in DOMAIN bytes : bytes[k] = <<bytes[k][1], bytes[k][2]>>
  <2> TAKE k \in DOMAIN bytes
  <2>1. bytes[k] \in Nat \X Nat
    BY ElementOfSeq
  <2>2. QED
    BY <2>1
<1>2. QED
  BY <1>1 DEF Range

\* Where the pieces of a chunk begin, and which piece begins there.
LEMMA DecodeShape ==
    ASSUME NEW chunk \in Seq(Nat \X Nat)
    PROVE  LET begins == {k \in DOMAIN chunk : Begins(chunk, k)} IN
           /\ begins \in SUBSET Nat /\ IsFiniteSet(begins) /\ Cardinality(begins) \in Nat
           /\ Decode(chunk) \in Seq(PieceType)
           /\ DOMAIN Decode(chunk) = 1 .. Cardinality(begins)
           /\ \A n \in 1 .. Cardinality(begins) :
                /\ Nth(n, begins) \in begins
                /\ Decode(chunk)[n] = Piece(chunk, chunk[Nth(n, begins)][1])
                /\ Rank(Nth(n, begins), begins) = n
           /\ \A k \in begins : /\ Rank(k, begins) \in 1 .. Cardinality(begins)
                                /\ Nth(Rank(k, begins), begins) = k
           /\ \A m, n \in 1 .. Cardinality(begins) : m < n => Nth(m, begins) < Nth(n, begins)
<1> DEFINE begins == {k \in DOMAIN chunk : Begins(chunk, k)}
<1>1. begins \in SUBSET (1 .. Len(chunk)) /\ Len(chunk) \in Nat
  OBVIOUS
<1>2. begins \in SUBSET Nat /\ IsFiniteSet(begins) /\ Cardinality(begins) \in Nat
  <2>1. IsFiniteSet(1 .. Len(chunk))
    BY <1>1, FS_Interval
  <2>2. QED
    BY <1>1, <2>1, FS_Subset, FS_CardinalityType
<1>3. /\ \A n \in 1 .. Cardinality(begins) : Nth(n, begins) \in begins /\ Rank(Nth(n, begins), begins) = n
      /\ \A k \in begins : /\ Rank(k, begins) \in 1 .. Cardinality(begins)
                           /\ Nth(Rank(k, begins), begins) = k
      /\ \A m, n \in 1 .. Cardinality(begins) : m < n => Nth(m, begins) < Nth(n, begins)
  <2> HIDE DEF begins
  <2> QED
    BY <1>2, RankProperties, NthProperties
<1>4. Decode(chunk) = [n \in 1 .. Cardinality(begins) |-> Piece(chunk, chunk[Nth(n, begins)][1])]
  BY DEF Decode
<1>5. \A n \in 1 .. Cardinality(begins) : Piece(chunk, chunk[Nth(n, begins)][1]) \in PieceType
  <2> TAKE n \in 1 .. Cardinality(begins)
  <2>1. Nth(n, begins) \in 1 .. Len(chunk)
    BY <1>1, <1>3
  <2>2. chunk[Nth(n, begins)] \in Nat \X Nat
    BY <2>1, ElementOfSeq
  <2>3. QED
    BY <2>2 DEF Piece, Good, Mark, PieceType
<1>6. Decode(chunk) \in Seq(PieceType) /\ DOMAIN Decode(chunk) = 1 .. Cardinality(begins)
  <2> HIDE DEF begins
  <2> QED
    BY <1>2, <1>4, <1>5
<1>7. \A n \in 1 .. Cardinality(begins) : Decode(chunk)[n] = Piece(chunk, chunk[Nth(n, begins)][1])
  BY <1>4
<1>8. QED
  BY <1>2, <1>3, <1>6, <1>7

\* In a chunk in order, one byte of a character at most is its first.
LEMMA BytesDiffer ==
    ASSUME NEW chunk \in Seq(Nat \X Nat), InByteOrder(chunk),
           NEW k \in DOMAIN chunk, NEW l \in DOMAIN chunk,
           chunk[k][1] = chunk[l][1], chunk[k][2] = chunk[l][2]
    PROVE  k = l
<1>1. chunk[k] \in Nat \X Nat /\ chunk[l] \in Nat \X Nat /\ k \in Nat /\ l \in Nat
  BY ElementOfSeq
<1>2. ~ Before(chunk[k], chunk[l]) /\ ~ Before(chunk[l], chunk[k])
  BY <1>1 DEF Before
<1>3. QED
  BY <1>1, <1>2 DEF InByteOrder

\* The pieces of a chunk are in order, and of the same character there are several
\* only if they are marks.
LEMMA DecodeInOrder ==
    ASSUME printed \in Seq(DOMAIN Width),
           NEW chunk \in Seq(Nat \X Nat), InByteOrder(chunk),
           NEW m \in DOMAIN Decode(chunk), NEW n \in DOMAIN Decode(chunk), m < n
    PROVE  \/ Decode(chunk)[m].char < Decode(chunk)[n].char
           \/ Decode(chunk)[m].char = Decode(chunk)[n].char /\ ~ Decode(chunk)[m].good
<1> DEFINE begins == {k \in DOMAIN chunk : Begins(chunk, k)}
           k == Nth(m, begins)
           l == Nth(n, begins)
<1>1. /\ k \in DOMAIN chunk /\ l \in DOMAIN chunk /\ k < l
      /\ Begins(chunk, k) /\ Begins(chunk, l)
      /\ Decode(chunk)[m] = Piece(chunk, chunk[k][1])
      /\ Decode(chunk)[n] = Piece(chunk, chunk[l][1])
  BY DecodeShape
<1> HIDE DEF k, l
<1>2. Before(chunk[k], chunk[l]) /\ IsByte(chunk[k])
  BY <1>1 DEF InByteOrder
<1>3. Decode(chunk)[m].char = chunk[k][1] /\ Decode(chunk)[n].char = chunk[l][1]
  BY <1>1 DEF Piece, Good, Mark
<1>4. CASE chunk[k][1] < chunk[l][1]
  BY <1>3, <1>4
<1>5. CASE chunk[k][1] = chunk[l][1] /\ chunk[k][2] < chunk[l][2]
  <2>1. chunk[l][2] # 1
    <3>1. chunk[k] \in Nat \X Nat /\ chunk[k][2] >= 1
      BY <1>1, <1>2, ElementOfSeq DEF IsByte
    <3>2. chunk[l] \in Nat \X Nat
      BY <1>1, ElementOfSeq
    <3>3. QED
      BY <1>5, <3>1, <3>2
  <2>2. <<chunk[k][1], 1>> \notin Range(chunk)
    BY <1>1, <1>5, <2>1 DEF Begins
  <2>3. 1 \in 1 .. Width[printed[chunk[k][1]]]
    <3>1. chunk[k][1] \in DOMAIN printed
      BY <1>2 DEF IsByte
    <3>2. Width[printed[chunk[k][1]]] \in 1 .. 4
      BY <3>1, WidthsAreNat
    <3>3. QED
      BY <3>2
  <2>4. ~ Whole(chunk, chunk[k][1])
    BY <2>2, <2>3 DEF Whole
  <2>5. QED
    BY <1>1, <1>3, <1>5, <2>4 DEF Piece, Mark
<1>6. QED
  BY <1>2, <1>4, <1>5 DEF Before

\* A character has as many pieces as begin at its bytes, and they are alike.
LEMMA DecodeCount ==
    ASSUME NEW chunk \in Seq(Nat \X Nat), NEW i
    PROVE  /\ Count(Decode(chunk), Piece(chunk, i))
                = Cardinality({k \in DOMAIN chunk : Begins(chunk, k) /\ chunk[k][1] = i})
           /\ \A x : x.char = i /\ x # Piece(chunk, i) => Count(Decode(chunk), x) = 0
<1> DEFINE begins == {k \in DOMAIN chunk : Begins(chunk, k)}
           text == Decode(chunk)
           P == {n \in DOMAIN text : text[n] = Piece(chunk, i)}
           Q == {k \in DOMAIN chunk : Begins(chunk, k) /\ chunk[k][1] = i}
           f == [n \in P |-> Nth(n, begins)]
<1>1. /\ text \in Seq(PieceType) /\ DOMAIN text = 1 .. Cardinality(begins)
      /\ \A n \in DOMAIN text : /\ Nth(n, begins) \in begins
                                /\ text[n] = Piece(chunk, chunk[Nth(n, begins)][1])
                                /\ Rank(Nth(n, begins), begins) = n
      /\ \A k \in begins : Rank(k, begins) \in DOMAIN text /\ Nth(Rank(k, begins), begins) = k
  BY DecodeShape
<1>2. \A c : Piece(chunk, c).char = c
  BY DEF Piece, Good, Mark
<1>3. \A n \in DOMAIN text : text[n].char = chunk[Nth(n, begins)][1]
  BY <1>1, <1>2
<1>4. f \in [P -> Q]
  BY <1>1, <1>2, <1>3
<1>5. \A m, n \in P : f[m] = f[n] => m = n
  <2> TAKE m, n \in P
  <2>1. f[m] = Nth(m, begins) /\ f[n] = Nth(n, begins)
    OBVIOUS
  <2>2. Rank(Nth(m, begins), begins) = m /\ Rank(Nth(n, begins), begins) = n
    BY <1>1
  <2> HIDE DEF f, begins
  <2>3. QED
    BY <2>1, <2>2
<1>6. \A k \in Q : \E n \in P : f[n] = k
  <2> TAKE k \in Q
  <2>1. k \in begins /\ Rank(k, begins) \in DOMAIN text /\ Nth(Rank(k, begins), begins) = k
    BY <1>1
  <2>2. text[Rank(k, begins)] = Piece(chunk, chunk[k][1])
    BY <1>1, <2>1
  <2>3. Rank(k, begins) \in P
    BY <2>1, <2>2
  <2>4. QED
    BY <2>1, <2>3
<1>7. IsFiniteSet(P)
  BY <1>1, CountIsFinite
<1>8. Cardinality(P) = Cardinality(Q)
  <2> HIDE DEF P, Q, f
  <2> QED
    BY <1>4, <1>5, <1>6, <1>7, SameSize
<1>9. ASSUME NEW x, x.char = i, x # Piece(chunk, i)
      PROVE  Count(text, x) = 0
  <2>1. {n \in DOMAIN text : text[n] = x} = {}
    BY <1>1, <1>3, <1>9
  <2>2. QED
    BY <2>1, FS_EmptySet DEF Count
<1>10. QED
  BY <1>8, <1>9 DEF Count

\* The bytes of character i in a chunk.
Taken(chunk, i) == {j \in 1 .. Width[printed[i]] : <<i, j>> \in Range(chunk)}

\* What each character comes to: itself, a mark for what has no end, or a mark for each
\* of the bytes that have no beginning.
LEMMA DecodePieces ==
    ASSUME printed \in Seq(DOMAIN Width),
           NEW chunk \in Seq(Nat \X Nat), InByteOrder(chunk), NEW i \in DOMAIN printed
    PROVE  LET text == Decode(chunk) IN
           /\ Taken(chunk, i) = 1 .. Width[printed[i]] =>
                 Count(text, Good(i)) = 1 /\ Count(text, Mark(i)) = 0
           /\ Taken(chunk, i) # 1 .. Width[printed[i]] /\ 1 \in Taken(chunk, i) =>
                 Count(text, Good(i)) = 0 /\ Count(text, Mark(i)) = 1
           /\ 1 \notin Taken(chunk, i) =>
                 Count(text, Good(i)) = 0 /\ Count(text, Mark(i)) = Cardinality(Taken(chunk, i))
<1> DEFINE text == Decode(chunk)
           W == Width[printed[i]]
           J == Taken(chunk, i)
           Q == {k \in DOMAIN chunk : Begins(chunk, k) /\ chunk[k][1] = i}
<1>1. W \in 1 .. 4 /\ i \in Nat
  BY WidthsAreNat
<1>2. Whole(chunk, i) <=> J = 1 .. W
  BY DEF Whole, Taken
<1>3. /\ Count(text, Piece(chunk, i)) = Cardinality(Q)
      /\ \A x : x.char = i /\ x # Piece(chunk, i) => Count(text, x) = 0
  BY DecodeCount
<1>4. Good(i).char = i /\ Mark(i).char = i /\ Good(i) # Mark(i)
  BY DEF Good, Mark
<1>5. \A j : j \in J <=> j \in 1 .. W /\ \E k \in DOMAIN chunk : chunk[k][1] = i /\ chunk[k][2] = j
  BY ByteInRange DEF Taken
<1>6. \A k \in DOMAIN chunk : chunk[k][1] = i => chunk[k][2] \in J
  BY <1>5 DEF InByteOrder, IsByte
<1>7. ASSUME 1 \in J
      PROVE  Cardinality(Q) = 1
  <2>1. PICK k \in DOMAIN chunk : chunk[k][1] = i /\ chunk[k][2] = 1
    BY <1>5, <1>7
  <2>2. k \in Q
    BY <2>1 DEF Begins
  <2>3. ASSUME NEW l \in Q
        PROVE  l = k
    <3>1. <<i, 1>> \in Range(chunk)
      BY <1>7 DEF Taken
    <3>2. chunk[l][1] = i /\ chunk[l][2] = 1 /\ l \in DOMAIN chunk
      BY <3>1 DEF Begins
    <3>3. QED
      BY <2>1, <3>2, BytesDiffer
  <2>4. Q = {k}
    BY <2>2, <2>3
  <2>5. QED
    BY <2>4, FS_Singleton
<1>8. ASSUME 1 \notin J
      PROVE  Cardinality(Q) = Cardinality(J)
  <2> DEFINE f == [k \in Q |-> chunk[k][2]]
  <2>1. <<i, 1>> \notin Range(chunk)
    BY <1>1, <1>8 DEF Taken
  <2>2. Q = {k \in DOMAIN chunk : chunk[k][1] = i}
    BY <2>1 DEF Begins
  <2>3. f \in [Q -> J]
    BY <1>6, <2>2
  <2>4. \A k, l \in Q : f[k] = f[l] => k = l
    BY <2>2, BytesDiffer
  <2>5. \A j \in J : \E k \in Q : f[k] = j
    BY <1>5, <2>2
  <2>6. IsFiniteSet(Q)
    <3>1. Q \in SUBSET (1 .. Len(chunk)) /\ Len(chunk) \in Nat
      OBVIOUS
    <3>2. IsFiniteSet(1 .. Len(chunk))
      <4>1. 1 \in Int /\ Len(chunk) \in Int
        BY <3>1
      <4>2. QED
        BY <4>1, FS_Interval, Zenon
    <3>3. QED
      BY <3>1, <3>2, FS_Subset
  <2>7. QED
    <3> HIDE DEF Q, f, J
    <3> QED
      BY <2>3, <2>4, <2>5, <2>6, SameSize
<1>9. CASE J = 1 .. W
  <2>1. Piece(chunk, i) = Good(i) /\ 1 \in J
    BY <1>1, <1>2, <1>9 DEF Piece
  <2>2. QED
    BY <1>3, <1>4, <1>7, <1>9, <2>1
<1>10. CASE J # 1 .. W
  <2>1. Piece(chunk, i) = Mark(i)
    BY <1>2, <1>10 DEF Piece
  <2>2. QED
    BY <1>3, <1>4, <1>7, <1>8, <1>10, <2>1
<1>11. QED
  BY <1>9, <1>10

LEMMA DecodeChars ==
    ASSUME NEW chunk \in Seq(Nat \X Nat), NEW n \in DOMAIN Decode(chunk)
    PROVE  \E k \in DOMAIN chunk : Decode(chunk)[n].char = chunk[k][1]
<1> DEFINE begins == {k \in DOMAIN chunk : Begins(chunk, k)}
<1>1. /\ Nth(n, begins) \in DOMAIN chunk
      /\ Decode(chunk)[n] = Piece(chunk, chunk[Nth(n, begins)][1])
  BY DecodeShape
<1>2. Decode(chunk)[n].char = chunk[Nth(n, begins)][1]
  BY <1>1 DEF Piece, Good, Mark
<1>3. QED
  BY <1>1, <1>2

-----------------------------------------------------------------------------
(* Output: a read cuts the line in two *)

LEMMA LineIsCut ==
    ASSUME StreamTypes, InByteOrder(line), NEW n \in 1 .. Len(line)
    PROVE  LET chunk == SubSeq(line, 1, n)
               rest  == SubSeq(line, n + 1, Len(line))
           IN  /\ chunk \in Seq(Nat \X Nat) /\ Len(chunk) = n
               /\ rest \in Seq(Nat \X Nat) /\ Len(rest) = Len(line) - n
               /\ DOMAIN chunk = 1 .. n /\ DOMAIN rest = 1 .. Len(line) - n
               /\ \A k \in DOMAIN chunk : k \in DOMAIN line /\ chunk[k] = line[k]
               /\ \A k \in DOMAIN rest : n + k \in DOMAIN line /\ rest[k] = line[n + k]
               /\ InByteOrder(chunk) /\ InByteOrder(rest)
               /\ \A i, j : <<i, j>> \in Range(line) <=>
                               <<i, j>> \in Range(chunk) \/ <<i, j>> \in Range(rest)
               /\ \A k \in DOMAIN chunk : \A l \in DOMAIN rest : Before(chunk[k], rest[l])
<1> DEFINE chunk == SubSeq(line, 1, n)
           rest  == SubSeq(line, n + 1, Len(line))
<1>1. /\ line \in Seq(Nat \X Nat) /\ Len(line) \in Nat /\ DOMAIN line = 1 .. Len(line)
      /\ n \in Nat /\ n <= Len(line) /\ 1 <= n
      /\ \A k \in 1 .. Len(line) : line[k] \in Nat \X Nat
  BY ElementOfSeq DEF StreamTypes
<1>2. /\ chunk \in Seq(Nat \X Nat) /\ Len(chunk) = n /\ \A k \in 1 .. n : chunk[k] = line[k]
  <2>1. \A k \in 1 .. n : line[k] \in Nat \X Nat
    BY <1>1
  <2>2. QED
    BY <1>1, <2>1, SubSeqProperties
<1>3. /\ rest \in Seq(Nat \X Nat) /\ Len(rest) = Len(line) - n
      /\ \A k \in 1 .. Len(line) - n : rest[k] = line[n + k]
  <2> DEFINE m == n + 1
             N == Len(line)
             tail == SubSeq(line, m, N)
  <2>1. m \in Int /\ N \in Int /\ m <= N + 1 /\ N - m + 1 = N - n
    BY <1>1
  <2>2. \A k \in m .. N : line[k] \in Nat \X Nat
    BY <1>1
  <2> HIDE DEF m, N
  <2>3. /\ tail \in Seq(Nat \X Nat)
        /\ Len(tail) = IF m <= N THEN N - m + 1 ELSE 0
        /\ \A k \in 1 .. N - m + 1 : tail[k] = line[m + k - 1]
    BY <2>1, <2>2, SubSeqProperties
  <2>4. Len(tail) = N - m + 1
    BY <2>1, <2>3
  <2>5. \A k \in 1 .. N - n : tail[k] = line[m + k - 1]
    BY <2>1, <2>3
  <2>6. \A k \in Nat : m + k - 1 = n + k
    BY <1>1 DEF m
  <2>7. \A k \in 1 .. N - n : k \in Nat
    BY <1>1 DEF N
  <2>8. rest = tail
    BY DEF m, N
  <2> HIDE DEF tail
  <2>9. Len(rest) = N - n /\ \A k \in 1 .. N - n : rest[k] = line[n + k]
    BY <2>1, <2>4, <2>5, <2>6, <2>7, <2>8
  <2>10. QED
    BY <2>3, <2>8, <2>9 DEF N
<1>4. DOMAIN chunk = 1 .. n /\ DOMAIN rest = 1 .. Len(line) - n
  BY <1>2, <1>3, LenProperties
<1> HIDE DEF chunk, rest
<1>5. /\ \A k \in DOMAIN chunk : k \in DOMAIN line /\ chunk[k] = line[k]
      /\ \A k \in DOMAIN rest : n + k \in DOMAIN line /\ rest[k] = line[n + k]
  <2>1. \A k \in 1 .. n : k \in 1 .. Len(line)
    BY <1>1
  <2>2. \A k \in 1 .. Len(line) - n : n + k \in 1 .. Len(line)
    BY <1>1
  <2>3. QED
    BY <1>1, <1>2, <1>3, <1>4, <2>1, <2>2
<1>6. InByteOrder(chunk)
  <2>1. \A k \in DOMAIN chunk : IsByte(chunk[k])
    BY <1>5 DEF InByteOrder
  <2>2. \A k, l \in DOMAIN chunk : k < l => Before(chunk[k], chunk[l])
    BY <1>5 DEF InByteOrder
  <2>3. QED
    BY <2>1, <2>2 DEF InByteOrder
<1>7. InByteOrder(rest)
  <2>1. \A k \in DOMAIN rest : IsByte(rest[k])
    BY <1>5 DEF InByteOrder
  <2>2. ASSUME NEW k \in DOMAIN rest, NEW l \in DOMAIN rest, k < l
        PROVE  Before(rest[k], rest[l])
    <3>1. n + k \in DOMAIN line /\ n + l \in DOMAIN line /\ n + k < n + l
      BY <1>1, <1>4, <1>5, <2>2
    <3>2. Before(line[n + k], line[n + l])
      BY <3>1 DEF InByteOrder
    <3>3. QED
      BY <1>5, <3>2
  <2>3. QED
    BY <2>1, <2>2 DEF InByteOrder
<1>8. ASSUME NEW i, NEW j
      PROVE  <<i, j>> \in Range(line) <=> <<i, j>> \in Range(chunk) \/ <<i, j>> \in Range(rest)
  <2>1. ASSUME <<i, j>> \in Range(line)
        PROVE  <<i, j>> \in Range(chunk) \/ <<i, j>> \in Range(rest)
    <3>1. PICK k \in DOMAIN line : line[k] = <<i, j>>
      BY <2>1 DEF Range
    <3>2. CASE k <= n
      <4>1. k \in DOMAIN chunk
        BY <1>1, <1>4, <3>2
      <4>2. QED
        BY <1>5, <3>1, <4>1 DEF Range
    <3>3. CASE k > n
      <4>1. k - n \in DOMAIN rest /\ n + (k - n) = k
        <5>1. k \in Nat /\ k <= Len(line)
          BY <1>1
        <5>2. k - n \in 1 .. Len(line) - n /\ n + (k - n) = k
          BY <1>1, <3>3, <5>1
        <5>3. QED
          BY <1>4, <5>2
      <4>2. rest[k - n] = <<i, j>>
        BY <1>5, <3>1, <4>1
      <4>3. QED
        BY <4>1, <4>2 DEF Range
    <3>4. QED
      BY <1>1, <3>2, <3>3
  <2>2. <<i, j>> \in Range(chunk) => <<i, j>> \in Range(line)
    BY <1>5 DEF Range
  <2>3. <<i, j>> \in Range(rest) => <<i, j>> \in Range(line)
    BY <1>5 DEF Range
  <2>4. QED
    BY <2>1, <2>2, <2>3
<1>9. ASSUME NEW k \in DOMAIN chunk, NEW l \in DOMAIN rest
      PROVE  Before(chunk[k], rest[l])
  <2>1. k \in DOMAIN line /\ n + l \in DOMAIN line /\ k < n + l
    BY <1>1, <1>4, <1>5
  <2>2. Before(line[k], line[n + l])
    BY <2>1 DEF InByteOrder
  <2>3. QED
    BY <1>5, <2>2
<1>10. QED
  BY <1>2, <1>3, <1>4, <1>5, <1>6, <1>7, <1>8, <1>9 DEF chunk, rest

\* What remains is again the last of the bytes.
LEMMA RestIsTail ==
    ASSUME StreamTypes, LineIsTail, NEW n \in 1 .. Len(line), UNCHANGED printed,
           line' = SubSeq(line, n + 1, Len(line))
    PROVE  LineIsTail'
<1> DEFINE chunk == SubSeq(line, 1, n)
           rest  == SubSeq(line, n + 1, Len(line))
<1>1. /\ rest \in Seq(Nat \X Nat) /\ InByteOrder(rest) /\ chunk \in Seq(Nat \X Nat)
      /\ \A k \in DOMAIN rest : n + k \in DOMAIN line /\ rest[k] = line[n + k]
      /\ \A i, j : <<i, j>> \in Range(line) => <<i, j>> \in Range(chunk) \/ <<i, j>> \in Range(rest)
      /\ \A k \in DOMAIN chunk : \A l \in DOMAIN rest : Before(chunk[k], rest[l])
      /\ \A k \in DOMAIN chunk : chunk[k] \in Nat \X Nat
      /\ \A k \in DOMAIN rest : rest[k] \in Nat \X Nat
  BY LineIsCut, ElementOfSeq DEF LineIsTail
<1> HIDE DEF chunk, rest
<1>2. ASSUME NEW k \in DOMAIN rest, NEW i \in DOMAIN printed,
             NEW j \in 1 .. Width[printed[i]], Before(rest[k], <<i, j>>)
      PROVE  <<i, j>> \in Range(rest)
  <2>1. <<i, j>> \in Range(line)
    BY <1>1, <1>2 DEF LineIsTail
  <2>2. ASSUME <<i, j>> \in Range(chunk)
        PROVE  FALSE
    <3>1. PICK l \in DOMAIN chunk : chunk[l] = <<i, j>>
      BY <2>2 DEF Range
    <3>2. Before(<<i, j>>, rest[k]) /\ rest[k] \in Nat \X Nat /\ <<i, j>> \in Nat \X Nat
      BY <1>1, <3>1
    <3>3. QED
      BY <1>2, <3>2 DEF Before
  <2>3. QED
    BY <1>1, <2>1, <2>2
<1>3. line' = rest
  BY DEF rest
<1>4. InByteOrder(line)'
  BY <1>1, <1>3 DEF InByteOrder, IsByte
<1>5. QED
  BY <1>2, <1>3, <1>4 DEF LineIsTail

-----------------------------------------------------------------------------
(* Output: what is on display is behind what is on the line *)

\* Sizes of sets of bytes of one character.
LEMMA BytesAreFew ==
    ASSUME printed \in Seq(DOMAIN Width), NEW i \in DOMAIN printed,
           NEW J \in SUBSET (1 .. Width[printed[i]])
    PROVE  /\ IsFiniteSet(J) /\ Cardinality(J) \in Nat /\ Width[printed[i]] \in Nat
           /\ Cardinality(J) <= Width[printed[i]]
           /\ Cardinality(J) = Width[printed[i]] <=> J = 1 .. Width[printed[i]]
           /\ Cardinality(J) = 0 <=> J = {}
<1> DEFINE W == Width[printed[i]]
<1>1. W \in 1 .. 4
  BY WidthsAreNat
<1>2. IsFiniteSet(1 .. W) /\ Cardinality(1 .. W) = W
  <2> HIDE DEF W
  <2>1. 1 \in Int /\ W \in Int /\ ~ (1 > W) /\ W - 1 + 1 = W
    BY <1>1
  <2>2. QED
    BY <2>1, FS_Interval
<1>3. IsFiniteSet(J) /\ Cardinality(J) <= W /\ (Cardinality(J) = W => J = 1 .. W)
  BY <1>2, FS_Subset
<1>4. QED
  BY <1>1, <1>2, <1>3, FS_CardinalityType, FS_EmptySet

\* A character whose first byte is on the line, or that comes after a byte on the
\* line, has not been read at all.
LEMMA NothingRead ==
    ASSUME StreamTypes, LineIsTail, NEW i \in DOMAIN printed, NEW k \in DOMAIN line,
           line[k][1] < i \/ (line[k][1] = i /\ line[k][2] = 1)
    PROVE  Unread(i) = 1 .. Width[printed[i]]
<1>1. line[k] \in Nat \X Nat /\ line[k] = <<line[k][1], line[k][2]>>
  <2>1. line[k] \in Nat \X Nat
    BY ElementOfSeq DEF StreamTypes
  <2>2. QED
    BY <2>1
<1>2. Width[printed[i]] \in 1 .. 4
  BY WidthsAreNat DEF StreamTypes
<1>3. ASSUME NEW j \in 1 .. Width[printed[i]]
      PROVE  <<i, j>> \in Range(line)
  <2>1. CASE Before(line[k], <<i, j>>)
    BY <2>1 DEF LineIsTail
  <2>2. CASE ~ Before(line[k], <<i, j>>)
    <3>1. line[k][1] = i /\ line[k][2] = 1 /\ j = 1
      BY <1>1, <1>2, <2>2 DEF Before
    <3>2. QED
      BY <1>1, <3>1 DEF Range
  <2>3. QED
    BY <2>1, <2>2
<1>4. QED
  BY <1>3 DEF Unread

LEMMA DisplayedOnce ==
    ASSUME StreamTypes, NEW k \in DOMAIN display
    PROVE  Pieces(display[k].char, display[k].good) # 0
<1> DEFINE S == {l \in DOMAIN display : display[l] = [char |-> display[k].char, good |-> display[k].good]}
<1>1. display[k] \in PieceType
  BY ElementOfSeq DEF StreamTypes
<1>2. display[k] = [char |-> display[k].char, good |-> display[k].good]
  BY <1>1 DEF PieceType
<1>3. k \in S
  BY <1>2
<1>4. IsFiniteSet(S)
  BY CountIsFinite DEF StreamTypes
<1>5. QED
  BY <1>3, <1>4, FS_EmptySet DEF Pieces

\* Nothing on display is of a later character than a byte on the line, and of the same
\* one there are marks only.
LEMMA DisplayIsBehind ==
    ASSUME OutputInv, NEW k \in DOMAIN display, NEW l \in DOMAIN line
    PROVE  \/ display[k].char < line[l][1]
           \/ display[k].char = line[l][1] /\ ~ display[k].good
<1> DEFINE i == display[k].char
<1>1. StreamTypes /\ LineIsTail /\ i \in DOMAIN printed /\ Delivered(i)
  BY DEF OutputInv, PiecesArePrinted
<1>2. line[l] \in Nat \X Nat /\ i \in Nat /\ display[k].good \in BOOLEAN
  <2>1. line[l] \in Nat \X Nat /\ display[k] \in PieceType
    BY <1>1, ElementOfSeq DEF StreamTypes
  <2>2. QED
    BY <2>1 DEF PieceType
<1>3. Pieces(i, display[k].good) # 0
  BY <1>1, DisplayedOnce
<1>4. Unread(i) \in SUBSET (1 .. Width[printed[i]])
  BY DEF Unread
<1>5. Pieces(i, FALSE) \in Nat
  BY <1>1, CountIsFinite DEF StreamTypes, Pieces, Count
<1>6. ~ (line[l][1] < i)
  <2> SUFFICES ASSUME line[l][1] < i
               PROVE  FALSE
    OBVIOUS
  <2>1. Unread(i) = 1 .. Width[printed[i]]
    BY <1>1, NothingRead
  <2> HIDE DEF i
  <2>2. Width[printed[i]] \in 1 .. 4
    BY <1>1, WidthsAreNat DEF StreamTypes
  <2>3. Unread(i) # {}
    BY <2>1, <2>2
  <2>4. Cardinality(Unread(i)) = Width[printed[i]]
    BY <1>1, <1>4, <2>1, BytesAreFew DEF StreamTypes
  <2>5. ~ (Pieces(i, FALSE) >= 1 /\ Pieces(i, FALSE) + Cardinality(Unread(i)) <= Width[printed[i]])
    <3>1. \A m \in Nat, u, w \in 1 .. 4 : u = w => ~ (m >= 1 /\ m + u <= w)
      OBVIOUS
    <3>2. Cardinality(Unread(i)) \in 1 .. 4
      BY <2>2, <2>4
    <3>3. QED
      BY <1>5, <2>2, <2>4, <3>1, <3>2, Zenon
  <2>6. Pieces(i, TRUE) = 0 /\ Pieces(i, FALSE) = 0
    BY <1>1, <2>3, <2>5 DEF Delivered
  <2>7. QED
    BY <1>2, <1>3, <2>6
<1>7. CASE line[l][1] = i
  <2>1. line[l][2] \in Unread(i)
    <3>1. line[l] \in Range(line) /\ line[l] = <<line[l][1], line[l][2]>>
      BY <1>2 DEF Range
    <3>2. IsByte(line[l])
      BY <1>1 DEF LineIsTail, InByteOrder
    <3>3. QED
      BY <1>7, <3>1, <3>2 DEF IsByte, Unread
  <2>2. Pieces(i, TRUE) = 0
    BY <1>1, <2>1 DEF Delivered
  <2>3. QED
    BY <1>2, <1>3, <1>7, <2>2
<1>8. QED
  BY <1>2, <1>6, <1>7

-----------------------------------------------------------------------------
(* Output: the steps *)

\* A text that is an object has no marks in it.
LEMMA ObjectHasNoMarks ==
    ASSUME NEW text, IsObject(Kinds(text)), NEW k \in DOMAIN text
    PROVE  text[k].good
<1>1. Kinds(text) = <<"{", "}">>
  BY DEF IsObject
<1>2. DOMAIN Kinds(text) = DOMAIN text
  BY DEF Kinds
<1> DEFINE object == <<"{", "}">>
<1>3. DOMAIN object = {1, 2} /\ object[1] # "mark" /\ object[2] # "mark"
  OBVIOUS
<1>4. k \in DOMAIN object /\ Kinds(text) = object
  BY <1>1, <1>2
<1> HIDE DEF object
<1>5. Kinds(text)[k] # "mark"
  BY <1>3, <1>4
<1>6. QED
  BY <1>5 DEF Kinds

LEMMA ForwardsTypes ==
    ASSUME OutputInv, NEW n \in 1 .. Len(line), Forwards(n)
    PROVE  LET text == Decode(SubSeq(line, 1, n)) IN
           /\ StreamTypes'
           /\ text \in Seq(PieceType) /\ Displays(text) \in Seq(PieceType)
           /\ Displays(text) = IF IsObject(Kinds(text)) THEN <<>> ELSE text
           /\ display' = display \o Displays(text)
           /\ DOMAIN frames \subseteq DOMAIN frames'
           /\ \A f \in DOMAIN frames : frames'[f] = frames[f]
           /\ \A f \in DOMAIN frames' : f \in DOMAIN frames \/ frames'[f] = text
           /\ \E f \in DOMAIN frames' : frames'[f] = text
<1> DEFINE text == Decode(SubSeq(line, 1, n))
<1>1. StreamTypes /\ InByteOrder(line)
  BY DEF OutputInv, LineIsTail
<1>2. text \in Seq(PieceType) /\ SubSeq(line, n + 1, Len(line)) \in Seq(Nat \X Nat)
  BY <1>1, LineIsCut, DecodeShape
<1> HIDE DEF text
<1>3. /\ frames' = Append(frames, text) /\ display' = display \o Displays(text)
      /\ line' = SubSeq(line, n + 1, Len(line)) /\ printed' = printed
  BY DEF Forwards, Arrives, text
<1>4. Displays(text) \in Seq(PieceType)
  BY <1>2 DEF Displays
<1>5. StreamTypes'
  BY <1>1, <1>2, <1>3, <1>4, AppendProperties, ConcatProperties DEF StreamTypes
<1>6. /\ DOMAIN frames = 1 .. Len(frames) /\ DOMAIN frames' = 1 .. Len(frames) + 1
      /\ Len(frames) \in Nat
      /\ \A f \in 1 .. Len(frames) : frames'[f] = frames[f]
      /\ frames'[Len(frames) + 1] = text
  BY <1>1, <1>2, <1>3 DEF StreamTypes
<1>7. Displays(text) = IF IsObject(Kinds(text)) THEN <<>> ELSE text
  BY DEF Displays
<1>8. /\ DOMAIN frames \subseteq DOMAIN frames'
      /\ \A f \in DOMAIN frames : frames'[f] = frames[f]
      /\ \A f \in DOMAIN frames' : f \in DOMAIN frames \/ frames'[f] = text
      /\ \E f \in DOMAIN frames' : frames'[f] = text
  BY <1>6
<1>9. QED
  BY <1>2, <1>3, <1>4, <1>5, <1>7, <1>8 DEF text

LEMMA ForwardsPieces ==
    ASSUME OutputInv, NEW n \in 1 .. Len(line), Forwards(n)
    PROVE  PiecesArePrinted'
<1> DEFINE chunk == SubSeq(line, 1, n)
           text == Decode(chunk)
<1>1. StreamTypes /\ InByteOrder(line) /\ printed' = printed
  BY DEF OutputInv, LineIsTail, Forwards
<1>2. chunk \in Seq(Nat \X Nat) /\ InByteOrder(chunk)
  BY <1>1, LineIsCut
<1>3. /\ text \in Seq(PieceType)
      /\ Displays(text) = <<>> \/ Displays(text) = text
      /\ display' = display \o Displays(text)
      /\ \A f \in DOMAIN frames : frames'[f] = frames[f]
      /\ \A f \in DOMAIN frames' : f \in DOMAIN frames \/ frames'[f] = text
  BY ForwardsTypes DEF Displays
<1> HIDE DEF chunk, text
<1>4. \A k \in DOMAIN text : text[k].char \in DOMAIN printed
  <2> TAKE k \in DOMAIN text
  <2>1. PICK l \in DOMAIN chunk : text[k].char = chunk[l][1]
    BY <1>2, DecodeChars DEF text
  <2>2. QED
    BY <1>2, <2>1 DEF InByteOrder, IsByte
<1>5. \A k \in DOMAIN display' : display'[k].char \in DOMAIN printed
  <2> TAKE k \in DOMAIN display'
  <2>1. CASE Displays(text) = <<>>
    <3>1. display' = display
      BY <1>1, <1>3, <2>1, ConcatEmptySeq DEF StreamTypes
    <3>2. QED
      BY <3>1 DEF OutputInv, PiecesArePrinted
  <2>2. CASE Displays(text) = text
    <3>1. /\ DOMAIN display = 1 .. Len(display) /\ DOMAIN text = 1 .. Len(text)
          /\ Len(display) \in Nat /\ Len(text) \in Nat
          /\ DOMAIN display' = 1 .. Len(display) + Len(text)
          /\ \A l \in 1 .. Len(display) + Len(text) :
                display'[l] = IF l <= Len(display) THEN display[l] ELSE text[l - Len(display)]
      BY <1>1, <1>3, <2>2 DEF StreamTypes
    <3>2. CASE k <= Len(display)
      BY <3>1, <3>2 DEF OutputInv, PiecesArePrinted
    <3>3. CASE ~ (k <= Len(display))
      <4>1. k - Len(display) \in DOMAIN text /\ display'[k] = text[k - Len(display)]
        BY <3>1, <3>3
      <4>2. QED
        BY <1>4, <4>1
    <3>4. QED
      BY <3>2, <3>3
  <2>3. QED
    BY <1>3, <2>1, <2>2
<1>6. \A f \in DOMAIN frames' : \A k \in DOMAIN frames'[f] : frames'[f][k].char \in DOMAIN printed
  BY <1>3, <1>4 DEF OutputInv, PiecesArePrinted
<1>7. QED
  BY <1>1, <1>5, <1>6 DEF PiecesArePrinted

LEMMA ForwardsInOrder ==
    ASSUME OutputInv, NEW n \in 1 .. Len(line), Forwards(n)
    PROVE  InOrder'
<1> DEFINE chunk == SubSeq(line, 1, n)
           text == Decode(chunk)
<1>1. StreamTypes /\ InByteOrder(line) /\ InOrder
  BY DEF OutputInv, LineIsTail
<1>2. /\ chunk \in Seq(Nat \X Nat) /\ InByteOrder(chunk)
      /\ \A l \in DOMAIN chunk : l \in DOMAIN line /\ chunk[l] = line[l]
  BY <1>1, LineIsCut
<1>3. /\ text \in Seq(PieceType)
      /\ Displays(text) = <<>> \/ Displays(text) = text
      /\ display' = display \o Displays(text)
  BY ForwardsTypes DEF Displays
<1>4. CASE Displays(text) = <<>>
  <2>1. display' = display
    BY <1>1, <1>3, <1>4, ConcatEmptySeq DEF StreamTypes
  <2>2. QED
    BY <1>1, <2>1 DEF InOrder
<1>5. CASE Displays(text) = text
  <2> DEFINE D == Len(display)
             T == Len(text)
             Follows(a, b) == a.char < b.char \/ (a.char = b.char /\ ~ a.good)
  <2>1. /\ DOMAIN display = 1 .. D /\ DOMAIN text = 1 .. T /\ D \in Nat /\ T \in Nat
        /\ Len(display') = D + T
        /\ \A l \in 1 .. D + T : display'[l] = IF l <= D THEN display[l] ELSE text[l - D]
    <3> HIDE DEF chunk, text
    <3> QED
      BY <1>1, <1>3, <1>5, ConcatProperties, LenProperties DEF StreamTypes
  <2>2. ASSUME NEW k \in DOMAIN display, NEW m \in DOMAIN text
        PROVE  Follows(display[k], text[m])
    <3>1. PICK l \in DOMAIN chunk : text[m].char = chunk[l][1]
      BY <1>2, DecodeChars
    <3>2. l \in DOMAIN line /\ chunk[l] = line[l]
      BY <1>2
    <3>3. QED
      BY <3>1, <3>2, DisplayIsBehind
  <2>3. ASSUME NEW k \in DOMAIN text, NEW m \in DOMAIN text, k < m
        PROVE  Follows(text[k], text[m])
    BY <1>1, <1>2, <2>3, DecodeInOrder DEF StreamTypes
  <2>4. ASSUME NEW k \in 1 .. D - 1
        PROVE  Follows(display[k], display[k + 1])
    BY <1>1 DEF InOrder
  <2> HIDE DEF chunk, text, D, T, Follows
  <2>5. ASSUME NEW k \in 1 .. (D + T) - 1
        PROVE  Follows(display'[k], display'[k + 1])
    <3>1. k \in 1 .. D + T /\ k + 1 \in 1 .. D + T
      BY <2>1
    <3>2. CASE k + 1 <= D
      <4>1. k \in 1 .. D - 1 /\ display'[k] = display[k] /\ display'[k + 1] = display[k + 1]
        BY <2>1, <3>1, <3>2
      <4>2. QED
        BY <2>4, <4>1
    <3>3. CASE k = D
      <4>1. k \in 1 .. D /\ 1 \in 1 .. T /\ k <= D /\ ~ (k + 1 <= D) /\ k + 1 - D = 1
        BY <2>1, <3>1, <3>3
      <4>2. display'[k] = display[k]
        BY <2>1, <3>1, <4>1
      <4>3. display'[k + 1] = text[k + 1 - D]
        BY <2>1, <3>1, <4>1
      <4>4. display'[k + 1] = text[1]
        BY <4>1, <4>3
      <4>5. QED
        BY <2>1, <2>2, <4>1, <4>2, <4>4
    <3>4. CASE k > D
      <4>1. /\ k - D \in 1 .. T /\ k + 1 - D \in 1 .. T /\ k - D < k + 1 - D
            /\ ~ (k <= D) /\ ~ (k + 1 <= D)
        BY <2>1, <3>1, <3>4
      <4>2. display'[k] = text[k - D]
        BY <2>1, <3>1, <4>1
      <4>3. display'[k + 1] = text[k + 1 - D]
        BY <2>1, <3>1, <4>1
      <4>4. QED
        BY <2>1, <2>3, <4>1, <4>2, <4>3
    <3>5. QED
      BY <2>1, <3>1, <3>2, <3>3, <3>4
  <2>6. QED
    BY <2>1, <2>5 DEF InOrder, Follows
<1>6. QED
  BY <1>3, <1>4, <1>5

\* Of the bytes of a character that are on the line, some are read and the others stay.
LEMMA BytesAreCut ==
    ASSUME OutputInv, NEW n \in 1 .. Len(line), NEW i \in DOMAIN printed
    PROVE  LET C == Taken(SubSeq(line, 1, n), i)
               R == Taken(SubSeq(line, n + 1, Len(line)), i)
           IN  /\ C \in SUBSET (1 .. Width[printed[i]]) /\ R \in SUBSET (1 .. Width[printed[i]])
               /\ Unread(i) = C \cup R
               /\ Cardinality(Unread(i)) = Cardinality(C) + Cardinality(R)
               /\ 1 \in Unread(i) => 1 \in C \/ C = {}
               /\ 1 \in Unread(i) => Unread(i) = 1 .. Width[printed[i]]
<1> DEFINE chunk == SubSeq(line, 1, n)
           rest  == SubSeq(line, n + 1, Len(line))
           C == Taken(chunk, i)
           R == Taken(rest, i)
           W == Width[printed[i]]
<1>1. StreamTypes /\ LineIsTail /\ InByteOrder(line) /\ W \in 1 .. 4
  BY WidthsAreNat DEF OutputInv, LineIsTail, StreamTypes
<1>2. /\ chunk \in Seq(Nat \X Nat) /\ rest \in Seq(Nat \X Nat)
      /\ \A j : <<i, j>> \in Range(line) <=> <<i, j>> \in Range(chunk) \/ <<i, j>> \in Range(rest)
      /\ \A k \in DOMAIN chunk : \A l \in DOMAIN rest : Before(chunk[k], rest[l])
  BY <1>1, LineIsCut
<1>3. C \in SUBSET (1 .. W) /\ R \in SUBSET (1 .. W)
  BY DEF Taken
<1>4. Unread(i) = C \cup R
  BY <1>2 DEF Unread, Taken
<1>5. ASSUME NEW j \in C, NEW m \in R
      PROVE  j < m
  <2>1. PICK k \in DOMAIN chunk : chunk[k] = <<i, j>>
    BY DEF Taken, Range
  <2>2. PICK l \in DOMAIN rest : rest[l] = <<i, m>>
    BY DEF Taken, Range
  <2>3. Before(<<i, j>>, <<i, m>>)
    BY <1>2, <2>1, <2>2
  <2>4. i \in Nat
    BY <1>1, WidthsAreNat DEF StreamTypes
  <2>5. QED
    BY <2>3, <2>4 DEF Before
<1>6. C \cap R = {}
  BY <1>3, <1>5
<1>7. Cardinality(Unread(i)) = Cardinality(C) + Cardinality(R)
  <2>1. IsFiniteSet(C) /\ IsFiniteSet(R) /\ Cardinality(C) \in Nat /\ Cardinality(R) \in Nat
    BY <1>1, <1>3, BytesAreFew DEF StreamTypes
  <2> HIDE DEF C, R
  <2>2. Cardinality(C \cup R) = Cardinality(C) + Cardinality(R) - Cardinality(C \cap R)
    BY <2>1, FS_Union
  <2>3. Cardinality(C \cap R) = 0
    BY <1>6, FS_EmptySet
  <2>4. QED
    BY <1>4, <2>1, <2>2, <2>3
<1>8. 1 \in Unread(i) => 1 \in C \/ C = {}
  <2> SUFFICES ASSUME 1 \in R, NEW j \in C
               PROVE  FALSE
    BY <1>4
  <2>1. j < 1 /\ j \in 1 .. W
    BY <1>3, <1>5
  <2>2. QED
    BY <1>1, <2>1
<1>9. 1 \in Unread(i) => Unread(i) = 1 .. W
  <2> SUFFICES ASSUME 1 \in Unread(i)
               PROVE  Unread(i) = 1 .. W
    OBVIOUS
  <2>1. PICK k \in DOMAIN line : line[k] = <<i, 1>>
    BY DEF Unread, Range
  <2>2. line[k][1] = i /\ line[k][2] = 1
    BY <2>1
  <2>3. QED
    BY <1>1, <2>2, NothingRead
<1>10. QED
  BY <1>3, <1>4, <1>7, <1>8, <1>9

\* What one more frame does to the pieces of a character.
LEMMA ForwardsCounts ==
    ASSUME OutputInv, NEW n \in 1 .. Len(line), Forwards(n), NEW i \in DOMAIN printed
    PROVE  LET chunk == SubSeq(line, 1, n)
               text == Decode(chunk)
           IN  /\ Pieces(i, TRUE) \in Nat /\ Pieces(i, FALSE) \in Nat
               /\ Unread(i)' = Taken(SubSeq(line, n + 1, Len(line)), i)
               /\ ~ IsObject(Kinds(text)) =>
                     /\ Pieces(i, TRUE)' = Pieces(i, TRUE) + Count(text, Good(i))
                     /\ Pieces(i, FALSE)' = Pieces(i, FALSE) + Count(text, Mark(i))
               /\ IsObject(Kinds(text)) =>
                     /\ Pieces(i, TRUE)' = Pieces(i, TRUE) /\ Pieces(i, FALSE)' = Pieces(i, FALSE)
                     /\ Count(text, Mark(i)) = 0
                     /\ Count(text, Good(i)) # 0 => InObject(i)'
               /\ InObject(i) => InObject(i)'
<1> DEFINE chunk == SubSeq(line, 1, n)
           text == Decode(chunk)
<1>1. StreamTypes
  BY DEF OutputInv
<1>2. /\ printed' = printed /\ line' = SubSeq(line, n + 1, Len(line))
      /\ text \in Seq(PieceType)
      /\ Displays(text) = IF IsObject(Kinds(text)) THEN <<>> ELSE text
      /\ display' = display \o Displays(text)
      /\ DOMAIN frames \subseteq DOMAIN frames'
      /\ \A f \in DOMAIN frames : frames'[f] = frames[f]
      /\ \E f \in DOMAIN frames' : frames'[f] = text
  BY ForwardsTypes DEF Forwards
<1> HIDE DEF chunk, text
<1>3. /\ Pieces(i, TRUE) = Count(display, Good(i)) /\ Pieces(i, FALSE) = Count(display, Mark(i))
      /\ Pieces(i, TRUE)' = Count(display', Good(i)) /\ Pieces(i, FALSE)' = Count(display', Mark(i))
  BY DEF Pieces, Count, Good, Mark
<1>4. Pieces(i, TRUE) \in Nat /\ Pieces(i, FALSE) \in Nat
  BY <1>1, <1>3, CountIsFinite DEF StreamTypes
<1>5. Unread(i)' = Taken(SubSeq(line, n + 1, Len(line)), i)
  BY <1>2 DEF Unread, Taken
<1>6. ASSUME ~ IsObject(Kinds(text))
      PROVE  /\ Pieces(i, TRUE)' = Pieces(i, TRUE) + Count(text, Good(i))
             /\ Pieces(i, FALSE)' = Pieces(i, FALSE) + Count(text, Mark(i))
  <2>1. display' = display \o text /\ display \in Seq(PieceType)
    BY <1>1, <1>2, <1>6 DEF StreamTypes
  <2>2. Count(display \o text, Good(i)) = Count(display, Good(i)) + Count(text, Good(i))
    BY <1>2, <2>1, CountConcat
  <2>3. Count(display \o text, Mark(i)) = Count(display, Mark(i)) + Count(text, Mark(i))
    BY <1>2, <2>1, CountConcat
  <2>4. QED
    BY <1>3, <2>1, <2>2, <2>3
<1>7. ASSUME IsObject(Kinds(text))
      PROVE  /\ Pieces(i, TRUE)' = Pieces(i, TRUE) /\ Pieces(i, FALSE)' = Pieces(i, FALSE)
             /\ Count(text, Mark(i)) = 0
             /\ Count(text, Good(i)) # 0 => InObject(i)'
  <2>1. display' = display
    BY <1>1, <1>2, <1>7, ConcatEmptySeq DEF StreamTypes
  <2>2. {k \in DOMAIN text : text[k] = Mark(i)} = {}
    BY <1>7, ObjectHasNoMarks DEF Mark
  <2>3. Count(text, Mark(i)) = 0
    BY <2>2, FS_EmptySet DEF Count
  <2>4. ASSUME Count(text, Good(i)) # 0
        PROVE  InObject(i)'
    <3>1. {k \in DOMAIN text : text[k] = Good(i)} # {}
      BY <2>4, FS_EmptySet DEF Count
    <3>2. Good(i) \in Range(text)
      BY <3>1 DEF Range
    <3>3. PICK f \in DOMAIN frames' : frames'[f] = text
      BY <1>2
    <3>4. Kinds(frames[f])' = Kinds(text)
      BY <1>2, <3>3 DEF Kinds
    <3>5. IsObject(Kinds(frames[f]))' /\ Good(i) \in Range(frames'[f])
      BY <1>7, <3>2, <3>3, <3>4 DEF IsObject
    <3>6. QED
      BY <3>3, <3>5 DEF InObject, Good
  <2>5. QED
    BY <1>3, <2>1, <2>3, <2>4
<1>8. ASSUME InObject(i)
      PROVE  InObject(i)'
  <2>1. PICK f \in DOMAIN frames : IsObject(Kinds(frames[f])) /\ Good(i) \in Range(frames[f])
    BY <1>8 DEF InObject
  <2>2. f \in DOMAIN frames' /\ frames'[f] = frames[f]
    BY <1>2
  <2>3. Kinds(frames[f])' = Kinds(frames[f])
    BY <1>2, <2>2 DEF Kinds
  <2>4. IsObject(Kinds(frames[f]))' /\ Good(i) \in Range(frames'[f])
    BY <2>1, <2>2, <2>3 DEF IsObject
  <2>5. QED
    BY <2>2, <2>4 DEF InObject, Good
<1>9. QED
  BY <1>4, <1>5, <1>6, <1>7, <1>8 DEF chunk, text

LEMMA ForwardsDelivered ==
    ASSUME OutputInv, NEW n \in 1 .. Len(line), Forwards(n), NEW i \in DOMAIN printed
    PROVE  Delivered(i)'
<1> DEFINE chunk == SubSeq(line, 1, n)
           text == Decode(chunk)
           C == Taken(chunk, i)
           R == Taken(SubSeq(line, n + 1, Len(line)), i)
           W == Width[printed[i]]
           g == Count(text, Good(i))
           m == Count(text, Mark(i))
           G == Pieces(i, TRUE)
           M == Pieces(i, FALSE)
<1>1. /\ printed \in Seq(DOMAIN Width) /\ W \in 1 .. 4 /\ Delivered(i)
      /\ chunk \in Seq(Nat \X Nat) /\ InByteOrder(chunk) /\ printed' = printed
  BY LineIsCut, WidthsAreNat DEF OutputInv, StreamTypes, LineIsTail, Forwards
<1>2. /\ C \in SUBSET (1 .. W) /\ R \in SUBSET (1 .. W) /\ Unread(i) = C \cup R
      /\ Cardinality(Unread(i)) = Cardinality(C) + Cardinality(R)
      /\ 1 \in Unread(i) => 1 \in C \/ C = {}
      /\ 1 \in Unread(i) => Unread(i) = 1 .. W
  BY BytesAreCut
<1>3. /\ Cardinality(C) \in Nat /\ Cardinality(R) \in Nat
      /\ Cardinality(C) = 0 <=> C = {}
      /\ Cardinality(R) = 0 <=> R = {}
      /\ Cardinality(Unread(i)) = W <=> Unread(i) = 1 .. W
      /\ Cardinality(Unread(i)) <= W
      /\ Cardinality(R) = W <=> R = 1 .. W
  <2>1. Unread(i) \in SUBSET (1 .. W)
    BY DEF Unread
  <2> HIDE DEF C, R
  <2>2. Cardinality(C) \in Nat /\ (Cardinality(C) = 0 <=> C = {})
    BY <1>1, <1>2, BytesAreFew
  <2>3. /\ Cardinality(R) \in Nat /\ (Cardinality(R) = 0 <=> R = {})
        /\ Cardinality(R) = W <=> R = 1 .. W
    BY <1>1, <1>2, BytesAreFew
  <2>4. /\ Cardinality(Unread(i)) = W <=> Unread(i) = 1 .. W
        /\ Cardinality(Unread(i)) <= W
    BY <1>1, <2>1, BytesAreFew
  <2>5. QED
    BY <2>2, <2>3, <2>4
<1>4. /\ C = 1 .. W => g = 1 /\ m = 0
      /\ C # 1 .. W /\ 1 \in C => g = 0 /\ m = 1
      /\ 1 \notin C => g = 0 /\ m = Cardinality(C)
  BY <1>1, DecodePieces
<1>5. /\ G \in Nat /\ M \in Nat /\ Unread(i)' = R
      /\ ~ IsObject(Kinds(text)) => G' = G + g /\ M' = M + m
      /\ IsObject(Kinds(text)) => G' = G /\ M' = M /\ m = 0 /\ (g # 0 => InObject(i)')
      /\ InObject(i) => InObject(i)'
  BY ForwardsCounts
<1>6. Width[printed[i]]' = W
  BY <1>1
<1>7. Delivered(i)' <=>
        \/ R = 1 .. W /\ G' = 0 /\ M' = 0
        \/ R # {} /\ G' = 0 /\ M' >= 1 /\ M' + Cardinality(R) <= W
        \/ /\ R = {}
           /\ \/ G' = 1 /\ M' = 0
              \/ G' = 0 /\ M' \in 2 .. W
              \/ G' = 0 /\ M' = 0 /\ InObject(i)'
  BY <1>5, <1>6 DEF Delivered
<1>8. Delivered(i) <=>
        \/ Unread(i) = 1 .. W /\ G = 0 /\ M = 0
        \/ Unread(i) # {} /\ G = 0 /\ M >= 1 /\ M + Cardinality(Unread(i)) <= W
        \/ /\ Unread(i) = {}
           /\ \/ G = 1 /\ M = 0
              \/ G = 0 /\ M \in 2 .. W
              \/ G = 0 /\ M = 0 /\ InObject(i)
  BY DEF Delivered
<1> HIDE DEF C, R, W, g, m, G, M, text, chunk
<1>9. ASSUME C = {}
      PROVE  R = Unread(i) /\ g = 0 /\ m = 0 /\ G' = G /\ M' = M /\ Delivered(i)'
  <2>1. R = Unread(i)
    BY <1>2, <1>9
  <2>2. g = 0 /\ m = 0
    BY <1>3, <1>4, <1>9
  <2>3. G' = G /\ M' = M
    BY <1>5, <2>2
  <2>4. QED
    BY <1>1, <1>5, <1>7, <1>8, <2>1, <2>2, <2>3
\* Nothing of it was read before.
<1>10. ASSUME Unread(i) = 1 .. W, G = 0, M = 0, C # {}
       PROVE  Delivered(i)'
  <2>1. 1 \in C
    <3>1. 1 \in 1 .. W
      BY <1>1
    <3>2. 1 \in Unread(i)
      BY <1>10, <3>1
    <3>3. QED
      BY <1>2, <1>10, <3>2
  <2>2. CASE C = 1 .. W
    <3>1. R = {}
      <4>1. Cardinality(C) = W
        BY <1>1, <1>2, <2>2, BytesAreFew DEF W
      <4>2. Cardinality(R) = 0
        BY <1>1, <1>2, <1>3, <1>10, <4>1
      <4>3. QED
        BY <1>3, <4>2
    <3>2. g = 1 /\ m = 0
      BY <1>4, <2>2
    <3>3. QED
      BY <1>5, <1>7, <1>10, <3>1, <3>2
  <2>3. CASE C # 1 .. W
    <3>1. g = 0 /\ m = 1
      BY <1>4, <2>1, <2>3
    <3>2. ~ IsObject(Kinds(text)) /\ G' = 0 /\ M' = 1
      BY <1>5, <1>10, <3>1
    <3>3. R # {}
      BY <1>2, <1>10, <2>3
    <3>4. 1 + Cardinality(R) <= W
      BY <1>1, <1>2, <1>3, <1>10
    <3>5. QED
      BY <1>7, <3>2, <3>3, <3>4
  <2>4. QED
    BY <2>2, <2>3
\* Part of it was read before.
<1>11. ASSUME Unread(i) # {}, G = 0, M >= 1, M + Cardinality(Unread(i)) <= W, C # {}
       PROVE  Delivered(i)'
  <2>1. 1 \notin C
    <3>1. Cardinality(Unread(i)) # W
      BY <1>1, <1>3, <1>5, <1>11
    <3>2. QED
      BY <1>2, <1>3, <3>1
  <2>2. g = 0 /\ m = Cardinality(C) /\ m # 0
    BY <1>3, <1>4, <1>11, <2>1
  <2>3. G' = 0 /\ M' = M + Cardinality(C)
    BY <1>5, <1>11, <2>2
  <2>4. M' + Cardinality(R) <= W /\ M' >= 2 /\ M' \in Nat
    BY <1>1, <1>2, <1>3, <1>5, <1>11, <2>2, <2>3
  <2>5. R = {} => M' \in 2 .. W
    BY <1>1, <1>3, <2>4
  <2>6. QED
    BY <1>7, <2>3, <2>4, <2>5
<1>12. Unread(i) = {} => C = {}
  BY <1>2
<1>13. QED
  BY <1>1, <1>8, <1>9, <1>10, <1>11, <1>12

LEMMA ForwardsOutput ==
    ASSUME OutputInv, NEW n \in 1 .. Len(line), Forwards(n)
    PROVE  OutputInv'
<1>1. StreamTypes'
  BY ForwardsTypes
<1>2. LineIsTail'
  BY RestIsTail DEF OutputInv, Forwards
<1>3. DOMAIN printed' = DOMAIN printed
  BY DEF Forwards
<1>4. QED
  BY <1>1, <1>2, <1>3, ForwardsPieces, ForwardsInOrder, ForwardsDelivered DEF OutputInv

-----------------------------------------------------------------------------
(* Output: one more character *)

LEMMA PrintsTypes ==
    ASSUME OutputInv, NEW k \in DOMAIN Width, Prints(k)
    PROVE  LET i0 == Len(printed) + 1 IN
           /\ StreamTypes'
           /\ Len(printed) \in Nat /\ Width[k] \in 1 .. 4
           /\ DOMAIN printed = 1 .. Len(printed) /\ DOMAIN printed' = 1 .. i0
           /\ \A i \in DOMAIN printed : printed'[i] = printed[i]
           /\ printed'[i0] = k
           /\ DOMAIN line = 1 .. Len(line) /\ DOMAIN line' = 1 .. Len(line) + Width[k]
           /\ Len(line) \in Nat
           /\ \A l \in 1 .. Len(line) : line'[l] = line[l]
           /\ \A j \in 1 .. Width[k] : line'[Len(line) + j] = <<i0, j>>
<1> DEFINE i0 == Len(printed) + 1
           W == Width[k]
           new == [j \in 1 .. W |-> <<i0, j>>]
<1>1. /\ StreamTypes /\ printed' = Append(printed, k) /\ line' = line \o new
      /\ frames' = frames /\ display' = display
  BY DEF OutputInv, Prints
<1>2. W \in 1 .. 4
  <2>1. \A K : Width \in [K -> 1 .. 4] => \A x \in K : Width[x] \in 1 .. 4
    OBVIOUS
  <2>2. QED
    BY <2>1, WidthAssumption, Zenon
<1>3. Len(printed) \in Nat /\ DOMAIN printed = 1 .. Len(printed) /\ i0 \in Nat
  BY <1>1 DEF StreamTypes
<1>4. new \in Seq(Nat \X Nat) /\ Len(new) = W /\ \A j \in 1 .. W : new[j] = <<i0, j>>
  <2>1. \A j \in 1 .. W : <<i0, j>> \in Nat \X Nat
    BY <1>2, <1>3
  <2>2. W \in Nat
    BY <1>2
  <2> HIDE DEF W, i0
  <2>3. QED
    BY <2>1, <2>2
<1> HIDE DEF new
<1>5. /\ printed' \in Seq(DOMAIN Width) /\ DOMAIN printed' = 1 .. i0
      /\ \A i \in DOMAIN printed : printed'[i] = printed[i]
      /\ printed'[i0] = k
  <2>1. /\ Append(printed, k) \in Seq(DOMAIN Width)
        /\ Len(Append(printed, k)) = Len(printed) + 1
        /\ \A i \in 1 .. Len(printed) : Append(printed, k)[i] = printed[i]
        /\ Append(printed, k)[Len(printed) + 1] = k
    BY <1>1, AppendProperties DEF StreamTypes
  <2>2. QED
    BY <1>1, <1>3, <2>1, LenProperties
<1>6. /\ line' \in Seq(Nat \X Nat) /\ Len(line) \in Nat /\ DOMAIN line = 1 .. Len(line)
      /\ DOMAIN line' = 1 .. Len(line) + W
      /\ \A l \in 1 .. Len(line) + W :
            line'[l] = IF l <= Len(line) THEN line[l] ELSE new[l - Len(line)]
  <2>1. line \in Seq(Nat \X Nat) /\ Len(line) \in Nat /\ DOMAIN line = 1 .. Len(line)
    BY <1>1, LenProperties DEF StreamTypes
  <2>2. line \o new \in Seq(Nat \X Nat) /\ Len(line \o new) = Len(line) + Len(new)
    BY <1>4, <2>1, ConcatProperties
  <2>3. \A l \in 1 .. Len(line) + Len(new) :
            (line \o new)[l] = IF l <= Len(line) THEN line[l] ELSE new[l - Len(line)]
    BY <1>4, <2>1, ConcatProperties
  <2>4. DOMAIN (line \o new) = 1 .. Len(line \o new)
    BY <2>2, LenProperties
  <2>5. QED
    BY <1>1, <1>4, <2>1, <2>2, <2>3, <2>4
<1>7. \A l \in 1 .. Len(line) : line'[l] = line[l]
  BY <1>2, <1>6
<1>8. \A j \in 1 .. W : line'[Len(line) + j] = <<i0, j>>
  <2> TAKE j \in 1 .. W
  <2>1. /\ Len(line) + j \in 1 .. Len(line) + W /\ ~ (Len(line) + j <= Len(line))
        /\ Len(line) + j - Len(line) = j
    BY <1>2, <1>6
  <2>2. line'[Len(line) + j] = new[j]
    BY <1>6, <2>1
  <2>3. QED
    BY <1>4, <2>2
<1>9. StreamTypes'
  BY <1>1, <1>5, <1>6 DEF StreamTypes
<1>10. QED
  BY <1>2, <1>3, <1>5, <1>6, <1>7, <1>8, <1>9

\* The new bytes come after all others; nothing changes for the characters before.
LEMMA PrintsBytes ==
    ASSUME OutputInv, NEW k \in DOMAIN Width, Prints(k)
    PROVE  LET i0 == Len(printed) + 1 IN
           /\ \A i \in DOMAIN printed : i \in Nat /\ i < i0
           /\ \A i \in DOMAIN printed : Width[printed[i]]' = Width[printed[i]]
           /\ Width[printed'[i0]] = Width[k]
           /\ \A i \in DOMAIN printed : \A j : <<i, j>> \in Range(line') <=> <<i, j>> \in Range(line)
           /\ \A j \in 1 .. Width[k] : <<i0, j>> \in Range(line')
           /\ \A l \in DOMAIN line : IsByte(line[l]) /\ IsByte(line[l])'
           /\ \A l \in DOMAIN line' :
                 l \in DOMAIN line \/ (l - Len(line) \in 1 .. Width[k] /\ line'[l] = <<i0, l - Len(line)>>)
<1> DEFINE i0 == Len(printed) + 1
           W == Width[k]
           N == Len(line)
<1>1. /\ Len(printed) \in Nat /\ W \in 1 .. 4
      /\ DOMAIN printed = 1 .. Len(printed) /\ DOMAIN printed' = 1 .. i0
      /\ \A i \in DOMAIN printed : printed'[i] = printed[i]
      /\ printed'[i0] = k
      /\ DOMAIN line = 1 .. N /\ DOMAIN line' = 1 .. N + W /\ N \in Nat
      /\ \A l \in 1 .. N : line'[l] = line[l]
      /\ \A j \in 1 .. W : line'[N + j] = <<i0, j>>
  BY PrintsTypes
<1> HIDE DEF W, N
<1>2. \A i \in DOMAIN printed : i \in Nat /\ i < i0 /\ Width[printed[i]]' = Width[printed[i]]
  BY <1>1
<1>3. ASSUME NEW l \in DOMAIN line'
      PROVE  l \in DOMAIN line \/ (l - N \in 1 .. W /\ line'[l] = <<i0, l - N>>)
  <2>1. l \in 1 .. N \/ (l - N \in 1 .. W /\ N + (l - N) = l)
    BY <1>1
  <2>2. CASE l \in 1 .. N
    BY <1>1, <2>2
  <2>3. CASE l - N \in 1 .. W /\ N + (l - N) = l
    <3>1. line'[N + (l - N)] = <<i0, l - N>>
      BY <1>1, <2>3
    <3>2. QED
      BY <2>3, <3>1
  <2>4. QED
    BY <2>1, <2>2, <2>3
<1>4. ASSUME NEW i \in DOMAIN printed, NEW j
      PROVE  <<i, j>> \in Range(line') <=> <<i, j>> \in Range(line)
  <2>1. ASSUME <<i, j>> \in Range(line)
        PROVE  <<i, j>> \in Range(line')
    <3>1. PICK l \in DOMAIN line : line[l] = <<i, j>>
      BY <2>1 DEF Range
    <3>2. l \in DOMAIN line' /\ line'[l] = <<i, j>>
      BY <1>1, <3>1
    <3>3. QED
      BY <3>2 DEF Range
  <2>2. ASSUME <<i, j>> \in Range(line')
        PROVE  <<i, j>> \in Range(line)
    <3>1. PICK l \in DOMAIN line' : line'[l] = <<i, j>>
      BY <2>2 DEF Range
    <3>2. i # i0
      BY <1>1, <1>2
    <3>3. l \in DOMAIN line
      BY <1>3, <3>1, <3>2
    <3>4. line[l] = <<i, j>>
      BY <1>1, <3>1, <3>3
    <3>5. QED
      BY <3>3, <3>4 DEF Range
  <2>3. QED
    BY <2>1, <2>2
<1>5. ASSUME NEW j \in 1 .. W
      PROVE  <<i0, j>> \in Range(line')
  <2>1. N + j \in DOMAIN line'
    BY <1>1
  <2>2. line'[N + j] = <<i0, j>>
    BY <1>1
  <2>3. QED
    BY <2>1, <2>2 DEF Range
<1>6. ASSUME NEW l \in DOMAIN line
      PROVE  IsByte(line[l]) /\ IsByte(line[l])'
  <2>1. IsByte(line[l])
    BY DEF OutputInv, LineIsTail, InByteOrder
  <2>2. line'[l] = line[l] /\ line[l][1] \in DOMAIN printed
    BY <1>1, <2>1 DEF IsByte
  <2>3. line[l][1] \in DOMAIN printed' /\ Width[printed'[line[l][1]]] = Width[printed[line[l][1]]]
    BY <1>1, <2>2
  <2>4. QED
    BY <2>1, <2>2, <2>3 DEF IsByte
<1>7. QED
  BY <1>1, <1>2, <1>3, <1>4, <1>5, <1>6 DEF W, N

LEMMA PrintsTail ==
    ASSUME OutputInv, NEW k \in DOMAIN Width, Prints(k)
    PROVE  LineIsTail'
<1> DEFINE i0 == Len(printed) + 1
           W == Width[k]
           N == Len(line)
<1>1. /\ Len(printed) \in Nat /\ W \in 1 .. 4
      /\ DOMAIN printed' = 1 .. i0 /\ DOMAIN printed = 1 .. Len(printed)
      /\ DOMAIN line = 1 .. N /\ DOMAIN line' = 1 .. N + W /\ N \in Nat
      /\ \A l \in 1 .. N : line'[l] = line[l]
      /\ InByteOrder(line) /\ LineIsTail
  BY PrintsTypes DEF OutputInv, LineIsTail
<1>2. /\ \A i \in DOMAIN printed : i \in Nat /\ i < i0
      /\ \A i \in DOMAIN printed : Width[printed'[i]] = Width[printed[i]]
      /\ Width[printed'[i0]] = W
      /\ \A i \in DOMAIN printed : \A j : <<i, j>> \in Range(line') <=> <<i, j>> \in Range(line)
      /\ \A j \in 1 .. W : <<i0, j>> \in Range(line')
      /\ \A l \in DOMAIN line : IsByte(line[l]) /\ IsByte(line[l])'
      /\ \A l \in DOMAIN line' :
            l \in DOMAIN line \/ (l - N \in 1 .. W /\ line'[l] = <<i0, l - N>>)
  BY PrintsBytes
<1> HIDE DEF W, N
<1>3. ASSUME NEW l \in DOMAIN line'
      PROVE  IsByte(line[l])'
  <2>1. CASE l \in DOMAIN line
    BY <1>2, <2>1
  <2>2. CASE l - N \in 1 .. W /\ line'[l] = <<i0, l - N>>
    <3>1. line'[l][1] = i0 /\ line'[l][2] = l - N /\ i0 \in DOMAIN printed'
      BY <1>1, <2>2
    <3>2. QED
      BY <1>2, <2>2, <3>1 DEF IsByte
  <2>3. QED
    BY <1>2, <2>1, <2>2
<1>4. ASSUME NEW l \in DOMAIN line', NEW m \in DOMAIN line', l < m
      PROVE  Before(line'[l], line'[m])
  <2>1. CASE m \in DOMAIN line
    <3>1. l \in DOMAIN line
      BY <1>1, <1>4, <2>1
    <3>2. line'[l] = line[l] /\ line'[m] = line[m]
      BY <1>1, <2>1, <3>1
    <3>3. QED
      BY <1>1, <1>4, <2>1, <3>1, <3>2 DEF InByteOrder
  <2>2. CASE l \in DOMAIN line /\ m \notin DOMAIN line
    <3>1. line'[m] = <<i0, m - N>> /\ line'[l] = line[l] /\ IsByte(line[l])
      BY <1>1, <1>2, <2>2
    <3>2. line[l][1] < i0
      BY <1>2, <3>1 DEF IsByte
    <3>3. QED
      BY <3>1, <3>2 DEF Before
  <2>3. CASE l \notin DOMAIN line /\ m \notin DOMAIN line
    <3>1. line'[m] = <<i0, m - N>> /\ line'[l] = <<i0, l - N>>
      BY <1>2, <2>3
    <3>2. l - N < m - N
      BY <1>1, <1>4
    <3>3. QED
      BY <3>1, <3>2 DEF Before
  <2>4. QED
    BY <2>1, <2>2, <2>3
<1>5. InByteOrder(line)'
  BY <1>3, <1>4 DEF InByteOrder, Before
<1>6. ASSUME NEW l \in DOMAIN line', NEW i \in DOMAIN printed', NEW j \in 1 .. Width[printed'[i]],
             Before(line'[l], <<i, j>>)
      PROVE  <<i, j>> \in Range(line')
  <2>1. CASE i = i0
    BY <1>2, <2>1
  <2>2. CASE i # i0
    <3>1. i \in DOMAIN printed
      BY <1>1, <2>2
    <3>2. l \in DOMAIN line
      <4>1. SUFFICES ASSUME line'[l] = <<i0, l - N>>
                     PROVE  FALSE
        BY <1>2
      <4>2. i0 < i \/ i0 = i
        BY <1>6, <4>1 DEF Before
      <4>3. QED
        BY <1>2, <2>2, <3>1, <4>2, <1>1
    <3>3. Before(line[l], <<i, j>>) /\ j \in 1 .. Width[printed[i]]
      BY <1>1, <1>2, <1>6, <3>1, <3>2
    <3>4. <<i, j>> \in Range(line)
      BY <1>1, <3>1, <3>2, <3>3 DEF LineIsTail
    <3>5. QED
      BY <1>2, <3>1, <3>4
  <2>3. QED
    BY <2>1, <2>2
<1>7. QED
  BY <1>5, <1>6 DEF LineIsTail, Before

\* A character that has just been printed is on the line as a whole and nowhere else;
\* the others stay as they are.
LEMMA PrintsDelivered ==
    ASSUME OutputInv, NEW k \in DOMAIN Width, Prints(k), NEW i \in DOMAIN printed'
    PROVE  Delivered(i)'
<1> DEFINE i0 == Len(printed) + 1
<1>1. /\ display' = display /\ frames' = frames
      /\ StreamTypes /\ Width[k] \in 1 .. 4
      /\ DOMAIN printed = 1 .. Len(printed) /\ DOMAIN printed' = 1 .. i0 /\ Len(printed) \in Nat
      /\ \A x \in DOMAIN printed : printed'[x] = printed[x]
  BY PrintsTypes DEF Prints, OutputInv
<1>2. /\ Width[printed'[i0]] = Width[k]
      /\ \A x \in DOMAIN printed : Width[printed'[x]] = Width[printed[x]]
      /\ \A x \in DOMAIN printed : \A j : <<x, j>> \in Range(line') <=> <<x, j>> \in Range(line)
      /\ \A j \in 1 .. Width[k] : <<i0, j>> \in Range(line')
  BY PrintsBytes
<1>3. Pieces(i, TRUE)' = Pieces(i, TRUE) /\ Pieces(i, FALSE)' = Pieces(i, FALSE)
  BY <1>1 DEF Pieces
<1>4. CASE i = i0
  <2>1. Unread(i)' = 1 .. Width[printed'[i]]
    BY <1>2, <1>4 DEF Unread
  <2>2. ASSUME NEW good
        PROVE  Cardinality({l \in DOMAIN display : display[l] = [char |-> i, good |-> good]}) = 0
    <3>1. i0 \notin DOMAIN printed
      BY <1>1
    <3>2. \A l \in DOMAIN display : display[l].char # i
      BY <1>4, <3>1 DEF OutputInv, PiecesArePrinted
    <3>3. {l \in DOMAIN display : display[l] = [char |-> i, good |-> good]} = {}
      BY <3>2
    <3>4. QED
      BY <3>3, FS_EmptySet
  <2>3. Pieces(i, TRUE)' = 0 /\ Pieces(i, FALSE)' = 0
    BY <1>3, <2>2 DEF Pieces
  <2>4. QED
    BY <2>1, <2>3 DEF Delivered
<1>5. CASE i # i0
  <2>1. i \in DOMAIN printed
    BY <1>1, <1>5
  <2>2. Width[printed[i]]' = Width[printed[i]] /\ Unread(i)' = Unread(i)
    BY <1>2, <2>1 DEF Unread
  <2>3. ASSUME InObject(i)
        PROVE  InObject(i)'
    <3>1. PICK f \in DOMAIN frames : IsObject(Kinds(frames[f])) /\ Good(i) \in Range(frames[f])
      BY <2>3 DEF InObject
    <3>2. \A l \in DOMAIN frames[f] : frames[f][l].char \in DOMAIN printed
      BY DEF OutputInv, PiecesArePrinted
    <3>3. \A l \in DOMAIN frames[f] : printed'[frames[f][l].char] = printed[frames[f][l].char]
      BY <1>1, <3>2
    <3>4. Kinds(frames[f])' = Kinds(frames[f])
      BY <1>1, <3>3 DEF Kinds
    <3>5. IsObject(Kinds(frames[f]))' /\ Good(i) \in Range(frames[f])'
      BY <1>1, <3>1, <3>4 DEF IsObject
    <3>6. QED
      BY <1>1, <3>1, <3>5 DEF InObject, Good
  <2>4. Delivered(i)
    BY <2>1 DEF OutputInv
  <2>5. QED
    BY <1>3, <2>2, <2>3, <2>4 DEF Delivered
<1>6. QED
  BY <1>4, <1>5

LEMMA PrintsOutput ==
    ASSUME OutputInv, NEW k \in DOMAIN Width, Prints(k)
    PROVE  OutputInv'
<1>1. StreamTypes' /\ LineIsTail'
  BY PrintsTypes, PrintsTail
<1>2. display' = display /\ frames' = frames /\ DOMAIN printed \subseteq DOMAIN printed'
  BY PrintsTypes DEF Prints
<1>3. PiecesArePrinted'
  BY <1>2 DEF OutputInv, PiecesArePrinted
<1>4. InOrder'
  BY <1>2 DEF OutputInv, InOrder
<1>5. QED
  BY <1>1, <1>3, <1>4, PrintsDelivered DEF OutputInv

-----------------------------------------------------------------------------
(* Output: the theorem *)

LEMMA InitOutput == Init => OutputInv
<1> SUFFICES ASSUME Init
             PROVE  OutputInv
  OBVIOUS
<1>1. printed = <<>> /\ line = <<>> /\ frames = <<>> /\ display = <<>>
  BY DEF Init
<1>2. StreamTypes
  BY <1>1 DEF StreamTypes
<1>3. DOMAIN printed = {} /\ DOMAIN line = {} /\ DOMAIN frames = {} /\ DOMAIN display = {}
  BY <1>1
<1>4. LineIsTail
  BY <1>3 DEF LineIsTail, InByteOrder
<1>5. Len(display) = 0
  BY <1>1
<1>6. InOrder
  BY <1>5 DEF InOrder
<1>7. QED
  BY <1>2, <1>3, <1>4, <1>6 DEF OutputInv, PiecesArePrinted

LEMMA NextOutput == OutputInv /\ [Next]_vars => OutputInv'
<1> SUFFICES ASSUME OutputInv, [Next]_vars
             PROVE  OutputInv'
  OBVIOUS
<1>1. ASSUME UNCHANGED vars
      PROVE  OutputInv'
  <2>1. printed' = printed /\ line' = line /\ frames' = frames /\ display' = display
    BY <1>1 DEF vars
  <2>2. StreamTypes' /\ LineIsTail' /\ PiecesArePrinted' /\ InOrder'
    BY <2>1 DEF OutputInv, StreamTypes, LineIsTail, InByteOrder, IsByte, Before,
                PiecesArePrinted, InOrder
  <2>3. ASSUME NEW i \in DOMAIN printed'
        PROVE  Delivered(i)'
    <3>1. Delivered(i)
      BY <2>1 DEF OutputInv
    <3>2. InObject(i)' <=> InObject(i)
      BY <2>1 DEF InObject, IsObject, Kinds, Good
    <3>3. /\ Unread(i)' = Unread(i)
          /\ Pieces(i, TRUE)' = Pieces(i, TRUE) /\ Pieces(i, FALSE)' = Pieces(i, FALSE)
      BY <2>1 DEF Unread, Pieces
    <3>4. QED
      BY <2>1, <3>1, <3>2, <3>3 DEF Delivered
  <2>4. QED
    BY <2>2, <2>3 DEF OutputInv
<1>2. ASSUME NEW k \in DOMAIN Width, Prints(k)
      PROVE  OutputInv'
  BY <1>2, PrintsOutput
<1>3. ASSUME NEW n \in 1 .. Len(line), Forwards(n)
      PROVE  OutputInv'
  BY <1>3, ForwardsOutput
<1>4. QED
  BY <1>1, <1>2, <1>3 DEF Next

LEMMA OutputIsLocal == OutputInv => DamageIsLocal
<1> SUFFICES ASSUME OutputInv
             PROVE  DamageIsLocal
  OBVIOUS
<1>1. ASSUME NEW i \in DOMAIN printed, AllRead(i)
      PROVE  Unread(i) = {}
  <2>1. \A k \in DOMAIN line : line[k][1] # i
    BY <1>1 DEF AllRead
  <2>2. \A j : <<i, j>> \notin Range(line)
    BY <2>1 DEF Range
  <2>3. QED
    BY <2>2 DEF Unread
<1>2. ASSUME NEW i \in DOMAIN printed, AllRead(i)
      PROVE  \/ Pieces(i, TRUE) = 1 /\ Pieces(i, FALSE) = 0
             \/ Pieces(i, TRUE) = 0 /\ Pieces(i, FALSE) \in 2 .. Width[printed[i]]
             \/ Pieces(i, TRUE) = 0 /\ Pieces(i, FALSE) = 0 /\ InObject(i)
  <2>1. Delivered(i) /\ 1 .. Width[printed[i]] # {}
    <3>1. Width[printed[i]] \in 1 .. 4
      BY WidthsAreNat DEF OutputInv, StreamTypes
    <3>2. QED
      BY <3>1 DEF OutputInv
  <2>2. QED
    BY <1>1, <1>2, <2>1 DEF Delivered
<1>3. QED
  BY <1>2 DEF OutputInv, DamageIsLocal, InObject

\* However the reads cut what was printed, a character comes to the terminal as itself,
\* or damage stays with the character that a read has cut, or it went in an object.
THEOREM StreamDamageIsLocal == Spec => []DamageIsLocal
<1>1. Spec => []OutputInv
  BY InitOutput, NextOutput, PTL DEF Spec
<1>2. QED
  BY <1>1, OutputIsLocal, PTL
=============================================================================
