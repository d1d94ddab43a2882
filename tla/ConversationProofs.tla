-------------------------- MODULE ConversationProofs --------------------------
(***************************************************************************)
(* Proofs about the texts of a conversation, for every request, every      *)
(* file, every port and any number of them:                                *)
(*   - what split, find, FlattenSeq and decode_base64 make of every text;  *)
(*   - HttpParser and FtpParser read in the text of a request what the     *)
(*     client means by it;                                                 *)
(*   - the server takes the requests off the stream one by one, as they    *)
(*     were asked, and never waits for more than has been sent;            *)
(*   - the client takes the responses off the other stream one by one, as  *)
(*     they were said.                                                     *)
(* What recursive functions compute is proved by induction, which is a     *)
(* matter of first-order logic here: see Least and Induction.              *)
(***************************************************************************)
EXTENDS Conversation, WellFoundedInduction, SequenceTheorems, FiniteSetTheorems, TLAPS

-----------------------------------------------------------------------------
(* Induction over data.  The induction theorems of the library take a      *)
(* formula with a parameter; here the formula is the set of the numbers it *)
(* holds of, so that each use is a step of first-order logic.              *)

(* Every set of naturals that is not empty has a least element. *)
LEMMA Least ==
  ASSUME NEW S \in SUBSET Nat, S # {}
  PROVE  \E m \in S : \A k \in S : m <= k
<1> DEFINE R == OpToRel(<, Nat)
<1>1. IsWellFoundedOn(R, Nat)
  BY NatLessThanWellFounded
<1>2. R = {ss \in Nat \X Nat : ss[1] < ss[2]}
  BY DEF OpToRel
<1> HIDE DEF R
<1>3. PICK m \in S : \A k \in S : ~ (<<k, m>> \in R)
  BY <1>1, WFMin
<1>4. ASSUME NEW k \in S PROVE m <= k
  <2>1. m \in Nat /\ k \in Nat
    OBVIOUS
  <2>2. ~(k < m)
    BY <1>2, <1>3, <2>1
  <2> QED
    BY <2>1, <2>2
<1> QED
  BY <1>3, <1>4

(* A set of naturals with 0 and every successor is all of them. *)
LEMMA Induction ==
  ASSUME NEW P \in SUBSET Nat, 0 \in P, \A n \in P : n + 1 \in P
  PROVE  P = Nat
<1> SUFFICES ASSUME Nat \ P # {} PROVE FALSE
  OBVIOUS
<1>1. PICK m \in Nat \ P : \A k \in Nat \ P : m <= k
  BY Least
<1>2. m - 1 \in Nat /\ m - 1 < m
  OBVIOUS
<1>3. m - 1 \in P
  BY <1>1, <1>2
<1> QED
  BY <1>3

(* The same from the last of N places to the first. *)
LEMMA Backwards ==
  ASSUME NEW N \in Nat, NEW S \in SUBSET (1 .. N),
         \A k \in 1 .. N : (\A j \in (k + 1) .. N : j \in S) => k \in S
  PROVE  S = 1 .. N
<1> SUFFICES ASSUME (1 .. N) \ S # {} PROVE FALSE
  OBVIOUS
<1> DEFINE T == {k \in 1 .. N : N - k \in Nat /\ k \notin S}
           U == {m \in Nat : \E k \in T : m = N - k}
<1>1. U \in SUBSET Nat /\ U # {}
  <2>1. PICK k \in (1 .. N) \ S : TRUE
    OBVIOUS
  <2>2. N - k \in U
    BY <2>1
  <2> QED
    BY <2>2
<1>2. PICK m \in U : \A l \in U : m <= l
  BY <1>1, Least
<1>3. PICK k \in T : m = N - k
  OBVIOUS
<1>4. ASSUME NEW j \in (k + 1) .. N PROVE j \in S
  <2>1. j \notin S => N - j \in U
    OBVIOUS
  <2> QED
    BY <1>2, <1>3, <2>1
<1> QED
  BY <1>4

(* The least element of a set is what Min chooses. *)
LEMMA MinIs ==
  ASSUME NEW S \in SUBSET Int, NEW x \in S, \A y \in S : x <= y
  PROVE  Min(S) = x
<1>1. \A z \in S : (\A y \in S : z <= y) => z = x
  OBVIOUS
<1> QED
  BY <1>1 DEF Min

LEMMA MaxIs ==
  ASSUME NEW S \in SUBSET Int, NEW x \in S, \A y \in S : x >= y
  PROVE  Max(S) = x
<1>1. \A z \in S : (\A y \in S : z >= y) => z = x
  OBVIOUS
<1> QED
  BY <1>1 DEF Max

(* A set of naturals up to a bound has a greatest element. *)
LEMMA MaxExists ==
  ASSUME NEW N \in Nat, NEW S \in SUBSET (0 .. N), S # {}
  PROVE  Max(S) \in S
<1> DEFINE T == {N - k : k \in S}
<1>1. \A k \in S : k \in 0 .. N /\ N - k \in Nat
  OBVIOUS
<1>a. T \in SUBSET Nat /\ T # {}
  BY <1>1
<1>2. PICK m \in T : \A k \in T : m <= k
  BY <1>a, Least
<1>3. PICK x \in S : m = N - x
  BY <1>2
<1>4. \A y \in S : x >= y
  BY <1>1, <1>2, <1>3
<1> QED
  BY <1>3, <1>4, MaxIs

(* The powers of two grow: 2^n is the number of subsets of a set of n      *)
(* elements.                                                               *)
LEMMA Powers ==
  ASSUME NEW n \in Nat, NEW m \in Nat, m <= n
  PROVE  2^m \in Nat /\ 2^n \in Nat /\ 2^m > 0 /\ 2^m <= 2^n
<1>1. ASSUME NEW k \in Nat
      PROVE  IsFiniteSet(1 .. k) /\ Cardinality(1 .. k) = k
  BY FS_Interval
<1>2. ASSUME NEW k \in Nat
      PROVE  IsFiniteSet(SUBSET (1 .. k)) /\ Cardinality(SUBSET (1 .. k)) = 2^k
  BY <1>1, FS_SUBSET
<1>3. Cardinality(SUBSET (1 .. m)) <= Cardinality(SUBSET (1 .. n))
  <2> DEFINE A == SUBSET (1 .. m)
             B == SUBSET (1 .. n)
  <2>1. A \in SUBSET B
    OBVIOUS
  <2>2. IsFiniteSet(B)
    BY <1>2
  <2> HIDE DEF A, B
  <2>3. Cardinality(A) <= Cardinality(B)
    BY <2>1, <2>2, FS_Subset
  <2> QED
    BY <2>3 DEF A, B
<1>4. 2^m <= 2^n
  BY <1>2, <1>3
<1>5. 2^m \in Nat /\ 2^n \in Nat
  BY <1>2, FS_CardinalityType
<1>6. SUBSET (1 .. m) # {}
  OBVIOUS
<1>7. 2^m # 0
  BY <1>2, <1>6, FS_EmptySet
<1> QED
  BY <1>4, <1>5, <1>7

-----------------------------------------------------------------------------
(* string::find.                                                           *)

(* A delimiter begins at a position of a text. *)
At(text, delimiter, k) ==
    k + Len(delimiter) <= Len(text) + 1 /\ SubSeq(text, k, k + Len(delimiter) - 1) = delimiter

(* At a position means character by character. *)
LEMMA AtElements ==
  ASSUME NEW T, NEW text \in Seq(T), NEW d \in Seq(T), NEW k \in 1 .. Len(text) + 1
  PROVE  At(text, d, k) <=> /\ k + Len(d) <= Len(text) + 1
                            /\ \A i \in 1 .. Len(d) : text[k + i - 1] = d[i]
<1>1. CASE k + Len(d) <= Len(text) + 1
  <2> DEFINE s == SubSeq(text, k, k + Len(d) - 1)
  <2>1. \A i \in k .. (k + Len(d) - 1) : text[i] \in T
    BY <1>1, ElementOfSeq
  <2>2. s \in Seq(T) /\ Len(s) = Len(d) /\ \A i \in 1 .. Len(d) : s[i] = text[k + i - 1]
    BY <2>1, SubSeqProperties
  <2> HIDE DEF s
  <2>3. s = d <=> \A i \in 1 .. Len(d) : s[i] = d[i]
    BY <2>2, SeqEqual
  <2> QED
    BY <1>1, <2>2, <2>3 DEF At, s
<1>2. CASE ~(k + Len(d) <= Len(text) + 1)
  BY <1>2 DEF At
<1> QED
  BY <1>1, <1>2

(* What find returns: the end of the text, or the first place at or after  *)
(* the given one where the delimiter begins.                               *)
LEMMA FindIs ==
  ASSUME NEW T, NEW text \in Seq(T), NEW d \in Seq(T), Len(d) >= 1,
         NEW from \in 1 .. Len(text) + 1, NEW k \in from .. Len(text) + 1,
         k = Len(text) + 1 \/ At(text, d, k),
         \A j \in from .. (k - 1) : ~At(text, d, j)
  PROVE  find(text, d, from) = k
<1> DEFINE S == {j \in from .. npos(text) - Len(d) :
                   SubSeq(text, j, j + Len(d) - 1) = d} \cup {Len(text) + 1}
<1>1. S \in SUBSET Int /\ k \in S
  BY DEF At, npos
<1>2. ASSUME NEW j \in S PROVE k <= j
  BY DEF At, npos
<1> HIDE DEF S
<1>3. Min(S) = k
  BY <1>1, <1>2, MinIs
<1> QED
  BY <1>3 DEF find, S, npos

LEMMA FindFinds ==
  ASSUME NEW T, NEW text \in Seq(T), NEW d \in Seq(T), Len(d) >= 1,
         NEW from \in 1 .. Len(text) + 1
  PROVE  /\ find(text, d, from) \in from .. Len(text) + 1
         /\ find(text, d, from) = Len(text) + 1 \/ At(text, d, find(text, d, from))
         /\ \A j \in from .. find(text, d, from) - 1 : ~At(text, d, j)
<1> DEFINE S == {j \in from .. Len(text) + 1 : j = Len(text) + 1 \/ At(text, d, j)}
<1>1. S \in SUBSET Nat /\ Len(text) + 1 \in S
  OBVIOUS
<1>2. PICK k \in S : \A j \in S : k <= j
  BY <1>1, Least
<1>3. \A j \in from .. (k - 1) : ~At(text, d, j)
  BY <1>2
<1>4. find(text, d, from) = k
  BY <1>3, FindIs
<1> QED
  BY <1>3, <1>4

(* What lies before a text makes no difference to where a delimiter begins *)
(* in it.                                                                  *)
LEMMA AtShift ==
  ASSUME NEW T, NEW a \in Seq(T), NEW b \in Seq(T), NEW d \in Seq(T),
         NEW k \in 1 .. Len(b) + 1
  PROVE  At(a \o b, d, Len(a) + k) <=> At(b, d, k)
<1>1. a \o b \in Seq(T) /\ Len(a \o b) + 1 = Len(a) + Len(b) + 1
  BY ConcatProperties
<1>2. Len(a) + k \in 1 .. Len(a \o b) + 1
  BY <1>1
<1>3. ASSUME k + Len(d) <= Len(b) + 1, NEW i \in 1 .. Len(d)
      PROVE  (a \o b)[Len(a) + k + i - 1] = b[k + i - 1]
  BY <1>3, ConcatProperties
<1>4. At(b, d, k) <=> /\ k + Len(d) <= Len(b) + 1
                      /\ \A i \in 1 .. Len(d) : b[k + i - 1] = d[i]
  BY AtElements
<1> DEFINE ab == a \o b
           n == Len(a) + k
<1>5. ab \in Seq(T) /\ n \in 1 .. Len(ab) + 1
  BY <1>1, <1>2
<1>6. At(ab, d, n) <=> /\ n + Len(d) <= Len(ab) + 1
                       /\ \A i \in 1 .. Len(d) : ab[n + i - 1] = d[i]
  <2> HIDE DEF ab, n
  <2> QED
    BY <1>5, AtElements
<1>7. n + Len(d) <= Len(ab) + 1 <=> k + Len(d) <= Len(b) + 1
  BY <1>1
<1>8. ASSUME k + Len(d) <= Len(b) + 1, NEW i \in 1 .. Len(d)
      PROVE  ab[n + i - 1] = b[k + i - 1]
  BY <1>3, <1>8
<1> QED
  <2> HIDE DEF ab, n
  <2>1. At(ab, d, n) <=> At(b, d, k)
    BY <1>4, <1>6, <1>7, <1>8
  <2> QED
    BY <2>1 DEF ab, n

LEMMA FindShift ==
  ASSUME NEW T, NEW a \in Seq(T), NEW b \in Seq(T), NEW d \in Seq(T), Len(d) >= 1,
         NEW k \in 1 .. Len(b) + 1
  PROVE  find(a \o b, d, Len(a) + k) = Len(a) + find(b, d, k)
<1> DEFINE ab == a \o b
<1>1. PICK f \in k .. Len(b) + 1 :
        /\ f = find(b, d, k)
        /\ f = Len(b) + 1 \/ At(b, d, f)
        /\ \A j \in k .. (f - 1) : ~At(b, d, j)
  BY FindFinds
<1>2. ab \in Seq(T) /\ Len(ab) + 1 = Len(a) + Len(b) + 1 /\ Len(b) + 1 \in Nat /\ Len(a) \in Nat
  BY ConcatProperties
<1>3. \A j \in 1 .. Len(b) + 1 : At(ab, d, Len(a) + j) <=> At(b, d, j)
  BY AtShift
<1> HIDE DEF ab
<1>4. Len(a) + k \in 1 .. Len(ab) + 1 /\ Len(a) + f \in (Len(a) + k) .. Len(ab) + 1
  BY <1>1, <1>2
<1>5. Len(a) + f = Len(ab) + 1 \/ At(ab, d, Len(a) + f)
  BY <1>1, <1>2, <1>3
<1>6. ASSUME NEW j \in (Len(a) + k) .. (Len(a) + f - 1)
      PROVE  ~At(ab, d, j)
  <2> DEFINE i == j - Len(a)
  <2>1. i \in k .. (f - 1) /\ i \in 1 .. Len(b) + 1 /\ j = Len(a) + i
    OBVIOUS
  <2> HIDE DEF i
  <2> QED
    BY <1>1, <1>2, <1>3, <2>1
<1>7. find(ab, d, Len(a) + k) = Len(a) + f
  <2>1. PICK m \in Nat, n \in Nat : m = Len(a) + k /\ n = Len(a) + f
    BY <1>2, <1>4
  <2>2. m \in 1 .. Len(ab) + 1 /\ n \in m .. Len(ab) + 1
    BY <1>4, <2>1
  <2>3. (n = Len(ab) + 1 \/ At(ab, d, n)) /\ \A j \in m .. (n - 1) : ~At(ab, d, j)
    BY <1>5, <1>6, <2>1
  <2>4. find(ab, d, m) = n
    BY <1>2, <2>2, <2>3, FindIs
  <2> QED
    BY <2>1, <2>4
<1> QED
  BY <1>1, <1>7 DEF ab

(* A search runs past a text in which the delimiter does not begin. *)
LEMMA FindSkips ==
  ASSUME NEW T, NEW a \in Seq(T), NEW b \in Seq(T), NEW d \in Seq(T), Len(d) >= 1,
         \A j \in 1 .. Len(a) : ~At(a \o b, d, j)
  PROVE  find(a \o b, d, 1) = Len(a) + find(b, d, 1)
<1> DEFINE ab == a \o b
<1>1. PICK f \in 1 .. Len(b) + 1 :
        /\ f = find(b, d, 1)
        /\ f = Len(b) + 1 \/ At(b, d, f)
        /\ \A j \in 1 .. (f - 1) : ~At(b, d, j)
  <2>1. 1 \in 1 .. Len(b) + 1
    OBVIOUS
  <2> QED
    BY <2>1, FindFinds
<1>2. ab \in Seq(T) /\ Len(ab) + 1 = Len(a) + Len(b) + 1 /\ Len(b) + 1 \in Nat /\ Len(a) \in Nat
  BY ConcatProperties
<1>3. \A j \in 1 .. Len(b) + 1 : At(ab, d, Len(a) + j) <=> At(b, d, j)
  BY AtShift
<1>4. \A j \in 1 .. Len(a) : ~At(ab, d, j)
  OBVIOUS
<1> HIDE DEF ab
<1>5. Len(a) + f \in 1 .. Len(ab) + 1 /\ 1 \in 1 .. Len(ab) + 1
  BY <1>1, <1>2
<1>6. Len(a) + f = Len(ab) + 1 \/ At(ab, d, Len(a) + f)
  BY <1>1, <1>2, <1>3
<1>7. ASSUME NEW j \in 1 .. (Len(a) + f - 1)
      PROVE  ~At(ab, d, j)
  <2>1. CASE j > Len(a)
    <3> DEFINE i == j - Len(a)
    <3>1. i \in 1 .. (f - 1) /\ i \in 1 .. Len(b) + 1 /\ j = Len(a) + i
      BY <2>1
    <3> HIDE DEF i
    <3> QED
      BY <1>1, <1>2, <1>3, <3>1
  <2> QED
    BY <2>1, <1>2, <1>4
<1>8. find(ab, d, 1) = Len(a) + f
  BY <1>2, <1>5, <1>6, <1>7, FindIs
<1> QED
  BY <1>1, <1>8 DEF ab

(* A text without a character. *)
Free(text, c) == \A k \in 1 .. Len(text) : text[k] # c

(* A delimiter does not begin in a text without its first character. *)
LEMMA FreeSkips ==
  ASSUME NEW T, NEW a \in Seq(T), NEW b \in Seq(T), NEW d \in Seq(T), Len(d) >= 1, Free(a, d[1])
  PROVE  /\ \A j \in 1 .. Len(a) : ~At(a \o b, d, j)
         /\ find(a \o b, d, 1) = Len(a) + find(b, d, 1)
<1>1. ASSUME NEW j \in 1 .. Len(a) PROVE ~At(a \o b, d, j)
  <2>1. a \o b \in Seq(T) /\ j \in 1 .. Len(a \o b) + 1 /\ (a \o b)[j] = a[j]
    BY ConcatProperties
  <2>2. a[j] # d[1] /\ 1 \in 1 .. Len(d) /\ j + 1 - 1 = j
    BY DEF Free
  <2> DEFINE ab == a \o b
  <2> HIDE DEF ab
  <2>3. ab \in Seq(T) /\ j \in 1 .. Len(ab) + 1 /\ ab[j] # d[1]
    BY <2>1, <2>2 DEF ab
  <2>4. ASSUME At(ab, d, j) PROVE ab[j + 1 - 1] = d[1]
    BY <2>2, <2>3, <2>4, AtElements
  <2>5. ~At(ab, d, j)
    BY <2>2, <2>3, <2>4
  <2> QED
    BY <2>5 DEF ab
<1> QED
  BY <1>1, FindSkips

(* A text begins with its prefixes. *)
LEMMA AtHead ==
  ASSUME NEW T, NEW b \in Seq(T), NEW d \in Seq(T), Len(d) >= 1
  PROVE  At(d \o b, d, 1) /\ find(d \o b, d, 1) = 1
<1>1. d \o b \in Seq(T) /\ 1 \in 1 .. Len(d \o b) + 1 /\ 1 + Len(d) <= Len(d \o b) + 1
  BY ConcatProperties
<1>2. \A i \in 1 .. Len(d) : (d \o b)[1 + i - 1] = d[i]
  BY ConcatProperties
<1>3. At(d \o b, d, 1)
  BY <1>1, <1>2, AtElements
<1> DEFINE ab == d \o b
<1> HIDE DEF ab
<1>4. ab \in Seq(T) /\ 1 \in 1 .. Len(ab) + 1 /\ At(ab, d, 1)
  BY <1>1, <1>3 DEF ab
<1>5. find(ab, d, 1) = 1
  BY <1>4, FindIs
<1> QED
  BY <1>3, <1>5 DEF ab

-----------------------------------------------------------------------------
(* Functions that are defined by recursion: split and the client's cutting *)
(* of the stream go from one place to a later one, FlattenSeq from a       *)
(* number to the one before it.                                            *)

(* One equation of a chain of places, each with a next one or the last.    *)
Link(f, base, next, Ends, k) ==
    IF k \in Ends THEN base[k] ELSE base[k] \o f[next[k]]

GoesOn(N, next, Ends) == \A k \in 1 .. N : k \notin Ends => next[k] \in (k + 1) .. N

Solves(f, N, base, next, Ends) ==
    /\ f = [k \in 1 .. N |-> f[k]]
    /\ \A k \in 1 .. N : f[k] = Link(f, base, next, Ends, k)

LEMMA Chain ==
  ASSUME NEW N \in Nat, NEW Ends, NEW base, NEW next, GoesOn(N, next, Ends)
  PROVE  \E f : Solves(f, N, base, next, Ends)
<1> USE DEF GoesOn
<1> DEFINE Good(f, m) == \A k \in 1 .. N : k > N - m => f[k] = Link(f, base, next, Ends, k)
           P == {m \in Nat : \E f : Good(f, m)}
<1>1. 0 \in P
  <2>1. Good(base, 0)
    OBVIOUS
  <2> QED
    BY <2>1
<1>2. ASSUME NEW m \in P PROVE m + 1 \in P
  <2>1. PICK f : Good(f, m)
    OBVIOUS
  <2> DEFINE g == [k \in 1 .. N |-> IF k = N - m THEN Link(f, base, next, Ends, k) ELSE f[k]]
  <2>2. \A k \in 1 .. N : g[k] = IF k = N - m THEN Link(f, base, next, Ends, k) ELSE f[k]
    OBVIOUS
  <2> HIDE DEF g
  <2>3. ASSUME NEW k \in 1 .. N, k > N - (m + 1)
        PROVE  g[k] = Link(g, base, next, Ends, k)
    <3>1. g[k] = Link(f, base, next, Ends, k)
      BY <2>1, <2>2, <2>3
    <3>2. CASE k \in Ends
      BY <3>1, <3>2 DEF Link
    <3>3. CASE k \notin Ends
      <4>1. next[k] \in 1 .. N /\ next[k] # N - m
        BY <2>3, <3>3
      <4>2. g[next[k]] = f[next[k]]
        BY <2>2, <4>1
      <4> QED
        BY <3>1, <3>3, <4>2 DEF Link
    <3> QED
      BY <3>2, <3>3
  <2>4. Good(g, m + 1)
    BY <2>3
  <2> QED
    BY <2>4
<1>3. P = Nat
  <2>1. P \in SUBSET Nat
    OBVIOUS
  <2> HIDE DEF P
  <2> QED
    BY <1>1, <1>2, <2>1, Induction
<1>4. PICK f : Good(f, N)
  BY <1>3
<1> DEFINE g == [k \in 1 .. N |-> f[k]]
<1>5. ASSUME NEW k \in 1 .. N PROVE g[k] = Link(g, base, next, Ends, k)
  <2>1. g[k] = Link(f, base, next, Ends, k)
    BY <1>4
  <2>2. k \notin Ends => g[next[k]] = f[next[k]]
    OBVIOUS
  <2> HIDE DEF g
  <2> QED
    BY <2>1, <2>2 DEF Link
<1>6. g = [k \in 1 .. N |-> g[k]]
  OBVIOUS
<1> HIDE DEF g
<1>7. Solves(g, N, base, next, Ends)
  BY <1>5, <1>6 DEF Solves
<1> QED
  BY <1>7

(* Names for the equations, so that a use of one does not bring the others. *)
Associates(a, b, c) == (a \o b) \o c = a \o (b \o c)

LEMMA Association ==
  ASSUME NEW T, NEW a \in Seq(T), NEW b \in Seq(T), NEW c \in Seq(T)
  PROVE  Associates(a, b, c)
BY ConcatAssociative DEF Associates

Regroups(a, b, c, d) == ((a \o b) \o c) \o d = a \o (b \o (c \o d))

LEMMA Regroup ==
  ASSUME NEW T, NEW a \in Seq(T), NEW b \in Seq(T), NEW c \in Seq(T), NEW d \in Seq(T)
  PROVE  Regroups(a, b, c, d)
<1> DEFINE ab == a \o b
           cd == c \o d
<1>1. ab \in Seq(T) /\ cd \in Seq(T)
  BY ConcatProperties
<1> HIDE DEF ab, cd
<1>2. Associates(a, b, cd)
  BY <1>1, Association
<1>3. Associates(ab, c, d)
  BY <1>1, Association
<1> QED
  BY <1>2, <1>3 DEF Associates, Regroups, ab, cd

-----------------------------------------------------------------------------
(* split.                                                                  *)

(* The function of split, and what it cuts a text into that is not empty. *)
Tokens(text, delimiter) ==
    CHOOSE tokens : tokens =
      [start \in 1 .. Len(text) + 1 |->
         LET end == find(text, delimiter, start) IN
         IF end = npos(text) THEN <<SubSeq(text, start, Len(text))>>
         ELSE <<SubSeq(text, start, end - 1)>> \o tokens[end + Len(delimiter)]]

Cut(text, delimiter) == Tokens(text, delimiter)[1]

LEMMA SplitCuts ==
  ASSUME NEW text, NEW delimiter
  PROVE  split(text, delimiter) = IF text = <<>> THEN <<>> ELSE Cut(text, delimiter)
BY DEF split, Cut, Tokens

(* The function satisfies its equation. *)
LEMMA TokensEquation ==
  ASSUME NEW T, NEW text \in Seq(T), NEW d \in Seq(T), Len(d) >= 1, NEW start \in 1 .. Len(text) + 1
  PROVE  Tokens(text, d)[start] =
           IF find(text, d, start) = Len(text) + 1 THEN <<SubSeq(text, start, Len(text))>>
           ELSE <<SubSeq(text, start, find(text, d, start) - 1)>>
                  \o Tokens(text, d)[find(text, d, start) + Len(d)]
<1> DEFINE N == Len(text) + 1
           Ends == {k \in 1 .. N : find(text, d, k) = N}
           base == [k \in 1 .. N |-> IF k \in Ends THEN <<SubSeq(text, k, Len(text))>>
                                     ELSE <<SubSeq(text, k, find(text, d, k) - 1)>>]
           next == [k \in 1 .. N |-> find(text, d, k) + Len(d)]
           Equation(f) == f = [k \in 1 .. N |->
             IF find(text, d, k) = N THEN <<SubSeq(text, k, Len(text))>>
             ELSE <<SubSeq(text, k, find(text, d, k) - 1)>> \o f[find(text, d, k) + Len(d)]]
<1>1. ASSUME NEW k \in 1 .. N, k \notin Ends PROVE next[k] \in (k + 1) .. N
  <2>1. find(text, d, k) \in k .. N /\ At(text, d, find(text, d, k))
    BY <1>1, FindFinds
  <2> QED
    BY <2>1 DEF At
<1>2. N \in Nat
  OBVIOUS
<1>3. PICK f : Solves(f, N, base, next, Ends)
  <2> HIDE DEF N, Ends, base, next
  <2>1. GoesOn(N, next, Ends)
    BY <1>1, Zenon DEF GoesOn
  <2> QED
    BY <1>2, <2>1, Chain
<1>4. ASSUME NEW g, NEW k \in 1 .. N
      PROVE  Link(g, base, next, Ends, k) =
               IF find(text, d, k) = N THEN <<SubSeq(text, k, Len(text))>>
               ELSE <<SubSeq(text, k, find(text, d, k) - 1)>> \o g[find(text, d, k) + Len(d)]
  BY DEF Link
<1>5. Equation(f)
  BY <1>3, <1>4 DEF Solves
<1>6. Tokens(text, d) = CHOOSE g : Equation(g)
  BY DEF Tokens, npos
<1>7. Equation(Tokens(text, d))
  <2> HIDE DEF Equation
  <2> QED
    BY <1>5, <1>6
<1> QED
  BY <1>7

(* A part of a text that follows another one. *)
LEMMA SubSeqShift ==
  ASSUME NEW T, NEW a \in Seq(T), NEW b \in Seq(T), NEW i \in 1 .. Len(b) + 1, NEW j \in 0 .. Len(b)
  PROVE  /\ SubSeq(b, i, j) \in Seq(T)
         /\ SubSeq(a \o b, Len(a) + i, Len(a) + j) = SubSeq(b, i, j)
<1> DEFINE ab == a \o b
<1>1. ab \in Seq(T) /\ Len(ab) = Len(a) + Len(b) /\ \A k \in 1 .. Len(b) : ab[Len(a) + k] = b[k]
  BY ConcatProperties
<1> HIDE DEF ab
<1>2. PICK m \in Int, n \in Int : m = Len(a) + i /\ n = Len(a) + j
  OBVIOUS
<1>3. \A k \in i .. j : b[k] \in T
  BY ElementOfSeq
<1>4. \A k \in m .. n : ab[k] \in T
  BY <1>1, <1>2, ElementOfSeq
<1> DEFINE s == SubSeq(b, i, j)
           t == SubSeq(ab, m, n)
<1>5. /\ s \in Seq(T) /\ Len(s) = (IF i <= j THEN j - i + 1 ELSE 0)
      /\ \A k \in 1 .. (j - i + 1) : s[k] = b[i + k - 1]
  BY <1>3, SubSeqProperties
<1>6. /\ t \in Seq(T) /\ Len(t) = (IF m <= n THEN n - m + 1 ELSE 0)
      /\ \A k \in 1 .. (n - m + 1) : t[k] = ab[m + k - 1]
  BY <1>2, <1>4, SubSeqProperties
<1> HIDE DEF s, t
<1>7. Len(s) = Len(t)
  BY <1>2, <1>5, <1>6
<1>8. ASSUME NEW k \in 1 .. Len(s) PROVE s[k] = t[k]
  <2>1. k \in 1 .. (j - i + 1) /\ k \in 1 .. (n - m + 1) /\ i + k - 1 \in 1 .. Len(b)
    BY <1>2, <1>5
  <2>2. m + k - 1 = Len(a) + (i + k - 1)
    BY <1>2
  <2> QED
    BY <1>1, <1>5, <1>6, <2>1, <2>2
<1>9. s = t
  BY <1>5, <1>6, <1>7, <1>8, SeqEqual
<1> QED
  BY <1>2, <1>5, <1>9 DEF s, t, ab

Shifted(a, b, i, j) == SubSeq(a \o b, Len(a) + i, Len(a) + j) = SubSeq(b, i, j)

LEMMA SubSeqShifted ==
  ASSUME NEW T, NEW a \in Seq(T), NEW b \in Seq(T), NEW i \in 1 .. Len(b) + 1, NEW j \in 0 .. Len(b)
  PROVE  Shifted(a, b, i, j)
BY SubSeqShift DEF Shifted

(* What lies before a text makes no difference to how it is cut. *)
LEMMA TokensShift ==
  ASSUME NEW T, NEW a \in Seq(T), NEW b \in Seq(T), NEW d \in Seq(T), Len(d) >= 1,
         NEW start \in 1 .. Len(b) + 1
  PROVE  Tokens(a \o b, d)[Len(a) + start] = Tokens(b, d)[start]
<1> DEFINE ab == a \o b
           N == Len(b) + 1
           P == {m \in Nat : \A k \in 1 .. N : N - k < m =>
                                Tokens(ab, d)[Len(a) + k] = Tokens(b, d)[k]}
<1>1. ab \in Seq(T) /\ Len(ab) + 1 = Len(a) + N
  BY ConcatProperties
<1>2. 0 \in P
  OBVIOUS
<1>3. ASSUME NEW m \in P PROVE m + 1 \in P
  <2>0. PICK l \in Nat : l = m
    OBVIOUS
  <2>1. ASSUME NEW k \in 1 .. N, N - k < m + 1
        PROVE  Tokens(ab, d)[Len(a) + k] = Tokens(b, d)[k]
    <3>1. PICK f \in k .. N : f = find(b, d, k) /\ (f = N \/ At(b, d, f))
      BY FindFinds
    <3>2. find(ab, d, Len(a) + k) = Len(a) + f
      BY <3>1, FindShift
    <3>3. PICK n \in 1 .. Len(ab) + 1 : n = Len(a) + k
      BY <1>1
    <3>4. Tokens(b, d)[k] = IF f = N THEN <<SubSeq(b, k, Len(b))>>
                            ELSE <<SubSeq(b, k, f - 1)>> \o Tokens(b, d)[f + Len(d)]
      BY <3>1, TokensEquation
    <3>5. Tokens(ab, d)[n] =
            IF find(ab, d, n) = Len(ab) + 1 THEN <<SubSeq(ab, n, Len(ab))>>
            ELSE <<SubSeq(ab, n, find(ab, d, n) - 1)>> \o Tokens(ab, d)[find(ab, d, n) + Len(d)]
      <4> HIDE DEF ab
      <4> QED
        BY <1>1, TokensEquation
    <3>6. find(ab, d, n) = Len(a) + f /\ (Len(a) + f = Len(ab) + 1 <=> f = N)
      <4> HIDE DEF ab
      <4>1. find(ab, d, n) = Len(a) + f
        BY <3>2, <3>3
      <4>2. Len(a) \in Nat /\ N \in Nat /\ f \in Nat
        BY <3>1
      <4>3. Len(a) + f = Len(ab) + 1 <=> f = N
        <5> HIDE DEF N
        <5>1. PICK p \in Nat, q \in Nat, r \in Nat : p = Len(a) /\ q = N /\ r = Len(ab) /\ r + 1 = p + q
          BY <1>1, <4>2
        <5>2. p + f = r + 1 <=> f = q
          BY <4>2, <5>1
        <5> QED
          BY <5>1, <5>2
      <4> QED
        BY <4>1, <4>3
    <3>7. CASE f = N
      <4>1. SubSeq(ab, Len(a) + k, Len(a) + Len(b)) = SubSeq(b, k, Len(b))
        <5>1. Shifted(a, b, k, Len(b))
          BY SubSeqShifted
        <5> QED
          BY <5>1 DEF Shifted
      <4>2. Len(ab) = Len(a) + Len(b)
        BY <1>1
      <4> HIDE DEF ab
      <4> QED
        BY <3>3, <3>4, <3>5, <3>6, <3>7, <4>1, <4>2
    <3>8. CASE f # N
      <4>1. SubSeq(ab, Len(a) + k, Len(a) + (f - 1)) = SubSeq(b, k, f - 1)
        BY <3>8, SubSeqShift
      <4>2. PICK g \in 1 .. N : g = f + Len(d) /\ N - g < l
        <5>1. f + Len(d) <= N
          BY <3>1, <3>8 DEF At
        <5>2. f + Len(d) \in 1 .. N /\ N - (f + Len(d)) < l
          BY <2>0, <2>1, <5>1
        <5> QED
          BY <5>2
      <4>3. Tokens(ab, d)[Len(a) + g] = Tokens(b, d)[g]
        BY <2>0, <4>2
      <4>4. Len(a) + (f - 1) = Len(a) + f - 1 /\ Len(a) + g = Len(a) + f + Len(d)
        BY <4>2
      <4> HIDE DEF ab, N
      <4>5. Tokens(b, d)[k] = <<SubSeq(b, k, f - 1)>> \o Tokens(b, d)[g]
        BY <3>4, <3>8, <4>2
      <4>6. SubSeq(ab, n, find(ab, d, n) - 1) = SubSeq(b, k, f - 1)
        <5>1. find(ab, d, n) - 1 = Len(a) + (f - 1)
          BY <3>6, <4>4
        <5> QED
          BY <3>3, <4>1, <5>1
      <4>7. Tokens(ab, d)[find(ab, d, n) + Len(d)] = Tokens(b, d)[g]
        BY <3>6, <4>3, <4>4
      <4>8. find(ab, d, n) # Len(ab) + 1
        BY <3>6, <3>8
      <4>9. Tokens(ab, d)[n] = <<SubSeq(b, k, f - 1)>> \o Tokens(b, d)[g]
        BY <3>5, <4>6, <4>7, <4>8
      <4> QED
        BY <3>3, <4>5, <4>9
    <3> QED
      BY <3>7, <3>8
  <2> QED
    BY <2>1
<1>4. P = Nat
  <2>1. P \in SUBSET Nat
    OBVIOUS
  <2> HIDE DEF P
  <2> QED
    BY <1>2, <1>3, <2>1, Induction
<1>5. N \in P
  BY <1>4
<1> QED
  BY <1>5

(* Every text is cut into texts, and into at least one. *)
LEMMA CutType ==
  ASSUME NEW T, NEW text \in Seq(T), NEW d \in Seq(T), Len(d) >= 1
  PROVE  Cut(text, d) \in Seq(Seq(T)) /\ Len(Cut(text, d)) >= 1
<1> DEFINE N == Len(text) + 1
           S == {k \in 1 .. N : Tokens(text, d)[k] \in Seq(Seq(T)) /\ Len(Tokens(text, d)[k]) >= 1}
<1>1. ASSUME NEW k \in 1 .. N, \A j \in (k + 1) .. N : j \in S
      PROVE  k \in S
  <2>1. PICK f \in k .. N : f = find(text, d, k) /\ (f = N \/ At(text, d, f))
    BY FindFinds
  <2>2. Tokens(text, d)[k] = IF f = N THEN <<SubSeq(text, k, Len(text))>>
                             ELSE <<SubSeq(text, k, f - 1)>> \o Tokens(text, d)[f + Len(d)]
    BY <2>1, TokensEquation
  <2>3. SubSeq(text, k, Len(text)) \in Seq(T) /\ SubSeq(text, k, f - 1) \in Seq(T)
    BY <2>1, SubSeqShift
  <2>4. CASE f = N
    <3> DEFINE last == SubSeq(text, k, Len(text))
    <3>1. last \in Seq(T) /\ Tokens(text, d)[k] = <<last>>
      BY <2>2, <2>3, <2>4
    <3> HIDE DEF last
    <3>2. <<last>> \in Seq(Seq(T)) /\ Len(<<last>>) >= 1
      BY <3>1
    <3> QED
      BY <3>1, <3>2
  <2>5. CASE f # N
    <3>1. f + Len(d) <= N
      BY <2>1, <2>5 DEF At
    <3>2. PICK g \in (k + 1) .. N : g = f + Len(d)
      BY <3>1
    <3>3. g \in S
      BY <1>1
    <3> DEFINE rest == Tokens(text, d)[g]
               first == SubSeq(text, k, f - 1)
    <3>4. rest \in Seq(Seq(T)) /\ Len(rest) >= 1 /\ first \in Seq(T)
      BY <2>3, <3>3
    <3>5. Tokens(text, d)[k] = <<first>> \o rest
      BY <2>2, <2>5, <3>2
    <3> HIDE DEF rest, first
    <3>6. <<first>> \o rest \in Seq(Seq(T)) /\ Len(<<first>> \o rest) >= 1
      BY <3>4
    <3> QED
      BY <3>5, <3>6
  <2> QED
    BY <2>4, <2>5
<1>2. S = 1 .. N
  <2>1. S \in SUBSET (1 .. N) /\ N \in Nat
    OBVIOUS
  <2> HIDE DEF S, N
  <2> QED
    BY <1>1, <2>1, Backwards
<1>3. 1 \in S
  BY <1>2
<1> QED
  BY <1>3 DEF Cut

(* The first piece ends at the first delimiter. *)
LEMMA CutFirst ==
  ASSUME NEW T, NEW a \in Seq(T), NEW b \in Seq(T), NEW d \in Seq(T), Len(d) >= 1, Free(a, d[1])
  PROVE  Cut(a \o (d \o b), d) = <<a>> \o Cut(b, d)
<1> DEFINE db == d \o b
           ad == a \o d
           text == a \o db
<1>1. db \in Seq(T) /\ ad \in Seq(T) /\ text \in Seq(T) /\ Len(db) = Len(d) + Len(b)
        /\ Len(ad) = Len(a) + Len(d) /\ Len(text) = Len(a) + Len(d) + Len(b)
  BY ConcatProperties
<1>2. text = ad \o b
  <2>1. Associates(a, d, b)
    BY Association
  <2> QED
    BY <2>1 DEF Associates
<1>3. find(db, d, 1) = 1
  BY AtHead
<1>4. SubSeq(text, 1, Len(a)) = a
  BY <1>1, ConcatProperties, SubSeqProperties, SeqEqual
<1> HIDE DEF db, ad
<1>5. find(text, d, 1) = Len(a) + 1
  BY <1>1, <1>3, FreeSkips
<1> HIDE DEF text
<1>6. Len(a) + 1 # Len(text) + 1 /\ 1 \in 1 .. Len(text) + 1 /\ (Len(a) + 1) - 1 = Len(a)
  BY <1>1
<1>7. Tokens(text, d)[1] = <<a>> \o Tokens(text, d)[Len(a) + 1 + Len(d)]
  <2>1. Tokens(text, d)[1] =
           IF find(text, d, 1) = Len(text) + 1 THEN <<SubSeq(text, 1, Len(text))>>
           ELSE <<SubSeq(text, 1, find(text, d, 1) - 1)>>
                  \o Tokens(text, d)[find(text, d, 1) + Len(d)]
    BY <1>1, <1>6, TokensEquation
  <2>2. SubSeq(text, 1, find(text, d, 1) - 1) = a
    BY <1>4, <1>5, <1>6
  <2> QED
    BY <1>5, <1>6, <2>1, <2>2
<1>8. Tokens(text, d)[Len(ad) + 1] = Tokens(b, d)[1]
  <2>1. 1 \in 1 .. Len(b) + 1
    OBVIOUS
  <2>2. ad \in Seq(T)
    BY <1>1
  <2>3. Tokens(ad \o b, d)[Len(ad) + 1] = Tokens(b, d)[1]
    BY <2>1, <2>2, TokensShift
  <2> QED
    BY <1>2, <2>3
<1>9. Len(ad) + 1 = Len(a) + 1 + Len(d)
  BY <1>1
<1> QED
  BY <1>7, <1>8, <1>9 DEF Cut, text, db

CutsFirst(a, b, d) == Cut(a \o (d \o b), d) = <<a>> \o Cut(b, d)

LEMMA CutAtFirst ==
  ASSUME NEW T, NEW a \in Seq(T), NEW b \in Seq(T), NEW d \in Seq(T), Len(d) >= 1, Free(a, d[1])
  PROVE  CutsFirst(a, b, d)
BY CutFirst DEF CutsFirst

(* Without a delimiter there is one piece. *)
LEMMA CutLast ==
  ASSUME NEW T, NEW a \in Seq(T), NEW d \in Seq(T), Len(d) >= 1, Free(a, d[1])
  PROVE  Cut(a, d) = <<a>>
<1>1. a \o <<>> = a /\ <<>> \in Seq(T)
  OBVIOUS
<1>2. \A j \in 1 .. Len(a) : ~At(a, d, j)
  BY <1>1, FreeSkips
<1>3. find(a, d, 1) = Len(a) + 1
  BY <1>2, FindIs
<1>4. Tokens(a, d)[1] = <<SubSeq(a, 1, Len(a))>>
  <2>1. 1 \in 1 .. Len(a) + 1
    OBVIOUS
  <2>2. Tokens(a, d)[1] =
           IF find(a, d, 1) = Len(a) + 1 THEN <<SubSeq(a, 1, Len(a))>>
           ELSE <<SubSeq(a, 1, find(a, d, 1) - 1)>> \o Tokens(a, d)[find(a, d, 1) + Len(d)]
    BY <2>1, TokensEquation
  <2> QED
    BY <1>3, <2>2
<1>5. SubSeq(a, 1, Len(a)) = a
  OBVIOUS
<1> QED
  BY <1>4, <1>5 DEF Cut

-----------------------------------------------------------------------------
(* FlattenSeq.                                                             *)

(* What holds of the empty sequence, and of a sequence with one more       *)
(* element at its end when it holds of the sequence, holds of all.         *)
LEMMA AppendInduction ==
  ASSUME NEW T, NEW S \in SUBSET Seq(T), <<>> \in S,
         \A s \in S : \A e \in T : Append(s, e) \in S
  PROVE  S = Seq(T)
<1> DEFINE P == {n \in Nat : \A s \in Seq(T) : Len(s) = n => s \in S}
<1>1. 0 \in P
  <2>1. \A s \in Seq(T) : Len(s) = 0 => s = <<>>
    BY EmptySeq
  <2> QED
    BY <2>1
<1>2. ASSUME NEW n \in P PROVE n + 1 \in P
  <2>1. ASSUME NEW s \in Seq(T), Len(s) = n + 1 PROVE s \in S
    <3> DEFINE front == [k \in 1 .. n |-> s[k]]
               last == s[n + 1]
    <3>0. \A k \in 1 .. n + 1 : s[k] \in T
      BY <2>1
    <3>1. front \in Seq(T) /\ Len(front) = n /\ last \in T
      BY <3>0
    <3>2. s = Append(front, last)
      <4>1. Append(front, last) \in Seq(T) /\ Len(Append(front, last)) = n + 1
        <5> HIDE DEF front, last
        <5> QED
          BY <3>1, AppendProperties
      <4>2. ASSUME NEW i \in 1 .. n + 1 PROVE s[i] = Append(front, last)[i]
        <5>1. i = n + 1 \/ i \in 1 .. n
          OBVIOUS
        <5>2. last = s[n + 1] /\ \A k \in 1 .. n : front[k] = s[k]
          OBVIOUS
        <5> HIDE DEF front, last
        <5>3. /\ Append(front, last)[n + 1] = last
              /\ \A k \in 1 .. n : Append(front, last)[k] = front[k]
          BY <3>1, AppendProperties
        <5> QED
          BY <5>1, <5>2, <5>3
      <4> HIDE DEF front, last
      <4> QED
        BY <2>1, <4>1, <4>2, SeqEqual
    <3>3. front \in S
      BY <3>1
    <3> QED
      BY <3>1, <3>2, <3>3
  <2> QED
    BY <2>1
<1>3. P = Nat
  <2>1. P \in SUBSET Nat
    OBVIOUS
  <2> HIDE DEF P
  <2> QED
    BY <1>1, <1>2, <2>1, Induction
<1>4. ASSUME NEW s \in Seq(T) PROVE s \in S
  <2>1. Len(s) \in P
    BY <1>3
  <2> QED
    BY <2>1
<1> QED
  BY <1>4

(* The same with one more element at its beginning. *)
LEMMA ConsInduction ==
  ASSUME NEW T, NEW S \in SUBSET Seq(T), <<>> \in S,
         \A s \in S : \A e \in T : <<e>> \o s \in S
  PROVE  S = Seq(T)
<1> DEFINE P == {n \in Nat : \A s \in Seq(T) : Len(s) = n => s \in S}
<1>1. 0 \in P
  <2>1. \A s \in Seq(T) : Len(s) = 0 => s = <<>>
    BY EmptySeq
  <2> QED
    BY <2>1
<1>2. ASSUME NEW n \in P PROVE n + 1 \in P
  <2>1. ASSUME NEW s \in Seq(T), Len(s) = n + 1 PROVE s \in S
    <3> DEFINE rest == Tail(s)
    <3>1. rest \in Seq(T) /\ Len(rest) = n /\ s[1] \in T
      BY <2>1
    <3>2. s = <<s[1]>> \o rest
      BY <2>1
    <3>3. rest \in S
      BY <3>1
    <3> QED
      BY <3>1, <3>2, <3>3
  <2> QED
    BY <2>1
<1>3. P = Nat
  <2>1. P \in SUBSET Nat
    OBVIOUS
  <2> HIDE DEF P
  <2> QED
    BY <1>1, <1>2, <2>1, Induction
<1>4. ASSUME NEW s \in Seq(T) PROVE s \in S
  <2>1. Len(s) \in P
    BY <1>3
  <2> QED
    BY <2>1
<1> QED
  BY <1>4

(* The function of FlattenSeq. *)
Flats(seqs) ==
    CHOOSE flatten : flatten =
      [i \in 1 .. Len(seqs) |-> IF i = 1 THEN seqs[i] ELSE flatten[i - 1] \o seqs[i]]

Flattens(f, seqs, m) == \A i \in 1 .. m : f[i] = IF i = 1 THEN seqs[i] ELSE f[i - 1] \o seqs[i]

LEMMA FlatsExist ==
  ASSUME NEW seqs, Len(seqs) \in Nat
  PROVE  Flattens(Flats(seqs), seqs, Len(seqs))
<1> DEFINE P == {m \in Nat : \E f : Flattens(f, seqs, m)}
<1>1. 0 \in P
  BY DEF Flattens
<1>2. ASSUME NEW m \in P PROVE m + 1 \in P
  <2>1. PICK f : Flattens(f, seqs, m)
    OBVIOUS
  <2> DEFINE g == [i \in 1 .. m + 1 |-> IF i = m + 1 THEN IF i = 1 THEN seqs[i] ELSE f[i - 1] \o seqs[i]
                                       ELSE f[i]]
  <2>2. ASSUME NEW i \in 1 .. m + 1
        PROVE  g[i] = IF i = 1 THEN seqs[i] ELSE g[i - 1] \o seqs[i]
    <3>1. CASE i = m + 1
      <4>1. i # 1 => g[i - 1] = f[i - 1]
        BY <3>1
      <4> QED
        BY <3>1, <4>1
    <3>2. CASE i # m + 1
      <4>1. i # 1 => g[i - 1] = f[i - 1]
        BY <3>2
      <4>2. g[i] = f[i]
        BY <3>2
      <4> QED
        BY <2>1, <3>2, <4>1, <4>2 DEF Flattens
    <3> QED
      BY <3>1, <3>2
  <2> HIDE DEF g
  <2>3. Flattens(g, seqs, m + 1)
    BY <2>2 DEF Flattens
  <2> QED
    BY <2>3
<1>3. P = Nat
  <2>1. P \in SUBSET Nat
    OBVIOUS
  <2> HIDE DEF P
  <2> QED
    BY <1>1, <1>2, <2>1, Induction
<1> DEFINE n == Len(seqs)
           Equation(f) == f = [i \in 1 .. n |-> IF i = 1 THEN seqs[i] ELSE f[i - 1] \o seqs[i]]
<1>4. PICK f : Flattens(f, seqs, n)
  BY <1>3
<1> DEFINE g == [i \in 1 .. n |-> f[i]]
<1>5. Equation(g)
  <2>1. ASSUME NEW i \in 1 .. n
        PROVE  g[i] = IF i = 1 THEN seqs[i] ELSE g[i - 1] \o seqs[i]
    <3>1. g[i] = f[i] /\ (i # 1 => g[i - 1] = f[i - 1])
      OBVIOUS
    <3> QED
      BY <1>4, <3>1 DEF Flattens
  <2>2. g = [i \in 1 .. n |-> g[i]]
    OBVIOUS
  <2> HIDE DEF g
  <2> QED
    BY <2>1, <2>2
<1>6. Equation(Flats(seqs))
  <2>1. Flats(seqs) = CHOOSE h : Equation(h)
    BY DEF Flats
  <2> HIDE DEF Equation
  <2> QED
    BY <1>5, <2>1
<1> QED
  BY <1>6 DEF Flattens

LEMMA FlattenEmpty == FlattenSeq(<<>>) = <<>>
BY DEF FlattenSeq

LEMMA FlattenIs ==
  ASSUME NEW seqs, Len(seqs) # 0
  PROVE  FlattenSeq(seqs) = Flats(seqs)[Len(seqs)]
BY DEF FlattenSeq, Flats

LEMMA FlattenAppend ==
  ASSUME NEW T, NEW s \in Seq(Seq(T)), NEW e \in Seq(T)
  PROVE  FlattenSeq(Append(s, e)) = FlattenSeq(s) \o e
<1> DEFINE t == Append(s, e)
           n == Len(s)
           P == {i \in Nat : i \in 1 .. n => Flats(t)[i] = Flats(s)[i]}
<1>1. Len(t) = n + 1 /\ n \in Nat /\ t[n + 1] = e /\ \A i \in 1 .. n : t[i] = s[i]
  OBVIOUS
<1> HIDE DEF t
<1>2. Flattens(Flats(t), t, n + 1) /\ Flattens(Flats(s), s, n)
  BY <1>1, FlatsExist
<1>3. 0 \in P
  OBVIOUS
<1>4. ASSUME NEW i \in P PROVE i + 1 \in P
  <2> SUFFICES ASSUME i + 1 \in 1 .. n PROVE Flats(t)[i + 1] = Flats(s)[i + 1]
    OBVIOUS
  <2>1. Flats(t)[i + 1] = IF i + 1 = 1 THEN t[i + 1] ELSE Flats(t)[i] \o t[i + 1]
    BY <1>1, <1>2 DEF Flattens
  <2>2. Flats(s)[i + 1] = IF i + 1 = 1 THEN s[i + 1] ELSE Flats(s)[i] \o s[i + 1]
    BY <1>1, <1>2 DEF Flattens
  <2> QED
    BY <1>1, <2>1, <2>2
<1>5. P = Nat
  <2>1. P \in SUBSET Nat
    OBVIOUS
  <2> HIDE DEF P
  <2> QED
    BY <1>3, <1>4, <2>1, Induction
<1>6. FlattenSeq(t) = IF n = 0 THEN e ELSE Flats(t)[n] \o e
  <2>1. Len(t) # 0
    BY <1>1
  <2>2. FlattenSeq(t) = Flats(t)[n + 1]
    BY <1>1, <2>1, FlattenIs
  <2>3. Flats(t)[n + 1] = IF n + 1 = 1 THEN t[n + 1] ELSE Flats(t)[n + 1 - 1] \o t[n + 1]
    BY <1>1, <1>2 DEF Flattens
  <2> QED
    BY <1>1, <2>2, <2>3
<1>7. CASE n = 0
  <2>1. s = <<>>
    BY <1>7, EmptySeq
  <2> QED
    BY <1>6, <1>7, <2>1, FlattenEmpty DEF t
<1>8. CASE n # 0
  <2>1. Flats(t)[n] = Flats(s)[n]
    <3>1. n \in P
      BY <1>1, <1>5
    <3> QED
      BY <1>1, <1>8, <3>1
  <2>2. FlattenSeq(s) = Flats(s)[n]
    BY <1>8, FlattenIs
  <2> QED
    BY <1>6, <1>8, <2>1, <2>2 DEF t
<1> QED
  BY <1>7, <1>8

LEMMA FlattenType ==
  ASSUME NEW T, NEW s \in Seq(Seq(T))
  PROVE  FlattenSeq(s) \in Seq(T)
<1> DEFINE S == {t \in Seq(Seq(T)) : FlattenSeq(t) \in Seq(T)}
<1>1. <<>> \in S
  <2>1. <<>> \in Seq(Seq(T)) /\ <<>> \in Seq(T)
    OBVIOUS
  <2> QED
    BY <2>1, FlattenEmpty
<1>2. ASSUME NEW t \in S, NEW e \in Seq(T) PROVE Append(t, e) \in S
  <2>1. FlattenSeq(Append(t, e)) = FlattenSeq(t) \o e
    BY FlattenAppend
  <2>2. FlattenSeq(t) \o e \in Seq(T) /\ Append(t, e) \in Seq(Seq(T))
    OBVIOUS
  <2> QED
    BY <2>1, <2>2
<1>3. S = Seq(Seq(T))
  <2>1. S \in SUBSET Seq(Seq(T))
    OBVIOUS
  <2> HIDE DEF S
  <2> QED
    BY <1>1, <1>2, <2>1, AppendInduction
<1> QED
  BY <1>3

LEMMA FlattenCons ==
  ASSUME NEW T, NEW s \in Seq(Seq(T)), NEW e \in Seq(T)
  PROVE  FlattenSeq(<<e>> \o s) = e \o FlattenSeq(s)
<1> DEFINE S == {t \in Seq(Seq(T)) : FlattenSeq(<<e>> \o t) = e \o FlattenSeq(t)}
<1>1. <<>> \in S
  <2>1. <<e>> \o <<>> = Append(<<>>, e) /\ <<>> \in Seq(Seq(T))
    OBVIOUS
  <2>2. FlattenSeq(Append(<<>>, e)) = FlattenSeq(<<>>) \o e
    BY <2>1, FlattenAppend
  <2>3. <<>> \o e = e /\ e \o <<>> = e
    OBVIOUS
  <2> QED
    BY <2>1, <2>2, <2>3, FlattenEmpty
<1>2. ASSUME NEW t \in S, NEW x \in Seq(T) PROVE Append(t, x) \in S
  <2> DEFINE et == <<e>> \o t
  <2>0. et \in Seq(Seq(T)) /\ Append(t, x) \in Seq(Seq(T))
    OBVIOUS
  <2>a. <<e>> \o Append(t, x) = Append(et, x)
    OBVIOUS
  <2>1. <<e>> \o Append(t, x) = Append(et, x) /\ et \in Seq(Seq(T)) /\ Append(t, x) \in Seq(Seq(T))
    BY <2>0, <2>a
  <2>2. FlattenSeq(t) \in Seq(T)
    BY FlattenType
  <2>3. FlattenSeq(et) = e \o FlattenSeq(t)
    OBVIOUS
  <2> HIDE DEF et
  <2>4. FlattenSeq(Append(et, x)) = FlattenSeq(et) \o x /\ FlattenSeq(Append(t, x)) = FlattenSeq(t) \o x
    BY <2>1, FlattenAppend
  <2>5. (e \o FlattenSeq(t)) \o x = e \o (FlattenSeq(t) \o x)
    <3>1. Associates(e, FlattenSeq(t), x)
      BY <2>2, Association
    <3> QED
      BY <3>1 DEF Associates
  <2>6. FlattenSeq(<<e>> \o Append(t, x)) = e \o FlattenSeq(Append(t, x))
    BY <2>1, <2>3, <2>4, <2>5
  <2> QED
    BY <2>1, <2>6
<1>3. S = Seq(Seq(T))
  <2>1. S \in SUBSET Seq(Seq(T))
    OBVIOUS
  <2> HIDE DEF S
  <2> QED
    BY <1>1, <1>2, <2>1, AppendInduction
<1> QED
  BY <1>3

-----------------------------------------------------------------------------
(* Lines: how a header, the reply of FTP and a request are put together.   *)

(* The strings there are.  The provers do not know of a literal that it is *)
(* one.                                                                    *)
Literals ==
    {Sp, ":", "\r", "\n", "=", "HTTP", "/1.1", "localhost", "1670", "Basic", "100-continue",
     "reason", "phrase", "Content-Type", "application/octet-stream", "Content-Length",
     "WWW-Authenticate", "0", "Please", "provide", "password", "Entering", "(", Comma, ")"}

Chars == STRING \cup Literals \cup Fields \cup {Alphabet[k] : k \in 1 .. 64}

LEMMA Terminators ==
  /\ CRLF \in Seq(Chars) /\ Len(CRLF) = 2 /\ CRLF[1] = "\r" /\ CRLF[2] = "\n"
  /\ EndOfHeader \in Seq(Chars) /\ Len(EndOfHeader) = 4 /\ EndOfHeader = CRLF \o CRLF
  /\ EndOfHeader[1] = "\r" /\ EndOfHeader[2] = "\n" /\ EndOfHeader[3] = "\r" /\ EndOfHeader[4] = "\n"
<1>1. CRLF \in Seq(Chars) /\ Len(CRLF) = 2 /\ CRLF[1] = "\r" /\ CRLF[2] = "\n"
  <2>1. "\r" \in Chars /\ "\n" \in Chars
    BY DEF Chars, Literals
  <2> QED
    BY <2>1 DEF CRLF
<1>2. EndOfHeader = CRLF \o CRLF
  BY DEF EndOfHeader
<1> DEFINE e == CRLF \o CRLF
<1>3. CRLF \in Seq(Chars)
  BY <1>1
<1>4. /\ e \in Seq(Chars) /\ Len(e) = Len(CRLF) + Len(CRLF)
      /\ \A i \in 1 .. Len(CRLF) : e[i] = CRLF[i]
      /\ \A i \in 1 .. Len(CRLF) : e[Len(CRLF) + i] = CRLF[i]
  BY <1>3, ConcatProperties
<1> HIDE DEF e
<1>5. Len(e) = 4 /\ e[1] = CRLF[1] /\ e[2] = CRLF[2] /\ e[2 + 1] = CRLF[1] /\ e[2 + 2] = CRLF[2]
  BY <1>1, <1>4
<1>6. EndOfHeader = e
  BY <1>2 DEF e
<1> QED
  BY <1>1, <1>2, <1>4, <1>5, <1>6

Ended(lines) == [k \in 1 .. Len(lines) |-> lines[k] \o CRLF]

Joined(lines) == FlattenSeq(Ended(lines))

LEMMA EndedType ==
  ASSUME NEW ls \in Seq(Seq(Chars))
  PROVE  Ended(ls) \in Seq(Seq(Chars)) /\ Len(Ended(ls)) = Len(ls) /\ Joined(ls) \in Seq(Chars)
<1>1. ASSUME NEW k \in 1 .. Len(ls) PROVE ls[k] \o CRLF \in Seq(Chars)
  BY Terminators, ConcatProperties
<1>2. Ended(ls) \in Seq(Seq(Chars)) /\ Len(Ended(ls)) = Len(ls)
  BY <1>1 DEF Ended
<1> QED
  BY <1>2, FlattenType DEF Joined

LEMMA JoinedEmpty == Joined(<<>>) = <<>>
<1>1. Ended(<<>>) = <<>>
  BY DEF Ended
<1> QED
  BY <1>1, FlattenEmpty DEF Joined

LEMMA JoinedCons ==
  ASSUME NEW ls \in Seq(Seq(Chars)), NEW l \in Seq(Chars)
  PROVE  Joined(<<l>> \o ls) = (l \o CRLF) \o Joined(ls)
<1> DEFINE all == <<l>> \o ls
           e == Ended(ls)
           first == l \o CRLF
<1>1. first \in Seq(Chars)
  BY Terminators, ConcatProperties
<1>2. e \in Seq(Seq(Chars)) /\ Len(e) = Len(ls) /\ \A k \in 1 .. Len(ls) : e[k] = ls[k] \o CRLF
  BY EndedType DEF Ended
<1>3. all \in Seq(Seq(Chars)) /\ Len(all) = Len(ls) + 1 /\ all[1] = l
        /\ \A k \in 1 .. Len(all) : k # 1 => k - 1 \in 1 .. Len(ls) /\ all[k] = ls[k - 1]
  OBVIOUS
<1> HIDE DEF all
<1>4. Ended(all) \in Seq(Seq(Chars)) /\ Len(Ended(all)) = Len(all)
        /\ \A k \in 1 .. Len(all) : Ended(all)[k] = all[k] \o CRLF
  BY <1>3, EndedType DEF Ended
<1> HIDE DEF e, first
<1>5. <<first>> \o e \in Seq(Seq(Chars)) /\ Len(<<first>> \o e) = Len(all)
        /\ (<<first>> \o e)[1] = first
        /\ \A k \in 1 .. Len(all) : k # 1 => (<<first>> \o e)[k] = e[k - 1]
  BY <1>1, <1>2, <1>3
<1>6. ASSUME NEW k \in 1 .. Len(all) PROVE Ended(all)[k] = (<<first>> \o e)[k]
  BY <1>2, <1>3, <1>4, <1>5 DEF first
<1>7. Ended(all) = <<first>> \o e
  BY <1>4, <1>5, <1>6, SeqEqual
<1>8. FlattenSeq(<<first>> \o e) = first \o FlattenSeq(e)
  BY <1>1, <1>2, FlattenCons
<1> QED
  BY <1>7, <1>8 DEF Joined, e, first, all

LEMMA JoinedAppend ==
  ASSUME NEW ls \in Seq(Seq(Chars)), NEW l \in Seq(Chars)
  PROVE  Joined(Append(ls, l)) = Joined(ls) \o (l \o CRLF)
<1> DEFINE all == Append(ls, l)
           e == Ended(ls)
           last == l \o CRLF
<1>1. last \in Seq(Chars)
  BY Terminators, ConcatProperties
<1>2. e \in Seq(Seq(Chars)) /\ Len(e) = Len(ls) /\ \A k \in 1 .. Len(ls) : e[k] = ls[k] \o CRLF
  BY EndedType DEF Ended
<1>3. all \in Seq(Seq(Chars)) /\ Len(all) = Len(ls) + 1 /\ all[Len(all)] = l
        /\ \A k \in 1 .. Len(all) : k # Len(all) => k \in 1 .. Len(ls) /\ all[k] = ls[k]
  OBVIOUS
<1> HIDE DEF all
<1>4. Ended(all) \in Seq(Seq(Chars)) /\ Len(Ended(all)) = Len(all)
        /\ \A k \in 1 .. Len(all) : Ended(all)[k] = all[k] \o CRLF
  BY <1>3, EndedType DEF Ended
<1> HIDE DEF e, last
<1>5. Append(e, last) \in Seq(Seq(Chars)) /\ Len(Append(e, last)) = Len(all)
        /\ Append(e, last)[Len(all)] = last
        /\ \A k \in 1 .. Len(all) : k # Len(all) => Append(e, last)[k] = e[k]
  BY <1>1, <1>2, <1>3
<1>6. ASSUME NEW k \in 1 .. Len(all) PROVE Ended(all)[k] = Append(e, last)[k]
  BY <1>2, <1>3, <1>4, <1>5 DEF last
<1>7. Ended(all) = Append(e, last)
  BY <1>4, <1>5, <1>6, SeqEqual
<1>8. FlattenSeq(Append(e, last)) = FlattenSeq(e) \o last
  BY <1>1, <1>2, FlattenAppend
<1> QED
  BY <1>7, <1>8 DEF Joined, e, last, all

Lines == {l \in Seq(Chars) : Len(l) >= 1 /\ Free(l, "\r")}

LEMMA LinesType ==
  ASSUME NEW ls \in Seq(Lines)
  PROVE  ls \in Seq(Seq(Chars)) /\ Joined(ls) \in Seq(Chars)
<1>1. Lines \subseteq Seq(Chars)
  BY DEF Lines
<1>2. ls \in Seq(Seq(Chars))
  BY <1>1, SeqMonotonic
<1> QED
  BY <1>2, EndedType

(* Lines are cut where they were joined. *)
LEMMA CutJoined ==
  ASSUME NEW ls \in Seq(Lines), NEW x \in Seq(Chars)
  PROVE  Cut(Joined(ls) \o x, CRLF) = ls \o Cut(x, CRLF)
<1> DEFINE pieces == Cut(x, CRLF)
           S == {t \in Seq(Lines) : Cut(Joined(t) \o x, CRLF) = t \o pieces}
<1>1. pieces \in Seq(Seq(Chars))
  BY Terminators, CutType
<1> HIDE DEF pieces
<1>2. <<>> \in S
  <2>1. <<>> \o x = x /\ <<>> \o pieces = pieces /\ <<>> \in Seq(Lines)
    BY <1>1
  <2> QED
    BY <2>1, JoinedEmpty DEF pieces
<1>3. ASSUME NEW t \in S, NEW l \in Lines PROVE <<l>> \o t \in S
  <2>0. t \in Seq(Lines) /\ Cut(Joined(t) \o x, CRLF) = t \o pieces
    OBVIOUS
  <2> HIDE DEF S
  <2>1. PICK u \in Seq(Seq(Chars)) : u = t
    BY <2>0, LinesType
  <2>2. PICK j \in Seq(Chars) : j = Joined(t)
    BY <2>0, LinesType
  <2>3. l \in Seq(Chars) /\ Free(l, CRLF[1])
    BY Terminators DEF Lines
  <2>4. CRLF \in Seq(Chars) /\ Len(CRLF) >= 1
    BY Terminators
  <2>5. Joined(<<l>> \o u) = (l \o CRLF) \o j
    BY <2>1, <2>2, <2>3, JoinedCons
  <2>6. Cut(j \o x, CRLF) = u \o pieces
    BY <2>0, <2>1, <2>2
  <2>7. ((l \o CRLF) \o j) \o x = l \o (CRLF \o (j \o x))
    <3>1. Regroups(l, CRLF, j, x)
      BY <2>3, <2>4, Regroup
    <3> QED
      BY <3>1 DEF Regroups
  <2> DEFINE jx == j \o x
  <2>8. jx \in Seq(Chars)
    BY ConcatProperties
  <2> HIDE DEF jx
  <2>9. Cut(l \o (CRLF \o jx), CRLF) = <<l>> \o Cut(jx, CRLF)
    <3> DEFINE d == CRLF
    <3>1. l \in Seq(Chars) /\ Free(l, d[1]) /\ d \in Seq(Chars) /\ Len(d) >= 1
      BY <2>3, <2>4
    <3> HIDE DEF d
    <3>2. CutsFirst(l, jx, d)
      BY <2>8, <3>1, CutAtFirst
    <3> QED
      BY <3>2 DEF CutsFirst, d
  <2>10. <<l>> \o (u \o pieces) = (<<l>> \o u) \o pieces
    <3> DEFINE first == <<l>>
    <3>1. first \in Seq(Seq(Chars))
      BY <2>3
    <3> HIDE DEF first
    <3>2. Associates(first, u, pieces)
      BY <1>1, <3>1, Association
    <3> QED
      BY <3>2 DEF first, Associates
  <2>11. Cut(Joined(<<l>> \o u) \o x, CRLF) = (<<l>> \o u) \o pieces
    BY <2>5, <2>6, <2>7, <2>9, <2>10 DEF jx
  <2>12. <<l>> \o t \in Seq(Lines)
    BY <2>0
  <2> QED
    BY <2>1, <2>11, <2>12 DEF S
<1>4. S = Seq(Lines)
  <2>1. S \in SUBSET Seq(Lines)
    OBVIOUS
  <2> HIDE DEF S
  <2> QED
    BY <1>2, <1>3, <2>1, ConsInduction
<1> QED
  BY <1>4 DEF pieces

(* The characters of two texts one behind the other. *)
LEMMA Joint ==
  ASSUME NEW T, NEW a \in Seq(T), NEW b \in Seq(T)
  PROVE  /\ a \o b \in Seq(T)
         /\ Len(a \o b) = Len(a) + Len(b)
         /\ \A i \in 1 .. Len(a) : (a \o b)[i] = a[i]
         /\ \A i \in 1 .. Len(b) : (a \o b)[Len(a) + i] = b[i]
BY ConcatProperties

(* The first line is not the end of the header when another one follows. *)
LEMMA SkipLine ==
  ASSUME NEW l \in Seq(Chars), Free(l, "\r"), NEW y \in Seq(Chars), Len(y) >= 1, y[1] # "\r"
  PROVE  find(l \o (CRLF \o y), EndOfHeader, 1) = Len(l) + 2 + find(y, EndOfHeader, 1)
<1> DEFINE lc == l \o CRLF
           z == lc \o y
<1>1. CRLF \in Seq(Chars) /\ EndOfHeader \in Seq(Chars)
  BY Terminators
<1>2. PICK n \in Nat : n = Len(l)
  OBVIOUS
<1>3. lc \in Seq(Chars) /\ Len(lc) = n + 2
  BY <1>1, <1>2, Joint, Terminators
<1>4. \A i \in 1 .. n : lc[i] # "\r"
  BY <1>1, <1>2, Joint DEF Free
<1>5. lc[n + 2] # "\r"
  <2>1. lc[n + 2] = CRLF[2]
    BY <1>1, <1>2, Joint, Terminators
  <2> QED
    BY <2>1, Terminators
<1> HIDE DEF lc
<1>6. z \in Seq(Chars) /\ Len(z) = n + 2 + Len(y)
  <2>1. lc \in Seq(Chars)
    BY <1>3
  <2>2. z \in Seq(Chars) /\ Len(z) = Len(lc) + Len(y)
    BY <2>1, Joint
  <2> QED
    BY <1>3, <2>2
<1>7. \A i \in 1 .. n + 2 : z[i] = lc[i]
  BY <1>3, Joint
<1>8. z[n + 3] = y[1]
  <2>1. z[Len(lc) + 1] = y[1]
    BY <1>3, Joint
  <2> QED
    BY <1>3, <2>1
<1>9. ASSUME NEW k \in 1 .. n + 2, At(z, EndOfHeader, k) PROVE FALSE
  <2> HIDE DEF z
  <2>1. k \in 1 .. Len(z) + 1
    BY <1>6
  <2>a. z \in Seq(Chars) /\ EndOfHeader \in Seq(Chars)
    BY <1>1, <1>6
  <2>2. \A i \in 1 .. Len(EndOfHeader) : z[k + i - 1] = EndOfHeader[i]
    BY <1>9, <2>a, <2>1, AtElements
  <2>3. 1 \in 1 .. Len(EndOfHeader) /\ 3 \in 1 .. Len(EndOfHeader)
    BY Terminators
  <2>4. z[k + 1 - 1] = "\r" /\ z[k + 3 - 1] = "\r"
    BY <2>2, <2>3, Terminators
  <2>5. z[k] = "\r" /\ z[k + 2] = "\r"
    <3>1. k + 1 - 1 = k /\ k + 3 - 1 = k + 2
      OBVIOUS
    <3> QED
      BY <2>4, <3>1
  <2>6. z[k] = lc[k]
    BY <1>7
  <2>7. k = n + 1
    BY <1>2, <1>4, <1>5, <2>5, <2>6
  <2>8. z[n + 3] = "\r"
    <3>1. k + 2 = n + 3
      BY <2>7
    <3> QED
      BY <2>5, <3>1
  <2> QED
    BY <1>8, <2>8
<1>10. \A k \in 1 .. Len(lc) : ~At(lc \o y, EndOfHeader, k)
  BY <1>3, <1>9
<1>11. Len(EndOfHeader) >= 1
  BY Terminators
<1>12. find(lc \o y, EndOfHeader, 1) = Len(lc) + find(y, EndOfHeader, 1)
  BY <1>1, <1>3, <1>10, <1>11, FindSkips
<1>13. lc \o y = l \o (CRLF \o y)
  <2>1. Associates(l, CRLF, y)
    BY <1>1, Association
  <2> QED
    BY <2>1 DEF Associates, lc
<1>14. Len(lc) = Len(l) + 2
  BY <1>2, <1>3
<1> QED
  BY <1>12, <1>13, <1>14

(* It is the end when an empty line follows. *)
LEMMA StopLine ==
  ASSUME NEW l \in Seq(Chars), Free(l, "\r"), NEW x \in Seq(Chars)
  PROVE  find(l \o (CRLF \o (CRLF \o x)), EndOfHeader, 1) = Len(l) + 1
<1> DEFINE e == EndOfHeader
<1>1. CRLF \in Seq(Chars) /\ e \in Seq(Chars) /\ Len(e) >= 1 /\ e = CRLF \o CRLF /\ e[1] = "\r"
  BY Terminators
<1>2. CRLF \o (CRLF \o x) = e \o x
  <2>1. Associates(CRLF, CRLF, x)
    BY <1>1, Association
  <2> QED
    BY <1>1, <2>1 DEF Associates
<1> HIDE DEF e
<1>3. e \o x \in Seq(Chars)
  BY <1>1, Joint
<1>4. find(e \o x, e, 1) = 1
  BY <1>1, AtHead
<1> DEFINE y == e \o x
<1> HIDE DEF y
<1>5. find(l \o y, e, 1) = Len(l) + find(y, e, 1)
  <2>1. Free(l, e[1]) /\ y \in Seq(Chars)
    BY <1>1, <1>3 DEF y
  <2> QED
    BY <1>1, <2>1, FreeSkips
<1> QED
  BY <1>2, <1>4, <1>5 DEF y, e

(* A header ends where the first empty line begins. *)
HeaderEnds(ls, x) ==
  /\ Len(Joined(ls)) \in Nat /\ Len(Joined(ls)) >= 3 /\ Joined(ls)[1] # "\r"
  /\ find(Joined(ls) \o (CRLF \o x), EndOfHeader, 1) = Len(Joined(ls)) - 1

LEMMA JoinedHeader ==
  ASSUME NEW ls \in Seq(Lines), ls # <<>>, NEW x \in Seq(Chars)
  PROVE  HeaderEnds(ls, x)
<1> DEFINE S == {t \in Seq(Lines) : t # <<>> => HeaderEnds(t, x)}
<1>1. <<>> \in S
  OBVIOUS
<1>2. ASSUME NEW t \in S, NEW l \in Lines PROVE <<l>> \o t \in S
  <2> DEFINE cx == CRLF \o x
             lc == l \o CRLF
  <2>a. t \in Seq(Lines) /\ (t # <<>> => HeaderEnds(t, x))
    OBVIOUS
  <2> HIDE DEF S
  <2>0. PICK u \in Seq(Seq(Chars)) : u = t
    BY <2>a, LinesType
  <2>1. PICK j \in Seq(Chars) : j = Joined(t)
    BY <2>a, LinesType
  <2> DEFINE all == lc \o j
  <2>2. l \in Seq(Chars) /\ Free(l, "\r") /\ Len(l) >= 1
    BY DEF Lines
  <2>3. CRLF \in Seq(Chars) /\ Len(CRLF) = 2
    BY Terminators
  <2>4. cx \in Seq(Chars)
    BY <2>3, Joint
  <2>5. lc \in Seq(Chars) /\ Len(lc) = Len(l) + 2 /\ lc[1] = l[1]
    <3>1. CRLF \in Seq(Chars) /\ l \in Seq(Chars)
      BY <2>2, <2>3
    <3>2. /\ lc \in Seq(Chars) /\ Len(lc) = Len(l) + Len(CRLF)
          /\ \A i \in 1 .. Len(l) : lc[i] = l[i]
      BY <3>1, Joint
    <3> QED
      BY <2>2, <2>3, <3>2
  <2>6. Joined(<<l>> \o t) = all
    BY <2>0, <2>1, <2>2, JoinedCons
  <2>7. l[1] # "\r"
    BY <2>2 DEF Free
  <2> HIDE DEF cx
  <2>8. all \o cx = l \o (CRLF \o (j \o cx))
    <3>1. l \in Seq(Chars) /\ CRLF \in Seq(Chars)
      BY <2>2, <2>3
    <3>2. Regroups(l, CRLF, j, cx)
      BY <2>4, <3>1, Regroup
    <3> QED
      BY <3>2 DEF Regroups
  <2> HIDE DEF lc
  <2>9. all \in Seq(Chars) /\ Len(all) = Len(l) + 2 + Len(j) /\ all[1] = lc[1]
    <3>1. lc \in Seq(Chars)
      BY <2>5
    <3>2. /\ all \in Seq(Chars) /\ Len(all) = Len(lc) + Len(j)
          /\ \A i \in 1 .. Len(lc) : all[i] = lc[i]
      BY <3>1, Joint
    <3> QED
      BY <2>2, <2>5, <3>2
  <2> HIDE DEF all
  <2>10. find(all \o cx, EndOfHeader, 1) = Len(all) - 1
    <3>1. CASE t = <<>>
      <4>1. j = <<>>
        BY <2>1, <3>1, JoinedEmpty
      <4>2. j \o cx = cx
        BY <2>4, <4>1
      <4>3. find(all \o cx, EndOfHeader, 1) = Len(l) + 1
        BY <2>2, <2>8, <4>2, StopLine DEF cx
      <4>4. Len(j) = 0
        BY <4>1
      <4> QED
        BY <2>2, <2>9, <4>3, <4>4
    <3>2. CASE t # <<>>
      <4>1. Len(j) \in Nat /\ Len(j) >= 3 /\ j[1] # "\r" /\ find(j \o cx, EndOfHeader, 1) = Len(j) - 1
        BY <2>a, <2>1, <3>2 DEF HeaderEnds, cx
      <4> DEFINE y == j \o cx
      <4>2. y \in Seq(Chars) /\ Len(y) >= 1 /\ y[1] # "\r"
        BY <2>1, <2>4, <4>1, Joint
      <4> HIDE DEF y
      <4>3. find(l \o (CRLF \o y), EndOfHeader, 1) = Len(l) + 2 + find(y, EndOfHeader, 1)
        BY <2>2, <4>2, SkipLine
      <4>4. find(all \o cx, EndOfHeader, 1) = Len(l) + 2 + (Len(j) - 1)
        BY <2>8, <4>1, <4>3 DEF y
      <4> QED
        BY <2>2, <2>9, <4>1, <4>4
    <3> QED
      BY <3>1, <3>2
  <2>11. HeaderEnds(<<l>> \o t, x)
    <3>1. Len(all) \in Nat /\ Len(all) >= 3 /\ all[1] # "\r"
      BY <2>1, <2>2, <2>5, <2>7, <2>9
    <3> QED
      BY <2>6, <2>10, <3>1 DEF HeaderEnds, cx
  <2>12. <<l>> \o t \in Seq(Lines)
    BY <2>a
  <2> QED
    BY <2>11, <2>12 DEF S
<1>3. S = Seq(Lines)
  <2>1. S \in SUBSET Seq(Lines)
    OBVIOUS
  <2> HIDE DEF S
  <2> QED
    BY <1>1, <1>2, <2>1, ConsInduction
<1> QED
  BY <1>3

-----------------------------------------------------------------------------
(* base64.                                                                 *)

LEMMA Alphabets ==
  /\ \A i \in 1 .. 64 : \A j \in 1 .. 64 : Alphabet[i] = Alphabet[j] => i = j
  /\ \A i \in 1 .. 64 : Alphabet[i] \notin {"=", ":", "\r", "\n"}
BY DEF Alphabet

LEMMA AlphabetBlank == \A i \in 1 .. 64 : Alphabet[i] # Sp
<1> DEFINE A == {"A", "B", "C", "D", "E", "F", "G", "H", "I", "J", "K", "L", "M", "N", "O", "P",
                 "Q", "R", "S", "T", "U", "V", "W", "X", "Y", "Z", "a", "b", "c", "d", "e", "f",
                 "g", "h", "i", "j", "k", "l", "m", "n", "o", "p", "q", "r", "s", "t", "u", "v",
                 "w", "x", "y", "z", "0", "1", "2", "3", "4", "5", "6", "7", "8", "9", "+", "/"}
<1>1. \A i \in 1 .. 64 : Alphabet[i] \in A
  BY SMT DEF Alphabet
<1>2. Sp \notin A
  BY Zenon DEF Sp
<1> HIDE DEF A
<1> QED
  BY <1>1, <1>2

LEMMA Sextets ==
  ASSUME NEW v \in 0 .. 63
  PROVE  sextet(Alphabet[v + 1]) = v
<1> DEFINE c == Alphabet[v + 1]
           S == {k \in 1 .. 64 : Alphabet[k] = c} \cup {65}
<1>1. c # "="
  BY Alphabets
<1>2. S \in SUBSET Int /\ v + 1 \in S /\ \A k \in S : v + 1 <= k
  BY Alphabets
<1> HIDE DEF S
<1>3. Min(S) = v + 1
  BY <1>2, MinIs
<1>4. kDecodingTable(c) = Min(S) - 1
  BY DEF kDecodingTable, S
<1> QED
  BY <1>1, <1>3, <1>4 DEF sextet

(* Three bytes are one number, and so are four sextets.  (The provers list *)
(* the elements of an interval between literals.)                          *)
Words24 == {w \in Nat : w < 16777216}

LEMMA ByteBounds == \A x \in 0 .. 255 : x \in Nat /\ x < 256
BY SMT

FromSextets(w) ==
    w = ((w \div 262144) % 64) * 262144 + ((w \div 4096) % 64) * 4096
          + ((w \div 64) % 64) * 64 + (w % 64)

LEMMA FourSextets ==
  ASSUME NEW w \in Nat, w < 16777216
  PROVE  FromSextets(w)
BY SMT DEF FromSextets

HasBytes(w, a, b, c) ==
  /\ w < 16777216
  /\ (w \div 65536) % 256 = a /\ (w \div 256) % 256 = b /\ w % 256 = c

Pads(w, b, c) == (c = 0 => w % 64 = 0) /\ (b = 0 /\ c = 0 => (w \div 64) % 64 = 0)

MadeOf(w, a, b, c) == a < 256 /\ b < 256 /\ c < 256 /\ w = a * 65536 + b * 256 + c

LEMMA ThreeBytes ==
  ASSUME NEW a \in Nat, NEW b \in Nat, NEW c \in Nat, NEW w \in Nat, MadeOf(w, a, b, c)
  PROVE  HasBytes(w, a, b, c) /\ Pads(w, b, c)
<1> USE DEF MadeOf
<1>1. w < 16777216
  BY SMT
<1>2. w \div 65536 = a
  BY SMT
<1>3. w \div 256 = a * 256 + b
  BY SMT
<1>4. a % 256 = a /\ (a * 256 + b) % 256 = b
  BY SMT
<1>5. w % 256 = c
  BY SMT
<1>6. c = 0 => w % 64 = 0
  BY SMT
<1>7. ASSUME b = 0, c = 0 PROVE (w \div 64) % 64 = 0
  <2>1. w \div 64 = a * 1024
    BY <1>7, SMT
  <2>2. (a * 1024) % 64 = 0
    BY SMT
  <2> QED
    BY <2>1, <2>2, SMT
<1>8. (w \div 65536) % 256 = a
  BY <1>2, <1>4, SMT
<1>9. (w \div 256) % 256 = b
  BY <1>3, <1>4, SMT
<1> QED
  BY <1>1, <1>5, <1>6, <1>7, <1>8, <1>9, SMT DEF HasBytes, Pads

LEMMA WordsAreNumbers == \A w \in Words24 : w \in Nat
BY SMT DEF Words24

LEMMA Thirds ==
  ASSUME NEW j \in Nat, j >= 1
  PROVE  \E g \in Nat, i \in 1 .. 3 : j = 3 * g + i /\ (j - 1) \div 3 = g /\ (j - 1) % 3 = i - 1
<1> DEFINE g == (j - 1) \div 3
           i == ((j - 1) % 3) + 1
<1>1. g \in Nat /\ i \in 1 .. 3 /\ j = 3 * g + i /\ (j - 1) % 3 = i - 1
  OBVIOUS
<1> QED
  BY <1>1

Power64(i) == IF i = 1 THEN 262144 ELSE IF i = 2 THEN 4096 ELSE IF i = 3 THEN 64 ELSE 1

(* What the characters of a group make. *)
GroupIs(e, p, w, g) ==
  /\ w \in Words24
  /\ \A i \in 1 .. 4 : sextet(e[4 * g + i]) = (w \div Power64(i)) % 64
  /\ HasBytes(w, p[3 * g + 1], p[3 * g + 2], p[3 * g + 3])

LEMMA Powers64 ==
  /\ 2^16 = 65536 /\ 2^8 = 256 /\ 2^18 = 262144 /\ 2^12 = 4096 /\ 2^6 = 64
  /\ 64^3 = 262144 /\ 64^2 = 4096 /\ 64^1 = 64 /\ 64^0 = 1 /\ 2^0 = 1
OBVIOUS

(* The characters of the encoded text, group by group. *)
Padded(bytes, missing) == bytes \o [k \in 1 .. missing |-> 0]

Word(bytes, missing, g) ==
    Padded(bytes, missing)[3 * g + 1] * 65536 + Padded(bytes, missing)[3 * g + 2] * 256
      + Padded(bytes, missing)[3 * g + 3]

LEMMA Encoded ==
  ASSUME NEW bytes \in Seq(0 .. 255)
  PROVE  \E t \in Nat, m \in 0 .. 2 :
           /\ Len(bytes) + m = 3 * t
           /\ Padded(bytes, m) \in Seq(0 .. 255) /\ Len(Padded(bytes, m)) = 3 * t
           /\ \A k \in 1 .. Len(bytes) : Padded(bytes, m)[k] = bytes[k]
           /\ \A k \in Len(bytes) + 1 .. 3 * t : Padded(bytes, m)[k] = 0
           /\ encode_base64(bytes) = [k \in 1 .. 4 * t |-> encode_base64(bytes)[k]]
           /\ \A g \in 0 .. t - 1 : \A i \in 1 .. 4 :
                encode_base64(bytes)[4 * g + i] =
                  IF 4 * g + i > 4 * t - m THEN "="
                  ELSE Alphabet[((Word(bytes, m, g) \div Power64(i)) % 64) + 1]
<1> DEFINE m == (3 - (Len(bytes) % 3)) % 3
           padded == Padded(bytes, m)
<1>1. Len(bytes) \in Nat /\ m \in 0 .. 2 /\ (Len(bytes) + m) % 3 = 0
  OBVIOUS
<1>2. PICK t \in Nat : Len(bytes) + m = 3 * t
  <2>1. (Len(bytes) + m) \div 3 \in Nat /\ Len(bytes) + m = 3 * ((Len(bytes) + m) \div 3)
    BY <1>1
  <2> QED
    BY <2>1
<1>3. encode_base64(bytes) =
        [k \in 1 .. 4 * (Len(padded) \div 3) |->
          IF k > 4 * (Len(padded) \div 3) - m THEN "="
          ELSE Alphabet[(((padded[3 * ((k - 1) \div 4) + 1] * 2^16
                            + padded[3 * ((k - 1) \div 4) + 2] * 2^8
                            + padded[3 * ((k - 1) \div 4) + 3])
                          \div 64^(3 - ((k - 1) % 4))) % 64) + 1]]
  BY DEF encode_base64, Padded
<1> HIDE DEF m
<1> DEFINE zeros == [k \in 1 .. m |-> 0]
<1>4. zeros \in Seq(0 .. 255) /\ Len(zeros) = m /\ \A k \in 1 .. m : zeros[k] = 0
  BY <1>1
<1> HIDE DEF zeros
<1>5. padded \in Seq(0 .. 255) /\ Len(padded) = 3 * t
      /\ \A k \in 1 .. Len(bytes) : padded[k] = bytes[k]
  BY <1>1, <1>2, <1>4, Joint DEF Padded, zeros
<1>6. ASSUME NEW k \in Len(bytes) + 1 .. 3 * t PROVE padded[k] = 0
  <2> DEFINE i == k - Len(bytes)
  <2>1. i \in 1 .. m /\ k = Len(bytes) + i
    BY <1>1, <1>2
  <2>2. (bytes \o zeros)[Len(bytes) + i] = zeros[i]
    BY <1>4, <2>1, Joint
  <2> QED
    BY <1>4, <2>1, <2>2 DEF Padded, zeros
<1> HIDE DEF padded
<1>7. Len(padded) \div 3 = t
  BY <1>5
<1>8. ASSUME NEW g \in 0 .. t - 1, NEW i \in 1 .. 4
      PROVE  encode_base64(bytes)[4 * g + i] =
                  IF 4 * g + i > 4 * t - m THEN "="
                  ELSE Alphabet[((Word(bytes, m, g) \div Power64(i)) % 64) + 1]
  <2>1. PICK k \in 1 .. 4 * t : k = 4 * g + i
    OBVIOUS
  <2>2. (k - 1) \div 4 = g /\ (k - 1) % 4 = i - 1
    BY <2>1
  <2>3. 64^(3 - (i - 1)) = Power64(i)
    <3>1. CASE i = 1
      BY <3>1, Powers64 DEF Power64
    <3>2. CASE i = 2
      BY <3>2, Powers64 DEF Power64
    <3>3. CASE i = 3
      BY <3>3, Powers64 DEF Power64
    <3>4. CASE i = 4
      BY <3>4, Powers64 DEF Power64
    <3> QED
      BY <3>1, <3>2, <3>3, <3>4
  <2>4. encode_base64(bytes)[k] =
          IF k > 4 * t - m THEN "="
          ELSE Alphabet[(((padded[3 * ((k - 1) \div 4) + 1] * 2^16
                            + padded[3 * ((k - 1) \div 4) + 2] * 2^8
                            + padded[3 * ((k - 1) \div 4) + 3])
                          \div 64^(3 - ((k - 1) % 4))) % 64) + 1]
    BY <1>3, <1>7
  <2>5. padded[3 * g + 1] * 2^16 + padded[3 * g + 2] * 2^8 + padded[3 * g + 3] = Word(bytes, m, g)
    BY Powers64 DEF Word, padded
  <2> QED
    BY <2>1, <2>2, <2>3, <2>4, <2>5
<1>9. encode_base64(bytes) = [k \in 1 .. 4 * t |-> encode_base64(bytes)[k]]
  BY <1>3, <1>7
<1> QED
  BY <1>1, <1>2, <1>5, <1>6, <1>8, <1>9 DEF padded

(* What a client encodes is decoded to the bytes it started from, whatever *)
(* their number: the padding of encode_base64 and the output length of     *)
(* decode_base64 agree (http_parser.hpp reads credentials through it).     *)
THEOREM Base64RoundTrip ==
  ASSUME NEW bytes \in Seq(0 .. 255)
  PROVE  decode_base64(encode_base64(bytes)) = {bytes}
<1> DEFINE enc == encode_base64(bytes)
           n == Len(bytes)
<1>1. PICK t \in Nat, m \in 0 .. 2 :
           /\ n + m = 3 * t
           /\ Padded(bytes, m) \in Seq(0 .. 255) /\ Len(Padded(bytes, m)) = 3 * t
           /\ \A k \in 1 .. n : Padded(bytes, m)[k] = bytes[k]
           /\ \A k \in n + 1 .. 3 * t : Padded(bytes, m)[k] = 0
           /\ enc = [k \in 1 .. 4 * t |-> enc[k]]
           /\ \A g \in 0 .. t - 1 : \A i \in 1 .. 4 :
                enc[4 * g + i] =
                  IF 4 * g + i > 4 * t - m THEN "="
                  ELSE Alphabet[((Word(bytes, m, g) \div Power64(i)) % 64) + 1]
  BY Encoded
<1> DEFINE p == Padded(bytes, m)
<1> HIDE DEF enc, p
<1>2. n \in Nat /\ p \in Seq(0 .. 255) /\ Len(p) = 3 * t
  BY <1>1 DEF p
<1>a. n + m = 3 * t
  BY <1>1
<1>3. ASSUME NEW g \in 0 .. t - 1
      PROVE  GroupIs(enc, p, Word(bytes, m, g), g)
  <2>1. PICK a \in Nat, b \in Nat, c \in Nat :
          /\ a = p[3 * g + 1] /\ b = p[3 * g + 2] /\ c = p[3 * g + 3]
          /\ a < 256 /\ b < 256 /\ c < 256
    <3>1. ASSUME NEW k \in {1, 2, 3} PROVE p[3 * g + k] \in Nat /\ p[3 * g + k] < 256
      <4>1. 3 * g + k \in 1 .. Len(p)
        BY <1>2
      <4>2. p[3 * g + k] \in 0 .. 255
        BY <1>2, <4>1, ElementOfSeq
      <4> QED
        BY <4>2, ByteBounds
    <3>2. p[3 * g + 1] \in Nat /\ p[3 * g + 1] < 256
      BY <3>1
    <3>3. p[3 * g + 2] \in Nat /\ p[3 * g + 2] < 256
      BY <3>1
    <3>4. p[3 * g + 3] \in Nat /\ p[3 * g + 3] < 256
      BY <3>1
    <3> QED
      BY <3>2, <3>3, <3>4
  <2>2. PICK w \in Nat : w = a * 65536 + b * 256 + c
    BY SMT
  <2>3. w = Word(bytes, m, g)
    BY <2>1, <2>2, SMT DEF Word, p
  <2>4. HasBytes(w, a, b, c) /\ Pads(w, b, c)
    <3>1. MadeOf(w, a, b, c)
      BY <2>1, <2>2, SMT DEF MadeOf
    <3> QED
      BY <3>1, ThreeBytes
  <2>5. w \in Words24
    BY <2>4, SMT DEF Words24, HasBytes
  <2>6. (c = 0 => w % 64 = 0) /\ (b = 0 /\ c = 0 => (w \div 64) % 64 = 0)
    BY <2>4 DEF Pads
  <2>7. ASSUME NEW i \in 1 .. 4 PROVE sextet(enc[4 * g + i]) = (w \div Power64(i)) % 64
    <3> DEFINE v == (w \div Power64(i)) % 64
    <3>1. enc[4 * g + i] = IF 4 * g + i > 4 * t - m THEN "=" ELSE Alphabet[v + 1]
      BY <1>1, <2>3
    <3>2. v \in 0 .. 63
      <4>1. Power64(i) \in Nat \ {0}
        BY DEF Power64
      <4>2. w \div Power64(i) \in Nat
        <5>1. PICK q \in Nat \ {0} : q = Power64(i)
          BY <4>1
        <5>2. w \div q \in Nat
          OBVIOUS
        <5> QED
          BY <5>1, <5>2
      <4>3. PICK q \in Nat : q = w \div Power64(i)
        BY <4>2
      <4>4. q % 64 \in 0 .. 63
        OBVIOUS
      <4> QED
        BY <4>3, <4>4
    <3>3. CASE 4 * g + i > 4 * t - m
      <4>1. g = t - 1 /\ m >= 1 /\ i > 4 - m
        BY <3>3
      <4>2. c = 0
        <5>1. 3 * g + 3 \in n + 1 .. 3 * t
          BY <1>2, <1>a, <4>1
        <5> QED
          BY <1>1, <2>1, <5>1 DEF p
      <4>3. CASE i = 4
        <5>1. w % 64 = 0
          BY <2>6, <4>2
        <5>2. v = w % 64
          <6>1. w \div 1 = w
            OBVIOUS
          <6> QED
            BY <4>3, <6>1 DEF Power64
        <5> QED
          BY <3>1, <3>3, <5>1, <5>2 DEF sextet
      <4>4. CASE i = 3
        <5>1. b = 0
          <6>1. m = 2
            BY <4>1, <4>4
          <6>2. 3 * g + 2 \in n + 1 .. 3 * t
            BY <1>2, <1>a, <4>1, <6>1
          <6> QED
            BY <1>1, <2>1, <6>2 DEF p
        <5>2. (w \div 64) % 64 = 0
          BY <2>6, <4>2, <5>1
        <5> QED
          BY <3>1, <3>3, <4>4, <5>2 DEF sextet, Power64
      <4> QED
        BY <4>1, <4>3, <4>4
    <3>4. CASE ~(4 * g + i > 4 * t - m)
      <4> HIDE DEF v
      <4>1. sextet(Alphabet[v + 1]) = v
        BY <3>2, Sextets
      <4> QED
        BY <3>1, <3>4, <4>1 DEF v
    <3> QED
      BY <3>3, <3>4
  <2> QED
    BY <2>1, <2>3, <2>4, <2>5, <2>7 DEF GroupIs
<1>4. ASSUME NEW j \in 1 .. n PROVE byte(enc, j) = bytes[j]
  <2>1. PICK g \in 0 .. t - 1, i \in 1 .. 3 : j = 3 * g + i /\ (j - 1) \div 3 = g /\ (j - 1) % 3 = i - 1
    <3>0. j \in Nat /\ j >= 1
      BY <1>2
    <3>1. PICK g \in Nat, i \in 1 .. 3 : j = 3 * g + i /\ (j - 1) \div 3 = g /\ (j - 1) % 3 = i - 1
      BY <3>0, Thirds
    <3>2. g \in 0 .. t - 1
      BY <1>2, <1>a, <3>1
    <3> QED
      BY <3>1, <3>2
  <2>2. (j - 1) \div 3 = g /\ (j - 1) % 3 = i - 1
    BY <2>1
  <2>3. PICK w \in Nat : w = Word(bytes, m, g) /\ w \in Words24
    <3>1. Word(bytes, m, g) \in Words24
      BY <1>3 DEF GroupIs
    <3> QED
      BY <3>1, WordsAreNumbers
  <2>4. GroupIs(enc, p, w, g)
    BY <1>3, <2>3
  <2>a. w \div 1 = w
    OBVIOUS
  <2>5. sextet(enc[4 * g + 1]) * 2^18 + sextet(enc[4 * g + 2]) * 2^12
          + sextet(enc[4 * g + 3]) * 2^6 + sextet(enc[4 * g + 4]) = w
    <3>1. FromSextets(w)
      <4>1. w < 16777216
        BY <2>3, SMT DEF Words24
      <4> QED
        BY <4>1, FourSextets
    <3>2. sextet(enc[4 * g + 1]) = (w \div 262144) % 64
      BY <2>4, SMT DEF Power64, GroupIs
    <3>3. sextet(enc[4 * g + 2]) = (w \div 4096) % 64
      BY <2>4, SMT DEF Power64, GroupIs
    <3>4. sextet(enc[4 * g + 3]) = (w \div 64) % 64
      BY <2>4, SMT DEF Power64, GroupIs
    <3>5. sextet(enc[4 * g + 4]) = w % 64
      BY <2>4, <2>a, SMT DEF Power64, GroupIs
    <3> QED
      BY <3>1, <3>2, <3>3, <3>4, <3>5, Powers64, SMT DEF FromSextets
  <2>6. byte(enc, j) = (w \div 2^(8 * (2 - (i - 1)))) % 256
    BY <2>2, <2>5 DEF byte
  <2>7. (w \div 2^(8 * (2 - (i - 1)))) % 256 = p[3 * g + i]
    <3>1. CASE i = 1
      BY <2>4, <3>1, Powers64, SMT DEF GroupIs, HasBytes
    <3>2. CASE i = 2
      BY <2>4, <3>2, Powers64, SMT DEF GroupIs, HasBytes
    <3>3. CASE i = 3
      BY <2>4, <2>a, <3>3, Powers64, SMT DEF GroupIs, HasBytes
    <3> QED
      BY <3>1, <3>2, <3>3
  <2> QED
    BY <1>1, <2>1, <2>6, <2>7 DEF p
<1>5. enc = [k \in 1 .. 4 * t |-> enc[k]]
  BY <1>1
<1>6. Len(enc) = 4 * t
  BY <1>5
<1>7. output_length(enc) = n
  <2> DEFINE S == {k \in {Len(enc) - 1, Len(enc)} : k > 0 /\ enc[k] = "="}
  <2>1. ASSUME NEW k \in 1 .. 4 * t PROVE enc[k] = "=" <=> k > 4 * t - m
    <3>1. PICK g \in 0 .. t - 1, i \in 1 .. 4 : k = 4 * g + i
      <4>1. (k - 1) \div 4 \in 0 .. t - 1 /\ ((k - 1) % 4) + 1 \in 1 .. 4
            /\ k = 4 * ((k - 1) \div 4) + (((k - 1) % 4) + 1)
        OBVIOUS
      <4> QED
        BY <4>1
    <3> DEFINE v == (Word(bytes, m, g) \div Power64(i)) % 64
    <3>2. v + 1 \in 1 .. 64
      <4>1. Power64(i) \in Nat \ {0}
        BY DEF Power64
      <4>2. Word(bytes, m, g) \in Nat
        BY <1>3, WordsAreNumbers DEF GroupIs
      <4>3. PICK w \in Nat, q \in Nat \ {0} : w = Word(bytes, m, g) /\ q = Power64(i)
        BY <4>1, <4>2
      <4>4. ((w \div q) % 64) + 1 \in 1 .. 64
        <5>1. w \div q \in Nat
          OBVIOUS
        <5> QED
          BY <5>1
      <4> QED
        BY <4>3, <4>4
    <3>3. Alphabet[v + 1] # "="
      <4> HIDE DEF v
      <4> QED
        BY <3>2, Alphabets
    <3> QED
      BY <1>1, <3>1, <3>3
  <2>2. S = (4 * t - m + 1) .. 4 * t
    <3>1. t >= 1 \/ m = 0
      BY <1>1, <1>2
    <3> QED
      BY <1>6, <2>1, <3>1
  <2>3. Cardinality(S) = m
    <3> DEFINE a == 4 * t - m + 1
               b == 4 * t
    <3>1. a \in Int /\ b \in Int /\ (IF a > b THEN 0 ELSE b - a + 1) = m
      OBVIOUS
    <3>2. S = a .. b
      BY <2>2
    <3> HIDE DEF a, b, S
    <3> QED
      BY <3>1, <3>2, FS_Interval
  <2>4. output_length(enc) = 3 * (Len(enc) \div 4) - m
    BY <2>3 DEF output_length
  <2>5. n = 3 * t - m /\ Len(enc) \div 4 = t
    BY <1>2, <1>6, <1>a
  <2> QED
    BY <2>4, <2>5
<1>8. decode_base64(enc) = {[j \in 1 .. n |-> byte(enc, j)]}
  BY <1>6, <1>7 DEF decode_base64
<1>9. [j \in 1 .. n |-> byte(enc, j)] = bytes
  BY <1>4
<1> QED
  BY <1>8, <1>9 DEF enc

-----------------------------------------------------------------------------
(* The text of an HTTP request.                                            *)

LEMMA FreeOf ==
  ASSUME NEW T, NEW s \in Seq(T), NEW c, c \notin T
  PROVE  Free(s, c)
BY DEF Free

(* The strings a client or a server writes between two line ends, and      *)
(* those it writes between two blanks or colons.                           *)
LineChars == Chars \ {"\r", "\n"}

WordChars == Chars \ {"\r", "\n", Sp, ":"}

LEMMA Blanks ==
  /\ Sp \in LineChars /\ ":" \in LineChars /\ Sp # ":" /\ Sp # "=" /\ Sp # "\r" /\ Sp # "\n" /\ Sp \notin HttpWords
  /\ Blank = <<Sp>> /\ Colon = <<":">>
<1>1. Sp # ":" /\ Sp # "=" /\ Sp # "\r" /\ Sp # "\n"
  BY Zenon DEF Sp
<1>4. Sp \notin HttpWords
  BY Zenon, HttpWordsAssumption
<1>2. Sp \in Chars /\ ":" \in Chars
  BY DEF Chars, Literals
<1>3. ":" # "\r" /\ ":" # "\n"
  OBVIOUS
<1> QED
  BY <1>1, <1>2, <1>3, <1>4 DEF LineChars, Blank, Colon

LEMMA Literal ==
  \A c \in {"=", "HTTP", "/1.1", "localhost", "1670", "Basic", "100-continue", "reason", "phrase",
            "Content-Type", "application/octet-stream", "Content-Length", "WWW-Authenticate", "0",
            "Please", "provide", "password", "Entering", "(", Comma, ")"} :
    c \in WordChars
<1> SUFFICES ASSUME NEW c \in {"=", "HTTP", "/1.1", "localhost", "1670", "Basic", "100-continue",
              "reason", "phrase", "Content-Type", "application/octet-stream", "Content-Length",
              "WWW-Authenticate", "0", "Please", "provide", "password", "Entering", "(", Comma, ")"}
             PROVE  c \in WordChars
  OBVIOUS
<1>1. c \in Chars
  BY DEF Chars, Literals
<1>2. c # Sp
  BY Zenon DEF Sp, Comma
<1>3. c \notin {"\r", "\n", ":"}
  BY Zenon DEF Comma
<1> QED
  BY <1>1, <1>2, <1>3 DEF WordChars

LEMMA FieldNames ==
  \A f \in Fields : f \in WordChars
<1> SUFFICES ASSUME NEW f \in Fields PROVE f \in WordChars
  OBVIOUS
<1>1. f \in Chars
  BY DEF Chars
<1>2. f # Sp
  BY Zenon DEF Sp, Fields
<1>3. f \notin {"\r", "\n", ":"}
  BY DEF Fields
<1> QED
  BY <1>1, <1>2, <1>3 DEF WordChars

LEMMA WordsAreWords == /\ \A c \in Words : c \in WordChars
                       /\ \A c \in WordChars : c \in LineChars
                       /\ \A c \in LineChars : c \in Chars
BY DEF Words, WordChars, LineChars, Chars

(* The bounds of the numbers that are written. *)
LEMMA Bounds ==
  /\ 2^SizeBits \in Nat /\ 2^SizeBits > 0
  /\ \A n \in Nat : n <= 599 \/ n <= MaxNumber \/ n < 2^SizeBits => n \in Numbers
<1>1. 2^SizeBits \in Nat /\ 2^SizeBits > 0
  BY WidthAssumption, Powers
<1>2. PICK z \in Nat : z = 2^SizeBits - 1
  BY <1>1
<1>3. MaxNumber \in Nat
  BY WidthAssumption
<1> DEFINE S == {599, MaxNumber, z}
<1>4. PICK x \in S : \A y \in S : y <= x
  <2>1. CASE 599 >= MaxNumber /\ 599 >= z
    BY <1>3, <2>1
  <2>2. CASE MaxNumber >= 599 /\ MaxNumber >= z
    BY <1>3, <2>2
  <2>3. CASE z >= 599 /\ z >= MaxNumber
    BY <1>3, <2>3
  <2> QED
    BY <1>3, <2>1, <2>2, <2>3
<1>5. S \in SUBSET Int
  BY <1>3
<1>6. Max(S) = x
  <2> HIDE DEF S
  <2> QED
    BY <1>4, <1>5, MaxIs
<1>7. Numbers = 0 .. x
  BY <1>2, <1>6 DEF Numbers
<1>8. x \in Nat /\ x >= 599 /\ x >= MaxNumber /\ x >= z
  BY <1>3, <1>4
<1> QED
  BY <1>1, <1>2, <1>3, <1>7, <1>8

LEMMA NumbersAreWords == \A n \in Numbers : ToString(n) \in WordChars
BY NumbersAssumption, WordsAreWords

(* base64 has none of the characters that are looked for. *)
LEMMA EncodedType ==
  ASSUME NEW bytes \in Seq(0 .. 255)
  PROVE  encode_base64(bytes) \in Seq(WordChars)
<1> DEFINE enc == encode_base64(bytes)
<1>1. PICK t \in Nat, m \in 0 .. 2 :
           /\ Len(bytes) + m = 3 * t
           /\ Padded(bytes, m) \in Seq(0 .. 255) /\ Len(Padded(bytes, m)) = 3 * t
           /\ \A k \in 1 .. Len(bytes) : Padded(bytes, m)[k] = bytes[k]
           /\ \A k \in Len(bytes) + 1 .. 3 * t : Padded(bytes, m)[k] = 0
           /\ enc = [k \in 1 .. 4 * t |-> enc[k]]
           /\ \A g \in 0 .. t - 1 : \A i \in 1 .. 4 :
                enc[4 * g + i] =
                  IF 4 * g + i > 4 * t - m THEN "="
                  ELSE Alphabet[((Word(bytes, m, g) \div Power64(i)) % 64) + 1]
  BY Encoded
<1> DEFINE p == Padded(bytes, m)
<1>a. p \in Seq(0 .. 255) /\ Len(p) = 3 * t /\ enc = [k \in 1 .. 4 * t |-> enc[k]]
  BY <1>1
<1> HIDE DEF enc, p
<1>2. \A i \in 1 .. 64 : Alphabet[i] \in WordChars
  <2>1. \A i \in 1 .. 64 : Alphabet[i] \in Chars
    BY DEF Chars
  <2> QED
    BY <2>1, Alphabets, AlphabetBlank DEF WordChars
<1>3. ASSUME NEW k \in 1 .. 4 * t PROVE enc[k] \in WordChars
  <2>1. PICK g \in 0 .. t - 1, i \in 1 .. 4 : k = 4 * g + i
    <3>1. (k - 1) \div 4 \in 0 .. t - 1 /\ ((k - 1) % 4) + 1 \in 1 .. 4
          /\ k = 4 * ((k - 1) \div 4) + (((k - 1) % 4) + 1)
      OBVIOUS
    <3> QED
      BY <3>1
  <2>2. PICK w \in Nat : w = Word(bytes, m, g)
    <3>1. ASSUME NEW l \in {1, 2, 3} PROVE p[3 * g + l] \in Nat
      <4>1. 3 * g + l \in 1 .. Len(p)
        <5>1. Len(p) = 3 * t
          BY <1>a
        <5> QED
          BY <5>1
      <4>2. p[3 * g + l] \in 0 .. 255
        BY <1>a, <4>1, ElementOfSeq
      <4> QED
        BY <4>2, ByteBounds
    <3>2. PICK a \in Nat, b \in Nat, c \in Nat : a = p[3 * g + 1] /\ b = p[3 * g + 2] /\ c = p[3 * g + 3]
      BY <3>1
    <3>3. a * 65536 + b * 256 + c \in Nat
      BY SMT
    <3> QED
      BY <3>2, <3>3, SMT DEF Word, p
  <2>3. PICK q \in Nat \ {0} : q = Power64(i)
    BY DEF Power64
  <2>4. ((w \div q) % 64) + 1 \in 1 .. 64
    <3>1. w \div q \in Nat
      OBVIOUS
    <3> QED
      BY <3>1
  <2>5. enc[k] = "=" \/ enc[k] = Alphabet[((w \div q) % 64) + 1]
    BY <1>1, <2>1, <2>2, <2>3 DEF enc
  <2> QED
    BY <1>2, <2>4, <2>5, Literal
<1>4. PICK N \in Nat : N = 4 * t
  OBVIOUS
<1>5. enc = [k \in 1 .. N |-> enc[k]] /\ \A k \in 1 .. N : enc[k] \in WordChars
  BY <1>a, <1>3, <1>4
<1>6. enc \in Seq(WordChars)
  BY <1>5
<1> QED
  BY <1>6 DEF enc

Credentials(r) == r.username \o <<58>> \o r.password

(* What the proof uses of a request: its fields, and that they are sane. *)
LEMMA HttpRequestIs ==
  ASSUME NEW r \in HttpRequests
  PROVE  /\ r.method \in WordChars /\ r.uri \in WordChars
         /\ r.size \in Nat /\ r.size <= MaxNumber
         /\ r.fields \in Seq(Fields)
         /\ r.size # 0 => \E k \in 1 .. Len(r.fields) : r.fields[k] \in {"Content-Length", "CONTENT-LENGTH"}
         /\ r.username \in Seq(0 .. 255) /\ r.password \in Seq(0 .. 255)
         /\ Credentials(r) \in Seq(0 .. 255)
<1>1. /\ {r.method, r.uri} \subseteq Words
      /\ r.size \in 0 .. MaxNumber /\ r.fields \in Seq(Fields)
      /\ r.size # 0 => \E k \in 1 .. Len(r.fields) : r.fields[k] \in {"Content-Length", "CONTENT-LENGTH"}
      /\ {r.username, r.password} \subseteq Seq(0 .. 255)
  BY RequestsAssumption
<1>2. r.size \in Nat /\ r.size <= MaxNumber
  BY <1>1, WidthAssumption
<1>3. r.method \in WordChars /\ r.uri \in WordChars
  BY <1>1, WordsAreWords
<1>4. Credentials(r) \in Seq(0 .. 255)
  <2> DEFINE B == 0 .. 255
  <2>1. 58 \in B
    OBVIOUS
  <2>2. r.username \in Seq(B) /\ r.password \in Seq(B)
    BY <1>1
  <2> HIDE DEF B
  <2>3. <<58>> \in Seq(B)
    BY <2>1
  <2>4. (r.username \o <<58>>) \o r.password \in Seq(B)
    BY <2>2, <2>3, ConcatProperties
  <2> QED
    BY <2>4 DEF B, Credentials
<1> QED
  BY <1>1, <1>2, <1>3, <1>4

LEMMA FieldText ==
  ASSUME NEW r \in HttpRequests, NEW f \in Fields
  PROVE  /\ HttpFieldText(r, f) \in Seq(LineChars)
         /\ f = "Authorization" => HttpFieldText(r, f) = <<Sp, "Basic", Sp>> \o encode_base64(Credentials(r))
         /\ f \in {"Content-Length", "CONTENT-LENGTH"} => HttpFieldText(r, f) = <<Sp, ToString(r.size)>>
         /\ f = "Expect" => HttpFieldText(r, f) = <<Sp, Sp, "100-continue">>
<1> DEFINE enc == encode_base64(Credentials(r))
<1>1. \A c \in {Sp, ":", "localhost", "1670", "Basic", "100-continue"} : c \in LineChars
  BY Blanks, Literal, WordsAreWords
<1>2. ToString(r.size) \in LineChars
  <2>1. r.size \in Numbers
    BY HttpRequestIs, Bounds
  <2> QED
    BY <2>1, NumbersAreWords, WordsAreWords
<1>3. enc \in Seq(LineChars)
  <2>1. enc \in Seq(WordChars)
    BY HttpRequestIs, EncodedType
  <2>2. WordChars \subseteq LineChars
    BY WordsAreWords
  <2> QED
    BY <2>1, <2>2, SeqMonotonic
<1>4. CASE f = "Host"
  <2>1. HttpFieldText(r, f) = <<Sp, "localhost", ":", "1670">>
    BY <1>4 DEF HttpFieldText
  <2>2. <<Sp, "localhost", ":", "1670">> \in Seq(LineChars)
    BY <1>1
  <2> QED
    BY <1>4, <2>1, <2>2
<1>5. CASE f = "Authorization"
  <2>1. HttpFieldText(r, f) = <<Sp, "Basic", Sp>> \o encode_base64(Credentials(r))
    BY <1>5 DEF HttpFieldText, Credentials
  <2>2. <<Sp, "Basic", Sp>> \in Seq(LineChars)
    BY <1>1
  <2> HIDE DEF enc
  <2>3. <<Sp, "Basic", Sp>> \o enc \in Seq(LineChars)
    BY <1>3, <2>2
  <2> QED
    BY <1>5, <2>1, <2>3 DEF enc
<1>6. CASE f \in {"Content-Length", "CONTENT-LENGTH"}
  <2>1. HttpFieldText(r, f) = <<Sp, ToString(r.size)>>
    BY <1>6 DEF HttpFieldText
  <2>2. <<Sp, ToString(r.size)>> \in Seq(LineChars)
    BY <1>1, <1>2
  <2> QED
    BY <1>6, <2>1, <2>2
<1>7. CASE f = "Expect"
  <2>1. HttpFieldText(r, f) = <<Sp, Sp, "100-continue">>
    BY <1>7 DEF HttpFieldText
  <2>2. <<Sp, Sp, "100-continue">> \in Seq(LineChars)
    BY <1>1
  <2> QED
    BY <1>7, <2>1, <2>2
<1>8. CASE f = "Accept"
  <2>1. HttpFieldText(r, f) = <<>>
    BY <1>8 DEF HttpFieldText
  <2>2. <<>> \in Seq(LineChars)
    OBVIOUS
  <2> QED
    BY <1>8, <2>1, <2>2
<1> QED
  BY <1>4, <1>5, <1>6, <1>7, <1>8 DEF Fields

(* The line of a field. *)
FieldLine(r, f) == (<<f>> \o Colon) \o HttpFieldText(r, f)

FieldLines(r) == [k \in 1 .. Len(r.fields) |-> FieldLine(r, r.fields[k])]

RequestLine(r) == <<r.method, Sp, r.uri, Sp, "HTTP", "/1.1">>

LEMMA FieldLineIs ==
  ASSUME NEW r \in HttpRequests, NEW f \in Fields
  PROVE  /\ FieldLine(r, f) \in Lines
         /\ FieldLine(r, f) = <<f>> \o (Colon \o HttpFieldText(r, f))
<1> DEFINE text == HttpFieldText(r, f)
           line == FieldLine(r, f)
<1>1. text \in Seq(LineChars) /\ <<f>> \in Seq(LineChars) /\ Colon \in Seq(LineChars)
  BY FieldText, FieldNames, WordsAreWords, Blanks
<1> HIDE DEF text
<1>2. line = (<<f>> \o Colon) \o text
  BY DEF FieldLine, text
<1>3. Associates(<<f>>, Colon, text)
  <2> DEFINE first == <<f>>
  <2>1. first \in Seq(LineChars)
    BY <1>1
  <2> HIDE DEF first
  <2>2. Associates(first, Colon, text)
    BY <1>1, <2>1, Association
  <2> QED
    BY <2>2 DEF first
<1>4. line \in Seq(LineChars) /\ Len(line) >= 1
  <2> DEFINE first == <<f>> \o Colon
  <2>1. first \in Seq(LineChars) /\ Len(first) = 2
    BY <1>1, Blanks
  <2> HIDE DEF first
  <2>0. text \in Seq(LineChars)
    BY <1>1
  <2>2. first \o text \in Seq(LineChars) /\ Len(first \o text) = Len(first) + Len(text)
    BY <2>0, <2>1, Joint
  <2>3. line = first \o text
    BY <1>2 DEF first
  <2> QED
    BY <2>0, <2>1, <2>2, <2>3
<1>5. Free(line, "\r")
  <2>1. "\r" \notin LineChars
    BY DEF LineChars
  <2> QED
    BY <1>4, <2>1, FreeOf
<1>6. line \in Seq(Chars)
  <2>1. LineChars \subseteq Chars
    BY WordsAreWords
  <2> QED
    BY <1>4, <2>1, SeqMonotonic
<1> QED
  BY <1>2, <1>3, <1>4, <1>5, <1>6 DEF Lines, Associates, text

LEMMA RequestText ==
  ASSUME NEW r \in HttpRequests
  PROVE  /\ FieldLines(r) \in Seq(Lines) /\ Len(FieldLines(r)) = Len(r.fields)
         /\ \A k \in 1 .. Len(r.fields) : FieldLines(r)[k] = FieldLine(r, r.fields[k])
         /\ Joined(FieldLines(r)) \in Seq(Chars)
         /\ RequestLine(r) \in Seq(Chars) /\ Len(RequestLine(r)) = 6 /\ Free(RequestLine(r), "\r")
         /\ HttpRequestText(r) \in Seq(Chars)
         /\ HttpRequestText(r) = RequestLine(r) \o (CRLF \o (Joined(FieldLines(r)) \o CRLF))
<1> DEFINE ls == FieldLines(r)
           j == Joined(ls)
           n == Len(r.fields)
           line == RequestLine(r)
<1>1. n \in Nat /\ \A k \in 1 .. n : r.fields[k] \in Fields
  BY HttpRequestIs
<1>2. \A k \in 1 .. n : FieldLine(r, r.fields[k]) \in Lines
  BY <1>1, FieldLineIs
<1>3. ls \in Seq(Lines) /\ Len(ls) = n /\ \A k \in 1 .. n : ls[k] = FieldLine(r, r.fields[k])
  BY <1>1, <1>2 DEF FieldLines
<1>4. j \in Seq(Chars)
  BY <1>3, LinesType
<1>5. line \in Seq(LineChars) /\ Len(line) = 6
  <2>1. \A c \in {r.method, r.uri, Sp, "HTTP", "/1.1"} : c \in LineChars
    BY HttpRequestIs, Blanks, Literal, WordsAreWords
  <2> QED
    BY <2>1 DEF RequestLine
<1>6. line \in Seq(Chars) /\ Free(line, "\r")
  <2>1. LineChars \subseteq Chars /\ "\r" \notin LineChars
    BY WordsAreWords DEF LineChars
  <2> QED
    BY <1>5, <2>1, SeqMonotonic, FreeOf
<1>7. FlattenSeq([k \in 1 .. n |-> <<r.fields[k]>> \o Colon \o HttpFieldText(r, r.fields[k]) \o CRLF]) = j
  <2>1. [k \in 1 .. n |-> <<r.fields[k]>> \o Colon \o HttpFieldText(r, r.fields[k]) \o CRLF] = Ended(ls)
    BY <1>3 DEF Ended, FieldLine
  <2> QED
    BY <2>1 DEF Joined
<1>8. HttpRequestText(r) = ((line \o CRLF) \o j) \o CRLF
  BY <1>7 DEF HttpRequestText, RequestLine
<1> HIDE DEF j, line
<1>9. Regroups(line, CRLF, j, CRLF)
  <2>1. line \in Seq(Chars) /\ CRLF \in Seq(Chars)
    BY <1>6, Terminators
  <2> QED
    BY <1>4, <2>1, Regroup
<1>10. HttpRequestText(r) = line \o (CRLF \o (j \o CRLF))
  BY <1>8, <1>9 DEF Regroups
<1>11. HttpRequestText(r) \in Seq(Chars)
  <2>1. line \in Seq(Chars) /\ CRLF \in Seq(Chars)
    BY <1>6, Terminators
  <2>2. j \o CRLF \in Seq(Chars)
    BY <1>4, <2>1, ConcatProperties
  <2> DEFINE jc == j \o CRLF
  <2> HIDE DEF jc
  <2>3. CRLF \o jc \in Seq(Chars)
    BY <2>1, <2>2, ConcatProperties DEF jc
  <2> DEFINE cjc == CRLF \o jc
  <2> HIDE DEF cjc
  <2>4. line \o cjc \in Seq(Chars)
    BY <2>1, <2>3, ConcatProperties DEF cjc
  <2> QED
    BY <1>10, <2>4 DEF cjc, jc
<1> QED
  BY <1>3, <1>4, <1>5, <1>6, <1>10, <1>11 DEF j, line

(* A text that is read from the beginning of the stream. *)
LEMMA ReadsFirst ==
  ASSUME NEW T, NEW text \in Seq(T), NEW rest \in Seq(T)
  PROVE  /\ SubSeq(text \o rest, 1, Len(text)) = text
         /\ SubSeq(text \o rest, Len(text) + 1, Len(text \o rest)) = rest
<1> DEFINE w == text \o rest
<1>1. w \in Seq(T) /\ Len(w) = Len(text) + Len(rest) /\ \A i \in 1 .. Len(text) : w[i] = text[i]
  BY Joint
<1>2. SubSeq(w, Len(text) + 1, Len(text) + Len(rest)) = SubSeq(rest, 1, Len(rest))
  <2>1. 1 \in Nat \ {0} /\ Len(rest) \in 0 .. Len(rest) /\ 1 \in 1 .. Len(rest) + 1
    OBVIOUS
  <2> QED
    BY <2>1, SubSeqShift
<1>3. SubSeq(rest, 1, Len(rest)) = rest
  OBVIOUS
<1> HIDE DEF w
<1> DEFINE s == SubSeq(w, 1, Len(text))
<1>4. \A i \in 1 .. Len(text) : w[i] \in T
  BY <1>1, ElementOfSeq
<1>5. s \in Seq(T) /\ Len(s) = Len(text) /\ \A i \in 1 .. Len(text) : s[i] = w[i]
  BY <1>4, SubSeqProperties
<1> HIDE DEF s
<1>6. s = text
  BY <1>1, <1>5, SeqEqual
<1> QED
  BY <1>1, <1>2, <1>3, <1>6 DEF w, s

(* A text before the end of a line, and behind it. *)
LEMMA LineBreak ==
  ASSUME NEW l \in Seq(Chars)
  PROVE  /\ l \o CRLF \in Seq(Chars) /\ Len(l \o CRLF) = Len(l) + 2
         /\ CRLF \o l \in Seq(Chars) /\ Len(CRLF \o l) = Len(l) + 2
<1>1. CRLF \in Seq(Chars) /\ Len(CRLF) = 2
  BY Terminators
<1>2. l \o CRLF \in Seq(Chars) /\ Len(l \o CRLF) = Len(l) + Len(CRLF)
  BY <1>1, Joint
<1>3. CRLF \o l \in Seq(Chars) /\ Len(CRLF \o l) = Len(CRLF) + Len(l)
  BY <1>1, Joint
<1> QED
  BY <1>1, <1>2, <1>3

(* The first line is found, and its protocol is what it names. *)
FirstLine(l, y) ==
  /\ find(l \o (CRLF \o y), CRLF, 1) = Len(l) + 1
  /\ SubSeq(l \o (CRLF \o y), 1, Len(l) + 2) = l \o CRLF
  /\ detectProtocol(l \o CRLF) = IF Names(l) THEN "Http" ELSE "Ftp"

LEMMA LineEnd ==
  ASSUME NEW l \in Seq(Chars), Free(l, "\r"), NEW y \in Seq(Chars)
  PROVE  find(l \o (CRLF \o y), CRLF, 1) = Len(l) + 1
<1>1. CRLF \in Seq(Chars) /\ Len(CRLF) >= 1 /\ CRLF[1] = "\r"
  BY Terminators
<1>2. find(CRLF \o y, CRLF, 1) = 1
  BY <1>1, AtHead
<1> DEFINE cy == CRLF \o y
<1>3. cy \in Seq(Chars)
  BY <1>1, ConcatProperties
<1> HIDE DEF cy
<1>4. Free(l, CRLF[1])
  BY <1>1
<1>5. find(l \o cy, CRLF, 1) = Len(l) + find(cy, CRLF, 1)
  BY <1>1, <1>3, <1>4, FreeSkips
<1> QED
  BY <1>2, <1>5 DEF cy

LEMMA FirstLineIs ==
  ASSUME NEW l \in Seq(Chars), Free(l, "\r"), NEW y \in Seq(Chars)
  PROVE  FirstLine(l, y)
<1> DEFINE lc == l \o CRLF
<1>1. CRLF \in Seq(Chars) /\ Len(CRLF) = 2
  BY Terminators
<1>2. find(l \o (CRLF \o y), CRLF, 1) = Len(l) + 1
  BY LineEnd
<1>3. lc \in Seq(Chars) /\ Len(lc) = Len(l) + 2
  BY LineBreak
<1>4. Associates(l, CRLF, y)
  BY <1>1, Association
<1>5. find(lc, CRLF, 1) = Len(l) + 1
  <2>1. <<>> \in Seq(Chars) /\ CRLF \o <<>> = CRLF
    BY <1>1
  <2>2. find(l \o (CRLF \o <<>>), CRLF, 1) = Len(l) + 1
    BY <2>1, LineEnd
  <2> QED
    BY <2>1, <2>2
<1>6. SubSeq(lc, 1, Len(l)) = l
  BY <1>1, ReadsFirst
<1> HIDE DEF lc
<1>7. SubSeq(lc \o y, 1, Len(lc)) = lc
  BY <1>3, ReadsFirst
<1>8. SubSeq(l \o (CRLF \o y), 1, Len(l) + 2) = lc
  BY <1>3, <1>4, <1>7 DEF Associates, lc
<1>9. detectProtocol(lc) = IF Names(l) THEN "Http" ELSE "Ftp"
  <2>1. SubSeq(lc, 1, find(lc, CRLF, 1) - 1) = l
    <3>1. find(lc, CRLF, 1) - 1 = Len(l)
      BY <1>5
    <3> QED
      BY <1>6, <3>1
  <2> QED
    BY <2>1 DEF detectProtocol
<1> QED
  BY <1>2, <1>8, <1>9 DEF FirstLine, lc

(* What the server reads of a stream that begins with a request. *)
HttpFramed(r, w, rest) ==
  /\ find(w, CRLF, 1) = 7
  /\ detectProtocol(SubSeq(w, 1, 8)) = "Http"
  /\ find(w, EndOfHeader, 9) = Len(HttpRequestText(r)) - 3

LEMMA HttpFraming ==
  ASSUME NEW r \in HttpRequests, r.fields # <<>>, NEW rest \in Seq(Chars)
  PROVE  HttpFramed(r, HttpRequestText(r) \o rest, rest)
<1> DEFINE ls == FieldLines(r)
           j == Joined(ls)
           l == RequestLine(r)
           x == j \o CRLF
           cx == CRLF \o x
           cr == CRLF \o rest
           y == j \o cr
           lc == l \o CRLF
           text == HttpRequestText(r)
<1>1. CRLF \in Seq(Chars) /\ Len(CRLF) = 2 /\ EndOfHeader \in Seq(Chars) /\ Len(EndOfHeader) >= 1
  BY Terminators
<1>2. l \in Seq(Chars) /\ Len(l) = 6 /\ Free(l, "\r")
  BY RequestText
<1>3. j \in Seq(Chars)
  BY RequestText
<1>4. text = l \o cx
  BY RequestText
<1>5. find(y, EndOfHeader, 1) = Len(j) - 1
  <2>1. ls \in Seq(Lines) /\ Len(ls) = Len(r.fields)
    BY RequestText
  <2>2. ls # <<>>
    <3>1. Len(r.fields) # 0
      BY HttpRequestIs, EmptySeq
    <3> QED
      BY <2>1, <3>1
  <2>3. HeaderEnds(ls, rest)
    BY <2>1, <2>2, JoinedHeader
  <2> QED
    BY <2>3 DEF HeaderEnds
<1>6. Names(l)
  <2>1. l[5] = "HTTP" /\ 5 \in 1 .. Len(l)
    BY <1>2 DEF RequestLine
  <2> QED
    BY <2>1, HttpWordsAssumption DEF Names
<1> HIDE DEF j, l, text
<1>7. x \in Seq(Chars) /\ Len(x) = Len(j) + 2
  BY <1>3, LineBreak
<1>8. cr \in Seq(Chars)
  BY <1>1, Joint
<1>9. Associates(j, CRLF, rest)
  BY <1>1, <1>3, Association
<1> HIDE DEF x, cr
<1>10. Associates(CRLF, x, rest)
  BY <1>1, <1>7, Association
<1>11. cx \in Seq(Chars) /\ Len(cx) = Len(x) + 2
  BY <1>7, LineBreak
<1>12. y \in Seq(Chars)
  BY <1>3, <1>8, Joint
<1> HIDE DEF cx, y
<1>13. Associates(l, cx, rest)
  BY <1>2, <1>11, Association
<1>14. text \o rest = l \o (CRLF \o y)
  BY <1>4, <1>9, <1>10, <1>13 DEF Associates, cx, x, cr, y
<1>15. Len(text) = Len(j) + 10
  <2>1. Len(l \o cx) = Len(l) + Len(cx)
    BY <1>2, <1>11, Joint
  <2> QED
    BY <1>2, <1>3, <1>4, <1>7, <1>11, <2>1
<1>16. FirstLine(l, y)
  BY <1>2, <1>12, FirstLineIs
<1>17. lc \in Seq(Chars) /\ Len(lc) = 8
  <2>1. lc \in Seq(Chars) /\ Len(lc) = Len(l) + 2
    BY <1>2, LineBreak
  <2> QED
    BY <1>2, <2>1
<1>18. Associates(l, CRLF, y)
  BY <1>1, <1>2, <1>12, Association
<1>19. find(lc \o y, EndOfHeader, Len(lc) + 1) = Len(lc) + find(y, EndOfHeader, 1)
  <2> HIDE DEF lc
  <2>1. lc \in Seq(Chars) /\ 1 \in 1 .. Len(y) + 1
    BY <1>12, <1>17
  <2> QED
    BY <1>1, <1>12, <2>1, FindShift
<1>20. find(text \o rest, EndOfHeader, 9) = Len(text) - 3
  <2>1. text \o rest = lc \o y
    BY <1>14, <1>18 DEF Associates
  <2>2. Len(lc) + 1 = 9 /\ Len(j) \in Nat
    BY <1>3, <1>17
  <2>3. find(text \o rest, EndOfHeader, 9) = 8 + (Len(j) - 1)
    BY <1>5, <1>17, <1>19, <2>1, <2>2
  <2> QED
    BY <1>15, <2>2, <2>3
<1>21. find(text \o rest, CRLF, 1) = 7
  BY <1>2, <1>14, <1>16 DEF FirstLine
<1>22. detectProtocol(SubSeq(text \o rest, 1, 8)) = "Http"
  <2>1. Len(l) + 2 = 8
    BY <1>2
  <2> QED
    BY <1>6, <1>14, <1>16, <2>1 DEF FirstLine
<1> QED
  BY <1>20, <1>21, <1>22 DEF HttpFramed, text

LEMMA Words2 ==
  ASSUME NEW a, NEW b
  PROVE  <<a>> \o <<b>> = <<a, b>>
<1> DEFINE s == <<a>>
           t == <<b>>
           p == <<a, b>>
           T == {a, b}
           c == s \o t
<1>1. s \in Seq(T) /\ Len(s) = 1 /\ s[1] = a
  OBVIOUS
<1>2. t \in Seq(T) /\ Len(t) = 1 /\ t[1] = b
  OBVIOUS
<1>3. p \in Seq(T) /\ Len(p) = 2 /\ p[1] = a /\ p[2] = b
  OBVIOUS
<1> HIDE DEF s, t, p, T
<1>4. s \in Seq(T) /\ t \in Seq(T)
  BY <1>1, <1>2
<1>5. c \in Seq(T) /\ Len(c) = Len(s) + Len(t)
  BY <1>4, Joint
<1>6. c[1] = s[1]
  <2>1. 1 \in 1 .. Len(s)
    BY <1>1
  <2> QED
    BY <1>4, <2>1, Joint
<1>7. c[2] = t[1]
  <2>1. 1 \in 1 .. Len(t) /\ Len(s) + 1 = 2
    BY <1>1, <1>2
  <2>2. c[Len(s) + 1] = t[1]
    BY <1>4, <2>1, Joint
  <2> QED
    BY <2>1, <2>2
<1> HIDE DEF c
<1>8. Len(c) = 2 /\ c[1] = a /\ c[2] = b
  BY <1>1, <1>2, <1>5, <1>6, <1>7
<1>9. \A i \in 1 .. Len(c) : c[i] = p[i]
  BY <1>3, <1>8
<1>10. c = p
  BY <1>3, <1>5, <1>8, <1>9, SeqEqual
<1> QED
  BY <1>10 DEF c, s, t, p

(* The lines that HttpParser cuts a request into: the request line, the    *)
(* fields, the empty line that ends the header, and what is behind it.     *)
HttpLines(r) == split(HttpRequestText(r), CRLF)

LEMMA HttpLinesAre ==
  ASSUME NEW r \in HttpRequests
  PROVE  HttpLines(r) = <<RequestLine(r)>> \o (FieldLines(r) \o <<<<>>, <<>>>>)
<1> DEFINE ls == FieldLines(r)
           j == Joined(ls)
           l == RequestLine(r)
           x == j \o CRLF
           text == HttpRequestText(r)
<1>1. CRLF \in Seq(Chars) /\ Len(CRLF) >= 1 /\ CRLF[1] = "\r"
  BY Terminators
<1>2. l \in Seq(Chars) /\ Free(l, "\r") /\ ls \in Seq(Lines) /\ j \in Seq(Chars) /\ text = l \o (CRLF \o x)
  BY RequestText
<1>3. Len(text) # 0
  <2>1. x \in Seq(Chars)
    BY <1>2, LineBreak
  <2> HIDE DEF x, j, l, text
  <2>2. CRLF \o x \in Seq(Chars) /\ Len(CRLF \o x) = Len(x) + 2
    BY <2>1, LineBreak
  <2> DEFINE cx == CRLF \o x
  <2> HIDE DEF cx
  <2>3. l \in Seq(Chars) /\ cx \in Seq(Chars)
    BY <1>2, <2>2 DEF cx
  <2>4. Len(l \o cx) = Len(l) + Len(cx)
    BY <2>3, Joint
  <2>5. Len(x) \in Nat /\ Len(l) \in Nat
    BY <1>2, <2>1
  <2> QED
    BY <1>2, <2>2, <2>4, <2>5 DEF cx
<1>4. Cut(CRLF, CRLF) = <<<<>>, <<>>>>
  <2> DEFINE e == <<>>
  <2>1. e \in Seq(Chars) /\ Free(e, CRLF[1]) /\ CRLF \o e = CRLF /\ e \o CRLF = CRLF
    BY <1>1 DEF Free
  <2>4. <<e>> \o <<e>> = <<e, e>>
    BY Words2
  <2> HIDE DEF e
  <2>6. e \in Seq(Chars) /\ Free(e, CRLF[1])
    BY <2>1
  <2>2. Cut(e \o (CRLF \o e), CRLF) = <<e>> \o Cut(e, CRLF)
    BY <1>1, <2>6, CutFirst
  <2>3. Cut(e, CRLF) = <<e>>
    BY <1>1, <2>6, CutLast
  <2>5. Cut(CRLF, CRLF) = <<e, e>>
    BY <2>1, <2>2, <2>3, <2>4
  <2> QED
    BY <2>5 DEF e
<1>5. Cut(x, CRLF) = ls \o Cut(CRLF, CRLF)
  BY <1>1, <1>2, CutJoined
<1>6. Cut(l \o (CRLF \o x), CRLF) = <<l>> \o Cut(x, CRLF)
  <2>1. x \in Seq(Chars)
    BY <1>2, LineBreak
  <2> HIDE DEF x, j, l, text
  <2>2. Free(l, CRLF[1])
    BY <1>1, <1>2
  <2>3. l \in Seq(Chars) /\ CRLF \in Seq(Chars) /\ Len(CRLF) >= 1
    BY <1>1, <1>2
  <2> QED
    BY <2>1, <2>2, <2>3, CutFirst
<1> HIDE DEF x, j, l, text, ls
<1>7. text # <<>>
  BY <1>3
<1> QED
  BY <1>2, <1>4, <1>5, <1>6, <1>7, SplitCuts DEF HttpLines, text, l, ls

(* The request line is the first of them, and the fields are the lines     *)
(* between it and the empty one.                                           *)
LEMMA HttpLinesParts ==
  ASSUME NEW r \in HttpRequests
  PROVE  HttpLines(r)[1] = RequestLine(r) /\ fieldLines(HttpLines(r)) = FieldLines(r)
<1> DEFINE ls == FieldLines(r)
           l == RequestLine(r)
           e == <<<<>>, <<>>>>
           b == ls \o e
           h == <<l>>
           T == Seq(Chars)
<1>1. ls \in Seq(T)
  BY RequestText, LinesType
<1>2. l \in T
  BY RequestText
<1>3. e \in Seq(T) /\ Len(e) = 2
  OBVIOUS
<1>4. h \in Seq(T) /\ Len(h) = 1 /\ h[1] = l
  BY <1>2
<1> HIDE DEF ls, l, e, h, T
<1>5. b \in Seq(T) /\ Len(b) = Len(ls) + Len(e)
  BY <1>1, <1>3, Joint
<1>6. SubSeq(b, 1, Len(ls)) = ls
  BY <1>1, <1>3, ReadsFirst
<1> HIDE DEF b
<1>13. h \in Seq(T) /\ b \in Seq(T)
  BY <1>4, <1>5
<1>7. Len(h \o b) = Len(h) + Len(b) /\ (h \o b)[1] = h[1]
  <2>1. 1 \in 1 .. Len(h)
    BY <1>4
  <2> QED
    BY <1>13, <2>1, Joint
<1>8. 1 \in 1 .. Len(b) + 1 /\ Len(ls) \in 0 .. Len(b)
  BY <1>1, <1>3, <1>5
<1>9. SubSeq(h \o b, Len(h) + 1, Len(h) + Len(ls)) = SubSeq(b, 1, Len(ls))
  BY <1>8, <1>13, SubSeqShift
<1>10. Len(h \o b) - 2 = Len(h) + Len(ls) /\ Len(h) + 1 = 2
  BY <1>1, <1>3, <1>4, <1>5, <1>7
<1>11. HttpLines(r) = h \o b
  BY HttpLinesAre DEF h, l, b, ls, e
<1> QED
  BY <1>4, <1>6, <1>7, <1>9, <1>10, <1>11 DEF fieldLines, ls, l

(* A word before a delimiter is the first token of a text.                 *)
Leads(tokens, w, rest, d) ==
  /\ tokens = <<<<w>>>> \o Cut(rest, d)
  /\ tokens \in Seq(Seq(Chars)) /\ Len(tokens) >= 2
  /\ tokens[1] = <<w>> /\ tokens[2] = Cut(rest, d)[1]

LEMMA Delimiters ==
  \A d \in {Blank, Colon} : /\ d \in Seq(Chars) /\ Len(d) = 1 /\ d[1] \in {Sp, ":"}
                            /\ d[1] \in LineChars /\ d = <<d[1]>>
<1>1. Blank \in Seq(Chars) /\ Len(Blank) = 1 /\ Blank[1] = Sp /\ Blank = <<Blank[1]>>
  BY Blanks, WordsAreWords
<1>2. Colon \in Seq(Chars) /\ Len(Colon) = 1 /\ Colon[1] = ":" /\ Colon = <<Colon[1]>>
  BY Blanks, WordsAreWords
<1> QED
  BY <1>1, <1>2, Blanks

LEMMA LeadingWord ==
  ASSUME NEW w \in WordChars, NEW d \in {Blank, Colon}, NEW rest \in Seq(Chars)
  PROVE  Leads(split(<<w>> \o (d \o rest), d), w, rest, d)
<1> DEFINE h == <<w>>
           hh == <<h>>
           dr == d \o rest
           c == Cut(rest, d)
<1>1. d \in Seq(Chars) /\ Len(d) = 1 /\ d[1] \in {Sp, ":"}
  BY Delimiters
<1>2. w \in Chars /\ w # d[1]
  <2>1. w # Sp /\ w # ":"
    BY DEF WordChars
  <2> QED
    BY <1>1, <2>1, WordsAreWords
<1>3. h \in Seq(Chars) /\ Len(h) = 1 /\ Free(h, d[1])
  BY <1>2 DEF Free
<1>4. hh \in Seq(Seq(Chars)) /\ Len(hh) = 1 /\ hh[1] = h
  BY <1>3
<1>5. c \in Seq(Seq(Chars)) /\ Len(c) >= 1
  <2>1. Len(d) >= 1
    BY <1>1
  <2> QED
    BY <1>1, <2>1, CutType
<1>6. dr \in Seq(Chars)
  BY <1>1, Joint
<1> HIDE DEF h, hh, c
<1>7. Cut(h \o (d \o rest), d) = <<h>> \o c
  <2>1. Len(d) >= 1
    BY <1>1
  <2> QED
    BY <1>1, <1>3, <2>1, CutFirst DEF c
<1> HIDE DEF dr
<1>8. h \o dr # <<>>
  <2>1. h \in Seq(Chars) /\ dr \in Seq(Chars)
    BY <1>3, <1>6
  <2>2. Len(h \o dr) = Len(h) + Len(dr)
    BY <2>1, Joint
  <2>3. Len(dr) \in Nat
    BY <1>6
  <2> QED
    BY <1>3, <2>2, <2>3
<1>9. split(h \o dr, d) = hh \o c
  BY <1>7, <1>8, SplitCuts DEF dr, hh
<1>10. hh \in Seq(Seq(Chars)) /\ c \in Seq(Seq(Chars))
  BY <1>4, <1>5
<1>11. hh \o c \in Seq(Seq(Chars)) /\ Len(hh \o c) = Len(hh) + Len(c)
  BY <1>10, Joint
<1>12. (hh \o c)[1] = h
  <2>1. 1 \in 1 .. Len(hh)
    BY <1>4
  <2> QED
    BY <1>4, <1>10, <2>1, Joint
<1>13. (hh \o c)[2] = c[1]
  <2>1. 1 \in 1 .. Len(c) /\ Len(hh) + 1 = 2
    BY <1>4, <1>5
  <2>2. (hh \o c)[Len(hh) + 1] = c[1]
    BY <1>10, <2>1, Joint
  <2> QED
    BY <2>1, <2>2
<1>14. Len(hh \o c) >= 2
  BY <1>4, <1>5, <1>11
<1> QED
  BY <1>9, <1>11, <1>12, <1>13, <1>14 DEF Leads, hh, h, dr, c

Begins(text, w, s) ==
  /\ Len(text) = Len(s) + 1 /\ text[1] = w
  /\ \A i \in 1 .. Len(s) : text[i + 1] = s[i]

LEMMA PutBefore ==
  ASSUME NEW T, NEW w \in T, NEW s \in Seq(T)
  PROVE  <<w>> \o s \in Seq(T) /\ Begins(<<w>> \o s, w, s)
<1> DEFINE h == <<w>>
<1>1. h \in Seq(T) /\ Len(h) = 1 /\ h[1] = w
  OBVIOUS
<1> HIDE DEF h
<1>2. h \o s \in Seq(T) /\ Len(h \o s) = Len(h) + Len(s)
  BY <1>1, Joint
<1>3. (h \o s)[1] = h[1]
  <2>1. 1 \in 1 .. Len(h)
    BY <1>1
  <2> QED
    BY <1>1, <2>1, Joint
<1>4. \A i \in 1 .. Len(s) : (h \o s)[Len(h) + i] = s[i]
  <2>1. h \in Seq(T)
    BY <1>1
  <2> QED
    BY <2>1, Joint
<1>5. ASSUME NEW i \in 1 .. Len(s)
      PROVE  (h \o s)[i + 1] = s[i]
  <2>1. Len(h) + i = i + 1
    BY <1>1
  <2> QED
    BY <1>4, <2>1
<1> QED
  BY <1>1, <1>2, <1>3, <1>5 DEF Begins, h

(* Six words, put one before the other. *)
LEMMA FourWords ==
  ASSUME NEW T, NEW a \in T, NEW b \in T, NEW c \in T, NEW d \in T, NEW e \in T, NEW f \in T
  PROVE  <<a>> \o (<<b>> \o (<<c>> \o (<<d>> \o <<e, f>>))) = <<a, b, c, d, e, f>>
<1> DEFINE p == <<e, f>>
           q == <<d>> \o p
           s == <<c>> \o q
           t == <<b>> \o s
           v == <<a>> \o t
           w == <<a, b, c, d, e, f>>
<1>1. p \in Seq(T) /\ Len(p) = 2 /\ p[1] = e /\ p[2] = f
  OBVIOUS
<1>2. /\ w \in Seq(T) /\ Len(w) = 6
      /\ w[1] = a /\ w[2] = b /\ w[3] = c /\ w[4] = d /\ w[5] = e /\ w[6] = f
  OBVIOUS
<1> HIDE DEF p, w
<1>3. q \in Seq(T) /\ Len(q) = 3 /\ q[1] = d /\ q[2] = e /\ q[3] = f
  <2>3. p \in Seq(T)
    BY <1>1
  <2>4. q \in Seq(T) /\ Begins(q, d, p)
    BY <2>3, PutBefore
  <2>1. /\ q \in Seq(T) /\ Len(q) = Len(p) + 1 /\ q[1] = d
        /\ \A i \in 1 .. Len(p) : q[i + 1] = p[i]
    BY <2>4 DEF Begins
  <2>2. q[1 + 1] = p[1] /\ q[2 + 1] = p[2]
    BY <1>1, <2>1
  <2> QED
    BY <1>1, <2>1, <2>2
<1> HIDE DEF q
<1>4. s \in Seq(T) /\ Len(s) = 4 /\ s[1] = c /\ s[2] = d /\ s[3] = e /\ s[4] = f
  <2>3. q \in Seq(T)
    BY <1>3
  <2>4. s \in Seq(T) /\ Begins(s, c, q)
    BY <2>3, PutBefore
  <2>1. /\ s \in Seq(T) /\ Len(s) = Len(q) + 1 /\ s[1] = c
        /\ \A i \in 1 .. Len(q) : s[i + 1] = q[i]
    BY <2>4 DEF Begins
  <2>2. s[1 + 1] = q[1] /\ s[2 + 1] = q[2] /\ s[3 + 1] = q[3]
    BY <1>3, <2>1
  <2> QED
    BY <1>3, <2>1, <2>2
<1> HIDE DEF s
<1>5. /\ t \in Seq(T) /\ Len(t) = 5
      /\ t[1] = b /\ t[2] = c /\ t[3] = d /\ t[4] = e /\ t[5] = f
  <2>3. s \in Seq(T)
    BY <1>4
  <2>4. t \in Seq(T) /\ Begins(t, b, s)
    BY <2>3, PutBefore
  <2>1. /\ t \in Seq(T) /\ Len(t) = Len(s) + 1 /\ t[1] = b
        /\ \A i \in 1 .. Len(s) : t[i + 1] = s[i]
    BY <2>4 DEF Begins
  <2>2. t[1 + 1] = s[1] /\ t[2 + 1] = s[2] /\ t[3 + 1] = s[3] /\ t[4 + 1] = s[4]
    BY <1>4, <2>1
  <2> QED
    BY <1>4, <2>1, <2>2
<1> HIDE DEF t
<1>6. /\ v \in Seq(T) /\ Len(v) = 6
      /\ v[1] = a /\ v[2] = b /\ v[3] = c /\ v[4] = d /\ v[5] = e /\ v[6] = f
  <2>3. t \in Seq(T)
    BY <1>5
  <2>4. v \in Seq(T) /\ Begins(v, a, t)
    BY <2>3, PutBefore
  <2>1. /\ v \in Seq(T) /\ Len(v) = Len(t) + 1 /\ v[1] = a
        /\ \A i \in 1 .. Len(t) : v[i + 1] = t[i]
    BY <2>4 DEF Begins
  <2>2. v[1 + 1] = t[1] /\ v[2 + 1] = t[2] /\ v[3 + 1] = t[3] /\ v[4 + 1] = t[4] /\ v[5 + 1] = t[5]
    BY <1>5, <2>1
  <2> QED
    BY <1>5, <2>1, <2>2
<1> HIDE DEF v
<1>7. \A i \in 1 .. Len(v) : v[i] = w[i]
  BY <1>2, <1>6
<1>8. v = w
  BY <1>2, <1>6, <1>7, SeqEqual
<1> QED
  BY <1>8 DEF v, t, s, q, p, w

(* What HttpParser reads in the request line. *)
LEMMA HttpTokens ==
  ASSUME NEW r \in HttpRequests
  PROVE  LET tokens == split(RequestLine(r), Blank) IN
         tokens # <<>> /\ Len(tokens) >= 2 /\ tokens[1] = <<r.method>> /\ tokens[2] = <<r.uri>>
<1>1. r.method \in WordChars /\ r.uri \in WordChars
  BY HttpRequestIs
<1> DEFINE rest == <<"HTTP", "/1.1">>
           u == <<r.uri>> \o (Blank \o rest)
           line == <<r.method>> \o (Blank \o u)
<1>2. rest \in Seq(Chars)
  <2>1. "HTTP" \in Chars /\ "/1.1" \in Chars
    BY Literal, WordsAreWords
  <2> QED
    BY <2>1
<1>3. u \in Seq(Chars)
  <2>1. <<r.uri>> \in Seq(Chars) /\ Blank \in Seq(Chars)
    BY <1>1, WordsAreWords, Delimiters
  <2> HIDE DEF rest
  <2>2. Blank \o rest \in Seq(Chars)
    BY <1>2, <2>1, Joint
  <2> QED
    BY <2>1, <2>2, Joint
<1>4. line = RequestLine(r)
  <2>1. r.method \in Chars /\ r.uri \in Chars /\ Sp \in Chars /\ "HTTP" \in Chars /\ "/1.1" \in Chars
    BY <1>1, Literal, Blanks, WordsAreWords
  <2>2. PICK a \in Chars, b \in Chars, c \in Chars, d \in Chars, e \in Chars :
          a = r.method /\ b = Sp /\ c = r.uri /\ d = "HTTP" /\ e = "/1.1"
    BY <2>1
  <2>3. <<a>> \o (<<b>> \o (<<c>> \o (<<b>> \o <<d, e>>))) = <<a, b, c, b, d, e>>
    BY FourWords
  <2>4. line = <<a>> \o (<<b>> \o (<<c>> \o (<<b>> \o <<d, e>>)))
    BY <2>2 DEF Blank
  <2>5. RequestLine(r) = <<a, b, c, b, d, e>>
    BY <2>2 DEF RequestLine
  <2> QED
    BY <2>3, <2>4, <2>5
<1> HIDE DEF rest, u, line
<1>5. Leads(split(<<r.method>> \o (Blank \o u), Blank), r.method, u, Blank)
  BY <1>1, <1>3, LeadingWord
<1>6. Leads(split(<<r.uri>> \o (Blank \o rest), Blank), r.uri, rest, Blank)
  BY <1>1, <1>2, LeadingWord
<1>7. split(u, Blank) = Cut(u, Blank)
  <2>1. split(u, Blank) # <<>>
    BY <1>6 DEF Leads, u
  <2> QED
    BY <2>1, SplitCuts
<1>8. Cut(u, Blank)[1] = <<r.uri>>
  BY <1>6, <1>7 DEF Leads, u
<1>9. Leads(split(RequestLine(r), Blank), r.method, u, Blank)
  BY <1>4, <1>5 DEF line
<1> QED
  BY <1>8, <1>9 DEF Leads

LEMMA Words3 ==
  ASSUME NEW a, NEW b, NEW c
  PROVE  <<a>> \o <<b, c>> = <<a, b, c>>
<1> DEFINE T == {a, b, c}
           t == <<b, c>>
           p == <<a, b, c>>
           w == <<a>> \o t
<1>1. t \in Seq(T) /\ Len(t) = 2 /\ t[1] = b /\ t[2] = c
  OBVIOUS
<1>2. p \in Seq(T) /\ Len(p) = 3 /\ p[1] = a /\ p[2] = b /\ p[3] = c
  OBVIOUS
<1>3. a \in T
  OBVIOUS
<1> HIDE DEF t, p, T
<1>4. t \in Seq(T)
  BY <1>1
<1>5. w \in Seq(T) /\ Begins(w, a, t)
  BY <1>3, <1>4, PutBefore
<1> HIDE DEF w
<1>6. Len(w) = 3 /\ w[1] = a /\ w[1 + 1] = b /\ w[2 + 1] = c
  BY <1>1, <1>5 DEF Begins
<1>7. \A i \in 1 .. Len(w) : w[i] = p[i]
  BY <1>2, <1>6
<1>8. w = p
  BY <1>2, <1>5, <1>6, <1>7, SeqEqual
<1> QED
  BY <1>8 DEF w, t, p

(* Leading blanks go. *)
LEMMA Trims ==
  ASSUME NEW b \in Seq({Sp}), NEW s \in Seq(Chars), Len(s) >= 1, s[1] # Sp
  PROVE  trimmed(b \o s) = s
<1> DEFINE w == b \o s
           first == {k \in 1 .. Len(w) : w[k] # Sp} \cup {npos(w)}
<1>1. b \in Seq(Chars) /\ \A i \in 1 .. Len(b) : b[i] = Sp
  <2>1. Sp \in Chars
    BY Blanks, WordsAreWords
  <2> QED
    BY <2>1, ElementOfSeq
<1>2. w \in Seq(Chars) /\ Len(w) = Len(b) + Len(s)
  BY <1>1, Joint
<1>3. \A i \in 1 .. Len(b) : w[i] = Sp
  <2>1. \A i \in 1 .. Len(b) : w[i] = b[i]
    BY <1>1, Joint
  <2> QED
    BY <1>1, <2>1
<1>4. w[Len(b) + 1] = s[1]
  <2>1. 1 \in 1 .. Len(s)
    OBVIOUS
  <2>2. b \in Seq(Chars)
    BY <1>1
  <2> QED
    BY <2>1, <2>2, Joint
<1>5. SubSeq(w, Len(b) + 1, Len(w)) = s
  BY <1>1, ReadsFirst
<1> HIDE DEF w
<1>6. Len(b) \in Nat /\ Len(s) \in Nat /\ Len(w) \in Nat
  BY <1>2
<1>7. Min(first) = Len(b) + 1
  <2>1. first \in SUBSET Int
    BY <1>6 DEF npos
  <2>2. Len(b) + 1 \in first
    BY <1>2, <1>4, <1>6
  <2>3. \A k \in first : Len(b) + 1 <= k
    BY <1>2, <1>3, <1>6 DEF npos
  <2> HIDE DEF first
  <2> QED
    BY <2>1, <2>2, <2>3, MinIs
<1>8. Len(b) + 1 # npos(w)
  BY <1>2, <1>6 DEF npos
<1>9. trimmed(w) = SubSeq(w, Len(b) + 1, Len(w))
  BY <1>7, <1>8 DEF trimmed
<1> QED
  BY <1>5, <1>9 DEF w

(* What HttpParser makes of the line of a field: its name in lower case,   *)
(* and its value without the blanks before it.                             *)
BasicValue(r) == <<"Basic">> \o (Blank \o encode_base64(Credentials(r)))

ReadsField(r, f) ==
  /\ Len(split(FieldLine(r, f), Colon)) >= 2
  /\ fieldName(FieldLine(r, f)) = <<Lower[f]>>
  /\ f \in {"Content-Length", "CONTENT-LENGTH"} => fieldValue(FieldLine(r, f)) = <<ToString(r.size)>>
  /\ f = "Expect" => fieldValue(FieldLine(r, f)) = <<"100-continue">>
  /\ f = "Authorization" => fieldValue(FieldLine(r, f)) = BasicValue(r)

LEMMA FieldIs ==
  ASSUME NEW r \in HttpRequests, NEW f \in Fields
  PROVE  ReadsField(r, f)
<1> DEFINE t == HttpFieldText(r, f)
           line == FieldLine(r, f)
<1>1. t \in Seq(Chars)
  <2>1. t \in Seq(LineChars)
    BY FieldText
  <2> QED
    BY <2>1, WordsAreWords
<1>2. Leads(split(line, Colon), f, t, Colon)
  <2>1. f \in WordChars /\ line = <<f>> \o (Colon \o t)
    BY FieldNames, FieldLineIs
  <2> HIDE DEF t, line
  <2>2. Colon \in {Blank, Colon}
    OBVIOUS
  <2> QED
    BY <1>1, <2>1, <2>2, LeadingWord
<1>3. fieldName(line) = <<Lower[f]>>
  <2>1. split(line, Colon)[1] = <<f>>
    BY <1>2 DEF Leads
  <2>2. f \in DOMAIN Lower
    BY DEF Lower, Fields
  <2>3. toLowerCase(<<f>>) = <<Lower[f]>>
    <3> HIDE DEF line
    <3> QED
      BY <2>2 DEF toLowerCase, Mapped
  <2> QED
    BY <2>1, <2>3 DEF fieldName
<1>4. ASSUME Free(t, ":")
      PROVE  fieldValue(line) = trimmed(t)
  <2>1. Cut(t, Colon) = <<t>>
    <3>1. Colon \in Seq(Chars) /\ Len(Colon) >= 1 /\ Colon[1] = ":"
      BY Delimiters, Blanks
    <3> HIDE DEF t, line
    <3>2. Free(t, Colon[1])
      BY <1>4, <3>1
    <3> QED
      BY <1>1, <3>1, <3>2, CutLast
  <2>2. split(line, Colon)[2] = Cut(t, Colon)[1]
    BY <1>2 DEF Leads
  <2> HIDE DEF t, line
  <2>3. split(line, Colon)[2] = t
    BY <2>1, <2>2
  <2> QED
    BY <2>3 DEF fieldValue
<1>5. \A c \in WordChars : c \in Chars /\ c # Sp /\ c # ":"
  BY WordsAreWords DEF WordChars
<1>6. <<Sp>> \in Seq({Sp}) /\ <<Sp, Sp>> \in Seq({Sp}) /\ Sp # ":"
  BY Blanks
<1>7. CASE f \in {"Content-Length", "CONTENT-LENGTH"}
  <2> DEFINE n == ToString(r.size)
             v == <<n>>
  <2>1. t = <<Sp, n>>
    BY <1>7, FieldText
  <2>2. n \in WordChars
    BY HttpRequestIs, Bounds, NumbersAreWords
  <2> HIDE DEF t, line, n
  <2>3. Free(t, ":")
    BY <1>5, <1>6, <2>1, <2>2 DEF Free
  <2>4. v \in Seq(Chars) /\ Len(v) >= 1 /\ v[1] # Sp
    BY <1>5, <2>2
  <2>5. t = <<Sp>> \o v
    BY <2>1, Words2
  <2> HIDE DEF v
  <2>6. trimmed(<<Sp>> \o v) = v
    BY <1>6, <2>4, Trims
  <2>7. fieldValue(line) = v
    BY <1>4, <2>3, <2>5, <2>6
  <2> QED
    BY <1>2, <1>3, <1>7, <2>7 DEF ReadsField, Leads, line, n, v
<1>8. CASE f = "Expect"
  <2> DEFINE v == <<"100-continue">>
  <2>1. t = <<Sp, Sp, "100-continue">>
    BY <1>8, FieldText
  <2>2. "100-continue" \in WordChars
    BY Literal
  <2> HIDE DEF t, line
  <2>3. Free(t, ":")
    BY <1>5, <1>6, <2>1, <2>2 DEF Free
  <2>4. v \in Seq(Chars) /\ Len(v) >= 1 /\ v[1] # Sp
    BY <1>5, <2>2
  <2>5. t = <<Sp, Sp>> \o v
    <3> DEFINE b == <<Sp>>
    <3>1. b \o <<Sp, "100-continue">> = <<Sp, Sp, "100-continue">>
      BY Words3
    <3>2. b \o v = <<Sp, "100-continue">> /\ b \o b = <<Sp, Sp>>
      BY Words2
    <3>3. b \in Seq(Chars)
      BY Delimiters DEF Blank
    <3> HIDE DEF b, v
    <3>4. Associates(b, b, v)
      BY <2>4, <3>3, Association
    <3> QED
      BY <2>1, <3>1, <3>2, <3>4 DEF Associates
  <2> HIDE DEF v
  <2>6. trimmed(<<Sp, Sp>> \o v) = v
    BY <1>6, <2>4, Trims
  <2>7. fieldValue(line) = v
    BY <1>4, <2>3, <2>5, <2>6
  <2> QED
    BY <1>2, <1>3, <1>8, <2>7 DEF ReadsField, Leads, line, v
<1>9. CASE f = "Authorization"
  <2> DEFINE e == encode_base64(Credentials(r))
             b == <<Sp>>
             k == <<"Basic">>
             be == b \o e
             v == k \o be
  <2>1. t = <<Sp, "Basic", Sp>> \o e
    BY <1>9, FieldText
  <2>2. "Basic" \in WordChars
    BY Literal
  <2>3. e \in Seq(WordChars)
    BY HttpRequestIs, EncodedType
  <2>4. e \in Seq(Chars)
    BY <1>5, <2>3
  <2>5. b \in Seq(Chars)
    BY Delimiters DEF Blank
  <2>6. k \in Seq(Chars) /\ k[1] = "Basic"
    BY <1>5, <2>2
  <2>7. <<Sp, "Basic", Sp>> = b \o (k \o b)
    <3>1. k \o b = <<"Basic", Sp>>
      BY Words2
    <3> QED
      BY <3>1, Words3
  <2> HIDE DEF t, line, e, b
  <2>8. be \in Seq(Chars)
    BY <2>4, <2>5, Joint
  <2>17. v \in Seq(Chars) /\ Begins(v, "Basic", be)
    <3>1. "Basic" \in Chars
      BY <1>5, <2>2
    <3> HIDE DEF be
    <3> QED
      BY <2>8, <3>1, PutBefore
  <2> HIDE DEF k, be
  <2>9. Len(v) >= 1 /\ v[1] # Sp
    BY <1>5, <2>2, <2>8, <2>17 DEF Begins
  <2>10. k \o b \in Seq(Chars)
    BY <2>5, <2>6, Joint
  <2>11. Associates(k, b, e) /\ Associates(b, k \o b, e)
    <3>1. Associates(k, b, e)
      BY <2>4, <2>5, <2>6, Association
    <3> DEFINE kb == k \o b
    <3> HIDE DEF kb
    <3>2. kb \in Seq(Chars)
      BY <2>10 DEF kb
    <3>3. Associates(b, kb, e)
      BY <2>4, <2>5, <3>2, Association
    <3> QED
      BY <3>1, <3>3 DEF kb
  <2>12. t = b \o v
    BY <2>1, <2>7, <2>11 DEF Associates, be
  <2>13. Free(t, ":")
    <3>1. t \in Seq(Chars \ {":"})
      <4>1. <<Sp, "Basic", Sp>> \in Seq(Chars \ {":"})
        <5>1. Sp \in Chars \ {":"} /\ "Basic" \in Chars \ {":"}
          BY <1>5, <2>2, Blanks, WordsAreWords
        <5> QED
          BY <5>1
      <4>2. e \in Seq(Chars \ {":"})
        BY <1>5, <2>3
      <4> QED
        BY <2>1, <4>1, <4>2, ConcatProperties
    <3> QED
      BY <3>1, FreeOf
  <2> HIDE DEF v
  <2>14. trimmed(<<Sp>> \o v) = v
    BY <1>6, <2>9, <2>17, Trims
  <2>15. fieldValue(line) = v
    BY <1>4, <2>12, <2>13, <2>14 DEF b
  <2>16. v = BasicValue(r)
    BY DEF v, k, be, b, e, BasicValue, Blank
  <2> QED
    BY <1>2, <1>3, <1>9, <2>15, <2>16 DEF ReadsField, Leads, line
<1> QED
  BY <1>2, <1>3, <1>7, <1>8, <1>9 DEF ReadsField, Leads, line

(* The value of a header field, when all fields of its name have it. *)
LEMMA ValueIs ==
  ASSUME NEW lines, Len(lines) \in Nat, NEW name, NEW v,
         \A k \in 1 .. Len(lines) : fieldName(lines[k]) = <<name>> => fieldValue(lines[k]) = v
  PROVE  valueOf(header_fields_(lines), name)
           = IF \E k \in 1 .. Len(lines) : fieldName(lines[k]) = <<name>> THEN {v} ELSE {}
<1> DEFINE N == <<name>>
           S == {k \in 1 .. Len(lines) : fieldName(lines[k]) = N}
           D == {fieldName(lines[k]) : k \in 1 .. Len(lines)}
           fields == header_fields_(lines)
<1>1. fields = [n \in D |-> fieldValue(lines[Max({k \in 1 .. Len(lines) : fieldName(lines[k]) = n})])]
  BY DEF header_fields_
<1>2. valueOf(fields, name) = {fields[n] : n \in DOMAIN fields \cap {N}}
  BY DEF valueOf
<1> HIDE DEF fields, N
<1>3. DOMAIN fields = D
  BY <1>1
<1>4. CASE S = {}
  <2>1. N \notin D
    BY <1>4
  <2>2. valueOf(fields, name) = {}
    BY <1>2, <1>3, <2>1
  <2> QED
    BY <1>4, <2>2 DEF N, fields
<1>5. CASE S # {}
  <2>1. N \in D
    BY <1>5
  <2>2. S \in SUBSET (0 .. Len(lines))
    OBVIOUS
  <2>3. Max(S) \in S
    <3> HIDE DEF S
    <3> QED
      BY <1>5, <2>2, MaxExists
  <2>4. fields[N] = fieldValue(lines[Max(S)])
    <3> HIDE DEF D
    <3> QED
      BY <1>1, <2>1
  <2>5. fieldValue(lines[Max(S)]) = v
    <3>1. PICK m \in S : m = Max(S)
      BY <2>3
    <3> QED
      BY <3>1 DEF N
  <2>6. valueOf(fields, name) = {v}
    BY <1>2, <1>3, <2>1, <2>4, <2>5
  <2>7. \E k \in 1 .. Len(lines) : fieldName(lines[k]) = <<name>>
    BY <1>5 DEF N
  <2> QED
    BY <2>6, <2>7 DEF fields
<1> QED
  BY <1>4, <1>5

(* The header fields of a request, as HttpParser reads them. *)
Headers(r) == header_fields_(fieldLines(HttpLines(r)))

LEMMA HeaderIs ==
  ASSUME NEW r \in HttpRequests, NEW fs \in SUBSET Fields, NEW name, NEW v,
         \A f \in Fields : Lower[f] = name <=> f \in fs,
         \A f \in fs : fieldValue(FieldLine(r, f)) = v
  PROVE  valueOf(Headers(r), name) = IF \E k \in 1 .. Len(r.fields) : r.fields[k] \in fs THEN {v} ELSE {}
<1> DEFINE ls == FieldLines(r)
<1>1. Headers(r) = header_fields_(ls)
  BY HttpLinesParts DEF Headers
<1>2. Len(ls) = Len(r.fields) /\ \A k \in 1 .. Len(r.fields) : ls[k] = FieldLine(r, r.fields[k])
  BY RequestText
<1>3. Len(r.fields) \in Nat /\ \A k \in 1 .. Len(r.fields) : r.fields[k] \in Fields
  BY HttpRequestIs, ElementOfSeq
<1> HIDE DEF ls
<1>4. \A k \in 1 .. Len(r.fields) : fieldName(ls[k]) = <<name>> <=> r.fields[k] \in fs
  <2> TAKE k \in 1 .. Len(r.fields)
  <2>1. r.fields[k] \in Fields /\ ls[k] = FieldLine(r, r.fields[k])
    BY <1>2, <1>3
  <2>2. fieldName(ls[k]) = <<Lower[r.fields[k]]>>
    BY <2>1, FieldIs DEF ReadsField
  <2>3. <<Lower[r.fields[k]]>> = <<name>> <=> Lower[r.fields[k]] = name
    OBVIOUS
  <2> QED
    BY <2>1, <2>2, <2>3
<1>5. \A k \in 1 .. Len(ls) : fieldName(ls[k]) = <<name>> => fieldValue(ls[k]) = v
  BY <1>2, <1>4
<1>6. Len(ls) \in Nat
  BY <1>2, <1>3
<1>7. valueOf(header_fields_(ls), name)
        = IF \E k \in 1 .. Len(ls) : fieldName(ls[k]) = <<name>> THEN {v} ELSE {}
  BY <1>5, <1>6, ValueIs
<1> QED
  BY <1>1, <1>2, <1>4, <1>7

(* A number that an int can hold is read as it was written. *)
LEMMA NumberIs ==
  ASSUME NEW n \in Nat, n <= MaxNumber, n < 2^(IntBits - 1)
  PROVE  atoi(<<ToString(n)>>) % 2^SizeBits = n
<1> DEFINE S == {k \in 0 .. MaxNumber : Head(<<ToString(n)>>) = ToString(k)} \cup {0}
<1>1. MaxNumber \in Nat /\ IntBits \in Nat /\ IntBits >= 1 /\ SizeBits \in Nat /\ IntBits <= SizeBits
  BY WidthAssumption
<1>2. S \in SUBSET Int /\ n \in S
  BY <1>1
<1>3. \A k \in S : n >= k
  <2> SUFFICES ASSUME NEW k \in 0 .. MaxNumber, ToString(n) = ToString(k)
               PROVE  n >= k
    OBVIOUS
  <2>1. k \in Numbers /\ n \in Numbers
    BY <1>1, Bounds
  <2> QED
    BY <2>1, NumbersAssumption
<1>4. Max(S) = n
  <2> HIDE DEF S
  <2> QED
    BY <1>2, <1>3, MaxIs
<1>5. PICK p \in Nat : p = 2^(IntBits - 1)
  <2>1. IntBits - 1 \in Nat
    BY <1>1
  <2> QED
    BY <2>1, Powers
<1>6. PICK q \in Nat : q = 2^IntBits
  BY <1>1, Powers
<1>7. PICK z \in Nat : z = 2^SizeBits
  BY <1>1, Powers
<1>8. p <= q /\ q <= z
  <2>1. IntBits - 1 \in Nat /\ IntBits - 1 <= IntBits
    BY <1>1
  <2>2. 2^(IntBits - 1) <= 2^IntBits
    BY <1>1, <2>1, Powers
  <2>3. 2^IntBits <= 2^SizeBits
    BY <1>1, Powers
  <2> QED
    BY <1>5, <1>6, <1>7, <2>2, <2>3
<1>9. n < p
  BY <1>5
<1>10. n % q = n /\ n % z = n
  BY <1>8, <1>9
<1>11. atoi(<<ToString(n)>>) = IF n % q < p THEN n % q ELSE (n % q) - q
  <2> HIDE DEF S
  <2> QED
    BY <1>4, <1>5, <1>6 DEF atoi, S
<1> QED
  BY <1>7, <1>9, <1>10, <1>11

(* The credentials, through base64. *)
LEMMA CredentialsAre ==
  ASSUME NEW r \in HttpRequests, Free(r.username, 58), Free(r.password, 58),
         NEW fields, valueOf(fields, "authorization") \in {{}, {BasicValue(r)}}
  PROVE  getAuthInfo(fields)
           = IF valueOf(fields, "authorization") = {} THEN {}
             ELSE {[username |-> r.username, password |-> r.password]}
<1> DEFINE B == 0 .. 255
           u == r.username
           p == r.password
           d == <<58>>
           e == encode_base64(Credentials(r))
           credentials(decoded) ==
             LET user_and_pass == split(decoded, <<58>>) IN
             IF Len(user_and_pass) < 2 THEN Fault
             ELSE [username |-> user_and_pass[1], password |-> user_and_pass[2]]
           V == valueOf(fields, "authorization")
           read(value) ==
             LET tokens == split(value, Blank) IN
             IF Len(tokens) < 2 THEN {Fault}
             ELSE {credentials(decoded) : decoded \in decode_base64(tokens[2])}
<1>1. u \in Seq(B) /\ p \in Seq(B) /\ Credentials(r) \in Seq(B)
  BY HttpRequestIs
<1>2. credentials(Credentials(r)) = [username |-> u, password |-> p]
  <2>1. d \in Seq(B) /\ Len(d) >= 1 /\ d[1] = 58
    OBVIOUS
  <2>2. Credentials(r) = u \o (d \o p)
    <3> HIDE DEF d, u, p, B
    <3>1. Associates(u, d, p)
      BY <1>1, <2>1, Association
    <3> QED
      BY <3>1 DEF Associates, Credentials, u, d, p
  <2> HIDE DEF d, u, p, B
  <2>3. Free(u, d[1]) /\ Free(p, d[1])
    BY <2>1 DEF u, p
  <2>4. Cut(u \o (d \o p), d) = <<u>> \o Cut(p, d)
    BY <1>1, <2>1, <2>3, CutFirst
  <2>5. Cut(p, d) = <<p>>
    BY <1>1, <2>1, <2>3, CutLast
  <2>6. Cut(Credentials(r), d) = <<u, p>>
    BY <2>2, <2>4, <2>5, Words2
  <2>7. Credentials(r) # <<>>
    <3>1. d \o p \in Seq(B) /\ Len(d \o p) = Len(d) + Len(p)
      BY <1>1, <2>1, Joint
    <3> DEFINE dp == d \o p
    <3> HIDE DEF dp
    <3>2. Len(u \o dp) = Len(u) + Len(dp)
      BY <1>1, <3>1, Joint DEF dp
    <3>3. Len(u) \in Nat /\ Len(p) \in Nat
      BY <1>1
    <3> QED
      BY <2>1, <2>2, <3>1, <3>2, <3>3 DEF dp
  <2>8. split(Credentials(r), d) = <<u, p>>
    BY <2>6, <2>7, SplitCuts
  <2> QED
    BY <2>8 DEF d
<1>3. split(BasicValue(r), Blank)[2] = e /\ Len(split(BasicValue(r), Blank)) >= 2
  <2>1. e \in Seq(WordChars)
    BY <1>1, EncodedType
  <2> HIDE DEF e
  <2>2. e \in Seq(Chars) /\ Free(e, Sp)
    <3>1. Sp \notin WordChars
      BY DEF WordChars
    <3> QED
      BY <2>1, <3>1, FreeOf, WordsAreWords
  <2>3. Cut(e, Blank) = <<e>>
    <3>1. Blank \in Seq(Chars) /\ Len(Blank) >= 1 /\ Blank[1] = Sp
      BY Delimiters, Blanks
    <3>2. Free(e, Blank[1])
      BY <2>2, <3>1
    <3> QED
      BY <2>2, <3>1, <3>2, CutLast
  <2>4. "Basic" \in WordChars /\ Blank \in {Blank, Colon}
    BY Literal
  <2>5. Leads(split(<<"Basic">> \o (Blank \o e), Blank), "Basic", e, Blank)
    BY <2>2, <2>4, LeadingWord
  <2> QED
    BY <2>3, <2>5 DEF Leads, BasicValue, e
<1>4. decode_base64(e) = {Credentials(r)}
  BY <1>1, Base64RoundTrip
<1>5. read(BasicValue(r)) = {[username |-> u, password |-> p]}
  <2> HIDE DEF e, credentials, u, p
  <2>1. decode_base64(split(BasicValue(r), Blank)[2]) = {Credentials(r)}
    BY <1>3, <1>4
  <2> QED
    BY <1>2, <1>3, <2>1
<1>6. getAuthInfo(fields) = UNION {read(value) : value \in V}
  BY DEF getAuthInfo
<1> HIDE DEF read, V, u, p
<1>7. CASE V = {}
  BY <1>6, <1>7 DEF V
<1>8. CASE V = {BasicValue(r)}
  <2>1. getAuthInfo(fields) = {[username |-> u, password |-> p]}
    BY <1>5, <1>6, <1>8
  <2> QED
    BY <1>8, <2>1 DEF V, u, p
<1> QED
  BY <1>7, <1>8 DEF V

(* A request of HTTP that the code promises to understand: see Exceptional. *)
HttpPlain(r) ==
  /\ r.fields # <<>> /\ r.size < 2^(IntBits - 1)
  /\ Free(r.username, 58) /\ Free(r.password, 58)

LEMMA LowerIs ==
  \A f \in Fields : /\ Lower[f] = "content-length" <=> f \in {"Content-Length", "CONTENT-LENGTH"}
                    /\ Lower[f] = "expect" <=> f \in {"Expect"}
                    /\ Lower[f] = "authorization" <=> f \in {"Authorization"}
  BY DEF Fields, Lower

LEMMA HttpHeaders ==
  ASSUME NEW r \in HttpRequests, HttpPlain(r)
  PROVE  /\ resource_size(Headers(r)) = r.size
         /\ valueOf(Headers(r), "expect") = {<<"100-continue">>} <=> Contains(r.fields, "Expect")
         /\ getAuthInfo(Headers(r))
              = IF Contains(r.fields, "Authorization")
                THEN {[username |-> r.username, password |-> r.password]} ELSE {}
<1> DEFINE length == {"Content-Length", "CONTENT-LENGTH"}
           H == Headers(r)
           number == <<ToString(r.size)>>
<1>1. Fields \in SUBSET Fields /\ length \in SUBSET Fields
      /\ {"Expect"} \in SUBSET Fields /\ {"Authorization"} \in SUBSET Fields
  BY DEF Fields
<1>2. \A f \in Fields : ReadsField(r, f)
  BY FieldIs
<1>3. valueOf(H, "content-length")
        = IF \E k \in 1 .. Len(r.fields) : r.fields[k] \in length THEN {number} ELSE {}
  <2>1. \A f \in Fields : Lower[f] = "content-length" <=> f \in length
    BY LowerIs
  <2>2. \A f \in length : fieldValue(FieldLine(r, f)) = number
    BY <1>1, <1>2 DEF ReadsField
  <2> HIDE DEF length, number
  <2> QED
    BY <1>1, <2>1, <2>2, HeaderIs
<1>4. valueOf(H, "expect")
        = IF \E k \in 1 .. Len(r.fields) : r.fields[k] \in {"Expect"} THEN {<<"100-continue">>} ELSE {}
  <2>1. \A f \in {"Expect"} : fieldValue(FieldLine(r, f)) = <<"100-continue">>
    BY <1>1, <1>2 DEF ReadsField
  <2>2. \A f \in Fields : Lower[f] = "expect" <=> f \in {"Expect"}
    BY LowerIs
  <2> QED
    BY <1>1, <2>1, <2>2, HeaderIs
<1>5. valueOf(H, "authorization")
        = IF \E k \in 1 .. Len(r.fields) : r.fields[k] \in {"Authorization"} THEN {BasicValue(r)} ELSE {}
  <2>1. \A f \in {"Authorization"} : fieldValue(FieldLine(r, f)) = BasicValue(r)
    BY <1>1, <1>2 DEF ReadsField
  <2>2. \A f \in Fields : Lower[f] = "authorization" <=> f \in {"Authorization"}
    BY LowerIs
  <2> QED
    BY <1>1, <2>1, <2>2, HeaderIs
<1> HIDE DEF H
<1>6. resource_size(H) = r.size
  <2>1. r.size \in Nat /\ r.size <= MaxNumber /\ r.size < 2^(IntBits - 1)
    BY HttpRequestIs DEF HttpPlain
  <2>2. atoi(number) % 2^SizeBits = r.size
    BY <2>1, NumberIs
  <2> HIDE DEF number
  <2>3. CASE \E k \in 1 .. Len(r.fields) : r.fields[k] \in length
    <3>1. valueOf(H, "content-length") = {number}
      BY <1>3, <2>3
    <3>2. (CHOOSE v \in {number} : TRUE) = number
      OBVIOUS
    <3> QED
      BY <2>2, <3>1, <3>2 DEF resource_size
  <2>4. CASE ~\E k \in 1 .. Len(r.fields) : r.fields[k] \in length
    <3>1. valueOf(H, "content-length") = {}
      BY <1>3, <2>4
    <3>2. r.size = 0
      BY <2>4, HttpRequestIs
    <3> QED
      BY <3>1, <3>2 DEF resource_size
  <2> QED
    BY <2>3, <2>4
<1>7. valueOf(H, "expect") = {<<"100-continue">>} <=> Contains(r.fields, "Expect")
  BY <1>4 DEF Contains
<1>8. getAuthInfo(H)
        = IF valueOf(H, "authorization") = {} THEN {}
          ELSE {[username |-> r.username, password |-> r.password]}
  <2>1. valueOf(H, "authorization") \in {{}, {BasicValue(r)}}
    BY <1>5
  <2> QED
    BY <2>1, CredentialsAre DEF HttpPlain
<1>9. valueOf(H, "authorization") = {} <=> ~Contains(r.fields, "Authorization")
  BY <1>5 DEF Contains
<1> QED
  BY <1>6, <1>7, <1>8, <1>9 DEF H

(* HttpParser makes of the text of a request what its client means:        *)
(* method, URI, size, expectation and credentials, whichever fields it     *)
(* has and in whatever order.                                              *)
THEOREM HttpParses ==
  ASSUME NEW r \in HttpRequests, HttpPlain(r)
  PROVE  HttpParser(HttpRequestText(r)) = HttpMeaning(r)
<1> DEFINE lines == HttpLines(r)
           tokens == split(lines[1], Blank)
           unparsed == fieldLines(lines)
           H == Headers(r)
<1>1. tokens # <<>> /\ Len(tokens) >= 2 /\ tokens[1] = <<r.method>> /\ tokens[2] = <<r.uri>>
  BY HttpLinesParts, HttpTokens
<1>2. ~\E k \in 1 .. Len(unparsed) : Len(split(unparsed[k], Colon)) < 2
  <2> SUFFICES ASSUME NEW k \in 1 .. Len(unparsed)
               PROVE  ~(Len(split(unparsed[k], Colon)) < 2)
    OBVIOUS
  <2>1. unparsed = FieldLines(r)
    BY HttpLinesParts
  <2>2. Len(FieldLines(r)) = Len(r.fields)
    BY RequestText
  <2> HIDE DEF unparsed
  <2>3. k \in 1 .. Len(r.fields)
    BY <2>1, <2>2
  <2>4. r.fields[k] \in Fields
    BY <2>3, HttpRequestIs, ElementOfSeq
  <2>5. unparsed[k] = FieldLine(r, r.fields[k])
    BY <2>1, <2>3, RequestText
  <2>6. PICK f \in Fields : f = r.fields[k]
    BY <2>4
  <2>7. Len(split(FieldLine(r, f), Colon)) >= 2 /\ split(FieldLine(r, f), Colon) \in Seq(Seq(Chars))
    <3>1. Len(split(FieldLine(r, f), Colon)) >= 2
      BY FieldIs DEF ReadsField
    <3>2. FieldLine(r, f) \in Seq(Chars)
      BY FieldLineIs DEF Lines
    <3>3. Cut(FieldLine(r, f), Colon) \in Seq(Seq(Chars))
      <4>1. Colon \in Seq(Chars) /\ Len(Colon) >= 1
        BY Delimiters, Blanks
      <4> QED
        BY <3>2, <4>1, CutType
    <3>4. split(FieldLine(r, f), Colon) \in {<<>>, Cut(FieldLine(r, f), Colon)}
      BY SplitCuts
    <3> QED
      BY <3>1, <3>3, <3>4
  <2> QED
    BY <2>5, <2>6, <2>7
<1>3. HttpRequestText(r) = HttpRequestText(r) /\ lines = split(HttpRequestText(r), CRLF)
  BY DEF HttpLines
<1>4. header_fields_(unparsed) = H
  BY DEF Headers
<1>5. HttpParser(HttpRequestText(r))
        = IF tokens = <<>> THEN Fault
          ELSE IF tokens[1] \notin {<<m>> : m \in kMethodMap} THEN Invalid
          ELSE IF Len(tokens) < 2 \/ \E k \in 1 .. Len(unparsed) : Len(split(unparsed[k], Colon)) < 2
          THEN Fault
          ELSE [outcome |-> "valid", method |-> tokens[1], uri |-> tokens[2],
                size |-> resource_size(H),
                expect |-> valueOf(H, "expect") = {<<"100-continue">>},
                auth |-> getAuthInfo(H)]
  BY <1>4 DEF HttpParser, HttpLines
<1>6. <<r.method>> \notin {<<m>> : m \in kMethodMap} <=> r.method \notin {"GET", "PUT", "DELETE"}
  BY DEF kMethodMap
<1> HIDE DEF tokens, unparsed, H
<1>7. CASE r.method \notin {"GET", "PUT", "DELETE"}
  BY <1>1, <1>5, <1>6, <1>7 DEF HttpMeaning
<1>8. CASE r.method \in {"GET", "PUT", "DELETE"}
  <2>1. ~(Len(tokens) < 2)
    BY <1>1
  <2>2. (valueOf(H, "expect") = {<<"100-continue">>}) = Contains(r.fields, "Expect")
    <3>1. Contains(r.fields, "Expect") \in BOOLEAN
      BY DEF Contains
    <3> QED
      BY <3>1, HttpHeaders DEF H
  <2>3. HttpParser(HttpRequestText(r))
          = [outcome |-> "valid", method |-> <<r.method>>, uri |-> <<r.uri>>, size |-> r.size,
             expect |-> Contains(r.fields, "Expect"),
             auth |-> IF Contains(r.fields, "Authorization")
                      THEN {[username |-> r.username, password |-> r.password]} ELSE {}]
    <3>1. resource_size(H) = r.size
      BY HttpHeaders DEF H
    <3>2. getAuthInfo(H) = IF Contains(r.fields, "Authorization")
                           THEN {[username |-> r.username, password |-> r.password]} ELSE {}
      BY HttpHeaders DEF H
    <3>3. HttpParser(HttpRequestText(r))
            = [outcome |-> "valid", method |-> tokens[1], uri |-> tokens[2],
               size |-> resource_size(H),
               expect |-> valueOf(H, "expect") = {<<"100-continue">>},
               auth |-> getAuthInfo(H)]
      BY <1>1, <1>2, <1>5, <1>6, <1>8, <2>1
    <3> QED
      BY <1>1, <2>2, <3>1, <3>2, <3>3
  <2> QED
    BY <1>8, <2>3 DEF HttpMeaning
<1> QED
  BY <1>7, <1>8

-----------------------------------------------------------------------------
(* A command of FTP: the arguments, each with the blank before it. *)
FtpChars == LineChars \ HttpWords

ArgumentChars == FtpChars \ {Sp}

LEMMA FtpCharsAre ==
  /\ \A c \in ArgumentChars : c \in FtpChars /\ c # Sp
  /\ \A c \in FtpChars : c \in LineChars /\ c \in Chars /\ c # "\r" /\ c \notin HttpWords
  /\ Sp \in FtpChars
<1>1. Sp \in FtpChars
  BY Blanks DEF FtpChars
<1>2. \A c \in FtpChars : c \in LineChars /\ c \in Chars /\ c # "\r" /\ c \notin HttpWords
  BY WordsAreWords DEF FtpChars, LineChars
<1> QED
  BY <1>1, <1>2 DEF ArgumentChars

Spaced(arguments) == [k \in 1 .. Len(arguments) |-> Blank \o arguments[k]]

LEMMA SpacedType ==
  ASSUME NEW C, Sp \in C, NEW args \in Seq(Seq(C))
  PROVE  /\ Spaced(args) \in Seq(Seq(C)) /\ Len(Spaced(args)) = Len(args)
         /\ FlattenSeq(Spaced(args)) \in Seq(C)
<1>0. Blank \in Seq(C)
  BY Blanks
<1>1. ASSUME NEW k \in 1 .. Len(args) PROVE Blank \o args[k] \in Seq(C)
  <2>1. PICK a \in Seq(C) : a = args[k]
    BY ElementOfSeq
  <2>2. Blank \o a \in Seq(C)
    BY <1>0, Joint
  <2> QED
    BY <2>1, <2>2
<1>2. Spaced(args) \in Seq(Seq(C)) /\ Len(Spaced(args)) = Len(args)
  <2> DEFINE f == [k \in 1 .. Len(args) |-> Blank \o args[k]]
             T == Seq(C)
  <2>1. Len(args) \in Nat /\ \A k \in 1 .. Len(args) : f[k] \in T
    BY <1>1
  <2>2. f = [k \in 1 .. Len(args) |-> f[k]]
    OBVIOUS
  <2> HIDE DEF f, T
  <2>3. f \in Seq(T) /\ Len(f) = Len(args)
    BY <2>1, <2>2
  <2> QED
    BY <2>3 DEF Spaced, f, T
<1> QED
  BY <1>2, FlattenType

LEMMA SpacedCons ==
  ASSUME NEW args \in Seq(Seq(FtpChars)), NEW a \in Seq(FtpChars)
  PROVE  FlattenSeq(Spaced(<<a>> \o args)) = (Blank \o a) \o FlattenSeq(Spaced(args))
<1> DEFINE all == <<a>> \o args
           e == Spaced(args)
           first == Blank \o a
<1>0. Blank \in Seq(FtpChars)
  BY FtpCharsAre, Blanks
<1>1. first \in Seq(FtpChars)
  BY <1>0, ConcatProperties
<1>2. e \in Seq(Seq(FtpChars)) /\ Len(e) = Len(args) /\ \A k \in 1 .. Len(args) : e[k] = Blank \o args[k]
  BY FtpCharsAre, SpacedType DEF Spaced
<1>3. all \in Seq(Seq(FtpChars)) /\ Len(all) = Len(args) + 1 /\ all[1] = a
        /\ \A k \in 1 .. Len(all) : k # 1 => k - 1 \in 1 .. Len(args) /\ all[k] = args[k - 1]
  OBVIOUS
<1> HIDE DEF all
<1>4. Spaced(all) \in Seq(Seq(FtpChars)) /\ Len(Spaced(all)) = Len(all)
        /\ \A k \in 1 .. Len(all) : Spaced(all)[k] = Blank \o all[k]
  BY <1>3, FtpCharsAre, SpacedType DEF Spaced
<1> HIDE DEF e, first
<1>5. <<first>> \o e \in Seq(Seq(FtpChars)) /\ Len(<<first>> \o e) = Len(all)
        /\ (<<first>> \o e)[1] = first
        /\ \A k \in 1 .. Len(all) : k # 1 => (<<first>> \o e)[k] = e[k - 1]
  <2> DEFINE fe == <<first>> \o e
  <2>1. first \in Seq(FtpChars) /\ e \in Seq(Seq(FtpChars))
    BY <1>1, <1>2
  <2>2. fe \in Seq(Seq(FtpChars)) /\ Begins(fe, first, e)
    BY <2>1, PutBefore
  <2> HIDE DEF fe
  <2>3. Len(fe) = Len(all) /\ fe[1] = first
    BY <1>2, <1>3, <2>2 DEF Begins
  <2>4. ASSUME NEW k \in 1 .. Len(all), k # 1 PROVE fe[k] = e[k - 1]
    <3>1. PICK i \in 1 .. Len(e) : k = i + 1 /\ k - 1 = i
      <4>1. k - 1 \in 1 .. Len(e)
        BY <1>2, <1>3, <2>4
      <4> QED
        BY <4>1
    <3> QED
      BY <2>2, <3>1 DEF Begins
  <2> QED
    BY <2>2, <2>3, <2>4 DEF fe
<1>6. ASSUME NEW k \in 1 .. Len(all) PROVE Spaced(all)[k] = (<<first>> \o e)[k]
  BY <1>2, <1>3, <1>4, <1>5 DEF first
<1>7. Spaced(all) = <<first>> \o e
  BY <1>4, <1>5, <1>6, SeqEqual
<1>8. FlattenSeq(<<first>> \o e) = first \o FlattenSeq(e)
  BY <1>1, <1>2, FlattenCons
<1> QED
  BY <1>7, <1>8 DEF e, first, all

(* The blanks cut a command and its arguments apart. *)
Arguments == Seq(ArgumentChars)

LEMMA CutSpaced ==
  ASSUME NEW args \in Seq(Arguments)
  PROVE  \A c \in Arguments : Cut(c \o FlattenSeq(Spaced(args)), Blank) = <<c>> \o args
<1> DEFINE S == {t \in Seq(Arguments) :
                   \A c \in Arguments : Cut(c \o FlattenSeq(Spaced(t)), Blank) = <<c>> \o t}
<1>1. Blank \in Seq(FtpChars) /\ Len(Blank) >= 1 /\ Blank[1] = Sp
  BY FtpCharsAre, Blanks
<1>2. ASSUME NEW c \in Arguments PROVE c \in Seq(FtpChars) /\ Free(c, Blank[1])
  <2>1. c \in Seq(ArgumentChars)
    BY DEF Arguments
  <2>2. c \in Seq(FtpChars)
    BY <2>1, FtpCharsAre
  <2>3. Sp \notin ArgumentChars
    BY FtpCharsAre
  <2> QED
    BY <1>1, <2>1, <2>2, <2>3, FreeOf
<1>3. <<>> \in S
  <2>1. <<>> \in Seq(Arguments) /\ Spaced(<<>>) = <<>>
    BY DEF Spaced
  <2>2. ASSUME NEW c \in Arguments PROVE Cut(c \o FlattenSeq(Spaced(<<>>)), Blank) = <<c>> \o <<>>
    <3>1. c \in Seq(FtpChars) /\ c \o <<>> = c
      BY <1>2
    <3>2. Cut(c, Blank) = <<c>>
      BY <1>1, <1>2, CutLast
    <3>3. <<c>> \o <<>> = <<c>>
      <4> DEFINE h == <<c>>
      <4>1. h \in Seq(Seq(FtpChars))
        BY <3>1
      <4> HIDE DEF h
      <4>2. h \o <<>> = h
        BY <4>1
      <4> QED
        BY <4>2 DEF h
    <3> QED
      BY <2>1, <3>1, <3>2, <3>3, FlattenEmpty
  <2> QED
    BY <2>1, <2>2
<1>4. ASSUME NEW t \in S, NEW a \in Arguments PROVE <<a>> \o t \in S
  <2>0. t \in Seq(Arguments) /\ \A c \in Arguments : Cut(c \o FlattenSeq(Spaced(t)), Blank) = <<c>> \o t
    OBVIOUS
  <2> HIDE DEF S
  <2>1. Arguments \subseteq Seq(FtpChars)
    BY <1>2
  <2>2. PICK u \in Seq(Seq(FtpChars)) : u = t
    <3>1. t \in Seq(Seq(FtpChars))
      BY <2>0, <2>1, SeqMonotonic
    <3> QED
      BY <3>1
  <2>3. PICK j \in Seq(FtpChars) : j = FlattenSeq(Spaced(t))
    BY <2>2, FtpCharsAre, SpacedType
  <2>4. a \in Seq(FtpChars) /\ Free(a, Blank[1])
    BY <1>2
  <2>5. FlattenSeq(Spaced(<<a>> \o u)) = (Blank \o a) \o j
    BY <2>2, <2>3, <2>4, SpacedCons
  <2>6. Cut(a \o j, Blank) = <<a>> \o u
    BY <2>0, <2>2, <2>3
  <2> DEFINE aj == a \o j
  <2>7. aj \in Seq(FtpChars)
    BY <2>4, Joint
  <2>8. (Blank \o a) \o j = Blank \o aj
    <3>1. Associates(Blank, a, j)
      BY <1>1, <2>4, Association
    <3> QED
      BY <3>1 DEF Associates
  <2> HIDE DEF aj
  <2>9. ASSUME NEW c \in Arguments
        PROVE  Cut(c \o FlattenSeq(Spaced(<<a>> \o u)), Blank) = <<c>> \o (<<a>> \o u)
    <3>1. c \in Seq(FtpChars) /\ Free(c, Blank[1])
      BY <1>2
    <3>2. Cut(c \o (Blank \o aj), Blank) = <<c>> \o Cut(aj, Blank)
      <4>1. Blank \in Seq(FtpChars) /\ Len(Blank) >= 1
        BY <1>1
      <4>2. CutsFirst(c, aj, Blank)
        BY <2>7, <3>1, <4>1, CutAtFirst
      <4> QED
        BY <4>2 DEF CutsFirst
    <3> QED
      BY <2>5, <2>6, <2>8, <3>2 DEF aj
  <2>10. <<a>> \o t \in Seq(Arguments)
    BY <2>0
  <2> QED
    BY <2>2, <2>9, <2>10 DEF S
<1>5. S = Seq(Arguments)
  <2>1. S \in SUBSET Seq(Arguments)
    OBVIOUS
  <2> HIDE DEF S
  <2> QED
    BY <1>3, <1>4, <2>1, ConsInduction
<1> QED
  BY <1>5

(* A command that the code promises to understand: see Exceptional. *)
FtpPlain(r) ==
  /\ r.command # <<>>
  /\ \A k \in 1 .. Len(r.arguments) : ~Names(r.arguments[k]) /\ Free(r.arguments[k], Sp)

FtpBody(r) == r.command \o FlattenSeq(Spaced(r.arguments))

LEMMA FtpRequestIs ==
  ASSUME NEW r \in FtpRequests, FtpPlain(r)
  PROVE  /\ r.command \in Arguments /\ toUpperCase(r.command) = <<r.name>>
         /\ r.arguments \in Seq(Arguments)
         /\ FtpBody(r) \in Seq(FtpChars) /\ Len(FtpBody(r)) >= 1
         /\ FtpRequestText(r) = FtpBody(r) \o CRLF
<1>1. /\ r.command \in Seq(Words \ HttpWords) /\ toUpperCase(r.command) = <<r.name>>
      /\ r.arguments \in Seq(Seq(STRING \ {"\r", "\n"}))
  BY RequestsAssumption DEF FtpPlain
<1>2. r.command \in Seq(ArgumentChars)
  <2>1. \A c \in Words \ HttpWords : c \in ArgumentChars
    BY WordsAreWords DEF WordChars, LineChars, ArgumentChars, FtpChars
  <2> QED
    BY <1>1, <2>1
<1>3. r.arguments \in Seq(Arguments)
  <2>1. ASSUME NEW k \in 1 .. Len(r.arguments) PROVE r.arguments[k] \in Arguments
    <3>1. PICK a \in Seq(STRING \ {"\r", "\n"}) : a = r.arguments[k]
      BY <1>1, ElementOfSeq
    <3>2. ~Names(a) /\ Free(a, Sp)
      BY <3>1 DEF FtpPlain
    <3>3. \A i \in 1 .. Len(a) : a[i] \in ArgumentChars
      <4> TAKE i \in 1 .. Len(a)
      <4>1. a[i] \in STRING \ {"\r", "\n"}
        BY <3>1
      <4>2. a[i] \notin HttpWords /\ a[i] # Sp
        BY <3>2 DEF Free, Names
      <4> QED
        BY <4>1, <4>2 DEF ArgumentChars, FtpChars, LineChars, Chars
    <3>4. a \in Seq(ArgumentChars)
      BY <3>3
    <3> QED
      BY <3>1, <3>4 DEF Arguments
  <2> DEFINE args == r.arguments
  <2>2. args \in Seq(Seq(STRING \ {"\r", "\n"})) /\ \A k \in 1 .. Len(args) : args[k] \in Arguments
    BY <1>1, <2>1
  <2> HIDE DEF args
  <2>4. args = [k \in 1 .. Len(args) |-> args[k]] /\ Len(args) \in Nat
    BY <2>2
  <2>3. args \in Seq(Arguments)
    BY <2>2, <2>4
  <2> QED
    BY <2>3 DEF args
<1>4. r.command \in Seq(FtpChars) /\ Len(r.command) >= 1
  <2>1. r.command \in Seq(FtpChars)
    BY <1>2, FtpCharsAre
  <2>2. r.command # <<>>
    BY DEF FtpPlain
  <2> QED
    BY <2>1, <2>2, EmptySeq
<1>5. FlattenSeq(Spaced(r.arguments)) \in Seq(FtpChars)
  <2>1. Arguments \subseteq Seq(FtpChars)
    BY FtpCharsAre DEF Arguments
  <2>2. r.arguments \in Seq(Seq(FtpChars))
    BY <1>3, <2>1, SeqMonotonic
  <2> QED
    BY <2>2, FtpCharsAre, SpacedType
<1>6. FtpBody(r) \in Seq(FtpChars) /\ Len(FtpBody(r)) >= 1
  <2> DEFINE c == r.command
             f == FlattenSeq(Spaced(r.arguments))
  <2>1. c \in Seq(FtpChars) /\ f \in Seq(FtpChars)
    BY <1>4, <1>5
  <2> HIDE DEF c, f
  <2>2. c \o f \in Seq(FtpChars) /\ Len(c \o f) = Len(c) + Len(f)
    BY <2>1, Joint
  <2>3. Len(c) >= 1 /\ Len(f) \in Nat
    BY <1>4, <2>1 DEF c
  <2>4. Len(c \o f) >= 1
    BY <2>2, <2>3
  <2> QED
    BY <2>2, <2>4 DEF FtpBody, c, f
<1>7. FtpRequestText(r) = FtpBody(r) \o CRLF
  BY DEF FtpRequestText, FtpBody, Spaced
<1> QED
  BY <1>1, <1>2, <1>3, <1>6, <1>7 DEF Arguments

(* FtpParser makes of the text of a command what its client means: the     *)
(* command in upper case, and every argument.                              *)
THEOREM FtpParses ==
  ASSUME NEW r \in FtpRequests, FtpPlain(r)
  PROVE  FtpParser(FtpRequestText(r)) = FtpMeaning(r)
<1> DEFINE b == FtpBody(r)
           text == FtpRequestText(r)
           T == Seq(FtpChars)
           h == <<r.command>>
           args == r.arguments
<1>1. b \in Seq(FtpChars) /\ Len(b) >= 1 /\ text = b \o CRLF
  BY FtpRequestIs
<1>2. b \in Seq(Chars)
  BY <1>1, FtpCharsAre
<1> HIDE DEF b, text
<1>3. SubSeq(text, 1, Len(text) - 2) = b
  <2>1. CRLF \in Seq(Chars) /\ Len(CRLF) = 2
    BY Terminators
  <2>2. Len(b \o CRLF) = Len(b) + 2
    BY <1>2, LineBreak
  <2>3. SubSeq(b \o CRLF, 1, Len(b)) = b
    BY <1>2, <2>1, ReadsFirst
  <2>4. Len(b) + 2 - 2 = Len(b)
    BY <1>2
  <2> QED
    BY <1>1, <2>2, <2>3, <2>4
<1>4. split(b, Blank) = <<r.command>> \o r.arguments
  <2>1. b # <<>>
    BY <1>1
  <2>2. Cut(r.command \o FlattenSeq(Spaced(r.arguments)), Blank) = <<r.command>> \o r.arguments
    BY FtpRequestIs, CutSpaced
  <2> QED
    BY <2>1, <2>2, SplitCuts DEF b, FtpBody
<1>5. r.command \in T /\ r.arguments \in Seq(T)
  <2>1. Arguments \subseteq T
    BY FtpCharsAre DEF Arguments
  <2>2. r.command \in Arguments /\ r.arguments \in Seq(Arguments)
    BY FtpRequestIs
  <2> HIDE DEF T
  <2> QED
    BY <2>1, <2>2, SeqMonotonic
<1>6. h \in Seq(T) /\ Len(h) = 1 /\ h[1] = r.command /\ args \in Seq(T)
  BY <1>5
<1> HIDE DEF h, T, args
<1> DEFINE w == h \o args
<1>7. w \in Seq(T) /\ Len(w) = Len(h) + Len(args)
  BY <1>6, Joint
<1>8. w[1] = h[1]
  <2>1. 1 \in 1 .. Len(h)
    BY <1>6
  <2>2. h \in Seq(T) /\ args \in Seq(T)
    BY <1>6
  <2> QED
    BY <2>1, <2>2, Joint
<1>9. SubSeq(w, Len(h) + 1, Len(w)) = args
  BY <1>6, ReadsFirst
<1> HIDE DEF w
<1>10. w # <<>> /\ w[1] = r.command /\ Tail(w) = args
  <2>0. args \in Seq(T) /\ Len(h) = 1
    BY <1>6
  <2>1. Len(w) = Len(args) + 1 /\ Len(args) \in Nat
    BY <1>7, <2>0
  <2>2. w # <<>>
    <3>1. Len(w) # 0
      BY <2>1
    <3> QED
      BY <3>1
  <2>3. Tail(w) = SubSeq(w, 2, Len(w))
    BY <1>7, <2>2, TailIsSubSeq
  <2>4. Len(h) + 1 = 2 /\ w[1] = r.command
    BY <1>6, <1>8
  <2>5. Tail(w) = args
    BY <1>9, <2>3, <2>4
  <2> QED
    BY <2>2, <2>4, <2>5
<1>11. split(SubSeq(text, 1, Len(text) - 2), Blank) = w
  BY <1>3, <1>4 DEF w, h, args
<1>12. toUpperCase(w[1]) = <<r.name>>
  BY <1>10, FtpRequestIs
<1>13. FtpParser(text)
         = IF <<r.name>> \notin {<<c>> : c \in kCommandMap} THEN Invalid
           ELSE [outcome |-> "valid", command |-> <<r.name>>, arguments |-> args]
  BY <1>10, <1>11, <1>12 DEF FtpParser
<1>14. <<r.name>> \notin {<<c>> : c \in kCommandMap} <=> r.name \notin kCommandMap
  OBVIOUS
<1> QED
  BY <1>13, <1>14 DEF FtpMeaning, text, args

-----------------------------------------------------------------------------
(* What the server reads of a stream that begins with a request. *)
Askable == IF protocol = "Http" THEN HttpRequests ELSE FtpRequests

TextOf(r) == IF protocol = "Http" THEN HttpRequestText(r) ELSE FtpRequestText(r)

LEMMA TextType ==
  ASSUME NEW r \in Askable
  PROVE  TextOf(r) \in Seq(Chars)
<1>1. CASE protocol = "Http"
  BY <1>1, RequestText DEF TextOf, Askable
<1>2. CASE protocol # "Http"
  <2> DEFINE c == r.command
             f == FlattenSeq(Spaced(r.arguments))
             b == c \o f
  <2>1. /\ r.command \in Seq(Words \ HttpWords)
        /\ r.arguments \in Seq(Seq(STRING \ {"\r", "\n"}))
    BY <1>2, RequestsAssumption DEF Askable
  <2>2. c \in Seq(Chars)
    <3>1. Words \ HttpWords \subseteq Chars
      BY WordsAreWords
    <3> QED
      BY <2>1, <3>1
  <2>3. f \in Seq(Chars)
    <3>1. STRING \ {"\r", "\n"} \subseteq Chars
      BY DEF Chars
    <3>2. Seq(STRING \ {"\r", "\n"}) \subseteq Seq(Chars)
      BY <3>1, SeqMonotonic
    <3>3. r.arguments \in Seq(Seq(Chars))
      BY <2>1, <3>2, SeqMonotonic
    <3>4. Sp \in Chars
      BY Blanks, WordsAreWords
    <3> QED
      BY <3>3, <3>4, SpacedType
  <2> HIDE DEF c, f
  <2>4. b \in Seq(Chars)
    BY <2>2, <2>3, Joint
  <2> HIDE DEF b
  <2>5. b \o CRLF \in Seq(Chars)
    BY <2>4, LineBreak
  <2> QED
    BY <1>2, <2>5 DEF TextOf, FtpRequestText, Spaced, b, c, f
<1> QED
  BY <1>1, <1>2

(* receiveMessage and handleHttp read exactly the request, the protocol    *)
(* detector sends it to the right parser, and that understands it.         *)
Reads(r, rest) ==
  /\ EndOfLine <= Len(wire) /\ EndOfRequest <= Len(wire)
  /\ SubSeq(wire, 1, EndOfRequest) = TextOf(r)
  /\ SubSeq(wire, EndOfRequest + 1, Len(wire)) = rest
  /\ (IF IsFtp THEN FtpParser(TextOf(r)) ELSE HttpParser(TextOf(r))) = Meaning(r)

LEMMA Framing ==
  ASSUME protocol \in {"Http", "Ftp"}, NEW r \in Askable, ~Exceptional(r),
         NEW rest \in Seq(Chars), wire = TextOf(r) \o rest
  PROVE  Reads(r, rest)
<1> DEFINE text == TextOf(r)
<1>1. text \in Seq(Chars)
  BY TextType
<1> HIDE DEF text
<1>2. wire \in Seq(Chars) /\ Len(wire) = Len(text) + Len(rest)
  BY <1>1, Joint DEF text
<1>3. SubSeq(wire, 1, Len(text)) = text /\ SubSeq(wire, Len(text) + 1, Len(wire)) = rest
  BY <1>1, ReadsFirst DEF text
<1>4. Len(text) \in Nat /\ Len(rest) \in Nat
  BY <1>1
<1>5. CASE protocol = "Http"
  <2>1. r \in HttpRequests /\ text = HttpRequestText(r)
    BY <1>5 DEF Askable, TextOf, text
  <2>2. HttpPlain(r)
    <3>1. r.fields # <<>> /\ ~Contains(r.username \o r.password, 58) /\ ~(r.size >= 2^(IntBits - 1))
      BY <1>5 DEF Exceptional
    <3>2. r.size < 2^(IntBits - 1)
      <4>1. PICK p \in Nat : p = 2^(IntBits - 1)
        <5>1. IntBits - 1 \in Nat
          BY WidthAssumption
        <5> QED
          BY <5>1, Powers
      <4> QED
        BY <2>1, <3>1, <4>1, HttpRequestIs
    <3>3. Free(r.username, 58) /\ Free(r.password, 58)
      <4> DEFINE u == r.username
                 p == r.password
                 up == u \o p
      <4>1. u \in Seq(0 .. 255) /\ p \in Seq(0 .. 255)
        BY <2>1, HttpRequestIs
      <4>2. ~\E k \in 1 .. Len(up) : up[k] = 58
        BY <3>1 DEF Contains
      <4> HIDE DEF u, p
      <4>3. Len(up) = Len(u) + Len(p) /\ \A i \in 1 .. Len(u) : up[i] = u[i]
        BY <4>1, Joint
      <4>4. \A i \in 1 .. Len(p) : up[Len(u) + i] = p[i]
        BY <4>1, Joint
      <4> HIDE DEF up
      <4>5. Free(u, 58)
        BY <4>1, <4>2, <4>3 DEF Free
      <4>6. Free(p, 58)
        <5> SUFFICES ASSUME NEW i \in 1 .. Len(p) PROVE p[i] # 58
          BY DEF Free
        <5>1. Len(u) + i \in 1 .. Len(up)
          BY <4>1, <4>3
        <5> QED
          BY <4>2, <4>4, <5>1
      <4> QED
        BY <4>5, <4>6 DEF u, p
    <3> QED
      BY <3>1, <3>2, <3>3 DEF HttpPlain
  <2>3. HttpFramed(r, wire, rest)
    BY <2>1, <2>2, HttpFraming DEF HttpPlain, text
  <2>4. EndOfLine = 8
    BY <2>3 DEF HttpFramed, EndOfLine
  <2>5. ~IsFtp
    BY <2>3, <2>4 DEF HttpFramed, IsFtp
  <2>6. EndOfRequest = Len(text)
    <3>1. find(wire, EndOfHeader, 9) = Len(text) - 3
      BY <2>1, <2>3 DEF HttpFramed
    <3>2. EndOfRequest = find(wire, EndOfHeader, 9) + 3
      BY <2>4, <2>5 DEF EndOfRequest
    <3> QED
      BY <1>4, <3>1, <3>2
  <2>7. Len(text) >= 8
    <3>1. CRLF \in Seq(Chars) /\ Len(CRLF) = 2
      BY Terminators
    <3> DEFINE j == Joined(FieldLines(r))
               l == RequestLine(r)
               jc == j \o CRLF
               cjc == CRLF \o jc
    <3>2. j \in Seq(Chars) /\ l \in Seq(Chars) /\ Len(l) = 6 /\ text = l \o cjc
      BY <2>1, RequestText
    <3> HIDE DEF j, l
    <3>3. jc \in Seq(Chars)
      BY <3>2, LineBreak
    <3> HIDE DEF jc
    <3>4. cjc \in Seq(Chars) /\ Len(cjc) = Len(jc) + 2
      BY <3>3, LineBreak
    <3> HIDE DEF cjc
    <3>5. Len(l \o cjc) = Len(l) + Len(cjc)
      BY <3>2, <3>4, Joint
    <3>6. Len(jc) \in Nat
      BY <3>3
    <3> QED
      BY <3>2, <3>4, <3>5, <3>6
  <2>8. HttpParser(text) = Meaning(r)
    BY <1>5, <2>1, <2>2, HttpParses DEF Meaning
  <2>9. EndOfLine <= Len(wire) /\ EndOfRequest <= Len(wire)
    BY <1>2, <1>4, <2>4, <2>6, <2>7
  <2> QED
    BY <1>3, <2>5, <2>6, <2>8, <2>9 DEF Reads, text
<1>6. CASE protocol = "Ftp"
  <2> DEFINE b == FtpBody(r)
             y == CRLF \o rest
  <2>1. r \in FtpRequests /\ text = FtpRequestText(r)
    BY <1>6 DEF Askable, TextOf, text
  <2>2. FtpPlain(r)
    BY <1>6 DEF Exceptional, FtpPlain, Contains, Free
  <2>3. b \in Seq(FtpChars) /\ Len(b) >= 1 /\ text = b \o CRLF
    BY <2>1, <2>2, FtpRequestIs
  <2> HIDE DEF b
  <2>4. b \in Seq(Chars) /\ Free(b, "\r") /\ ~Names(b)
    <3>1. "\r" \notin FtpChars
      BY FtpCharsAre
    <3>2. b \in Seq(Chars)
      BY <2>3, FtpCharsAre
    <3>3. Free(b, "\r")
      BY <2>3, <3>1, FreeOf
    <3>4. ~Names(b)
      <4>1. \A k \in 1 .. Len(b) : b[k] \in FtpChars
        BY <2>3, ElementOfSeq
      <4> QED
        BY <4>1, FtpCharsAre DEF Names
    <3> QED
      BY <3>2, <3>3, <3>4
  <2>5. ~Names(b)
    BY <2>4
  <2>6. wire = b \o (CRLF \o rest)
    <3>1. CRLF \in Seq(Chars)
      BY Terminators
    <3>2. Associates(b, CRLF, rest)
      BY <2>4, <3>1, Association
    <3> QED
      BY <2>3, <3>2 DEF Associates, text
  <2>7. FirstLine(b, rest)
    BY <2>4, FirstLineIs
  <2>8. EndOfLine = Len(b) + 2
    BY <2>4, <2>6, <2>7 DEF FirstLine, EndOfLine
  <2>9. IsFtp
    BY <2>5, <2>6, <2>7, <2>8 DEF FirstLine, IsFtp
  <2>10. Len(text) = Len(b) + 2
    BY <2>3, <2>4, LineBreak
  <2>11. EndOfRequest = Len(text)
    BY <2>8, <2>9, <2>10 DEF EndOfRequest
  <2>12. FtpParser(text) = Meaning(r)
    BY <1>6, <2>1, <2>2, FtpParses DEF Meaning
  <2>13. EndOfLine <= Len(wire) /\ EndOfRequest <= Len(wire)
    BY <1>2, <1>4, <2>8, <2>10, <2>11
  <2> QED
    BY <1>3, <2>9, <2>11, <2>12, <2>13 DEF Reads, text
<1> QED
  BY <1>5, <1>6

(* The inductive invariant of the requests.  As long as nothing that has   *)
(* been read was exceptional, the server is behind the client by a whole   *)
(* number of requests, and their texts are what is on the wire.            *)
PendingFrom(i) == [k \in 1 .. Len(asked) - i |-> TextOf(asked[i + k])]

UpTo(k) == IF k > Len(asked) THEN Len(asked) ELSE k

Items(u) == {u[k] : k \in 1 .. Len(u)}

RequestsTypes ==
  /\ protocol \in {"Http", "Ftp"}
  /\ asked \in Seq(Askable)
  /\ wire \in Seq(Chars)
  /\ understood \in Seq(Items(understood))

WireIsPending ==
  Plain(UpTo(Len(understood)))
    => Len(understood) <= Len(asked) /\ wire = FlattenSeq(PendingFrom(Len(understood)))

RequestsInv == RequestsTypes /\ RequestsArrive /\ WireIsPending

LEMMA PendingType ==
  ASSUME asked \in Seq(Askable), NEW i \in 0 .. Len(asked)
  PROVE  /\ PendingFrom(i) \in Seq(Seq(Chars)) /\ Len(PendingFrom(i)) = Len(asked) - i
         /\ FlattenSeq(PendingFrom(i)) \in Seq(Chars)
<1> DEFINE f == PendingFrom(i)
           T == Seq(Chars)
<1>1. PICK n \in Nat : n = Len(asked) - i
  OBVIOUS
<1>2. ASSUME NEW k \in 1 .. n PROVE f[k] \in T
  <2>1. i + k \in 1 .. Len(asked)
    BY <1>1
  <2>2. asked[i + k] \in Askable
    BY <2>1, ElementOfSeq
  <2>3. TextOf(asked[i + k]) \in T
    BY <2>2, TextType
  <2> QED
    BY <1>1, <2>3 DEF PendingFrom
<1>3. f = [k \in 1 .. n |-> f[k]]
  BY <1>1 DEF PendingFrom
<1> HIDE DEF f, T
<1>4. f \in Seq(T) /\ Len(f) = n
  BY <1>2, <1>3
<1> QED
  BY <1>1, <1>4, FlattenType DEF f, T

(* The next request is at the beginning of what is pending. *)
LEMMA PendingHead ==
  ASSUME asked \in Seq(Askable), NEW i \in 0 .. Len(asked), i # Len(asked)
  PROVE  FlattenSeq(PendingFrom(i)) = TextOf(asked[i + 1]) \o FlattenSeq(PendingFrom(i + 1))
<1> DEFINE T == Seq(Chars)
           f == PendingFrom(i)
           g == PendingFrom(i + 1)
           e == TextOf(asked[i + 1])
           eg == <<e>> \o g
<1>1. PICK n \in Nat : n = Len(asked) - i /\ n >= 1 /\ Len(asked) - (i + 1) = n - 1
  OBVIOUS
<1>2. f \in Seq(T) /\ Len(f) = n
  BY <1>1, PendingType
<1>3. g \in Seq(T) /\ Len(g) = n - 1
  <2>1. i + 1 \in 0 .. Len(asked)
    OBVIOUS
  <2> QED
    BY <1>1, <2>1, PendingType
<1>4. e \in T
  <2>1. i + 1 \in 1 .. Len(asked)
    OBVIOUS
  <2>2. asked[i + 1] \in Askable
    BY <2>1, ElementOfSeq
  <2> QED
    BY <2>2, TextType
<1>5. f[1] = e
  <2>1. 1 \in 1 .. Len(asked) - i
    BY <1>1
  <2> QED
    BY <2>1 DEF PendingFrom
<1>6. ASSUME NEW k \in 1 .. (n - 1) PROVE f[k + 1] = g[k]
  <2>1. k + 1 \in 1 .. Len(asked) - i /\ k \in 1 .. Len(asked) - (i + 1) /\ i + (k + 1) = (i + 1) + k
    BY <1>1
  <2> QED
    BY <2>1 DEF PendingFrom
<1> HIDE DEF f, g, e, T
<1>7. eg \in Seq(T) /\ Begins(eg, e, g)
  BY <1>3, <1>4, PutBefore
<1> HIDE DEF eg
<1>8. Len(eg) = n /\ eg[1] = e
  BY <1>1, <1>3, <1>7 DEF Begins
<1>9. ASSUME NEW k \in 1 .. n PROVE f[k] = eg[k]
  <2>1. CASE k = 1
    BY <1>5, <1>8, <2>1
  <2>2. CASE k # 1
    <3>1. PICK j \in 1 .. (n - 1) : k = j + 1
      <4>1. k - 1 \in 1 .. (n - 1) /\ k = (k - 1) + 1
        BY <2>2
      <4> QED
        BY <4>1
    <3>2. eg[j + 1] = g[j]
      BY <1>3, <1>7, <3>1 DEF Begins
    <3> QED
      BY <1>6, <3>1, <3>2
  <2> QED
    BY <2>1, <2>2
<1>10. f = eg
  BY <1>2, <1>7, <1>8, <1>9, SeqEqual
<1>11. FlattenSeq(<<e>> \o g) = e \o FlattenSeq(g)
  BY <1>3, <1>4, FlattenCons DEF T
<1> QED
  BY <1>10, <1>11 DEF eg, f, g, e

LEMMA RequestsInit == Init => RequestsInv
<1> SUFFICES ASSUME Init PROVE RequestsInv
  OBVIOUS
<1>1. protocol \in {"Http", "Ftp"} /\ asked = <<>> /\ wire = <<>> /\ understood = <<>>
  BY DEF Init
<1>2. Len(asked) = 0 /\ Len(understood) = 0
  BY <1>1
<1>3. RequestsTypes
  BY <1>1 DEF RequestsTypes
<1>4. RequestsArrive
  BY <1>2 DEF RequestsArrive
<1>5. PendingFrom(0) = <<>>
  BY <1>2 DEF PendingFrom
<1>6. WireIsPending
  BY <1>1, <1>2, <1>5, FlattenEmpty DEF WireIsPending
<1> QED
  BY <1>3, <1>4, <1>6 DEF RequestsInv

(* What a request means does not change while the client has its protocol. *)
LEMMA SameProtocol ==
  ASSUME protocol' = protocol
  PROVE  /\ Askable' = Askable
         /\ \A r : (Exceptional(r)' <=> Exceptional(r)) /\ Meaning(r)' = Meaning(r) /\ TextOf(r)' = TextOf(r)
BY DEF Askable, Exceptional, Meaning, TextOf

LEMMA RequestsAsks ==
  ASSUME RequestsInv, NEW r \in Askable, Asks(r)
  PROVE  RequestsInv'
<1>1. PICK n \in Nat : n = Len(asked)
  BY DEF RequestsInv, RequestsTypes
<1>2. PICK m \in Nat : m = Len(understood)
  BY DEF RequestsInv, RequestsTypes
<1>3. asked \in Seq(Askable) /\ wire \in Seq(Chars) /\ protocol \in {"Http", "Ftp"}
  BY DEF RequestsInv, RequestsTypes
<1>4. protocol' = protocol /\ understood' = understood
  BY DEF Asks
<1>5. asked' = Append(asked, r) /\ wire' = wire \o TextOf(r)
  BY DEF Asks, TextOf
<1>6. /\ asked' \in Seq(Askable) /\ Len(asked') = n + 1 /\ asked'[n + 1] = r
      /\ \A k \in 1 .. n : asked'[k] = asked[k]
  BY <1>1, <1>3, <1>5, AppendProperties
<1>7. \A k \in 0 .. n : Plain(k)' <=> Plain(k)
  <2> TAKE k \in 0 .. n
  <2>1. Plain(k)' <=> \A i \in 1 .. k : ~Exceptional(asked'[i])
    BY <1>4, SameProtocol DEF Plain, Exceptional
  <2>2. \A i \in 1 .. k : asked'[i] = asked[i]
    BY <1>6
  <2> QED
    BY <2>1, <2>2 DEF Plain
<1>8. Plain(n + 1)' => Plain(n)
  <2>1. Plain(n + 1)' => Plain(n)'
    BY DEF Plain
  <2> QED
    BY <1>7, <2>1
<1>9. RequestsTypes'
  <2>1. TextOf(r) \in Seq(Chars)
    BY TextType
  <2>2. wire' \in Seq(Chars)
    BY <1>3, <1>5, <2>1, Joint
  <2>3. Askable' = Askable
    BY <1>4, SameProtocol
  <2>4. understood' \in Seq(Items(understood))'
    BY <1>4 DEF RequestsInv, RequestsTypes, Items
  <2> QED
    BY <1>3, <1>4, <1>6, <2>2, <2>3, <2>4 DEF RequestsTypes
<1>10. \A k \in 1 .. m : Plain(IF k > n THEN n ELSE k) => k <= n /\ understood[k] = Meaning(asked[k])
  BY <1>1, <1>2 DEF RequestsInv, RequestsArrive
<1>11. RequestsArrive'
  <2> SUFFICES ASSUME NEW k \in 1 .. m, Plain(IF k > n + 1 THEN n + 1 ELSE k)'
               PROVE  k <= n + 1 /\ understood[k] = Meaning(asked[k])'
    BY <1>2, <1>4, <1>6 DEF RequestsArrive
  <2>1. CASE k <= n
    <3>1. Plain(k)'
      BY <2>1
    <3>2. Plain(k)
      BY <1>7, <2>1, <3>1
    <3>3. k <= n /\ understood[k] = Meaning(asked[k])
      BY <1>10, <2>1, <3>2
    <3>4. asked'[k] = asked[k]
      BY <1>6, <2>1
    <3> QED
      BY <1>4, <3>3, <3>4 DEF Meaning
  <2>2. CASE k > n
    <3>1. Plain(n + 1)'
      <4>1. CASE k > n + 1
        BY <4>1
      <4>2. CASE k = n + 1
        BY <4>2
      <4> QED
        BY <2>2, <4>1, <4>2
    <3>2. Plain(n)
      BY <1>8, <3>1
    <3>3. k <= n
      BY <1>10, <2>2, <3>2
    <3> QED
      BY <2>2, <3>3
  <2> QED
    BY <2>1, <2>2
<1>12. WireIsPending'
  <2> SUFFICES ASSUME Plain(IF m > n + 1 THEN n + 1 ELSE m)'
               PROVE  m <= n + 1 /\ wire' = FlattenSeq(PendingFrom(m)')
    BY <1>2, <1>4, <1>6 DEF WireIsPending, UpTo
  <2>1. Plain(IF m > n THEN n ELSE m)
    <3>1. CASE m <= n
      BY <1>7, <3>1
    <3>2. CASE m > n
      <4>1. Plain(n + 1)'
        <5>1. CASE m > n + 1
          BY <5>1
        <5>2. CASE m = n + 1
          BY <5>2
        <5> QED
          BY <3>2, <5>1, <5>2
      <4> QED
        BY <1>8, <3>2, <4>1
    <3> QED
      BY <3>1, <3>2
  <2>2. m <= n /\ wire = FlattenSeq(PendingFrom(m))
    BY <1>1, <1>2, <2>1 DEF RequestsInv, WireIsPending, UpTo
  <2> DEFINE p == PendingFrom(m)
             q == PendingFrom(m)'
             t == TextOf(r)
  <2>3. p \in Seq(Seq(Chars)) /\ Len(p) = n - m
    <3>1. m \in 0 .. Len(asked)
      BY <1>1, <2>2
    <3> QED
      BY <1>1, <1>3, <3>1, PendingType
  <2>4. t \in Seq(Chars)
    BY TextType
  <2>5. q = [k \in 1 .. (n + 1) - m |-> TextOf(asked'[m + k])]
    BY <1>4, <1>6 DEF PendingFrom, TextOf
  <2>6. p = [k \in 1 .. n - m |-> TextOf(asked[m + k])]
    BY <1>1 DEF PendingFrom
  <2>7. q = Append(p, t)
    <3> DEFINE a == Append(p, t)
    <3>1. a \in Seq(Seq(Chars)) /\ Len(a) = (n - m) + 1 /\ a[(n - m) + 1] = t
          /\ \A k \in 1 .. n - m : a[k] = p[k]
      <4> HIDE DEF p, t
      <4> QED
        BY <2>3, <2>4, AppendProperties
    <3> HIDE DEF a
    <3>2. \A k \in 1 .. (n + 1) - m : q[k] = a[k]
      <4> TAKE k \in 1 .. (n + 1) - m
      <4>1. CASE k \in 1 .. n - m
        <5>1. m + k \in 1 .. n /\ k \in 1 .. (n + 1) - m
          BY <2>2, <4>1
        <5>2. asked'[m + k] = asked[m + k]
          BY <1>6, <5>1
        <5>3. q[k] = TextOf(asked'[m + k])
          <6> HIDE DEF q
          <6> QED
            BY <2>5, <5>1
        <5>4. a[k] = TextOf(asked[m + k])
          <6> HIDE DEF p
          <6> QED
            BY <2>6, <3>1, <4>1
        <5> QED
          BY <5>2, <5>3, <5>4
      <4>2. CASE k = (n - m) + 1
        <5>1. m + k = n + 1
          BY <4>2
        <5> QED
          BY <1>6, <2>5, <3>1, <4>2, <5>1
      <4> QED
        BY <2>2, <4>1, <4>2
    <3> DEFINE i == (n + 1) - m
    <3>3. i \in Nat /\ i = (n - m) + 1
      BY <2>2
    <3>4. q = [k \in 1 .. i |-> q[k]]
      BY <2>5
    <3> HIDE DEF q, i
    <3>5. \A k \in 1 .. i : a[k] \in Seq(Chars)
      BY <3>1, <3>3
    <3>6. \A k \in 1 .. i : q[k] \in Seq(Chars)
      BY <3>2, <3>5 DEF i
    <3>7. q \in Seq(Seq(Chars)) /\ Len(q) = i
      BY <3>3, <3>4, <3>6
    <3>8. \A k \in 1 .. Len(q) : q[k] = a[k]
      BY <3>2, <3>7 DEF i
    <3>9. q = a
      BY <3>1, <3>3, <3>7, <3>8, SeqEqual
    <3> QED
      BY <3>9 DEF a
  <2> HIDE DEF p, q, t
  <2>8. FlattenSeq(Append(p, t)) = FlattenSeq(p) \o t
    BY <2>3, <2>4, FlattenAppend
  <2> QED
    BY <1>5, <2>2, <2>7, <2>8 DEF p, q, t
<1> QED
  BY <1>9, <1>11, <1>12 DEF RequestsInv

(* The reads find what they look for within the stream. *)
LEMMA FindsInWire ==
  ASSUME wire \in Seq(Chars)
  PROVE  /\ EndOfLine \in Nat /\ EndOfLine >= 2
         /\ wire = <<>> => EndOfLine > Len(wire)
         /\ EndOfLine <= Len(wire) => EndOfRequest \in Nat /\ EndOfRequest >= 2
<1>1. CRLF \in Seq(Chars) /\ Len(CRLF) >= 1 /\ EndOfHeader \in Seq(Chars) /\ Len(EndOfHeader) >= 1
  BY Terminators
<1>2. 1 \in 1 .. Len(wire) + 1
  OBVIOUS
<1>3. find(wire, CRLF, 1) \in 1 .. Len(wire) + 1
  BY <1>1, <1>2, FindFinds
<1>4. EndOfLine \in Nat /\ EndOfLine >= 2
  BY <1>3 DEF EndOfLine
<1>5. wire = <<>> => EndOfLine > Len(wire)
  <2>1. wire = <<>> => Len(wire) = 0
    OBVIOUS
  <2> QED
    BY <1>4, <2>1
<1>6. ASSUME EndOfLine <= Len(wire)
      PROVE  EndOfRequest \in Nat /\ EndOfRequest >= 2
  <2>1. EndOfLine + 1 \in 1 .. Len(wire) + 1
    BY <1>4, <1>6
  <2>2. find(wire, EndOfHeader, EndOfLine + 1) \in EndOfLine + 1 .. Len(wire) + 1
    BY <1>1, <2>1, FindFinds
  <2>3. EndOfRequest = EndOfLine \/ EndOfRequest = find(wire, EndOfHeader, EndOfLine + 1) + 3
    BY DEF EndOfRequest
  <2> QED
    BY <1>4, <2>2, <2>3
<1> QED
  BY <1>4, <1>5, <1>6

(* What the invariant says of a stream whose next request is understood. *)
LEMMA ReadsNext ==
  ASSUME RequestsInv, Len(understood) < Len(asked), Plain(Len(understood) + 1)
  PROVE  /\ Reads(asked[Len(understood) + 1], FlattenSeq(PendingFrom(Len(understood) + 1)))
         /\ FlattenSeq(PendingFrom(Len(understood) + 1)) \in Seq(Chars)
<1>1. PICK m \in Nat : m = Len(understood)
  BY DEF RequestsInv, RequestsTypes
<1>2. PICK n \in Nat : n = Len(asked)
  BY DEF RequestsInv, RequestsTypes
<1>3. asked \in Seq(Askable) /\ wire \in Seq(Chars) /\ protocol \in {"Http", "Ftp"} /\ m < n
  BY <1>1, <1>2 DEF RequestsInv, RequestsTypes
<1>4. Plain(m) /\ ~Exceptional(asked[m + 1])
  BY <1>1 DEF Plain
<1>5. wire = FlattenSeq(PendingFrom(m))
  <2>1. UpTo(m) = m
    BY <1>2, <1>3 DEF UpTo
  <2> QED
    BY <1>1, <1>4, <2>1 DEF RequestsInv, WireIsPending
<1> DEFINE r == asked[m + 1]
           rest == FlattenSeq(PendingFrom(m + 1))
<1>6. r \in Askable
  <2>1. m + 1 \in 1 .. Len(asked)
    BY <1>2, <1>3
  <2> QED
    BY <1>3, <2>1, ElementOfSeq
<1>7. rest \in Seq(Chars)
  <2>1. m + 1 \in 0 .. Len(asked)
    BY <1>2, <1>3
  <2> QED
    BY <1>3, <2>1, PendingType
<1>8. wire = TextOf(r) \o rest
  <2>1. m \in 0 .. Len(asked) /\ m # Len(asked)
    BY <1>2, <1>3
  <2> QED
    BY <1>3, <1>5, <2>1, PendingHead
<1> HIDE DEF r, rest
<1>9. Reads(r, rest)
  BY <1>3, <1>4, <1>6, <1>7, <1>8, Framing DEF r
<1> QED
  BY <1>1, <1>7, <1>9 DEF r, rest

(* The server does not wait while a request is there. *)
LEMMA InvArrived == RequestsInv => NoneIsWaitedFor
<1> SUFFICES ASSUME RequestsInv, receiving, Plain(Len(asked)), Len(understood) < Len(asked)
             PROVE  Arrived
  BY DEF NoneIsWaitedFor
<1>1. Len(understood) \in Nat /\ Len(asked) \in Nat
  BY DEF RequestsInv, RequestsTypes
<1>2. Plain(Len(understood) + 1)
  BY <1>1 DEF Plain
<1>3. Reads(asked[Len(understood) + 1], FlattenSeq(PendingFrom(Len(understood) + 1)))
  BY <1>2, ReadsNext
<1> QED
  BY <1>3 DEF Reads, Arrived

LEMMA RequestsReceive ==
  ASSUME RequestsInv, Receive
  PROVE  RequestsInv'
<1> DEFINE text == SubSeq(wire, 1, EndOfRequest)
           x == IF IsFtp THEN FtpParser(text) ELSE HttpParser(text)
<1>1. PICK n \in Nat : n = Len(asked)
  BY DEF RequestsInv, RequestsTypes
<1>2. PICK m \in Nat : m = Len(understood)
  BY DEF RequestsInv, RequestsTypes
<1>3. /\ asked \in Seq(Askable) /\ wire \in Seq(Chars) /\ protocol \in {"Http", "Ftp"}
      /\ understood \in Seq(Items(understood))
  BY DEF RequestsInv, RequestsTypes
<1>4. protocol' = protocol /\ asked' = asked
  BY DEF Receive
<1>5. /\ understood' = Append(understood, x) /\ wire' = SubSeq(wire, EndOfRequest + 1, Len(wire))
      /\ EndOfLine <= Len(wire) /\ EndOfRequest <= Len(wire)
  BY DEF Receive, Arrived
<1> HIDE DEF x
<1>6. /\ understood' \in Seq(Items(understood) \cup {x}) /\ Len(understood') = m + 1
      /\ understood'[m + 1] = x /\ \A k \in 1 .. m : understood'[k] = understood[k]
  <2> DEFINE T == Items(understood) \cup {x}
  <2>1. understood \in Seq(T) /\ x \in T
    BY <1>3, SeqMonotonic
  <2> HIDE DEF T
  <2>2. /\ Append(understood, x) \in Seq(T) /\ Len(Append(understood, x)) = Len(understood) + 1
        /\ \A i \in 1 .. Len(understood) : Append(understood, x)[i] = understood[i]
        /\ Append(understood, x)[Len(understood) + 1] = x
    BY <2>1, AppendProperties
  <2> QED
    BY <1>2, <1>5, <2>2 DEF T
<1>7. Askable' = Askable /\ \A k \in Int : Plain(k)' <=> Plain(k)
  BY <1>4, SameProtocol DEF Plain, Exceptional
<1>8. RequestsTypes'
  <2>1. wire' \in Seq(Chars)
    <3>1. EndOfRequest + 1 \in Nat /\ EndOfRequest + 1 >= 1
      BY <1>3, <1>5, FindsInWire
    <3>2. PICK i \in Nat : i = EndOfRequest + 1 /\ i >= 1
      BY <3>1
    <3>3. SubSeq(wire, i, Len(wire)) \in Seq(Chars)
      <4>1. \A k \in i .. Len(wire) : wire[k] \in Chars
        BY <1>3, <3>2, ElementOfSeq
      <4> QED
        BY <1>3, <3>2, <4>1, SubSeqProperties
    <3> QED
      BY <1>5, <3>2, <3>3
  <2>2. understood' \in Seq(Items(understood)')
    <3> DEFINE u == understood'
               T == {u[k] : k \in 1 .. Len(u)}
    <3>1. u \in Seq(Items(understood) \cup {x})
      BY <1>6
    <3> HIDE DEF u
    <3>2. Len(u) \in Nat /\ u = [k \in 1 .. Len(u) |-> u[k]]
      BY <3>1
    <3>3. \A k \in 1 .. Len(u) : u[k] \in T
      OBVIOUS
    <3> HIDE DEF T
    <3>4. u \in Seq(T)
      BY <3>2, <3>3
    <3> QED
      BY <3>4 DEF Items, T, u
  <2> QED
    BY <1>3, <1>4, <1>7, <2>1, <2>2 DEF RequestsTypes
<1>9. \A k \in 1 .. m : Plain(IF k > n THEN n ELSE k) => k <= n /\ understood[k] = Meaning(asked[k])
  BY <1>1, <1>2 DEF RequestsInv, RequestsArrive
<1>10. ASSUME Plain(IF m + 1 > n THEN n ELSE m + 1)
       PROVE  /\ m + 1 <= n /\ x = Meaning(asked[m + 1])
              /\ wire' = FlattenSeq(PendingFrom(m + 1))
  <2>1. Plain(UpTo(m))
    <3>1. UpTo(m) = IF m > n THEN n ELSE m
      BY <1>1 DEF UpTo
    <3>2. CASE m + 1 <= n
      BY <1>10, <3>1, <3>2 DEF Plain
    <3>3. CASE m + 1 > n
      <4>1. UpTo(m) = n
        BY <3>1, <3>3
      <4> QED
        BY <1>10, <3>3, <4>1
    <3> QED
      BY <3>2, <3>3
  <2>2. m <= n /\ wire = FlattenSeq(PendingFrom(m))
    BY <1>1, <1>2, <2>1 DEF RequestsInv, WireIsPending
  <2>3. m # n
    <3> SUFFICES ASSUME m = n PROVE FALSE
      OBVIOUS
    <3>1. PendingFrom(m) = <<>>
      <4>1. Len(asked) - m = 0
        BY <1>1
      <4> QED
        BY <4>1 DEF PendingFrom
    <3>2. wire = <<>>
      BY <2>2, <3>1, FlattenEmpty
    <3>3. EndOfLine > Len(wire) /\ EndOfLine \in Nat
      BY <1>3, <3>2, FindsInWire
    <3>4. Len(wire) \in Nat
      BY <1>3
    <3> QED
      BY <1>5, <3>3, <3>4
  <2>4. m + 1 <= n /\ Plain(m + 1)
    <3>1. m + 1 <= n
      BY <2>2, <2>3
    <3> QED
      BY <1>10, <3>1
  <2>5. Len(understood) < Len(asked) /\ Plain(Len(understood) + 1)
    BY <1>1, <1>2, <2>4
  <2>6. Reads(asked[m + 1], FlattenSeq(PendingFrom(m + 1)))
    BY <1>2, <2>5, ReadsNext
  <2>7. text = TextOf(asked[m + 1]) /\ SubSeq(wire, EndOfRequest + 1, Len(wire)) = FlattenSeq(PendingFrom(m + 1))
    BY <2>6 DEF Reads
  <2>8. x = Meaning(asked[m + 1])
    BY <2>6, <2>7 DEF Reads, x
  <2> QED
    BY <1>5, <2>4, <2>7, <2>8
<1>11. RequestsArrive'
  <2> SUFFICES ASSUME NEW k \in 1 .. m + 1, Plain(IF k > n THEN n ELSE k)
               PROVE  k <= n /\ understood'[k] = Meaning(asked[k])
    <3>1. \A k \in 1 .. m + 1 : Meaning(asked[k])' = Meaning(asked[k])
      BY <1>4 DEF Meaning
    <3>2. \A k \in 1 .. m + 1 : Plain(IF k > n THEN n ELSE k)' <=> Plain(IF k > n THEN n ELSE k)
      BY <1>7
    <3> QED
      BY <1>1, <1>4, <1>6, <3>1, <3>2 DEF RequestsArrive
  <2>1. CASE k = m + 1
    BY <1>6, <1>10, <2>1
  <2>2. CASE k # m + 1
    <3>1. k \in 1 .. m
      BY <2>2
    <3> QED
      BY <1>6, <1>9, <3>1
  <2> QED
    BY <2>1, <2>2
<1>12. WireIsPending'
  <2> SUFFICES ASSUME Plain(IF m + 1 > n THEN n ELSE m + 1)
               PROVE  m + 1 <= n /\ wire' = FlattenSeq(PendingFrom(m + 1))
    <3>1. PendingFrom(m + 1)' = PendingFrom(m + 1)
      BY <1>4 DEF PendingFrom, TextOf
    <3>2. Plain(IF m + 1 > n THEN n ELSE m + 1)' <=> Plain(IF m + 1 > n THEN n ELSE m + 1)
      BY <1>7
    <3>3. UpTo(m + 1)' = IF m + 1 > n THEN n ELSE m + 1
      BY <1>1, <1>4 DEF UpTo
    <3>4. WireIsPending' <=> (Plain(UpTo(m + 1))' => m + 1 <= n /\ wire' = FlattenSeq(PendingFrom(m + 1)'))
      BY <1>1, <1>4, <1>6 DEF WireIsPending
    <3>5. Plain(UpTo(m + 1))' <=> Plain(IF m + 1 > n THEN n ELSE m + 1)'
      BY <3>3 DEF Plain
    <3> QED
      BY <3>1, <3>2, <3>4, <3>5
  <2> QED
    BY <1>10
<1> QED
  BY <1>8, <1>11, <1>12 DEF RequestsInv

(* The responses leave the requests alone. *)
LEMMA RequestsSame ==
  ASSUME RequestsInv, UNCHANGED <<protocol, asked, wire, receiving, understood>>
  PROVE  RequestsInv'
<1>1. protocol' = protocol /\ asked' = asked /\ wire' = wire /\ understood' = understood
  OBVIOUS
<1>2. RequestsTypes'
  BY <1>1 DEF RequestsInv, RequestsTypes, Askable, Items
<1>3. RequestsArrive'
  BY <1>1 DEF RequestsInv, RequestsArrive, Plain, Exceptional, Meaning
<1>4. WireIsPending'
  BY <1>1 DEF RequestsInv, WireIsPending, UpTo, Plain, Exceptional, PendingFrom, TextOf
<1> QED
  BY <1>2, <1>3, <1>4 DEF RequestsInv

LEMMA RequestsStep == RequestsInv /\ [Next]_vars => RequestsInv'
<1> SUFFICES ASSUME RequestsInv, [Next]_vars PROVE RequestsInv'
  OBVIOUS
<1>1. CASE \E r \in Askable : Asks(r)
  BY <1>1, RequestsAsks
<1>2. CASE Receive
  BY <1>2, RequestsReceive
<1>3. CASE RespondsHttp \/ RespondsFtp
  <2>1. UNCHANGED <<protocol, asked, wire, receiving, understood>>
    BY <1>3 DEF RespondsHttp, RespondsFtp, Sends
  <2> QED
    BY <2>1, RequestsSame
<1>4. CASE UNCHANGED vars
  BY <1>4, RequestsSame DEF vars
<1> QED
  BY <1>1, <1>2, <1>3, <1>4 DEF Next, Askable

(* The server understands every request as the client meant it, whatever   *)
(* came before and comes behind it: receiveMessage, handleHttp, the        *)
(* protocol detector and the two parsers, over every sequence of requests. *)
THEOREM RequestsArriveAlways == Spec => []RequestsArrive
<1>1. Init => RequestsInv
  BY RequestsInit
<1>2. RequestsInv /\ [Next]_vars => RequestsInv'
  BY RequestsStep
<1>3. RequestsInv => RequestsArrive
  BY DEF RequestsInv
<1> QED
  BY <1>1, <1>2, <1>3, PTL DEF Spec

(* It never waits for more than the client has sent.                       *)
THEOREM NoneIsWaitedForAlways == Spec => []NoneIsWaitedFor
<1>1. Init => RequestsInv
  BY RequestsInit
<1>2. RequestsInv /\ [Next]_vars => RequestsInv'
  BY RequestsStep
<1>3. RequestsInv => NoneIsWaitedFor
  BY InvArrived
<1> QED
  BY <1>1, <1>2, <1>3, PTL DEF Spec

-----------------------------------------------------------------------------
(* The replies of FTP are lines, which the client reads one by one.        *)
Reply(code, text) == (<<ToString(code)>> \o Blank) \o text

LEMMA ReplyIs ==
  ASSUME NEW code \in Numbers, NEW text \in Seq(LineChars)
  PROVE  /\ Reply(code, text) \in Lines /\ Reply(code, text)[1] = ToString(code)
         /\ FtpText(FtpResponse(code, text)) = Reply(code, text) \o CRLF
<1> DEFINE c == ToString(code)
           h == <<c>> \o Blank
           line == h \o text
<1>1. c \in LineChars /\ Sp \in LineChars
  BY NumbersAreWords, WordsAreWords, Blanks
<1>2. Blank \in Seq(LineChars) /\ Len(Blank) = 1
  BY <1>1, Blanks
<1>3. h \in Seq(LineChars) /\ Begins(h, c, Blank)
  BY <1>1, <1>2, PutBefore
<1> HIDE DEF c, h
<1>4. Len(h) = 2 /\ h[1] = c
  BY <1>2, <1>3 DEF Begins
<1>5. line \in Seq(LineChars) /\ Len(line) = Len(h) + Len(text)
  BY <1>3, Joint
<1>6. line[1] = h[1]
  <2>1. 1 \in 1 .. Len(h)
    BY <1>4
  <2> QED
    BY <1>3, <2>1, Joint
<1> HIDE DEF line
<1>7. line \in Lines
  <2>1. "\r" \notin LineChars /\ LineChars \subseteq Chars
    BY WordsAreWords DEF LineChars
  <2>2. Free(line, "\r")
    BY <1>5, <2>1, FreeOf
  <2>3. line \in Seq(Chars)
    BY <1>5, <2>1, SeqMonotonic
  <2>4. Len(line) >= 1
    <3>1. Len(text) \in Nat
      OBVIOUS
    <3> QED
      BY <1>4, <1>5, <3>1
  <2> QED
    BY <2>2, <2>3, <2>4 DEF Lines
<1>8. Reply(code, text) = line
  BY DEF Reply, line, h, c
<1>9. FtpText(FtpResponse(code, text)) = Reply(code, text) \o CRLF
  BY DEF FtpText, FtpResponse, Reply
<1> QED
  BY <1>4, <1>6, <1>7, <1>8, <1>9 DEF c

(* The text of 227 ends with the two bytes of the port. *)
PortText(port) ==
    <<Comma, ToString((port \div 256) % 256), Comma, ToString(port % 256), ")">>

LEMMA PassiveEnds ==
  ASSUME NEW port \in Nat, port \div 256 < 256
  PROVE  \E front \in Seq(LineChars) : Passive(<<127, 0, 0, 1>>, port) = front \o PortText(port)
<1> DEFINE hi == (port \div 256) % 256
           lo == port % 256
           T == Seq(LineChars)
<1>1. hi \in 0 .. 255 /\ lo \in 0 .. 255
  OBVIOUS
<1>2. PICK words : words = <<127, 0, 0, 1>> \o <<hi, lo>>
  OBVIOUS
<1>3. words[1] = 127 /\ words[2] = 0 /\ words[3] = 0 /\ words[4] = 1 /\ words[5] = hi /\ words[6] = lo
  <2> DEFINE p == <<127, 0, 0, 1>>
             q == <<hi, lo>>
  <2>1. p \in Seq(Int) /\ Len(p) = 4 /\ p[1] = 127 /\ p[2] = 0 /\ p[3] = 0 /\ p[4] = 1
    OBVIOUS
  <2>2. q \in Seq(Int) /\ Len(q) = 2 /\ q[1] = hi /\ q[2] = lo
    BY <1>1
  <2> HIDE DEF p, q, hi, lo
  <2>3. p \in Seq(Int) /\ q \in Seq(Int)
    BY <2>1, <2>2
  <2>4. \A i \in 1 .. Len(p) : (p \o q)[i] = p[i]
    BY <2>3, Joint
  <2>5. \A i \in 1 .. Len(q) : (p \o q)[Len(p) + i] = q[i]
    BY <2>3, Joint
  <2>6. words = p \o q
    BY <1>2 DEF p, q
  <2> DEFINE pq == p \o q
  <2> HIDE DEF pq
  <2>7. \A i \in 1 .. 4 : pq[i] = p[i]
    BY <2>1, <2>4 DEF pq
  <2>8. ASSUME NEW i \in 1 .. 2 PROVE pq[4 + i] = q[i]
    <3>1. i \in 1 .. Len(q) /\ Len(p) + i = 4 + i
      BY <2>1, <2>2
    <3>2. pq[Len(p) + i] = q[i]
      BY <2>5, <3>1 DEF pq
    <3> QED
      BY <3>1, <3>2
  <2>9. pq[1] = 127 /\ pq[2] = 0 /\ pq[3] = 0 /\ pq[4] = 1
    BY <2>1, <2>7
  <2>10. pq[5] = hi /\ pq[6] = lo
    <3>1. pq[4 + 1] = q[1] /\ pq[4 + 2] = q[2]
      BY <2>8
    <3>2. 4 + 1 = 5 /\ 4 + 2 = 6
      OBVIOUS
    <3> QED
      BY <2>2, <3>1, <3>2
  <2>11. words = pq
    BY <2>6 DEF pq
  <2> QED
    BY <2>9, <2>10, <2>11
<1> HIDE DEF hi, lo
<1>4. \A n \in 0 .. 255 : ToString(n) \in LineChars
  BY Bounds, NumbersAreWords, WordsAreWords
<1>5. Comma \in LineChars /\ "(" \in LineChars /\ ")" \in LineChars
  BY Literal, WordsAreWords
<1> DEFINE part(k) == <<Comma, ToString(words[k + 1])>>
           f(n) == [k \in 1 .. n |-> part(k)]
           s3 == <<part(1), part(2), part(3)>>
           s4 == Append(s3, part(4))
           s5 == Append(s4, part(5))
           open == <<"(", ToString(words[1])>>
<1>6. part(1) \in T /\ part(2) \in T /\ part(3) \in T /\ part(4) \in T /\ part(5) \in T /\ open \in T
  <2>1. \A k \in 1 .. 6 : ToString(words[k]) \in LineChars
    <3>1. \A k \in 1 .. 6 : words[k] \in 0 .. 255
      BY <1>1, <1>3
    <3> QED
      BY <1>4, <3>1
  <2>2. \A k \in 1 .. 5 : k + 1 \in 1 .. 6
    OBVIOUS
  <2>3. \A k \in 1 .. 5 : part(k) \in T
    BY <1>5, <2>1, <2>2
  <2>4. open \in T
    BY <1>5, <2>1
  <2> QED
    BY <2>3, <2>4
<1>7. part(4) = <<Comma, ToString(hi)>> /\ part(5) = <<Comma, ToString(lo)>>
  BY <1>3
<1> HIDE DEF part, open, T
<1>8. s3 \in Seq(T) /\ Len(s3) = 3 /\ s3[1] = part(1) /\ s3[2] = part(2) /\ s3[3] = part(3)
  BY <1>6
<1> HIDE DEF s3
<1>9. s4 \in Seq(T) /\ Len(s4) = 4 /\ s4[4] = part(4) /\ \A i \in 1 .. 3 : s4[i] = s3[i]
  <2>1. s3 \in Seq(T) /\ part(4) \in T
    BY <1>6, <1>8
  <2>2. /\ s4 \in Seq(T) /\ Len(s4) = Len(s3) + 1 /\ s4[Len(s3) + 1] = part(4)
        /\ \A i \in 1 .. Len(s3) : s4[i] = s3[i]
    BY <2>1, AppendProperties
  <2> HIDE DEF s4
  <2>3. Len(s3) = 3 /\ Len(s3) + 1 = 4
    BY <1>8
  <2> QED
    BY <2>2, <2>3
<1> HIDE DEF s4
<1>10. s5 \in Seq(T) /\ Len(s5) = 5 /\ s5[5] = part(5) /\ \A i \in 1 .. 4 : s5[i] = s4[i]
  <2>1. s4 \in Seq(T) /\ part(5) \in T
    BY <1>6, <1>9
  <2>2. /\ s5 \in Seq(T) /\ Len(s5) = Len(s4) + 1 /\ s5[Len(s4) + 1] = part(5)
        /\ \A i \in 1 .. Len(s4) : s5[i] = s4[i]
    BY <2>1, AppendProperties
  <2> HIDE DEF s5
  <2>3. Len(s4) = 4 /\ Len(s4) + 1 = 5
    BY <1>9
  <2> QED
    BY <2>2, <2>3
<1> HIDE DEF s5
<1>11. f(5) = s5
  <2> DEFINE g == f(5)
  <2>1. \A k \in 1 .. 5 : g[k] = part(k)
    OBVIOUS
  <2>2. g = [k \in 1 .. 5 |-> g[k]]
    OBVIOUS
  <2> HIDE DEF g
  <2>3. g[1] = s5[1] /\ g[2] = s5[2] /\ g[3] = s5[3] /\ g[4] = s5[4] /\ g[5] = s5[5]
    BY <1>8, <1>9, <1>10, <2>1
  <2>4. \A k \in 1 .. 5 : g[k] = s5[k]
    BY <2>3
  <2>5. s5 = [k \in 1 .. 5 |-> s5[k]]
    BY <1>10
  <2>6. g = s5
    BY <2>2, <2>4, <2>5
  <2> QED
    BY <2>6 DEF g
<1> DEFINE a == FlattenSeq(s3)
           x == part(4)
           y == part(5)
           z == <<")">>
<1>12. FlattenSeq(s5) = (a \o x) \o y
  <2>1. FlattenSeq(s4) = a \o x
    BY <1>6, <1>8, FlattenAppend DEF s4, T
  <2>2. FlattenSeq(s5) = FlattenSeq(s4) \o y
    BY <1>6, <1>9, FlattenAppend DEF s5, T
  <2> QED
    BY <2>1, <2>2
<1>13. a \in T
  BY <1>8, FlattenType DEF T
<1>14. z \in T /\ x \in T /\ y \in T
  BY <1>5, <1>6 DEF T
<1>15. Passive(<<127, 0, 0, 1>>, port) = (open \o ((a \o x) \o y)) \o z
  <2>1. Passive(<<127, 0, 0, 1>>, port)
          = (<<"(", ToString(words[1])>> \o FlattenSeq([k \in 1 .. 5 |-> <<Comma, ToString(words[k + 1])>>]))
              \o <<")">>
    BY <1>2 DEF Passive, hi, lo
  <2>2. [k \in 1 .. 5 |-> <<Comma, ToString(words[k + 1])>>] = s5
    BY <1>11 DEF part
  <2> QED
    BY <1>12, <2>1, <2>2 DEF open
<1>16. x \o (y \o z) = PortText(port)
  <2> DEFINE comma == <<Comma>>
             high == <<ToString(hi)>>
  <2>1. y \o z = <<Comma, ToString(lo), ")">>
    <3>1. <<Comma>> \o (<<ToString(lo)>> \o z) = <<Comma, ToString(lo), ")">>
      BY Words2, Words3
    <3>2. y = <<Comma>> \o <<ToString(lo)>>
      BY <1>7, Words2
    <3>3. <<Comma>> \in Seq(LineChars) /\ <<ToString(lo)>> \in Seq(LineChars)
      <4>1. ToString(lo) \in LineChars
        BY <1>1, <1>4
      <4> QED
        BY <1>5, <4>1
    <3> DEFINE c == <<Comma>>
               w == <<ToString(lo)>>
    <3> HIDE DEF c, w, z
    <3>4. Associates(c, w, z)
      BY <1>14, <3>3, Association DEF c, w, T
    <3> QED
      BY <3>1, <3>2, <3>4 DEF Associates, c, w
  <2>2. x \o <<Comma, ToString(lo), ")">> = PortText(port)
    <3> DEFINE g == <<Comma, ToString(lo), ")">>
               p == PortText(port)
    <3>1. ToString(hi) \in LineChars /\ ToString(lo) \in LineChars
      BY <1>1, <1>4
    <3>2. g \in Seq(LineChars) /\ Len(g) = 3 /\ g[1] = Comma /\ g[2] = ToString(lo) /\ g[3] = ")"
      BY <1>5, <3>1
    <3>3. /\ p \in Seq(LineChars) /\ Len(p) = 5 /\ p[1] = Comma /\ p[2] = ToString(hi)
          /\ p[3] = Comma /\ p[4] = ToString(lo) /\ p[5] = ")"
      BY <1>5, <3>1 DEF PortText, hi, lo
    <3>4. x \in Seq(LineChars) /\ Len(x) = 2 /\ x[1] = Comma /\ x[2] = ToString(hi)
      <4>1. x = <<Comma, ToString(hi)>>
        BY <1>7
      <4> HIDE DEF x
      <4> QED
        BY <1>5, <3>1, <4>1
    <3> HIDE DEF g, p, x
    <3> DEFINE xg == x \o g
    <3>5. xg \in Seq(LineChars) /\ Len(xg) = Len(x) + Len(g)
      BY <3>2, <3>4, Joint
    <3>6. \A i \in 1 .. Len(x) : xg[i] = x[i]
      <4>1. x \in Seq(LineChars) /\ g \in Seq(LineChars)
        BY <3>2, <3>4
      <4> QED
        BY <4>1, Joint
    <3>7. \A i \in 1 .. Len(g) : xg[Len(x) + i] = g[i]
      <4>1. x \in Seq(LineChars) /\ g \in Seq(LineChars)
        BY <3>2, <3>4
      <4> QED
        BY <4>1, Joint
    <3> HIDE DEF xg
    <3>8. xg[1] = x[1] /\ xg[2] = x[2] /\ xg[2 + 1] = g[1] /\ xg[2 + 2] = g[2] /\ xg[2 + 3] = g[3] /\ Len(xg) = 5
      BY <3>2, <3>4, <3>5, <3>6, <3>7
    <3>9. \A i \in 1 .. Len(xg) : xg[i] = p[i]
      BY <3>2, <3>3, <3>4, <3>8
    <3>10. xg = p
      BY <3>3, <3>5, <3>8, <3>9, SeqEqual
    <3> QED
      BY <3>10 DEF xg, g, p
  <2> QED
    BY <2>1, <2>2
<1> HIDE DEF a, x, y, z
<1>17. open \o ((a \o x) \o y) = ((open \o a) \o x) \o y
  <2> DEFINE ax == a \o x
             oa == open \o a
  <2>1. open \in T /\ a \in T /\ x \in T /\ y \in T
    BY <1>6, <1>13, <1>14
  <2>2. ax \in T /\ oa \in T
    BY <2>1, Joint DEF T
  <2>3. Associates(open, a, x)
    BY <2>1, Association DEF T
  <2> HIDE DEF ax, oa
  <2>4. Associates(open, ax, y)
    BY <2>1, <2>2, Association DEF T
  <2> QED
    BY <2>3, <2>4 DEF Associates, ax, oa
<1>18. open \o a \in T
  BY <1>6, <1>13, Joint DEF T
<1> DEFINE front == open \o a
<1> HIDE DEF front
<1>19. front \in Seq(LineChars)
  BY <1>18 DEF front, T
<1>20. ((front \o x) \o y) \o z = front \o (x \o (y \o z))
  <2>1. Regroups(front, x, y, z)
    BY <1>14, <1>19, Regroup DEF T
  <2> QED
    BY <2>1 DEF Regroups
<1>21. Passive(<<127, 0, 0, 1>>, port) = front \o PortText(port)
  BY <1>15, <1>16, <1>17, <1>20 DEF front
<1> QED
  BY <1>19, <1>21

(* What the client reads in the line that 227 makes. *)
LEMMA PortIs ==
  ASSUME NEW port \in Nat, port \div 256 < 256
  PROVE  LET text == <<"Entering", Sp>> \o Passive(<<127, 0, 0, 1>>, port) IN
         /\ text \in Seq(LineChars)
         /\ FtpReads(Reply(227, text)) = [code |-> ToString(227), port |-> port]
<1> DEFINE hi == (port \div 256) % 256
           lo == port % 256
           passive == Passive(<<127, 0, 0, 1>>, port)
           enter == <<"Entering", Sp>>
           text == enter \o passive
           tail == PortText(port)
           line == Reply(227, text)
           number(word) == CHOOSE n \in 0 .. 255 : ToString(n) = word
<1>1. PICK front \in Seq(LineChars) : passive = front \o tail
  BY PassiveEnds
<1>2. hi \in 0 .. 255 /\ lo \in 0 .. 255 /\ 256 * hi + lo = port
  OBVIOUS
<1>3. \A n \in 0 .. 255 : ToString(n) \in LineChars /\ number(ToString(n)) = n
  <2> TAKE n \in 0 .. 255
  <2>1. \A k \in 0 .. 255 : k \in Numbers
    BY Bounds
  <2>2. ToString(n) \in LineChars
    BY <2>1, NumbersAreWords, WordsAreWords
  <2>3. \A k \in 0 .. 255 : ToString(k) = ToString(n) => k = n
    BY <2>1, NumbersAssumption
  <2>4. number(ToString(n)) = n
    BY <2>3
  <2> QED
    BY <2>2, <2>4
<1>4. /\ tail \in Seq(LineChars) /\ Len(tail) = 5
      /\ tail[2] = ToString(hi) /\ tail[4] = ToString(lo)
  <2>1. Comma \in LineChars /\ ")" \in LineChars
    BY Literal, WordsAreWords
  <2>2. ToString(hi) \in LineChars /\ ToString(lo) \in LineChars
    BY <1>2, <1>3
  <2> QED
    BY <2>1, <2>2 DEF PortText
<1>5. enter \in Seq(LineChars)
  BY Literal, Blanks, WordsAreWords
<1>6. 227 \in Numbers
  BY Bounds
<1> HIDE DEF hi, lo, tail, enter, passive, number
<1>7. passive \in Seq(LineChars)
  <2>1. tail \in Seq(LineChars)
    BY <1>4
  <2> QED
    BY <1>1, <2>1, Joint
<1>8. text \in Seq(LineChars)
  BY <1>5, <1>7, Joint
<1> DEFINE begin == (<<ToString(227)>> \o Blank) \o (enter \o front)
<1>9. line = begin \o tail /\ begin \in Seq(LineChars)
  <2> DEFINE code == <<ToString(227)>> \o Blank
             ef == enter \o front
  <2>1. code \in Seq(LineChars)
    <3>1. ToString(227) \in LineChars
      BY <1>6, NumbersAreWords, WordsAreWords
    <3>2. Blank \in Seq(LineChars)
      BY Blanks
    <3> QED
      BY <3>1, <3>2, PutBefore
  <2> HIDE DEF code
  <2>2. tail \in Seq(LineChars)
    BY <1>4
  <2>3. ef \in Seq(LineChars)
    BY <1>1, <1>5, Joint
  <2>4. Associates(enter, front, tail)
    BY <1>1, <1>5, <2>2, Association
  <2> HIDE DEF ef
  <2>5. Associates(code, ef, tail)
    BY <2>1, <2>2, <2>3, Association
  <2>6. begin = code \o ef
    BY DEF code, ef
  <2>7. code \o ef \in Seq(LineChars)
    BY <2>1, <2>3, Joint
  <2>8. line = code \o (enter \o (front \o tail))
    BY <1>1 DEF Reply, code
  <2> QED
    BY <2>4, <2>5, <2>6, <2>7, <2>8 DEF Associates, ef
<1> HIDE DEF begin
<1>10. \A i \in 1 .. 5 : (begin \o tail)[Len(begin) + i] = tail[i]
  <2>1. tail \in Seq(LineChars) /\ Len(tail) = 5
    BY <1>4
  <2>2. begin \in Seq(LineChars) /\ tail \in Seq(LineChars)
    BY <1>9, <2>1
  <2>3. \A i \in 1 .. Len(tail) : (begin \o tail)[Len(begin) + i] = tail[i]
    BY <2>2, Joint
  <2> QED
    BY <2>1, <2>3
<1>11. Len(line) = Len(begin) + 5 /\ Len(begin) \in Nat
  <2>1. tail \in Seq(LineChars) /\ Len(tail) = 5
    BY <1>4
  <2>2. Len(begin \o tail) = Len(begin) + Len(tail)
    BY <1>9, <2>1, Joint
  <2> QED
    BY <1>9, <2>1, <2>2
<1>12. line[1] = ToString(227)
  BY <1>6, <1>8, ReplyIs
<1> HIDE DEF line
<1>13. line[Len(line) - 3] = ToString(hi)
  <2>1. Len(line) - 3 = Len(begin) + 2 /\ 2 \in 1 .. 5
    BY <1>11
  <2>2. (begin \o tail)[Len(begin) + 2] = tail[2]
    BY <1>10, <2>1
  <2> QED
    BY <1>4, <1>9, <2>1, <2>2
<1>14. line[Len(line) - 1] = ToString(lo)
  <2>1. Len(line) - 1 = Len(begin) + 4 /\ 4 \in 1 .. 5
    BY <1>11
  <2>2. (begin \o tail)[Len(begin) + 4] = tail[4]
    BY <1>10, <2>1
  <2> QED
    BY <1>4, <1>9, <2>1, <2>2
<1>15. FtpReads(line) = [code |-> line[1], port |-> 256 * number(line[Len(line) - 3]) + number(line[Len(line) - 1])]
  BY <1>12 DEF FtpReads, number
<1>16. number(ToString(hi)) = hi /\ number(ToString(lo)) = lo
  BY <1>2, <1>3
<1>17. FtpReads(line) = [code |-> ToString(227), port |-> port]
  BY <1>2, <1>12, <1>13, <1>14, <1>15, <1>16
<1> QED
  BY <1>8, <1>17 DEF line, text, enter, passive

(* The inductive invariant of the replies of FTP: the stream is as many    *)
(* lines as there are replies, and the client reads in each what it says.  *)
FtpRepliesInv ==
  protocol = "Ftp" =>
    \E ls \in Seq(Lines) : /\ stream = Joined(ls) /\ Len(ls) = Len(replies)
                           /\ \A k \in 1 .. Len(ls) : FtpReads(ls[k]) = replies[k]

(* A reply of FTP is one line more. *)
LEMMA FtpSends ==
  ASSUME replies \in Seq(Items(replies)), FtpRepliesInv, protocol' = protocol,
         protocol = "Ftp", NEW line \in Lines, NEW says,
         FtpReads(line) = says, replies' = Append(replies, says), stream' = stream \o (line \o CRLF)
  PROVE  FtpRepliesInv'
<1>1. PICK ls \in Seq(Lines) : /\ stream = Joined(ls) /\ Len(ls) = Len(replies)
                               /\ \A k \in 1 .. Len(ls) : FtpReads(ls[k]) = replies[k]
  BY DEF FtpRepliesInv
<1>2. PICK n \in Nat : n = Len(ls)
  OBVIOUS
<1> DEFINE all == Append(ls, line)
<1>3. /\ all \in Seq(Lines) /\ Len(all) = n + 1 /\ all[n + 1] = line
      /\ \A k \in 1 .. n : all[k] = ls[k]
  BY <1>2, AppendProperties
<1>4. /\ Len(replies') = n + 1 /\ replies'[n + 1] = says
      /\ \A k \in 1 .. n : replies'[k] = replies[k]
  <2> DEFINE T == Items(replies) \cup {says}
  <2>1. replies \in Seq(T) /\ says \in T
    BY SeqMonotonic
  <2> HIDE DEF T
  <2>2. /\ Append(replies, says) \in Seq(T) /\ Len(Append(replies, says)) = Len(replies) + 1
        /\ \A i \in 1 .. Len(replies) : Append(replies, says)[i] = replies[i]
        /\ Append(replies, says)[Len(replies) + 1] = says
    BY <2>1, AppendProperties
  <2> QED
    BY <1>1, <1>2, <2>2
<1>5. stream' = Joined(all)
  <2>1. ls \in Seq(Seq(Chars)) /\ line \in Seq(Chars)
    BY LinesType DEF Lines
  <2>2. Joined(Append(ls, line)) = Joined(ls) \o (line \o CRLF)
    BY <2>1, JoinedAppend
  <2> QED
    BY <1>1, <2>2
<1> HIDE DEF all
<1>6. \A k \in 1 .. Len(all) : FtpReads(all[k]) = replies'[k]
  <2> TAKE k \in 1 .. Len(all)
  <2>1. CASE k = n + 1
    BY <1>3, <1>4, <2>1
  <2>2. CASE k # n + 1
    <3>1. k \in 1 .. n
      BY <1>3, <2>2
    <3> QED
      BY <1>1, <1>2, <1>3, <1>4, <3>1
  <2> QED
    BY <2>1, <2>2
<1> QED
  BY <1>3, <1>4, <1>5, <1>6 DEF FtpRepliesInv

(* The client reads a stream of lines line by line. *)
LEMMA FtpStream ==
  ASSUME NEW ls \in Seq(Lines)
  PROVE  FtpReplies(Joined(ls)) = [k \in 1 .. Len(ls) |-> FtpReads(ls[k])]
<1> DEFINE text == Joined(ls)
           lines == split(text, CRLF)
<1>1. FtpReplies(text) = [k \in 1 .. Len(lines) - 1 |-> FtpReads(lines[k])]
  BY DEF FtpReplies
<1>2. text \in Seq(Chars) /\ <<>> \in Seq(Chars) /\ CRLF \in Seq(Chars) /\ CRLF[1] = "\r" /\ Len(CRLF) >= 1
  BY LinesType, Terminators
<1>3. lines = IF text = <<>> THEN <<>> ELSE Cut(text, CRLF)
  <2> HIDE DEF text
  <2> QED
    BY SplitCuts
<1>4. CASE ls = <<>>
  <2>1. lines = <<>>
    BY <1>3, <1>4, JoinedEmpty
  <2>2. 1 .. Len(lines) - 1 = {} /\ 1 .. Len(ls) = {}
    BY <1>4, <2>1
  <2> QED
    BY <1>1, <2>2
<1>5. CASE ls # <<>>
  <2>1. Len(text) >= 3
    BY <1>2, <1>5, JoinedHeader DEF HeaderEnds
  <2>2. text # <<>>
    <3> HIDE DEF text
    <3> QED
      BY <2>1
  <2>3. Cut(text \o <<>>, CRLF) = ls \o Cut(<<>>, CRLF)
    BY <1>2, CutJoined
  <2>4. Cut(<<>>, CRLF) = <<<<>>>>
    <3>1. Free(<<>>, CRLF[1])
      BY DEF Free
    <3> QED
      BY <1>2, <3>1, CutLast
  <2>5. text \o <<>> = text
    <3> HIDE DEF text
    <3> QED
      BY <1>2
  <2> DEFINE last == <<<<>>>>
  <2>6. last \in Seq(Seq(Chars)) /\ Len(last) = 1
    BY <1>2
  <2> HIDE DEF last, text
  <2>7. ls \in Seq(Seq(Chars))
    BY LinesType
  <2>8. Len(ls \o last) = Len(ls) + Len(last) /\ \A i \in 1 .. Len(ls) : (ls \o last)[i] = ls[i]
    BY <2>6, <2>7, Joint
  <2>9. lines = ls \o last
    BY <1>3, <2>2, <2>3, <2>4, <2>5 DEF last
  <2>10. Len(lines) - 1 = Len(ls)
    BY <2>6, <2>8, <2>9
  <2>11. \A k \in 1 .. Len(ls) : FtpReads(lines[k]) = FtpReads(ls[k])
    BY <2>8, <2>9
  <2> HIDE DEF lines
  <2> QED
    BY <1>1, <2>10, <2>11 DEF text
<1> QED
  BY <1>4, <1>5

LEMMA FtpRead ==
  ASSUME replies \in Seq(Items(replies)), FtpRepliesInv, protocol = "Ftp"
  PROVE  replies = FtpReplies(stream)
<1>1. PICK ls \in Seq(Lines) : /\ stream = Joined(ls) /\ Len(ls) = Len(replies)
                               /\ \A k \in 1 .. Len(ls) : FtpReads(ls[k]) = replies[k]
  BY DEF FtpRepliesInv
<1>2. FtpReplies(stream) = [k \in 1 .. Len(ls) |-> FtpReads(ls[k])]
  BY <1>1, FtpStream
<1>3. replies = [k \in 1 .. Len(replies) |-> replies[k]]
  OBVIOUS
<1> QED
  BY <1>1, <1>2, <1>3

(* A reply that is not that to PASV. *)
LEMMA PhraseIs ==
  ASSUME NEW code \in Numbers, code # 227, NEW text \in Seq(LineChars)
  PROVE  FtpReads(Reply(code, text)) = [code |-> ToString(code), port |-> 0]
<1>1. 227 \in Numbers
  BY Bounds
<1>2. ToString(code) # ToString(227)
  BY <1>1, NumbersAssumption
<1>3. Reply(code, text)[1] = ToString(code)
  BY ReplyIs
<1> QED
  BY <1>2, <1>3 DEF FtpReads

LEMMA FtpStep ==
  ASSUME replies \in Seq(Items(replies)), FtpRepliesInv, RespondsFtp
  PROVE  FtpRepliesInv'
<1>1. 500 \in Numbers /\ 331 \in Numbers /\ 227 \in Numbers
  BY Bounds
<1>2. <<>> \in Seq(LineChars) /\ <<"Please", Sp, "provide", Sp, "password">> \in Seq(LineChars)
  BY Literal, Blanks, WordsAreWords
<1>3. ASSUME NEW code \in Numbers, NEW text \in Seq(LineChars), NEW says,
             FtpReads(Reply(code, text)) = says, Sends(FtpText(FtpResponse(code, text)), says)
      PROVE  FtpRepliesInv'
  <2>1. Reply(code, text) \in Lines /\ FtpText(FtpResponse(code, text)) = Reply(code, text) \o CRLF
    BY ReplyIs
  <2>2. protocol' = protocol /\ protocol = "Ftp" /\ replies' = Append(replies, says)
          /\ stream' = stream \o (Reply(code, text) \o CRLF)
    BY <1>3, <2>1 DEF Sends, RespondsFtp
  <2> QED
    BY <1>3, <2>1, <2>2, FtpSends
<1>4. CASE Sends(FtpText(FtpResponse(500, <<>>)), [code |-> ToString(500), port |-> 0])
  <2>1. PICK none : none = <<>>
    OBVIOUS
  <2>2. none \in Seq(LineChars) /\ Sends(FtpText(FtpResponse(500, none)), [code |-> ToString(500), port |-> 0])
    BY <1>2, <1>4, <2>1
  <2>3. 500 \in Numbers /\ 500 # 227
    BY <1>1
  <2>4. FtpReads(Reply(500, none)) = [code |-> ToString(500), port |-> 0]
    BY <2>2, <2>3, PhraseIs
  <2> QED
    BY <1>1, <1>3, <2>2, <2>4
<1>5. CASE Sends(FtpText(FtpResponse(331, <<"Please", Sp, "provide", Sp, "password">>)),
                 [code |-> ToString(331), port |-> 0])
  <2> DEFINE phrase == <<"Please", Sp, "provide", Sp, "password">>
  <2>1. phrase \in Seq(LineChars)
    BY <1>2
  <2>2. Sends(FtpText(FtpResponse(331, phrase)), [code |-> ToString(331), port |-> 0])
    BY <1>5
  <2> HIDE DEF phrase
  <2>3. FtpReads(Reply(331, phrase)) = [code |-> ToString(331), port |-> 0]
    BY <1>1, <2>1, PhraseIs
  <2> QED
    BY <1>1, <1>3, <2>1, <2>2, <2>3
<1>6. ASSUME NEW port \in Ports,
             Sends(FtpText(FtpResponse(227, <<"Entering", Sp>> \o Passive(<<127, 0, 0, 1>>, port))),
                   [code |-> ToString(227), port |-> port])
      PROVE  FtpRepliesInv'
  <2> DEFINE phrase == <<"Entering", Sp>> \o Passive(<<127, 0, 0, 1>>, port)
  <2>1. port \in Nat /\ port \div 256 < 256
    BY RepliesAssumption
  <2>2. phrase \in Seq(LineChars) /\ FtpReads(Reply(227, phrase)) = [code |-> ToString(227), port |-> port]
    BY <2>1, PortIs
  <2>3. Sends(FtpText(FtpResponse(227, phrase)), [code |-> ToString(227), port |-> port])
    BY <1>6
  <2> HIDE DEF phrase
  <2> QED
    BY <1>1, <1>3, <2>2, <2>3
<1> DEFINE A == Sends(FtpText(FtpResponse(500, <<>>)), [code |-> ToString(500), port |-> 0])
           B == Sends(FtpText(FtpResponse(331, <<"Please", Sp, "provide", Sp, "password">>)),
                      [code |-> ToString(331), port |-> 0])
           C(port) == Sends(FtpText(FtpResponse(227, <<"Entering", Sp>> \o Passive(<<127, 0, 0, 1>>, port))),
                            [code |-> ToString(227), port |-> port])
<1>7. A \/ B \/ \E port \in Ports : C(port)
  BY DEF RespondsFtp
<1>8. A => FtpRepliesInv'
  BY <1>4
<1>9. B => FtpRepliesInv'
  BY <1>5
<1>10. \A port \in Ports : C(port) => FtpRepliesInv'
  BY <1>6
<1> HIDE DEF A, B, C
<1> QED
  BY <1>7, <1>8, <1>9, <1>10

-----------------------------------------------------------------------------
(* The responses of HTTP: how the client cuts the stream.                  *)

(* A set of naturals that is not empty has the least element Min chooses. *)
LEMMA MinExists ==
  ASSUME NEW S \in SUBSET Nat, S # {}
  PROVE  Min(S) \in S /\ \A y \in S : Min(S) <= y
<1>1. PICK x \in S : \A y \in S : x <= y
  BY Least
<1>2. Min(S) = x
  BY <1>1, MinIs
<1> QED
  BY <1>1, <1>2

(* Where a response may end. *)
Lengths(text, k) ==
    LET lines == HeaderLines(text, k) IN
    {lines[j][4] : j \in {i \in 2 .. Len(lines) : lines[i][1] = "Content-Length"}}

Sizes(text, k) == {n \in 0 .. 2^SizeBits - 1 : ToString(n) \in Lengths(text, k)}

EndsOf(text, k) == {Len(text)} \cup {HeaderEnd(text, k) + 3 + n : n \in Sizes(text, k)}

LEMMA ResponseEnds ==
  ASSUME NEW text, NEW k
  PROVE  ResponseEnd(text, k) = Min(EndsOf(text, k))
BY DEF ResponseEnd, EndsOf, Sizes, Lengths

LEMMA SizesType ==
  ASSUME NEW text, NEW k
  PROVE  Sizes(text, k) \in SUBSET Nat
<1>1. 0 .. 2^SizeBits - 1 \in SUBSET Nat
  BY Bounds
<1> QED
  BY <1>1 DEF Sizes

(* It ends in the text, not before it begins. *)
LEMMA EndInText ==
  ASSUME NEW text \in Seq(Chars), NEW k \in 1 .. Len(text)
  PROVE  /\ HeaderEnd(text, k) \in k .. Len(text) + 1
         /\ HeaderEnd(text, k) = Len(text) + 1 \/ HeaderEnd(text, k) + 3 <= Len(text)
         /\ EndsOf(text, k) \in SUBSET Nat /\ ResponseEnd(text, k) \in EndsOf(text, k)
         /\ \A e \in EndsOf(text, k) : ResponseEnd(text, k) <= e
         /\ ResponseEnd(text, k) \in k .. Len(text)
<1> DEFINE f == HeaderEnd(text, k)
           e == ResponseEnd(text, k)
           S == EndsOf(text, k)
<1>1. f \in k .. Len(text) + 1 /\ (f = Len(text) + 1 \/ f + 3 <= Len(text))
  <2>1. k \in 1 .. Len(text) + 1 /\ EndOfHeader \in Seq(Chars) /\ Len(EndOfHeader) = 4
    BY Terminators
  <2>2. f \in k .. Len(text) + 1 /\ (f = Len(text) + 1 \/ At(text, EndOfHeader, f))
    <3> DEFINE d == EndOfHeader
    <3>1. d \in Seq(Chars) /\ Len(d) >= 1
      BY <2>1
    <3> HIDE DEF d
    <3>2. find(text, d, k) \in k .. Len(text) + 1 /\ (find(text, d, k) = Len(text) + 1 \/ At(text, d, find(text, d, k)))
      BY <2>1, <3>1, FindFinds
    <3> QED
      BY <3>2 DEF HeaderEnd, d
  <2>3. At(text, EndOfHeader, f) => f + 4 <= Len(text) + 1
    BY <2>1 DEF At
  <2> HIDE DEF f
  <2> QED
    BY <2>2, <2>3
<1>2. Len(text) \in S
  BY DEF EndsOf
<1>3. S \in SUBSET Nat /\ \A y \in S : k <= y
  <2>1. \A n \in Sizes(text, k) : n \in Nat
    BY SizesType
  <2> HIDE DEF f
  <2>2. \A n \in Sizes(text, k) : f + 3 + n \in Nat /\ k <= f + 3 + n
    BY <1>1, <2>1
  <2>3. S = {Len(text)} \cup {f + 3 + n : n \in Sizes(text, k)}
    BY DEF EndsOf, f
  <2> HIDE DEF S
  <2> QED
    BY <2>2, <2>3
<1>4. e = Min(S)
  BY ResponseEnds
<1> HIDE DEF f, e, S
<1>5. e \in S /\ \A y \in S : e <= y
  BY <1>2, <1>3, <1>4, MinExists
<1>6. e \in k .. Len(text)
  BY <1>2, <1>3, <1>5
<1> QED
  BY <1>1, <1>3, <1>5, <1>6 DEF f, e, S

(* The function of HttpResponses. *)
From(text) ==
    CHOOSE from : from =
      [k \in 1 .. Len(text) + 1 |->
         IF k > Len(text) THEN <<>> ELSE <<HttpReads(text, k)>> \o from[ResponseEnd(text, k) + 1]]

LEMMA ResponsesAre ==
  ASSUME NEW text
  PROVE  HttpResponses(text) = From(text)[1]
BY DEF HttpResponses, From

LEMMA FromEquation ==
  ASSUME NEW text \in Seq(Chars), NEW k \in 1 .. Len(text) + 1
  PROVE  From(text)[k] = IF k > Len(text) THEN <<>>
                         ELSE <<HttpReads(text, k)>> \o From(text)[ResponseEnd(text, k) + 1]
<1> DEFINE N == Len(text) + 1
           Ends == {N}
           base == [j \in 1 .. N |-> IF j > Len(text) THEN <<>> ELSE <<HttpReads(text, j)>>]
           next == [j \in 1 .. N |-> ResponseEnd(text, j) + 1]
           Equation(f) == f = [j \in 1 .. N |->
             IF j > Len(text) THEN <<>> ELSE <<HttpReads(text, j)>> \o f[ResponseEnd(text, j) + 1]]
<1>1. ASSUME NEW j \in 1 .. N, j \notin Ends PROVE next[j] \in (j + 1) .. N
  <2>1. j \in 1 .. Len(text)
    BY <1>1
  <2>2. ResponseEnd(text, j) \in j .. Len(text)
    BY <2>1, EndInText
  <2> QED
    BY <2>2
<1>2. N \in Nat
  OBVIOUS
<1>3. PICK f : Solves(f, N, base, next, Ends)
  <2> HIDE DEF N, Ends, base, next
  <2>1. GoesOn(N, next, Ends)
    BY <1>1, Zenon DEF GoesOn
  <2> QED
    BY <1>2, <2>1, Chain
<1>4. ASSUME NEW g, NEW j \in 1 .. N
      PROVE  Link(g, base, next, Ends, j) =
               IF j > Len(text) THEN <<>> ELSE <<HttpReads(text, j)>> \o g[ResponseEnd(text, j) + 1]
  BY DEF Link
<1>5. Equation(f)
  BY <1>3, <1>4 DEF Solves
<1>6. From(text) = CHOOSE g : Equation(g)
  BY DEF From
<1>7. Equation(From(text))
  <2> HIDE DEF Equation
  <2> QED
    BY <1>5, <1>6
<1> QED
  BY <1>7

(* The client reads a sequence of responses. *)
LEMMA ResponsesType ==
  ASSUME NEW text \in Seq(Chars)
  PROVE  \E T : HttpResponses(text) \in Seq(T)
<1> DEFINE N == Len(text) + 1
           T == {HttpReads(text, k) : k \in 1 .. Len(text)}
           S == {k \in 1 .. N : From(text)[k] \in Seq(T)}
<1>1. ASSUME NEW k \in 1 .. N, \A j \in (k + 1) .. N : j \in S
      PROVE  k \in S
  <2>1. From(text)[k] = IF k > Len(text) THEN <<>>
                        ELSE <<HttpReads(text, k)>> \o From(text)[ResponseEnd(text, k) + 1]
    BY FromEquation
  <2>2. CASE k > Len(text)
    <3>1. From(text)[k] = <<>>
      BY <2>1, <2>2
    <3> HIDE DEF T
    <3>2. <<>> \in Seq(T)
      OBVIOUS
    <3> QED
      BY <3>1, <3>2
  <2>3. CASE k <= Len(text)
    <3>1. k \in 1 .. Len(text) /\ ~(k > Len(text))
      BY <2>3
    <3>2. ResponseEnd(text, k) \in k .. Len(text)
      BY <3>1, EndInText
    <3>3. ResponseEnd(text, k) + 1 \in S
      BY <1>1, <3>2
    <3> DEFINE rest == From(text)[ResponseEnd(text, k) + 1]
               first == HttpReads(text, k)
    <3>4. rest \in Seq(T) /\ first \in T
      BY <3>1, <3>3
    <3>5. From(text)[k] = <<first>> \o rest
      BY <2>1, <3>1
    <3> HIDE DEF rest, first, T
    <3>6. <<first>> \o rest \in Seq(T)
      BY <3>4
    <3> QED
      BY <3>5, <3>6
  <2> QED
    BY <2>2, <2>3
<1>2. S = 1 .. N
  <2>1. S \in SUBSET (1 .. N) /\ N \in Nat
    OBVIOUS
  <2> HIDE DEF S, N
  <2> QED
    BY <1>1, <2>1, Backwards
<1>3. 1 \in S
  BY <1>2
<1>4. HttpResponses(text) \in Seq(T)
  BY <1>3, ResponsesAre
<1> HIDE DEF T
<1> QED
  BY <1>4

(* What lies before a text makes no difference to what the client reads.  *)
LEMMA HeaderShift ==
  ASSUME NEW a \in Seq(Chars), NEW b \in Seq(Chars), NEW k \in 1 .. Len(b)
  PROVE  /\ HeaderEnd(a \o b, Len(a) + k) = Len(a) + HeaderEnd(b, k)
         /\ HeaderLines(a \o b, Len(a) + k) = HeaderLines(b, k)
<1>1. EndOfHeader \in Seq(Chars) /\ Len(EndOfHeader) >= 1
  BY Terminators
<1>2. k \in 1 .. Len(b) + 1
  OBVIOUS
<1>3. HeaderEnd(a \o b, Len(a) + k) = Len(a) + HeaderEnd(b, k)
  <2> DEFINE d == EndOfHeader
  <2>1. d \in Seq(Chars) /\ Len(d) >= 1
    BY <1>1
  <2> HIDE DEF d
  <2>2. find(a \o b, d, Len(a) + k) = Len(a) + find(b, d, k)
    BY <1>2, <2>1, FindShift
  <2> QED
    BY <2>2 DEF HeaderEnd, d
<1>4. PICK f \in k .. Len(b) + 1 : f = HeaderEnd(b, k)
  BY EndInText
<1>5. f - 1 \in 0 .. Len(b)
  BY <1>4
<1>6. SubSeq(a \o b, Len(a) + k, Len(a) + (f - 1)) = SubSeq(b, k, f - 1)
  BY <1>2, <1>5, SubSeqShift
<1>7. HeaderEnd(a \o b, Len(a) + k) - 1 = Len(a) + (f - 1)
  <2>1. Len(a) \in Nat /\ f \in Nat
    BY <1>4
  <2> QED
    BY <1>3, <1>4, <2>1
<1>8. HeaderLines(a \o b, Len(a) + k) = HeaderLines(b, k)
  BY <1>4, <1>6, <1>7 DEF HeaderLines
<1> QED
  BY <1>3, <1>8

LEMMA EndShift ==
  ASSUME NEW a \in Seq(Chars), NEW b \in Seq(Chars), NEW k \in 1 .. Len(b)
  PROVE  ResponseEnd(a \o b, Len(a) + k) = Len(a) + ResponseEnd(b, k)
<1> DEFINE ab == a \o b
           l == Len(a) + k
           S == EndsOf(b, k)
           R == EndsOf(ab, l)
<1>1. PICK f \in Nat : f = HeaderEnd(b, k)
  BY EndInText
<1>2. PICK n \in Nat : n = Len(a)
  OBVIOUS
<1>3. HeaderEnd(ab, l) = n + f /\ HeaderLines(ab, l) = HeaderLines(b, k)
  BY <1>1, <1>2, HeaderShift
<1>4. Sizes(ab, l) = Sizes(b, k)
  <2> HIDE DEF ab, l
  <2> QED
    BY <1>3 DEF Sizes, Lengths
<1>5. PICK N \in Nat : N = Len(b) /\ Len(ab) = n + N
  BY <1>2, Joint
<1>6. S = {N} \cup {f + 3 + m : m \in Sizes(b, k)}
  BY <1>1, <1>5 DEF EndsOf
<1>7. R = {n + N} \cup {n + f + 3 + m : m \in Sizes(b, k)}
  <2> HIDE DEF ab, l
  <2> QED
    BY <1>3, <1>4, <1>5 DEF EndsOf
<1>8. /\ S \in SUBSET Nat /\ ResponseEnd(b, k) \in S
      /\ \A e \in S : ResponseEnd(b, k) <= e
  BY EndInText
<1>9. ResponseEnd(ab, l) = Min(R)
  BY ResponseEnds
<1>10. \A m \in Sizes(b, k) : m \in Nat
  BY SizesType
<1> HIDE DEF ab, l, S, R
<1>11. PICK e \in S : e = ResponseEnd(b, k) /\ e \in Nat /\ \A y \in S : e <= y
  BY <1>8
<1>12. R \in SUBSET Int /\ n + e \in R
  <2>1. n + N \in Int /\ \A m \in Sizes(b, k) : n + f + 3 + m \in Int
    BY <1>10
  <2>2. R \in SUBSET Int
    BY <1>7, <2>1
  <2>3. CASE e = N
    BY <1>7, <2>2, <2>3
  <2>4. ASSUME NEW m \in Sizes(b, k), e = f + 3 + m PROVE n + e \in R
    <3>1. m \in Nat /\ n + e = n + f + 3 + m
      BY <1>10, <2>4
    <3> QED
      BY <1>7, <3>1
  <2> QED
    BY <1>6, <1>11, <2>2, <2>3, <2>4
<1>13. \A y \in R : n + e <= y
  <2> TAKE y \in R
  <2>1. CASE y = n + N
    BY <1>6, <1>11, <2>1
  <2>2. CASE \E m \in Sizes(b, k) : y = n + f + 3 + m
    <3>1. PICK m \in Sizes(b, k) : y = n + f + 3 + m
      BY <2>2
    <3>2. f + 3 + m \in S /\ m \in Nat
      BY <1>6, <1>10
    <3> QED
      BY <1>11, <3>1, <3>2
  <2> QED
    BY <1>7, <2>1, <2>2
<1>14. Min(R) = n + e
  BY <1>12, <1>13, MinIs
<1> QED
  BY <1>2, <1>9, <1>11, <1>14 DEF ab, l

LEMMA ReadsShift ==
  ASSUME NEW a \in Seq(Chars), NEW b \in Seq(Chars), NEW k \in 1 .. Len(b)
  PROVE  HttpReads(a \o b, Len(a) + k) = HttpReads(b, k)
<1>1. /\ HeaderEnd(a \o b, Len(a) + k) = Len(a) + HeaderEnd(b, k)
      /\ HeaderLines(a \o b, Len(a) + k) = HeaderLines(b, k)
  BY HeaderShift
<1>2. ResponseEnd(a \o b, Len(a) + k) = Len(a) + ResponseEnd(b, k)
  BY EndShift
<1>3. PICK f \in k .. Len(b) + 1 : f = HeaderEnd(b, k) /\ (f = Len(b) + 1 \/ f + 3 <= Len(b))
  BY EndInText
<1>4. PICK e \in k .. Len(b) : e = ResponseEnd(b, k)
  BY EndInText
<1>5. SubSeq(a \o b, Len(a) + (f + 4), Len(a) + e) = SubSeq(b, f + 4, e)
  <2>1. CASE f = Len(b) + 1
    <3> DEFINE ab == a \o b
    <3>1. PICK i \in Nat : i = f + 4
      BY <1>3
    <3>2. PICK m \in Nat, j \in Nat : m = Len(a) + i /\ j = Len(a) + e
      BY <1>4
    <3>3. i > e /\ m > j
      BY <1>4, <2>1, <3>1, <3>2
    <3>4. SubSeq(b, i, e) = <<>>
      BY <1>4, <3>1, <3>3
    <3> HIDE DEF ab
    <3>5. SubSeq(ab, m, j) = <<>>
      BY <3>2, <3>3
    <3> QED
      BY <3>1, <3>2, <3>4, <3>5 DEF ab
  <2>2. CASE f + 3 <= Len(b)
    <3>1. f + 4 \in 1 .. Len(b) + 1 /\ e \in 0 .. Len(b)
      BY <1>3, <1>4, <2>2
    <3> QED
      BY <3>1, SubSeqShift
  <2> QED
    BY <1>3, <2>1, <2>2
<1>6. HeaderEnd(a \o b, Len(a) + k) + 4 = Len(a) + (f + 4)
  <2>1. Len(a) \in Nat /\ f \in Nat
    BY <1>3
  <2> QED
    BY <1>1, <1>3, <2>1
<1> QED
  BY <1>1, <1>2, <1>3, <1>4, <1>5, <1>6 DEF HttpReads

LEMMA FromShift ==
  ASSUME NEW a \in Seq(Chars), NEW b \in Seq(Chars), NEW start \in 1 .. Len(b) + 1
  PROVE  From(a \o b)[Len(a) + start] = From(b)[start]
<1> DEFINE ab == a \o b
           N == Len(b) + 1
           S == {k \in 1 .. N : From(ab)[Len(a) + k] = From(b)[k]}
<1>1. ab \in Seq(Chars) /\ Len(ab) = Len(a) + Len(b)
  BY Joint
<1>2. ASSUME NEW k \in 1 .. N, \A j \in (k + 1) .. N : j \in S
      PROVE  k \in S
  <2>1. From(b)[k] = IF k > Len(b) THEN <<>>
                     ELSE <<HttpReads(b, k)>> \o From(b)[ResponseEnd(b, k) + 1]
    BY FromEquation
  <2>2. PICK l \in 1 .. Len(ab) + 1 : l = Len(a) + k /\ (l > Len(ab) <=> k > Len(b))
    <3>1. Len(a) \in Nat /\ Len(b) \in Nat /\ Len(ab) = Len(a) + Len(b)
      BY <1>1
    <3> HIDE DEF ab
    <3> QED
      BY <3>1
  <2>3. From(ab)[l] = IF l > Len(ab) THEN <<>>
                      ELSE <<HttpReads(ab, l)>> \o From(ab)[ResponseEnd(ab, l) + 1]
    <3> HIDE DEF ab
    <3> QED
      BY <1>1, FromEquation
  <2>4. CASE k > Len(b)
    BY <2>1, <2>2, <2>3, <2>4
  <2>5. CASE k <= Len(b)
    <3>1. k \in 1 .. Len(b) /\ ~(k > Len(b))
      BY <2>5
    <3>2. PICK e \in k .. Len(b) : e = ResponseEnd(b, k)
      BY <3>1, EndInText
    <3>3. HttpReads(ab, l) = HttpReads(b, k)
      BY <2>2, <3>1, ReadsShift
    <3>4. ResponseEnd(ab, l) = Len(a) + e
      BY <2>2, <3>1, <3>2, EndShift
    <3>5. ResponseEnd(ab, l) + 1 = Len(a) + (e + 1)
      <4>1. Len(a) \in Nat /\ e \in Nat
        BY <3>2
      <4> QED
        BY <3>4, <4>1
    <3>6. From(ab)[Len(a) + (e + 1)] = From(b)[e + 1]
      <4>1. e + 1 \in (k + 1) .. N
        BY <3>2
      <4>2. e + 1 \in S
        BY <1>2, <4>1
      <4> QED
        BY <4>2
    <3> HIDE DEF ab
    <3> QED
      BY <2>1, <2>2, <2>3, <3>1, <3>2, <3>3, <3>5, <3>6
  <2>6. k > Len(b) \/ k <= Len(b)
    OBVIOUS
  <2>7. From(ab)[Len(a) + k] = From(b)[k]
    <3> HIDE DEF ab
    <3> QED
      BY <2>2, <2>4, <2>5, <2>6
  <2> QED
    BY <2>7
<1>3. S = 1 .. N
  <2>1. S \in SUBSET (1 .. N) /\ N \in Nat
    OBVIOUS
  <2> HIDE DEF S, N
  <2> QED
    BY <1>2, <2>1, Backwards
<1> QED
  BY <1>3

(* A response whose header ends where the text says, and whose length it   *)
(* gives, is read to its end, whatever comes behind it.                    *)
HeaderText(ls, x) == Joined(ls) \o (CRLF \o x)

Announced(ls) == {ls[j][4] : j \in {i \in 2 .. Len(ls) : ls[i][1] = "Content-Length"}}

LEMMA HeaderTextIs ==
  ASSUME NEW ls \in Seq(Lines), NEW x \in Seq(Chars), NEW rest \in Seq(Chars)
  PROVE  /\ HeaderText(ls, x) \in Seq(Chars) /\ Len(HeaderText(ls, x)) = Len(Joined(ls)) + 2 + Len(x)
         /\ HeaderText(ls, x) \o rest = Joined(ls) \o (CRLF \o (x \o rest))
         /\ HeaderText(ls, x) \o rest = (Joined(ls) \o CRLF) \o (x \o rest)
<1> DEFINE j == Joined(ls)
           cx == CRLF \o x
           xr == x \o rest
<1>1. j \in Seq(Chars) /\ CRLF \in Seq(Chars) /\ Len(CRLF) = 2
  BY LinesType, Terminators
<1> HIDE DEF j
<1>2. cx \in Seq(Chars) /\ Len(cx) = Len(CRLF) + Len(x) /\ xr \in Seq(Chars)
  BY <1>1, Joint
<1>3. Associates(CRLF, x, rest)
  BY <1>1, Association
<1> HIDE DEF cx, xr
<1>4. j \o cx \in Seq(Chars) /\ Len(j \o cx) = Len(j) + Len(cx)
  BY <1>1, <1>2, Joint
<1>5. Associates(j, cx, rest)
  BY <1>1, <1>2, Association
<1>6. Associates(j, CRLF, xr)
  BY <1>1, <1>2, Association
<1>7. cx \o rest = CRLF \o xr
  BY <1>3 DEF Associates, cx, xr
<1>8. (j \o cx) \o rest = j \o (CRLF \o xr) /\ (j \o cx) \o rest = (j \o CRLF) \o xr
  BY <1>5, <1>6, <1>7 DEF Associates
<1>9. HeaderText(ls, x) = j \o cx
  BY DEF HeaderText, j, cx
<1>10. Len(j) + Len(cx) = Len(j) + 2 + Len(x)
  <2>1. Len(j) \in Nat /\ Len(x) \in Nat
    BY <1>1
  <2> QED
    BY <1>1, <1>2, <2>1
<1> QED
  BY <1>4, <1>8, <1>9, <1>10 DEF j, xr

LEMMA HeaderLinesAre ==
  ASSUME NEW ls \in Seq(Lines), ls # <<>>, NEW x \in Seq(Chars), NEW rest \in Seq(Chars)
  PROVE  LET w == HeaderText(ls, x) \o rest IN
         HeaderEnd(w, 1) = Len(Joined(ls)) - 1 /\ HeaderLines(w, 1) = ls
<1> DEFINE xr == x \o rest
           w == HeaderText(ls, x) \o rest
<1>1. xr \in Seq(Chars) /\ w = Joined(ls) \o (CRLF \o xr)
  BY Joint, HeaderTextIs
<1> HIDE DEF xr, w
<1>2. Len(Joined(ls)) \in Nat /\ Len(Joined(ls)) >= 3 /\ HeaderEnd(w, 1) = Len(Joined(ls)) - 1
  BY <1>1, JoinedHeader DEF HeaderEnds, HeaderEnd
<1>3. PICK n \in Nat : Len(ls) = n + 1
  <2>1. Len(ls) # 0 /\ Len(ls) \in Nat
    OBVIOUS
  <2>2. Len(ls) - 1 \in Nat /\ Len(ls) = (Len(ls) - 1) + 1
    BY <2>1
  <2> QED
    BY <2>2
<1> DEFINE front == [k \in 1 .. n |-> ls[k]]
           last == ls[n + 1]
           h == Joined(front) \o last
<1>4. last \in Lines /\ front \in Seq(Lines) /\ Len(front) = n
  <2>1. \A k \in 1 .. n + 1 : ls[k] \in Lines
    BY <1>3
  <2> QED
    BY <2>1
<1>5. ls = Append(front, last)
  <2>1. /\ Append(front, last) \in Seq(Lines) /\ Len(Append(front, last)) = n + 1
        /\ \A k \in 1 .. n : Append(front, last)[k] = front[k]
        /\ Append(front, last)[n + 1] = last
    BY <1>4, AppendProperties
  <2>2. \A k \in 1 .. n : front[k] = ls[k]
    OBVIOUS
  <2> HIDE DEF front
  <2>3. \A k \in 1 .. Len(ls) : ls[k] = Append(front, last)[k]
    <3> TAKE k \in 1 .. Len(ls)
    <3>1. k = n + 1 \/ k \in 1 .. n
      BY <1>3
    <3> QED
      BY <2>1, <2>2, <3>1
  <2> QED
    BY <1>3, <2>1, <2>3, SeqEqual
<1> HIDE DEF front
<1>6. last \in Seq(Chars) /\ Free(last, "\r") /\ front \in Seq(Seq(Chars)) /\ Joined(front) \in Seq(Chars)
  BY <1>4, LinesType DEF Lines
<1>7. Joined(ls) = Joined(front) \o (last \o CRLF)
  BY <1>5, <1>6, JoinedAppend
<1> HIDE DEF last
<1>8. CRLF \in Seq(Chars) /\ Len(CRLF) = 2 /\ CRLF[1] = "\r"
  BY Terminators
<1>9. h \in Seq(Chars)
  BY <1>6, Joint
<1>10. Joined(ls) = h \o CRLF
  <2>1. Associates(Joined(front), last, CRLF)
    BY <1>6, <1>8, Association
  <2> QED
    BY <1>7, <2>1 DEF Associates
<1> HIDE DEF h
<1>11. Len(Joined(ls)) = Len(h) + 2 /\ Len(h) \in Nat
  <2>1. Len(h \o CRLF) = Len(h) + Len(CRLF)
    BY <1>8, <1>9, Joint
  <2>2. Len(h) \in Nat
    BY <1>9
  <2> QED
    BY <1>8, <1>10, <2>1, <2>2
<1>12. SubSeq(w, 1, Len(h)) = h
  <2> DEFINE y == CRLF \o xr
             cy == CRLF \o y
  <2>1. y \in Seq(Chars)
    BY <1>1, <1>8, Joint
  <2> HIDE DEF y
  <2>2. cy \in Seq(Chars)
    BY <1>8, <2>1, Joint
  <2>3. Associates(h, CRLF, y)
    BY <1>8, <1>9, <2>1, Association
  <2>4. w = h \o cy
    BY <1>1, <1>10, <2>3 DEF Associates, y
  <2> HIDE DEF cy
  <2>5. SubSeq(h \o cy, 1, Len(h)) = h
    BY <1>9, <2>2, ReadsFirst
  <2> QED
    BY <2>4, <2>5
<1>13. HeaderEnd(w, 1) - 1 = Len(h)
  BY <1>2, <1>11
<1>14. h # <<>>
  BY <1>2, <1>11
<1>15. split(h, CRLF) = Cut(h, CRLF)
  BY <1>14, SplitCuts
<1>16. Cut(h, CRLF) = front \o Cut(last, CRLF)
  BY <1>4, <1>6, CutJoined DEF h
<1>17. Cut(last, CRLF) = <<last>>
  <2>1. Free(last, CRLF[1]) /\ Len(CRLF) >= 1
    BY <1>6, <1>8
  <2>2. last \in Seq(Chars) /\ CRLF \in Seq(Chars)
    BY <1>6, <1>8
  <2> QED
    BY <2>1, <2>2, CutLast
<1>18. front \o <<last>> = Append(front, last)
  BY <1>4
<1>19. HeaderLines(w, 1) = ls
  BY <1>5, <1>12, <1>13, <1>15, <1>16, <1>17, <1>18 DEF HeaderLines
<1> QED
  BY <1>2, <1>19 DEF w

LEMMA ResponseRead ==
  ASSUME NEW ls \in Seq(Lines), ls # <<>>, NEW x \in Seq(Chars), NEW rest \in Seq(Chars),
         Len(x) < 2^SizeBits, Announced(ls) = {ToString(Len(x))}
  PROVE  LET w == HeaderText(ls, x) \o rest IN
         /\ ResponseEnd(w, 1) = Len(HeaderText(ls, x))
         /\ HttpReads(w, 1) = [status |-> ls[1][4], resource |-> x]
<1> DEFINE t == HeaderText(ls, x)
           w == t \o rest
           j == Joined(ls)
           xr == x \o rest
<1>1. t \in Seq(Chars) /\ Len(t) = Len(j) + 2 + Len(x) /\ w = (j \o CRLF) \o xr /\ xr \in Seq(Chars)
  BY HeaderTextIs, Joint
<1>2. HeaderEnd(w, 1) = Len(j) - 1 /\ HeaderLines(w, 1) = ls
  BY HeaderLinesAre
<1>3. j \in Seq(Chars) /\ CRLF \in Seq(Chars) /\ Len(CRLF) = 2
  BY LinesType, Terminators
<1> HIDE DEF t, j
<1>4. Len(w) = Len(t) + Len(rest)
  BY <1>1, Joint
<1> HIDE DEF w, xr
<1>5. PICK m \in Nat, p \in Nat, q \in Nat : m = Len(j) /\ p = Len(x) /\ q = Len(rest)
  <2>1. Len(j) \in Nat
    BY <1>3
  <2>2. Len(x) \in Nat /\ Len(rest) \in Nat
    OBVIOUS
  <2> QED
    BY <2>1, <2>2
<1>6. Sizes(w, 1) = {p}
  <2>1. Lengths(w, 1) = {ToString(p)}
    BY <1>2, <1>5 DEF Lengths, Announced
  <2>2. 2^SizeBits \in Nat /\ p \in 0 .. 2^SizeBits - 1
    BY <1>5, Bounds
  <2>3. \A n \in 0 .. 2^SizeBits - 1 : n \in Numbers
    BY <2>2, Bounds
  <2>4. \A n \in 0 .. 2^SizeBits - 1 : ToString(n) = ToString(p) => n = p
    BY <2>2, <2>3, NumbersAssumption
  <2> QED
    BY <2>1, <2>2, <2>4 DEF Sizes
<1>7. EndsOf(w, 1) = {m + 2 + p + q} \cup {m + 2 + p}
  <2>1. Len(w) = m + 2 + p + q
    BY <1>1, <1>4, <1>5
  <2>2. HeaderEnd(w, 1) + 3 + p = m + 2 + p
    BY <1>2, <1>5
  <2>3. EndsOf(w, 1) = {Len(w)} \cup {HeaderEnd(w, 1) + 3 + n : n \in {p}}
    BY <1>6 DEF EndsOf
  <2> QED
    BY <2>1, <2>2, <2>3
<1>8. Min({m + 2 + p + q} \cup {m + 2 + p}) = m + 2 + p
  <2> DEFINE S == {m + 2 + p + q} \cup {m + 2 + p}
  <2>1. S \in SUBSET Int /\ m + 2 + p \in S /\ \A y \in S : m + 2 + p <= y
    OBVIOUS
  <2> HIDE DEF S
  <2>2. Min(S) = m + 2 + p
    BY <2>1, MinIs
  <2> QED
    BY <2>2 DEF S
<1>9. ResponseEnd(w, 1) = m + 2 + p
  BY <1>7, <1>8, ResponseEnds
<1>10. ResponseEnd(w, 1) = Len(t)
  BY <1>1, <1>5, <1>9
<1>11. SubSeq(w, HeaderEnd(w, 1) + 4, ResponseEnd(w, 1)) = x
  <2> DEFINE a == j \o CRLF
  <2>1. a \in Seq(Chars) /\ Len(a) = Len(j) + Len(CRLF)
    BY <1>3, Joint
  <2> HIDE DEF a
  <2>2. Len(a) + 1 = HeaderEnd(w, 1) + 4 /\ Len(a) + p = ResponseEnd(w, 1)
    BY <1>2, <1>3, <1>5, <1>9, <2>1
  <2>3. Len(xr) = p + q
    BY <1>5, Joint DEF xr
  <2>4. 1 \in 1 .. Len(xr) + 1 /\ p \in 0 .. Len(xr)
    BY <2>3
  <2>5. SubSeq(a \o xr, Len(a) + 1, Len(a) + p) = SubSeq(xr, 1, p)
    <3>1. PICK u \in Seq(Chars), v \in Seq(Chars) : u = a /\ v = xr
      BY <1>1, <2>1
    <3>2. 1 \in 1 .. Len(v) + 1 /\ p \in 0 .. Len(v)
      BY <2>4, <3>1
    <3>3. Shifted(u, v, 1, p)
      BY <3>2, SubSeqShifted
    <3> QED
      BY <3>1, <3>3 DEF Shifted
  <2>6. SubSeq(xr, 1, p) = x
    BY <1>5, ReadsFirst DEF xr
  <2> QED
    BY <1>1, <2>2, <2>5, <2>6 DEF a
<1>12. HttpReads(w, 1) = [status |-> ls[1][4], resource |-> x]
  BY <1>2, <1>11 DEF HttpReads
<1> QED
  BY <1>10, <1>12 DEF w, t

(* The client takes one response from the front of the stream. *)
LEMMA ResponsePeeled ==
  ASSUME NEW ls \in Seq(Lines), ls # <<>>, NEW x \in Seq(Chars), NEW rest \in Seq(Chars),
         Len(x) < 2^SizeBits, Announced(ls) = {ToString(Len(x))}
  PROVE  HttpResponses(HeaderText(ls, x) \o rest)
           = <<[status |-> ls[1][4], resource |-> x]>> \o HttpResponses(rest)
<1> DEFINE t == HeaderText(ls, x)
           w == t \o rest
           says == [status |-> ls[1][4], resource |-> x]
<1>1. t \in Seq(Chars) /\ Len(t) >= 2
  <2>1. t \in Seq(Chars) /\ Len(t) = Len(Joined(ls)) + 2 + Len(x)
    BY HeaderTextIs
  <2>2. Len(Joined(ls)) \in Nat /\ Len(x) \in Nat
    BY LinesType
  <2> QED
    BY <2>1, <2>2
<1>2. ResponseEnd(w, 1) = Len(t) /\ HttpReads(w, 1) = says
  BY ResponseRead
<1> HIDE DEF t, says
<1>3. w \in Seq(Chars) /\ Len(w) = Len(t) + Len(rest)
  BY <1>1, Joint
<1>4. From(t \o rest)[Len(t) + 1] = From(rest)[1]
  <2>1. 1 \in 1 .. Len(rest) + 1
    OBVIOUS
  <2> QED
    BY <1>1, <2>1, FromShift
<1>5. From(w)[1] = IF 1 > Len(w) THEN <<>> ELSE <<HttpReads(w, 1)>> \o From(w)[ResponseEnd(w, 1) + 1]
  <2> HIDE DEF w
  <2>1. 1 \in 1 .. Len(w) + 1
    BY <1>3
  <2> QED
    BY <1>3, <2>1, FromEquation
<1>6. ~(1 > Len(w))
  <2> HIDE DEF w
  <2> QED
    BY <1>1, <1>3
<1> HIDE DEF w
<1>7. From(w)[1] = <<says>> \o From(rest)[1]
  BY <1>2, <1>4, <1>5, <1>6 DEF w
<1> QED
  BY <1>7, ResponsesAre DEF w, t, says

(* The text of a response: a line for the status, one for each field, an   *)
(* empty one, and the resource.                                            *)
StatusLine(s) == <<"HTTP", "/1.1", Sp, ToString(s), Sp>> \o kStatusToReason[s]

FieldOf(header) == <<header[1], ":", Sp, header[2]>>

AnnouncedBy(headers) ==
    {headers[k][2] : k \in {i \in 1 .. Len(headers) : headers[i][1] = "Content-Length"}}

ResponseLines(s, headers) == <<StatusLine(s)>> \o [k \in 1 .. Len(headers) |-> FieldOf(headers[k])]

LEMMA StatusLineIs ==
  ASSUME NEW s \in HttpStatus, s <= 599
  PROVE  StatusLine(s) \in Lines /\ StatusLine(s)[4] = ToString(s)
<1> DEFINE a == <<"HTTP", "/1.1", Sp, ToString(s), Sp>>
           b == kStatusToReason[s]
<1>1. s \in Numbers
  <2>1. s \in Nat
    BY DEF HttpStatus
  <2> QED
    BY <2>1, Bounds
<1>2. ToString(s) \in LineChars
  BY <1>1, NumbersAreWords, WordsAreWords
<1>3. a \in Seq(LineChars) /\ Len(a) = 5 /\ a[4] = ToString(s)
  BY <1>2, Literal, Blanks, WordsAreWords
<1>4. b \in Seq(LineChars)
  <2>1. b = <<"reason", Sp, "phrase">>
    BY DEF kStatusToReason
  <2> QED
    BY <2>1, Literal, Blanks, WordsAreWords
<1>5. StatusLine(s) = a \o b
  BY DEF StatusLine
<1> HIDE DEF a, b
<1>6. a \in Seq(LineChars) /\ b \in Seq(LineChars)
  BY <1>3, <1>4
<1> DEFINE l == a \o b
<1>7. l \in Seq(LineChars) /\ Len(l) = Len(a) + Len(b) /\ \A i \in 1 .. Len(a) : l[i] = a[i]
  BY <1>6, Joint
<1> HIDE DEF l
<1>8. l \in Lines
  <2>1. "\r" \notin LineChars /\ LineChars \subseteq Chars
    BY WordsAreWords DEF LineChars
  <2>2. Free(l, "\r") /\ l \in Seq(Chars)
    BY <1>7, <2>1, FreeOf, SeqMonotonic
  <2>3. Len(b) \in Nat
    BY <1>6
  <2>4. Len(l) >= 1
    BY <1>3, <1>7, <2>3
  <2> QED
    BY <2>2, <2>4 DEF Lines
<1>9. l[4] = ToString(s)
  <2>1. 4 \in 1 .. Len(a)
    BY <1>3
  <2> QED
    BY <1>3, <1>7, <2>1
<1> QED
  BY <1>5, <1>8, <1>9 DEF l

LEMMA FieldOfIs ==
  ASSUME NEW header \in WordChars \X LineChars
  PROVE  /\ FieldOf(header) \in Lines
         /\ FieldOf(header)[1] = header[1] /\ FieldOf(header)[4] = header[2]
<1> DEFINE l == FieldOf(header)
<1>1. header[1] \in LineChars /\ header[2] \in LineChars
  BY WordsAreWords
<1>2. l \in Seq(LineChars) /\ Len(l) = 4 /\ l[1] = header[1] /\ l[4] = header[2]
  BY <1>1, Blanks DEF FieldOf
<1> HIDE DEF l
<1>3. "\r" \notin LineChars /\ LineChars \subseteq Chars
  BY WordsAreWords DEF LineChars
<1>4. Free(l, "\r") /\ l \in Seq(Chars)
  BY <1>2, <1>3, FreeOf, SeqMonotonic
<1>5. l \in Lines
  BY <1>2, <1>4 DEF Lines
<1> QED
  BY <1>2, <1>5 DEF l

LEMMA ResponseText ==
  ASSUME NEW s \in HttpStatus, s <= 599, NEW headers \in Seq(WordChars \X LineChars), NEW x \in Seq(Chars)
  PROVE  /\ ResponseLines(s, headers) \in Seq(Lines) /\ ResponseLines(s, headers) # <<>>
         /\ ResponseLines(s, headers)[1][4] = ToString(s)
         /\ Announced(ResponseLines(s, headers)) = AnnouncedBy(headers)
         /\ HttpText(HttpResponse(s, headers, x)) = HeaderText(ResponseLines(s, headers), x)
<1> DEFINE first == StatusLine(s)
           fs == [k \in 1 .. Len(headers) |-> FieldOf(headers[k])]
           ls == ResponseLines(s, headers)
<1>1. first \in Lines /\ first[4] = ToString(s)
  BY StatusLineIs
<1>2. PICK n \in Nat : n = Len(headers)
  OBVIOUS
<1>3. \A k \in 1 .. n : headers[k] \in WordChars \X LineChars
  BY <1>2
<1>4. \A k \in 1 .. n : FieldOf(headers[k]) \in Lines
  BY <1>3, FieldOfIs
<1>5. fs \in Seq(Lines) /\ Len(fs) = n /\ \A k \in 1 .. n : fs[k] = FieldOf(headers[k])
  BY <1>2, <1>4
<1>6. ls = <<first>> \o fs
  BY DEF ResponseLines
<1> HIDE DEF first, fs, ls
<1>7. <<first>> \in Seq(Lines) /\ Len(<<first>>) = 1 /\ <<first>>[1] = first
  BY <1>1
<1>8. ls \in Seq(Lines) /\ Len(ls) = n + 1 /\ ls[1] = first /\ \A k \in 1 .. n : ls[k + 1] = fs[k]
  <2> DEFINE one == <<first>>
  <2>1. one \in Seq(Lines) /\ Len(one) = 1 /\ one[1] = first
    BY <1>7
  <2> HIDE DEF one
  <2>2. one \in Seq(Lines) /\ fs \in Seq(Lines)
    BY <1>5, <2>1
  <2>3. /\ one \o fs \in Seq(Lines) /\ Len(one \o fs) = Len(one) + Len(fs)
        /\ \A i \in 1 .. Len(one) : (one \o fs)[i] = one[i]
        /\ \A i \in 1 .. Len(fs) : (one \o fs)[Len(one) + i] = fs[i]
    BY <2>2, Joint
  <2> DEFINE of == one \o fs
  <2>4. ls = of
    BY <1>6 DEF one
  <2> HIDE DEF of
  <2>5. of \in Seq(Lines) /\ Len(of) = 1 + n /\ of[1] = one[1] /\ \A i \in 1 .. n : of[1 + i] = fs[i]
    BY <1>5, <2>1, <2>3 DEF of
  <2>6. \A i \in 1 .. n : 1 + i = i + 1
    OBVIOUS
  <2> QED
    BY <2>1, <2>4, <2>5, <2>6
<1>9. Announced(ls) = AnnouncedBy(headers)
  <2> DEFINE A == Announced(ls)
             B == {headers[k][2] : k \in {i \in 1 .. n : headers[i][1] = "Content-Length"}}
  <2>1. \A k \in 1 .. n : ls[k + 1][1] = headers[k][1] /\ ls[k + 1][4] = headers[k][2]
    BY <1>3, <1>5, <1>8, FieldOfIs
  <2>2. A = {ls[j][4] : j \in {i \in 2 .. n + 1 : ls[i][1] = "Content-Length"}}
    BY <1>8 DEF Announced
  <2>3. \A j \in 2 .. n + 1 : j - 1 \in 1 .. n /\ (j - 1) + 1 = j
    OBVIOUS
  <2>4. \A k \in 1 .. n : k + 1 \in 2 .. n + 1
    OBVIOUS
  <2>5. ASSUME NEW y \in A PROVE y \in B
    <3>1. PICK j \in 2 .. n + 1 : ls[j][1] = "Content-Length" /\ y = ls[j][4]
      BY <2>2
    <3>2. j - 1 \in 1 .. n /\ ls[j][1] = headers[j - 1][1] /\ ls[j][4] = headers[j - 1][2]
      BY <2>1, <2>3
    <3> QED
      BY <3>1, <3>2
  <2>6. ASSUME NEW y \in B PROVE y \in A
    <3>1. PICK k \in 1 .. n : headers[k][1] = "Content-Length" /\ y = headers[k][2]
      OBVIOUS
    <3>2. k + 1 \in 2 .. n + 1 /\ ls[k + 1][1] = "Content-Length" /\ y = ls[k + 1][4]
      BY <2>1, <2>4, <3>1
    <3> QED
      BY <2>2, <3>2
  <2>7. A = B
    BY <2>5, <2>6
  <2> QED
    BY <1>2, <2>7 DEF AnnouncedBy
<1>10. HttpText(HttpResponse(s, headers, x))
         = (((first \o CRLF) \o Joined(fs)) \o CRLF) \o x
  <2>1. FlattenSeq([k \in 1 .. Len(headers) |-> FieldOf(headers[k]) \o CRLF]) = Joined(fs)
    <3>1. [k \in 1 .. Len(headers) |-> FieldOf(headers[k]) \o CRLF] = [k \in 1 .. Len(fs) |-> fs[k] \o CRLF]
      BY <1>2, <1>5
    <3> QED
      BY <3>1 DEF Joined, Ended
  <2>2. HttpText(HttpResponse(s, headers, x))
          = (((first \o CRLF) \o FlattenSeq([k \in 1 .. Len(headers) |-> FieldOf(headers[k]) \o CRLF])) \o CRLF) \o x
    BY DEF HttpText, HttpResponse, first, StatusLine, FieldOf
  <2> QED
    BY <2>1, <2>2
<1>11. fs \in Seq(Seq(Chars)) /\ first \in Seq(Chars) /\ Joined(ls) \in Seq(Chars) /\ CRLF \in Seq(Chars)
  BY <1>1, <1>5, <1>8, LinesType, Terminators DEF Lines
<1>12. Joined(ls) = (first \o CRLF) \o Joined(fs)
  BY <1>6, <1>11, JoinedCons
<1>13. HttpText(HttpResponse(s, headers, x)) = HeaderText(ls, x)
  <2>1. Associates(Joined(ls), CRLF, x)
    BY <1>11, Association
  <2> QED
    BY <1>10, <1>12, <2>1 DEF Associates, HeaderText
<1>14. ls # <<>>
  BY <1>8
<1>15. ls[1][4] = ToString(s)
  BY <1>1, <1>8
<1> QED
  BY <1>8, <1>9, <1>13, <1>14, <1>15 DEF ls

(* The inductive invariant of the responses of HTTP: the client reads what *)
(* the stream has so far as the replies, and goes on with what comes next. *)
HttpRepliesInv ==
  protocol = "Http" =>
    /\ stream \in Seq(Chars)
    /\ \A rest \in Seq(Chars) : HttpResponses(stream \o rest) = replies \o HttpResponses(rest)

Peels(t, says) == \A rest \in Seq(Chars) : HttpResponses(t \o rest) = <<says>> \o HttpResponses(rest)

LEMMA HttpSends ==
  ASSUME replies \in Seq(Items(replies)), HttpRepliesInv, protocol = "Http", protocol' = protocol,
         NEW t \in Seq(Chars), NEW says,
         Peels(t, says), replies' = Append(replies, says), stream' = stream \o t
  PROVE  HttpRepliesInv'
<1>1. stream \in Seq(Chars) /\ \A rest \in Seq(Chars) : HttpResponses(stream \o rest) = replies \o HttpResponses(rest)
  BY DEF HttpRepliesInv
<1>2. stream' \in Seq(Chars)
  BY <1>1, Joint
<1>3. ASSUME NEW rest \in Seq(Chars)
      PROVE  HttpResponses(stream' \o rest) = replies' \o HttpResponses(rest)
  <2> DEFINE tr == t \o rest
             later == HttpResponses(rest)
             one == <<says>>
  <2>1. tr \in Seq(Chars)
    BY Joint
  <2>2. Associates(stream, t, rest)
    BY <1>1, Association
  <2>3. HttpResponses(tr) = one \o later
    BY DEF Peels
  <2>4. PICK T : later \in Seq(T)
    BY ResponsesType
  <2> HIDE DEF tr, later
  <2>5. HttpResponses(stream \o tr) = replies \o (one \o later)
    BY <1>1, <2>1, <2>3
  <2>6. HttpResponses((stream \o t) \o rest) = replies \o (one \o later)
    BY <2>2, <2>5 DEF Associates, tr
  <2> DEFINE U == (Items(replies) \cup {says}) \cup T
  <2>7. replies \in Seq(U) /\ later \in Seq(U) /\ says \in U
    <3>1. Items(replies) \subseteq U /\ T \subseteq U
      OBVIOUS
    <3> HIDE DEF U
    <3>2. replies \in Seq(U)
      BY <3>1, SeqMonotonic
    <3>3. later \in Seq(U)
      BY <2>4, <3>1, SeqMonotonic
    <3>4. says \in U
      BY DEF U
    <3> QED
      BY <3>2, <3>3, <3>4
  <2> HIDE DEF U
  <2>8. one \in Seq(U) /\ replies \o one = Append(replies, says)
    BY <2>7
  <2> HIDE DEF one
  <2>9. Associates(replies, one, later)
    BY <2>7, <2>8, Association
  <2>10. HttpResponses(stream' \o rest) = replies' \o later
    BY <2>6, <2>8, <2>9 DEF Associates
  <2> QED
    BY <2>10 DEF later
<1> QED
  BY <1>2, <1>3 DEF HttpRepliesInv

SendsResponse(s, headers, x) ==
    Sends(HttpText(HttpResponse(s, headers, x)), [status |-> ToString(s), resource |-> x])

LEMMA HttpSendsText ==
  ASSUME replies \in Seq(Items(replies)), HttpRepliesInv, protocol = "Http",
         NEW s \in HttpStatus, s <= 599, NEW headers \in Seq(WordChars \X LineChars), NEW x \in Seq(Chars),
         Len(x) < 2^SizeBits, AnnouncedBy(headers) = {ToString(Len(x))}, SendsResponse(s, headers, x)
  PROVE  HttpRepliesInv'
<1> DEFINE ls == ResponseLines(s, headers)
           t == HeaderText(ls, x)
           says == [status |-> ToString(s), resource |-> x]
<1>1. /\ ls \in Seq(Lines) /\ ls # <<>> /\ ls[1][4] = ToString(s)
      /\ Announced(ls) = {ToString(Len(x))}
      /\ HttpText(HttpResponse(s, headers, x)) = t
  BY ResponseText
<1> HIDE DEF ls
<1>2. t \in Seq(Chars)
  BY <1>1, HeaderTextIs
<1>3. ASSUME NEW rest \in Seq(Chars)
      PROVE  HttpResponses(t \o rest) = <<says>> \o HttpResponses(rest)
  <2>1. HttpResponses(HeaderText(ls, x) \o rest)
          = <<[status |-> ls[1][4], resource |-> x]>> \o HttpResponses(rest)
    <3>1. ls \in Seq(Lines) /\ ls # <<>> /\ Announced(ls) = {ToString(Len(x))}
      BY <1>1
    <3> QED
      BY <3>1, ResponsePeeled
  <2>2. says = [status |-> ls[1][4], resource |-> x]
    BY <1>1
  <2> HIDE DEF says
  <2> QED
    BY <2>1, <2>2
<1>4. replies' = Append(replies, says) /\ stream' = stream \o t /\ protocol' = protocol
  BY <1>1 DEF SendsResponse, Sends
<1> HIDE DEF t, says
<1>5. Peels(t, says)
  BY <1>3 DEF Peels
<1> QED
  BY <1>2, <1>4, <1>5, HttpSends

LEMMA HttpStep ==
  ASSUME replies \in Seq(Items(replies)), HttpRepliesInv, RespondsHttp
  PROVE  HttpRepliesInv'
<1> DEFINE W == WordChars \X LineChars
<1>1. 2^SizeBits > 0 /\ 2^SizeBits \in Nat /\ 0 \in Numbers /\ ToString(0) = "0"
  BY Bounds, NumbersAssumption
<1>2. "Content-Length" \in WordChars /\ "Content-Type" \in WordChars /\ "WWW-Authenticate" \in WordChars
  BY Literal
<1>3. "0" \in LineChars /\ "Basic" \in LineChars /\ "application/octet-stream" \in LineChars
  BY Literal, WordsAreWords
<1>4. protocol = "Http"
  BY DEF RespondsHttp
<1>5. \A s \in {100, 200, 201, 400, 401, 404, 500} : s \in HttpStatus /\ s <= 599
  BY DEF HttpStatus
<1>6. ASSUME NEW s \in {100, 200, 201, 400, 404, 500},
             Sends(HttpText(StatusOnly(s)), [status |-> ToString(s), resource |-> <<>>])
      PROVE  HttpRepliesInv'
  <2> DEFINE headers == <<<<"Content-Length", ToString(0)>>>>
  <2>1. PICK none : none = <<>>
    OBVIOUS
  <2>2. none \in Seq(Chars) /\ Len(none) = 0
    BY <2>1
  <2>3. headers \in Seq(W) /\ AnnouncedBy(headers) = {ToString(Len(none))}
    <3>1. headers \in Seq(W) /\ Len(headers) = 1 /\ headers[1][1] = "Content-Length" /\ headers[1][2] = ToString(0)
      BY <1>1, <1>2, <1>3
    <3> HIDE DEF headers
    <3>2. AnnouncedBy(headers) = {ToString(0)}
      BY <3>1 DEF AnnouncedBy
    <3> QED
      BY <2>2, <3>1, <3>2
  <2>4. SendsResponse(s, headers, none)
    BY <1>6, <2>1 DEF SendsResponse, StatusOnly, kContentLength
  <2> HIDE DEF headers
  <2>5. s \in HttpStatus /\ s <= 599 /\ Len(none) < 2^SizeBits
    BY <1>1, <1>5, <2>2
  <2> QED
    BY <1>4, <2>2, <2>3, <2>4, <2>5, HttpSendsText
<1>7. ASSUME Sends(HttpText(WithHeaders(401, <<<<"WWW-Authenticate", "Basic">>, <<"Content-Length", "0">>>>)),
                   [status |-> ToString(401), resource |-> <<>>])
      PROVE  HttpRepliesInv'
  <2> DEFINE headers == <<<<"WWW-Authenticate", "Basic">>, <<"Content-Length", "0">>>>
  <2>1. PICK none : none = <<>>
    OBVIOUS
  <2>2. none \in Seq(Chars) /\ Len(none) = 0
    BY <2>1
  <2>3. headers \in Seq(W) /\ AnnouncedBy(headers) = {ToString(Len(none))}
    <3>1. /\ headers \in Seq(W) /\ Len(headers) = 2
          /\ headers[1][1] # "Content-Length" /\ headers[2][1] = "Content-Length" /\ headers[2][2] = ToString(0)
      BY <1>1, <1>2, <1>3
    <3> HIDE DEF headers
    <3>2. {i \in 1 .. Len(headers) : headers[i][1] = "Content-Length"} = {2}
      BY <3>1
    <3>3. AnnouncedBy(headers) = {ToString(0)}
      BY <3>1, <3>2 DEF AnnouncedBy
    <3> QED
      BY <2>2, <3>1, <3>3
  <2>4. SendsResponse(401, headers, none)
    BY <1>7, <2>1 DEF SendsResponse, WithHeaders
  <2> HIDE DEF headers
  <2>5. 401 \in HttpStatus /\ 401 <= 599 /\ Len(none) < 2^SizeBits
    BY <1>1, <1>5, <2>2
  <2> QED
    BY <1>4, <2>2, <2>3, <2>4, <2>5, HttpSendsText
<1>8. ASSUME NEW x \in Resources,
             Sends(HttpText(WithResource(200, x)), [status |-> ToString(200), resource |-> x])
      PROVE  HttpRepliesInv'
  <2> DEFINE headers == <<<<"Content-Type", "application/octet-stream">>, <<"Content-Length", ToString(Len(x))>>>>
  <2>1. x \in Seq(STRING) /\ Len(x) < 2^SizeBits
    BY RepliesAssumption
  <2>2. x \in Seq(Chars)
    <3>1. STRING \subseteq Chars
      BY DEF Chars
    <3> QED
      BY <2>1, <3>1, SeqMonotonic
  <2>3. ToString(Len(x)) \in LineChars
    <3>1. Len(x) \in Nat
      BY <2>1
    <3>2. Len(x) \in Numbers
      BY <2>1, <3>1, Bounds
    <3> QED
      BY <3>2, NumbersAreWords, WordsAreWords
  <2>4. headers \in Seq(W) /\ AnnouncedBy(headers) = {ToString(Len(x))}
    <3>1. /\ headers \in Seq(W) /\ Len(headers) = 2
          /\ headers[1][1] # "Content-Length" /\ headers[2][1] = "Content-Length"
          /\ headers[2][2] = ToString(Len(x))
      BY <1>2, <1>3, <2>3
    <3> HIDE DEF headers
    <3>2. {i \in 1 .. Len(headers) : headers[i][1] = "Content-Length"} = {2}
      BY <3>1
    <3>3. AnnouncedBy(headers) = {ToString(Len(x))}
      BY <3>1, <3>2 DEF AnnouncedBy
    <3> QED
      BY <3>1, <3>3
  <2>5. SendsResponse(200, headers, x)
    BY <1>8 DEF SendsResponse, WithResource, kContentLength
  <2> HIDE DEF headers
  <2>6. 200 \in HttpStatus /\ 200 <= 599
    BY <1>5
  <2> QED
    BY <1>4, <2>1, <2>2, <2>4, <2>5, <2>6, HttpSendsText
<1> DEFINE A(s) == Sends(HttpText(StatusOnly(s)), [status |-> ToString(s), resource |-> <<>>])
           B == Sends(HttpText(WithHeaders(401, <<<<"WWW-Authenticate", "Basic">>, <<"Content-Length", "0">>>>)),
                      [status |-> ToString(401), resource |-> <<>>])
           C(x) == Sends(HttpText(WithResource(200, x)), [status |-> ToString(200), resource |-> x])
<1>9. (\E s \in {100, 200, 201, 400, 404, 500} : A(s)) \/ B \/ \E x \in Resources : C(x)
  BY DEF RespondsHttp
<1>10. \A s \in {100, 200, 201, 400, 404, 500} : A(s) => HttpRepliesInv'
  BY <1>6
<1>11. B => HttpRepliesInv'
  BY <1>7
<1>12. \A x \in Resources : C(x) => HttpRepliesInv'
  BY <1>8
<1> HIDE DEF A, B, C
<1> QED
  BY <1>9, <1>10, <1>11, <1>12

(* The inductive invariant of the responses. *)
RepliesInv ==
  /\ protocol \in {"Http", "Ftp"}
  /\ replies \in Seq(Items(replies))
  /\ FtpRepliesInv
  /\ HttpRepliesInv

LEMMA RepliesInit == Init => RepliesInv
<1> SUFFICES ASSUME Init PROVE RepliesInv
  OBVIOUS
<1>1. protocol \in {"Http", "Ftp"} /\ replies = <<>> /\ stream = <<>>
  BY DEF Init
<1>2. replies \in Seq(Items(replies))
  BY <1>1
<1>3. FtpRepliesInv
  <2>1. PICK ls : ls = <<>>
    OBVIOUS
  <2>2. ls \in Seq(Lines) /\ Len(ls) = 0 /\ Joined(ls) = <<>>
    BY <2>1, JoinedEmpty
  <2>3. Len(replies) = 0 /\ 1 .. 0 = {}
    BY <1>1
  <2> QED
    BY <1>1, <2>2, <2>3 DEF FtpRepliesInv
<1>4. HttpRepliesInv
  <2>1. stream \in Seq(Chars)
    BY <1>1
  <2>2. ASSUME NEW rest \in Seq(Chars)
        PROVE  HttpResponses(stream \o rest) = replies \o HttpResponses(rest)
    <3>1. PICK T : HttpResponses(rest) \in Seq(T)
      BY ResponsesType
    <3>2. stream \o rest = rest
      BY <1>1
    <3>3. replies \o HttpResponses(rest) = HttpResponses(rest)
      BY <1>1, <3>1
    <3> QED
      BY <3>2, <3>3
  <2> QED
    BY <2>1, <2>2 DEF HttpRepliesInv
<1> QED
  BY <1>1, <1>2, <1>3, <1>4 DEF RepliesInv

LEMMA RepliesType ==
  ASSUME replies \in Seq(Items(replies)), NEW says, replies' = Append(replies, says)
  PROVE  replies' \in Seq(Items(replies'))
<1> DEFINE T == Items(replies) \cup {says}
<1>1. replies \in Seq(T) /\ says \in T
  BY SeqMonotonic
<1> HIDE DEF T
<1>2. replies' \in Seq(T)
  BY <1>1, AppendProperties
<1>3. \A k \in 1 .. Len(replies') : replies'[k] \in Items(replies')
  BY DEF Items
<1> QED
  BY <1>2, <1>3

LEMMA HttpSendsSome == RespondsHttp => protocol = "Http" /\ \E text, says : Sends(text, says)
<1> SUFFICES ASSUME RespondsHttp PROVE protocol = "Http" /\ \E text, says : Sends(text, says)
  OBVIOUS
<1> DEFINE A(s) == Sends(HttpText(StatusOnly(s)), [status |-> ToString(s), resource |-> <<>>])
           B == Sends(HttpText(WithHeaders(401, <<<<"WWW-Authenticate", "Basic">>, <<"Content-Length", "0">>>>)),
                      [status |-> ToString(401), resource |-> <<>>])
           C(x) == Sends(HttpText(WithResource(200, x)), [status |-> ToString(200), resource |-> x])
<1>1. (\E s \in {100, 200, 201, 400, 404, 500} : A(s)) \/ B \/ \E x \in Resources : C(x)
  BY DEF RespondsHttp
<1>2. \A s : A(s) => \E text, says : Sends(text, says)
  OBVIOUS
<1>3. B => \E text, says : Sends(text, says)
  OBVIOUS
<1>4. \A x : C(x) => \E text, says : Sends(text, says)
  OBVIOUS
<1>5. protocol = "Http"
  BY DEF RespondsHttp
<1> HIDE DEF A, B, C
<1> QED
  BY <1>1, <1>2, <1>3, <1>4, <1>5

LEMMA RepliesStep == RepliesInv /\ [Next]_vars => RepliesInv'
<1> SUFFICES ASSUME RepliesInv, [Next]_vars PROVE RepliesInv'
  OBVIOUS
<1>1. protocol \in {"Http", "Ftp"} /\ replies \in Seq(Items(replies)) /\ FtpRepliesInv /\ HttpRepliesInv
  BY DEF RepliesInv
<1>2. CASE UNCHANGED <<protocol, replies, stream>>
  BY <1>1, <1>2 DEF RepliesInv, Items, FtpRepliesInv, HttpRepliesInv
<1>3. CASE RespondsHttp
  <2>1. HttpRepliesInv'
    BY <1>1, <1>3, HttpStep
  <2>2. protocol' = protocol /\ protocol = "Http" /\ \E says : replies' = Append(replies, says)
    <3>1. protocol = "Http" /\ \E text, says : Sends(text, says)
      BY <1>3, HttpSendsSome
    <3> QED
      BY <3>1 DEF Sends
  <2>3. replies' \in Seq(Items(replies'))
    BY <1>1, <2>2, RepliesType
  <2>4. FtpRepliesInv'
    BY <2>2 DEF FtpRepliesInv
  <2> QED
    BY <1>1, <2>1, <2>2, <2>3, <2>4 DEF RepliesInv
<1>4. CASE RespondsFtp
  <2>1. FtpRepliesInv'
    BY <1>1, <1>4, FtpStep
  <2>2. protocol' = protocol /\ protocol = "Ftp" /\ \E says : replies' = Append(replies, says)
    BY <1>4 DEF RespondsFtp, Sends
  <2>3. replies' \in Seq(Items(replies'))
    BY <1>1, <2>2, RepliesType
  <2>4. HttpRepliesInv'
    BY <2>2 DEF HttpRepliesInv
  <2> QED
    BY <1>1, <2>1, <2>2, <2>3, <2>4 DEF RepliesInv
<1>5. ASSUME NEW r, Asks(r) PROVE UNCHANGED <<protocol, replies, stream>>
  BY <1>5 DEF Asks
<1>6. Receive => UNCHANGED <<protocol, replies, stream>>
  BY DEF Receive
<1>7. UNCHANGED vars => UNCHANGED <<protocol, replies, stream>>
  BY DEF vars
<1> QED
  BY <1>2, <1>3, <1>4, <1>5, <1>6, <1>7 DEF Next

LEMMA InvReplies == RepliesInv => RepliesArrive
<1> SUFFICES ASSUME RepliesInv PROVE RepliesArrive
  OBVIOUS
<1>1. protocol \in {"Http", "Ftp"} /\ replies \in Seq(Items(replies)) /\ FtpRepliesInv /\ HttpRepliesInv
  BY DEF RepliesInv
<1>2. CASE protocol = "Http"
  <2>1. PICK none : none = <<>>
    OBVIOUS
  <2>2. none \in Seq(Chars) /\ stream \in Seq(Chars)
    BY <1>1, <1>2, <2>1 DEF HttpRepliesInv
  <2>3. HttpResponses(stream \o none) = replies \o HttpResponses(none)
    BY <1>1, <1>2, <2>2 DEF HttpRepliesInv
  <2>4. HttpResponses(none) = <<>>
    <3>1. 1 \in 1 .. Len(none) + 1 /\ 1 > Len(none)
      BY <2>1
    <3>2. From(none)[1] = <<>>
      BY <2>2, <3>1, FromEquation
    <3> QED
      BY <3>2, ResponsesAre
  <2>5. stream \o none = stream
    BY <2>1, <2>2
  <2>6. replies \o <<>> = replies
    BY <1>1
  <2>7. replies = HttpResponses(stream)
    BY <2>3, <2>4, <2>5, <2>6
  <2> QED
    BY <1>2, <2>7 DEF RepliesArrive
<1>3. CASE protocol = "Ftp"
  <2>1. replies = FtpReplies(stream)
    BY <1>1, <1>3, FtpRead
  <2> QED
    BY <1>3, <2>1 DEF RepliesArrive
<1> QED
  BY <1>1, <1>2, <1>3

(* The client reads in the stream exactly what the server has said: the    *)
(* Content-Length of HTTP and the lines of FTP tell the responses apart    *)
(* whatever the files contain.                                             *)
THEOREM RepliesArriveAlways == Spec => []RepliesArrive
<1>1. Init => RepliesInv
  BY RepliesInit
<1>2. RepliesInv /\ [Next]_vars => RepliesInv'
  BY RepliesStep
<1>3. RepliesInv => RepliesArrive
  BY InvReplies
<1> QED
  BY <1>1, <1>2, <1>3, PTL DEF Spec
=============================================================================
