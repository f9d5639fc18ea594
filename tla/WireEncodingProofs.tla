-------------------------- MODULE WireEncodingProofs --------------------------
(***************************************************************************)
(* Proofs that the encodings of WireEncoding tell their values apart, for  *)
(* lists of any length, any content of a cell and any length of a hash.    *)
(* Two encodings that agree as far as both go are of the same value: this  *)
(* is true of cells and hashes, is kept by concatenation, and by lists     *)
(* because they are counted.                                               *)
(***************************************************************************)
EXTENDS WireEncoding, WellFoundedInduction, TLAPS

-----------------------------------------------------------------------------
(* Induction up to a bound. *)

(* A non-empty set of naturals has a least element. *)
LEMMA LeastNumber ==
    ASSUME NEW A \in SUBSET Nat, A # {}
    PROVE  \E m \in A : \A k \in A : m <= k
<1> DEFINE R == OpToRel(<, Nat)
<1>1. IsWellFoundedOn(R, Nat)
  BY NatLessThanWellFounded
<1>2. \E m \in A : \A k \in A : <<k, m>> \notin R
  <2> HIDE DEF R
  <2> QED  BY <1>1, WFMin, Zenon
<1>3. \A k, m \in Nat : <<k, m>> \notin R => m <= k
  BY DEF OpToRel
<1>4. \A k \in A : k \in Nat
  OBVIOUS
<1> HIDE DEF R
<1> QED  BY <1>2, <1>3, <1>4, Zenon

(* Induction up to a bound, stated about a set: this needs no operator for   *)
(* a parameter.                                                              *)
LEMMA UpTo ==
    ASSUME NEW n \in Nat, NEW A, 0 \in A, \A k \in 1 .. n : k - 1 \in A => k \in A
    PROVE  0 .. n \subseteq A
<1> SUFFICES ASSUME (0 .. n) \ A # {} PROVE FALSE
  OBVIOUS
<1>1. PICK m \in (0 .. n) \ A : \A k \in (0 .. n) \ A : m <= k
  <2> (0 .. n) \ A \in SUBSET Nat
    OBVIOUS
  <2> QED  BY LeastNumber
<1>2. m \in 1 .. n /\ m - 1 \in 0 .. n /\ ~(m <= m - 1)
  BY <1>1
<1> QED  BY <1>1, <1>2

(* The iterates of a step function. *)
Iterates(f, n, S, base, step) ==
    /\ f \in [0 .. n -> S] /\ f[0] = base
    /\ \A k \in 1 .. n : f[k] = step[<<k, f[k - 1]>>]

(* A step function can be iterated: the function that a bounded recursion    *)
(* defines exists.                                                           *)
LEMMA IteratesExist ==
    ASSUME NEW n \in Nat, NEW S, NEW base \in S, NEW step \in [(1 .. n) \X S -> S]
    PROVE  \E f : Iterates(f, n, S, base, step)
<1> DEFINE A == {m \in 0 .. n : \E f : Iterates(f, m, S, base, step)}
<1>1. 0 \in A
  <2>1. Iterates([k \in 0 .. 0 |-> base], 0, S, base, step)
    BY DEF Iterates
  <2> QED  BY <2>1
<1>2. ASSUME NEW k \in 1 .. n, k - 1 \in A PROVE k \in A
  <2>1. PICK f : Iterates(f, k - 1, S, base, step)
    BY <1>2
  <2>2. /\ f \in [0 .. k - 1 -> S] /\ f[0] = base
        /\ \A j \in 1 .. k - 1 : f[j] = step[<<j, f[j - 1]>>]
    BY <2>1 DEF Iterates
  <2>3. f[k - 1] \in S /\ step[<<k, f[k - 1]>>] \in S
    BY <2>2
  <2> DEFINE g == [j \in 0 .. k |-> IF j = k THEN step[<<k, f[k - 1]>>] ELSE f[j]]
  <2>4. g \in [0 .. k -> S] /\ g[0] = base
    BY <2>2, <2>3
  <2>5. ASSUME NEW j \in 1 .. k  PROVE g[j] = step[<<j, g[j - 1]>>]
    <3>0. j - 1 \in 0 .. k /\ j - 1 # k /\ g[j - 1] = f[j - 1]
      OBVIOUS
    <3>1. CASE j = k
      BY <3>0, <3>1
    <3>2. CASE j # k
      <4>1. j \in 1 .. k - 1 /\ g[j] = f[j]
        BY <3>2
      <4> HIDE DEF g
      <4> QED  BY <2>2, <3>0, <4>1
    <3> QED  BY <3>1, <3>2
  <2>6. Iterates(g, k, S, base, step)
    <3> HIDE DEF g
    <3> QED  BY <2>4, <2>5 DEF Iterates
  <2> HIDE DEF g
  <2> QED  BY <2>6
<1>3. n \in A
  <2> HIDE DEF A
  <2>1. 0 .. n \subseteq A
    BY <1>1, <1>2, UpTo
  <2> QED  BY <2>1
<1> QED  BY <1>3

-----------------------------------------------------------------------------
(* Sequences of which one is the beginning of the other. *)

(* A cell or a length. *)
Bytes == Cells \cup Nat

Agree(s, t) == \A i \in 1 .. Len(s) : i <= Len(t) => s[i] = t[i]

(* A prefix agrees with what it begins. *)
LEMMA PrefixAgrees ==
    ASSUME NEW S, NEW s \in Seq(S), NEW t \in Seq(S), IsPrefix(s, t)
    PROVE  Agree(s, t)
<1>1. Len(s) <= Len(t) /\ SubSeq(s, 1, Len(s)) = SubSeq(t, 1, Len(s)) /\ Len(s) \in Nat /\ Len(t) \in Nat
  BY DEF IsPrefix
<1>2. ASSUME NEW i \in 1 .. Len(s)  PROVE s[i] = t[i]
  <2>1. SubSeq(s, 1, Len(s))[i] = s[i] /\ SubSeq(t, 1, Len(s))[i] = t[i]
    BY <1>1
  <2> QED  BY <1>1, <2>1
<1> QED  BY <1>2 DEF Agree

(* Sequences of one length that agree are the same. *)
LEMMA AgreeSame ==
    ASSUME NEW s \in Seq(Bytes), NEW t \in Seq(Bytes), Agree(s, t), Len(s) = Len(t)
    PROVE  s = t
  BY DEF Agree

(* Concatenations agree on their first parts, and on the others if the first *)
(* are the same.                                                             *)
LEMMA AgreeParts ==
    ASSUME NEW s \in Seq(Bytes), NEW t \in Seq(Bytes),
           NEW u \in Seq(Bytes), NEW v \in Seq(Bytes), Agree(s \o u, t \o v)
    PROVE  Agree(s, t) /\ (s = t => Agree(u, v))
<1>1. Agree(s, t)
  <2> SUFFICES ASSUME NEW i \in 1 .. Len(s), i <= Len(t)  PROVE s[i] = t[i]
    BY DEF Agree
  <2>1. (s \o u)[i] = s[i] /\ (t \o v)[i] = t[i] /\ i \in 1 .. Len(s \o u) /\ i <= Len(t \o v)
    OBVIOUS
  <2> QED  BY <2>1 DEF Agree
<1>2. ASSUME s = t  PROVE Agree(u, v)
  <2> SUFFICES ASSUME NEW i \in 1 .. Len(u), i <= Len(v)  PROVE u[i] = v[i]
    BY DEF Agree
  <2>1. /\ (s \o u)[Len(s) + i] = u[i] /\ (t \o v)[Len(s) + i] = v[i]
        /\ Len(s) + i \in 1 .. Len(s \o u) /\ Len(s) + i <= Len(t \o v)
    BY <1>2
  <2> QED  BY <2>1 DEF Agree
<1> QED  BY <1>1, <1>2

-----------------------------------------------------------------------------
(* Lists. *)

(* The concatenation of the first k elements of a list. *)
Flattens(f, a) ==
    /\ f \in [0 .. Len(a) -> Seq(Bytes)] /\ f[0] = <<>>
    /\ \A k \in 1 .. Len(a) : f[k] = f[k - 1] \o a[k]
    /\ FlattenSeq(a) = f[Len(a)]

(* FlattenSeq is reached one element at a time: the recursion that defines   *)
(* it has a solution, which is this one.                                     *)
LEMMA FlattenSteps ==
    ASSUME NEW a \in Seq(Seq(Bytes))
    PROVE  \E f : Flattens(f, a)
<1> DEFINE n == Len(a)
           B == Seq(Bytes)
           step == [p \in (1 .. n) \X B |-> p[2] \o a[p[1]]]
           eqn(f) == f = [i \in 1 .. n |-> IF i = 1 THEN a[i] ELSE f[i-1] \o a[i]]
           flatten == CHOOSE f : eqn(f)
           whole == [k \in 0 .. n |-> IF k = 0 THEN <<>> ELSE flatten[k]]
<1>1. n \in Nat /\ <<>> \in B /\ \A k \in 1 .. n : a[k] \in B
  OBVIOUS
<1>2. \A s, t \in B : s \o t \in B
  OBVIOUS
<1>3. \A s \in B : <<>> \o s = s
  OBVIOUS
<1> HIDE DEF B
<1>4. step \in [(1 .. n) \X B -> B]
  BY <1>1, <1>2
<1>5. PICK f : Iterates(f, n, B, <<>>, step)
  <2> HIDE DEF n, step
  <2> QED  BY <1>1, <1>4, IteratesExist
<1>6. /\ f \in [0 .. n -> B] /\ f[0] = <<>>
      /\ \A k \in 1 .. n : f[k] = f[k - 1] \o a[k]
  <2>1. /\ f \in [0 .. n -> B] /\ f[0] = <<>>
        /\ \A k \in 1 .. n : f[k] = step[<<k, f[k - 1]>>]
    <3> HIDE DEF n, step
    <3> QED  BY <1>5 DEF Iterates
  <2>2. ASSUME NEW k \in 1 .. n  PROVE f[k] = f[k - 1] \o a[k]
    <3>1. k - 1 \in 0 .. n
      BY <1>1
    <3>2. f[k - 1] \in B
      <4> HIDE DEF n, step
      <4> QED  BY <2>1, <3>1
    <3> QED  BY <2>1, <3>2
  <2> QED  BY <2>1, <2>2
<1>7. eqn([i \in 1 .. n |-> f[i]])
  <2> DEFINE g == [i \in 1 .. n |-> f[i]]
  <2>1. ASSUME NEW i \in 1 .. n
        PROVE  g[i] = IF i = 1 THEN a[i] ELSE g[i-1] \o a[i]
    <3>1. CASE i = 1
      <4>1. g[i] = f[i] /\ f[i - 1] = <<>>
        BY <1>6, <3>1
      <4>2. f[i] = f[i - 1] \o a[i] /\ a[i] \in B
        BY <1>1, <1>6
      <4> HIDE DEF g
      <4> QED  BY <1>3, <3>1, <4>1, <4>2
    <3>2. CASE i # 1
      <4>1. i - 1 \in 1 .. n
        BY <1>1, <3>2
      <4>2. g[i] = f[i] /\ g[i - 1] = f[i - 1]
        BY <4>1
      <4>3. f[i] = f[i - 1] \o a[i]
        BY <1>6
      <4> HIDE DEF g
      <4> QED  BY <3>2, <4>2, <4>3
    <3> HIDE DEF g
    <3> QED  BY <3>1, <3>2
  <2>2. g = [i \in 1 .. n |-> IF i = 1 THEN a[i] ELSE g[i-1] \o a[i]]
    <3>1. g = [i \in 1 .. n |-> g[i]]
      OBVIOUS
    <3> HIDE DEF g
    <3> QED  BY <2>1, <3>1
  <2> QED  BY <2>2
<1>8. eqn(flatten)
  <2> HIDE DEF eqn
  <2> QED  BY <1>7, Zenon
<1>9. \A i \in 1 .. n : flatten[i] = IF i = 1 THEN a[i] ELSE flatten[i-1] \o a[i]
  <2>1. flatten = [i \in 1 .. n |-> IF i = 1 THEN a[i] ELSE flatten[i-1] \o a[i]]
    BY <1>8, Zenon
  <2> HIDE DEF flatten
  <2> QED  BY <2>1
<1> HIDE DEF flatten
<1>10. whole[0] = <<>> /\ \A k \in 1 .. n : whole[k] = whole[k - 1] \o a[k]
  <2>1. ASSUME NEW k \in 1 .. n  PROVE whole[k] = whole[k - 1] \o a[k]
    <3>1. CASE k = 1
      <4>1. whole[k] = a[k] /\ whole[k - 1] = <<>>
        BY <1>9, <3>1
      <4> HIDE DEF whole
      <4> QED  BY <1>1, <1>3, <4>1
    <3>2. CASE k # 1
      <4>1. k - 1 \in 1 .. n /\ k \in 0 .. n /\ k - 1 \in 0 .. n /\ k - 1 # 0 /\ k # 0
        BY <1>1, <3>2
      <4>2. whole[k] = flatten[k] /\ whole[k - 1] = flatten[k - 1]
        BY <4>1
      <4>3. flatten[k] = flatten[k - 1] \o a[k]
        BY <1>9, <3>2
      <4> HIDE DEF whole
      <4> QED  BY <4>2, <4>3
    <3> HIDE DEF whole
    <3> QED  BY <3>1, <3>2
  <2>2. whole[0] = <<>>
    BY <1>1
  <2> HIDE DEF whole
  <2> QED  BY <2>1, <2>2
<1>11. \A k \in 0 .. n : whole[k] \in B
  <2> DEFINE A == {k \in 0 .. n : whole[k] \in B}
  <2> HIDE DEF whole
  <2>1. 0 \in A
    BY <1>1, <1>10
  <2>2. ASSUME NEW k \in 1 .. n, k - 1 \in A  PROVE k \in A
    <3>1. k \in 0 .. n /\ whole[k - 1] \in B
      BY <1>1, <2>2
    <3> QED  BY <1>1, <1>2, <1>10, <3>1
  <2>3. 0 .. n \subseteq A
    <3> HIDE DEF A, n
    <3> QED  BY <1>1, <2>1, <2>2, UpTo
  <2> QED  BY <2>3
<1>12. whole \in [0 .. n -> B]
  <2>1. whole = [k \in 0 .. n |-> whole[k]]
    OBVIOUS
  <2> HIDE DEF whole
  <2> QED  BY <1>11, <2>1
<1>13. FlattenSeq(a) = whole[n]
  <2>1. CASE n = 0
    <3>1. a = <<>>
      BY <2>1
    <3>2. FlattenSeq(a) = a
      BY <2>1 DEF FlattenSeq
    <3> QED  BY <1>10, <2>1, <3>1, <3>2
  <2>2. CASE n # 0
    <3>1. FlattenSeq(a) = flatten[n]
      BY <2>2 DEF FlattenSeq, flatten
    <3> QED  BY <1>1, <2>2, <3>1
  <2> QED  BY <2>1, <2>2
<1> HIDE DEF whole
<1> QED  BY <1>10, <1>12, <1>13 DEF Flattens, B

(* Two lists of which one begins the other have the same elements, when      *)
(* that holds of each two elements (WriteList counts them first).            *)
Telling(a, b) ==
    \A i \in DOMAIN a : i \in DOMAIN b /\ Agree(a[i], b[i]) => a[i] = b[i]

(* Counted lists that agree are equal, element by element from the first.    *)
LEMMA ListsTold ==
    ASSUME NEW a \in Seq(Seq(Bytes)), NEW b \in Seq(Seq(Bytes)),
           Telling(a, b), Agree(WriteList(a), WriteList(b))
    PROVE  a = b
<1> DEFINE n == Len(a)
<1>1. PICK f : Flattens(f, a)
  BY FlattenSteps
<1>2. PICK g : Flattens(g, b)
  BY FlattenSteps
<1>3. FlattenSeq(a) \in Seq(Bytes) /\ FlattenSeq(b) \in Seq(Bytes)
  <2>1. Len(a) \in 0 .. Len(a) /\ Len(b) \in 0 .. Len(b)
    OBVIOUS
  <2> QED  BY <1>1, <1>2, <2>1 DEF Flattens
<1>4. <<Len(a)>> \in Seq(Bytes) /\ <<Len(b)>> \in Seq(Bytes)
  BY DEF Bytes
<1>5. Agree(<<Len(a)>>, <<Len(b)>>) /\
        (<<Len(a)>> = <<Len(b)>> => Agree(FlattenSeq(a), FlattenSeq(b)))
  BY <1>3, <1>4, AgreeParts DEF WriteList
<1>6. Len(a) = Len(b)
  BY <1>5 DEF Agree
<1>7. n \in Nat /\ Len(a) = n /\ Len(b) = n /\ DOMAIN a = 1 .. n /\ DOMAIN b = 1 .. n
      /\ \A k \in 1 .. n : a[k] \in Seq(Bytes) /\ b[k] \in Seq(Bytes)
  BY <1>6
<1>8. /\ f \in [0 .. n -> Seq(Bytes)] /\ g \in [0 .. n -> Seq(Bytes)] /\ f[0] = <<>> /\ g[0] = <<>>
      /\ \A k \in 1 .. n : f[k] = f[k - 1] \o a[k] /\ g[k] = g[k - 1] \o b[k]
      /\ Agree(f[n], g[n])
  BY <1>1, <1>2, <1>5, <1>6, <1>7 DEF Flattens
<1> HIDE DEF n
<1> DEFINE A == {k \in 0 .. n : Agree(f[k], g[k]) =>
                    f[k] = g[k] /\ \A i \in 1 .. k : a[i] = b[i]}
<1>9. 0 \in A
  BY <1>7, <1>8
<1>10. ASSUME NEW k \in 1 .. n, k - 1 \in A  PROVE k \in A
  <2> SUFFICES ASSUME Agree(f[k], g[k])
               PROVE  f[k] = g[k] /\ \A i \in 1 .. k : a[i] = b[i]
    BY <1>7
  <2>1. f[k - 1] \in Seq(Bytes) /\ g[k - 1] \in Seq(Bytes)
    <3>1. k - 1 \in 0 .. n
      BY <1>7
    <3> QED  BY <1>8, <3>1
  <2>2. Agree(f[k - 1], g[k - 1]) /\ (f[k - 1] = g[k - 1] => Agree(a[k], b[k]))
    <3>1. Agree(f[k - 1] \o a[k], g[k - 1] \o b[k])
      BY <1>8
    <3> QED  BY <1>7, <2>1, <3>1, AgreeParts
  <2>3. f[k - 1] = g[k - 1] /\ \A i \in 1 .. k - 1 : a[i] = b[i]
    BY <1>10, <2>2
  <2>4. a[k] = b[k]
    BY <1>7, <2>2, <2>3 DEF Telling
  <2>5. f[k] = g[k]
    BY <1>8, <2>3, <2>4
  <2>6. \A i \in 1 .. k : i \in 1 .. k - 1 \/ i = k
    BY <1>7
  <2> QED  BY <2>3, <2>4, <2>5, <2>6
<1>11. 0 .. n \subseteq A
  <2> HIDE DEF A
  <2> QED  BY <1>7, <1>9, <1>10, UpTo
<1>12. \A i \in 1 .. n : a[i] = b[i]
  <2>1. n \in A
    <3> HIDE DEF A
    <3> QED  BY <1>7, <1>11
  <2> QED  BY <1>8, <2>1
<1> QED  BY <1>7, <1>12

(* A list of codes is a sequence of cells and lengths. *)
LEMMA ListWritten ==
    ASSUME NEW a \in Seq(Seq(Bytes))
    PROVE  WriteList(a) \in Seq(Bytes)
<1>1. PICK f : Flattens(f, a)
  BY FlattenSteps
<1>2. Len(a) \in 0 .. Len(a) /\ Len(a) \in Nat
  OBVIOUS
<1>3. FlattenSeq(a) \in Seq(Bytes)
  BY <1>1, <1>2 DEF Flattens
<1>4. <<Len(a)>> \in Seq(Bytes)
  BY <1>2 DEF Bytes
<1> QED  BY <1>3, <1>4 DEF WriteList

-----------------------------------------------------------------------------
(* The values: lists of any length, and any content of a cell. *)

AnyHash == [1 .. HashLen -> Bytes]
AnyLocalOrder ==
    [replica : Bytes, fragmentSeq : Bytes, prevHead : AnyHash, txs : Seq(AnyHash),
     newHead : AnyHash, signature : Seq(Bytes)]
AnyBatch == [index : Bytes, txs : Seq(AnyHash)]
AnyEdge == [from : AnyHash, to : AnyHash]
AnyClaim ==
    [txs : Seq(AnyHash), inTree : Seq(AnyEdge), outTree : Seq(AnyEdge), rank : Bytes]
AnyRecord ==
    {r \in [vertex : AnyHash, hasParent : BOOLEAN, parent : AnyHash, depth : Bytes] :
        r.hasParent \/ r.parent = ZeroHash}
AnyCertificate == [part : Seq(AnyClaim), blockForest : Seq(AnyRecord)]
AnyFragment ==
    [previousStateID : AnyHash, evidence : Seq(AnyLocalOrder), finalOrder : Seq(AnyBatch),
     certificate : AnyCertificate, candidatePostStateID : AnyHash]
AnyPart == [rank : Bytes, txs : Seq(AnyHash)]
AnyPostState == [preState : AnyHash, finalOrder : Seq(AnyBatch), part : Seq(AnyPart)]

(* An encoding tells the values of V apart by whatever comes first. *)
Tells(w, V) ==
    /\ w \in [V -> Seq(Bytes)]
    /\ \A x, y \in V : Agree(w[x], w[y]) => x = y

(* What agrees with a concatenation whose parts tell is the same part by     *)
(* part.                                                                     *)
LEMMA PartsTold ==
    ASSUME NEW s \in Seq(Bytes), NEW t \in Seq(Bytes), NEW u \in Seq(Bytes), NEW v \in Seq(Bytes),
           Agree(s, t) => s = t, Agree(u, v) => u = v, Agree(s \o u, t \o v)
    PROVE  s = t /\ u = v
BY AgreeParts

(* A sequence agrees with itself. *)
LEMMA AgreeSelf == \A s : Agree(s, s)
BY DEF Agree

(* The list of the encodings of its elements tells a list. *)
LEMMA ListTells ==
    ASSUME NEW V, NEW w, Tells(w, V)
    PROVE  Tells([a \in Seq(V) |-> WriteList([i \in DOMAIN a |-> w[a[i]]])], Seq(V))
<1> DEFINE codes(a) == [i \in DOMAIN a |-> w[a[i]]]
<1>1. \A a \in Seq(V) : /\ codes(a) \in Seq(Seq(Bytes)) /\ DOMAIN codes(a) = DOMAIN a
                        /\ \A i \in DOMAIN a : a[i] \in V /\ codes(a)[i] = w[a[i]]
                        /\ DOMAIN a = 1 .. Len(a) /\ Len(a) \in Nat
                        /\ a = [i \in DOMAIN a |-> a[i]]
  <2> TAKE a \in Seq(V)
  <2>1. DOMAIN a = 1 .. Len(a) /\ Len(a) \in Nat /\ \A i \in DOMAIN a : a[i] \in V
    OBVIOUS
  <2>2. \A i \in DOMAIN a : codes(a)[i] = w[a[i]] /\ w[a[i]] \in Seq(Bytes)
    BY <2>1 DEF Tells
  <2>3. codes(a) = [i \in 1 .. Len(a) |-> codes(a)[i]]
    BY <2>1
  <2> HIDE DEF codes
  <2>4. codes(a) \in Seq(Seq(Bytes))
    BY <2>1, <2>2, <2>3
  <2>5. DOMAIN codes(a) = DOMAIN a
    BY <2>1, <2>3
  <2> QED  BY <2>1, <2>2, <2>4, <2>5
<1> HIDE DEF codes
<1>2. \A a \in Seq(V) : WriteList(codes(a)) \in Seq(Bytes)
  BY <1>1, ListWritten
<1>3. ASSUME NEW a \in Seq(V), NEW b \in Seq(V), Agree(WriteList(codes(a)), WriteList(codes(b)))
      PROVE  a = b
  <2>1. Telling(codes(a), codes(b))
    <3> SUFFICES ASSUME NEW i \in DOMAIN codes(a), i \in DOMAIN codes(b),
                        Agree(codes(a)[i], codes(b)[i])
                 PROVE  codes(a)[i] = codes(b)[i]
      BY DEF Telling
    <3>1. i \in DOMAIN a /\ i \in DOMAIN b /\ codes(a)[i] = w[a[i]] /\ codes(b)[i] = w[b[i]]
      BY <1>1
    <3>2. a[i] \in V /\ b[i] \in V
      BY <1>1, <3>1
    <3> QED  BY <3>1, <3>2 DEF Tells
  <2>2. codes(a) = codes(b)
    <3>1. codes(a) \in Seq(Seq(Bytes)) /\ codes(b) \in Seq(Seq(Bytes))
      BY <1>1
    <3> QED  BY <1>3, <2>1, <3>1, ListsTold
  <2>3. DOMAIN a = DOMAIN b
    BY <1>1, <2>2
  <2>4. \A i \in DOMAIN a : a[i] = b[i]
    <3> TAKE i \in DOMAIN a
    <3>1. w[a[i]] = w[b[i]] /\ a[i] \in V /\ b[i] \in V
      BY <1>1, <2>2, <2>3
    <3> QED  BY <3>1, AgreeSelf DEF Tells
  <2>5. a = [i \in DOMAIN a |-> a[i]] /\ b = [i \in DOMAIN b |-> b[i]]
    BY <1>1
  <2> QED  BY <2>3, <2>4, <2>5
<1> DEFINE lists == [a \in Seq(V) |-> WriteList(codes(a))]
<1>4. Tells(lists, Seq(V))
  BY <1>2, <1>3 DEF Tells
<1> QED  BY <1>4 DEF codes

-----------------------------------------------------------------------------
(* Hashes and lists of identifiers. *)

(* A hash has one length and so has an edge. *)
LEMMA HashesTold ==
    /\ AnyHash \subseteq Seq(Bytes) /\ ZeroHash \in AnyHash
    /\ \A x, y \in AnyHash : Agree(x, y) => x = y
    /\ \A c \in Bytes : <<c>> \in Seq(Bytes)
    /\ \A c, d \in Bytes : Agree(<<c>>, <<d>>) => c = d
<1>1. HashLen \in Nat
  BY EncodingAssumption
<1>2. \A x \in AnyHash : x \in Seq(Bytes) /\ Len(x) = HashLen
  BY <1>1 DEF AnyHash
<1>3. \A x, y \in AnyHash : Agree(x, y) => x = y
  BY <1>2, AgreeSame
<1>4. ZeroHash \in AnyHash
  BY DEF ZeroHash, AnyHash, Bytes
<1>5. \A c, d \in Bytes : Agree(<<c>>, <<d>>) => c = d
  BY DEF Agree
<1> QED  BY <1>2, <1>3, <1>4, <1>5

(* The identity on hashes, and the edges, tell. *)
LEMMA SimpleTells ==
    /\ Tells([x \in AnyHash |-> x], AnyHash)
    /\ Tells([c \in Bytes |-> <<c>>], Bytes)
    /\ Tells([e \in AnyEdge |-> e.from \o e.to], AnyEdge)
<1>1. Tells([x \in AnyHash |-> x], AnyHash)
  BY HashesTold DEF Tells
<1>2. Tells([c \in Bytes |-> <<c>>], Bytes)
  BY HashesTold DEF Tells
<1>3. \A e \in AnyEdge : e.from \in AnyHash /\ e.to \in AnyHash /\ e = [from |-> e.from, to |-> e.to]
  BY DEF AnyEdge
<1>4. \A e \in AnyEdge : e.from \o e.to \in Seq(Bytes)
  BY <1>3, HashesTold
<1>5. ASSUME NEW d \in AnyEdge, NEW e \in AnyEdge, Agree(d.from \o d.to, e.from \o e.to)
      PROVE  d = e
  <2>1. d.from \in Seq(Bytes) /\ d.to \in Seq(Bytes) /\ e.from \in Seq(Bytes) /\ e.to \in Seq(Bytes)
    BY <1>3, HashesTold
  <2>2. (Agree(d.from, e.from) => d.from = e.from) /\ (Agree(d.to, e.to) => d.to = e.to)
    BY <1>3, HashesTold
  <2>3. d.from = e.from /\ d.to = e.to
    BY <1>5, <2>1, <2>2, PartsTold
  <2> QED  BY <1>3, <2>3
<1>6. Tells([e \in AnyEdge |-> e.from \o e.to], AnyEdge)
  BY <1>4, <1>5 DEF Tells
<1> QED  BY <1>1, <1>2, <1>6

(* Counted lists of identifiers, edges and signature bytes. *)
LEMMA TxIDsTold ==
    \A x, y \in Seq(AnyHash) :
        WriteTxIDs(x) \in Seq(Bytes) /\ (Agree(WriteTxIDs(x), WriteTxIDs(y)) => x = y)
<1> DEFINE w == [x \in AnyHash |-> x]
           lists == [a \in Seq(AnyHash) |-> WriteList([i \in DOMAIN a |-> w[a[i]]])]
<1>1. Tells(lists, Seq(AnyHash))
  BY SimpleTells, ListTells
<1>2. ASSUME NEW x \in Seq(AnyHash)  PROVE lists[x] = WriteTxIDs(x)
  <2>1. DOMAIN x = 1 .. Len(x) /\ \A i \in DOMAIN x : x[i] \in AnyHash
    OBVIOUS
  <2>2. x = [i \in DOMAIN x |-> x[i]]
    OBVIOUS
  <2>3. [i \in DOMAIN x |-> w[x[i]]] = x
    BY <2>1, <2>2
  <2> QED  BY <2>3 DEF WriteTxIDs
<1> HIDE DEF lists
<1> QED  BY <1>1, <1>2 DEF Tells

(* The tree edges of a certificate, a counted list of pairs of identifiers.  *)
LEMMA TreesTold ==
    \A x, y \in Seq(AnyEdge) :
        WriteTree(x) \in Seq(Bytes) /\ (Agree(WriteTree(x), WriteTree(y)) => x = y)
<1> DEFINE w == [e \in AnyEdge |-> e.from \o e.to]
           lists == [a \in Seq(AnyEdge) |-> WriteList([i \in DOMAIN a |-> w[a[i]]])]
<1>1. Tells(lists, Seq(AnyEdge))
  BY SimpleTells, ListTells
<1>2. ASSUME NEW x \in Seq(AnyEdge)  PROVE lists[x] = WriteTree(x)
  <2>1. \A i \in DOMAIN x : x[i] \in AnyEdge
    OBVIOUS
  <2>2. [i \in DOMAIN x |-> w[x[i]]] = [i \in DOMAIN x |-> x[i].from \o x[i].to]
    BY <2>1
  <2> QED  BY <2>2 DEF WriteTree
<1> HIDE DEF lists
<1> QED  BY <1>1, <1>2 DEF Tells

(* Signature bytes, a counted list of cells.                                 *)
LEMMA BytesTold ==
    \A x, y \in Seq(Bytes) :
        WriteBytes(x) \in Seq(Bytes) /\ (Agree(WriteBytes(x), WriteBytes(y)) => x = y)
<1> SUFFICES ASSUME NEW x \in Seq(Bytes), NEW y \in Seq(Bytes)
             PROVE  WriteBytes(x) \in Seq(Bytes) /\ (Agree(WriteBytes(x), WriteBytes(y)) => x = y)
  OBVIOUS
<1>1. /\ Len(x) \in Bytes /\ Len(y) \in Bytes
      /\ <<Len(x)>> \in Seq(Bytes) /\ <<Len(y)>> \in Seq(Bytes)
  BY DEF Bytes
<1>2. WriteBytes(x) \in Seq(Bytes)
  BY <1>1 DEF WriteBytes
<1>3. ASSUME Agree(WriteBytes(x), WriteBytes(y))  PROVE x = y
  <2>1. Agree(<<Len(x)>> \o x, <<Len(y)>> \o y)
    BY <1>3 DEF WriteBytes
  <2>2. Agree(<<Len(x)>>, <<Len(y)>>) /\ (<<Len(x)>> = <<Len(y)>> => Agree(x, y))
    BY <1>1, <2>1, AgreeParts
  <2>3. Len(x) = Len(y)
    BY <1>1, <2>2, HashesTold
  <2> QED  BY <2>2, <2>3, AgreeSame
<1> QED  BY <1>2, <1>3

-----------------------------------------------------------------------------
(* The sections of a candidate. *)

(* A fairness batch. *)
LEMMA BatchTold ==
    \A x, y \in AnyBatch :
        /\ (<<x.index>> \o WriteTxIDs(x.txs)) \in Seq(Bytes)
        /\ Agree((<<x.index>> \o WriteTxIDs(x.txs)), (<<y.index>> \o WriteTxIDs(y.txs))) => x = y
<1> SUFFICES ASSUME NEW x \in AnyBatch, NEW y \in AnyBatch
             PROVE  /\ (<<x.index>> \o WriteTxIDs(x.txs)) \in Seq(Bytes)
                    /\ Agree((<<x.index>> \o WriteTxIDs(x.txs)),
                             (<<y.index>> \o WriteTxIDs(y.txs))) => x = y
  OBVIOUS
<1> DEFINE p1(z) == <<z.index>>
           p2(z) == WriteTxIDs(z.txs)
           s1(z) == p1(z)
           s2(z) == s1(z) \o p2(z)
<1>1. /\ x.index \in Bytes /\ y.index \in Bytes
      /\ x.txs \in Seq(AnyHash) /\ y.txs \in Seq(AnyHash)
  BY DEF AnyBatch
<1>a1. /\ p1(x) \in Seq(Bytes) /\ p1(y) \in Seq(Bytes)
      /\ (Agree(p1(x), p1(y)) => x.index = y.index) /\ (x.index = y.index => p1(x) = p1(y))
  BY <1>1, HashesTold
<1>a2. /\ p2(x) \in Seq(Bytes) /\ p2(y) \in Seq(Bytes)
      /\ (Agree(p2(x), p2(y)) => x.txs = y.txs) /\ (x.txs = y.txs => p2(x) = p2(y))
  BY <1>1, TxIDsTold
<1> HIDE DEF p1, p2
<1>b1. /\ s1(x) \in Seq(Bytes) /\ s1(y) \in Seq(Bytes)
       /\ Agree(s1(x), s1(y)) => x.index = y.index /\ s1(x) = s1(y)
  BY <1>a1
<1>b2. /\ s2(x) \in Seq(Bytes) /\ s2(y) \in Seq(Bytes)
       /\ Agree(s2(x), s2(y)) =>
            x.index = y.index /\ x.txs = y.txs /\ s2(x) = s2(y)
  <2> HIDE DEF s1
  <2>1. s2(x) \in Seq(Bytes) /\ s2(y) \in Seq(Bytes)
    BY <1>a2, <1>b1
  <2>2. Agree(s2(x), s2(y)) => s1(x) = s1(y) /\ p2(x) = p2(y)
    BY <1>a2, <1>b1, PartsTold
  <2>3. s1(x) = s1(y) => Agree(s1(x), s1(y))
    BY AgreeSelf
  <2>4. p2(x) = p2(y) => Agree(p2(x), p2(y))
    BY AgreeSelf
  <2> QED  BY <1>a2, <1>b1, <2>1, <2>2, <2>3, <2>4
<1>2. s2(x) = (<<x.index>> \o WriteTxIDs(x.txs)) /\ s2(y) = (<<y.index>> \o WriteTxIDs(y.txs))
  BY DEF p1, p2
<1>3. x.index = y.index /\ x.txs = y.txs => x = y
  BY DEF AnyBatch
<1> HIDE DEF s1, s2
<1> QED  BY <1>b2, <1>2, <1>3

(* The final order of a candidate. *)
LEMMA FinalOrderTold ==
    \A x, y \in Seq(AnyBatch) :
        /\ WriteFinalOrder(x) \in Seq(Bytes)
        /\ Agree(WriteFinalOrder(x), WriteFinalOrder(y)) => x = y
<1> DEFINE w == [e \in AnyBatch |-> <<e.index>> \o WriteTxIDs(e.txs)]
           lists == [a \in Seq(AnyBatch) |-> WriteList([i \in DOMAIN a |-> w[a[i]]])]
<1>1. Tells(w, AnyBatch)
  BY BatchTold DEF Tells
<1>2. Tells(lists, Seq(AnyBatch))
  <2> HIDE DEF w
  <2> QED  BY <1>1, ListTells
<1>3. ASSUME NEW x \in Seq(AnyBatch)  PROVE lists[x] = WriteFinalOrder(x)
  <2>1. \A i \in DOMAIN x : x[i] \in AnyBatch
    OBVIOUS
  <2>2. [i \in DOMAIN x |-> w[x[i]]] = [i \in DOMAIN x |-> <<x[i].index>> \o WriteTxIDs(x[i].txs)]
    BY <2>1
  <2> HIDE DEF w
  <2> QED  BY <2>2 DEF WriteFinalOrder
<1> HIDE DEF lists
<1> QED  BY <1>2, <1>3 DEF Tells

(* The claim of a component. *)
LEMMA ClaimTold ==
    \A x, y \in AnyClaim :
        WriteClaim(x) \in Seq(Bytes) /\ (Agree(WriteClaim(x), WriteClaim(y)) => x = y)
<1> SUFFICES ASSUME NEW x \in AnyClaim, NEW y \in AnyClaim
             PROVE  WriteClaim(x) \in Seq(Bytes) /\ (Agree(WriteClaim(x), WriteClaim(y)) => x = y)
  OBVIOUS
<1> DEFINE p1(z) == WriteTxIDs(z.txs)
           p2(z) == WriteTree(z.inTree)
           p3(z) == WriteTree(z.outTree)
           p4(z) == <<z.rank>>
           s1(z) == p1(z)
           s2(z) == s1(z) \o p2(z)
           s3(z) == s2(z) \o p3(z)
           s4(z) == s3(z) \o p4(z)
<1>1. /\ x.txs \in Seq(AnyHash) /\ y.txs \in Seq(AnyHash)
      /\ x.inTree \in Seq(AnyEdge) /\ y.inTree \in Seq(AnyEdge)
      /\ x.outTree \in Seq(AnyEdge) /\ y.outTree \in Seq(AnyEdge)
      /\ x.rank \in Bytes /\ y.rank \in Bytes
  BY DEF AnyClaim
<1>a1. /\ p1(x) \in Seq(Bytes) /\ p1(y) \in Seq(Bytes)
      /\ (Agree(p1(x), p1(y)) => x.txs = y.txs) /\ (x.txs = y.txs => p1(x) = p1(y))
  BY <1>1, TxIDsTold
<1>a2. /\ p2(x) \in Seq(Bytes) /\ p2(y) \in Seq(Bytes)
      /\ (Agree(p2(x), p2(y)) => x.inTree = y.inTree) /\ (x.inTree = y.inTree => p2(x) = p2(y))
  BY <1>1, TreesTold
<1>a3. /\ p3(x) \in Seq(Bytes) /\ p3(y) \in Seq(Bytes)
      /\ (Agree(p3(x), p3(y)) => x.outTree = y.outTree) /\ (x.outTree = y.outTree => p3(x) = p3(y))
  BY <1>1, TreesTold
<1>a4. /\ p4(x) \in Seq(Bytes) /\ p4(y) \in Seq(Bytes)
      /\ (Agree(p4(x), p4(y)) => x.rank = y.rank) /\ (x.rank = y.rank => p4(x) = p4(y))
  BY <1>1, HashesTold
<1> HIDE DEF p1, p2, p3, p4
<1>b1. /\ s1(x) \in Seq(Bytes) /\ s1(y) \in Seq(Bytes)
       /\ Agree(s1(x), s1(y)) => x.txs = y.txs /\ s1(x) = s1(y)
  BY <1>a1
<1>b2. /\ s2(x) \in Seq(Bytes) /\ s2(y) \in Seq(Bytes)
       /\ Agree(s2(x), s2(y)) =>
            x.txs = y.txs /\ x.inTree = y.inTree /\ s2(x) = s2(y)
  <2> HIDE DEF s1
  <2>1. s2(x) \in Seq(Bytes) /\ s2(y) \in Seq(Bytes)
    BY <1>a2, <1>b1
  <2>2. Agree(s2(x), s2(y)) => s1(x) = s1(y) /\ p2(x) = p2(y)
    BY <1>a2, <1>b1, PartsTold
  <2>3. s1(x) = s1(y) => Agree(s1(x), s1(y))
    BY AgreeSelf
  <2>4. p2(x) = p2(y) => Agree(p2(x), p2(y))
    BY AgreeSelf
  <2> QED  BY <1>a2, <1>b1, <2>1, <2>2, <2>3, <2>4
<1>b3. /\ s3(x) \in Seq(Bytes) /\ s3(y) \in Seq(Bytes)
       /\ Agree(s3(x), s3(y)) =>
            x.txs = y.txs /\ x.inTree = y.inTree /\ x.outTree = y.outTree /\ s3(x) = s3(y)
  <2> HIDE DEF s2
  <2>1. s3(x) \in Seq(Bytes) /\ s3(y) \in Seq(Bytes)
    BY <1>a3, <1>b2
  <2>2. Agree(s3(x), s3(y)) => s2(x) = s2(y) /\ p3(x) = p3(y)
    BY <1>a3, <1>b2, PartsTold
  <2>3. s2(x) = s2(y) => Agree(s2(x), s2(y))
    BY AgreeSelf
  <2>4. p3(x) = p3(y) => Agree(p3(x), p3(y))
    BY AgreeSelf
  <2> QED  BY <1>a3, <1>b2, <2>1, <2>2, <2>3, <2>4
<1>b4. /\ s4(x) \in Seq(Bytes) /\ s4(y) \in Seq(Bytes)
       /\ Agree(s4(x), s4(y)) =>
            /\ x.txs = y.txs
            /\ x.inTree = y.inTree
            /\ x.outTree = y.outTree
            /\ x.rank = y.rank
            /\ s4(x) = s4(y)
  <2> HIDE DEF s3
  <2>1. s4(x) \in Seq(Bytes) /\ s4(y) \in Seq(Bytes)
    BY <1>a4, <1>b3
  <2>2. Agree(s4(x), s4(y)) => s3(x) = s3(y) /\ p4(x) = p4(y)
    BY <1>a4, <1>b3, PartsTold
  <2>3. s3(x) = s3(y) => Agree(s3(x), s3(y))
    BY AgreeSelf
  <2>4. p4(x) = p4(y) => Agree(p4(x), p4(y))
    BY AgreeSelf
  <2> QED  BY <1>a4, <1>b3, <2>1, <2>2, <2>3, <2>4
<1>2. s4(x) = WriteClaim(x) /\ s4(y) = WriteClaim(y)
  BY DEF WriteClaim, p1, p2, p3, p4
<1>3. (/\ x.txs = y.txs
       /\ x.inTree = y.inTree
       /\ x.outTree = y.outTree
       /\ x.rank = y.rank) => x = y
  BY DEF AnyClaim
<1> HIDE DEF s1, s2, s3, s4
<1> QED  BY <1>b4, <1>2, <1>3

(* A flag. *)
LEMMA FlagTold ==
    \A b, c \in BOOLEAN :
        /\ <<IF b THEN 1 ELSE 0>> \in Seq(Bytes)
        /\ Agree(<<IF b THEN 1 ELSE 0>>, <<IF c THEN 1 ELSE 0>>) => b = c
<1> DEFINE flag(b) == IF b THEN 1 ELSE 0
<1>1. \A b \in BOOLEAN : flag(b) \in Bytes
  BY DEF Bytes
<1>2. \A b, c \in BOOLEAN : flag(b) = flag(c) => b = c
  OBVIOUS
<1> SUFFICES \A b, c \in BOOLEAN :
        /\ <<flag(b)>> \in Seq(Bytes)
        /\ Agree(<<flag(b)>>, <<flag(c)>>) => b = c
  BY Zenon
<1> HIDE DEF flag
<1> QED  BY <1>1, <1>2, HashesTold

(* A record of the block forest: no parent is the zero identifier and a flag. *)
LEMMA RecordTold ==
    \A x, y \in AnyRecord :
        WriteRecord(x) \in Seq(Bytes) /\ (Agree(WriteRecord(x), WriteRecord(y)) => x = y)
<1> SUFFICES ASSUME NEW x \in AnyRecord, NEW y \in AnyRecord
             PROVE  /\ WriteRecord(x) \in Seq(Bytes)
                    /\ Agree(WriteRecord(x), WriteRecord(y)) => x = y
  OBVIOUS
<1> DEFINE p1(z) == z.vertex
           p2(z) == <<IF z.hasParent THEN 1 ELSE 0>>
           p3(z) == z.parent
           p4(z) == <<z.depth>>
           s1(z) == p1(z)
           s2(z) == s1(z) \o p2(z)
           s3(z) == s2(z) \o p3(z)
           s4(z) == s3(z) \o p4(z)
<1>1. /\ x.vertex \in AnyHash /\ y.vertex \in AnyHash
      /\ x.hasParent \in BOOLEAN /\ y.hasParent \in BOOLEAN
      /\ x.parent \in AnyHash /\ y.parent \in AnyHash
      /\ x.depth \in Bytes /\ y.depth \in Bytes
  BY DEF AnyRecord
<1>a1. /\ p1(x) \in Seq(Bytes) /\ p1(y) \in Seq(Bytes)
      /\ (Agree(p1(x), p1(y)) => x.vertex = y.vertex) /\ (x.vertex = y.vertex => p1(x) = p1(y))
  BY <1>1, HashesTold
<1>a2. /\ p2(x) \in Seq(Bytes) /\ p2(y) \in Seq(Bytes)
      /\ (Agree(p2(x), p2(y)) => x.hasParent = y.hasParent)
      /\ (x.hasParent = y.hasParent => p2(x) = p2(y))
  BY <1>1, FlagTold
<1>a3. /\ p3(x) \in Seq(Bytes) /\ p3(y) \in Seq(Bytes)
      /\ (Agree(p3(x), p3(y)) => x.parent = y.parent) /\ (x.parent = y.parent => p3(x) = p3(y))
  BY <1>1, HashesTold
<1>a4. /\ p4(x) \in Seq(Bytes) /\ p4(y) \in Seq(Bytes)
      /\ (Agree(p4(x), p4(y)) => x.depth = y.depth) /\ (x.depth = y.depth => p4(x) = p4(y))
  BY <1>1, HashesTold
<1> HIDE DEF p1, p2, p3, p4
<1>b1. /\ s1(x) \in Seq(Bytes) /\ s1(y) \in Seq(Bytes)
       /\ Agree(s1(x), s1(y)) => x.vertex = y.vertex /\ s1(x) = s1(y)
  BY <1>a1
<1>b2. /\ s2(x) \in Seq(Bytes) /\ s2(y) \in Seq(Bytes)
       /\ Agree(s2(x), s2(y)) =>
            x.vertex = y.vertex /\ x.hasParent = y.hasParent /\ s2(x) = s2(y)
  <2> HIDE DEF s1
  <2>1. s2(x) \in Seq(Bytes) /\ s2(y) \in Seq(Bytes)
    BY <1>a2, <1>b1
  <2>2. Agree(s2(x), s2(y)) => s1(x) = s1(y) /\ p2(x) = p2(y)
    BY <1>a2, <1>b1, PartsTold
  <2>3. s1(x) = s1(y) => Agree(s1(x), s1(y))
    BY AgreeSelf
  <2>4. p2(x) = p2(y) => Agree(p2(x), p2(y))
    BY AgreeSelf
  <2> QED  BY <1>a2, <1>b1, <2>1, <2>2, <2>3, <2>4
<1>b3. /\ s3(x) \in Seq(Bytes) /\ s3(y) \in Seq(Bytes)
       /\ Agree(s3(x), s3(y)) =>
            x.vertex = y.vertex /\ x.hasParent = y.hasParent /\ x.parent = y.parent /\ s3(x) = s3(y)
  <2> HIDE DEF s2
  <2>1. s3(x) \in Seq(Bytes) /\ s3(y) \in Seq(Bytes)
    BY <1>a3, <1>b2
  <2>2. Agree(s3(x), s3(y)) => s2(x) = s2(y) /\ p3(x) = p3(y)
    BY <1>a3, <1>b2, PartsTold
  <2>3. s2(x) = s2(y) => Agree(s2(x), s2(y))
    BY AgreeSelf
  <2>4. p3(x) = p3(y) => Agree(p3(x), p3(y))
    BY AgreeSelf
  <2> QED  BY <1>a3, <1>b2, <2>1, <2>2, <2>3, <2>4
<1>b4. /\ s4(x) \in Seq(Bytes) /\ s4(y) \in Seq(Bytes)
       /\ Agree(s4(x), s4(y)) =>
            /\ x.vertex = y.vertex
            /\ x.hasParent = y.hasParent
            /\ x.parent = y.parent
            /\ x.depth = y.depth
            /\ s4(x) = s4(y)
  <2> HIDE DEF s3
  <2>1. s4(x) \in Seq(Bytes) /\ s4(y) \in Seq(Bytes)
    BY <1>a4, <1>b3
  <2>2. Agree(s4(x), s4(y)) => s3(x) = s3(y) /\ p4(x) = p4(y)
    BY <1>a4, <1>b3, PartsTold
  <2>3. s3(x) = s3(y) => Agree(s3(x), s3(y))
    BY AgreeSelf
  <2>4. p4(x) = p4(y) => Agree(p4(x), p4(y))
    BY AgreeSelf
  <2> QED  BY <1>a4, <1>b3, <2>1, <2>2, <2>3, <2>4
<1>2. s4(x) = WriteRecord(x) /\ s4(y) = WriteRecord(y)
  <2>1. ASSUME NEW z \in AnyRecord
        PROVE  z.parent = IF z.hasParent THEN z.parent ELSE ZeroHash
    BY DEF AnyRecord
  <2> QED  BY <2>1 DEF WriteRecord, p1, p2, p3, p4
<1>3. (/\ x.vertex = y.vertex
       /\ x.hasParent = y.hasParent
       /\ x.parent = y.parent
       /\ x.depth = y.depth) => x = y
  BY DEF AnyRecord
<1> HIDE DEF s1, s2, s3, s4
<1> QED  BY <1>b4, <1>2, <1>3

(* The claims and the records of a certificate. *)
LEMMA ClaimListTold ==
    \A x, y \in Seq(AnyClaim) :
        /\ WriteList([i \in DOMAIN x |-> WriteClaim(x[i])]) \in Seq(Bytes)
        /\ Agree(WriteList([i \in DOMAIN x |-> WriteClaim(x[i])]),
                 WriteList([i \in DOMAIN y |-> WriteClaim(y[i])])) => x = y
<1> DEFINE w == [e \in AnyClaim |-> WriteClaim(e)]
           lists == [a \in Seq(AnyClaim) |-> WriteList([i \in DOMAIN a |-> w[a[i]]])]
<1>1. Tells(w, AnyClaim)
  BY ClaimTold DEF Tells
<1>2. Tells(lists, Seq(AnyClaim))
  <2> HIDE DEF w
  <2> QED  BY <1>1, ListTells
<1>3. ASSUME NEW x \in Seq(AnyClaim)
     PROVE lists[x] = WriteList([i \in DOMAIN x |-> WriteClaim(x[i])])
  <2>1. \A i \in DOMAIN x : x[i] \in AnyClaim
    OBVIOUS
  <2>2. [i \in DOMAIN x |-> w[x[i]]] = [i \in DOMAIN x |-> WriteClaim(x[i])]
    BY <2>1
  <2> HIDE DEF w
  <2> QED  BY <2>2
<1> HIDE DEF lists
<1> QED  BY <1>2, <1>3 DEF Tells

(* The records. *)
LEMMA RecordListTold ==
    \A x, y \in Seq(AnyRecord) :
        /\ WriteList([i \in DOMAIN x |-> WriteRecord(x[i])]) \in Seq(Bytes)
        /\ Agree(WriteList([i \in DOMAIN x |-> WriteRecord(x[i])]),
                 WriteList([i \in DOMAIN y |-> WriteRecord(y[i])])) => x = y
<1> DEFINE w == [e \in AnyRecord |-> WriteRecord(e)]
           lists == [a \in Seq(AnyRecord) |-> WriteList([i \in DOMAIN a |-> w[a[i]]])]
<1>1. Tells(w, AnyRecord)
  BY RecordTold DEF Tells
<1>2. Tells(lists, Seq(AnyRecord))
  <2> HIDE DEF w
  <2> QED  BY <1>1, ListTells
<1>3. ASSUME NEW x \in Seq(AnyRecord)
     PROVE lists[x] = WriteList([i \in DOMAIN x |-> WriteRecord(x[i])])
  <2>1. \A i \in DOMAIN x : x[i] \in AnyRecord
    OBVIOUS
  <2>2. [i \in DOMAIN x |-> w[x[i]]] = [i \in DOMAIN x |-> WriteRecord(x[i])]
    BY <2>1
  <2> HIDE DEF w
  <2> QED  BY <2>2
<1> HIDE DEF lists
<1> QED  BY <1>2, <1>3 DEF Tells

(* A certificate. *)
LEMMA CertificateTold ==
    \A x, y \in AnyCertificate :
        /\ WriteCertificate(x) \in Seq(Bytes)
        /\ Agree(WriteCertificate(x), WriteCertificate(y)) => x = y
<1> SUFFICES ASSUME NEW x \in AnyCertificate, NEW y \in AnyCertificate
             PROVE  /\ WriteCertificate(x) \in Seq(Bytes)
                    /\ Agree(WriteCertificate(x), WriteCertificate(y)) => x = y
  OBVIOUS
<1> DEFINE p1(z) == WriteList([i \in DOMAIN z.part |-> WriteClaim(z.part[i])])
           p2(z) == WriteList([i \in DOMAIN z.blockForest |-> WriteRecord(z.blockForest[i])])
           s1(z) == p1(z)
           s2(z) == s1(z) \o p2(z)
<1>1. /\ x.part \in Seq(AnyClaim) /\ y.part \in Seq(AnyClaim)
      /\ x.blockForest \in Seq(AnyRecord) /\ y.blockForest \in Seq(AnyRecord)
  BY DEF AnyCertificate
<1>a1. /\ p1(x) \in Seq(Bytes) /\ p1(y) \in Seq(Bytes)
      /\ (Agree(p1(x), p1(y)) => x.part = y.part) /\ (x.part = y.part => p1(x) = p1(y))
  BY <1>1, ClaimListTold
<1>a2. /\ p2(x) \in Seq(Bytes) /\ p2(y) \in Seq(Bytes)
      /\ (Agree(p2(x), p2(y)) => x.blockForest = y.blockForest)
      /\ (x.blockForest = y.blockForest => p2(x) = p2(y))
  BY <1>1, RecordListTold
<1> HIDE DEF p1, p2
<1>b1. /\ s1(x) \in Seq(Bytes) /\ s1(y) \in Seq(Bytes)
       /\ Agree(s1(x), s1(y)) => x.part = y.part /\ s1(x) = s1(y)
  BY <1>a1
<1>b2. /\ s2(x) \in Seq(Bytes) /\ s2(y) \in Seq(Bytes)
       /\ Agree(s2(x), s2(y)) =>
            x.part = y.part /\ x.blockForest = y.blockForest /\ s2(x) = s2(y)
  <2> HIDE DEF s1
  <2>1. s2(x) \in Seq(Bytes) /\ s2(y) \in Seq(Bytes)
    BY <1>a2, <1>b1
  <2>2. Agree(s2(x), s2(y)) => s1(x) = s1(y) /\ p2(x) = p2(y)
    BY <1>a2, <1>b1, PartsTold
  <2>3. s1(x) = s1(y) => Agree(s1(x), s1(y))
    BY AgreeSelf
  <2>4. p2(x) = p2(y) => Agree(p2(x), p2(y))
    BY AgreeSelf
  <2> QED  BY <1>a2, <1>b1, <2>1, <2>2, <2>3, <2>4
<1>2. s2(x) = WriteCertificate(x) /\ s2(y) = WriteCertificate(y)
  BY DEF WriteCertificate, p1, p2
<1>3. x.part = y.part /\ x.blockForest = y.blockForest => x = y
  BY DEF AnyCertificate
<1> HIDE DEF s1, s2
<1> QED  BY <1>b2, <1>2, <1>3

(* The rank and the transactions of a component. *)
LEMMA PartTold ==
    \A x, y \in AnyPart :
        /\ (<<x.rank>> \o WriteTxIDs(x.txs)) \in Seq(Bytes)
        /\ Agree((<<x.rank>> \o WriteTxIDs(x.txs)), (<<y.rank>> \o WriteTxIDs(y.txs))) => x = y
<1> SUFFICES ASSUME NEW x \in AnyPart, NEW y \in AnyPart
             PROVE  /\ (<<x.rank>> \o WriteTxIDs(x.txs)) \in Seq(Bytes)
                    /\ Agree((<<x.rank>> \o WriteTxIDs(x.txs)),
                             (<<y.rank>> \o WriteTxIDs(y.txs))) => x = y
  OBVIOUS
<1> DEFINE p1(z) == <<z.rank>>
           p2(z) == WriteTxIDs(z.txs)
           s1(z) == p1(z)
           s2(z) == s1(z) \o p2(z)
<1>1. /\ x.rank \in Bytes /\ y.rank \in Bytes
      /\ x.txs \in Seq(AnyHash) /\ y.txs \in Seq(AnyHash)
  BY DEF AnyPart
<1>a1. /\ p1(x) \in Seq(Bytes) /\ p1(y) \in Seq(Bytes)
      /\ (Agree(p1(x), p1(y)) => x.rank = y.rank) /\ (x.rank = y.rank => p1(x) = p1(y))
  BY <1>1, HashesTold
<1>a2. /\ p2(x) \in Seq(Bytes) /\ p2(y) \in Seq(Bytes)
      /\ (Agree(p2(x), p2(y)) => x.txs = y.txs) /\ (x.txs = y.txs => p2(x) = p2(y))
  BY <1>1, TxIDsTold
<1> HIDE DEF p1, p2
<1>b1. /\ s1(x) \in Seq(Bytes) /\ s1(y) \in Seq(Bytes)
       /\ Agree(s1(x), s1(y)) => x.rank = y.rank /\ s1(x) = s1(y)
  BY <1>a1
<1>b2. /\ s2(x) \in Seq(Bytes) /\ s2(y) \in Seq(Bytes)
       /\ Agree(s2(x), s2(y)) =>
            x.rank = y.rank /\ x.txs = y.txs /\ s2(x) = s2(y)
  <2> HIDE DEF s1
  <2>1. s2(x) \in Seq(Bytes) /\ s2(y) \in Seq(Bytes)
    BY <1>a2, <1>b1
  <2>2. Agree(s2(x), s2(y)) => s1(x) = s1(y) /\ p2(x) = p2(y)
    BY <1>a2, <1>b1, PartsTold
  <2>3. s1(x) = s1(y) => Agree(s1(x), s1(y))
    BY AgreeSelf
  <2>4. p2(x) = p2(y) => Agree(p2(x), p2(y))
    BY AgreeSelf
  <2> QED  BY <1>a2, <1>b1, <2>1, <2>2, <2>3, <2>4
<1>2. s2(x) = (<<x.rank>> \o WriteTxIDs(x.txs)) /\ s2(y) = (<<y.rank>> \o WriteTxIDs(y.txs))
  BY DEF p1, p2
<1>3. x.rank = y.rank /\ x.txs = y.txs => x = y
  BY DEF AnyPart
<1> HIDE DEF s1, s2
<1> QED  BY <1>b2, <1>2, <1>3

(* The components of a state identifier. *)
LEMMA PartListTold ==
    \A x, y \in Seq(AnyPart) :
        /\ WriteList([i \in DOMAIN x |-> <<x[i].rank>> \o WriteTxIDs(x[i].txs)]) \in Seq(Bytes)
        /\ Agree(WriteList([i \in DOMAIN x |-> <<x[i].rank>> \o WriteTxIDs(x[i].txs)]),
                 WriteList([i \in DOMAIN y |-> <<y[i].rank>> \o WriteTxIDs(y[i].txs)])) => x = y
<1> DEFINE w == [e \in AnyPart |-> <<e.rank>> \o WriteTxIDs(e.txs)]
           lists == [a \in Seq(AnyPart) |-> WriteList([i \in DOMAIN a |-> w[a[i]]])]
<1>1. Tells(w, AnyPart)
  BY PartTold DEF Tells
<1>2. Tells(lists, Seq(AnyPart))
  <2> HIDE DEF w
  <2> QED  BY <1>1, ListTells
<1>3. ASSUME NEW x \in Seq(AnyPart)
     PROVE lists[x] = WriteList([i \in DOMAIN x |-> <<x[i].rank>> \o WriteTxIDs(x[i].txs)])
  <2>1. \A i \in DOMAIN x : x[i] \in AnyPart
    OBVIOUS
  <2>2. [i \in DOMAIN x |-> w[x[i]]] = [i \in DOMAIN x |-> <<x[i].rank>> \o WriteTxIDs(x[i].txs)]
    BY <2>1
  <2> HIDE DEF w
  <2> QED  BY <2>2
<1> HIDE DEF lists
<1> QED  BY <1>2, <1>3 DEF Tells

(* What a state identifier hashes. *)
LEMMA PostStateTold ==
    \A x, y \in AnyPostState :
        WritePostState(x) \in Seq(Bytes) /\ (Agree(WritePostState(x), WritePostState(y)) => x = y)
<1> SUFFICES ASSUME NEW x \in AnyPostState, NEW y \in AnyPostState
             PROVE  /\ WritePostState(x) \in Seq(Bytes)
                    /\ Agree(WritePostState(x), WritePostState(y)) => x = y
  OBVIOUS
<1> DEFINE p1(z) == z.preState
           p2(z) == WriteFinalOrder(z.finalOrder)
           p3(z) == WriteList([i \in DOMAIN z.part |-> <<z.part[i].rank>> \o WriteTxIDs(z.part[i].txs)])
           s1(z) == p1(z)
           s2(z) == s1(z) \o p2(z)
           s3(z) == s2(z) \o p3(z)
<1>1. /\ x.preState \in AnyHash /\ y.preState \in AnyHash
      /\ x.finalOrder \in Seq(AnyBatch) /\ y.finalOrder \in Seq(AnyBatch)
      /\ x.part \in Seq(AnyPart) /\ y.part \in Seq(AnyPart)
  BY DEF AnyPostState
<1>a1. /\ p1(x) \in Seq(Bytes) /\ p1(y) \in Seq(Bytes)
      /\ (Agree(p1(x), p1(y)) => x.preState = y.preState)
      /\ (x.preState = y.preState => p1(x) = p1(y))
  BY <1>1, HashesTold
<1>a2. /\ p2(x) \in Seq(Bytes) /\ p2(y) \in Seq(Bytes)
      /\ (Agree(p2(x), p2(y)) => x.finalOrder = y.finalOrder)
      /\ (x.finalOrder = y.finalOrder => p2(x) = p2(y))
  BY <1>1, FinalOrderTold
<1>a3. /\ p3(x) \in Seq(Bytes) /\ p3(y) \in Seq(Bytes)
      /\ (Agree(p3(x), p3(y)) => x.part = y.part) /\ (x.part = y.part => p3(x) = p3(y))
  BY <1>1, PartListTold
<1> HIDE DEF p1, p2, p3
<1>b1. /\ s1(x) \in Seq(Bytes) /\ s1(y) \in Seq(Bytes)
       /\ Agree(s1(x), s1(y)) => x.preState = y.preState /\ s1(x) = s1(y)
  BY <1>a1
<1>b2. /\ s2(x) \in Seq(Bytes) /\ s2(y) \in Seq(Bytes)
       /\ Agree(s2(x), s2(y)) =>
            x.preState = y.preState /\ x.finalOrder = y.finalOrder /\ s2(x) = s2(y)
  <2> HIDE DEF s1
  <2>1. s2(x) \in Seq(Bytes) /\ s2(y) \in Seq(Bytes)
    BY <1>a2, <1>b1
  <2>2. Agree(s2(x), s2(y)) => s1(x) = s1(y) /\ p2(x) = p2(y)
    BY <1>a2, <1>b1, PartsTold
  <2>3. s1(x) = s1(y) => Agree(s1(x), s1(y))
    BY AgreeSelf
  <2>4. p2(x) = p2(y) => Agree(p2(x), p2(y))
    BY AgreeSelf
  <2> QED  BY <1>a2, <1>b1, <2>1, <2>2, <2>3, <2>4
<1>b3. /\ s3(x) \in Seq(Bytes) /\ s3(y) \in Seq(Bytes)
       /\ Agree(s3(x), s3(y)) =>
            x.preState = y.preState /\ x.finalOrder = y.finalOrder /\ x.part = y.part /\ s3(x) = s3(y)
  <2> HIDE DEF s2
  <2>1. s3(x) \in Seq(Bytes) /\ s3(y) \in Seq(Bytes)
    BY <1>a3, <1>b2
  <2>2. Agree(s3(x), s3(y)) => s2(x) = s2(y) /\ p3(x) = p3(y)
    BY <1>a3, <1>b2, PartsTold
  <2>3. s2(x) = s2(y) => Agree(s2(x), s2(y))
    BY AgreeSelf
  <2>4. p3(x) = p3(y) => Agree(p3(x), p3(y))
    BY AgreeSelf
  <2> QED  BY <1>a3, <1>b2, <2>1, <2>2, <2>3, <2>4
<1>2. s3(x) = WritePostState(x) /\ s3(y) = WritePostState(y)
  BY DEF WritePostState, p1, p2, p3
<1>3. x.preState = y.preState /\ x.finalOrder = y.finalOrder /\ x.part = y.part => x = y
  BY DEF AnyPostState
<1> HIDE DEF s1, s2, s3
<1> QED  BY <1>b3, <1>2, <1>3

(* What a replica signs. *)
LEMMA LocalOrderTold ==
    \A x, y \in AnyLocalOrder :
        /\ WriteLocalOrder(x) \in Seq(Bytes)
        /\ Agree(WriteLocalOrder(x), WriteLocalOrder(y)) => x = y
<1> SUFFICES ASSUME NEW x \in AnyLocalOrder, NEW y \in AnyLocalOrder
             PROVE  /\ WriteLocalOrder(x) \in Seq(Bytes)
                    /\ Agree(WriteLocalOrder(x), WriteLocalOrder(y)) => x = y
  OBVIOUS
<1> DEFINE p1(z) == <<z.replica>>
           p2(z) == <<z.fragmentSeq>>
           p3(z) == z.prevHead
           p4(z) == WriteTxIDs(z.txs)
           p5(z) == z.newHead
           p6(z) == WriteBytes(z.signature)
           s1(z) == p1(z)
           s2(z) == s1(z) \o p2(z)
           s3(z) == s2(z) \o p3(z)
           s4(z) == s3(z) \o p4(z)
           s5(z) == s4(z) \o p5(z)
           s6(z) == s5(z) \o p6(z)
<1>1. /\ x.replica \in Bytes /\ y.replica \in Bytes
      /\ x.fragmentSeq \in Bytes /\ y.fragmentSeq \in Bytes
      /\ x.prevHead \in AnyHash /\ y.prevHead \in AnyHash
      /\ x.txs \in Seq(AnyHash) /\ y.txs \in Seq(AnyHash)
      /\ x.newHead \in AnyHash /\ y.newHead \in AnyHash
      /\ x.signature \in Seq(Bytes) /\ y.signature \in Seq(Bytes)
  BY DEF AnyLocalOrder
<1>a1. /\ p1(x) \in Seq(Bytes) /\ p1(y) \in Seq(Bytes)
      /\ (Agree(p1(x), p1(y)) => x.replica = y.replica) /\ (x.replica = y.replica => p1(x) = p1(y))
  BY <1>1, HashesTold
<1>a2. /\ p2(x) \in Seq(Bytes) /\ p2(y) \in Seq(Bytes)
      /\ (Agree(p2(x), p2(y)) => x.fragmentSeq = y.fragmentSeq)
      /\ (x.fragmentSeq = y.fragmentSeq => p2(x) = p2(y))
  BY <1>1, HashesTold
<1>a3. /\ p3(x) \in Seq(Bytes) /\ p3(y) \in Seq(Bytes)
      /\ (Agree(p3(x), p3(y)) => x.prevHead = y.prevHead)
      /\ (x.prevHead = y.prevHead => p3(x) = p3(y))
  BY <1>1, HashesTold
<1>a4. /\ p4(x) \in Seq(Bytes) /\ p4(y) \in Seq(Bytes)
      /\ (Agree(p4(x), p4(y)) => x.txs = y.txs) /\ (x.txs = y.txs => p4(x) = p4(y))
  BY <1>1, TxIDsTold
<1>a5. /\ p5(x) \in Seq(Bytes) /\ p5(y) \in Seq(Bytes)
      /\ (Agree(p5(x), p5(y)) => x.newHead = y.newHead) /\ (x.newHead = y.newHead => p5(x) = p5(y))
  BY <1>1, HashesTold
<1>a6. /\ p6(x) \in Seq(Bytes) /\ p6(y) \in Seq(Bytes)
      /\ (Agree(p6(x), p6(y)) => x.signature = y.signature)
      /\ (x.signature = y.signature => p6(x) = p6(y))
  BY <1>1, BytesTold
<1> HIDE DEF p1, p2, p3, p4, p5, p6
<1>b1. /\ s1(x) \in Seq(Bytes) /\ s1(y) \in Seq(Bytes)
       /\ Agree(s1(x), s1(y)) => x.replica = y.replica /\ s1(x) = s1(y)
  BY <1>a1
<1>b2. /\ s2(x) \in Seq(Bytes) /\ s2(y) \in Seq(Bytes)
       /\ Agree(s2(x), s2(y)) =>
            x.replica = y.replica /\ x.fragmentSeq = y.fragmentSeq /\ s2(x) = s2(y)
  <2> HIDE DEF s1
  <2>1. s2(x) \in Seq(Bytes) /\ s2(y) \in Seq(Bytes)
    BY <1>a2, <1>b1
  <2>2. Agree(s2(x), s2(y)) => s1(x) = s1(y) /\ p2(x) = p2(y)
    BY <1>a2, <1>b1, PartsTold
  <2>3. s1(x) = s1(y) => Agree(s1(x), s1(y))
    BY AgreeSelf
  <2>4. p2(x) = p2(y) => Agree(p2(x), p2(y))
    BY AgreeSelf
  <2> QED  BY <1>a2, <1>b1, <2>1, <2>2, <2>3, <2>4
<1>b3. /\ s3(x) \in Seq(Bytes) /\ s3(y) \in Seq(Bytes)
       /\ Agree(s3(x), s3(y)) =>
            /\ x.replica = y.replica
            /\ x.fragmentSeq = y.fragmentSeq
            /\ x.prevHead = y.prevHead
            /\ s3(x) = s3(y)
  <2> HIDE DEF s2
  <2>1. s3(x) \in Seq(Bytes) /\ s3(y) \in Seq(Bytes)
    BY <1>a3, <1>b2
  <2>2. Agree(s3(x), s3(y)) => s2(x) = s2(y) /\ p3(x) = p3(y)
    BY <1>a3, <1>b2, PartsTold
  <2>3. s2(x) = s2(y) => Agree(s2(x), s2(y))
    BY AgreeSelf
  <2>4. p3(x) = p3(y) => Agree(p3(x), p3(y))
    BY AgreeSelf
  <2> QED  BY <1>a3, <1>b2, <2>1, <2>2, <2>3, <2>4
<1>b4. /\ s4(x) \in Seq(Bytes) /\ s4(y) \in Seq(Bytes)
       /\ Agree(s4(x), s4(y)) =>
            /\ x.replica = y.replica
            /\ x.fragmentSeq = y.fragmentSeq
            /\ x.prevHead = y.prevHead
            /\ x.txs = y.txs
            /\ s4(x) = s4(y)
  <2> HIDE DEF s3
  <2>1. s4(x) \in Seq(Bytes) /\ s4(y) \in Seq(Bytes)
    BY <1>a4, <1>b3
  <2>2. Agree(s4(x), s4(y)) => s3(x) = s3(y) /\ p4(x) = p4(y)
    BY <1>a4, <1>b3, PartsTold
  <2>3. s3(x) = s3(y) => Agree(s3(x), s3(y))
    BY AgreeSelf
  <2>4. p4(x) = p4(y) => Agree(p4(x), p4(y))
    BY AgreeSelf
  <2> QED  BY <1>a4, <1>b3, <2>1, <2>2, <2>3, <2>4
<1>b5. /\ s5(x) \in Seq(Bytes) /\ s5(y) \in Seq(Bytes)
       /\ Agree(s5(x), s5(y)) =>
            /\ x.replica = y.replica
            /\ x.fragmentSeq = y.fragmentSeq
            /\ x.prevHead = y.prevHead
            /\ x.txs = y.txs
            /\ x.newHead = y.newHead
            /\ s5(x) = s5(y)
  <2> HIDE DEF s4
  <2>1. s5(x) \in Seq(Bytes) /\ s5(y) \in Seq(Bytes)
    BY <1>a5, <1>b4
  <2>2. Agree(s5(x), s5(y)) => s4(x) = s4(y) /\ p5(x) = p5(y)
    BY <1>a5, <1>b4, PartsTold
  <2>3. s4(x) = s4(y) => Agree(s4(x), s4(y))
    BY AgreeSelf
  <2>4. p5(x) = p5(y) => Agree(p5(x), p5(y))
    BY AgreeSelf
  <2> QED  BY <1>a5, <1>b4, <2>1, <2>2, <2>3, <2>4
<1>b6. /\ s6(x) \in Seq(Bytes) /\ s6(y) \in Seq(Bytes)
       /\ Agree(s6(x), s6(y)) =>
            /\ x.replica = y.replica
            /\ x.fragmentSeq = y.fragmentSeq
            /\ x.prevHead = y.prevHead
            /\ x.txs = y.txs
            /\ x.newHead = y.newHead
            /\ x.signature = y.signature
            /\ s6(x) = s6(y)
  <2> HIDE DEF s5
  <2>1. s6(x) \in Seq(Bytes) /\ s6(y) \in Seq(Bytes)
    BY <1>a6, <1>b5
  <2>2. Agree(s6(x), s6(y)) => s5(x) = s5(y) /\ p6(x) = p6(y)
    BY <1>a6, <1>b5, PartsTold
  <2>3. s5(x) = s5(y) => Agree(s5(x), s5(y))
    BY AgreeSelf
  <2>4. p6(x) = p6(y) => Agree(p6(x), p6(y))
    BY AgreeSelf
  <2> QED  BY <1>a6, <1>b5, <2>1, <2>2, <2>3, <2>4
<1>2. s6(x) = WriteLocalOrder(x) /\ s6(y) = WriteLocalOrder(y)
  <2>1. ASSUME NEW c \in Bytes, NEW d \in Bytes  PROVE <<c>> \o <<d>> = <<c, d>>
    <3>1. /\ <<c>> \o <<d>> \in Seq(Bytes) /\ Len(<<c>> \o <<d>>) = 2
          /\ (<<c>> \o <<d>>)[1] = c /\ (<<c>> \o <<d>>)[2] = d
      OBVIOUS
    <3>2. <<c, d>> \in Seq(Bytes) /\ Len(<<c, d>>) = 2 /\ <<c, d>>[1] = c /\ <<c, d>>[2] = d
      OBVIOUS
    <3>3. \A i \in 1 .. 2 : i = 1 \/ i = 2
      OBVIOUS
    <3>4. Agree(<<c>> \o <<d>>, <<c, d>>)
      BY <3>1, <3>2, <3>3 DEF Agree
    <3> QED  BY <3>1, <3>2, <3>4, AgreeSame
  <2> QED  BY <1>1, <2>1 DEF WriteLocalOrder, p1, p2, p3, p4, p5, p6
<1>3. (/\ x.replica = y.replica
       /\ x.fragmentSeq = y.fragmentSeq
       /\ x.prevHead = y.prevHead
       /\ x.txs = y.txs
       /\ x.newHead = y.newHead
       /\ x.signature = y.signature) => x = y
  BY DEF AnyLocalOrder
<1> HIDE DEF s1, s2, s3, s4, s5, s6
<1> QED  BY <1>b6, <1>2, <1>3

(* The evidence of a candidate. *)
LEMMA EvidenceTold ==
    \A x, y \in Seq(AnyLocalOrder) :
        WriteEvidence(x) \in Seq(Bytes) /\ (Agree(WriteEvidence(x), WriteEvidence(y)) => x = y)
<1> DEFINE w == [e \in AnyLocalOrder |-> WriteLocalOrder(e)]
           lists == [a \in Seq(AnyLocalOrder) |-> WriteList([i \in DOMAIN a |-> w[a[i]]])]
<1>1. Tells(w, AnyLocalOrder)
  BY LocalOrderTold DEF Tells
<1>2. Tells(lists, Seq(AnyLocalOrder))
  <2> HIDE DEF w
  <2> QED  BY <1>1, ListTells
<1>3. ASSUME NEW x \in Seq(AnyLocalOrder)  PROVE lists[x] = WriteEvidence(x)
  <2>1. \A i \in DOMAIN x : x[i] \in AnyLocalOrder
    OBVIOUS
  <2>2. [i \in DOMAIN x |-> w[x[i]]] = [i \in DOMAIN x |-> WriteLocalOrder(x[i])]
    BY <2>1
  <2> HIDE DEF w
  <2> QED  BY <2>2 DEF WriteEvidence
<1> HIDE DEF lists
<1> QED  BY <1>2, <1>3 DEF Tells

(* What the digest of a candidate hashes. *)
LEMMA FragmentTold ==
    \A x, y \in AnyFragment :
        WriteFragment(x) \in Seq(Bytes) /\ (Agree(WriteFragment(x), WriteFragment(y)) => x = y)
<1> SUFFICES ASSUME NEW x \in AnyFragment, NEW y \in AnyFragment
             PROVE  /\ WriteFragment(x) \in Seq(Bytes)
                    /\ Agree(WriteFragment(x), WriteFragment(y)) => x = y
  OBVIOUS
<1> DEFINE p1(z) == z.previousStateID
           p2(z) == WriteEvidence(z.evidence)
           p3(z) == WriteFinalOrder(z.finalOrder)
           p4(z) == WriteCertificate(z.certificate)
           p5(z) == z.candidatePostStateID
           s1(z) == p1(z)
           s2(z) == s1(z) \o p2(z)
           s3(z) == s2(z) \o p3(z)
           s4(z) == s3(z) \o p4(z)
           s5(z) == s4(z) \o p5(z)
<1>1. /\ x.previousStateID \in AnyHash /\ y.previousStateID \in AnyHash
      /\ x.evidence \in Seq(AnyLocalOrder) /\ y.evidence \in Seq(AnyLocalOrder)
      /\ x.finalOrder \in Seq(AnyBatch) /\ y.finalOrder \in Seq(AnyBatch)
      /\ x.certificate \in AnyCertificate /\ y.certificate \in AnyCertificate
      /\ x.candidatePostStateID \in AnyHash /\ y.candidatePostStateID \in AnyHash
  BY DEF AnyFragment
<1>a1. /\ p1(x) \in Seq(Bytes) /\ p1(y) \in Seq(Bytes)
      /\ (Agree(p1(x), p1(y)) => x.previousStateID = y.previousStateID)
      /\ (x.previousStateID = y.previousStateID => p1(x) = p1(y))
  BY <1>1, HashesTold
<1>a2. /\ p2(x) \in Seq(Bytes) /\ p2(y) \in Seq(Bytes)
      /\ (Agree(p2(x), p2(y)) => x.evidence = y.evidence)
      /\ (x.evidence = y.evidence => p2(x) = p2(y))
  BY <1>1, EvidenceTold
<1>a3. /\ p3(x) \in Seq(Bytes) /\ p3(y) \in Seq(Bytes)
      /\ (Agree(p3(x), p3(y)) => x.finalOrder = y.finalOrder)
      /\ (x.finalOrder = y.finalOrder => p3(x) = p3(y))
  BY <1>1, FinalOrderTold
<1>a4. /\ p4(x) \in Seq(Bytes) /\ p4(y) \in Seq(Bytes)
      /\ (Agree(p4(x), p4(y)) => x.certificate = y.certificate)
      /\ (x.certificate = y.certificate => p4(x) = p4(y))
  BY <1>1, CertificateTold
<1>a5. /\ p5(x) \in Seq(Bytes) /\ p5(y) \in Seq(Bytes)
      /\ (Agree(p5(x), p5(y)) => x.candidatePostStateID = y.candidatePostStateID)
      /\ (x.candidatePostStateID = y.candidatePostStateID => p5(x) = p5(y))
  BY <1>1, HashesTold
<1> HIDE DEF p1, p2, p3, p4, p5
<1>b1. /\ s1(x) \in Seq(Bytes) /\ s1(y) \in Seq(Bytes)
       /\ Agree(s1(x), s1(y)) => x.previousStateID = y.previousStateID /\ s1(x) = s1(y)
  BY <1>a1
<1>b2. /\ s2(x) \in Seq(Bytes) /\ s2(y) \in Seq(Bytes)
       /\ Agree(s2(x), s2(y)) =>
            x.previousStateID = y.previousStateID /\ x.evidence = y.evidence /\ s2(x) = s2(y)
  <2> HIDE DEF s1
  <2>1. s2(x) \in Seq(Bytes) /\ s2(y) \in Seq(Bytes)
    BY <1>a2, <1>b1
  <2>2. Agree(s2(x), s2(y)) => s1(x) = s1(y) /\ p2(x) = p2(y)
    BY <1>a2, <1>b1, PartsTold
  <2>3. s1(x) = s1(y) => Agree(s1(x), s1(y))
    BY AgreeSelf
  <2>4. p2(x) = p2(y) => Agree(p2(x), p2(y))
    BY AgreeSelf
  <2> QED  BY <1>a2, <1>b1, <2>1, <2>2, <2>3, <2>4
<1>b3. /\ s3(x) \in Seq(Bytes) /\ s3(y) \in Seq(Bytes)
       /\ Agree(s3(x), s3(y)) =>
            /\ x.previousStateID = y.previousStateID
            /\ x.evidence = y.evidence
            /\ x.finalOrder = y.finalOrder
            /\ s3(x) = s3(y)
  <2> HIDE DEF s2
  <2>1. s3(x) \in Seq(Bytes) /\ s3(y) \in Seq(Bytes)
    BY <1>a3, <1>b2
  <2>2. Agree(s3(x), s3(y)) => s2(x) = s2(y) /\ p3(x) = p3(y)
    BY <1>a3, <1>b2, PartsTold
  <2>3. s2(x) = s2(y) => Agree(s2(x), s2(y))
    BY AgreeSelf
  <2>4. p3(x) = p3(y) => Agree(p3(x), p3(y))
    BY AgreeSelf
  <2> QED  BY <1>a3, <1>b2, <2>1, <2>2, <2>3, <2>4
<1>b4. /\ s4(x) \in Seq(Bytes) /\ s4(y) \in Seq(Bytes)
       /\ Agree(s4(x), s4(y)) =>
            /\ x.previousStateID = y.previousStateID
            /\ x.evidence = y.evidence
            /\ x.finalOrder = y.finalOrder
            /\ x.certificate = y.certificate
            /\ s4(x) = s4(y)
  <2> HIDE DEF s3
  <2>1. s4(x) \in Seq(Bytes) /\ s4(y) \in Seq(Bytes)
    BY <1>a4, <1>b3
  <2>2. Agree(s4(x), s4(y)) => s3(x) = s3(y) /\ p4(x) = p4(y)
    BY <1>a4, <1>b3, PartsTold
  <2>3. s3(x) = s3(y) => Agree(s3(x), s3(y))
    BY AgreeSelf
  <2>4. p4(x) = p4(y) => Agree(p4(x), p4(y))
    BY AgreeSelf
  <2> QED  BY <1>a4, <1>b3, <2>1, <2>2, <2>3, <2>4
<1>b5. /\ s5(x) \in Seq(Bytes) /\ s5(y) \in Seq(Bytes)
       /\ Agree(s5(x), s5(y)) =>
            /\ x.previousStateID = y.previousStateID
            /\ x.evidence = y.evidence
            /\ x.finalOrder = y.finalOrder
            /\ x.certificate = y.certificate
            /\ x.candidatePostStateID = y.candidatePostStateID
            /\ s5(x) = s5(y)
  <2> HIDE DEF s4
  <2>1. s5(x) \in Seq(Bytes) /\ s5(y) \in Seq(Bytes)
    BY <1>a5, <1>b4
  <2>2. Agree(s5(x), s5(y)) => s4(x) = s4(y) /\ p5(x) = p5(y)
    BY <1>a5, <1>b4, PartsTold
  <2>3. s4(x) = s4(y) => Agree(s4(x), s4(y))
    BY AgreeSelf
  <2>4. p5(x) = p5(y) => Agree(p5(x), p5(y))
    BY AgreeSelf
  <2> QED  BY <1>a5, <1>b4, <2>1, <2>2, <2>3, <2>4
<1>2. s5(x) = WriteFragment(x) /\ s5(y) = WriteFragment(y)
  BY DEF WriteFragment, p1, p2, p3, p4, p5
<1>3. (/\ x.previousStateID = y.previousStateID
       /\ x.evidence = y.evidence
       /\ x.finalOrder = y.finalOrder
       /\ x.certificate = y.certificate
       /\ x.candidatePostStateID = y.candidatePostStateID) => x = y
  BY DEF AnyFragment
<1> HIDE DEF s1, s2, s3, s4, s5
<1> QED  BY <1>b5, <1>2, <1>3

-----------------------------------------------------------------------------
(* Digests. *)

(* The bytes that a signature, the digest of a candidate or a state          *)
(* identifier is taken over determine the order, the candidate and the state *)
(* for lists of any length (LocalOrderDigest, FragmentDigest,                *)
(* PostStateIdentifier): none even begins another's.                         *)
THEOREM DigestsDetermine ==
    /\ \A x, y \in AnyLocalOrder : IsPrefix(WriteLocalOrder(x), WriteLocalOrder(y)) => x = y
    /\ \A x, y \in AnyFragment : IsPrefix(WriteFragment(x), WriteFragment(y)) => x = y
    /\ \A x, y \in AnyPostState : IsPrefix(WritePostState(x), WritePostState(y)) => x = y
<1>1. \A x, y \in AnyLocalOrder : IsPrefix(WriteLocalOrder(x), WriteLocalOrder(y)) => x = y
  BY LocalOrderTold, PrefixAgrees
<1>2. \A x, y \in AnyFragment : IsPrefix(WriteFragment(x), WriteFragment(y)) => x = y
  BY FragmentTold, PrefixAgrees
<1>3. \A x, y \in AnyPostState : IsPrefix(WritePostState(x), WritePostState(y)) => x = y
  BY PostStateTold, PrefixAgrees
<1> QED  BY <1>1, <1>2, <1>3

(* Lists of the run are lists. *)
LEMMA SomeLists ==
    ASSUME NEW S, NEW V, S \subseteq V
    PROVE  ListsOf(S) \subseteq Seq(V) /\ ShortLists(S) \subseteq Seq(V)
<1>1. ASSUME NEW a \in ListsOf(S)  PROVE a \in Seq(V)
  <2>1. PICK k \in 0 .. MaxLen : a \in [1 .. k -> S]
    BY <1>1 DEF ListsOf
  <2>2. k \in Nat /\ a \in [1 .. k -> V]
    BY <2>1, EncodingAssumption
  <2> QED  BY <2>2
<1>2. ASSUME NEW a \in ShortLists(S)  PROVE a \in Seq(V)
  <2>1. CASE a = <<>>
    BY <2>1
  <2>2. CASE a # <<>>
    <3>1. PICK x \in S : a = <<x>>
      BY <1>2, <2>2 DEF ShortLists
    <3> QED  BY <3>1
  <2> QED  BY <2>1, <2>2
<1> QED  BY <1>1, <1>2

(* The values of a run are values. *)
LEMMA SomeValues ==
    /\ LocalOrders \subseteq AnyLocalOrder /\ SmallOrders \subseteq AnyLocalOrder
    /\ Batches \subseteq AnyBatch /\ SmallBatches \subseteq AnyBatch
    /\ ClaimsOf(ShortLists(Edges)) \subseteq AnyClaim /\ SmallClaims \subseteq AnyClaim
    /\ BlockRecords \subseteq AnyRecord /\ SmallRecords \subseteq AnyRecord
<1>1. 0 \in Bytes /\ 1 \in Bytes
  BY DEF Bytes
<1>2. ZeroHash \in AnyHash /\ SomeHashes \subseteq AnyHash /\ {ZeroHash} \subseteq AnyHash
  BY <1>1 DEF SomeHashes, AnyHash, ZeroHash
<1>3. Edges \subseteq AnyEdge
  BY <1>2 DEF Edges, AnyEdge
<1>4. /\ ListsOf(SomeHashes) \subseteq Seq(AnyHash) /\ ShortLists({ZeroHash}) \subseteq Seq(AnyHash)
      /\ ListsOf({ZeroHash}) \subseteq Seq(AnyHash) /\ ShortLists(Edges) \subseteq Seq(AnyEdge)
      /\ ListsOf({0, 1}) \subseteq Seq(Bytes) /\ ShortLists({0}) \subseteq Seq(Bytes)
  <2>1. {0, 1} \subseteq Bytes /\ {0} \subseteq Bytes
    BY <1>1
  <2> QED  BY <1>2, <1>3, <2>1, SomeLists
<1>5. LocalOrders \subseteq AnyLocalOrder
  BY <1>1, <1>2, <1>4 DEF LocalOrders, AnyLocalOrder
<1>6. SmallOrders \subseteq AnyLocalOrder
  BY <1>1, <1>2, <1>4 DEF SmallOrders, AnyLocalOrder
<1>7. Batches \subseteq AnyBatch /\ SmallBatches \subseteq AnyBatch
  BY <1>1, <1>4 DEF Batches, SmallBatches, AnyBatch
<1>8. ClaimsOf(ShortLists(Edges)) \subseteq AnyClaim
  BY <1>1, <1>4 DEF ClaimsOf, AnyClaim
<1>9. SmallClaims \subseteq AnyClaim
  <2>1. <<ZeroHash>> \in Seq(AnyHash) /\ <<>> \in Seq(AnyEdge)
    BY <1>2
  <2> QED  BY <1>1, <2>1 DEF SmallClaims, AnyClaim
<1>10. BlockRecords \subseteq AnyRecord
  BY <1>1, <1>2 DEF BlockRecords, AnyRecord
<1>11. SmallRecords \subseteq AnyRecord
  BY <1>1, <1>2 DEF SmallRecords, AnyRecord
<1> QED  BY <1>5, <1>6, <1>7, <1>8, <1>9, <1>10, <1>11

(* No section of a run begins another's. *)
LEMMA SectionsTold ==
    ASSUME NEW s \in Sections, NEW x \in Values(s), NEW y \in Values(s),
           IsPrefix(Encode(s, x), Encode(s, y))
    PROVE  x = y
<1>1. CASE s = "localOrder"
  <2>1. x \in AnyLocalOrder /\ y \in AnyLocalOrder
    BY <1>1, SomeValues DEF Values
  <2>2. Encode(s, x) = WriteLocalOrder(x) /\ Encode(s, y) = WriteLocalOrder(y)
    BY <1>1 DEF Encode
  <2> QED  BY <2>1, <2>2, DigestsDetermine
<1>2. CASE s = "finalOrder"
  <2>1. x \in Seq(AnyBatch) /\ y \in Seq(AnyBatch)
    <3>1. Values(s) = ListsOf(SmallBatches) \cup ShortLists(Batches)
      BY <1>2 DEF Values
    <3> QED  BY <3>1, SomeValues, SomeLists
  <2>2. Encode(s, x) = WriteFinalOrder(x) /\ Encode(s, y) = WriteFinalOrder(y)
    BY <1>2 DEF Encode
  <2> QED  BY <2>1, <2>2, FinalOrderTold, PrefixAgrees
<1>3. CASE s = "claim"
  <2>1. x \in AnyClaim /\ y \in AnyClaim
    BY <1>3, SomeValues DEF Values
  <2>2. Encode(s, x) = WriteClaim(x) /\ Encode(s, y) = WriteClaim(y)
    BY <1>3 DEF Encode
  <2> QED  BY <2>1, <2>2, ClaimTold, PrefixAgrees
<1>4. CASE s = "record"
  <2>1. x \in AnyRecord /\ y \in AnyRecord
    BY <1>4, SomeValues DEF Values
  <2>2. Encode(s, x) = WriteRecord(x) /\ Encode(s, y) = WriteRecord(y)
    BY <1>4 DEF Encode
  <2> QED  BY <2>1, <2>2, RecordTold, PrefixAgrees
<1>5. CASE s = "postState"
  <2> DEFINE parts == [rank : {0}, txs : ShortLists({ZeroHash})]
  <2>1. Values(s) = [preState : SomeHashes, finalOrder : ListsOf(SmallBatches), part : ListsOf(parts)]
    BY <1>5 DEF Values
  <2>2. SomeHashes \subseteq AnyHash /\ {ZeroHash} \subseteq AnyHash
    BY DEF SomeHashes, AnyHash, ZeroHash, Bytes
  <2>3. ListsOf(SmallBatches) \subseteq Seq(AnyBatch)
    BY SomeValues, SomeLists
  <2>4. parts \subseteq AnyPart
    <3>1. 0 \in Bytes /\ ShortLists({ZeroHash}) \subseteq Seq(AnyHash)
      BY <2>2, SomeLists DEF Bytes
    <3> QED  BY <3>1 DEF AnyPart
  <2>5. ListsOf(parts) \subseteq Seq(AnyPart)
    BY <2>4, SomeLists
  <2> HIDE DEF parts
  <2>6. x \in AnyPostState /\ y \in AnyPostState
    BY <2>1, <2>2, <2>3, <2>5 DEF AnyPostState
  <2>7. Encode(s, x) = WritePostState(x) /\ Encode(s, y) = WritePostState(y)
    BY <1>5 DEF Encode
  <2> QED  BY <2>6, <2>7, DigestsDetermine
<1>6. CASE s = "fragment"
  <2>1. Values(s) =
            [previousStateID : {ZeroHash}, evidence : ShortLists(SmallOrders),
             finalOrder : ShortLists(SmallBatches),
             certificate : [part : ShortLists(SmallClaims), blockForest : ShortLists(SmallRecords)],
             candidatePostStateID : SomeHashes]
    BY <1>6 DEF Values
  <2>2. SomeHashes \subseteq AnyHash /\ {ZeroHash} \subseteq AnyHash
    BY DEF SomeHashes, AnyHash, ZeroHash, Bytes
  <2>3. /\ ShortLists(SmallOrders) \subseteq Seq(AnyLocalOrder)
        /\ ShortLists(SmallBatches) \subseteq Seq(AnyBatch)
        /\ ShortLists(SmallClaims) \subseteq Seq(AnyClaim)
        /\ ShortLists(SmallRecords) \subseteq Seq(AnyRecord)
    BY SomeValues, SomeLists
  <2>4. [part : ShortLists(SmallClaims), blockForest : ShortLists(SmallRecords)]
            \subseteq AnyCertificate
    BY <2>3 DEF AnyCertificate
  <2>5. x \in AnyFragment /\ y \in AnyFragment
    BY <2>1, <2>2, <2>3, <2>4 DEF AnyFragment
  <2>6. Encode(s, x) = WriteFragment(x) /\ Encode(s, y) = WriteFragment(y)
    BY <1>6 DEF Encode
  <2> QED  BY <2>5, <2>6, DigestsDetermine
<1> QED  BY <1>1, <1>2, <1>3, <1>4, <1>5, <1>6 DEF Sections

(* The encodings that a run compares tell their values apart. *)
THEOREM SelfDelimitingHolds == Spec => []SelfDelimiting
<1> DEFINE Inv == section \in Sections /\ first \in Values(section) /\ second \in Values(section)
<1>1. Init => Inv
  BY DEF Init
<1>2. Inv /\ [Next]_vars => Inv'
  BY DEF Next, Compare, vars
<1>3. Inv => SelfDelimiting
  BY SectionsTold DEF SelfDelimiting
<1> QED
  <2> HIDE DEF Inv
  <2> QED  BY <1>1, <1>2, <1>3, PTL DEF Spec
=============================================================================
