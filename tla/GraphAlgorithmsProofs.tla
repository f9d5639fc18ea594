------------------------- MODULE GraphAlgorithmsProofs -------------------------
(***************************************************************************)
(* Proofs about the two graph algorithms, for every graph on transactions: *)
(* Kahn's sort with indegrees and a ready list gives the order TopoSort    *)
(* states, whatever list of components it is given, and Tarjan's search    *)
(* with lowlinks and a stack outputs each component once.                  *)
(***************************************************************************)
EXTENDS EvidenceEngineProofs, GraphAlgorithms

-----------------------------------------------------------------------------
(* Sequences and ranks. *)

(* What one more element at the end of a sequence changes. *)
LEMMA AppendIds ==
    ASSUME NEW S, NEW seq \in Seq(S), NEW x \in S
    PROVE  /\ Append(seq, x) \in Seq(S) /\ Ids(Append(seq, x)) = Ids(seq) \cup {x}
           /\ DOMAIN seq = 1 .. Len(seq) /\ DOMAIN Append(seq, x) = 1 .. Len(seq) + 1
           /\ Len(seq) \in Nat /\ Append(seq, x)[Len(seq) + 1] = x
           /\ \A i \in 1 .. Len(seq) : Append(seq, x)[i] = seq[i]
<1> DEFINE longer == Append(seq, x)
<1>1. /\ longer \in Seq(S) /\ DOMAIN seq = 1 .. Len(seq) /\ DOMAIN longer = 1 .. Len(seq) + 1
      /\ Len(seq) \in Nat /\ longer[Len(seq) + 1] = x
      /\ \A i \in 1 .. Len(seq) : longer[i] = seq[i]
  OBVIOUS
<1> HIDE DEF longer
<1>2. \A i \in 1 .. Len(seq) + 1 : i \in 1 .. Len(seq) \/ i = Len(seq) + 1
  BY <1>1
<1>3. Len(seq) + 1 \in 1 .. Len(seq) + 1 /\ 1 .. Len(seq) \subseteq 1 .. Len(seq) + 1
  BY <1>1
<1>4. Ids(longer) = Ids(seq) \cup {x}
  BY <1>1, <1>2, <1>3 DEF Ids
<1> QED  BY <1>1, <1>4 DEF longer

(* The members of a finite set in the order of a key that tells them apart:  *)
(* there is one at each rank, and a list by rank holds each once.            *)
LEMMA RankedList ==
    ASSUME NEW S, IsFiniteSet(S), NEW key \in [S -> Nat],
           \A x, y \in S : key[x] = key[y] => x = y
    PROVE  /\ Cardinality(S) \in Nat
           /\ \A i \in 1 .. Cardinality(S) :
                \E x \in S : Cardinality({y \in S : key[y] < key[x]}) = i - 1
           /\ \A list \in [1 .. Cardinality(S) -> S] :
                (\A i \in 1 .. Cardinality(S) :
                    Cardinality({y \in S : key[y] < key[list[i]]}) = i - 1) =>
                /\ \A x \in S : \E i \in 1 .. Cardinality(S) : list[i] = x
                /\ \A i, j \in 1 .. Cardinality(S) : i < j => key[list[i]] < key[list[j]]
<1> DEFINE n == Cardinality(S)
           below(x) == {y \in S : key[y] < key[x]}
           rank(x) == Cardinality(below(x))
           f == [x \in S |-> rank(x) + 1]
<1>1. n \in Nat
  BY FS_CardinalityType
<1>2. ASSUME NEW x \in S  PROVE rank(x) \in Nat /\ rank(x) + 1 \in 1 .. n
  <2>1. below(x) \in SUBSET (S \ {x})
    OBVIOUS
  <2>2. IsFiniteSet(S \ {x}) /\ Cardinality(S \ {x}) = n - 1
    BY FS_RemoveElement
  <2> HIDE DEF below
  <2>3. IsFiniteSet(below(x)) /\ Cardinality(below(x)) <= n - 1
    BY <2>1, <2>2, FS_Subset
  <2>4. Cardinality(below(x)) \in Nat
    BY <2>3, FS_CardinalityType
  <2> QED  BY <1>1, <2>3, <2>4
<1>3. ASSUME NEW x \in S, NEW y \in S, key[x] < key[y]  PROVE rank(x) < rank(y)
  <2>1. below(x) \cup {x} \in SUBSET below(y) /\ x \notin below(x)
    BY <1>3
  <2>2. below(y) \in SUBSET S /\ below(x) \in SUBSET S
    OBVIOUS
  <2> HIDE DEF below
  <2>3. IsFiniteSet(below(y)) /\ IsFiniteSet(below(x))
    BY <2>2, FS_Subset
  <2>4. Cardinality(below(x) \cup {x}) = Cardinality(below(x)) + 1
    BY <2>1, <2>3, FS_AddElement
  <2>5. Cardinality(below(x) \cup {x}) <= Cardinality(below(y))
    BY <2>1, <2>3, FS_Subset
  <2>6. rank(x) \in Nat /\ rank(y) \in Nat
    BY <1>2
  <2> QED  BY <2>4, <2>5, <2>6
<1> HIDE DEF rank
<1>4. \A x, y \in S : rank(x) = rank(y) => x = y
  <2>1. \A x, y \in S : key[x] < key[y] \/ key[y] < key[x] \/ x = y
    OBVIOUS
  <2> QED  BY <1>2, <1>3, <2>1
<1>5. f \in Injection(S, 1 .. n)
  <2>1. f \in [S -> 1 .. n] /\ \A x, y \in S : f[x] = f[y] => x = y
    BY <1>1, <1>2, <1>4
  <2> HIDE DEF f
  <2> QED  BY <2>1 DEF Injection, IsInjective
<1>6. f \in Surjection(S, 1 .. n)
  <2>1. IsFiniteSet(1 .. n) /\ Cardinality(1 .. n) = n
    BY <1>1, FS_Interval
  <2> HIDE DEF f
  <2> QED  BY <1>5, <2>1, FS_Injection
<1>7. \A i \in 1 .. n : \E x \in S : rank(x) = i - 1
  <2>1. \A i \in 1 .. n : \E x \in S : f[x] = i
    <3> HIDE DEF f
    <3> QED  BY <1>6 DEF Surjection
  <2> QED  BY <1>2, <2>1
<1>8. ASSUME NEW list \in [1 .. n -> S], \A i \in 1 .. n : rank(list[i]) = i - 1
      PROVE  /\ \A x \in S : \E i \in 1 .. n : list[i] = x
             /\ \A i, j \in 1 .. n : i < j => key[list[i]] < key[list[j]]
  <2> HIDE DEF n
  <2>1. ASSUME NEW x \in S  PROVE \E i \in 1 .. n : list[i] = x
    <3>1. rank(x) + 1 \in 1 .. n /\ rank(x) \in Nat
      BY <1>2
    <3>2. rank(list[rank(x) + 1]) = rank(x) /\ list[rank(x) + 1] \in S
      BY <1>8, <3>1
    <3> QED  BY <1>4, <3>1, <3>2
  <2>2. ASSUME NEW i \in 1 .. n, NEW j \in 1 .. n, i < j  PROVE key[list[i]] < key[list[j]]
    <3>1. list[i] \in S /\ rank(list[i]) = i - 1 /\ list[j] \in S /\ rank(list[j]) = j - 1
      BY <1>8
    <3>2. ~(key[list[j]] < key[list[i]])
      BY <1>3, <2>2, <3>1
    <3>3. list[i] # list[j]
      BY <2>2, <3>1
    <3>4. key[list[i]] # key[list[j]]
      BY <3>1, <3>3
    <3>5. key[list[i]] \in Nat /\ key[list[j]] \in Nat
      BY <3>1
    <3> QED  BY <3>2, <3>4, <3>5
  <2> QED  BY <2>1, <2>2
<1> QED  BY <1>1, <1>7, <1>8 DEF rank, below

-----------------------------------------------------------------------------
(* topoSortCondensation.  The indegree of a component is the number of its   *)
(* predecessors that have not been emitted, and the ready list holds, in     *)
(* order, the components that have none of them.                             *)

(* What the sort needs of the components it is given: each is listed with    *)
(* its least transaction first, no two begin alike, and the edges in use are *)
(* those of the condensation.                                                *)
Sortable(sccs, included, used, condensation) ==
    /\ IsFiniteSet(included)
    /\ \A c \in included : /\ Ids(sccs[c]) \in SUBSET Nat /\ Ids(sccs[c]) # {}
                           /\ sccs[c][1] = Least(Ids(sccs[c]))
    /\ \A c, d \in included : sccs[c][1] = sccs[d][1] => c = d
    /\ used \in SUBSET (included \X included) /\ \A e \in used : e[1] # e[2]
    /\ \A c, d \in included :
        <<c, d>> \in used <=> <<Ids(sccs[c]), Ids(sccs[d])>> \in condensation

(* The ready list holds each ready component once, the one with the least    *)
(* first transaction in front.                                               *)
LEMMA ReadyList ==
    ASSUME NEW sccs, NEW included, NEW used, NEW condensation,
           Sortable(sccs, included, used, condensation), NEW set \in SUBSET included,
           NEW ready, ready = ByFirst(sccs, set)
    PROVE  /\ ready \in Seq(included) /\ Ids(ready) = set
           /\ set = {} <=> ready = <<>>
           /\ set # {} => /\ Head(ready) \in set /\ Tail(ready) \in Seq(included)
                          /\ Ids(Tail(ready)) = set \ {Head(ready)}
                          /\ \A c \in set : sccs[Head(ready)][1] <= sccs[c][1]
<1> DEFINE n == Cardinality(set)
           key == [c \in set |-> sccs[c][1]]
           rank(c) == Cardinality({d \in set : sccs[d][1] < sccs[c][1]})
<1>1. IsFiniteSet(set)
  BY FS_Subset DEF Sortable
<1>2. \A c \in included : sccs[c][1] \in Nat
  BY LeastElement DEF Sortable
<1>3. /\ n \in Nat
      /\ \A i \in 1 .. n : \E c \in set : Cardinality({d \in set : key[d] < key[c]}) = i - 1
      /\ \A q \in [1 .. n -> set] :
            (\A i \in 1 .. n : Cardinality({d \in set : key[d] < key[q[i]]}) = i - 1) =>
                /\ \A c \in set : \E i \in 1 .. n : q[i] = c
                /\ \A i, j \in 1 .. n : i < j => key[q[i]] < key[q[j]]
  <2>1. key \in [set -> Nat] /\ \A c, d \in set : key[c] = key[d] => c = d
    BY <1>2 DEF Sortable
  <2> HIDE DEF key
  <2> QED  BY <1>1, <2>1, RankedList
<1>4. \A c \in set : key[c] = sccs[c][1] /\ Cardinality({d \in set : key[d] < key[c]}) = rank(c)
  <2>1. \A c \in set : {d \in set : key[d] < key[c]} = {d \in set : sccs[d][1] < sccs[c][1]}
    OBVIOUS
  <2> QED  BY <2>1
<1> HIDE DEF key
<1>5. \A i \in 1 .. n : \E c \in set : rank(c) = i - 1
  <2> HIDE DEF rank, n
  <2> QED  BY <1>3, <1>4, Zenon
<1>6. ready = [i \in 1 .. n |-> CHOOSE c \in set : rank(c) = i - 1]
  BY DEF ByFirst
<1> HIDE DEF rank, n
<1>7. \A i \in 1 .. n : ready[i] \in set /\ rank(ready[i]) = i - 1
  BY <1>5, <1>6
<1>8. ready \in [1 .. n -> set] /\ DOMAIN ready = 1 .. n
  BY <1>6, <1>7
<1>9. /\ \A c \in set : \E i \in 1 .. n : ready[i] = c
      /\ \A i, j \in 1 .. n : i < j => sccs[ready[i]][1] < sccs[ready[j]][1]
  <2>1. \A i \in 1 .. n : Cardinality({d \in set : key[d] < key[ready[i]]}) = i - 1
    BY <1>4, <1>7
  <2>2. \A i \in 1 .. n : key[ready[i]] = sccs[ready[i]][1]
    BY <1>4, <1>7
  <2>3. /\ \A c \in set : \E i \in 1 .. n : ready[i] = c
        /\ \A i, j \in 1 .. n : i < j => key[ready[i]] < key[ready[j]]
    BY <1>3, <1>8, <2>1, Zenon
  <2> QED  BY <2>2, <2>3
<1>10. ready \in Seq(set) /\ ready \in Seq(included) /\ Len(ready) = n
  BY <1>3, <1>8
<1>11. Ids(ready) = set
  BY <1>7, <1>8, <1>9 DEF Ids
<1>12. set = {} <=> ready = <<>>
  BY <1>3, <1>8, <1>9, <1>10
<1>13. ASSUME set # {}
       PROVE  /\ Head(ready) \in set /\ Tail(ready) \in Seq(included)
              /\ Ids(Tail(ready)) = set \ {Head(ready)}
              /\ \A c \in set : sccs[Head(ready)][1] <= sccs[c][1]
  <2> DEFINE rest == Tail(ready)
  <2>1. 1 \in 1 .. n /\ Head(ready) = ready[1] /\ n - 1 \in Nat /\ ready[1] \in set
    BY <1>3, <1>7, <1>10, <1>12, <1>13
  <2>2. /\ rest \in Seq(included) /\ DOMAIN rest = 1 .. n - 1
        /\ \A i \in 1 .. n - 1 : rest[i] = ready[i + 1]
    <3>1. ready # <<>>
      BY <1>12, <1>13
    <3>2. rest \in Seq(included) /\ Len(rest) = n - 1
      BY <1>10, <3>1
    <3>3. \A i \in 1 .. n - 1 : rest[i] = ready[i + 1]
      BY <1>3, <1>10, <3>1
    <3> QED  BY <2>1, <3>2, <3>3
  <2> HIDE DEF rest
  <2>3. \A c \in set : c = ready[1] \/ \E i \in 1 .. n - 1 : rest[i] = c
    <3> TAKE c \in set
    <3>1. PICK i \in 1 .. n : ready[i] = c
      BY <1>9
    <3>2. i = 1 \/ (i - 1 \in 1 .. n - 1 /\ (i - 1) + 1 = i)
      BY <1>3
    <3> QED  BY <2>2, <3>1, <3>2
  <2>4. \A i \in 1 .. n - 1 : rest[i] \in set /\ sccs[ready[1]][1] < sccs[rest[i]][1]
    <3> TAKE i \in 1 .. n - 1
    <3>1. i + 1 \in 1 .. n /\ 1 < i + 1
      BY <1>3
    <3>2. ready[i + 1] \in set /\ sccs[ready[1]][1] < sccs[ready[i + 1]][1]
      BY <1>7, <1>9, <2>1, <3>1
    <3> QED  BY <2>2, <3>2
  <2>5. \A c \in set : sccs[c][1] \in Nat
    BY <1>2
  <2>6. \A c \in set : sccs[ready[1]][1] < sccs[c][1] => c # ready[1]
    BY <2>1, <2>5
  <2>7. Ids(rest) = set \ {ready[1]}
    <3>1. \A i \in 1 .. n - 1 : rest[i] \in set \ {ready[1]}
      BY <2>4, <2>6
    <3>2. \A c \in set \ {ready[1]} : \E i \in 1 .. n - 1 : rest[i] = c
      BY <2>3
    <3> QED  BY <2>2, <3>1, <3>2 DEF Ids
  <2>8. \A c \in set : sccs[ready[1]][1] <= sccs[c][1]
    <3> TAKE c \in set
    <3>1. sccs[ready[1]][1] \in Nat /\ sccs[c][1] \in Nat
      BY <2>1, <2>5
    <3>2. c = ready[1] \/ sccs[ready[1]][1] < sccs[c][1]
      BY <2>3, <2>4
    <3> QED  BY <3>1, <3>2
  <2> QED  BY <2>1, <2>2, <2>7, <2>8 DEF rest
<1> QED  BY <1>10, <1>11, <1>12, <1>13

(* The edges into a component whose other end is not in the result yet, and  *)
(* the components that have none and are not in it themselves.               *)
Missing(used, result, c) == {e \in used : e[2] = c /\ e[1] \notin Ids(result)}
Free(included, used, result) == {c \in included \ Ids(result) : Missing(used, result, c) = {}}

(* The states of the sort: the result is closed under predecessors, an       *)
(* indegree counts the missing ones, and the ready list is in order.         *)
SortStates(sccs, included, used) ==
    {s \in [indegree : [included -> Nat], ready : Seq(included), result : Seq(included)] :
        /\ \A e \in used : e[2] \in Ids(s.result) => e[1] \in Ids(s.result)
        /\ \A c \in included : s.indegree[c] = Cardinality(Missing(used, s.result, c))
        /\ s.ready = ByFirst(sccs, Free(included, used, s.result))}

(* There are finitely many of them, so they can be counted. *)
LEMMA MissingFinite ==
    ASSUME NEW sccs, NEW included, NEW used, NEW condensation,
           Sortable(sccs, included, used, condensation), NEW result, NEW c
    PROVE  /\ IsFiniteSet(Missing(used, result, c)) /\ Cardinality(Missing(used, result, c)) \in Nat
           /\ Cardinality(Missing(used, result, c)) = 0 <=> Missing(used, result, c) = {}
<1>1. IsFiniteSet(used)
  <2>1. IsFiniteSet(included \X included)
    BY FS_Product DEF Sortable
  <2> QED  BY <2>1, FS_Subset DEF Sortable
<1>2. Missing(used, result, c) \in SUBSET used
  BY DEF Missing
<1>3. IsFiniteSet(Missing(used, result, c))
  BY <1>1, <1>2, FS_Subset
<1> QED  BY <1>3, FS_CardinalityType, FS_EmptySet

(* Before the loop all of this holds. *)
LEMMA SourcesSound ==
    ASSUME NEW sccs, NEW included, NEW used, NEW condensation,
           Sortable(sccs, included, used, condensation)
    PROVE  /\ Sources(sccs, used, included) \in SortStates(sccs, included, used)
           /\ Sources(sccs, used, included).result = <<>>
<1> DEFINE s == Sources(sccs, used, included)
           count(c) == Cardinality({e \in used : e[2] = c})
           first == {c \in included : count(c) = 0}
           indegree == [c \in included |-> count(c)]
<1>1. s.result = <<>> /\ s.indegree = indegree /\ s.ready = ByFirst(sccs, {c \in included : indegree[c] = 0})
      /\ s = [indegree |-> s.indegree, ready |-> s.ready, result |-> s.result]
  BY DEF Sources
<1>2. \A c : Missing(used, <<>>, c) = {e \in used : e[2] = c}
  BY DEF Missing, Ids
<1>3. \A c \in included : /\ indegree[c] = Cardinality(Missing(used, <<>>, c)) /\ indegree[c] \in Nat
                          /\ indegree[c] = 0 <=> Missing(used, <<>>, c) = {}
  <2> TAKE c \in included
  <2>1. indegree[c] = Cardinality(Missing(used, <<>>, c))
    BY <1>2
  <2> HIDE DEF indegree
  <2> QED  BY <2>1, MissingFinite
<1>4. indegree \in [included -> Nat]
  <2>1. indegree = [c \in included |-> indegree[c]]
    OBVIOUS
  <2> HIDE DEF indegree
  <2> QED  BY <1>3, <2>1
<1> HIDE DEF indegree, s
<1>5. {c \in included : indegree[c] = 0} = Free(included, used, <<>>)
  BY <1>3 DEF Free, Ids
<1>6. s.ready = ByFirst(sccs, Free(included, used, <<>>)) /\ Free(included, used, <<>>) \in SUBSET included
  BY <1>1, <1>5 DEF Free
<1>7. s.ready \in Seq(included)
  BY <1>6, ReadyList
<1>8. s.result \in Seq(included) /\ Ids(s.result) = {}
  BY <1>1 DEF Ids
<1>9. s \in [indegree : [included -> Nat], ready : Seq(included), result : Seq(included)]
  BY <1>1, <1>4, <1>7, <1>8
<1> QED  BY <1>1, <1>3, <1>6, <1>8, <1>9 DEF SortStates, s

(* A turn of the loop keeps all of this, and appends the first of the ready  *)
(* components if there is one.                                               *)
LEMMA KahnStepSound ==
    ASSUME NEW sccs, NEW included, NEW used, NEW condensation,
           Sortable(sccs, included, used, condensation),
           NEW s \in SortStates(sccs, included, used),
           NEW t, t = KahnStep(sccs, used, s)
    PROVE  /\ t \in SortStates(sccs, included, used)
           /\ Free(included, used, s.result) = {} => t.result = s.result
           /\ Free(included, used, s.result) # {} => t.result = Append(s.result, Head(s.ready))
<1> DEFINE free == Free(included, used, s.result)
<1>1. /\ s.indegree \in [included -> Nat] /\ s.ready \in Seq(included) /\ s.result \in Seq(included)
      /\ \A e \in used : e[2] \in Ids(s.result) => e[1] \in Ids(s.result)
      /\ \A c \in included : s.indegree[c] = Cardinality(Missing(used, s.result, c))
      /\ s.ready = ByFirst(sccs, free)
  BY DEF SortStates
<1>2. /\ free \in SUBSET included /\ \A c \in free : c \notin Ids(s.result)
      /\ \A c \in free : Missing(used, s.result, c) = {}
  BY DEF Free
<1>3. \A c \in included \ Ids(s.result) : Missing(used, s.result, c) = {} => c \in free
  BY DEF Free
<1> HIDE DEF free
<1>4. free = {} <=> s.ready = <<>>
  BY <1>1, <1>2, ReadyList
<1>5. CASE free = {}
  <2>1. t = s
    BY <1>4, <1>5 DEF KahnStep
  <2> QED  BY <1>5, <2>1 DEF free
<1>6. CASE free # {}
  <2> DEFINE from == Head(s.ready)
             rest == Tail(s.ready)
             to == Neighbours(used, from)
             indegree == [c \in DOMAIN s.indegree |-> s.indegree[c] - IF c \in to THEN 1 ELSE 0]
             new == {c \in to : indegree[c] = 0}
             after == Append(s.result, from)
  <2>1. /\ from \in free /\ rest \in Seq(included) /\ Ids(rest) = free \ {from}
    BY <1>1, <1>2, <1>6, ReadyList
  <2>2. t = [indegree |-> indegree, ready |-> Resorted(sccs, rest, new), result |-> after]
    <3>1. s.ready # <<>>
      BY <1>4, <1>6
    <3> QED  BY <3>1 DEF KahnStep
  <2>3. \A c : c \in to <=> <<from, c>> \in used
    <3>1. \A e \in used : e = <<e[1], e[2]>>
      BY DEF Sortable
    <3> QED  BY <3>1 DEF Neighbours
  <2>4. /\ indegree = [c \in included |-> indegree[c]]
        /\ \A c \in included : /\ c \in to => indegree[c] = s.indegree[c] - 1
                               /\ c \notin to => indegree[c] = s.indegree[c]
    <3>1. DOMAIN s.indegree = included /\ \A c \in included : s.indegree[c] \in Nat
      BY <1>1
    <3> HIDE DEF to
    <3> QED  BY <3>1
  <2> HIDE DEF from, rest, to, indegree
  <2>5. to \subseteq included
    <3>1. used \in SUBSET (included \X included)
      BY DEF Sortable
    <3>2. ASSUME NEW c \in to  PROVE c \in included
      <4>1. <<from, c>> \in used
        BY <2>3
      <4>2. <<from, c>> \in included \X included
        BY <3>1, <4>1
      <4> QED  BY <4>2
    <3> QED  BY <3>2
  <2>6. after \in Seq(included) /\ Ids(after) = Ids(s.result) \cup {from}
    BY <1>1, <1>2, <2>1, AppendIds
  <2> HIDE DEF after
  <2>7. \A e \in used : e[2] \in Ids(after) => e[1] \in Ids(after)
    <3> SUFFICES ASSUME NEW e \in used, e[2] \in Ids(after)  PROVE e[1] \in Ids(after)
      OBVIOUS
    <3>1. CASE e[2] \in Ids(s.result)
      BY <1>1, <2>6, <3>1
    <3>2. CASE e[2] = from
      <4>1. e \notin Missing(used, s.result, from)
        BY <1>2, <2>1
      <4> QED  BY <2>6, <3>2, <4>1 DEF Missing
    <3> QED  BY <2>6, <3>1, <3>2
  <2>8. ASSUME NEW c \in included
        PROVE  /\ Missing(used, after, c) = Missing(used, s.result, c) \ {<<from, c>>}
               /\ c \in to => <<from, c>> \in Missing(used, s.result, c)
               /\ c \notin to => Missing(used, after, c) = Missing(used, s.result, c)
    <3>1. \A e \in used : e = <<e[1], e[2]>>
      BY DEF Sortable
    <3>2. from \notin Ids(s.result)
      BY <1>2, <2>1
    <3>3. \A e \in used : e[2] = c => (e[1] = from <=> e = <<from, c>>)
      BY <3>1
    <3>4. Missing(used, after, c) = Missing(used, s.result, c) \ {<<from, c>>}
      <4>1. \A e \in used : e[2] = c =>
                (e[1] \notin Ids(after) <=> e[1] \notin Ids(s.result) /\ e # <<from, c>>)
        BY <2>6, <3>3
      <4> QED  BY <4>1 DEF Missing
    <3>5. c \in to => <<from, c>> \in Missing(used, s.result, c)
      BY <2>3, <3>2 DEF Missing
    <3>6. c \notin to => <<from, c>> \notin Missing(used, s.result, c)
      BY <2>3 DEF Missing
    <3> QED  BY <3>4, <3>5, <3>6
  <2>9. ASSUME NEW c \in included
        PROVE  /\ indegree[c] = Cardinality(Missing(used, after, c)) /\ indegree[c] \in Nat
               /\ indegree[c] = 0 <=> Missing(used, after, c) = {}
    <3>1. /\ IsFiniteSet(Missing(used, s.result, c)) /\ Cardinality(Missing(used, s.result, c)) \in Nat
          /\ Cardinality(Missing(used, after, c)) \in Nat
          /\ Cardinality(Missing(used, after, c)) = 0 <=> Missing(used, after, c) = {}
      BY MissingFinite
    <3>2. s.indegree[c] = Cardinality(Missing(used, s.result, c))
      BY <1>1
    <3>3. CASE c \in to
      <4>1. Cardinality(Missing(used, s.result, c) \ {<<from, c>>})
                = Cardinality(Missing(used, s.result, c)) - 1
        BY <2>8, <3>1, <3>3, FS_RemoveElement
      <4>2. Missing(used, after, c) = Missing(used, s.result, c) \ {<<from, c>>}
        BY <2>8
      <4>3. indegree[c] = Cardinality(Missing(used, after, c))
        BY <2>4, <3>2, <3>3, <4>1, <4>2
      <4> QED  BY <3>1, <4>3
    <3>4. CASE c \notin to
      <4>1. indegree[c] = Cardinality(Missing(used, after, c))
        BY <2>4, <2>8, <3>2, <3>4
      <4> QED  BY <3>1, <4>1
    <3> QED  BY <3>3, <3>4
  <2>10. (free \ {from}) \cup new = Free(included, used, after)
    <3>1. ASSUME NEW c \in free \ {from}  PROVE c \in Free(included, used, after)
      <4>1. c \in included /\ c \notin Ids(after)
        BY <1>2, <2>6, <3>1
      <4>2. Missing(used, after, c) = {}
        BY <1>2, <2>8, <3>1, <4>1
      <4> QED  BY <4>1, <4>2 DEF Free
    <3>2. ASSUME NEW c \in to, indegree[c] = 0  PROVE c \in Free(included, used, after)
      <4>1. c \in included /\ Missing(used, after, c) = {}
        BY <2>5, <2>9, <3>2
      <4>2. <<from, c>> \in used /\ from # c /\ from \notin Ids(s.result)
        <5>1. <<from, c>> \in used
          BY <2>3, <3>2
        <5>2. from # c
          BY <5>1 DEF Sortable
        <5> QED  BY <1>2, <2>1, <5>1, <5>2
      <4>3. c \notin Ids(s.result)
        BY <1>1, <4>2
      <4> QED  BY <2>6, <4>1, <4>2, <4>3 DEF Free
    <3>3. ASSUME NEW c \in Free(included, used, after)
          PROVE  c \in free \ {from} \/ (c \in to /\ indegree[c] = 0)
      <4>1. c \in included /\ c \notin Ids(after) /\ Missing(used, after, c) = {}
        BY <3>3 DEF Free
      <4>2. CASE c \in to
        BY <2>9, <4>1, <4>2
      <4>3. CASE c \notin to
        <5>1. Missing(used, s.result, c) = {} /\ c \notin Ids(s.result) /\ c # from
          BY <2>6, <2>8, <4>1, <4>3
        <5> QED  BY <1>3, <4>1, <5>1
      <4> QED  BY <4>2, <4>3
    <3> QED  BY <3>1, <3>2, <3>3
  <2> HIDE DEF new
  <2>11. Resorted(sccs, rest, new) = ByFirst(sccs, Free(included, used, after))
    BY <2>1, <2>10 DEF Resorted
  <2>12. Free(included, used, after) \in SUBSET included
    BY DEF Free
  <2>13. Resorted(sccs, rest, new) \in Seq(included)
    BY <2>11, <2>12, ReadyList
  <2>14. indegree \in [included -> Nat]
    BY <2>4, <2>9
  <2>15. t \in SortStates(sccs, included, used)
    BY <2>2, <2>6, <2>7, <2>9, <2>11, <2>13, <2>14 DEF SortStates
  <2> QED  BY <1>6, <2>2, <2>15 DEF free, after, from
<1> QED  BY <1>5, <1>6

(* The components of a result, as sets of transactions. *)
Named(sccs, result) == [k \in DOMAIN result |-> Ids(sccs[result[k]])]
NamedSet(sccs, set) == {Ids(sccs[c]) : c \in set}

(* The ready components are those TopoSort calls ready, and the first in     *)
(* the list is the one it chooses.                                           *)
LEMMA ReadyNamed ==
    ASSUME NEW sccs, NEW included, NEW used, NEW condensation,
           Sortable(sccs, included, used, condensation),
           NEW result \in Seq(included),
           \A e \in used : e[2] \in Ids(result) => e[1] \in Ids(result),
           NEW components, components = NamedSet(sccs, included),
           NEW free, free = Free(included, used, result)
    PROVE  /\ ReadyAfter(components, condensation, Named(sccs, result)) = NamedSet(sccs, free)
           /\ free # {} => FirstReady(NamedSet(sccs, free)) = Ids(sccs[Head(ByFirst(sccs, free))])
<1> DEFINE name(c) == Ids(sccs[c])
           names == Named(sccs, result)
<1>1. /\ \A c \in included : sccs[c][1] = Least(name(c)) /\ sccs[c][1] \in Nat
      /\ \A c, d \in included : name(c) = name(d) => c = d
  <2>1. \A c \in included : sccs[c][1] = Least(name(c)) /\ sccs[c][1] \in Nat
    <3>1. \A c \in included : name(c) \in SUBSET Nat /\ name(c) # {} /\ sccs[c][1] = Least(name(c))
      BY DEF Sortable
    <3>2. \A ids \in SUBSET Nat : ids # {} => Least(ids) \in Nat
      BY LeastElement
    <3> QED  BY <3>1, <3>2
  <2>2. \A c, d \in included : sccs[c][1] = sccs[d][1] => c = d
    BY DEF Sortable
  <2> HIDE DEF name
  <2> QED  BY <2>1, <2>2
<1>2. /\ free \in SUBSET included
      /\ \A c \in included : c \in free <=> c \notin Ids(result) /\ Missing(used, result, c) = {}
  BY DEF Free
<1>3. \A c \in included : name(c) \in Ids(names) <=> c \in Ids(result)
  <2>1. DOMAIN names = DOMAIN result /\ \A k \in DOMAIN result : names[k] = name(result[k])
    BY DEF Named
  <2>2. \A k \in DOMAIN result : result[k] \in included
    OBVIOUS
  <2> HIDE DEF name, names
  <2>3. ASSUME NEW c \in included  PROVE name(c) \in Ids(names) <=> c \in Ids(result)
    <3>1. name(c) \in Ids(names) <=> \E k \in DOMAIN result : names[k] = name(c)
      BY <2>1 DEF Ids
    <3>2. \A k \in DOMAIN result : names[k] = name(c) <=> result[k] = c
      BY <1>1, <2>1, <2>2
    <3>3. c \in Ids(result) <=> \E k \in DOMAIN result : result[k] = c
      BY DEF Ids
    <3> QED  BY <3>1, <3>2, <3>3
  <2> QED  BY <2>3
<1>4. \A c, d \in included : <<c, d>> \in used <=> <<name(c), name(d)>> \in condensation
  BY DEF Sortable
<1>5. components = {name(c) : c \in included}
  BY DEF NamedSet
<1>6. \A c \in included : Missing(used, result, c) = {}
                            <=> \A d \in included : <<d, c>> \in used => d \in Ids(result)
  <2>1. \A e \in used : e = <<e[1], e[2]>> /\ e[1] \in included /\ e[2] \in included
    BY DEF Sortable
  <2> QED  BY <2>1 DEF Missing
<1> HIDE DEF name, names
<1>7. \A c \in included : c \in free <=> name(c) \in ReadyAfter(components, condensation, names)
  <2> TAKE c \in included
  <2>1. name(c) \in ReadyAfter(components, condensation, names)
            <=> /\ c \notin Ids(result)
                /\ \A d \in included : <<name(d), name(c)>> \in condensation => name(d) \in Ids(names)
    BY <1>3, <1>5 DEF ReadyAfter
  <2> QED  BY <1>2, <1>3, <1>4, <1>6, <2>1
<1>8. ReadyAfter(components, condensation, names) = {name(c) : c \in free}
  <2>1. ReadyAfter(components, condensation, names) \subseteq components
    BY DEF ReadyAfter
  <2>2. \A x \in ReadyAfter(components, condensation, names) : \E c \in free : x = name(c)
    BY <1>5, <1>7, <2>1
  <2>3. \A c \in free : name(c) \in ReadyAfter(components, condensation, names)
    BY <1>2, <1>7
  <2> QED  BY <2>2, <2>3
<1>9. ASSUME free # {}
      PROVE  FirstReady({name(c) : c \in free}) = name(Head(ByFirst(sccs, free)))
  <2> DEFINE h == Head(ByFirst(sccs, free))
             ready == {name(c) : c \in free}
  <2>1. h \in free /\ \A c \in free : sccs[h][1] <= sccs[c][1]
    BY <1>2, <1>9, ReadyList
  <2> HIDE DEF h
  <2>2. name(h) \in ready /\ \A x \in ready : Least(name(h)) <= Least(x)
    BY <1>1, <1>2, <2>1
  <2>3. FirstReady(ready) \in ready /\ \A x \in ready : Least(FirstReady(ready)) <= Least(x)
    <3>1. \E c \in ready : \A d \in ready : Least(c) <= Least(d)
      BY <2>2
    <3> HIDE DEF ready
    <3> QED  BY <3>1, Zenon DEF FirstReady
  <2>4. PICK c \in free : FirstReady(ready) = name(c)
    BY <2>3
  <2>5. c = h
    <3>1. Least(name(c)) <= Least(name(h)) /\ Least(name(h)) <= Least(name(c))
      BY <2>2, <2>3, <2>4
    <3>2. sccs[c][1] = sccs[h][1]
      BY <1>1, <1>2, <2>1, <3>1
    <3> QED  BY <1>2, <2>1, <3>2 DEF Sortable
  <2> QED  BY <2>4, <2>5 DEF h
<1> QED  BY <1>8, <1>9 DEF name, names, NamedSet

(* A turn of the loop is a step of TopoSort. *)
LEMMA KahnStepNamed ==
    ASSUME NEW sccs, NEW included, NEW used, NEW condensation,
           Sortable(sccs, included, used, condensation),
           NEW s \in SortStates(sccs, included, used),
           NEW t, t = KahnStep(sccs, used, s),
           NEW components, components = NamedSet(sccs, included)
    PROVE  Named(sccs, t.result) = AppendReady(components, condensation, Named(sccs, s.result))
<1> DEFINE free == Free(included, used, s.result)
           names == Named(sccs, s.result)
           ready == ReadyAfter(components, condensation, names)
<1>1. /\ s.ready \in Seq(included) /\ s.result \in Seq(included)
      /\ \A e \in used : e[2] \in Ids(s.result) => e[1] \in Ids(s.result)
      /\ s.ready = ByFirst(sccs, free)
  BY DEF SortStates
<1>2. free \in SUBSET included
  BY DEF Free
<1>3. /\ free = {} => t.result = s.result
      /\ free # {} => t.result = Append(s.result, Head(s.ready))
  BY KahnStepSound
<1>4. /\ ready = NamedSet(sccs, free)
      /\ free # {} => FirstReady(ready) = Ids(sccs[Head(s.ready)])
  <2>1. /\ ready = NamedSet(sccs, free)
        /\ free # {} => FirstReady(NamedSet(sccs, free)) = Ids(sccs[Head(ByFirst(sccs, free))])
    BY <1>1, ReadyNamed
  <2> HIDE DEF ready, free
  <2> QED  BY <1>1, <2>1
<1>5. free # {} => Head(s.ready) \in free
  <2> HIDE DEF free
  <2> QED  BY <1>1, <1>2, ReadyList
<1>6. AppendReady(components, condensation, names)
        = IF ready = {} THEN names ELSE Append(names, FirstReady(ready))
  BY DEF AppendReady
<1> HIDE DEF ready, free
<1>7. ready = {} <=> free = {}
  BY <1>4 DEF NamedSet
<1>8. CASE free = {}
  BY <1>3, <1>6, <1>8, <1>7
<1>9. CASE free # {}
  <2> DEFINE from == Head(s.ready)
             after == Append(s.result, from)
  <2>1. ready # {} /\ FirstReady(ready) = Ids(sccs[from]) /\ from \in included /\ t.result = after
    BY <1>2, <1>3, <1>4, <1>5, <1>9, <1>7
  <2> HIDE DEF from
  <2>2. /\ DOMAIN s.result = 1 .. Len(s.result) /\ DOMAIN after = 1 .. Len(s.result) + 1
        /\ Len(s.result) \in Nat /\ after[Len(s.result) + 1] = from
        /\ \A i \in 1 .. Len(s.result) : after[i] = s.result[i]
    BY <1>1, <2>1, AppendIds
  <2> HIDE DEF after
  <2> DEFINE m == Len(s.result)
  <2>3. names = [k \in 1 .. m |-> Ids(sccs[s.result[k]])] /\ m \in Nat
    BY <2>2 DEF Named
  <2>4. Named(sccs, after) = [k \in 1 .. m + 1 |-> Ids(sccs[after[k]])]
    BY <2>2 DEF Named
  <2> HIDE DEF m, names
  <2>5. /\ names \in Seq({Ids(sccs[c]) : c \in Ids(s.result)}) /\ Len(names) = m
    <3>1. names \in [1 .. m -> {Ids(sccs[c]) : c \in Ids(s.result)}]
      <4>1. \A k \in 1 .. m : s.result[k] \in Ids(s.result)
        BY <2>2 DEF Ids, m
      <4> QED  BY <2>3, <4>1
    <3> QED  BY <2>3, <3>1
  <2>6. Append(names, Ids(sccs[from]))
            = [k \in 1 .. m + 1 |-> IF k = m + 1 THEN Ids(sccs[from]) ELSE names[k]]
    BY <2>3, <2>5
  <2>7. \A k \in 1 .. m + 1 :
            Ids(sccs[after[k]]) = IF k = m + 1 THEN Ids(sccs[from]) ELSE names[k]
    <3> TAKE k \in 1 .. m + 1
    <3>1. k = m + 1 \/ k \in 1 .. m
      BY <2>3
    <3>2. k \in 1 .. m => k # m + 1 /\ names[k] = Ids(sccs[s.result[k]]) /\ after[k] = s.result[k]
      BY <2>2, <2>3 DEF m
    <3>3. after[m + 1] = from
      BY <2>2 DEF m
    <3> QED  BY <3>1, <3>2, <3>3
  <2>8. Named(sccs, after) = Append(names, Ids(sccs[from]))
    BY <2>4, <2>6, <2>7, Zenon
  <2> QED  BY <1>6, <2>1, <2>8 DEF names
<1> QED  BY <1>8, <1>9 DEF names

(* The recursion of Kahn, as the sequence of its turns. *)
LEMMA KahnTurns ==
    ASSUME NEW sccs, NEW included, NEW used, NEW condensation,
           Sortable(sccs, included, used, condensation)
    PROVE  /\ Cardinality(included) \in Nat
           /\ \E turn \in [0 .. Cardinality(included) -> SortStates(sccs, included, used)] :
                /\ turn[0] = Sources(sccs, used, included)
                /\ \A k \in 1 .. Cardinality(included) :
                    turn[k] = KahnStep(sccs, used, turn[k - 1])
                /\ Kahn(sccs, used, included) = turn[Cardinality(included)].result
<1> DEFINE n == Cardinality(included)
           S == SortStates(sccs, included, used)
           base == Sources(sccs, used, included)
           step == [p \in (1 .. n) \X S |-> KahnStep(sccs, used, p[2])]
           eqn(f) == f = [k \in 0 .. n |-> IF k = 0 THEN Sources(sccs, used, included)
                                           ELSE KahnStep(sccs, used, f[k - 1])]
           turn == CHOOSE f : eqn(f)
<1>1. n \in Nat
  BY FS_CardinalityType DEF Sortable
<1>2. base \in S /\ \A s \in S : KahnStep(sccs, used, s) \in S
  BY SourcesSound, KahnStepSound
<1>3. step \in [(1 .. n) \X S -> S]
  <2> HIDE DEF S, n
  <2> QED  BY <1>2
<1>4. PICK f : Iterates(f, n, S, base, step)
  <2> HIDE DEF n, S, step, base
  <2> QED  BY <1>1, <1>2, <1>3, IteratesExist
<1>5. /\ f \in [0 .. n -> S] /\ f[0] = base
      /\ \A k \in 1 .. n : f[k] = KahnStep(sccs, used, f[k - 1])
  <2>1. f \in [0 .. n -> S] /\ f[0] = base /\ \A k \in 1 .. n : f[k] = step[<<k, f[k - 1]>>]
    BY <1>4, Zenon DEF Iterates
  <2>2. ASSUME NEW k \in 1 .. n  PROVE f[k] = KahnStep(sccs, used, f[k - 1])
    <3>1. k - 1 \in 0 .. n
      BY <1>1
    <3>2. f[k - 1] \in S
      <4> HIDE DEF S, n
      <4> QED  BY <2>1, <3>1
    <3> HIDE DEF S
    <3> QED  BY <2>1, <3>2
  <2> QED  BY <2>1, <2>2
<1>6. eqn(f)
  <2> HIDE DEF S
  <2> QED  BY <1>1, <1>5
<1>7. eqn(turn)
  <2> HIDE DEF eqn
  <2> QED  BY <1>6, Zenon
<1>8. /\ turn[0] = base
      /\ \A k \in 1 .. n : turn[k] = KahnStep(sccs, used, turn[k - 1])
  <2> HIDE DEF turn, n
  <2> QED  BY <1>1, <1>7
<1>9. \A k \in 0 .. n : turn[k] \in S
  <2> DEFINE A == {k \in 0 .. n : turn[k] \in S}
  <2>1. 0 \in A
    <3> HIDE DEF turn, n, S
    <3> QED  BY <1>1, <1>2, <1>8
  <2>2. ASSUME NEW k \in 1 .. n, k - 1 \in A  PROVE k \in A
    <3> HIDE DEF turn, n, S
    <3> QED  BY <1>1, <1>2, <1>8, <2>2
  <2>3. 0 .. n \subseteq A
    <3> HIDE DEF A, n
    <3> QED  BY <1>1, <2>1, <2>2, UpTo
  <2> HIDE DEF turn, n, S
  <2> QED  BY <2>3
<1>10. turn \in [0 .. n -> S]
  <2>1. turn = [k \in 0 .. n |-> turn[k]]
    <3> HIDE DEF turn, n
    <3> QED  BY <1>7
  <2> HIDE DEF turn, n, S
  <2> QED  BY <1>9, <2>1
<1>11. Kahn(sccs, used, included) = turn[n].result
  BY DEF Kahn
<1> HIDE DEF turn
<1> QED  BY <1>1, <1>8, <1>10, <1>11

(* Kahn's algorithm with indegrees and a ready list gives the order that     *)
(* TopoSort states.                                                          *)
THEOREM KahnIsTopoSort ==
    ASSUME NEW sccs, NEW included, NEW used, NEW condensation,
           Sortable(sccs, included, used, condensation)
    PROVE  Named(sccs, Kahn(sccs, used, included))
                = TopoSort(NamedSet(sccs, included), condensation)
<1> DEFINE n == Cardinality(included)
           components == NamedSet(sccs, included)
           name == [c \in included |-> Ids(sccs[c])]
<1>1. PICK turn \in [0 .. n -> SortStates(sccs, included, used)] :
        /\ turn[0] = Sources(sccs, used, included)
        /\ \A k \in 1 .. n : turn[k] = KahnStep(sccs, used, turn[k - 1])
        /\ Kahn(sccs, used, included) = turn[n].result
  BY KahnTurns
<1>2. n \in Nat
  BY KahnTurns
<1>3. IsFiniteSet(components) /\ Cardinality(components) = n
  <2>1. name \in [included -> components] /\ \A x \in components : \E c \in included : name[c] = x
    BY DEF NamedSet
  <2>2. \A c, d \in included : name[c] = name[d] => c = d
    BY DEF Sortable
  <2> HIDE DEF name, components
  <2>3. name \in Bijection(included, components)
    BY <2>1, <2>2 DEF Bijection, Injection, Surjection, IsInjective
  <2>4. ExistsBijection(included, components)
    BY <2>3 DEF ExistsBijection
  <2>5. IsFiniteSet(included)
    BY DEF Sortable
  <2> QED  BY <2>4, <2>5, FS_Bijection
<1>4. \A x \in components : x \in SUBSET Nat /\ x # {}
  BY DEF Sortable, NamedSet
<1>5. PICK sorted :
        /\ sorted[0] = <<>>
        /\ \A k \in 1 .. n : sorted[k] = AppendReady(components, condensation, sorted[k - 1])
        /\ TopoSort(components, condensation) = sorted[n]
  <2> HIDE DEF components, n
  <2> QED  BY <1>3, <1>4, TopoSortSteps
<1> DEFINE same == {k \in 0 .. n : Named(sccs, turn[k].result) = sorted[k]}
<1>6. 0 \in same
  <2>1. Named(sccs, <<>>) = <<>>
    BY DEF Named
  <2>2. turn[0].result = <<>>
    BY <1>1, SourcesSound
  <2> HIDE DEF n
  <2> QED  BY <1>2, <1>5, <2>1, <2>2
<1>7. ASSUME NEW k \in 1 .. n, k - 1 \in same  PROVE k \in same
  <2>1. turn[k - 1] \in SortStates(sccs, included, used)
    <3>1. k - 1 \in 0 .. n
      BY <1>2
    <3> HIDE DEF n
    <3> QED  BY <1>1, <3>1
  <2>2. turn[k] = KahnStep(sccs, used, turn[k - 1])
    <3> HIDE DEF n
    <3> QED  BY <1>1
  <2>3. Named(sccs, turn[k].result)
            = AppendReady(components, condensation, Named(sccs, turn[k - 1].result))
    BY <2>1, <2>2, KahnStepNamed
  <2> HIDE DEF n, components
  <2> QED  BY <1>2, <1>5, <1>7, <2>3
<1>8. n \in same
  <2> HIDE DEF same, n
  <2>1. 0 .. n \subseteq same
    BY <1>2, <1>6, <1>7, UpTo
  <2> QED  BY <1>2, <2>1
<1> QED  BY <1>1, <1>5, <1>8

InUse(g, sccs, included) == {c \in Crossing(g, sccs) : c[1] \in included /\ c[2] \in included}

(* Whatever list of the components a search returns, and whichever of them   *)
(* are included, can be sorted.                                              *)
LEMMA ListingSortable ==
    ASSUME NEW graph, IsGraph(graph), NEW sccs \in Listings(GraphComponents(graph)),
           NEW included \in SUBSET DOMAIN sccs
    PROVE  Sortable(sccs, included, InUse(graph.edges, sccs, included), GraphCondensation(graph))
<1> DEFINE C == GraphComponents(graph)
           edges == graph.edges
           n == Cardinality(C)
           name == [i \in 1 .. n |-> Ids(sccs[i])]
           used == InUse(edges, sccs, included)
<1>1. /\ IsFiniteSet(C) /\ C \subseteq SUBSET Txs /\ \A c \in C : c # {}
      /\ \A c, d \in C : \A u : u \in c /\ u \in d => c = d
  BY ComponentFacts
<1>2. /\ sccs \in [1 .. n -> {Sorted(c) : c \in C}] /\ DOMAIN sccs = 1 .. n
      /\ {Ids(sccs[i]) : i \in DOMAIN sccs} = C
  BY DEF Listings
<1> HIDE DEF C, n
<1>3. n \in Nat
  BY <1>1, FS_CardinalityType DEF n
<1>4. \A i \in 1 .. n : /\ Ids(sccs[i]) \in C /\ Ids(sccs[i]) \in SUBSET Nat /\ Ids(sccs[i]) # {}
                        /\ sccs[i][1] = Least(Ids(sccs[i])) /\ sccs[i][1] \in Ids(sccs[i])
  <2> SUFFICES ASSUME NEW i \in 1 .. n
               PROVE  /\ Ids(sccs[i]) \in C /\ Ids(sccs[i]) \in SUBSET Nat /\ Ids(sccs[i]) # {}
                      /\ sccs[i][1] = Least(Ids(sccs[i])) /\ sccs[i][1] \in Ids(sccs[i])
    OBVIOUS
  <2>1. PICK c \in C : sccs[i] = Sorted(c)
    BY <1>2
  <2>2. c \in SUBSET Nat /\ IsFiniteSet(c) /\ c # {} /\ c \in SUBSET Txs
    <3>1. c \in SUBSET Txs /\ c # {}
      BY <1>1
    <3> QED  BY <3>1, TxAssumption, FS_Subset
  <2>3. Ids(Sorted(c)) = c
    BY <2>2, SortedProperties
  <2>4. Sorted(c)[1] = Least(c)
    BY <2>2, FirstOfSorted
  <2>5. Least(c) \in c
    BY <2>2, LeastElement
  <2> QED  BY <2>1, <2>2, <2>3, <2>4, <2>5
<1>5. \A i, j \in 1 .. n : Ids(sccs[i]) = Ids(sccs[j]) => i = j
  <2>1. name \in [1 .. n -> C] /\ \A c \in C : \E i \in 1 .. n : name[i] = c
    BY <1>2, <1>4
  <2> HIDE DEF name
  <2>2. name \in Surjection(1 .. n, C)
    BY <2>1 DEF Surjection
  <2>3. IsFiniteSet(1 .. n) /\ Cardinality(1 .. n) = n
    BY <1>3, FS_Interval
  <2>4. name \in Injection(1 .. n, C)
    BY <2>2, <2>3, FS_Surjection DEF n
  <2>5. \A i, j \in 1 .. n : name[i] = name[j] => i = j
    BY <2>4 DEF Injection, IsInjective
  <2>6. \A i \in 1 .. n : name[i] = Ids(sccs[i])
    BY DEF name
  <2> QED  BY <2>5, <2>6
<1>6. \A i, j \in 1 .. n : sccs[i][1] = sccs[j][1] => i = j
  <2> SUFFICES ASSUME NEW i \in 1 .. n, NEW j \in 1 .. n, sccs[i][1] = sccs[j][1]  PROVE i = j
    OBVIOUS
  <2>1. /\ Ids(sccs[i]) \in C /\ Ids(sccs[j]) \in C
        /\ sccs[i][1] \in Ids(sccs[i]) /\ sccs[i][1] \in Ids(sccs[j])
    BY <1>4
  <2>2. Ids(sccs[i]) = Ids(sccs[j])
    BY <1>1, <2>1
  <2> QED  BY <1>5, <2>2
<1>7. included \in SUBSET (1 .. n) /\ IsFiniteSet(included)
  <2>1. IsFiniteSet(1 .. n)
    BY <1>3, FS_Interval
  <2> QED  BY <1>2, <2>1, FS_Subset
<1>8. used \in SUBSET (included \X included) /\ \A e \in used : e[1] # e[2]
  BY DEF InUse, Crossing
<1>9. ASSUME NEW c \in included, NEW d \in included
      PROVE  <<c, d>> \in used <=> <<Ids(sccs[c]), Ids(sccs[d])>> \in GraphCondensation(graph)
  <2>1. c \in 1 .. n /\ d \in 1 .. n
    BY <1>7
  <2>2. <<c, d>> \in used
            <=> c # d /\ \E e \in edges : e[1] \in Ids(sccs[c]) /\ e[2] \in Ids(sccs[d])
    BY <1>2, <2>1 DEF InUse, Crossing
  <2>3. <<Ids(sccs[c]), Ids(sccs[d])>> \in GraphCondensation(graph)
            <=> /\ Ids(sccs[c]) \in C /\ Ids(sccs[d]) \in C /\ Ids(sccs[c]) # Ids(sccs[d])
                /\ \E e \in edges : e[1] \in Ids(sccs[c]) /\ e[2] \in Ids(sccs[d])
    BY DEF GraphCondensation, Condensation, C
  <2> QED  BY <1>4, <1>5, <2>1, <2>2, <2>3
<1> HIDE DEF used, name
<1>10. Sortable(sccs, included, used, GraphCondensation(graph))
  BY <1>4, <1>6, <1>7, <1>8, <1>9 DEF Sortable
<1> QED  BY <1>10 DEF used, edges

(* The indegrees and the ready list give the order TopoSort states, which is *)
(* the order followers recompute, whatever order the search emits the        *)
(* components in and whichever are included (topoSortCondensation).          *)
THEOREM KahnExactHolds == Spec => []KahnExact
<1>1. KahnExact
  <2> SUFFICES ASSUME NEW sccs \in Listings(Components(Nodes, Edges)),
                      NEW included \in SUBSET DOMAIN sccs
               PROVE  [k \in DOMAIN TopoSortCondensation(Edges, sccs, included) |->
                            Ids(sccs[TopoSortCondensation(Edges, sccs, included)[k]])]
                        = TopoSort({Ids(sccs[c]) : c \in included},
                                   Condensation(Components(Nodes, Edges), Edges))
    BY DEF KahnExact
  <2> DEFINE graph == [nodes |-> Nodes, edges |-> Edges]
  <2>1. /\ IsGraph(graph) /\ graph.edges = Edges
        /\ GraphComponents(graph) = Components(Nodes, Edges)
        /\ GraphCondensation(graph) = Condensation(Components(Nodes, Edges), Edges)
    <3>1. Nodes \in SUBSET Txs /\ Edges \in SUBSET (Nodes \X Nodes)
      BY DEF Nodes, Edges, NodesOf, EdgesOf
    <3> QED  BY <3>1 DEF IsGraph, GraphComponents, GraphCondensation
  <2> HIDE DEF graph
  <2>2. Sortable(sccs, included, InUse(Edges, sccs, included),
                 Condensation(Components(Nodes, Edges), Edges))
    BY <2>1, ListingSortable
  <2>3. Named(sccs, Kahn(sccs, InUse(Edges, sccs, included), included))
          = TopoSort(NamedSet(sccs, included), Condensation(Components(Nodes, Edges), Edges))
    BY <2>2, KahnIsTopoSort
  <2>4. TopoSortCondensation(Edges, sccs, included)
            = Kahn(sccs, InUse(Edges, sccs, included), included)
    BY DEF TopoSortCondensation, InUse
  <2> QED  BY <2>3, <2>4 DEF Named, NamedSet
<1> QED  BY <1>1, PTL

-----------------------------------------------------------------------------
(* TarjanSCC.                                                                *)

(* A graph on transactions. *)
OnNodes(nodes, g) == nodes \in SUBSET Txs /\ g \in SUBSET (nodes \X nodes)

(* What an edge leads out of only to itself a path does not leave either. *)
LEMMA ReachClosed ==
    ASSUME NEW nodes, NEW g, OnNodes(nodes, g)
    PROVE  /\ \A x \in nodes : <<x, x>> \in Reachability(g)
           /\ \A x, y \in nodes : <<x, y>> \in g => <<x, y>> \in Reachability(g)
           /\ \A x, y, z \in nodes :
                <<x, y>> \in Reachability(g) /\ <<y, z>> \in Reachability(g)
                    => <<x, z>> \in Reachability(g)
           /\ \A A \in SUBSET nodes :
                (\A x, y \in nodes : x \in A /\ <<x, y>> \in g => y \in A) =>
                \A x, y \in nodes : x \in A /\ <<x, y>> \in Reachability(g) => y \in A
<1> DEFINE reach == Reachability(g)
<1>1. g \in SUBSET (Txs \X Txs) /\ nodes \subseteq Txs /\ g \in SUBSET (nodes \X nodes)
  BY DEF OnNodes
<1>2. /\ g \subseteq reach /\ \A x \in Txs : <<x, x>> \in reach
      /\ \A x, y, z \in Txs : <<x, y>> \in reach /\ <<y, z>> \in reach => <<x, z>> \in reach
      /\ \A Q : g \subseteq Q /\ (\A x \in Txs : <<x, x>> \in Q) /\ Transitive(Q) => reach \subseteq Q
  BY <1>1, ReachabilityLeast DEF Transitive
<1> HIDE DEF reach
<1>3. ASSUME NEW A \in SUBSET nodes, \A x, y \in nodes : x \in A /\ <<x, y>> \in g => y \in A,
             NEW x \in nodes, NEW y \in nodes, x \in A, <<x, y>> \in reach
      PROVE  y \in A
  <2> DEFINE Q == {e \in Txs \X Txs : e[1] \in A => e[2] \in A}
  <2>1. \A e \in g : e \in Q
    <3> TAKE e \in g
    <3>1. e = <<e[1], e[2]>> /\ e[1] \in nodes /\ e[2] \in nodes
      BY <1>1
    <3> QED  BY <1>1, <1>3, <3>1
  <2>2. \A a, b \in Txs : <<a, b>> \in Q <=> (a \in A => b \in A)
    OBVIOUS
  <2> HIDE DEF Q
  <2>3. Transitive(Q) /\ \A a \in Txs : <<a, a>> \in Q
    BY <2>2 DEF Transitive
  <2>4. reach \subseteq Q
    BY <1>2, <2>1, <2>3
  <2> QED  BY <1>1, <1>3, <2>2, <2>4
<1>4. /\ \A x \in nodes : <<x, x>> \in reach
      /\ \A x, y \in nodes : <<x, y>> \in g => <<x, y>> \in reach
      /\ \A x, y, z \in nodes : <<x, y>> \in reach /\ <<y, z>> \in reach => <<x, z>> \in reach
  BY <1>1, <1>2
<1> QED  BY <1>3, <1>4 DEF reach

-----------------------------------------------------------------------------
(* The search as sets: K is on the stack, G are the vertices whose calls     *)
(* have not returned, O has been output.                                     *)

Placed(nodes, K, G, O) == G \subseteq K /\ K \cap O = {} /\ K \cup O \subseteq nodes

Numbered(K, at, low) ==
    /\ at \in [Txs -> Nat] /\ low \in [Txs -> Nat]
    /\ \A x, y \in K : at[x] = at[y] => x = y

(* Only a call under way has neighbours left; the others it has seen, and    *)
(* the output is closed under edges.                                         *)
Followed(nodes, g, K, G, O, left) ==
    /\ \A x \in Txs \ G : left[x] = {}
    /\ \A x \in K \cup O, y \in nodes : <<x, y>> \in g /\ y \notin left[x] => y \in K \cup O
    /\ \A x \in O, y \in nodes : <<x, y>> \in g => y \in O

(* Of the stack, a vertex under way leads to all above it, and each leads to *)
(* one under way that is not above it.                                       *)
Joined(g, K, G, at) ==
    /\ \A v \in G, x \in K : at[v] <= at[x] => <<v, x>> \in Reachability(g)
    /\ \A x \in K : \E v \in G : at[v] <= at[x] /\ <<x, v>> \in Reachability(g)

(* The last vertex under way that is not above x. *)
LastBelow(G, at, v, x) == at[v] <= at[x] /\ \A u \in G : at[u] <= at[x] => at[u] <= at[v]

(* A lowlink is the place of a vertex on the stack that can be reached, and  *)
(* it is as low as what the edges looked at since lead to.                   *)
Linked(g, K, G, at, low, left) ==
    /\ \A v \in G : low[v] <= at[v] /\ \E z \in K : at[z] = low[v] /\ <<v, z>> \in Reachability(g)
    /\ \A v \in G, x \in K : LastBelow(G, at, v, x) =>
        \A y \in K : <<x, y>> \in g /\ y \notin left[x] => low[v] <= at[y]

Explored(nodes, g, K, G, O, at, low, left) ==
    /\ Placed(nodes, K, G, O) /\ Numbered(K, at, low) /\ Followed(nodes, g, K, G, O, left)
    /\ Joined(g, K, G, at) /\ Linked(g, K, G, at, low, left)

(* A call for a vertex that every call under way leads to. *)
Enters(nodes, g, K, G, at, low, left, w, at2, low2, left2) ==
    /\ \A u \in G : <<u, w>> \in Reachability(g)
    /\ at2 \in [Txs -> Nat] /\ low2 \in [Txs -> Nat]
    /\ \A x \in Txs \ {w} : at2[x] = at[x] /\ low2[x] = low[x]
    /\ low2[w] = at2[w] /\ \A x \in K : at[x] < at2[w]
    /\ \A y \in nodes : <<w, y>> \in g => y \in left2[w]
    /\ \A x \in Txs \ {w} : left2[x] = left[x] \/ (x \in G /\ left2[x] = left[x] \ {w})

(* It keeps what the search maintains. *)
LEMMA EnterExplores ==
    ASSUME NEW nodes, NEW g, OnNodes(nodes, g),
           NEW K, NEW G, NEW O, NEW at, NEW low, NEW left,
           Explored(nodes, g, K, G, O, at, low, left),
           NEW w \in nodes \ (K \cup O), NEW at2, NEW low2, NEW left2,
           Enters(nodes, g, K, G, at, low, left, w, at2, low2, left2)
    PROVE  Explored(nodes, g, K \cup {w}, G \cup {w}, O, at2, low2, left2)
<1> DEFINE K2 == K \cup {w}
           G2 == G \cup {w}
           reach == Reachability(g)
<1> USE DEF Enters
<1>1. /\ G \subseteq K /\ K \cap O = {} /\ K \cup O \subseteq nodes /\ nodes \subseteq Txs
      /\ w \in nodes /\ w \notin K /\ w \notin O
  BY DEF Explored, Placed, OnNodes
<1>2. /\ \A x \in nodes : <<x, x>> \in reach
      /\ \A x, y \in nodes : <<x, y>> \in g => <<x, y>> \in reach
      /\ \A x, y, z \in nodes : <<x, y>> \in reach /\ <<y, z>> \in reach => <<x, z>> \in reach
  BY ReachClosed
<1>3. /\ at \in [Txs -> Nat] /\ low \in [Txs -> Nat] /\ \A x, y \in K : at[x] = at[y] => x = y
  BY DEF Explored, Numbered
<1>4. \A x \in K : at2[x] = at[x] /\ low2[x] = low[x] /\ at[x] \in Nat /\ x \in nodes /\ x \in Txs /\ x # w
  BY <1>1, <1>3
<1>5. at2[w] \in Nat
  BY <1>1
<1> HIDE DEF reach
<1>6. Placed(nodes, K2, G2, O)
  BY <1>1 DEF Placed
<1>7. Numbered(K2, at2, low2)
  <2>1. \A x \in K : at2[x] # at2[w]
    BY <1>4, <1>5
  <2> QED  BY <1>3, <1>4, <2>1 DEF Numbered
<1>8. Followed(nodes, g, K2, G2, O, left2)
  <2>1. /\ \A x \in Txs \ G : left[x] = {}
        /\ \A x \in K \cup O, y \in nodes : <<x, y>> \in g /\ y \notin left[x] => y \in K \cup O
        /\ \A x \in O, y \in nodes : <<x, y>> \in g => y \in O
    BY DEF Explored, Followed
  <2>2. \A x \in Txs \ G2 : left2[x] = {}
    BY <2>1
  <2>3. ASSUME NEW x \in K2 \cup O, NEW y \in nodes, <<x, y>> \in g, y \notin left2[x]
        PROVE  y \in K2 \cup O
    <3>1. x # w
      BY <2>3
    <3>2. x \in K \cup O /\ x \in Txs \ {w}
      BY <1>1, <3>1
    <3>3. y = w \/ y \notin left[x]
      BY <2>3, <3>2
    <3> QED  BY <2>1, <2>3, <3>2, <3>3
  <2> QED  BY <2>1, <2>2, <2>3 DEF Followed
<1>9. Joined(g, K2, G2, at2)
  <2>1. /\ \A v \in G, x \in K : at[v] <= at[x] => <<v, x>> \in reach
        /\ \A x \in K : \E v \in G : at[v] <= at[x] /\ <<x, v>> \in reach
    BY DEF Explored, Joined, reach
  <2>2. ASSUME NEW v \in G2, NEW x \in K2, at2[v] <= at2[x]  PROVE <<v, x>> \in reach
    <3>1. CASE v \in G /\ x \in K
      BY <1>1, <1>4, <2>1, <2>2, <3>1
    <3>2. CASE x = w
      BY <1>1, <1>2, <3>2 DEF reach
    <3>3. CASE v = w /\ x \in K
      BY <1>4, <1>5, <2>2, <3>3
    <3> QED  BY <3>1, <3>2, <3>3
  <2>3. ASSUME NEW x \in K2  PROVE \E v \in G2 : at2[v] <= at2[x] /\ <<x, v>> \in reach
    <3>1. CASE x \in K
      <4>1. PICK v \in G : at[v] <= at[x] /\ <<x, v>> \in reach
        BY <2>1, <3>1
      <4> QED  BY <1>1, <1>4, <3>1, <4>1
    <3>2. CASE x = w
      BY <1>1, <1>2, <1>5, <3>2
    <3> QED  BY <3>1, <3>2
  <2> QED  BY <2>2, <2>3 DEF Joined, reach
<1>10. Linked(g, K2, G2, at2, low2, left2)
  <2>1. /\ \A v \in G : low[v] <= at[v] /\ \E z \in K : at[z] = low[v] /\ <<v, z>> \in reach
        /\ \A v \in G, x \in K : LastBelow(G, at, v, x) =>
            \A y \in K : <<x, y>> \in g /\ y \notin left[x] => low[v] <= at[y]
    BY DEF Explored, Linked, reach
  <2>2. ASSUME NEW v \in G2
        PROVE  low2[v] <= at2[v] /\ \E z \in K2 : at2[z] = low2[v] /\ <<v, z>> \in reach
    <3>1. CASE v \in G
      <4>1. PICK z \in K : low[v] <= at[v] /\ at[z] = low[v] /\ <<v, z>> \in reach
        BY <2>1, <3>1
      <4>2. at2[v] = at[v] /\ low2[v] = low[v] /\ at2[z] = at[z]
        BY <1>1, <1>4, <3>1
      <4> QED  BY <4>1, <4>2
    <3>2. CASE v = w
      BY <1>1, <1>2, <1>5, <3>2
    <3> QED  BY <3>1, <3>2
  <2>3. ASSUME NEW v \in G2, NEW x \in K2, LastBelow(G2, at2, v, x),
               NEW y \in K2, <<x, y>> \in g, y \notin left2[x]
        PROVE  low2[v] <= at2[y]
    <3>1. x # w /\ x \in K /\ x \in Txs \ {w}
      <4>1. x # w
        BY <1>1, <2>3
      <4> QED  BY <1>1, <4>1
    <3>2. v # w /\ v \in G /\ v \in K
      <4>1. at2[v] <= at2[x]
        BY <2>3 DEF LastBelow
      <4>2. v # w
        BY <1>4, <1>5, <3>1, <4>1
      <4> QED  BY <1>1, <4>2
    <3>3. LastBelow(G, at, v, x)
      BY <1>1, <1>4, <2>3, <3>1, <3>2 DEF LastBelow
    <3>4. CASE y \in K
      <4>1. y \notin left[x]
        BY <1>4, <2>3, <3>1, <3>4
      <4>2. low[v] <= at[y]
        BY <2>1, <2>3, <3>1, <3>2, <3>3, <3>4, <4>1
      <4> QED  BY <1>4, <3>2, <3>4, <4>2
    <3>5. CASE y = w
      <4>1. low[v] <= at[v] /\ at[v] < at2[w] /\ low[v] \in Nat
        BY <1>1, <1>3, <2>1, <3>2
      <4>2. low2[v] = low[v] /\ at[v] \in Nat
        BY <1>4, <3>2
      <4> QED  BY <1>5, <3>5, <4>1, <4>2
    <3> QED  BY <3>4, <3>5
  <2> QED  BY <2>2, <2>3 DEF Linked, reach
<1> HIDE DEF K2, G2
<1>11. Explored(nodes, g, K2, G2, O, at2, low2, left2)
  BY <1>6, <1>7, <1>8, <1>9, <1>10 DEF Explored
<1> QED  BY <1>11 DEF K2, G2

(* The innermost call. *)
Innermost(G, at, v) == v \in G /\ \A u \in G : at[u] <= at[v]

(* A neighbour that has been visited: it lowers the link if it is on the     *)
(* stack.                                                                    *)
Looks(K, at, low, left, v, w, low2, left2) ==
    /\ low2 \in [Txs -> Nat] /\ \A x \in Txs \ {v} : low2[x] = low[x] /\ left2[x] = left[x]
    /\ left2[v] = left[v] \ {w} /\ low2[v] <= low[v] /\ (w \in K => low2[v] <= at[w])
    /\ low2[v] = low[v] \/ (w \in K /\ low2[v] = at[w])

(* Looking at it keeps what the search maintains. *)
LEMMA LookExplores ==
    ASSUME NEW nodes, NEW g, OnNodes(nodes, g),
           NEW K, NEW G, NEW O, NEW at, NEW low, NEW left,
           Explored(nodes, g, K, G, O, at, low, left),
           NEW v, Innermost(G, at, v), NEW w \in K \cup O, <<v, w>> \in g,
           NEW low2, NEW left2, Looks(K, at, low, left, v, w, low2, left2)
    PROVE  Explored(nodes, g, K, G, O, at, low2, left2)
<1> USE DEF Looks
<1> DEFINE reach == Reachability(g)
<1>1. /\ G \subseteq K /\ K \cup O \subseteq nodes /\ nodes \subseteq Txs /\ v \in G
      /\ \A u \in G : at[u] <= at[v]
  BY DEF Explored, Placed, OnNodes, Innermost
<1>2. \A x, y \in nodes : <<x, y>> \in g => <<x, y>> \in reach
  BY ReachClosed
<1>3. /\ at \in [Txs -> Nat] /\ low \in [Txs -> Nat] /\ \A x, y \in K : at[x] = at[y] => x = y
  BY DEF Explored, Numbered
<1>4. \A x \in K : at[x] \in Nat /\ low[x] \in Nat /\ low2[x] \in Nat /\ x \in Txs /\ x \in nodes
  BY <1>1, <1>3
<1> HIDE DEF reach
<1>5. Numbered(K, at, low2)
  BY <1>3 DEF Numbered
<1>6. Followed(nodes, g, K, G, O, left2)
  <2>1. /\ \A x \in Txs \ G : left[x] = {}
        /\ \A x \in K \cup O, y \in nodes : <<x, y>> \in g /\ y \notin left[x] => y \in K \cup O
        /\ \A x \in O, y \in nodes : <<x, y>> \in g => y \in O
    BY DEF Explored, Followed
  <2>2. \A x \in Txs \ G : left2[x] = {}
    BY <1>1, <2>1
  <2>3. ASSUME NEW x \in K \cup O, NEW y \in nodes, <<x, y>> \in g, y \notin left2[x]
        PROVE  y \in K \cup O
    <3>1. y = w \/ y \notin left[x]
      BY <1>1, <2>3
    <3> QED  BY <2>1, <2>3, <3>1
  <2> QED  BY <2>1, <2>2, <2>3 DEF Followed
<1>7. Linked(g, K, G, at, low2, left2)
  <2>1. /\ \A x \in G : low[x] <= at[x] /\ \E z \in K : at[z] = low[x] /\ <<x, z>> \in reach
        /\ \A u \in G, x \in K : LastBelow(G, at, u, x) =>
            \A y \in K : <<x, y>> \in g /\ y \notin left[x] => low[u] <= at[y]
    BY DEF Explored, Linked, reach
  <2>2. \A x \in G : low2[x] <= low[x]
    BY <1>1, <1>4
  <2>3. ASSUME NEW x \in G
        PROVE  low2[x] <= at[x] /\ \E z \in K : at[z] = low2[x] /\ <<x, z>> \in reach
    <3>1. low2[x] <= at[x]
      <4>1. low2[x] <= low[x] /\ low[x] <= at[x] /\ x \in K
        BY <1>1, <2>2, <2>1
      <4> QED  BY <1>4, <4>1
    <3>2. CASE low2[x] = low[x]
      BY <2>1, <3>1, <3>2
    <3>3. CASE low2[x] # low[x]
      <4>1. x = v /\ w \in K /\ low2[x] = at[w]
        BY <1>1, <3>3
      <4>2. <<x, w>> \in reach
        BY <1>1, <1>2, <4>1
      <4> QED  BY <3>1, <4>1, <4>2
    <3> QED  BY <3>2, <3>3
  <2>4. ASSUME NEW u \in G, NEW x \in K, LastBelow(G, at, u, x),
               NEW y \in K, <<x, y>> \in g, y \notin left2[x]
        PROVE  low2[u] <= at[y]
    <3>1. CASE y \notin left[x]
      <4>1. low[u] <= at[y] /\ low2[u] <= low[u] /\ u \in K
        BY <1>1, <2>2, <2>1, <2>4, <3>1
      <4> QED  BY <1>4, <4>1
    <3>2. CASE y \in left[x]
      <4>1. x = v /\ y = w
        BY <1>1, <1>4, <2>4, <3>2
      <4>2. at[u] <= at[v] /\ at[v] <= at[u] /\ u \in K /\ v \in K
        BY <1>1, <1>4, <2>4, <4>1 DEF LastBelow
      <4>3. u = v
        BY <1>3, <1>4, <4>2
      <4> QED  BY <2>4, <4>1, <4>3
    <3> QED  BY <3>1, <3>2
  <2> QED  BY <2>3, <2>4 DEF Linked, reach
<1> QED  BY <1>5, <1>6, <1>7 DEF Explored

(* A call that returns with a link below its vertex has a caller. *)
LEMMA LowHasCaller ==
    ASSUME NEW nodes, NEW g, OnNodes(nodes, g),
           NEW K, NEW G, NEW O, NEW at, NEW low, NEW left,
           Explored(nodes, g, K, G, O, at, low, left),
           NEW v, Innermost(G, at, v), low[v] # at[v], NEW x \in K
    PROVE  \E u \in G \ {v} : at[u] <= at[x] /\ (at[v] <= at[x] => <<x, u>> \in Reachability(g))
<1> DEFINE reach == Reachability(g)
<1>1. /\ G \subseteq K /\ K \cup O \subseteq nodes /\ nodes \subseteq Txs /\ v \in G
      /\ \A u \in G : at[u] <= at[v]
  BY DEF Explored, Placed, OnNodes, Innermost
<1>2. \A a, b, c \in nodes : <<a, b>> \in reach /\ <<b, c>> \in reach => <<a, c>> \in reach
  BY ReachClosed
<1>3. /\ at \in [Txs -> Nat] /\ low \in [Txs -> Nat] /\ \A a, b \in K : at[a] = at[b] => a = b
  BY DEF Explored, Numbered
<1>4. \A a \in K : at[a] \in Nat /\ low[a] \in Nat /\ a \in nodes
  BY <1>1, <1>3
<1>5. \A a \in K : \E u \in G : at[u] <= at[a] /\ <<a, u>> \in reach
  BY DEF Explored, Joined
<1>6. low[v] <= at[v] /\ \E z \in K : at[z] = low[v] /\ <<v, z>> \in reach
  BY <1>1 DEF Explored, Linked
<1> HIDE DEF reach
<1>7. PICK u1 \in G : at[u1] <= at[x] /\ <<x, u1>> \in reach
  BY <1>5
<1>8. CASE u1 # v
  BY <1>7, <1>8 DEF reach
<1>9. CASE u1 = v
  <2>1. PICK z \in K : at[z] = low[v] /\ <<v, z>> \in reach
    BY <1>6
  <2>2. PICK u \in G : at[u] <= at[z] /\ <<z, u>> \in reach
    BY <1>5, <2>1
  <2>3. at[u] < at[v] /\ at[u] <= at[x]
    <3>1. at[u] \in Nat /\ at[z] \in Nat /\ at[v] \in Nat /\ at[x] \in Nat
      BY <1>1, <1>4
    <3> QED  BY <1>6, <1>7, <1>9, <2>1, <2>2, <3>1
  <2>4. <<x, u>> \in reach
    <3>1. <<v, u>> \in reach
      BY <1>1, <1>2, <1>4, <2>1, <2>2
    <3> QED  BY <1>1, <1>2, <1>4, <1>7, <1>9, <3>1
  <2>5. u # v
    BY <1>1, <1>4, <2>3
  <2> QED  BY <2>3, <2>4, <2>5 DEF reach
<1> QED  BY <1>8, <1>9

(* There is one then: the call is not the outermost. *)
LEMMA LowIsInner ==
    ASSUME NEW nodes, NEW g, OnNodes(nodes, g),
           NEW K, NEW G, NEW O, NEW at, NEW low, NEW left,
           Explored(nodes, g, K, G, O, at, low, left),
           NEW v, Innermost(G, at, v), low[v] # at[v]
    PROVE  G \ {v} # {}
<1>1. v \in K
  BY DEF Explored, Placed, Innermost
<1>2. \A x \in K : \E u \in G \ {v} : at[u] <= at[x] /\ (at[v] <= at[x] => <<x, u>> \in Reachability(g))
  BY LowHasCaller
<1> QED  BY <1>1, <1>2

(* It hands its link to the caller and stays on the stack. *)
HandsOn(low, v, u, low2) ==
    /\ low2 \in [Txs -> Nat] /\ \A x \in Txs \ {u} : low2[x] = low[x]
    /\ low2[u] = IF low[v] < low[u] THEN low[v] ELSE low[u]

(* Handing the link on keeps what the search maintains. *)
LEMMA ReturnExplores ==
    ASSUME NEW nodes, NEW g, OnNodes(nodes, g),
           NEW K, NEW G, NEW O, NEW at, NEW low, NEW left,
           Explored(nodes, g, K, G, O, at, low, left),
           NEW v, Innermost(G, at, v), left[v] = {}, low[v] # at[v],
           NEW u, Innermost(G \ {v}, at, u), NEW low2, HandsOn(low, v, u, low2)
    PROVE  Explored(nodes, g, K, G \ {v}, O, at, low2, left)
<1> USE DEF HandsOn
<1> DEFINE reach == Reachability(g)
           G2 == G \ {v}
<1>1. /\ G \subseteq K /\ K \cup O \subseteq nodes /\ nodes \subseteq Txs /\ v \in G
      /\ u \in G2 /\ u \in G /\ u # v
      /\ \A x \in G : at[x] <= at[v]
      /\ \A x \in G2 : at[x] <= at[u]
  BY DEF Explored, Placed, OnNodes, Innermost
<1>2. \A x, y, z \in nodes : <<x, y>> \in reach /\ <<y, z>> \in reach => <<x, z>> \in reach
  BY ReachClosed
<1>3. /\ at \in [Txs -> Nat] /\ low \in [Txs -> Nat] /\ \A x, y \in K : at[x] = at[y] => x = y
  BY DEF Explored, Numbered
<1>4. \A x \in K : at[x] \in Nat /\ low[x] \in Nat /\ low2[x] \in Nat /\ x \in Txs /\ x \in nodes
  BY <1>1, <1>3
<1>5. /\ \A a \in G, x \in K : at[a] <= at[x] => <<a, x>> \in reach
      /\ \A x \in K : \E a \in G : at[a] <= at[x] /\ <<x, a>> \in reach
  BY DEF Explored, Joined
<1>6. /\ \A x \in G : low[x] <= at[x] /\ \E z \in K : at[z] = low[x] /\ <<x, z>> \in reach
      /\ \A a \in G, x \in K : LastBelow(G, at, a, x) =>
          \A y \in K : <<x, y>> \in g /\ y \notin left[x] => low[a] <= at[y]
  BY DEF Explored, Linked
<1>7. low2[u] <= low[u] /\ low2[u] <= low[v] /\ (low2[u] = low[u] \/ low2[u] = low[v])
  <2>1. low[u] \in Nat /\ low[v] \in Nat
    BY <1>1, <1>4
  <2> QED  BY <2>1
<1>8. Joined(g, K, G2, at)
  <2>1. \A x \in K : \E a \in G2 : at[a] <= at[x] /\ <<x, a>> \in reach
    <3> TAKE x \in K
    <3>1. CASE at[v] <= at[x]
      BY <3>1, LowHasCaller
    <3>2. CASE ~(at[v] <= at[x])
      BY <1>5, <3>2
    <3> QED  BY <3>1, <3>2
  <2> QED  BY <1>5, <2>1 DEF Joined
<1> HIDE DEF reach
<1>9. Linked(g, K, G2, at, low2, left)
  <2>1. ASSUME NEW x \in G2
        PROVE  low2[x] <= at[x] /\ \E z \in K : at[z] = low2[x] /\ <<x, z>> \in reach
    <3>1. CASE low2[x] = low[x]
      BY <1>6, <3>1
    <3>2. CASE low2[x] # low[x]
      <4>1. x = u /\ low2[u] = low[v]
        BY <1>1, <1>7, <3>2
      <4>2. PICK z \in K : at[z] = low[v] /\ <<v, z>> \in reach
        BY <1>1, <1>6
      <4>3. <<u, v>> \in reach
        BY <1>1, <1>5
      <4>4. <<u, z>> \in reach
        BY <1>1, <1>2, <1>4, <4>2, <4>3
      <4>5. low2[u] <= at[u]
        <5>1. low2[u] <= low[u] /\ low[u] <= at[u] /\ u \in K
          BY <1>1, <1>6, <1>7
        <5> QED  BY <1>4, <5>1
      <4> QED  BY <4>1, <4>2, <4>4, <4>5
    <3> QED  BY <3>1, <3>2
  <2>2. ASSUME NEW a \in G2, NEW x \in K, LastBelow(G2, at, a, x),
               NEW y \in K, <<x, y>> \in g, y \notin left[x]
        PROVE  low2[a] <= at[y]
    <3>1. at[a] <= at[x] /\ \A b \in G2 : at[b] <= at[x] => at[b] <= at[a]
      BY <2>2 DEF LastBelow
    <3>2. CASE at[v] <= at[x]
      <4>1. at[u] <= at[x]
        <5>1. at[u] <= at[v] /\ at[u] \in Nat /\ at[v] \in Nat /\ at[x] \in Nat
          BY <1>1, <1>4
        <5> QED  BY <3>2, <5>1
      <4>2. a = u
        <5>1. at[u] <= at[a] /\ at[a] <= at[u] /\ a \in K /\ u \in K
          BY <1>1, <3>1, <4>1
        <5> QED  BY <1>3, <1>4, <5>1
      <4>3. LastBelow(G, at, v, x)
        BY <1>1, <3>2 DEF LastBelow
      <4>4. low[v] <= at[y] /\ low2[u] <= low[v] /\ u \in K /\ v \in K
        BY <1>1, <1>6, <1>7, <2>2, <4>3
      <4> QED  BY <1>4, <4>2, <4>4
    <3>3. CASE ~(at[v] <= at[x])
      <4>1. LastBelow(G, at, a, x)
        BY <3>1, <3>3 DEF LastBelow
      <4>2. low[a] <= at[y] /\ low2[a] <= low[a] /\ a \in K
        <5>1. low[a] <= at[y] /\ a \in K
          BY <1>1, <1>6, <2>2, <4>1
        <5>2. low2[a] <= low[a]
          BY <1>4, <1>7, <5>1
        <5> QED  BY <5>1, <5>2
      <4> QED  BY <1>4, <4>2
    <3> QED  BY <3>2, <3>3
  <2> QED  BY <2>1, <2>2 DEF Linked, reach
<1>10. Placed(nodes, K, G2, O) /\ Numbered(K, at, low2)
  <2>1. Placed(nodes, K, G, O)
    BY DEF Explored
  <2> QED  BY <1>3, <2>1 DEF Placed, Numbered
<1>11. Followed(nodes, g, K, G2, O, left)
  <2>1. Followed(nodes, g, K, G, O, left)
    BY DEF Explored
  <2>2. \A x \in Txs \ G2 : x = v \/ x \in Txs \ G
    OBVIOUS
  <2> QED  BY <2>1, <2>2 DEF Followed
<1> HIDE DEF G2
<1>12. Explored(nodes, g, K, G2, O, at, low2, left)
  BY <1>8, <1>9, <1>10, <1>11 DEF Explored
<1> QED  BY <1>12 DEF G2

(* What a call pops when its link is its own place: the vertices from its    *)
(* own upwards.                                                              *)
From(K, at, v) == {x \in K : at[v] <= at[x]}

(* They are one component, whole; the rest of the search is as it was.       *)
LEMMA PopExplores ==
    ASSUME NEW nodes, NEW g, OnNodes(nodes, g),
           NEW K, NEW G, NEW O, NEW at, NEW low, NEW left,
           Explored(nodes, g, K, G, O, at, low, left),
           NEW v, Innermost(G, at, v), left[v] = {}, low[v] = at[v]
    PROVE  /\ From(K, at, v) \in Components(nodes, g)
           /\ Explored(nodes, g, K \ From(K, at, v), G \ {v}, O \cup From(K, at, v), at, low, left)
           /\ \A x \in G \ {v} : ~(low[v] < low[x])
<1> DEFINE reach == Reachability(g)
           G2 == G \ {v}
           D == From(K, at, v)
           K2 == K \ D
           O2 == O \cup D
<1>1. /\ G \subseteq K /\ K \cup O \subseteq nodes /\ nodes \subseteq Txs /\ v \in G /\ v \in K
      /\ K \cap O = {} /\ \A x \in G : at[x] <= at[v]
  BY DEF Explored, Placed, OnNodes, Innermost
<1>2. /\ \A x, y, z \in nodes : <<x, y>> \in reach /\ <<y, z>> \in reach => <<x, z>> \in reach
      /\ \A A \in SUBSET nodes :
            (\A x, y \in nodes : x \in A /\ <<x, y>> \in g => y \in A) =>
            \A x, y \in nodes : x \in A /\ <<x, y>> \in reach => y \in A
  BY ReachClosed
<1>3. /\ at \in [Txs -> Nat] /\ low \in [Txs -> Nat] /\ \A x, y \in K : at[x] = at[y] => x = y
  BY DEF Explored, Numbered
<1>4. \A x \in K : at[x] \in Nat /\ low[x] \in Nat /\ x \in Txs /\ x \in nodes
  BY <1>1, <1>3
<1>5. /\ \A a \in G, x \in K : at[a] <= at[x] => <<a, x>> \in reach
      /\ \A x \in K : \E a \in G : at[a] <= at[x] /\ <<x, a>> \in reach
  BY DEF Explored, Joined
<1>6. /\ \A x \in G : low[x] <= at[x] /\ \E z \in K : at[z] = low[x] /\ <<x, z>> \in reach
      /\ \A a \in G, x \in K : LastBelow(G, at, a, x) =>
          \A y \in K : <<x, y>> \in g /\ y \notin left[x] => low[a] <= at[y]
  BY DEF Explored, Linked
<1>7. /\ \A x \in Txs \ G : left[x] = {}
      /\ \A x \in K \cup O, y \in nodes : <<x, y>> \in g /\ y \notin left[x] => y \in K \cup O
      /\ \A x \in O, y \in nodes : <<x, y>> \in g => y \in O
  BY DEF Explored, Followed
<1>8. /\ D \subseteq K /\ D \subseteq nodes /\ v \in D /\ \A x \in K : x \in D <=> at[v] <= at[x]
      /\ \A x \in K2 : x \in K /\ at[x] < at[v]
  BY <1>1, <1>4 DEF From
<1> HIDE DEF D, reach
<1>9. \A x \in G2 : x \in G /\ x \in K /\ x # v /\ at[x] < at[v] /\ x \in K2 /\ low[x] < at[v]
  <2> TAKE x \in G2
  <2>1. x \in G /\ x \in K /\ x # v /\ at[x] <= at[v] /\ at[x] # at[v] /\ low[x] <= at[x]
    BY <1>1, <1>3, <1>6
  <2>2. at[x] < at[v] /\ low[x] < at[v]
    BY <1>1, <1>4, <2>1
  <2>3. ~(at[v] <= at[x])
    BY <1>1, <1>4, <2>1, <2>2
  <2> QED  BY <1>8, <2>1, <2>2, <2>3
<1>10. ASSUME NEW x \in D, NEW y \in nodes, <<x, y>> \in g  PROVE y \in O2
  <2>1. x \in K /\ x \in Txs /\ at[v] <= at[x] /\ left[x] = {}
    <3>1. x \in K /\ x \in Txs /\ at[v] <= at[x]
      BY <1>1, <1>4, <1>8
    <3>2. x \in G => x = v
      BY <1>4, <1>9, <1>1, <3>1
    <3> QED  BY <1>7, <3>1, <3>2
  <2>2. y \in K \cup O
    BY <1>7, <1>10, <2>1
  <2>3. CASE y \in K
    <3>1. LastBelow(G, at, v, x)
      BY <1>1, <2>1 DEF LastBelow
    <3>2. at[v] <= at[y]
      BY <1>1, <1>6, <1>10, <2>1, <2>3, <3>1
    <3> QED  BY <1>8, <2>3, <3>2
  <2> QED  BY <2>2, <2>3
<1>11. \A x \in O2, y \in nodes : <<x, y>> \in g => y \in O2
  BY <1>7, <1>10
<1>12. D \in Components(nodes, g)
  <2>1. O2 \in SUBSET nodes /\ O \in SUBSET nodes
    BY <1>1, <1>8
  <2>2. ASSUME NEW x \in nodes, <<v, x>> \in reach, <<x, v>> \in reach  PROVE x \in D
    <3>1. x \in O2
      BY <1>1, <1>2, <1>8, <1>11, <2>1, <2>2
    <3>2. x \notin O
      <4>1. \A a, b \in nodes : a \in O /\ <<a, b>> \in reach => b \in O
        BY <1>2, <1>7, <2>1
      <4> QED  BY <1>1, <2>2, <4>1
    <3> QED  BY <3>1, <3>2
  <2>3. ASSUME NEW x \in D  PROVE x \in nodes /\ <<v, x>> \in reach /\ <<x, v>> \in reach
    <3>1. x \in K /\ x \in nodes /\ at[v] <= at[x]
      BY <1>4, <1>8
    <3>2. <<v, x>> \in reach
      BY <1>1, <1>5, <3>1
    <3>3. PICK a \in G : at[a] <= at[x] /\ <<x, a>> \in reach
      BY <1>5, <3>1
    <3>4. <<a, v>> \in reach
      BY <1>1, <1>5
    <3>5. <<x, v>> \in reach
      BY <1>1, <1>2, <1>4, <3>1, <3>3, <3>4
    <3> QED  BY <3>1, <3>2, <3>5
  <2>4. D = {x \in nodes : <<v, x>> \in reach /\ <<x, v>> \in reach}
    BY <2>2, <2>3
  <2>5. v \in nodes
    BY <1>1, <1>4
  <2> QED  BY <2>4, <2>5 DEF Components, reach
<1>13. Placed(nodes, K2, G2, O2)
  BY <1>1, <1>8, <1>9 DEF Placed
<1>14. Numbered(K2, at, low)
  BY <1>3, <1>8 DEF Numbered
<1>15. Followed(nodes, g, K2, G2, O2, left)
  <2>1. \A x \in Txs \ G2 : x = v \/ x \in Txs \ G
    OBVIOUS
  <2>2. K2 \cup O2 = K \cup O
    BY <1>8
  <2>3. \A x \in Txs \ G2 : left[x] = {}
    BY <1>7, <2>1
  <2>4. \A x \in K2 \cup O2, y \in nodes : <<x, y>> \in g /\ y \notin left[x] => y \in K2 \cup O2
    BY <1>7, <2>2
  <2> QED  BY <1>11, <2>3, <2>4 DEF Followed
<1>16. Joined(g, K2, G2, at)
  <2>1. \A a \in G2, x \in K2 : at[a] <= at[x] => <<a, x>> \in reach
    BY <1>5, <1>8
  <2>2. ASSUME NEW x \in K2  PROVE \E a \in G2 : at[a] <= at[x] /\ <<x, a>> \in reach
    <3>1. PICK a \in G : at[a] <= at[x] /\ <<x, a>> \in reach
      BY <1>5, <1>8
    <3>2. at[x] < at[v] /\ at[x] \in Nat /\ at[v] \in Nat
      BY <1>1, <1>4, <1>8
    <3>3. a # v
      BY <3>1, <3>2
    <3> QED  BY <3>1, <3>3
  <2> QED  BY <2>1, <2>2 DEF Joined, reach
<1>17. Linked(g, K2, G2, at, low, left)
  <2>1. ASSUME NEW x \in G2
        PROVE  low[x] <= at[x] /\ \E z \in K2 : at[z] = low[x] /\ <<x, z>> \in reach
    <3>1. PICK z \in K : at[z] = low[x] /\ <<x, z>> \in reach
      BY <1>6, <1>9
    <3>2. at[z] < at[v] /\ at[z] \in Nat /\ at[v] \in Nat
      BY <1>1, <1>4, <1>9, <3>1
    <3>3. z \in K2
      BY <1>8, <3>2
    <3> QED  BY <1>6, <1>9, <3>1, <3>3
  <2>2. ASSUME NEW a \in G2, NEW x \in K2, LastBelow(G2, at, a, x),
               NEW y \in K2, <<x, y>> \in g, y \notin left[x]
        PROVE  low[a] <= at[y]
    <3>1. at[x] < at[v] /\ at[x] \in Nat /\ at[v] \in Nat /\ x \in K /\ y \in K
      BY <1>1, <1>4, <1>8
    <3>2. ~(at[v] <= at[x])
      BY <3>1
    <3>3. LastBelow(G, at, a, x)
      BY <2>2, <3>2 DEF LastBelow
    <3> QED  BY <1>6, <1>9, <2>2, <3>1, <3>3
  <2> QED  BY <2>1, <2>2 DEF Linked, reach
<1>18. \A x \in G \ {v} : ~(low[v] < low[x])
  <2> TAKE x \in G \ {v}
  <2>1. low[x] < at[v] /\ low[x] \in Nat /\ at[v] \in Nat
    BY <1>1, <1>4, <1>9
  <2> QED  BY <2>1
<1> HIDE DEF G2, K2, O2
<1>19. Explored(nodes, g, K2, G2, O2, at, low, left)
  BY <1>13, <1>14, <1>15, <1>16, <1>17 DEF Explored
<1> QED  BY <1>12, <1>18, <1>19 DEF G2, K2, O2, D

(* A sequence of vertices in the order of their places. *)
ByPlace(at, seq) == \A i, j \in DOMAIN seq : i < j => at[seq[i]] < at[seq[j]]

(* A vertex with a greater place extends the order. *)
LEMMA AppendByPlace ==
    ASSUME NEW at \in [Txs -> Nat], NEW at2 \in [Txs -> Nat], NEW seq \in Seq(Txs),
           ByPlace(at, seq), NEW w \in Txs, w \notin Ids(seq),
           \A x \in Ids(seq) : at2[x] = at[x] /\ at[x] < at2[w]
    PROVE  ByPlace(at2, Append(seq, w))
<1> DEFINE longer == Append(seq, w)
           n == Len(seq)
<1>1. /\ DOMAIN seq = 1 .. n /\ DOMAIN longer = 1 .. n + 1 /\ n \in Nat /\ longer[n + 1] = w
      /\ \A i \in 1 .. n : longer[i] = seq[i]
  BY AppendIds
<1> HIDE DEF longer, n
<1>2. \A i \in 1 .. n : at2[seq[i]] = at[seq[i]] /\ at[seq[i]] < at2[w]
  BY <1>1 DEF Ids
<1>3. ASSUME NEW i \in 1 .. n + 1, NEW j \in 1 .. n + 1, i < j
      PROVE  at2[longer[i]] < at2[longer[j]]
  <2>1. i \in 1 .. n /\ (j \in 1 .. n \/ j = n + 1)
    BY <1>1, <1>3
  <2>2. CASE j \in 1 .. n
    <3>1. at[seq[i]] < at[seq[j]]
      BY <1>1, <1>3, <2>1, <2>2 DEF ByPlace
    <3>2. at2[longer[i]] = at[seq[i]] /\ at2[longer[j]] = at[seq[j]]
      BY <1>1, <1>2, <2>1, <2>2
    <3> QED  BY <3>1, <3>2
  <2>3. CASE j = n + 1
    BY <1>1, <1>2, <2>1, <2>3
  <2> QED  BY <2>1, <2>2, <2>3
<1> QED  BY <1>1, <1>3 DEF ByPlace, longer

(* What is taken off from one of them upwards. *)
LEMMA PrefixByPlace ==
    ASSUME NEW at \in [Txs -> Nat], NEW seq \in Seq(Txs), ByPlace(at, seq), NEW i \in DOMAIN seq
    PROVE  /\ SubSeq(seq, 1, i - 1) \in Seq(Txs) /\ Len(SubSeq(seq, 1, i - 1)) = i - 1
           /\ \A k \in 1 .. i - 1 : SubSeq(seq, 1, i - 1)[k] = seq[k]
           /\ ByPlace(at, SubSeq(seq, 1, i - 1))
           /\ Ids(SubSeq(seq, 1, i - 1)) = Ids(seq) \ From(Ids(seq), at, seq[i])
           /\ \A k \in 1 .. Len(seq) : seq[k] \in From(Ids(seq), at, seq[i]) <=> i <= k
           /\ \A j \in DOMAIN seq : seq[j] = seq[i] => j = i
<1> DEFINE pre == SubSeq(seq, 1, i - 1)
           n == Len(seq)
<1>1. /\ DOMAIN seq = 1 .. n /\ n \in Nat /\ i \in 1 .. n /\ i \in Nat
      /\ \A k \in 1 .. n : seq[k] \in Txs /\ at[seq[k]] \in Nat
  <2>1. DOMAIN seq = 1 .. n /\ n \in Nat /\ \A k \in DOMAIN seq : seq[k] \in Txs
    BY SeqElements
  <2> HIDE DEF n
  <2> QED  BY <2>1
<1>2. /\ pre \in Seq(Txs) /\ Len(pre) = i - 1 /\ DOMAIN pre = 1 .. i - 1
      /\ \A k \in 1 .. i - 1 : pre[k] = seq[k] /\ k \in 1 .. n
  BY <1>1
<1> HIDE DEF pre, n
<1>3. \A j, k \in 1 .. n : j < k => at[seq[j]] < at[seq[k]]
  BY <1>1 DEF ByPlace
<1>4. \A k \in 1 .. n : /\ at[seq[i]] <= at[seq[k]] <=> i <= k
                        /\ seq[k] = seq[i] => k = i
  <2> TAKE k \in 1 .. n
  <2>1. at[seq[i]] \in Nat /\ at[seq[k]] \in Nat /\ k \in Nat
    BY <1>1
  <2>2. (k < i => at[seq[k]] < at[seq[i]]) /\ (i < k => at[seq[i]] < at[seq[k]])
    BY <1>1, <1>3
  <2>3. k < i \/ k = i \/ i < k
    BY <1>1
  <2> QED  BY <1>1, <2>1, <2>2, <2>3
<1>5. ByPlace(at, pre)
  <2>1. ASSUME NEW j \in 1 .. i - 1, NEW k \in 1 .. i - 1, j < k  PROVE at[pre[j]] < at[pre[k]]
    <3>1. j \in 1 .. n /\ k \in 1 .. n /\ pre[j] = seq[j] /\ pre[k] = seq[k]
      BY <1>2
    <3>2. at[seq[j]] < at[seq[k]]
      BY <1>3, <2>1, <3>1
    <3> QED  BY <3>1, <3>2
  <2> QED  BY <1>2, <2>1 DEF ByPlace
<1>6. \A k \in 1 .. n : seq[k] \in From(Ids(seq), at, seq[i]) <=> i <= k
  <2>1. \A k \in 1 .. n : seq[k] \in Ids(seq)
    BY <1>1 DEF Ids
  <2> QED  BY <1>4, <2>1 DEF From
<1>7. \A x \in Ids(seq) : \E k \in 1 .. n : x = seq[k]
  BY <1>1 DEF Ids
<1>8. \A k \in 1 .. n : (i <= k <=> k \in i .. n) /\ (~(i <= k) <=> k \in 1 .. i - 1)
  BY <1>1
<1>9. Ids(pre) = Ids(seq) \ From(Ids(seq), at, seq[i])
  <2>1. Ids(pre) = {seq[k] : k \in 1 .. i - 1}
    BY <1>2 DEF Ids
  <2>2. \A k \in 1 .. i - 1 : seq[k] \in Ids(seq) /\ k \in 1 .. n /\ ~(i <= k)
    BY <1>1, <1>2 DEF Ids
  <2> QED  BY <1>6, <1>7, <1>8, <2>1, <2>2
<1> QED  BY <1>1, <1>2, <1>4, <1>5, <1>6, <1>9 DEF pre, n

(* What is taken off. *)
LEMMA AboveByPlace ==
    ASSUME NEW at \in [Txs -> Nat], NEW seq \in Seq(Txs), ByPlace(at, seq), NEW i \in DOMAIN seq
    PROVE  {seq[k] : k \in i .. Len(seq)} = From(Ids(seq), at, seq[i])
<1> DEFINE n == Len(seq)
<1>1. DOMAIN seq = 1 .. n /\ n \in Nat /\ i \in 1 .. n
  BY SeqElements
<1>2. \A k \in 1 .. n : seq[k] \in From(Ids(seq), at, seq[i]) <=> i <= k
  BY PrefixByPlace
<1> HIDE DEF n
<1>3. \A x \in From(Ids(seq), at, seq[i]) : \E k \in 1 .. n : x = seq[k]
  BY <1>1 DEF From, Ids
<1>4. \A k \in 1 .. n : i <= k <=> k \in i .. n
  BY <1>1
<1>5. \A k \in i .. n : k \in 1 .. n
  BY <1>1
<1> QED  BY <1>2, <1>3, <1>4, <1>5 DEF n

(* The innermost call is the last, and without it the one before. *)
LEMMA CallsByPlace ==
    ASSUME NEW at \in [Txs -> Nat], NEW calls \in Seq(Txs), ByPlace(at, calls), calls # <<>>
    PROVE  LET v == calls[Len(calls)]
               callers == SubSeq(calls, 1, Len(calls) - 1)
           IN  /\ Innermost(Ids(calls), at, v) /\ v \in Txs
               /\ callers \in Seq(Txs) /\ ByPlace(at, callers) /\ Ids(callers) = Ids(calls) \ {v}
               /\ callers # <<>> => Innermost(Ids(callers), at, callers[Len(callers)])
               /\ callers = <<>> => Ids(callers) = {}
<1> DEFINE v == calls[Len(calls)]
           callers == SubSeq(calls, 1, Len(calls) - 1)
<1>1. ASSUME NEW seq \in Seq(Txs), ByPlace(at, seq), seq # <<>>
      PROVE  Innermost(Ids(seq), at, seq[Len(seq)]) /\ Len(seq) \in DOMAIN seq /\ seq[Len(seq)] \in Txs
  <2> DEFINE n == Len(seq)
  <2>1. DOMAIN seq = 1 .. n /\ n \in Nat /\ \A k \in DOMAIN seq : seq[k] \in Txs
    BY SeqElements
  <2>2. n \in 1 .. n
    BY <1>1, <2>1
  <2> HIDE DEF n
  <2>3. \A k \in 1 .. n : at[seq[k]] <= at[seq[n]]
    <3> TAKE k \in 1 .. n
    <3>1. k = n \/ k < n
      BY <2>1
    <3>2. at[seq[k]] \in Nat /\ at[seq[n]] \in Nat
      BY <2>1, <2>2
    <3>3. k < n => at[seq[k]] < at[seq[n]]
      BY <1>1, <2>1, <2>2 DEF ByPlace
    <3> QED  BY <3>1, <3>2, <3>3
  <2>4. Innermost(Ids(seq), at, seq[n]) /\ n \in DOMAIN seq /\ seq[n] \in Txs
    BY <2>1, <2>2, <2>3 DEF Innermost, Ids
  <2> QED  BY <2>4 DEF n
<1>2. Innermost(Ids(calls), at, v) /\ Len(calls) \in DOMAIN calls /\ v \in Txs
  BY <1>1
<1>3. /\ callers \in Seq(Txs) /\ ByPlace(at, callers)
      /\ Ids(callers) = Ids(calls) \ From(Ids(calls), at, v)
      /\ \A j \in DOMAIN calls : calls[j] = v => j = Len(calls)
  BY <1>2, PrefixByPlace
<1>4. From(Ids(calls), at, v) = {v}
  <2> HIDE DEF callers
  <2>1. v \in Ids(calls)
    BY <1>2 DEF Innermost
  <2>2. ASSUME NEW x \in Ids(calls), at[v] <= at[x]  PROVE x = v
    <3>1. PICK j \in DOMAIN calls : calls[j] = x
      BY DEF Ids
    <3>2. DOMAIN calls = 1 .. Len(calls) /\ Len(calls) \in Nat /\ \A k \in DOMAIN calls : calls[k] \in Txs
      BY SeqElements
    <3>3. ~(j < Len(calls))
      <4>1. j < Len(calls) => at[x] < at[v]
        BY <1>2, <3>1 DEF ByPlace
      <4>2. at[x] \in Nat /\ at[v] \in Nat
        BY <1>2, <3>1, <3>2
      <4> QED  BY <2>2, <4>1, <4>2
    <3>4. j = Len(calls)
      BY <3>2, <3>3
    <3> QED  BY <3>1, <3>4
  <2>3. at[v] <= at[v]
    BY <1>2
  <2> QED  BY <2>1, <2>2, <2>3 DEF From
<1>5. callers = <<>> => Ids(callers) = {}
  BY DEF Ids
<1>6. callers # <<>> => Innermost(Ids(callers), at, callers[Len(callers)])
  BY <1>1, <1>3
<1> HIDE DEF v, callers
<1>7. Ids(callers) = Ids(calls) \ {v}
  BY <1>3, <1>4
<1> QED  BY <1>2, <1>3, <1>5, <1>6, <1>7 DEF v, callers

(* A state of the search as those sets: what has been output, what has been  *)
(* visited, whose calls have returned, which edges have been looked at.      *)
Emitted(s) == UNION {Ids(s.out[i]) : i \in DOMAIN s.out}
Seen(s) == Ids(s.stack) \cup Emitted(s)
Ended(s) == Seen(s) \ Ids(s.calls)
Looked(g, s) == {e \in g : e[1] \in Seen(s) /\ e[2] \notin s.left[e[1]]}

Searches ==
    [index : Nat, indices : [Txs -> Nat], lowlink : [Txs -> Nat], stack : Seq(Txs),
     out : Seq(Seq(Txs)), calls : Seq(Txs), left : [Txs -> SUBSET Txs]]

(* The places are given in order, and the stack and the calls are in it.     *)
Tracked(s) ==
    /\ s.index > 0 /\ \A x \in Ids(s.stack) : s.indices[x] < s.index
    /\ \A x \in Txs : s.indices[x] = Unvisited <=> x \notin Seen(s)
    /\ ByPlace(s.indices, s.stack) /\ ByPlace(s.indices, s.calls)

(* Each list of the output is a component of its own.                        *)
Listed(nodes, g, s) ==
    /\ \A i \in DOMAIN s.out : \E c \in Components(nodes, g) : s.out[i] = Sorted(c)
    /\ \A i, j \in DOMAIN s.out : Ids(s.out[i]) = Ids(s.out[j]) => i = j

SearchSound(nodes, g, s) ==
    /\ s \in Searches /\ Tracked(s) /\ Listed(nodes, g, s)
    /\ \A x, y \in Txs : y \in s.left[x] => <<x, y>> \in g
    /\ Explored(nodes, g, Ids(s.stack), Ids(s.calls), Emitted(s), s.indices, s.lowlink, s.left)

SearchStates(nodes, g) == {s \in Searches : SearchSound(nodes, g, s)}

(* Nothing is undone.                                                        *)
NothingUndone(g, s, t) == Seen(s) \subseteq Seen(t) /\ Ended(s) \subseteq Ended(t) /\ Looked(g, s) \subseteq Looked(g, t)

(* A step visits a vertex, or returns from a call, or looks at an edge.      *)
Advances(g, s, t) ==
    NothingUndone(g, s, t) /\ (Seen(s) # Seen(t) \/ Ended(s) # Ended(t) \/ Looked(g, s) # Looked(g, t))

(* The neighbours of a vertex are those its edges lead to. *)
LEMMA NeighbourFacts ==
    ASSUME NEW nodes, NEW g, OnNodes(nodes, g), NEW v \in nodes
    PROVE  /\ Neighbours(g, v) \in SUBSET nodes /\ Neighbours(g, v) \in SUBSET Txs
           /\ \A y \in nodes : y \in Neighbours(g, v) <=> <<v, y>> \in g
           /\ \A y \in Txs : y \in Neighbours(g, v) => <<v, y>> \in g
<1>1. nodes \subseteq Txs /\ \A e \in g : e = <<e[1], e[2]>> /\ e[1] \in nodes /\ e[2] \in nodes
  BY DEF OnNodes
<1>2. \A y : y \in Neighbours(g, v) => y \in nodes /\ <<v, y>> \in g
  BY <1>1 DEF Neighbours
<1>3. \A y \in nodes : <<v, y>> \in g => y \in Neighbours(g, v)
  <2> TAKE y \in nodes
  <2>1. <<v, y>>[1] = v /\ <<v, y>>[2] = y
    OBVIOUS
  <2> QED  BY <2>1 DEF Neighbours
<1> QED  BY <1>1, <1>2, <1>3

(* The least of a set of vertices is one of them. *)
LEMMA LeastVertex ==
    ASSUME NEW S \in SUBSET Txs, S # {}
    PROVE  Least(S) \in S /\ Least(S) \in Txs
<1>1. S \in SUBSET Nat /\ IsFiniteSet(S)
  BY TxAssumption, FS_Subset
<1> QED  BY <1>1, LeastElement

(* connect visits w, which every call under way leads to; before it, only w  *)
(* was taken off the neighbours left to a call.                              *)
Reaching(g, s, r, w) ==
    /\ r \in Searches /\ r.index = s.index /\ r.indices = s.indices /\ r.lowlink = s.lowlink
    /\ r.stack = s.stack /\ r.out = s.out /\ r.calls = s.calls
    /\ \A x \in Txs : r.left[x] = s.left[x] \/ (x \in Ids(s.calls) /\ r.left[x] = s.left[x] \ {w})
    /\ \A u \in Ids(s.calls) : <<u, w>> \in Reachability(g)

(* The fields after connect. *)
LEMMA ConnectFields ==
    ASSUME NEW nodes, NEW g, OnNodes(nodes, g), NEW s \in Searches, NEW w \in nodes, NEW r, Reaching(g, s, r, w)
    PROVE  LET t == Connect(g, r, w)
           IN  /\ t \in Searches /\ t.index = s.index + 1 /\ t.out = s.out
               /\ t.stack = Append(s.stack, w) /\ t.calls = Append(s.calls, w)
               /\ \A x \in Txs \ {w} :
                    /\ t.indices[x] = s.indices[x] /\ t.lowlink[x] = s.lowlink[x]
                    /\ t.left[x] = s.left[x] \/ (x \in Ids(s.calls) /\ t.left[x] = s.left[x] \ {w})
               /\ t.indices[w] = s.index /\ t.lowlink[w] = s.index
               /\ \A y \in nodes : <<w, y>> \in g => y \in t.left[w]
               /\ \A y \in Txs : y \in t.left[w] => <<w, y>> \in g
<1> DEFINE t == Connect(g, r, w)
<1>1. /\ r \in Searches /\ r.index = s.index /\ r.indices = s.indices /\ r.lowlink = s.lowlink
      /\ r.stack = s.stack /\ r.out = s.out /\ r.calls = s.calls
      /\ \A x \in Txs : r.left[x] = s.left[x] \/ (x \in Ids(s.calls) /\ r.left[x] = s.left[x] \ {w})
  BY DEF Reaching
<1>2. /\ w \in Txs /\ Neighbours(g, w) \in SUBSET Txs
      /\ \A y \in nodes : y \in Neighbours(g, w) <=> <<w, y>> \in g
      /\ \A y \in Txs : y \in Neighbours(g, w) => <<w, y>> \in g
  BY NeighbourFacts DEF OnNodes
<1>3. /\ r.index + 1 \in Nat /\ r.indices \in [Txs -> Nat] /\ r.lowlink \in [Txs -> Nat]
      /\ r.stack \in Seq(Txs) /\ r.calls \in Seq(Txs) /\ r.left \in [Txs -> SUBSET Txs]
  BY <1>1 DEF Searches
<1>4. Append(r.stack, w) \in Seq(Txs) /\ Append(r.calls, w) \in Seq(Txs)
  BY <1>2, <1>3, AppendIds
<1>5. t \in Searches
  <2>1. r \in Searches
    BY <1>1
  <2> QED  BY <1>2, <1>3, <1>4, <2>1 DEF Searches, Connect
<1>6. /\ t.index = r.index + 1 /\ t.out = r.out
      /\ t.stack = Append(r.stack, w) /\ t.calls = Append(r.calls, w)
      /\ t.indices = [r.indices EXCEPT ![w] = r.index] /\ t.lowlink = [r.lowlink EXCEPT ![w] = r.index]
      /\ t.left = [r.left EXCEPT ![w] = Neighbours(g, w)]
  <2>1. r \in Searches
    BY <1>1
  <2> QED  BY <2>1 DEF Searches, Connect
<1> HIDE DEF t
<1>7. /\ t.index = s.index + 1 /\ t.out = s.out
      /\ t.stack = Append(s.stack, w) /\ t.calls = Append(s.calls, w)
  BY <1>1, <1>6
<1>8. /\ t.indices = [r.indices EXCEPT ![w] = r.index] /\ t.lowlink = [r.lowlink EXCEPT ![w] = r.index]
      /\ t.left = [r.left EXCEPT ![w] = Neighbours(g, w)]
  BY <1>6
<1>9. /\ t.indices[w] = s.index /\ t.lowlink[w] = s.index /\ t.left[w] = Neighbours(g, w)
      /\ \A x \in Txs \ {w} : t.indices[x] = s.indices[x] /\ t.lowlink[x] = s.lowlink[x] /\ t.left[x] = r.left[x]
  <2>1. t.indices[w] = r.index
    BY <1>2, <1>3, <1>8
  <2>2. t.lowlink[w] = r.index
    BY <1>2, <1>3, <1>8
  <2>3. t.left[w] = Neighbours(g, w)
    BY <1>2, <1>3, <1>8
  <2>4. \A x \in Txs \ {w} : t.indices[x] = r.indices[x] /\ t.lowlink[x] = r.lowlink[x] /\ t.left[x] = r.left[x]
    BY <1>3, <1>8
  <2> QED  BY <1>1, <2>1, <2>3, <2>4, <2>2, Zenon
<1>10. \A y \in nodes : <<w, y>> \in g => y \in t.left[w]
  BY <1>2, <1>9
<1>11. \A y \in Txs : y \in t.left[w] => <<w, y>> \in g
  BY <1>2, <1>9
<1>12. \A x \in Txs \ {w} :
          t.left[x] = s.left[x] \/ (x \in Ids(s.calls) /\ t.left[x] = s.left[x] \ {w})
  <2> TAKE x \in Txs \ {w}
  <2>1. r.left[x] = s.left[x] \/ (x \in Ids(s.calls) /\ r.left[x] = s.left[x] \ {w})
    BY <1>1
  <2>2. t.left[x] = r.left[x]
    BY <1>9
  <2> QED  BY <2>1, <2>2, Zenon
<1> QED  BY <1>5, <1>7, <1>9, <1>10, <1>11, <1>12 DEF t

(* Visiting a vertex keeps what the search maintains. *)
LEMMA ConnectSound ==
    ASSUME NEW nodes, NEW g, OnNodes(nodes, g), NEW s, SearchSound(nodes, g, s),
           NEW w \in nodes, w \notin Seen(s), NEW r, Reaching(g, s, r, w)
    PROVE  SearchSound(nodes, g, Connect(g, r, w)) /\ Advances(g, s, Connect(g, r, w))
<1> DEFINE t == Connect(g, r, w)
           K == Ids(s.stack)
           G == Ids(s.calls)
<1>1. /\ s \in Searches /\ Tracked(s) /\ Listed(nodes, g, s)
      /\ \A x, y \in Txs : y \in s.left[x] => <<x, y>> \in g
      /\ Explored(nodes, g, K, G, Emitted(s), s.indices, s.lowlink, s.left)
  BY DEF SearchSound
<1>2. /\ t \in Searches /\ t.index = s.index + 1 /\ t.out = s.out
      /\ t.stack = Append(s.stack, w) /\ t.calls = Append(s.calls, w)
      /\ \A x \in Txs \ {w} :
           /\ t.indices[x] = s.indices[x] /\ t.lowlink[x] = s.lowlink[x]
           /\ t.left[x] = s.left[x] \/ (x \in G /\ t.left[x] = s.left[x] \ {w})
      /\ t.indices[w] = s.index /\ t.lowlink[w] = s.index
      /\ \A y \in nodes : <<w, y>> \in g => y \in t.left[w]
      /\ \A y \in Txs : y \in t.left[w] => <<w, y>> \in g
  BY <1>1, ConnectFields
<1> HIDE DEF t
<1>3. /\ s.index \in Nat /\ s.indices \in [Txs -> Nat] /\ s.stack \in Seq(Txs) /\ s.calls \in Seq(Txs)
      /\ t.indices \in [Txs -> Nat] /\ t.lowlink \in [Txs -> Nat] /\ t.left \in [Txs -> SUBSET Txs]
      /\ w \in Txs
  BY <1>1, <1>2 DEF Searches, OnNodes
<1>4. /\ Ids(t.stack) = K \cup {w} /\ Ids(t.calls) = G \cup {w} /\ Emitted(t) = Emitted(s)
      /\ G \subseteq K /\ K \subseteq Txs /\ w \notin K /\ w \notin G /\ w \notin Emitted(s)
  <2>1. Ids(t.stack) = K \cup {w} /\ Ids(t.calls) = G \cup {w}
    BY <1>2, <1>3, AppendIds
  <2>2. Emitted(t) = Emitted(s)
    BY <1>2 DEF Emitted
  <2>3. G \subseteq K /\ K \subseteq nodes /\ nodes \subseteq Txs
    BY <1>1 DEF Explored, Placed, OnNodes
  <2> QED  BY <2>1, <2>2, <2>3 DEF Seen
<1>5. Seen(t) = Seen(s) \cup {w} /\ Ended(s) \subseteq Ended(t)
  <2> HIDE DEF K, G
  <2>1. Seen(t) = Ids(t.stack) \cup Emitted(t) /\ Seen(s) = K \cup Emitted(s)
    BY DEF Seen, K
  <2>2. Seen(t) = Seen(s) \cup {w}
    BY <1>4, <2>1
  <2>3. Ended(t) = Seen(t) \ Ids(t.calls) /\ Ended(s) = Seen(s) \ G
    BY DEF Ended, G
  <2> QED  BY <1>4, <2>2, <2>3
<1>6. /\ s.index > 0 /\ \A x \in K : s.indices[x] < s.index
      /\ \A x \in Txs : s.indices[x] = Unvisited <=> x \notin Seen(s)
      /\ ByPlace(s.indices, s.stack) /\ ByPlace(s.indices, s.calls)
  BY <1>1 DEF Tracked
<1>7. Explored(nodes, g, Ids(t.stack), Ids(t.calls), Emitted(t), t.indices, t.lowlink, t.left)
  <2>1. \A u \in G : <<u, w>> \in Reachability(g)
    BY DEF Reaching
  <2>2. w \in nodes \ (K \cup Emitted(s))
    BY <1>4
  <2>3. \A x \in K : s.indices[x] < t.indices[w]
    BY <1>2, <1>6
  <2>4. t.lowlink[w] = t.indices[w]
    BY <1>2
  <2> HIDE DEF K, G
  <2>5. \A x \in Txs \ {w} : t.indices[x] = s.indices[x] /\ t.lowlink[x] = s.lowlink[x]
    BY <1>2
  <2>6. \A x \in Txs \ {w} : t.left[x] = s.left[x] \/ (x \in G /\ t.left[x] = s.left[x] \ {w})
    BY <1>2
  <2>7. Explored(nodes, g, K, G, Emitted(s), s.indices, s.lowlink, s.left)
    BY <1>1
  <2>8. \A y \in nodes : <<w, y>> \in g => y \in t.left[w]
    BY <1>2
  <2>9. Enters(nodes, g, K, G, s.indices, s.lowlink, s.left, w, t.indices, t.lowlink, t.left)
    BY <1>3, <2>1, <2>3, <2>4, <2>5, <2>6, <2>8 DEF Enters
  <2>10. Explored(nodes, g, K \cup {w}, G \cup {w}, Emitted(s), t.indices, t.lowlink, t.left)
    BY <2>2, <2>7, <2>9, EnterExplores
  <2> QED  BY <1>4, <2>10
<1>8. Tracked(t)
  <2>1. t.index > 0 /\ \A x \in Ids(t.stack) : t.indices[x] < t.index
    <3>1. t.index > 0 /\ t.indices[w] < t.index
      BY <1>2, <1>3
    <3>2. \A x \in K : t.indices[x] < t.index
      <4> TAKE x \in K
      <4>1. x \in Txs \ {w} /\ s.indices[x] < s.index
        BY <1>4, <1>6
      <4>2. t.indices[x] = s.indices[x] /\ s.indices[x] \in Nat
        BY <1>2, <1>3, <4>1
      <4> QED  BY <1>2, <1>3, <4>1, <4>2
    <3> QED  BY <1>4, <3>1, <3>2
  <2>2. \A x \in Txs : t.indices[x] = Unvisited <=> x \notin Seen(t)
    <3>1. t.indices[w] # Unvisited
      BY <1>2, <1>3, <1>6 DEF Unvisited
    <3>2. \A x \in Txs \ {w} : t.indices[x] = s.indices[x]
      BY <1>2
    <3> QED  BY <1>5, <1>6, <3>1, <3>2
  <2>3. \A x \in K : t.indices[x] = s.indices[x] /\ s.indices[x] < t.indices[w]
    <3>1. \A x \in K : x \in Txs \ {w}
      BY <1>4
    <3> QED  BY <1>2, <1>6, <3>1
  <2>4. ByPlace(t.indices, t.stack)
    <3>1. ByPlace(t.indices, Append(s.stack, w))
      BY <1>3, <1>4, <1>6, <2>3, AppendByPlace
    <3> QED  BY <1>2, <3>1
  <2>5. ByPlace(t.indices, t.calls)
    <3>1. ByPlace(t.indices, Append(s.calls, w))
      BY <1>3, <1>4, <1>6, <2>3, AppendByPlace
    <3> QED  BY <1>2, <3>1
  <2> QED  BY <2>1, <2>2, <2>4, <2>5 DEF Tracked
<1>9. Listed(nodes, g, t)
  BY <1>1, <1>2 DEF Listed
<1>10. \A x, y \in Txs : y \in t.left[x] => <<x, y>> \in g
  <2> TAKE x \in Txs, y \in Txs
  <2>1. CASE x = w
    BY <1>2, <2>1
  <2>2. CASE x # w
    <3>1. t.left[x] \subseteq s.left[x]
      BY <1>2, <2>2
    <3> QED  BY <1>1, <3>1
  <2> QED  BY <2>1, <2>2
<1>11. Looked(g, s) \subseteq Looked(g, t)
  <2> SUFFICES ASSUME NEW e \in Looked(g, s)  PROVE e \in Looked(g, t)
    OBVIOUS
  <2>1. e \in g /\ e[1] \in Seen(s) /\ e[2] \notin s.left[e[1]]
    BY DEF Looked
  <2>2. e[1] \in Txs \ {w}
    <3>1. e[1] \in Txs /\ w \notin Seen(s)
      BY <2>1 DEF OnNodes
    <3> QED  BY <2>1, <3>1
  <2>3. t.left[e[1]] \subseteq s.left[e[1]]
    BY <1>2, <2>2
  <2> QED  BY <1>5, <2>1, <2>3 DEF Looked
<1>12. SearchSound(nodes, g, t)
  BY <1>2, <1>7, <1>8, <1>9, <1>10 DEF SearchSound
<1>13. Advances(g, s, t)
  <2>1. Seen(s) # Seen(t) /\ Seen(s) \subseteq Seen(t)
    BY <1>5
  <2> QED  BY <1>5, <1>11, <2>1 DEF Advances, NothingUndone
<1> QED  BY <1>12, <1>13 DEF t

(* Only what a step does to the lowlinks and the neighbours left. *)
Beside(s, t) ==
    /\ t \in Searches /\ t.index = s.index /\ t.indices = s.indices
    /\ t.stack = s.stack /\ t.out = s.out /\ t.calls = s.calls

Looking(s, v, w, t) ==
    Beside(s, t) /\ Looks(Ids(s.stack), s.indices, s.lowlink, s.left, v, w, t.lowlink, t.left)

(* Looking at an edge to a vertex visited earlier keeps it, too. *)
LEMMA LookSound ==
    ASSUME NEW nodes, NEW g, OnNodes(nodes, g), NEW s, SearchSound(nodes, g, s),
           NEW v, Innermost(Ids(s.calls), s.indices, v), NEW w \in s.left[v], w \in Seen(s),
           NEW t, Looking(s, v, w, t)
    PROVE  SearchSound(nodes, g, t) /\ Advances(g, s, t)
<1> DEFINE K == Ids(s.stack)
           G == Ids(s.calls)
           O == Emitted(s)
<1>1. /\ s \in Searches /\ Tracked(s) /\ Listed(nodes, g, s)
      /\ \A x, y \in Txs : y \in s.left[x] => <<x, y>> \in g
      /\ Explored(nodes, g, K, G, O, s.indices, s.lowlink, s.left)
  BY DEF SearchSound
<1>2. /\ t \in Searches /\ t.index = s.index /\ t.indices = s.indices
      /\ t.stack = s.stack /\ t.out = s.out /\ t.calls = s.calls
      /\ Looks(K, s.indices, s.lowlink, s.left, v, w, t.lowlink, t.left)
  BY DEF Looking, Beside
<1>3. Ids(t.stack) = K /\ Ids(t.calls) = G /\ Emitted(t) = O /\ Seen(t) = Seen(s) /\ Ended(t) = Ended(s)
  BY <1>2 DEF Emitted, Seen, Ended
<1>4. /\ v \in Txs /\ v \in Seen(s) /\ v \in nodes /\ w \in Txs /\ <<v, w>> \in g /\ w \in K \cup O
      /\ s.left \in [Txs -> SUBSET Txs]
  <2>1. v \in G /\ G \subseteq K /\ K \subseteq nodes /\ nodes \subseteq Txs
    BY <1>1 DEF Innermost, Explored, Placed, OnNodes
  <2>2. s.left \in [Txs -> SUBSET Txs]
    BY <1>1 DEF Searches
  <2>3. w \in Txs
    BY <2>1, <2>2
  <2> QED  BY <1>1, <2>1, <2>2, <2>3 DEF Seen
<1>5. /\ \A x \in Txs \ {v} : t.left[x] = s.left[x]
      /\ t.left[v] = s.left[v] \ {w}
  BY <1>2 DEF Looks
<1> HIDE DEF K, G, O
<1>6. Explored(nodes, g, K, G, O, s.indices, t.lowlink, t.left)
  <2>1. Innermost(G, s.indices, v)
    BY DEF G
  <2> QED  BY <1>1, <1>2, <1>4, <2>1, LookExplores
<1>7. Explored(nodes, g, Ids(t.stack), Ids(t.calls), Emitted(t), t.indices, t.lowlink, t.left)
  BY <1>2, <1>3, <1>6
<1>8. Tracked(t) /\ Listed(nodes, g, t)
  BY <1>1, <1>2, <1>3 DEF Tracked, Listed
<1>9. \A x, y \in Txs : y \in t.left[x] => <<x, y>> \in g
  BY <1>1, <1>5
<1>10. Looked(g, s) \subseteq Looked(g, t) /\ Looked(g, s) # Looked(g, t)
  <2>1. ASSUME NEW e \in Looked(g, s)  PROVE e \in Looked(g, t)
    <3>1. e \in g /\ e[1] \in Seen(s) /\ e[2] \notin s.left[e[1]] /\ e[1] \in Txs
      BY DEF Looked, OnNodes
    <3>2. t.left[e[1]] \subseteq s.left[e[1]]
      BY <1>5, <3>1
    <3> QED  BY <1>3, <3>1, <3>2 DEF Looked
  <2>2. <<v, w>> \in Looked(g, t)
    <3>1. <<v, w>>[1] = v /\ <<v, w>>[2] = w
      OBVIOUS
    <3>2. w \notin t.left[v]
      BY <1>5
    <3> QED  BY <1>3, <1>4, <3>1, <3>2 DEF Looked
  <2>3. <<v, w>> \notin Looked(g, s)
    <3>1. <<v, w>>[1] = v /\ <<v, w>>[2] = w
      OBVIOUS
    <3> QED  BY <3>1 DEF Looked
  <2> QED  BY <2>1, <2>2, <2>3
<1>11. SearchSound(nodes, g, t)
  BY <1>2, <1>7, <1>8, <1>9 DEF SearchSound
<1>12. Advances(g, s, t)
  BY <1>3, <1>10 DEF Advances, NothingUndone
<1> QED  BY <1>11, <1>12

(* Lower changes one lowlink, to the lower of two. *)
LEMMA LowerFields ==
    ASSUME NEW s \in Searches, NEW v \in Txs, NEW value \in Nat
    PROVE  /\ Beside(s, Lower(s, v, value)) /\ Lower(s, v, value).left = s.left
           /\ \A x \in Txs \ {v} : Lower(s, v, value).lowlink[x] = s.lowlink[x]
           /\ Lower(s, v, value).lowlink[v] = IF value < s.lowlink[v] THEN value ELSE s.lowlink[v]
<1> DEFINE t == Lower(s, v, value)
           new == IF value < s.lowlink[v] THEN value ELSE s.lowlink[v]
<1>1. s.lowlink \in [Txs -> Nat] /\ new \in Nat
  BY DEF Searches
<1>2. t \in Searches
  BY <1>1 DEF Lower, Searches
<1>3. /\ t.index = s.index /\ t.indices = s.indices /\ t.stack = s.stack /\ t.out = s.out
      /\ t.calls = s.calls /\ t.left = s.left /\ t.lowlink = [s.lowlink EXCEPT ![v] = new]
  BY DEF Lower, Searches
<1> HIDE DEF t, new
<1>4. t.lowlink[v] = new /\ \A x \in Txs \ {v} : t.lowlink[x] = s.lowlink[x]
  BY <1>1, <1>3
<1>5. Beside(s, t)
  BY <1>2, <1>3 DEF Beside
<1> QED  BY <1>3, <1>4, <1>5 DEF t, new

(* The three things connect does with the next neighbour. *)
LEMMA VisitSound ==
    ASSUME NEW nodes, NEW g, OnNodes(nodes, g), NEW s, SearchSound(nodes, g, s),
           NEW v, Innermost(Ids(s.calls), s.indices, v), s.left[v] # {}
    PROVE  SearchSound(nodes, g, Visit(g, s, v)) /\ Advances(g, s, Visit(g, s, v))
<1> DEFINE K == Ids(s.stack)
           G == Ids(s.calls)
           w == Least(s.left[v])
           after == [s EXCEPT !.left[v] = @ \ {w}]
           lower == Lower(after, v, s.indices[w])
<1>1. /\ s \in Searches /\ Tracked(s)
      /\ \A x, y \in Txs : y \in s.left[x] => <<x, y>> \in g
      /\ Explored(nodes, g, K, G, Emitted(s), s.indices, s.lowlink, s.left)
  BY DEF SearchSound
<1>2. /\ s.index \in Nat /\ s.indices \in [Txs -> Nat] /\ s.lowlink \in [Txs -> Nat]
      /\ s.left \in [Txs -> SUBSET Txs]
  BY <1>1 DEF Searches
<1>3. G \subseteq K /\ K \subseteq nodes /\ nodes \subseteq Txs /\ v \in G /\ v \in Txs
  BY <1>1 DEF Innermost, Explored, Placed, OnNodes
<1>4. w \in s.left[v] /\ w \in Txs
  BY <1>2, <1>3, LeastVertex
<1>5. <<v, w>> \in g /\ w \in nodes
  <2>1. <<v, w>> \in g
    BY <1>1, <1>3, <1>4
  <2> QED  BY <2>1 DEF OnNodes
<1> HIDE DEF w
<1>6. after \in Searches
  BY <1>1, <1>2 DEF Searches
<1>7. /\ after.index = s.index /\ after.indices = s.indices /\ after.lowlink = s.lowlink
      /\ after.stack = s.stack /\ after.out = s.out /\ after.calls = s.calls
      /\ after.left = [s.left EXCEPT ![v] = @ \ {w}]
  BY <1>1 DEF Searches
<1> HIDE DEF after
<1>8. after.left[v] = s.left[v] \ {w} /\ \A x \in Txs \ {v} : after.left[x] = s.left[x]
  BY <1>2, <1>3, <1>7
<1>9. \A x \in Txs : s.indices[x] = Unvisited <=> x \notin Seen(s)
  BY <1>1 DEF Tracked
<1>10. CASE s.indices[w] = Unvisited
  <2>1. \A u \in G : <<u, w>> \in Reachability(g)
    <3> TAKE u \in G
    <3>1. <<u, v>> \in Reachability(g)
      BY <1>1, <1>3 DEF Innermost, Explored, Joined
    <3>2. <<v, w>> \in Reachability(g) /\ u \in nodes /\ v \in nodes
      BY <1>3, <1>5, ReachClosed
    <3> QED  BY <1>5, <3>1, <3>2, ReachClosed
  <2>2. \A x \in Txs : after.left[x] = s.left[x] \/ (x \in Ids(s.calls) /\ after.left[x] = s.left[x] \ {w})
    BY <1>3, <1>8
  <2>3. Reaching(g, s, after, w)
    BY <1>6, <1>7, <2>1, <2>2 DEF Reaching
  <2>4. w \notin Seen(s)
    BY <1>4, <1>9, <1>10
  <2>5. Visit(g, s, v) = Connect(g, after, w)
    BY <1>10 DEF Visit, after, w
  <2> QED  BY <1>5, <2>3, <2>4, <2>5, ConnectSound
<1>11. CASE s.indices[w] # Unvisited /\ OnStack(s, w)
  <2>1. w \in Seen(s) /\ w \in K
    BY <1>4, <1>9, <1>11 DEF OnStack
  <2>2. s.indices[w] \in Nat /\ s.lowlink[v] \in Nat
    BY <1>2, <1>3, <1>4
  <2>3. /\ Beside(after, lower) /\ lower.left = after.left
        /\ \A x \in Txs \ {v} : lower.lowlink[x] = after.lowlink[x]
        /\ lower.lowlink[v] = IF s.indices[w] < after.lowlink[v] THEN s.indices[w] ELSE after.lowlink[v]
    BY <1>3, <1>6, <2>2, LowerFields
  <2> HIDE DEF lower
  <2>4. Beside(s, lower) /\ lower.lowlink \in [Txs -> Nat]
    BY <1>7, <2>3 DEF Beside, Searches
  <2>5. /\ \A x \in Txs \ {v} : lower.lowlink[x] = s.lowlink[x] /\ lower.left[x] = s.left[x]
        /\ lower.left[v] = s.left[v] \ {w}
    BY <1>7, <1>8, <2>3
  <2>6. /\ lower.lowlink[v] <= s.lowlink[v] /\ lower.lowlink[v] <= s.indices[w]
        /\ lower.lowlink[v] = s.lowlink[v] \/ lower.lowlink[v] = s.indices[w]
    BY <1>7, <2>2, <2>3
  <2>7. Looking(s, v, w, lower)
    BY <2>1, <2>4, <2>5, <2>6 DEF Looking, Looks, K
  <2>8. Visit(g, s, v) = lower
    BY <1>11 DEF Visit, lower, after, w
  <2> QED  BY <1>4, <2>1, <2>7, <2>8, LookSound
<1>12. CASE s.indices[w] # Unvisited /\ ~OnStack(s, w)
  <2>1. w \in Seen(s) /\ w \notin K
    BY <1>4, <1>9, <1>12 DEF OnStack
  <2>2. Beside(s, after)
    BY <1>6, <1>7 DEF Beside
  <2>3. s.lowlink[v] <= s.lowlink[v]
    BY <1>2, <1>3
  <2>4. Looks(K, s.indices, s.lowlink, s.left, v, w, s.lowlink, after.left)
    BY <1>2, <1>8, <2>1, <2>3 DEF Looks
  <2>5. Looking(s, v, w, after)
    BY <1>7, <2>2, <2>4 DEF Looking
  <2>6. Visit(g, s, v) = after
    BY <1>12 DEF Visit, after, w
  <2> QED  BY <1>4, <2>1, <2>5, <2>6, LookSound
<1> QED  BY <1>10, <1>11, <1>12

(* One more list in the output. *)
Emits(s, t, list) == s.out \in Seq(Seq(Txs)) /\ list \in Seq(Txs) /\ t.out = Append(s.out, list)

(* It adds its vertices to the output and leaves the lists before it. *)
LEMMA EmitOne ==
    ASSUME NEW s, NEW t, NEW list, Emits(s, t, list)
    PROVE  /\ t.out \in Seq(Seq(Txs)) /\ Emitted(t) = Emitted(s) \cup Ids(list)
           /\ \A i \in DOMAIN t.out : t.out[i] = list \/ (i \in DOMAIN s.out /\ t.out[i] = s.out[i])
           /\ \A i, j \in DOMAIN t.out : i \notin DOMAIN s.out /\ j \notin DOMAIN s.out => i = j
           /\ \A i \in DOMAIN t.out : i \notin DOMAIN s.out => t.out[i] = list
           /\ \A i \in DOMAIN s.out : t.out[i] = s.out[i]
<1> DEFINE n == Len(s.out)
<1>1. /\ t.out \in Seq(Seq(Txs)) /\ DOMAIN s.out = 1 .. n /\ DOMAIN t.out = 1 .. n + 1 /\ n \in Nat
      /\ t.out[n + 1] = list /\ \A i \in 1 .. n : t.out[i] = s.out[i]
  <2>1. \A out \in Seq(Seq(Txs)) : /\ Append(out, list) \in Seq(Seq(Txs)) /\ DOMAIN out = 1 .. Len(out)
                                   /\ DOMAIN Append(out, list) = 1 .. Len(out) + 1 /\ Len(out) \in Nat
                                   /\ Append(out, list)[Len(out) + 1] = list
                                   /\ \A i \in 1 .. Len(out) : Append(out, list)[i] = out[i]
    BY AppendIds DEF Emits
  <2> QED  BY <2>1 DEF Emits
<1> HIDE DEF n
<1>2. \A i \in 1 .. n + 1 : i \in 1 .. n \/ i = n + 1
  BY <1>1
<1>3. n + 1 \in 1 .. n + 1 /\ n + 1 \notin 1 .. n /\ 1 .. n \subseteq 1 .. n + 1
  BY <1>1
<1>4. ASSUME NEW x \in Emitted(t)  PROVE x \in Emitted(s) \cup Ids(list)
  <2>1. PICK i \in DOMAIN t.out : x \in Ids(t.out[i])
    BY <1>4 DEF Emitted
  <2>2. CASE i \in 1 .. n
    BY <1>1, <2>1, <2>2 DEF Emitted
  <2>3. CASE i = n + 1
    BY <1>1, <2>1, <2>3
  <2> QED  BY <1>1, <1>2, <2>1, <2>2, <2>3
<1>5. ASSUME NEW x \in Emitted(s)  PROVE x \in Emitted(t)
  <2>1. PICK i \in DOMAIN s.out : x \in Ids(s.out[i])
    BY <1>5 DEF Emitted
  <2>2. i \in DOMAIN t.out /\ x \in Ids(t.out[i])
    BY <1>1, <1>3, <2>1
  <2> QED  BY <2>2 DEF Emitted
<1>6. ASSUME NEW x \in Ids(list)  PROVE x \in Emitted(t)
  <2>1. n + 1 \in DOMAIN t.out /\ x \in Ids(t.out[n + 1])
    BY <1>1, <1>3
  <2> QED  BY <2>1 DEF Emitted
<1>7. Emitted(t) = Emitted(s) \cup Ids(list)
  BY <1>4, <1>5, <1>6
<1> QED  BY <1>1, <1>2, <1>3, <1>7

(* The fields after a component has been popped. *)
LEMMA PopFields ==
    ASSUME NEW s \in Searches, ByPlace(s.indices, s.stack), NEW v \in Ids(s.stack)
    PROVE  LET p == Pop(s, v)
               D == From(Ids(s.stack), s.indices, v)
           IN  /\ p \in Searches /\ p.index = s.index /\ p.indices = s.indices
               /\ p.lowlink = s.lowlink /\ p.left = s.left /\ p.calls = s.calls
               /\ p.out = Append(s.out, Sorted(D)) /\ Sorted(D) \in Seq(Txs) /\ Ids(Sorted(D)) = D
               /\ ByPlace(s.indices, p.stack) /\ Ids(p.stack) = Ids(s.stack) \ D
<1> DEFINE p == Pop(s, v)
           D == From(Ids(s.stack), s.indices, v)
           from == CHOOSE i \in DOMAIN s.stack : s.stack[i] = v
           rest == SubSeq(s.stack, 1, from - 1)
           list == Sorted(D)
<1>1. s.indices \in [Txs -> Nat] /\ s.stack \in Seq(Txs) /\ s.out \in Seq(Seq(Txs))
  BY DEF Searches
<1>2. from \in DOMAIN s.stack /\ s.stack[from] = v
  <2>1. \E i \in DOMAIN s.stack : s.stack[i] = v
    BY DEF Ids
  <2> QED  BY <2>1
<1> HIDE DEF from
<1>3. /\ rest \in Seq(Txs) /\ ByPlace(s.indices, rest) /\ Ids(rest) = Ids(s.stack) \ D
      /\ {s.stack[i] : i \in from .. Len(s.stack)} = D
  <2> DEFINE above == From(Ids(s.stack), s.indices, s.stack[from])
  <2>1. rest \in Seq(Txs) /\ ByPlace(s.indices, rest)
    BY <1>1, <1>2, PrefixByPlace, Zenon
  <2>2. {s.stack[i] : i \in from .. Len(s.stack)} = above
    BY <1>1, <1>2, AboveByPlace, Zenon
  <2>3. Ids(rest) = Ids(s.stack) \ above
    BY <1>1, <1>2, PrefixByPlace, ZenonT(60)
  <2> QED  BY <1>2, <2>1, <2>2, <2>3
<1>4. list \in Seq(Txs) /\ Ids(list) = D
  <2>1. D \subseteq Txs
    <3>1. \A x \in Ids(s.stack) : x \in Txs
      BY <1>1, SeqElements DEF Ids
    <3> QED  BY <3>1 DEF From
  <2>2. D \in SUBSET Nat /\ IsFiniteSet(D)
    BY <2>1, TxAssumption, FS_Subset
  <2> HIDE DEF D
  <2>3. Sorted(D) \in Seq(D) /\ Ids(Sorted(D)) = D
    BY <2>2, SortedProperties
  <2>4. Sorted(D) \in Seq(Txs)
    BY <2>1, <2>3, SeqWider
  <2> QED  BY <2>3, <2>4
<1>5. p = [s EXCEPT !.stack = rest, !.out = Append(@, list)]
  <2>1. p = [s EXCEPT !.stack = SubSeq(@, 1, from - 1),
                      !.out = Append(@, Sorted({s.stack[i] : i \in from .. Len(s.stack)}))]
    BY DEF Pop, from
  <2> QED  BY <1>3, <2>1
<1> HIDE DEF p, D, rest, list
<1>6. Append(s.out, list) \in Seq(Seq(Txs))
  BY <1>1, <1>4, AppendIds
<1>7. p \in Searches
  BY <1>3, <1>5, <1>6 DEF Searches
<1>8. /\ p.index = s.index /\ p.indices = s.indices /\ p.lowlink = s.lowlink /\ p.left = s.left
      /\ p.calls = s.calls /\ p.out = Append(s.out, list) /\ p.stack = rest
  BY <1>5 DEF Searches
<1>9. ByPlace(s.indices, p.stack) /\ Ids(p.stack) = Ids(s.stack) \ D
  BY <1>3, <1>8
<1> QED  BY <1>4, <1>7, <1>8, <1>9 DEF p, D, list

(* The innermost call v ends: it leaves the calls, and the vertices seen and *)
(* the neighbours left are those of before.                                  *)
Leaves(s, v, t) ==
    /\ s.calls # <<>> /\ v = s.calls[Len(s.calls)]
    /\ t \in Searches /\ t.index = s.index /\ t.indices = s.indices /\ t.left = s.left
    /\ t.calls = SubSeq(s.calls, 1, Len(s.calls) - 1) /\ ByPlace(s.indices, t.stack)

Ends(s, v, t) == Leaves(s, v, t) /\ Ids(t.stack) \subseteq Ids(s.stack) /\ Seen(t) = Seen(s)

(* Then nothing is undone, and the call itself counts as ended. *)
LEMMA EndKeeps ==
    ASSUME NEW nodes, NEW g, OnNodes(nodes, g), NEW s, SearchSound(nodes, g, s),
           NEW v, NEW t, Ends(s, v, t)
    PROVE  /\ Tracked(t) /\ Advances(g, s, t) /\ Ids(t.calls) = Ids(s.calls) \ {v}
           /\ \A x, y \in Txs : y \in t.left[x] => <<x, y>> \in g
<1> DEFINE G == Ids(s.calls)
<1>1. /\ s \in Searches /\ Tracked(s)
      /\ \A x, y \in Txs : y \in s.left[x] => <<x, y>> \in g
      /\ G \subseteq Seen(s)
  BY DEF SearchSound, Explored, Placed, Seen
<1>2. /\ s.indices \in [Txs -> Nat] /\ s.calls \in Seq(Txs) /\ ByPlace(s.indices, s.calls)
  BY <1>1 DEF Searches, Tracked
<1>3. /\ Ids(t.calls) = G \ {v} /\ ByPlace(s.indices, t.calls) /\ v \in G
  <2> DEFINE callers == SubSeq(s.calls, 1, Len(s.calls) - 1)
  <2>1. Innermost(G, s.indices, v) /\ ByPlace(s.indices, callers) /\ Ids(callers) = G \ {v}
    BY <1>2, CallsByPlace DEF Ends, Leaves
  <2> QED  BY <2>1 DEF Ends, Leaves, Innermost
<1>4. Tracked(t)
  BY <1>1, <1>3 DEF Tracked, Ends, Leaves
<1> HIDE DEF G
<1>5. Ended(t) = Ended(s) \cup {v} /\ v \notin Ended(s)
  BY <1>1, <1>3 DEF Ended, Ends, Leaves, G
<1>6. Looked(g, t) = Looked(g, s)
  BY DEF Looked, Ends, Leaves
<1>7. Seen(t) = Seen(s)
  BY DEF Ends, Leaves
<1>8. Advances(g, s, t)
  BY <1>5, <1>6, <1>7 DEF Advances, NothingUndone
<1>9. \A x, y \in Txs : y \in t.left[x] => <<x, y>> \in g
  BY <1>1 DEF Ends, Leaves
<1> QED  BY <1>3, <1>4, <1>8, <1>9 DEF G

(* A call that pops outputs a component that was not in the output. *)
Pops(nodes, g, s, v, t) ==
    LET D == From(Ids(s.stack), s.indices, v)
    IN  /\ t.lowlink = s.lowlink /\ Ids(t.stack) = Ids(s.stack) \ D
        /\ t.out = Append(s.out, Sorted(D)) /\ Sorted(D) \in Seq(Txs) /\ Ids(Sorted(D)) = D

(* The stack without it is explored, and the output still lists components.  *)
LEMMA PopListed ==
    ASSUME NEW nodes, NEW g, OnNodes(nodes, g), NEW s, SearchSound(nodes, g, s),
           NEW v, Innermost(Ids(s.calls), s.indices, v), s.left[v] = {}, s.lowlink[v] = s.indices[v],
           NEW t, Pops(nodes, g, s, v, t)
    PROVE  /\ Listed(nodes, g, t) /\ Seen(t) = Seen(s)
           /\ Explored(nodes, g, Ids(t.stack), Ids(s.calls) \ {v}, Emitted(t),
                       s.indices, t.lowlink, s.left)
<1> DEFINE K == Ids(s.stack)
           G == Ids(s.calls)
           O == Emitted(s)
           D == From(K, s.indices, v)
           list == Sorted(D)
<1>1. /\ s \in Searches /\ Tracked(s) /\ Listed(nodes, g, s)
      /\ Explored(nodes, g, K, G, O, s.indices, s.lowlink, s.left)
  BY DEF SearchSound
<1>2. /\ t.lowlink = s.lowlink /\ Ids(t.stack) = K \ D
      /\ t.out = Append(s.out, list) /\ list \in Seq(Txs) /\ Ids(list) = D
  BY DEF Pops
<1>3. /\ D \in Components(nodes, g) /\ Explored(nodes, g, K \ D, G \ {v}, O \cup D, s.indices, s.lowlink, s.left)
  <2> HIDE DEF K, G, O, D
  <2>1. Innermost(G, s.indices, v)
    BY DEF G
  <2> QED  BY <1>1, <2>1, PopExplores DEF D
<1>4. D \subseteq K /\ v \in D /\ K \cap O = {}
  <2>1. v \in G /\ G \subseteq K /\ K \subseteq Txs /\ K \cap O = {}
    BY <1>1 DEF Innermost, Explored, Placed, OnNodes
  <2>2. s.indices[v] <= s.indices[v]
    BY <1>1, <2>1 DEF Searches
  <2> QED  BY <2>1, <2>2 DEF From
<1> HIDE DEF K, G, O, D, list
<1>5. s.out \in Seq(Seq(Txs))
  BY <1>1 DEF Searches
<1>6. /\ t.out \in Seq(Seq(Txs)) /\ Emitted(t) = Emitted(s) \cup Ids(list)
      /\ \A i, j \in DOMAIN t.out : i \notin DOMAIN s.out /\ j \notin DOMAIN s.out => i = j
      /\ \A i \in DOMAIN t.out : i \notin DOMAIN s.out => t.out[i] = list
      /\ \A i \in DOMAIN s.out : t.out[i] = s.out[i]
  <2>1. Emits(s, t, list)
    BY <1>2, <1>5 DEF Emits
  <2> QED  BY <2>1, EmitOne
<1>7. Emitted(t) = O \cup D /\ Seen(t) = Seen(s)
  <2>1. Emitted(t) = O \cup D
    BY <1>2, <1>6 DEF O
  <2> QED  BY <1>2, <1>4, <2>1 DEF Seen, O, K
<1>8. \A i \in DOMAIN s.out : Ids(s.out[i]) # D
  <2> TAKE i \in DOMAIN s.out
  <2>1. Ids(s.out[i]) \subseteq O
    BY DEF O, Emitted
  <2> QED  BY <1>4, <2>1
<1>9. ASSUME NEW i \in DOMAIN t.out  PROVE \E c \in Components(nodes, g) : t.out[i] = Sorted(c)
  <2>1. CASE i \in DOMAIN s.out
    BY <1>1, <1>6, <2>1 DEF Listed
  <2>2. CASE i \notin DOMAIN s.out
    BY <1>3, <1>6, <2>2 DEF list
  <2> QED  BY <2>1, <2>2
<1>10. ASSUME NEW i \in DOMAIN t.out, NEW j \in DOMAIN t.out, Ids(t.out[i]) = Ids(t.out[j])
       PROVE  i = j
  <2>1. CASE i \in DOMAIN s.out /\ j \in DOMAIN s.out
    <3>1. Ids(s.out[i]) = Ids(s.out[j])
      BY <1>6, <1>10, <2>1
    <3> QED  BY <1>1, <2>1, <3>1 DEF Listed
  <2>2. CASE i \in DOMAIN s.out /\ j \notin DOMAIN s.out
    BY <1>2, <1>6, <1>8, <1>10, <2>2
  <2>3. CASE i \notin DOMAIN s.out /\ j \in DOMAIN s.out
    BY <1>2, <1>6, <1>8, <1>10, <2>3
  <2>4. CASE i \notin DOMAIN s.out /\ j \notin DOMAIN s.out
    BY <1>6, <2>4
  <2> QED  BY <2>1, <2>2, <2>3, <2>4
<1>11. Listed(nodes, g, t)
  BY <1>9, <1>10 DEF Listed
<1>12. Explored(nodes, g, Ids(t.stack), Ids(s.calls) \ {v}, Emitted(t), s.indices, t.lowlink, s.left)
  BY <1>2, <1>3, <1>7 DEF G
<1> QED  BY <1>7, <1>11, <1>12

(* The innermost call v ends and hands its link to its caller u. *)
Hands(s, v, u, t) ==
    Leaves(s, v, t) /\ t.stack = s.stack /\ t.out = s.out /\ HandsOn(s.lowlink, v, u, t.lowlink)

(* A call that keeps its vertex keeps what the search maintains. *)
LEMMA KeepSound ==
    ASSUME NEW nodes, NEW g, OnNodes(nodes, g), NEW s, SearchSound(nodes, g, s),
           NEW v, Innermost(Ids(s.calls), s.indices, v), s.left[v] = {}, s.lowlink[v] # s.indices[v],
           NEW u, Innermost(Ids(s.calls) \ {v}, s.indices, u),
           NEW t, Hands(s, v, u, t)
    PROVE  SearchSound(nodes, g, t) /\ Advances(g, s, t)
<1> DEFINE K == Ids(s.stack)
           G == Ids(s.calls)
           O == Emitted(s)
<1>1. Listed(nodes, g, s) /\ Explored(nodes, g, K, G, O, s.indices, s.lowlink, s.left)
  BY DEF SearchSound
<1>2. Ids(t.stack) = K /\ Emitted(t) = O /\ Listed(nodes, g, t)
  BY <1>1 DEF Emitted, Listed, Hands
<1>3. Ends(s, v, t)
  <2>1. Seen(t) = Seen(s)
    BY <1>2 DEF Seen
  <2> QED  BY <1>2, <2>1 DEF Ends, Hands
<1>4. /\ Tracked(t) /\ Advances(g, s, t) /\ Ids(t.calls) = G \ {v}
      /\ \A x, y \in Txs : y \in t.left[x] => <<x, y>> \in g
  BY <1>3, EndKeeps
<1>5. t \in Searches /\ t.indices = s.indices /\ t.left = s.left
  BY DEF Hands, Leaves
<1>6. Explored(nodes, g, K, G \ {v}, O, s.indices, t.lowlink, s.left)
  <2>1. Innermost(G, s.indices, v) /\ Innermost(G \ {v}, s.indices, u)
    OBVIOUS
  <2>2. HandsOn(s.lowlink, v, u, t.lowlink)
    BY DEF Hands
  <2> HIDE DEF K, G, O
  <2> QED  BY <1>1, <2>1, <2>2, ReturnExplores
<1> HIDE DEF K, G, O
<1>7. Explored(nodes, g, Ids(t.stack), Ids(t.calls), Emitted(t), t.indices, t.lowlink, t.left)
  BY <1>4, <1>2, <1>5, <1>6
<1> QED  BY <1>4, <1>2, <1>5, <1>7 DEF SearchSound

(* So does one that pops. *)
LEMMA PopSound ==
    ASSUME NEW nodes, NEW g, OnNodes(nodes, g), NEW s, SearchSound(nodes, g, s),
           NEW v, Innermost(Ids(s.calls), s.indices, v), s.left[v] = {}, s.lowlink[v] = s.indices[v],
           NEW t, Pops(nodes, g, s, v, t), Leaves(s, v, t)
    PROVE  SearchSound(nodes, g, t) /\ Advances(g, s, t)
<1>1. /\ Listed(nodes, g, t) /\ Seen(t) = Seen(s)
      /\ Explored(nodes, g, Ids(t.stack), Ids(s.calls) \ {v}, Emitted(t), s.indices, t.lowlink, s.left)
  BY PopListed
<1>2. Ids(t.stack) \subseteq Ids(s.stack)
  BY DEF Pops
<1>3. Ends(s, v, t)
  BY <1>1, <1>2 DEF Ends
<1>4. /\ Tracked(t) /\ Advances(g, s, t) /\ Ids(t.calls) = Ids(s.calls) \ {v}
      /\ \A x, y \in Txs : y \in t.left[x] => <<x, y>> \in g
  BY <1>3, EndKeeps
<1>5. t \in Searches /\ t.indices = s.indices /\ t.left = s.left
  BY DEF Leaves
<1>6. Explored(nodes, g, Ids(t.stack), Ids(t.calls), Emitted(t), t.indices, t.lowlink, t.left)
  BY <1>1, <1>4, <1>5
<1> QED  BY <1>1, <1>4, <1>6, <1>5 DEF SearchSound

(* And there is no third way for a call to end. *)
LEMMA ReturnSound ==
    ASSUME NEW nodes, NEW g, OnNodes(nodes, g), NEW s, SearchSound(nodes, g, s),
           s.calls # <<>>, s.left[s.calls[Len(s.calls)]] = {}
    PROVE  LET t == Return(s, s.calls[Len(s.calls)])
           IN  SearchSound(nodes, g, t) /\ Advances(g, s, t)
<1> DEFINE v == s.calls[Len(s.calls)]
           callers == SubSeq(s.calls, 1, Len(s.calls) - 1)
           u == callers[Len(callers)]
           popped == IF s.lowlink[v] = s.indices[v] THEN Pop(s, v) ELSE s
           returned == [popped EXCEPT !.calls = callers]
           lower == Lower(returned, u, s.lowlink[v])
           t == Return(s, v)
           K == Ids(s.stack)
           G == Ids(s.calls)
<1>1. /\ s \in Searches /\ Tracked(s)
      /\ Explored(nodes, g, K, G, Emitted(s), s.indices, s.lowlink, s.left)
  BY DEF SearchSound
<1>2. /\ s.indices \in [Txs -> Nat] /\ s.lowlink \in [Txs -> Nat] /\ s.calls \in Seq(Txs)
      /\ ByPlace(s.indices, s.calls) /\ ByPlace(s.indices, s.stack)
  BY <1>1 DEF Searches, Tracked
<1>3. /\ Innermost(G, s.indices, v) /\ v \in Txs
      /\ callers \in Seq(Txs) /\ Ids(callers) = G \ {v}
      /\ callers # <<>> => Innermost(G \ {v}, s.indices, u)
      /\ callers = <<>> => G \ {v} = {}
  <2> HIDE DEF K
  <2>1. LET w == s.calls[Len(s.calls)]
            rest == SubSeq(s.calls, 1, Len(s.calls) - 1)
        IN  /\ Innermost(Ids(s.calls), s.indices, w) /\ w \in Txs
            /\ rest \in Seq(Txs) /\ ByPlace(s.indices, rest) /\ Ids(rest) = Ids(s.calls) \ {w}
            /\ rest # <<>> => Innermost(Ids(rest), s.indices, rest[Len(rest)])
            /\ rest = <<>> => Ids(rest) = {}
    BY <1>2, CallsByPlace
  <2> QED  BY <2>1
<1>4. t = IF callers = <<>> THEN returned ELSE lower
  BY DEF Return
<1>5. v \in K /\ G \ {v} \subseteq Txs /\ G \subseteq K
  BY <1>1, <1>3 DEF Innermost, Explored, Placed, OnNodes
<1> HIDE DEF v, callers, u, popped, returned, lower, t, K, G
<1>6. callers # <<>> => u \in Txs
  BY <1>3, <1>5 DEF Innermost
<1>7. s.lowlink[v] \in Nat
  BY <1>2, <1>3
<1>8. popped \in Searches =>
        /\ returned \in Searches /\ returned.calls = callers
        /\ returned.index = popped.index /\ returned.indices = popped.indices
        /\ returned.lowlink = popped.lowlink /\ returned.stack = popped.stack
        /\ returned.out = popped.out /\ returned.left = popped.left
  <2> SUFFICES ASSUME popped \in Searches
               PROVE  /\ returned \in Searches /\ returned.calls = callers
                      /\ returned.index = popped.index /\ returned.indices = popped.indices
                      /\ returned.lowlink = popped.lowlink /\ returned.stack = popped.stack
                      /\ returned.out = popped.out /\ returned.left = popped.left
    OBVIOUS
  <2>1. returned \in Searches
    BY <1>3 DEF returned, Searches
  <2> QED  BY <2>1 DEF returned, Searches
<1>9. returned \in Searches /\ callers # <<>> =>
        /\ Beside(returned, lower) /\ lower.left = returned.left
        /\ \A x \in Txs \ {u} : lower.lowlink[x] = returned.lowlink[x]
        /\ lower.lowlink[u] = IF s.lowlink[v] < returned.lowlink[u] THEN s.lowlink[v] ELSE returned.lowlink[u]
  BY <1>6, <1>7, LowerFields DEF lower
<1>10. CASE s.lowlink[v] # s.indices[v]
  <2>1. popped = s
    BY <1>10 DEF popped
  <2>2. callers # <<>>
    <3>1. Innermost(G, s.indices, v)
      BY <1>3
    <3>2. Explored(nodes, g, K, G, Emitted(s), s.indices, s.lowlink, s.left) /\ v \in K
      BY <1>1, <1>5
    <3>3. G \ {v} # {}
      BY <1>10, <3>1, <3>2, LowIsInner
    <3> QED  BY <1>3, <3>3
  <2>3. /\ returned \in Searches /\ returned.calls = callers
        /\ returned.index = s.index /\ returned.indices = s.indices
        /\ returned.lowlink = s.lowlink /\ returned.stack = s.stack
        /\ returned.out = s.out /\ returned.left = s.left
    BY <1>1, <1>8, <2>1
  <2>4. /\ t \in Searches /\ t.calls = callers /\ t.index = s.index /\ t.indices = s.indices
        /\ t.stack = s.stack /\ t.out = s.out /\ t.left = s.left
        /\ \A x \in Txs \ {u} : t.lowlink[x] = s.lowlink[x]
        /\ t.lowlink[u] = IF s.lowlink[v] < s.lowlink[u] THEN s.lowlink[v] ELSE s.lowlink[u]
    BY <1>4, <1>9, <2>2, <2>3 DEF Beside
  <2>5. HandsOn(s.lowlink, v, u, t.lowlink)
    BY <2>4 DEF HandsOn, Searches
  <2>6. Hands(s, v, u, t)
    <3>1. Leaves(s, v, t)
      BY <1>2, <2>4 DEF Leaves, v, callers
    <3> QED  BY <2>4, <2>5, <3>1 DEF Hands
  <2>7. Innermost(Ids(s.calls), s.indices, v) /\ Innermost(Ids(s.calls) \ {v}, s.indices, u)
    BY <1>3, <2>2 DEF G
  <2>8. s.left[v] = {}
    BY DEF v
  <2>9. SearchSound(nodes, g, t) /\ Advances(g, s, t)
    BY <1>10, <2>6, <2>7, <2>8, KeepSound
  <2> QED  BY <2>9 DEF t, v
<1>11. CASE s.lowlink[v] = s.indices[v]
  <2> DEFINE D == From(K, s.indices, v)
  <2>1. /\ popped \in Searches /\ popped.index = s.index /\ popped.indices = s.indices
        /\ popped.lowlink = s.lowlink /\ popped.left = s.left /\ popped.calls = s.calls
        /\ popped.out = Append(s.out, Sorted(D)) /\ Sorted(D) \in Seq(Txs) /\ Ids(Sorted(D)) = D
        /\ ByPlace(s.indices, popped.stack) /\ Ids(popped.stack) = K \ D
    <3>1. popped = Pop(s, v)
      BY <1>11 DEF popped
    <3> QED  BY <1>1, <1>2, <1>5, <3>1, PopFields DEF K
  <2> HIDE DEF D
  <2>2. /\ returned \in Searches /\ returned.calls = callers
        /\ returned.index = s.index /\ returned.indices = s.indices
        /\ returned.lowlink = s.lowlink /\ returned.left = s.left
        /\ returned.out = popped.out /\ returned.stack = popped.stack
    BY <1>8, <2>1
  <2>3. /\ t \in Searches /\ t.calls = callers /\ t.index = s.index /\ t.indices = s.indices
        /\ t.left = s.left /\ t.out = popped.out /\ t.stack = popped.stack /\ t.lowlink = s.lowlink
    <3>1. CASE callers = <<>>
      BY <1>4, <2>2, <3>1
    <3>2. CASE callers # <<>>
      <4>1. u \in G \ {v} /\ u \in Txs
        BY <1>3, <1>6, <3>2 DEF Innermost
      <4>2. ~(s.lowlink[v] < s.lowlink[u])
        <5>1. Innermost(G, s.indices, v) /\ s.left[v] = {}
          BY <1>3 DEF v
        <5>2. \A x \in G \ {v} : ~(s.lowlink[v] < s.lowlink[x])
          BY <1>1, <1>11, <5>1, PopExplores
        <5> QED  BY <4>1, <5>2
      <4>3. \A x \in Txs : lower.lowlink[x] = s.lowlink[x]
        BY <1>9, <2>2, <3>2, <4>2
      <4>4. lower.lowlink \in [Txs -> Nat]
        BY <1>9, <2>2, <3>2 DEF Beside, Searches
      <4>5. lower.lowlink = s.lowlink
        BY <1>2, <4>3, <4>4
      <4> QED  BY <1>4, <1>9, <2>2, <3>2, <4>5 DEF Beside
    <3> QED  BY <3>1, <3>2
  <2>4. Pops(nodes, g, s, v, t)
    BY <2>1, <2>3 DEF Pops, D, K
  <2>5. /\ Innermost(Ids(s.calls), s.indices, v) /\ s.left[v] = {} /\ s.calls # <<>>
    BY <1>3 DEF G, v
  <2>6. Leaves(s, v, t)
    BY <2>1, <2>3 DEF Leaves, v, callers
  <2>7. SearchSound(nodes, g, t) /\ Advances(g, s, t)
    BY <1>11, <2>4, <2>5, <2>6, PopSound
  <2> QED  BY <2>7 DEF t, v
<1> QED  BY <1>10, <1>11

(* Every call is over and every node visited. *)
Finished(nodes, s) == s.calls = <<>> /\ Seen(s) = nodes

(* A step of the search keeps what it maintains and advances, as long as     *)
(* there is something left to do.                                            *)
LEMMA TarjanStepSound ==
    ASSUME NEW nodes, NEW g, OnNodes(nodes, g), NEW s, SearchSound(nodes, g, s)
    PROVE  /\ SearchSound(nodes, g, TarjanStep(nodes, g, s))
           /\ Finished(nodes, s) => TarjanStep(nodes, g, s) = s
           /\ ~Finished(nodes, s) => Advances(g, s, TarjanStep(nodes, g, s))
<1> DEFINE v == s.calls[Len(s.calls)]
           fresh == {id \in nodes : s.indices[id] = Unvisited}
           t == TarjanStep(nodes, g, s)
<1>1. /\ s \in Searches /\ s.indices \in [Txs -> Nat] /\ s.calls \in Seq(Txs)
      /\ ByPlace(s.indices, s.calls) /\ Seen(s) \subseteq nodes /\ nodes \subseteq Txs
      /\ \A x \in Txs : s.indices[x] = Unvisited <=> x \notin Seen(s)
  BY DEF SearchSound, Searches, Tracked, Explored, Placed, Seen, OnNodes
<1>2. CASE s.calls # <<>> /\ s.left[v] # {}
  <2>1. Innermost(Ids(s.calls), s.indices, v)
    <3>1. LET w == s.calls[Len(s.calls)]
              callers == SubSeq(s.calls, 1, Len(s.calls) - 1)
          IN  /\ Innermost(Ids(s.calls), s.indices, w) /\ w \in Txs
              /\ callers \in Seq(Txs) /\ ByPlace(s.indices, callers) /\ Ids(callers) = Ids(s.calls) \ {w}
              /\ callers # <<>> => Innermost(Ids(callers), s.indices, callers[Len(callers)])
              /\ callers = <<>> => Ids(callers) = {}
      BY <1>1, <1>2, CallsByPlace
    <3> QED  BY <3>1
  <2>2. t = Visit(g, s, v)
    BY <1>2 DEF TarjanStep
  <2> HIDE DEF v, t
  <2>3. SearchSound(nodes, g, Visit(g, s, v)) /\ Advances(g, s, Visit(g, s, v))
    BY <1>2, <2>1, VisitSound
  <2> QED  BY <1>2, <2>2, <2>3 DEF t, Finished
<1>3. CASE s.calls # <<>> /\ s.left[v] = {}
  <2>1. t = Return(s, v)
    BY <1>3 DEF TarjanStep
  <2>2. SearchSound(nodes, g, Return(s, v)) /\ Advances(g, s, Return(s, v))
    BY <1>3, ReturnSound
  <2>3. ~Finished(nodes, s)
    BY <1>3 DEF Finished
  <2> HIDE DEF v, t
  <2> QED  BY <2>1, <2>2, <2>3 DEF t
<1>4. CASE s.calls = <<>> /\ fresh # {}
  <2> DEFINE w == Least(fresh)
  <2>1. w \in fresh
    <3>1. fresh \in SUBSET Txs
      BY <1>1
    <3> HIDE DEF fresh
    <3> QED  BY <1>4, <3>1, LeastVertex
  <2>2. w \in nodes /\ w \notin Seen(s)
    BY <1>1, <2>1
  <2>3. t = Connect(g, s, w)
    BY <1>4 DEF TarjanStep
  <2> HIDE DEF w
  <2>4. Ids(s.calls) = {}
    BY <1>4 DEF Ids
  <2>5. Reaching(g, s, s, w)
    BY <1>1, <2>4 DEF Reaching
  <2> HIDE DEF t
  <2>6. SearchSound(nodes, g, Connect(g, s, w)) /\ Advances(g, s, Connect(g, s, w))
    BY <2>2, <2>5, ConnectSound
  <2> QED  BY <2>2, <2>3, <2>6 DEF t, Finished
<1>5. CASE s.calls = <<>> /\ fresh = {}
  <2>1. t = s
    BY <1>5 DEF TarjanStep
  <2>2. Seen(s) = nodes
    <3>1. \A x \in nodes : x \in Seen(s)
      BY <1>1, <1>5
    <3> QED  BY <1>1, <3>1
  <2> QED  BY <1>5, <2>1, <2>2 DEF Finished
<1> QED  BY <1>2, <1>3, <1>4, <1>5

(* Before the first step. *)
LEMMA NoVisitSound ==
    ASSUME NEW nodes, NEW g, OnNodes(nodes, g)
    PROVE  SearchSound(nodes, g, NoVisit)
<1> DEFINE s == NoVisit
<1>1. /\ s.index = 1 /\ s.indices = [id \in Txs |-> 0] /\ s.lowlink = [id \in Txs |-> 0]
      /\ s.stack = <<>> /\ s.out = <<>> /\ s.calls = <<>> /\ s.left = [id \in Txs |-> {}]
      /\ s \in Searches
  BY DEF NoVisit, Unvisited, Searches
<1> HIDE DEF s
<1>2. Ids(s.stack) = {} /\ Ids(s.calls) = {} /\ Emitted(s) = {} /\ Seen(s) = {}
  BY <1>1 DEF Ids, Emitted, Seen
<1>3. Tracked(s)
  BY <1>1, <1>2 DEF Tracked, ByPlace, Unvisited
<1>4. Listed(nodes, g, s)
  BY <1>1 DEF Listed
<1>5. \A x \in Txs : s.left[x] = {}
  BY <1>1
<1>6. s.indices \in [Txs -> Nat] /\ s.lowlink \in [Txs -> Nat]
  BY <1>1
<1>7. Explored(nodes, g, {}, {}, {}, s.indices, s.lowlink, s.left)
  BY <1>5, <1>6 DEF Explored, Placed, Numbered, Followed, Joined, Linked
<1>8. SearchSound(nodes, g, s)
  BY <1>1, <1>2, <1>3, <1>4, <1>5, <1>7 DEF SearchSound
<1> QED  BY <1>8 DEF s

(* How far a search has come, at most twice the nodes and the edges. *)
Count(g, s) == Cardinality(Seen(s)) + Cardinality(Ended(s)) + Cardinality(Looked(g, s))
Steps(nodes, g) == 2 * Cardinality(nodes) + Cardinality(g)

(* Once the count reaches the bound there is nothing left to do. *)
LEMMA CountBounded ==
    ASSUME NEW nodes, NEW g, OnNodes(nodes, g), NEW s, SearchSound(nodes, g, s)
    PROVE  /\ IsFiniteSet(Seen(s)) /\ IsFiniteSet(Ended(s)) /\ IsFiniteSet(Looked(g, s))
           /\ Steps(nodes, g) \in Nat /\ Count(g, s) \in Nat
           /\ Count(g, s) >= Steps(nodes, g) => Finished(nodes, s)
<1>1. IsFiniteSet(nodes) /\ IsFiniteSet(g)
  <2>1. IsFiniteSet(nodes)
    BY TxAssumption, FS_Subset DEF OnNodes
  <2>2. IsFiniteSet(nodes \X nodes) /\ g \in SUBSET (nodes \X nodes)
    BY <2>1, FS_Product DEF OnNodes
  <2> QED  BY <2>1, <2>2, FS_Subset
<1>2. /\ Seen(s) \in SUBSET nodes /\ Ended(s) \in SUBSET nodes /\ Looked(g, s) \in SUBSET g
      /\ Ids(s.calls) \subseteq nodes /\ s.calls \in Seq(Txs)
  BY DEF SearchSound, Searches, Explored, Placed, Seen, Ended, Looked
<1>3. /\ IsFiniteSet(Seen(s)) /\ IsFiniteSet(Ended(s)) /\ IsFiniteSet(Looked(g, s))
      /\ Cardinality(Seen(s)) <= Cardinality(nodes) /\ Cardinality(Ended(s)) <= Cardinality(nodes)
      /\ Cardinality(Looked(g, s)) <= Cardinality(g)
      /\ Cardinality(nodes) = Cardinality(Seen(s)) => nodes = Seen(s)
      /\ Cardinality(nodes) = Cardinality(Ended(s)) => nodes = Ended(s)
  BY <1>1, <1>2, FS_Subset
<1>4. /\ Cardinality(Seen(s)) \in Nat /\ Cardinality(Ended(s)) \in Nat /\ Cardinality(Looked(g, s)) \in Nat
      /\ Cardinality(nodes) \in Nat /\ Cardinality(g) \in Nat
  BY <1>1, <1>3, FS_CardinalityType
<1>5. Steps(nodes, g) \in Nat /\ Count(g, s) \in Nat
  BY <1>4 DEF Steps, Count
<1>6. ASSUME Count(g, s) >= Steps(nodes, g)  PROVE Finished(nodes, s)
  <2>1. Cardinality(nodes) = Cardinality(Seen(s)) /\ Cardinality(nodes) = Cardinality(Ended(s))
    <3>1. \A a, b, c, m, e \in Nat : a <= m /\ b <= m /\ c <= e /\ a + b + c >= 2 * m + e => m = a /\ m = b
      OBVIOUS
    <3>2. Cardinality(Seen(s)) + Cardinality(Ended(s)) + Cardinality(Looked(g, s))
            >= 2 * Cardinality(nodes) + Cardinality(g)
      BY <1>6 DEF Count, Steps
    <3> QED  BY <1>3, <1>4, <3>1, <3>2
  <2>2. nodes = Seen(s) /\ nodes = Ended(s)
    BY <1>3, <2>1
  <2>3. Ids(s.calls) = {}
    <3>1. ASSUME NEW x \in Ids(s.calls)  PROVE FALSE
      <4>1. x \in Ended(s)
        BY <1>2, <2>2
      <4> QED  BY <4>1 DEF Ended
    <3> QED  BY <3>1
  <2>4. s.calls = <<>>
    <3>1. /\ DOMAIN s.calls = 1 .. Len(s.calls) /\ Len(s.calls) \in Nat
          /\ s.calls # <<>> => Len(s.calls) # 0
      BY <1>2
    <3>2. s.calls # <<>> => 1 \in DOMAIN s.calls
      BY <3>1
    <3> QED  BY <2>3, <3>2 DEF Ids
  <2> QED  BY <2>2, <2>4 DEF Finished
<1> QED  BY <1>3, <1>5, <1>6

(* Every step that advances is counted. *)
LEMMA CountGrows ==
    ASSUME NEW nodes, NEW g, OnNodes(nodes, g), NEW s, SearchSound(nodes, g, s),
           NEW t, SearchSound(nodes, g, t), Advances(g, s, t)
    PROVE  Count(g, t) >= Count(g, s) + 1
<1>1. /\ IsFiniteSet(Seen(t)) /\ IsFiniteSet(Ended(t)) /\ IsFiniteSet(Looked(g, t))
      /\ IsFiniteSet(Seen(s)) /\ IsFiniteSet(Ended(s)) /\ IsFiniteSet(Looked(g, s))
  BY CountBounded
<1>2. /\ Seen(s) \in SUBSET Seen(t) /\ Ended(s) \in SUBSET Ended(t) /\ Looked(g, s) \in SUBSET Looked(g, t)
      /\ Seen(s) # Seen(t) \/ Ended(s) # Ended(t) \/ Looked(g, s) # Looked(g, t)
  BY DEF Advances, NothingUndone
<1>3. /\ Cardinality(Seen(s)) <= Cardinality(Seen(t)) /\ Cardinality(Ended(s)) <= Cardinality(Ended(t))
      /\ Cardinality(Looked(g, s)) <= Cardinality(Looked(g, t))
      /\ Cardinality(Seen(t)) = Cardinality(Seen(s)) => Seen(t) = Seen(s)
      /\ Cardinality(Ended(t)) = Cardinality(Ended(s)) => Ended(t) = Ended(s)
      /\ Cardinality(Looked(g, t)) = Cardinality(Looked(g, s)) => Looked(g, t) = Looked(g, s)
  BY <1>1, <1>2, FS_Subset
<1>4. /\ Cardinality(Seen(t)) \in Nat /\ Cardinality(Ended(t)) \in Nat /\ Cardinality(Looked(g, t)) \in Nat
      /\ Cardinality(Seen(s)) \in Nat /\ Cardinality(Ended(s)) \in Nat /\ Cardinality(Looked(g, s)) \in Nat
  BY <1>1, FS_CardinalityType
<1> QED  BY <1>2, <1>3, <1>4 DEF Count

(* A finished search has each component once in its output. *)
LEMMA FinishedListing ==
    ASSUME NEW nodes, NEW g, OnNodes(nodes, g), NEW s, SearchSound(nodes, g, s), Finished(nodes, s)
    PROVE  s.out \in Listings(Components(nodes, g))
<1> DEFINE C == Components(nodes, g)
           n == Len(s.out)
           name == [i \in 1 .. n |-> Ids(s.out[i])]
           graph == [nodes |-> nodes, edges |-> g]
<1>1. /\ IsFiniteSet(C) /\ C \subseteq SUBSET nodes /\ C \subseteq SUBSET Txs
      /\ \A c \in C : c # {}
      /\ \A c, d \in C : \A u : u \in c /\ u \in d => c = d
  <2>1. IsGraph(graph) /\ GraphComponents(graph) = C
    BY DEF OnNodes, IsGraph, GraphComponents
  <2>2. graph.nodes = nodes
    OBVIOUS
  <2> HIDE DEF graph, C
  <2>3. /\ IsFiniteSet(GraphComponents(graph)) /\ GraphComponents(graph) \subseteq SUBSET graph.nodes
        /\ GraphComponents(graph) \subseteq SUBSET Txs /\ \A c \in GraphComponents(graph) : c # {}
        /\ \A c, d \in GraphComponents(graph) : \A u : u \in c /\ u \in d => c = d
    BY <2>1, ComponentFacts
  <2> QED  BY <2>1, <2>2, <2>3
<1>2. /\ s.out \in Seq(Seq(Txs)) /\ DOMAIN s.out = 1 .. n /\ n \in Nat
      /\ \A i \in DOMAIN s.out : \E c \in C : s.out[i] = Sorted(c)
      /\ \A i, j \in DOMAIN s.out : Ids(s.out[i]) = Ids(s.out[j]) => i = j
  <2>1. s.out \in Seq(Seq(Txs))
    BY DEF SearchSound, Searches
  <2>2. DOMAIN s.out = 1 .. n /\ n \in Nat
    BY <2>1, SeqElements
  <2> QED  BY <2>1, <2>2 DEF SearchSound, Listed
<1>3. Emitted(s) = nodes
  <2>1. Ids(s.calls) = {} /\ Seen(s) = nodes
    BY DEF Finished, Ids
  <2>2. Ids(s.stack) = {}
    BY <2>1 DEF SearchSound, Explored, Joined
  <2> QED  BY <2>1, <2>2 DEF Seen
<1> HIDE DEF C, n
<1>4. \A i \in 1 .. n : Ids(s.out[i]) \in C
  <2> TAKE i \in 1 .. n
  <2>1. PICK c \in C : s.out[i] = Sorted(c)
    BY <1>2
  <2>2. c \in SUBSET Nat /\ IsFiniteSet(c)
    <3>1. c \in SUBSET Txs
      BY <1>1
    <3> QED  BY <3>1, TxAssumption, FS_Subset
  <2>3. Ids(Sorted(c)) = c
    BY <2>2, SortedProperties
  <2> QED  BY <2>1, <2>3
<1>5. \A c \in C : \E i \in 1 .. n : Ids(s.out[i]) = c
  <2> TAKE c \in C
  <2>1. PICK x \in c : x \in nodes
    BY <1>1
  <2>2. PICK i \in 1 .. n : x \in Ids(s.out[i])
    BY <1>2, <1>3, <2>1 DEF Emitted
  <2> QED  BY <1>1, <1>4, <2>2
<1>6. Cardinality(C) = n
  <2>1. /\ name \in [1 .. n -> C] /\ \A c \in C : \E i \in 1 .. n : name[i] = c
        /\ \A i, j \in 1 .. n : name[i] = name[j] => i = j
    BY <1>2, <1>4, <1>5
  <2> HIDE DEF name
  <2>2. name \in Bijection(1 .. n, C)
    BY <2>1 DEF Bijection, Injection, Surjection, IsInjective
  <2>3. ExistsBijection(1 .. n, C)
    BY <2>2 DEF ExistsBijection
  <2>4. IsFiniteSet(1 .. n) /\ Cardinality(1 .. n) = n
    BY <1>2, FS_Interval
  <2> QED  BY <2>3, <2>4, FS_Bijection
<1>7. s.out \in [1 .. n -> {Sorted(c) : c \in C}]
  <2>1. s.out = [i \in 1 .. n |-> s.out[i]]
    BY <1>2
  <2>2. \A i \in 1 .. n : s.out[i] \in {Sorted(c) : c \in C}
    BY <1>2
  <2> QED  BY <2>1, <2>2
<1>8. {Ids(s.out[i]) : i \in DOMAIN s.out} = C
  BY <1>2, <1>4, <1>5
<1>9. s.out \in Listings(C)
  BY <1>6, <1>7, <1>8 DEF Listings
<1> QED  BY <1>9 DEF C

(* The recursion of TarjanSCC, as the sequence of its steps. *)
LEMMA TarjanTurns ==
    ASSUME NEW nodes, NEW g, OnNodes(nodes, g)
    PROVE  \E turn \in [0 .. Steps(nodes, g) -> SearchStates(nodes, g)] :
              /\ turn[0] = NoVisit
              /\ \A k \in 1 .. Steps(nodes, g) : turn[k] = TarjanStep(nodes, g, turn[k - 1])
              /\ TarjanSCC(nodes, g) = turn[Steps(nodes, g)].out
<1> DEFINE n == Steps(nodes, g)
           S == SearchStates(nodes, g)
           step == [p \in (1 .. n) \X S |-> TarjanStep(nodes, g, p[2])]
           eqn(f) == f = [k \in 0 .. n |-> IF k = 0 THEN NoVisit ELSE TarjanStep(nodes, g, f[k - 1])]
           turn == CHOOSE f : eqn(f)
<1>1. n \in Nat
  BY NoVisitSound, CountBounded
<1>2. NoVisit \in S /\ \A s \in S : TarjanStep(nodes, g, s) \in S
  <2>1. SearchSound(nodes, g, NoVisit) /\ NoVisit \in Searches
    BY NoVisitSound DEF SearchSound
  <2>2. ASSUME NEW s \in S  PROVE TarjanStep(nodes, g, s) \in S
    <3>1. SearchSound(nodes, g, TarjanStep(nodes, g, s))
      BY TarjanStepSound DEF SearchStates
    <3> QED  BY <3>1 DEF SearchStates, SearchSound
  <2> QED  BY <2>1, <2>2 DEF SearchStates
<1>3. step \in [(1 .. n) \X S -> S]
  <2> HIDE DEF S, n
  <2> QED  BY <1>2
<1>4. PICK f : Iterates(f, n, S, NoVisit, step)
  <2> HIDE DEF n, S, step
  <2> QED  BY <1>1, <1>2, <1>3, IteratesExist
<1>5. /\ f \in [0 .. n -> S] /\ f[0] = NoVisit
      /\ \A k \in 1 .. n : f[k] = TarjanStep(nodes, g, f[k - 1])
  <2>1. f \in [0 .. n -> S] /\ f[0] = NoVisit /\ \A k \in 1 .. n : f[k] = step[<<k, f[k - 1]>>]
    BY <1>4, Zenon DEF Iterates
  <2>2. ASSUME NEW k \in 1 .. n  PROVE f[k] = TarjanStep(nodes, g, f[k - 1])
    <3>1. k - 1 \in 0 .. n
      BY <1>1
    <3>2. f[k - 1] \in S
      <4> HIDE DEF S, n
      <4> QED  BY <2>1, <3>1
    <3> HIDE DEF S
    <3> QED  BY <2>1, <3>2
  <2> QED  BY <2>1, <2>2
<1>6. eqn(f)
  <2> HIDE DEF S, n
  <2> QED  BY <1>1, <1>5
<1>7. eqn(turn)
  <2> HIDE DEF eqn
  <2> QED  BY <1>6, Zenon
<1>8. /\ turn[0] = NoVisit
      /\ \A k \in 1 .. n : turn[k] = TarjanStep(nodes, g, turn[k - 1])
  <2> HIDE DEF turn, n
  <2> QED  BY <1>1, <1>7
<1>9. \A k \in 0 .. n : turn[k] \in S
  <2> DEFINE A == {k \in 0 .. n : turn[k] \in S}
  <2>1. 0 \in A
    <3> HIDE DEF turn, n, S
    <3> QED  BY <1>1, <1>2, <1>8
  <2>2. ASSUME NEW k \in 1 .. n, k - 1 \in A  PROVE k \in A
    <3> HIDE DEF turn, n, S
    <3> QED  BY <1>1, <1>2, <1>8, <2>2
  <2>3. 0 .. n \subseteq A
    <3> HIDE DEF A, n
    <3> QED  BY <1>1, <2>1, <2>2, UpTo
  <2> HIDE DEF turn, n, S
  <2> QED  BY <2>3
<1>10. turn \in [0 .. n -> S]
  <2>1. turn = [k \in 0 .. n |-> turn[k]]
    <3> HIDE DEF turn, n
    <3> QED  BY <1>7
  <2> HIDE DEF turn, n, S
  <2> QED  BY <1>9, <2>1
<1>11. TarjanSCC(nodes, g) = turn[n].out
  BY DEF TarjanSCC, Steps
<1> HIDE DEF turn
<1> QED  BY <1>1, <1>8, <1>10, <1>11

(* Tarjan's algorithm with lowlinks and a stack outputs each component once. *)
THEOREM TarjanIsListing ==
    ASSUME NEW nodes, NEW g, OnNodes(nodes, g)
    PROVE  TarjanSCC(nodes, g) \in Listings(Components(nodes, g))
<1> DEFINE n == Steps(nodes, g)
<1>1. PICK turn \in [0 .. n -> SearchStates(nodes, g)] :
        /\ turn[0] = NoVisit
        /\ \A k \in 1 .. n : turn[k] = TarjanStep(nodes, g, turn[k - 1])
        /\ TarjanSCC(nodes, g) = turn[n].out
  BY TarjanTurns
<1>2. n \in Nat
  BY NoVisitSound, CountBounded
<1> HIDE DEF n
<1>3. \A k \in 0 .. n : SearchSound(nodes, g, turn[k])
  BY <1>1 DEF SearchStates
<1> DEFINE far == {k \in 0 .. n : Count(g, turn[k]) >= k \/ Finished(nodes, turn[k])}
<1>4. 0 \in far
  <2>1. Count(g, turn[0]) \in Nat
    BY <1>2, <1>3, CountBounded
  <2> QED  BY <1>2, <2>1
<1>5. ASSUME NEW k \in 1 .. n, k - 1 \in far  PROVE k \in far
  <2>1. k - 1 \in 0 .. n /\ k \in 0 .. n
    BY <1>2
  <2>2. SearchSound(nodes, g, turn[k - 1]) /\ SearchSound(nodes, g, turn[k])
    BY <1>3, <2>1
  <2>3. turn[k] = TarjanStep(nodes, g, turn[k - 1])
    BY <1>1
  <2>4. CASE ~Finished(nodes, turn[k - 1])
    <3>1. Count(g, turn[k]) >= Count(g, turn[k - 1]) + 1
      BY <2>2, <2>3, <2>4, TarjanStepSound, CountGrows
    <3>2. Count(g, turn[k]) \in Nat /\ Count(g, turn[k - 1]) \in Nat
      BY <2>2, CountBounded
    <3>3. Count(g, turn[k - 1]) >= k - 1
      BY <1>5, <2>4
    <3> QED  BY <1>2, <2>1, <3>1, <3>2, <3>3
  <2>5. CASE Finished(nodes, turn[k - 1])
    <3>1. turn[k] = turn[k - 1]
      BY <2>2, <2>3, <2>5, TarjanStepSound
    <3> QED  BY <2>1, <2>5, <3>1
  <2> QED  BY <2>4, <2>5
<1>6. n \in far
  <2> HIDE DEF far
  <2>1. 0 .. n \subseteq far
    BY <1>2, <1>4, <1>5, UpTo
  <2> QED  BY <1>2, <2>1
<1>7. SearchSound(nodes, g, turn[n])
  BY <1>2, <1>3
<1>8. Finished(nodes, turn[n])
  <2>1. Count(g, turn[n]) >= n \/ Finished(nodes, turn[n])
    BY <1>6
  <2> QED  BY <1>7, <2>1, CountBounded DEF n
<1> QED  BY <1>1, <1>7, <1>8, FinishedListing

(* The search returns each class of mutual reachability once, in the order   *)
(* of identifiers (TarjanSCC), whatever the graph of the candidates is.      *)
THEOREM TarjanExactHolds == Spec => []TarjanExact
<1>1. TarjanExact
  <2>1. OnNodes(Nodes, Edges)
    BY DEF OnNodes, Nodes, Edges, NodesOf, EdgesOf
  <2> QED  BY <2>1, TarjanIsListing DEF TarjanExact
<1> QED  BY <1>1, PTL
=============================================================================
