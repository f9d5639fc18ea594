------------------------------ MODULE WireEncoding ------------------------------
(***************************************************************************)
(* What the digests of pkg/types/type.go hash.  The other modules take a    *)
(* digest for an injective function of the value it commits to; that needs  *)
(* SHA-256 to be collision free, which is assumed, and the bytes written    *)
(* for two different values to differ, which is what this module checks.    *)
(* A cell stands for a fixed number of bytes: a machine word is one cell    *)
(* (8 bytes), an identifier, head or state identifier is HashLen cells (32  *)
(* bytes).  Further fields of a fixed width (epoch, positions, context,     *)
(* leader, tag) separate nothing and are left out.                          *)
(***************************************************************************)
EXTENDS Integers, Sequences, SequencesExt

CONSTANTS
    Cells,     \* values of a cell, among them 0 and every length up to MaxLen
    HashLen,   \* cells of a hash
    MaxLen     \* bound: elements of a list

ASSUME EncodingAssumption ==
    /\ HashLen \in Nat \ {0} /\ MaxLen \in Nat
    /\ 0 .. MaxLen \subseteq Cells

VARIABLES
    section,  \* the part of a candidate whose encoding is looked at
    first,    \* two values of that part
    second

vars == <<section, first, second>>

Hashes == [1 .. HashLen -> Cells]
ZeroHash == [i \in 1 .. HashLen |-> 0]

-----------------------------------------------------------------------------
(* writeUint64, writeBytes, writeTxIDs, writeTree *)

WriteList(elements) == <<Len(elements)>> \o FlattenSeq(elements)

WriteBytes(value) == <<Len(value)>> \o value
WriteTxIDs(ids) == WriteList(ids)
WriteTree(tree) == WriteList([i \in DOMAIN tree |-> tree[i].from \o tree[i].to])

(* writeLocalOrder, LocalOrderDigest *)
WriteLocalOrder(order) ==
    <<order.replica, order.fragmentSeq>> \o order.prevHead
        \o WriteTxIDs(order.txs) \o order.newHead \o WriteBytes(order.signature)

WriteEvidence(orders) == WriteList([i \in DOMAIN orders |-> WriteLocalOrder(orders[i])])

WriteFinalOrder(batches) ==
    WriteList([i \in DOMAIN batches |-> <<batches[i].index>> \o WriteTxIDs(batches[i].txs)])

(* writeCertificate *)
WriteClaim(claim) ==
    WriteTxIDs(claim.txs) \o WriteTree(claim.inTree) \o WriteTree(claim.outTree) \o <<claim.rank>>

\* Mutant: a root is told from a child by its parent alone.
ParentOnly(record) == record.vertex \o record.parent \o <<record.depth>>
WriteRecord(record) ==
    record.vertex \o <<IF record.hasParent THEN 1 ELSE 0>>
        \o (IF record.hasParent THEN record.parent ELSE ZeroHash) \o <<record.depth>>

WriteCertificate(certificate) ==
    WriteList([i \in DOMAIN certificate.part |-> WriteClaim(certificate.part[i])])
        \o WriteList([i \in DOMAIN certificate.blockForest |-> WriteRecord(certificate.blockForest[i])])

(* FragmentDigest *)
WriteFragment(fragment) ==
    fragment.previousStateID \o WriteEvidence(fragment.evidence)
        \o WriteFinalOrder(fragment.finalOrder) \o WriteCertificate(fragment.certificate)
        \o fragment.candidatePostStateID

(* PostStateIdentifier: the trees and the block forest are not part of it. *)
WritePostState(state) ==
    state.preState \o WriteFinalOrder(state.finalOrder)
        \o WriteList([i \in DOMAIN state.part |->
               <<state.part[i].rank>> \o WriteTxIDs(state.part[i].txs)])

Encode(s, value) ==
    CASE s = "localOrder" -> WriteLocalOrder(value)
      [] s = "finalOrder" -> WriteFinalOrder(value)
      [] s = "claim"      -> WriteClaim(value)
      [] s = "record"     -> WriteRecord(value)
      [] s = "postState"  -> WritePostState(value)
      [] s = "fragment"   -> WriteFragment(value)

-----------------------------------------------------------------------------
(* The values: small, but with every list empty, short and long. *)

ListsOf(S) == UNION {[1 .. k -> S] : k \in 0 .. MaxLen}
ShortLists(S) == {<<>>} \cup {<<x>> : x \in S}

SomeHashes == {ZeroHash, [i \in 1 .. HashLen |-> 1]}
Edges == [from : SomeHashes, to : SomeHashes]

LocalOrders ==
    [replica : {0}, fragmentSeq : {1}, prevHead : SomeHashes, txs : ListsOf(SomeHashes),
     newHead : SomeHashes, signature : ListsOf({0, 1})]
Batches == [index : {0, 1}, txs : ListsOf(SomeHashes)]
SmallBatches == [index : {0, 1}, txs : ShortLists({ZeroHash})]
ClaimsOf(trees) ==
    [txs : ListsOf({ZeroHash}), inTree : trees, outTree : trees, rank : {0, 1}]
BlockRecords ==
    {r \in [vertex : SomeHashes, hasParent : BOOLEAN, parent : SomeHashes, depth : {0, 1}] :
        r.hasParent \/ r.parent = ZeroHash}

SmallOrders ==
    [replica : {0}, fragmentSeq : {1}, prevHead : {ZeroHash}, txs : ShortLists({ZeroHash}),
     newHead : {ZeroHash}, signature : ShortLists({0})]
SmallClaims == [txs : {<<ZeroHash>>}, inTree : {<<>>}, outTree : {<<>>}, rank : {0}]
SmallRecords == {[vertex |-> ZeroHash, hasParent |-> FALSE, parent |-> ZeroHash, depth |-> 0]}

Values(s) ==
    CASE s = "localOrder" -> LocalOrders
      [] s = "finalOrder" -> ListsOf(SmallBatches) \cup ShortLists(Batches)
      [] s = "claim"      -> ClaimsOf(ShortLists(Edges))
      [] s = "record"     -> BlockRecords
      [] s = "postState"  ->
            [preState : SomeHashes, finalOrder : ListsOf(SmallBatches),
             part : ListsOf([rank : {0}, txs : ShortLists({ZeroHash})])]
      [] s = "fragment"   ->
            [previousStateID : {ZeroHash}, evidence : ShortLists(SmallOrders),
             finalOrder : ShortLists(SmallBatches),
             certificate : [part : ShortLists(SmallClaims), blockForest : ShortLists(SmallRecords)],
             candidatePostStateID : SomeHashes]

Sections == {"localOrder", "finalOrder", "claim", "record", "postState", "fragment"}

Init ==
    /\ section \in Sections
    /\ first \in Values(section) /\ second = first

Compare(value) == second = first /\ second' = value /\ UNCHANGED <<section, first>>

Next == \E value \in Values(section) : Compare(value)

Spec == Init /\ [][Next]_vars

-----------------------------------------------------------------------------
(* Properties. *)

(* No encoding is the beginning of another's, so the sections of a candidate *)
(* cannot run into each other: two candidates, states or orders with the     *)
(* same bytes are the same, as the chain of digests in FragmentReplication   *)
(* takes for granted.                                                        *)
SelfDelimiting ==
    IsPrefix(Encode(section, first), Encode(section, second)) => first = second
=============================================================================
