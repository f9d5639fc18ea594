--------------------------- MODULE ConnectionsProofs ---------------------------
(***************************************************************************)
(* Proofs about Connections, for every number of streams, messages and      *)
(* breaks: no live stream is orphaned, the dialer receives what its peer    *)
(* sent in order across reconnections, and a break costs two redials.       *)
(***************************************************************************)
EXTENDS Connections, FiniteSetTheorems, TLAPS

\* The stream whose messages the dialer may still put into its queue.
Active(s) == reader[s][Dialer] \in {"handshake", "reading"}

\* What the dialer has received, decoded and will decode of a stream ascends.
Before(q, r) == \A i \in DOMAIN q, j \in DOMAIN r : q[i] < r[j]
Ascending(q) == \A i, j \in DOMAIN q : i < j => q[i] < q[j]
Below(q, n) == \A i \in DOMAIN q : q[i] < n
AtMost(q, n) == \A i \in DOMAIN q : q[i] <= n

-----------------------------------------------------------------------------
(* The conjuncts of the inductive invariant. *)

OneActive ==
    \A s \in Streams : Active(s) => attempting /\ \A t \in Streams : Active(t) => t = s
OnlyReadersHold == \A s \in Streams : reader[s][Dialer] # "reading" => held[s][Dialer] = None
DoneIsDead == \A s \in Streams : reader[s][Dialer] = "done" => s \in dead
Undialled ==
    \A s \in Streams :
        /\ s > dialled => \A e \in Ends : reader[s][e] = "none"
        /\ s > dialled => pipe[s][Dialer] = <<>>
        /\ s <= dialled => reader[s][Dialer] # "none"
Known == \A e \in Ends : table[e] <= dialled /\ sending[e] <= dialled
SentSoFar ==
    /\ AtMost(received[Dialer], sent[Acceptor])
    /\ \A s \in Streams : AtMost(pipe[s][Dialer], sent[Acceptor])
    /\ \A s \in Streams : held[s][Dialer] <= sent[Acceptor]
InOrder ==
    \A s \in Streams : Active(s) =>
        /\ Before(received[Dialer], pipe[s][Dialer])
        /\ Ascending(pipe[s][Dialer])
        /\ held[s][Dialer] # None =>
            /\ Below(received[Dialer], held[s][Dialer])
            /\ \A j \in DOMAIN pipe[s][Dialer] : held[s][Dialer] < pipe[s][Dialer][j]

IInv ==
    /\ TypeOK /\ NoOrphanStream
    /\ OneActive /\ OnlyReadersHold /\ DoneIsDead /\ Undialled /\ Known
    /\ SentSoFar /\ InOrder /\ DialerOrder

-----------------------------------------------------------------------------
(* There are two ends. *)
LEMMA TwoEnds ==
    /\ Dialer \in Ends /\ Acceptor \in Ends /\ Dialer # Acceptor
    /\ Other(Dialer) = Acceptor /\ Other(Acceptor) = Dialer
    /\ \A e \in Ends : e = Dialer \/ e = Acceptor
<1>1. Dialer # Acceptor
  BY DEF Dialer, Acceptor
<1>2. \A o \in Ends : o # Dialer <=> o = Acceptor
  BY <1>1 DEF Ends
<1>3. \A o \in Ends : o # Acceptor <=> o = Dialer
  BY <1>1 DEF Ends
<1>4. \E o \in Ends : o # Dialer
  BY <1>1 DEF Ends
<1>5. \E o \in Ends : o # Acceptor
  BY <1>1 DEF Ends
<1>6. Other(Dialer) = Acceptor
  BY <1>2, <1>4 DEF Other
<1>7. Other(Acceptor) = Dialer
  BY <1>3, <1>5 DEF Other
<1> QED
  BY <1>1, <1>6, <1>7 DEF Ends

(* What appending a greater number does to the orders. *)
LEMMA AtMostGrows ==
    ASSUME NEW q \in Seq(Nat), NEW m \in Nat, NEW n \in Nat, AtMost(q, m), m <= n
    PROVE  AtMost(q, n)
<1> SUFFICES ASSUME NEW i \in DOMAIN q PROVE q[i] <= n
  BY DEF AtMost
<1>1. q[i] \in Nat /\ q[i] <= m
  BY DEF AtMost
<1> QED
  BY <1>1

(* A number no smaller than the bound may be appended. *)
LEMMA AppendAtMost ==
    ASSUME NEW q \in Seq(Nat), NEW m \in Nat, NEW n \in Nat, AtMost(q, m), m <= n
    PROVE  AtMost(Append(q, n), n)
<1> SUFFICES ASSUME NEW i \in DOMAIN Append(q, n) PROVE Append(q, n)[i] <= n
  BY DEF AtMost
<1>1. CASE i \in DOMAIN q
  BY <1>1, AtMostGrows DEF AtMost
<1>2. CASE i \notin DOMAIN q
  BY <1>2
<1> QED
  BY <1>1, <1>2

(* A number above the bound keeps the sequence ascending. *)
LEMMA AppendAscending ==
    ASSUME NEW q \in Seq(Nat), NEW m \in Nat, NEW n \in Nat, AtMost(q, m), m < n, Ascending(q)
    PROVE  Ascending(Append(q, n))
<1> SUFFICES ASSUME NEW i \in DOMAIN Append(q, n), NEW j \in DOMAIN Append(q, n), i < j
             PROVE  Append(q, n)[i] < Append(q, n)[j]
  BY DEF Ascending
<1>1. i \in DOMAIN q /\ Append(q, n)[i] = q[i] /\ q[i] \in Nat
  OBVIOUS
<1>2. CASE j \in DOMAIN q
  BY <1>1, <1>2 DEF Ascending
<1>3. CASE j \notin DOMAIN q
  BY <1>1, <1>3 DEF AtMost
<1> QED
  BY <1>2, <1>3

(* What is appended to the later sequence stays behind the earlier one. *)
LEMMA AppendBefore ==
    ASSUME NEW p \in Seq(Nat), NEW q \in Seq(Nat), NEW m \in Nat, NEW n \in Nat,
           AtMost(p, m), m < n, Before(p, q)
    PROVE  Before(p, Append(q, n))
<1> SUFFICES ASSUME NEW i \in DOMAIN p, NEW j \in DOMAIN Append(q, n)
             PROVE  p[i] < Append(q, n)[j]
  BY DEF Before
<1>1. p[i] \in Nat /\ p[i] <= m
  BY DEF AtMost
<1>2. CASE j \in DOMAIN q
  BY <1>2 DEF Before
<1>3. CASE j \notin DOMAIN q
  BY <1>1, <1>3
<1> QED
  BY <1>2, <1>3

(* The initial state satisfies the invariant. *)
LEMMA InitInv == Init => IInv
<1> SUFFICES ASSUME Init PROVE IInv
  OBVIOUS
<1>1. TypeOK
  <2>1. <<>> \in Seq(Nat) /\ 0 \in Nat
    OBVIOUS
  <2>2. dialled \in 0 .. MaxStreams /\ breaks \in Nat
    BY ConnectionBounds DEF Init
  <2>2b. attempting \in BOOLEAN /\ dead \subseteq Streams
    BY DEF Init
  <2>2a. /\ table \in [Ends -> Streams \cup {None}] /\ sending \in [Ends -> Streams \cup {None}]
         /\ sent \in [Ends -> Nat]
    BY DEF Init
  <2>3. reader \in [Streams -> [Ends -> {"none", "handshake", "reading", "done"}]]
    BY DEF Init
  <2>4. /\ pipe \in [Streams -> [Ends -> Seq(Nat)]] /\ received \in [Ends -> Seq(Nat)]
        /\ held \in [Streams -> [Ends -> Nat]]
    BY <2>1 DEF Init, None
  <2> QED
    BY <2>2, <2>2a, <2>2b, <2>3, <2>4 DEF TypeOK
<1>2. NoOrphanStream /\ OneActive /\ OnlyReadersHold /\ DoneIsDead
  BY TwoEnds DEF Init, NoOrphanStream, OneActive, OnlyReadersHold, DoneIsDead, Active
<1>3. Undialled /\ Known
  BY TwoEnds DEF Init, Undialled, Known, Streams, None
<1>4. SentSoFar /\ InOrder /\ DialerOrder
  BY TwoEnds DEF Init, SentSoFar, InOrder, DialerOrder, Active, AtMost, None
<1> QED
  BY <1>1, <1>2, <1>3, <1>4 DEF IInv

-----------------------------------------------------------------------------
(* Dialling makes a new stream the active one. *)
LEMMA DialStep == IInv /\ Dial => IInv'
<1> SUFFICES ASSUME IInv, Dial PROVE IInv'
  OBVIOUS
<1>1. /\ ~attempting /\ attempting' = TRUE
      /\ dialled' = dialled + 1 /\ dialled' \in Streams
      /\ reader' = [reader EXCEPT ![dialled'] = [e \in Ends |-> "handshake"]]
      /\ UNCHANGED <<table, dead, pipe, held, received, sending, sent, breaks>>
  BY ConnectionBounds
  DEF Dial, NoAttempt, IInv, TypeOK, Streams, messageVars, sendVars
<1>2. /\ \A s \in Streams : s # dialled' => reader'[s] = reader[s]
      /\ \A e \in Ends : reader'[dialled'][e] = "handshake"
  BY <1>1 DEF IInv, TypeOK
<1>3. \A s \in Streams : ~Active(s)
  BY <1>1 DEF IInv, OneActive
<1>4. held[dialled'][Dialer] = None /\ pipe[dialled'][Dialer] = <<>>
  BY <1>1, <1>3 DEF IInv, OnlyReadersHold, Undialled, Active, TypeOK
<1>5. TypeOK'
  BY <1>1, TwoEnds DEF IInv, TypeOK, Streams
<1>6. NoOrphanStream'
  BY <1>1, <1>2 DEF IInv, NoOrphanStream
<1>7. OneActive'
  BY <1>1, <1>2, <1>3 DEF OneActive, Active
<1>8. OnlyReadersHold' /\ DoneIsDead'
  BY <1>1, <1>2, <1>4, TwoEnds DEF IInv, OnlyReadersHold, DoneIsDead
<1>9. Undialled'
  BY <1>1, <1>2, TwoEnds DEF IInv, Undialled, TypeOK, Streams
<1>10. Known'
  <2>1. \A e \in Ends : table[e] \in Int /\ sending[e] \in Int
    BY DEF IInv, TypeOK, Streams, None
  <2>2. dialled \in Int
    BY DEF IInv, TypeOK
  <2> QED
    BY <1>1, <2>1, <2>2 DEF IInv, Known
<1>11. SentSoFar' /\ DialerOrder'
  BY <1>1 DEF IInv, SentSoFar, DialerOrder
<1>12. InOrder'
  BY <1>1, <1>2, <1>3, <1>4 DEF InOrder, Active, Before, Ascending, Below
<1> QED
  BY <1>5, <1>6, <1>7, <1>8, <1>9, <1>10, <1>11, <1>12 DEF IInv

(* The state of one reader. *)
LEMMA ReaderUpdate ==
    ASSUME TypeOK, NEW e \in Ends, NEW s \in Streams,
           NEW x \in {"none", "handshake", "reading", "done"},
           reader' = [reader EXCEPT ![s][e] = x]
    PROVE  /\ reader' \in [Streams -> [Ends -> {"none", "handshake", "reading", "done"}]]
           /\ reader'[s][e] = x
           /\ \A t \in Streams, o \in Ends : t # s \/ o # e => reader'[t][o] = reader[t][o]
  BY DEF TypeOK

(* A handshake that ends well puts its stream into the table. *)
LEMMA InstallStep ==
    ASSUME IInv, NEW e \in Ends, NEW s \in Streams, Install(e, s)
    PROVE  IInv'
<1>1. /\ reader[s][e] = "handshake"
      /\ reader' = [reader EXCEPT ![s][e] = "reading"]
      /\ table' = [table EXCEPT ![e] = s]
      /\ dead' = dead \cup ({table[e]} \ {None})
      /\ UNCHANGED <<dialled, attempting, pipe, held, received, sending, sent, breaks>>
  BY DEF Install, Replaced, Continues, messageVars, sendVars
<1>2. /\ reader' \in [Streams -> [Ends -> {"none", "handshake", "reading", "done"}]]
      /\ reader'[s][e] = "reading"
      /\ \A t \in Streams, o \in Ends : t # s \/ o # e => reader'[t][o] = reader[t][o]
  BY <1>1, ReaderUpdate DEF IInv
<1>3. TypeOK'
  BY <1>1, <1>2 DEF IInv, TypeOK
<1>4. NoOrphanStream'
  BY <1>1, <1>2 DEF IInv, NoOrphanStream, TypeOK, Streams, None
<1>5. \A t \in Streams : Active(t)' <=> Active(t)
  BY <1>1, <1>2, TwoEnds DEF Active
<1>6. OneActive'
  BY <1>1, <1>5 DEF IInv, OneActive
<1>7. OnlyReadersHold' /\ DoneIsDead'
  BY <1>1, <1>2, TwoEnds DEF IInv, OnlyReadersHold, DoneIsDead
<1>8. s <= dialled
  BY <1>1 DEF IInv, Undialled, TypeOK, Streams
<1>9. Known'
  BY <1>1, <1>8 DEF IInv, Known, TypeOK
<1>9a. Undialled'
  <2> SUFFICES ASSUME NEW t \in Streams
               PROVE  /\ t > dialled => \A o \in Ends : reader'[t][o] = "none"
                      /\ t > dialled => pipe[t][Dialer] = <<>>
                      /\ t <= dialled => reader'[t][Dialer] # "none"
    BY <1>1 DEF Undialled
  <2>1. t > dialled => t # s
    BY <1>8 DEF IInv, TypeOK, Streams
  <2> QED
    BY <1>2, <2>1, TwoEnds DEF IInv, Undialled
<1>10. SentSoFar' /\ DialerOrder'
  BY <1>1 DEF IInv, SentSoFar, DialerOrder
<1>11. InOrder'
  BY <1>1, <1>5 DEF IInv, InOrder
<1> QED
  BY <1>3, <1>4, <1>6, <1>7, <1>9, <1>9a, <1>10, <1>11 DEF IInv

(* A handshake that fails ends the attempt of the dialer. *)
LEMMA HandshakeFailsStep ==
    ASSUME IInv, NEW e \in Ends, NEW s \in Streams, HandshakeFails(e, s)
    PROVE  IInv'
<1>1. /\ reader[s][e] = "handshake" /\ s \in dead
      /\ reader' = [reader EXCEPT ![s][e] = "done"]
      /\ UNCHANGED <<dialled, table, dead, pipe, held, received, sending, sent, breaks>>
  BY DEF HandshakeFails, messageVars, sendVars
<1>2. /\ attempting' \in BOOLEAN
      /\ e = Acceptor => attempting' = attempting
  BY TwoEnds DEF HandshakeFails, EndAttempt, IInv, TypeOK
<1>3. /\ reader' \in [Streams -> [Ends -> {"none", "handshake", "reading", "done"}]]
      /\ reader'[s][e] = "done"
      /\ \A t \in Streams, o \in Ends : t # s \/ o # e => reader'[t][o] = reader[t][o]
  BY <1>1, ReaderUpdate DEF IInv
<1>4. TypeOK'
  BY <1>1, <1>2, <1>3 DEF IInv, TypeOK
<1>5. NoOrphanStream'
  BY <1>1, <1>3 DEF IInv, NoOrphanStream
<1>6. \A t \in Streams : Active(t)' => Active(t) /\ (t # s \/ e = Acceptor)
  BY <1>3, TwoEnds DEF Active
<1>7. OneActive'
  <2>1. CASE e = Acceptor
    BY <1>2, <1>6, <2>1 DEF IInv, OneActive
  <2>2. CASE e = Dialer
    <3>1. Active(s)
      BY <1>1, <2>2 DEF Active
    <3>2. \A t \in Streams : ~Active(t)'
      BY <1>6, <2>2, <3>1, TwoEnds DEF IInv, OneActive
    <3> QED
      BY <3>2 DEF OneActive
  <2> QED
    BY <2>1, <2>2, TwoEnds
<1>8. OnlyReadersHold' /\ DoneIsDead'
  BY <1>1, <1>3, TwoEnds DEF IInv, OnlyReadersHold, DoneIsDead
<1>9. Known' /\ SentSoFar' /\ DialerOrder'
  BY <1>1 DEF IInv, Known, SentSoFar, DialerOrder
<1>10. Undialled'
  <2> SUFFICES ASSUME NEW t \in Streams
               PROVE  /\ t > dialled => \A o \in Ends : reader'[t][o] = "none"
                      /\ t > dialled => pipe[t][Dialer] = <<>>
                      /\ t <= dialled => reader'[t][Dialer] # "none"
    BY <1>1 DEF Undialled
  <2>1. t > dialled => t # s
    BY <1>1 DEF IInv, Undialled
  <2> QED
    BY <1>3, <2>1, TwoEnds DEF IInv, Undialled
<1>11. InOrder'
  BY <1>1, <1>6 DEF IInv, InOrder
<1> QED
  BY <1>4, <1>5, <1>7, <1>8, <1>9, <1>10, <1>11 DEF IInv

-----------------------------------------------------------------------------
(* Senders. *)

(* Send picks the stream of the table. *)
LEMMA LookUpStep ==
    ASSUME IInv, NEW e \in Ends, LookUp(e)
    PROVE  IInv'
<1>1. /\ sending' = [sending EXCEPT ![e] = table[e]]
      /\ UNCHANGED <<dialled, attempting, reader, table, dead, pipe, held, received, sent, breaks>>
  BY DEF LookUp, dialVars, messageVars
<1>2. TypeOK' /\ Known'
  BY <1>1 DEF IInv, TypeOK, Known
<1> QED
  BY <1>1, <1>2
  DEF IInv, NoOrphanStream, OneActive, Active, OnlyReadersHold, DoneIsDead, Undialled, SentSoFar,
      InOrder, DialerOrder

(* A sender forgets only a stream that is dead. *)
LEMMA ForgetDead ==
    ASSUME TypeOK, NoOrphanStream, NEW e \in Ends, NEW s, s \in dead, table' = Forget(e, s)
    PROVE  /\ table' \in [Ends -> Streams \cup {None}]
           /\ \A o \in Ends : table'[o] = table[o] \/ table'[o] = None
           /\ \A o \in Ends, t \in Streams :
                reader[t][o] = "reading" => table'[o] = t \/ t \in dead
  BY DEF TypeOK, NoOrphanStream, Forget

(* The bound by what was sent is kept while the number sent grows. *)
LEMMA SentGrows ==
    ASSUME TypeOK, SentSoFar, UNCHANGED <<pipe, held, received>>,
           sent'[Acceptor] \in Nat, sent[Acceptor] <= sent'[Acceptor]
    PROVE  SentSoFar'
<1>1. received[Dialer] \in Seq(Nat) /\ sent[Acceptor] \in Nat
  BY TwoEnds DEF TypeOK
<1>2. AtMost(received[Dialer], sent'[Acceptor])
  BY <1>1, AtMostGrows DEF SentSoFar
<1>3. ASSUME NEW s \in Streams
      PROVE  AtMost(pipe[s][Dialer], sent'[Acceptor]) /\ held[s][Dialer] <= sent'[Acceptor]
  <2>1. pipe[s][Dialer] \in Seq(Nat) /\ held[s][Dialer] \in Nat
    BY TwoEnds DEF TypeOK
  <2>2. AtMost(pipe[s][Dialer], sent'[Acceptor])
    BY <1>1, <2>1, AtMostGrows DEF SentSoFar
  <2>3. held[s][Dialer] <= sent'[Acceptor]
    BY <1>1, <2>1 DEF SentSoFar
  <2> QED
    BY <2>2, <2>3
<1> QED
  BY <1>2, <1>3 DEF SentSoFar

(* A failed write removes only its own stream from the table. *)
LEMMA WriteFailsStep ==
    ASSUME IInv, NEW e \in Ends, WriteFails(e)
    PROVE  IInv'
<1>1. /\ sending[e] \in dead /\ table' = Forget(e, sending[e])
      /\ sending' = [sending EXCEPT ![e] = None] /\ sent' = [sent EXCEPT ![e] = @ + 1]
      /\ UNCHANGED <<dialled, attempting, reader, dead, pipe, held, received, breaks>>
  BY DEF WriteFails, Encoded, dialVars, messageVars
<1>2. /\ table' \in [Ends -> Streams \cup {None}]
      /\ \A o \in Ends : table'[o] = table[o] \/ table'[o] = None
      /\ NoOrphanStream'
  BY <1>1, ForgetDead DEF IInv, NoOrphanStream
<1>2a. /\ sending' \in [Ends -> Streams \cup {None}] /\ sent' \in [Ends -> Nat]
       /\ \A o \in Ends : sending'[o] = sending[o] \/ sending'[o] = None
  BY <1>1 DEF IInv, TypeOK
<1>3. TypeOK'
  BY <1>1, <1>2, <1>2a DEF IInv, TypeOK
<1>4. Known'
  <2>1. dialled \in Nat
    BY ConnectionBounds DEF IInv, TypeOK
  <2> QED
    BY <1>1, <1>2, <1>2a, <2>1 DEF IInv, Known, None
<1>5. sent'[Acceptor] \in Nat /\ sent[Acceptor] \in Nat /\ sent[Acceptor] <= sent'[Acceptor]
  BY <1>1, TwoEnds DEF IInv, TypeOK
<1>6. SentSoFar'
  <2>1. \A q \in Seq(Nat) : AtMost(q, sent[Acceptor]) => AtMost(q, sent'[Acceptor])
    BY <1>5, AtMostGrows
  <2> QED
    BY <1>1, <1>5, <2>1, SentGrows DEF IInv
<1> QED
  BY <1>1, <1>2, <1>3, <1>4, <1>6
  DEF IInv, OneActive, Active, OnlyReadersHold, DoneIsDead, Undialled, InOrder, DialerOrder

(* A message written is the last one sent, behind all that are under way. *)
LEMMA WriteStep ==
    ASSUME IInv, NEW e \in Ends, Write(e)
    PROVE  IInv'
<1> DEFINE s == sending[e]
<1> DEFINE n == sent[e] + 1
<1>1. /\ s # None /\ sent' = [sent EXCEPT ![e] = n] /\ sending' = [sending EXCEPT ![e] = None]
      /\ pipe' = IF s \in dead THEN pipe ELSE [pipe EXCEPT ![s][Other(e)] = Append(@, n)]
      /\ UNCHANGED <<dialled, attempting, reader, table, dead, held, received, breaks>>
  BY DEF Write, Encoded, dialVars, IInv, TypeOK
<1>2. s \in Streams /\ n \in Nat /\ s <= dialled /\ Other(e) \in Ends
  <2>1. s \in Streams /\ n \in Nat
    BY <1>1 DEF IInv, TypeOK
  <2>2. s <= dialled
    BY DEF IInv, Known
  <2>3. Other(e) \in Ends
    BY TwoEnds
  <2> QED
    BY <2>1, <2>2, <2>3
<1>3. TypeOK'
  <2>1. pipe' \in [Streams -> [Ends -> Seq(Nat)]]
    <3>1. Append(pipe[s][Other(e)], n) \in Seq(Nat)
      BY <1>2 DEF IInv, TypeOK
    <3> QED
      BY <1>1, <1>2, <3>1 DEF IInv, TypeOK
  <2> QED
    BY <1>1, <1>2, <2>1 DEF IInv, TypeOK
<1>4. /\ NoOrphanStream' /\ OneActive' /\ OnlyReadersHold' /\ DoneIsDead' /\ DialerOrder'
      /\ \A t \in Streams : Active(t)' <=> Active(t)
  BY <1>1 DEF IInv, NoOrphanStream, OneActive, Active, OnlyReadersHold, DoneIsDead, DialerOrder
<1>5. Known'
  BY <1>1 DEF IInv, TypeOK, Known, None
<1>6. /\ sent'[Acceptor] \in Nat /\ sent[Acceptor] \in Nat /\ sent[Acceptor] <= sent'[Acceptor]
      /\ e = Acceptor => sent[Acceptor] < n
  BY <1>1, TwoEnds DEF IInv, TypeOK
<1>7. \A q \in Seq(Nat) : AtMost(q, sent[Acceptor]) => AtMost(q, sent'[Acceptor])
  BY <1>6, AtMostGrows
<1>8. CASE s \in dead \/ e = Dialer
  <2>1. \A t \in Streams : pipe'[t][Dialer] = pipe[t][Dialer]
    BY <1>1, <1>2, <1>8, TwoEnds DEF IInv, TypeOK
  <2>2. Undialled' /\ InOrder'
    BY <1>1, <1>4, <2>1 DEF IInv, Undialled, InOrder
  <2>3. SentSoFar'
    <3> SUFFICES ASSUME NEW t \in Streams
                 PROVE  /\ AtMost(received[Dialer], sent'[Acceptor])
                        /\ AtMost(pipe[t][Dialer], sent'[Acceptor])
                        /\ held[t][Dialer] <= sent'[Acceptor]
      BY <1>1, <1>2, <2>1 DEF SentSoFar
    <3>1. /\ received[Dialer] \in Seq(Nat) /\ pipe[t][Dialer] \in Seq(Nat)
          /\ held[t][Dialer] \in Nat
      BY TwoEnds DEF IInv, TypeOK
    <3>2. held[t][Dialer] <= sent'[Acceptor]
      BY <1>6, <3>1 DEF IInv, SentSoFar
    <3> QED
      BY <1>7, <3>1, <3>2 DEF IInv, SentSoFar
  <2> QED
    BY <1>3, <1>4, <1>5, <2>2, <2>3 DEF IInv
<1>9. CASE s \notin dead /\ e = Acceptor
  <2>1. /\ pipe'[s][Dialer] = Append(pipe[s][Dialer], n)
        /\ \A t \in Streams : t # s => pipe'[t][Dialer] = pipe[t][Dialer]
        /\ sent'[Acceptor] = n
    BY <1>1, <1>2, <1>9, TwoEnds DEF IInv, TypeOK
  <2>2. pipe[s][Dialer] \in Seq(Nat) /\ received[Dialer] \in Seq(Nat) /\ held[s][Dialer] \in Nat
    BY <1>2, TwoEnds DEF IInv, TypeOK
  <2>3. /\ AtMost(pipe[s][Dialer], sent[Acceptor]) /\ AtMost(received[Dialer], sent[Acceptor])
        /\ held[s][Dialer] <= sent[Acceptor]
    BY <1>2 DEF IInv, SentSoFar
  <2>4. Undialled'
    <3>1. \A t \in Streams : t > dialled => t # s
      BY <1>2 DEF IInv, TypeOK, Streams
    <3> QED
      BY <1>1, <2>1, <3>1 DEF IInv, Undialled
  <2>5. SentSoFar'
    <3>1. AtMost(Append(pipe[s][Dialer], n), n)
      BY <1>2, <1>6, <2>1, <2>2, <2>3, AppendAtMost
    <3> SUFFICES ASSUME NEW t \in Streams
                 PROVE  /\ AtMost(received[Dialer], sent'[Acceptor])
                        /\ AtMost(pipe'[t][Dialer], sent'[Acceptor])
                        /\ held[t][Dialer] <= sent'[Acceptor]
      BY <1>1, <1>2 DEF SentSoFar
    <3>2. pipe[t][Dialer] \in Seq(Nat) /\ held[t][Dialer] \in Nat
      BY TwoEnds DEF IInv, TypeOK
    <3>3. held[t][Dialer] <= sent'[Acceptor]
      BY <1>6, <3>2 DEF IInv, SentSoFar
    <3>4. AtMost(pipe'[t][Dialer], sent'[Acceptor])
      BY <1>7, <2>1, <3>1, <3>2 DEF IInv, SentSoFar
    <3> QED
      BY <1>7, <2>2, <2>3, <3>3, <3>4
  <2>6. InOrder'
    <3> SUFFICES ASSUME NEW t \in Streams, Active(t)
                 PROVE  /\ Before(received[Dialer], pipe'[t][Dialer])
                        /\ Ascending(pipe'[t][Dialer])
                        /\ held[t][Dialer] # None =>
                            /\ Below(received[Dialer], held[t][Dialer])
                            /\ \A j \in DOMAIN pipe'[t][Dialer] :
                                held[t][Dialer] < pipe'[t][Dialer][j]
      BY <1>1, <1>4 DEF InOrder
    <3>1. CASE t # s
      BY <2>1, <3>1 DEF IInv, InOrder
    <3>2. CASE t = s
      <4>1. Before(received[Dialer], Append(pipe[s][Dialer], n))
        BY <1>2, <1>6, <1>9, <2>1, <2>2, <2>3, <3>2, AppendBefore DEF IInv, InOrder
      <4>2. Ascending(Append(pipe[s][Dialer], n))
        BY <1>2, <1>6, <1>9, <2>1, <2>2, <2>3, <3>2, AppendAscending DEF IInv, InOrder
      <4>3. held[s][Dialer] # None =>
              \A j \in DOMAIN Append(pipe[s][Dialer], n) :
                held[s][Dialer] < Append(pipe[s][Dialer], n)[j]
        BY <1>9, <2>2, <2>3, <1>6, <3>2 DEF IInv, InOrder
      <4>4. held[s][Dialer] # None => Below(received[Dialer], held[s][Dialer])
        BY <3>2 DEF IInv, InOrder
      <4>5. pipe'[t][Dialer] = Append(pipe[s][Dialer], n)
        BY <2>1, <3>2
      <4> QED
        BY <3>2, <4>1, <4>2, <4>3, <4>4, <4>5, Zenon
    <3> QED
      BY <3>1, <3>2
  <2> QED
    BY <1>3, <1>4, <1>5, <2>4, <2>5, <2>6 DEF IInv
<1> QED
  BY <1>8, <1>9, TwoEnds

-----------------------------------------------------------------------------
(* Readers. *)

(* The first message of a stream is taken by its reader. *)
LEMMA DecodeStep ==
    ASSUME IInv, NEW e \in Ends, NEW s \in Streams, Decode(e, s)
    PROVE  IInv'
<1> DEFINE q == pipe[s][e]
<1>1. /\ reader[s][e] = "reading" /\ held[s][e] = None /\ q # <<>>
      /\ held' = [held EXCEPT ![s][e] = Head(q)]
      /\ pipe' = [pipe EXCEPT ![s][e] = Tail(q)]
      /\ UNCHANGED <<dialled, attempting, reader, table, dead, received, sending, sent, breaks>>
  BY DEF Decode, dialVars, sendVars, IInv, TypeOK
<1>2. q \in Seq(Nat) /\ Head(q) \in Nat /\ Tail(q) \in Seq(Nat)
  <2>1. q \in Seq(Nat)
    BY DEF IInv, TypeOK
  <2> QED
    BY <1>1, <2>1
<1>3. /\ held' \in [Streams -> [Ends -> Nat]] /\ pipe' \in [Streams -> [Ends -> Seq(Nat)]]
      /\ held'[s][e] = Head(q) /\ pipe'[s][e] = Tail(q)
      /\ \A t \in Streams, o \in Ends : t # s \/ o # e =>
            held'[t][o] = held[t][o] /\ pipe'[t][o] = pipe[t][o]
  BY <1>1, <1>2 DEF IInv, TypeOK
<1>4. TypeOK'
  BY <1>1, <1>3 DEF IInv, TypeOK
<1>5. NoOrphanStream' /\ OneActive' /\ DoneIsDead' /\ Known' /\ DialerOrder'
  BY <1>1 DEF IInv, NoOrphanStream, OneActive, Active, DoneIsDead, Known, DialerOrder
<1>6. OnlyReadersHold'
  BY <1>1, <1>3, TwoEnds DEF IInv, OnlyReadersHold
<1>7. Undialled'
  BY <1>1, <1>3, TwoEnds DEF IInv, Undialled
<1>8. \A n \in Nat : AtMost(q, n) => AtMost(Tail(q), n) /\ Head(q) <= n
  BY <1>1, <1>2 DEF AtMost
<1>9. SentSoFar'
  <2> SUFFICES ASSUME NEW t \in Streams
               PROVE  AtMost(pipe'[t][Dialer], sent[Acceptor]) /\ held'[t][Dialer] <= sent[Acceptor]
    BY <1>1 DEF IInv, SentSoFar
  <2>1. sent[Acceptor] \in Nat
    BY TwoEnds DEF IInv, TypeOK
  <2>2. CASE t = s /\ e = Dialer
    BY <1>3, <1>8, <2>1, <2>2 DEF IInv, SentSoFar
  <2>3. CASE t # s \/ e # Dialer
    BY <1>3, <2>3, TwoEnds DEF IInv, SentSoFar
  <2> QED
    BY <2>2, <2>3
<1>10. InOrder'
  <2> SUFFICES ASSUME NEW t \in Streams, Active(t)
               PROVE  /\ Before(received[Dialer], pipe'[t][Dialer])
                      /\ Ascending(pipe'[t][Dialer])
                      /\ held'[t][Dialer] # None =>
                          /\ Below(received[Dialer], held'[t][Dialer])
                          /\ \A j \in DOMAIN pipe'[t][Dialer] :
                              held'[t][Dialer] < pipe'[t][Dialer][j]
    BY <1>1 DEF InOrder, Active
  <2>1. CASE t # s \/ e # Dialer
    BY <1>3, <2>1, TwoEnds DEF IInv, InOrder
  <2>2. CASE t = s /\ e = Dialer
    <3>1. Before(received[Dialer], q) /\ Ascending(q)
      BY <2>2 DEF IInv, InOrder
    <3>2. /\ 1 \in DOMAIN q /\ Head(q) = q[1]
          /\ \A i \in DOMAIN Tail(q) : i + 1 \in DOMAIN q /\ Tail(q)[i] = q[i + 1] /\ 1 < i + 1
          /\ \A i, j \in DOMAIN Tail(q) : i < j => i + 1 < j + 1
      BY <1>1, <1>2
    <3>3. Before(received[Dialer], Tail(q))
      BY <3>1, <3>2 DEF Before
    <3>4. Ascending(Tail(q))
      BY <3>1, <3>2 DEF Ascending
    <3>5. Below(received[Dialer], Head(q))
      BY <3>1, <3>2 DEF Before, Below
    <3>6. \A j \in DOMAIN Tail(q) : Head(q) < Tail(q)[j]
      BY <3>1, <3>2 DEF Ascending
    <3> QED
      BY <1>3, <2>2, <3>3, <3>4, <3>5, <3>6
  <2> QED
    BY <2>1, <2>2
<1> QED
  BY <1>4, <1>5, <1>6, <1>7, <1>9, <1>10 DEF IInv

(* A decoded message is put behind all that were received. *)
LEMMA EnqueueStep ==
    ASSUME IInv, NEW e \in Ends, NEW s \in Streams, Enqueue(e, s)
    PROVE  IInv'
<1> DEFINE m == held[s][e]
<1>1. /\ m # None
      /\ received' = [received EXCEPT ![e] = Append(@, m)]
      /\ held' = [held EXCEPT ![s][e] = None]
      /\ UNCHANGED <<dialled, attempting, reader, table, dead, pipe, sending, sent, breaks>>
  BY DEF Enqueue, dialVars, sendVars
<1>2. m \in Nat /\ received[e] \in Seq(Nat) /\ None \in Nat
  BY DEF IInv, TypeOK, None
<1>3. /\ held' \in [Streams -> [Ends -> Nat]] /\ received' \in [Ends -> Seq(Nat)]
      /\ held'[s][e] = None
      /\ \A t \in Streams, o \in Ends : t # s \/ o # e => held'[t][o] = held[t][o]
      /\ received'[e] = Append(received[e], m)
      /\ \A o \in Ends : o # e => received'[o] = received[o]
  BY <1>1, <1>2 DEF IInv, TypeOK
<1>4. TypeOK'
  BY <1>1, <1>3 DEF IInv, TypeOK
<1>5. NoOrphanStream' /\ OneActive' /\ DoneIsDead' /\ Known' /\ Undialled'
  BY <1>1 DEF IInv, NoOrphanStream, OneActive, Active, DoneIsDead, Known, Undialled
<1>6. OnlyReadersHold'
  BY <1>1, <1>3, TwoEnds DEF IInv, OnlyReadersHold
<1>7. CASE e = Acceptor
  <2>1. received'[Dialer] = received[Dialer]
        /\ \A t \in Streams : held'[t][Dialer] = held[t][Dialer]
    BY <1>3, <1>7, TwoEnds
  <2>2. SentSoFar' /\ DialerOrder'
    BY <1>1, <2>1 DEF IInv, SentSoFar, DialerOrder
  <2>3. InOrder'
    BY <1>1, <2>1 DEF IInv, InOrder, Active
  <2> QED
    BY <1>4, <1>5, <1>6, <2>2, <2>3 DEF IInv
<1>8. CASE e = Dialer
  <2>1. Active(s)
    BY <1>1, <1>8 DEF IInv, OnlyReadersHold, Active
  <2>2. \A t \in Streams : Active(t) => t = s
    BY <2>1 DEF IInv, OneActive
  <2>3. /\ Below(received[Dialer], m)
        /\ \A j \in DOMAIN pipe[s][Dialer] : m < pipe[s][Dialer][j]
        /\ Before(received[Dialer], pipe[s][Dialer]) /\ Ascending(pipe[s][Dialer])
    BY <1>1, <1>8, <2>1 DEF IInv, InOrder
  <2>4. m <= sent[Acceptor] /\ AtMost(received[Dialer], sent[Acceptor])
    BY <1>8 DEF IInv, SentSoFar
  <2>5. \A i \in DOMAIN Append(received[e], m) :
          \/ i \in DOMAIN received[e] /\ Append(received[e], m)[i] = received[e][i]
          \/ i = Len(received[e]) + 1 /\ Append(received[e], m)[i] = m
    BY <1>2
  <2>6. AtMost(received'[Dialer], sent[Acceptor])
    BY <1>3, <1>8, <2>4, <2>5 DEF AtMost
  <2>7. SentSoFar'
    <3>1. sent[Acceptor] \in Nat
      BY TwoEnds DEF IInv, TypeOK
    <3>2. \A t \in Streams : held'[t][Dialer] <= sent[Acceptor]
      <4> TAKE t \in Streams
      <4>1. CASE t = s
        BY <1>3, <1>8, <3>1, <4>1 DEF None
      <4>2. CASE t # s
        BY <1>3, <4>2, TwoEnds DEF IInv, SentSoFar
      <4> QED
        BY <4>1, <4>2
    <3> QED
      BY <1>1, <2>6, <3>2 DEF IInv, SentSoFar
  <2>8. DialerOrder'
    <3> SUFFICES ASSUME NEW i \in DOMAIN Append(received[e], m),
                        NEW j \in DOMAIN Append(received[e], m), i < j
                 PROVE  Append(received[e], m)[i] < Append(received[e], m)[j]
      BY <1>3, <1>8 DEF DialerOrder
    <3>1. i \in DOMAIN received[e] /\ Append(received[e], m)[i] = received[e][i]
      BY <1>2
    <3>2. CASE j \in DOMAIN received[e]
      BY <1>2, <1>8, <3>1, <3>2 DEF IInv, DialerOrder
    <3>3. CASE j \notin DOMAIN received[e]
      BY <1>8, <2>3, <2>5, <3>1, <3>3 DEF Below
    <3> QED
      BY <3>2, <3>3
  <2>9. InOrder'
    <3>1. Before(received'[Dialer], pipe[s][Dialer])
      BY <1>3, <1>8, <2>3, <2>5 DEF Before
    <3>2. \A t \in Streams : Active(t)' => t = s
      BY <1>1, <2>2 DEF Active
    <3> QED
      BY <1>1, <1>3, <1>8, <2>3, <3>1, <3>2 DEF InOrder
  <2> QED
    BY <1>4, <1>5, <1>6, <2>7, <2>8, <2>9 DEF IInv
<1> QED
  BY <1>7, <1>8, TwoEnds

(* A reader that ends removes only its own stream and frees the attempt. *)
LEMMA ReaderExitsStep ==
    ASSUME IInv, NEW e \in Ends, NEW s \in Streams, ReaderExits(e, s)
    PROVE  IInv'
<1>1. /\ reader[s][e] = "reading" /\ held[s][e] = None /\ s \in dead
      /\ reader' = [reader EXCEPT ![s][e] = "done"]
      /\ pipe' = [pipe EXCEPT ![s][e] = <<>>]
      /\ table' = Forget(e, s)
      /\ UNCHANGED <<dialled, dead, held, received, sending, sent, breaks>>
  BY DEF ReaderExits, sendVars
<1>2. /\ attempting' \in BOOLEAN
      /\ e = Acceptor => attempting' = attempting
  BY TwoEnds DEF ReaderExits, EndAttempt, IInv, TypeOK
<1>3. /\ reader' \in [Streams -> [Ends -> {"none", "handshake", "reading", "done"}]]
      /\ reader'[s][e] = "done"
      /\ \A t \in Streams, o \in Ends : t # s \/ o # e => reader'[t][o] = reader[t][o]
  BY <1>1, ReaderUpdate DEF IInv
<1>4. /\ table' \in [Ends -> Streams \cup {None}]
      /\ \A o \in Ends : table'[o] = table[o] \/ table'[o] = None
      /\ \A o \in Ends, t \in Streams : reader[t][o] = "reading" => table'[o] = t \/ t \in dead
  BY <1>1, ForgetDead DEF IInv
<1>5. /\ pipe' \in [Streams -> [Ends -> Seq(Nat)]]
      /\ pipe'[s][e] = <<>>
      /\ \A t \in Streams, o \in Ends : t # s \/ o # e => pipe'[t][o] = pipe[t][o]
  <2>1. <<>> \in Seq(Nat)
    OBVIOUS
  <2> QED
    BY <1>1, <2>1 DEF IInv, TypeOK
<1>6. TypeOK'
  BY <1>1, <1>2, <1>3, <1>4, <1>5 DEF IInv, TypeOK
<1>7. NoOrphanStream'
  BY <1>1, <1>3, <1>4 DEF NoOrphanStream
<1>8. \A t \in Streams : Active(t)' => Active(t) /\ (t # s \/ e = Acceptor)
  BY <1>3, TwoEnds DEF Active
<1>9. OneActive'
  <2>1. CASE e = Acceptor
    BY <1>2, <1>8, <2>1 DEF IInv, OneActive
  <2>2. CASE e = Dialer
    <3>1. Active(s)
      BY <1>1, <2>2 DEF Active
    <3>2. \A t \in Streams : ~Active(t)'
      BY <1>8, <2>2, <3>1, TwoEnds DEF IInv, OneActive
    <3> QED
      BY <3>2 DEF OneActive
  <2> QED
    BY <2>1, <2>2, TwoEnds
<1>10. OnlyReadersHold' /\ DoneIsDead'
  BY <1>1, <1>3, TwoEnds DEF IInv, OnlyReadersHold, DoneIsDead
<1>11. Undialled'
  <2> SUFFICES ASSUME NEW t \in Streams
               PROVE  /\ t > dialled => \A o \in Ends : reader'[t][o] = "none"
                      /\ t > dialled => pipe'[t][Dialer] = <<>>
                      /\ t <= dialled => reader'[t][Dialer] # "none"
    BY <1>1 DEF Undialled
  <2>1. t > dialled => t # s
    BY <1>1 DEF IInv, Undialled
  <2> QED
    <3>1. t > dialled => pipe'[t][Dialer] = <<>>
      BY <1>5, <2>1, TwoEnds DEF IInv, Undialled
    <3>2. t > dialled => \A o \in Ends : reader'[t][o] = "none"
      BY <1>3, <2>1 DEF IInv, Undialled
    <3>3. t <= dialled => reader'[t][Dialer] # "none"
      BY <1>3, TwoEnds DEF IInv, Undialled
    <3> QED
      BY <3>1, <3>2, <3>3
<1>12. Known'
  <2>1. dialled \in Nat
    BY ConnectionBounds DEF IInv, TypeOK
  <2> QED
    BY <1>1, <1>4, <2>1 DEF IInv, Known, None
<1>13. \A t \in Streams : pipe'[t][Dialer] = pipe[t][Dialer] \/ pipe'[t][Dialer] = <<>>
  BY <1>5, TwoEnds
<1>14. SentSoFar' /\ DialerOrder'
  <2>1. \A t \in Streams : AtMost(pipe'[t][Dialer], sent[Acceptor])
    BY <1>13 DEF IInv, SentSoFar, AtMost
  <2> QED
    BY <1>1, <2>1 DEF IInv, SentSoFar, DialerOrder
<1>15. InOrder'
  <2>1. \A t \in Streams : Active(t)' => pipe'[t][Dialer] = pipe[t][Dialer]
    BY <1>5, <1>8, TwoEnds
  <2> QED
    BY <1>1, <1>8, <2>1 DEF IInv, InOrder
<1> QED
  BY <1>6, <1>7, <1>9, <1>10, <1>11, <1>12, <1>14, <1>15 DEF IInv

(* The network breaks a stream. *)
LEMMA BreakStep ==
    ASSUME IInv, NEW s \in Streams, BreakStream(s)
    PROVE  IInv'
  BY DEF BreakStream, dialVars, messageVars, sendVars, IInv, TypeOK, NoOrphanStream, OneActive,
         Active, OnlyReadersHold, DoneIsDead, Undialled, Known, SentSoFar, InOrder, DialerOrder

(* Every step keeps the invariant. *)
LEMMA NextInv == IInv /\ [Next]_vars => IInv'
<1> SUFFICES ASSUME IInv, [Next]_vars PROVE IInv'
  OBVIOUS
<1>1. CASE UNCHANGED vars
  BY <1>1
  DEF vars, dialVars, messageVars, sendVars, IInv, TypeOK, NoOrphanStream, OneActive, Active,
      OnlyReadersHold, DoneIsDead, Undialled, Known, SentSoFar, InOrder, DialerOrder
<1>2. ASSUME NEW e \in Ends, LookUp(e) \/ Write(e) \/ WriteFails(e)
      PROVE  IInv'
  BY <1>2, LookUpStep, WriteStep, WriteFailsStep
<1>3. ASSUME NEW e \in Ends, NEW s \in Streams,
             \/ Install(e, s) \/ HandshakeFails(e, s)
             \/ Decode(e, s) \/ Enqueue(e, s) \/ ReaderExits(e, s)
      PROVE  IInv'
  BY <1>3, InstallStep, HandshakeFailsStep, DecodeStep, EnqueueStep, ReaderExitsStep
<1> QED
  BY <1>1, <1>2, <1>3, DialStep, BreakStep DEF Next

-----------------------------------------------------------------------------
(* The inductive invariant holds in every reachable state. *)
THEOREM Invariance == Spec => []IInv
<1> QED
  BY InitInv, NextInv, PTL DEF Spec

(* Types hold in every reachable state. *)
THEOREM TypeCorrect == Spec => []TypeOK
<1>1. IInv => TypeOK
  BY DEF IInv
<1> QED
  BY Invariance, <1>1, PTL

(* No reader serves a live stream that its end does not send on: the guarded *)
(* deletions and the close of a replaced stream leave nothing behind.        *)
THEOREM NothingOrphaned == Spec => []NoOrphanStream
<1>1. IInv => NoOrphanStream
  BY DEF IInv
<1> QED
  BY Invariance, <1>1, PTL

(* One attempt at a time keeps the order of what arrives at the dialer over  *)
(* any number of reconnections.                                              *)
THEOREM OrderAcrossReconnection == Spec => []DialerOrder
<1>1. IInv => DialerOrder
  BY DEF IInv
<1> QED
  BY Invariance, <1>1, PTL

-----------------------------------------------------------------------------
(* Redials. *)

(* One attempt at a time: when a stream is dialled the readers of those      *)
(* before it have exited.  Only dialled streams die, and an end reads the    *)
(* stream it sends on.                                                       *)
Earlier == \A s \in Streams : s < dialled => reader[s][Dialer] = "done"
DialledDie == \A s \in dead : s <= dialled
Served == \A e \in Ends : table[e] # None => reader[table[e]][e] = "reading"

(* What a break may cost: the stream itself, and as long as the acceptor has *)
(* not completed its handshake one more stream that it replaces then.        *)
Late == {s \in dead : reader[s][Acceptor] = "handshake"}
Paid == Cardinality(dead) + Cardinality(Late) <= 2 * breaks

RInv == IInv /\ Earlier /\ DialledDie /\ Served /\ Paid

(* The sets of streams that are counted. *)
LEMMA StreamCount ==
    ASSUME NEW S \in SUBSET Streams
    PROVE  IsFiniteSet(S) /\ Cardinality(S) \in Nat
<1>1. IsFiniteSet(Streams)
  BY ConnectionBounds, FS_Interval DEF Streams
<1> QED
  BY <1>1, FS_Subset, FS_CardinalityType

(* A set counts at most one more than before with one more stream.           *)
LEMMA CountWith ==
    ASSUME NEW S \in SUBSET Streams, NEW s \in Streams, NEW T \in SUBSET Streams,
           T \subseteq S \cup {s}
    PROVE  Cardinality(T) <= Cardinality(S) + 1 /\ (T \subseteq S => Cardinality(T) <= Cardinality(S))
<1>1. IsFiniteSet(S) /\ IsFiniteSet(T) /\ Cardinality(S) \in Nat /\ Cardinality(T) \in Nat
  BY StreamCount
<1>2. /\ IsFiniteSet(S \cup {s}) /\ Cardinality(S \cup {s}) \in Nat
      /\ Cardinality(S \cup {s}) <= Cardinality(S) + 1
  BY <1>1, FS_AddElement, StreamCount
<1>3. Cardinality(T) <= Cardinality(S \cup {s})
  BY <1>2, FS_Subset
<1>4. T \subseteq S => Cardinality(T) <= Cardinality(S)
  BY <1>1, FS_Subset
<1> QED
  BY <1>1, <1>2, <1>3, <1>4

(* A set without one of its streams counts one less. *)
LEMMA CountWithout ==
    ASSUME NEW S \in SUBSET Streams, NEW s \in S, NEW T \in SUBSET Streams, T \subseteq S \ {s}
    PROVE  Cardinality(T) + 1 <= Cardinality(S)
<1>1. IsFiniteSet(S) /\ Cardinality(S) \in Nat /\ Cardinality(T) \in Nat
  BY StreamCount
<1>2. Cardinality(S \ {s}) = Cardinality(S) - 1 /\ IsFiniteSet(S \ {s})
  BY <1>1, FS_RemoveElement
<1>3. Cardinality(T) <= Cardinality(S \ {s})
  BY <1>2, FS_Subset
<1> QED
  BY <1>1, <1>2, <1>3

(* No steps that neither kill a stream nor begin a handshake cost anything.  *)
LEMMA NothingCosts ==
    ASSUME TypeOK, TypeOK', Paid, dead' = dead, breaks' = breaks, Late' \subseteq Late
    PROVE  Paid'
<1>1. dead \in SUBSET Streams /\ Late \in SUBSET Streams /\ Late' \in SUBSET Streams
  BY DEF TypeOK, Late
<1>2. Cardinality(Late') <= Cardinality(Late)
  BY <1>1, StreamCount, FS_Subset
<1>3. /\ Cardinality(dead) \in Nat /\ Cardinality(Late) \in Nat /\ Cardinality(Late') \in Nat
      /\ breaks \in Nat
  BY <1>1, StreamCount DEF TypeOK
<1> QED
  BY <1>2, <1>3 DEF Paid

(* Before the first dial nothing has broken. *)
LEMMA InitRedials == Init => RInv
<1> SUFFICES ASSUME Init PROVE RInv
  OBVIOUS
<1>1. Earlier /\ DialledDie /\ Served
  BY TwoEnds DEF Init, Earlier, DialledDie, Served, Streams
<1>2. dead = {} /\ Late = {} /\ breaks = 0
  BY DEF Init, Late
<1>3. Paid
  BY <1>2, FS_EmptySet DEF Paid
<1> QED
  BY <1>1, <1>3, InitInv DEF RInv

(* Dialling: every stream so far is done. *)
LEMMA DialCost == RInv /\ IInv' /\ Dial => RInv'
<1> SUFFICES ASSUME RInv, IInv', Dial PROVE RInv'
  OBVIOUS
<1>1. /\ ~attempting
      /\ dialled' = dialled + 1 /\ dialled' \in Streams
      /\ reader' = [reader EXCEPT ![dialled'] = [e \in Ends |-> "handshake"]]
      /\ UNCHANGED <<table, dead, breaks>>
  BY ConnectionBounds
  DEF Dial, NoAttempt, RInv, IInv, TypeOK, Streams
<1>2. \A s \in Streams : s # dialled' => reader'[s] = reader[s]
  BY <1>1 DEF RInv, IInv, TypeOK
<1>3. \A s \in Streams : s <= dialled => reader[s][Dialer] = "done"
  BY <1>1, TwoEnds DEF RInv, IInv, OneActive, Active, Undialled, TypeOK
<1>4. Earlier'
  <2> SUFFICES ASSUME NEW s \in Streams, s < dialled'  PROVE reader'[s][Dialer] = "done"
    BY DEF Earlier
  <2>1. s <= dialled /\ s # dialled'
    BY <1>1 DEF RInv, IInv, TypeOK, Streams
  <2> QED
    BY <1>2, <1>3, <2>1
<1>5. Served'
  <2> SUFFICES ASSUME NEW e \in Ends, table[e] # None  PROVE reader'[table[e]][e] = "reading"
    BY <1>1 DEF Served
  <2>1. table[e] \in Streams /\ table[e] <= dialled
    BY DEF RInv, IInv, TypeOK, Known
  <2>2. table[e] # dialled'
    BY <1>1, <2>1 DEF RInv, IInv, TypeOK, Streams
  <2> QED
    BY <1>2, <2>1, <2>2 DEF RInv, Served
<1>6. DialledDie' /\ dialled' \notin dead
  BY <1>1 DEF RInv, DialledDie, IInv, TypeOK, Streams
<1>7. Late' \subseteq Late
  BY <1>1, <1>2, <1>6 DEF Late, RInv, IInv, TypeOK
<1>8. Paid'
  BY <1>1, <1>7, NothingCosts DEF RInv, IInv
<1> QED
  BY <1>4, <1>5, <1>6, <1>8 DEF RInv

(* A reader that goes on or ends begins no handshake. *)
LEMMA ReaderCost ==
    ASSUME RInv, IInv', NEW e \in Ends, NEW s \in Streams,
           NEW x, x = "reading" \/ x = "done",
           reader' = [reader EXCEPT ![s][e] = x], dialled' = dialled
    PROVE  /\ \A t \in Streams, o \in Ends : t # s \/ o # e => reader'[t][o] = reader[t][o]
           /\ reader'[s][e] = x
           /\ x = "done" => Earlier'
           /\ reader[s][e] = "handshake" => Earlier'
           /\ dead' = dead /\ breaks' = breaks => DialledDie' /\ Paid'
<1>1. /\ \A t \in Streams, o \in Ends : t # s \/ o # e => reader'[t][o] = reader[t][o]
      /\ reader'[s][e] = x
  BY ReaderUpdate DEF RInv, IInv
<1>2. ASSUME x = "done" \/ reader[s][e] = "handshake"
      PROVE  Earlier'
  BY <1>1, <1>2, TwoEnds DEF RInv, Earlier
<1>3. ASSUME dead' = dead, breaks' = breaks
      PROVE  DialledDie' /\ Paid'
  <2>1. Late' \subseteq Late
    BY <1>1, <1>3, TwoEnds DEF RInv, IInv, TypeOK, Late
  <2>2. Paid'
    BY <1>3, <2>1, NothingCosts DEF RInv, IInv
  <2>3. DialledDie'
    BY <1>3 DEF RInv, DialledDie
  <2> QED
    BY <2>2, <2>3
<1> QED
  BY <1>1, <1>2, <1>3

(* What an end sends on it reads: a handshake is of another stream. *)
LEMMA InstallCost ==
    ASSUME RInv, IInv', NEW e \in Ends, NEW s \in Streams, Install(e, s)
    PROVE  RInv'
<1> DEFINE t == table[e]
<1>1. /\ reader[s][e] = "handshake"
      /\ reader' = [reader EXCEPT ![s][e] = "reading"]
      /\ table' = [table EXCEPT ![e] = s]
      /\ dead' = dead \cup ({t} \ {None})
      /\ dialled' = dialled /\ breaks' = breaks
  BY DEF Install, Replaced, Continues
<1>2. /\ \A v \in Streams, o \in Ends : v # s \/ o # e => reader'[v][o] = reader[v][o]
      /\ reader'[s][e] = "reading" /\ Earlier'
  <2>1. /\ \A v \in Streams, o \in Ends : v # s \/ o # e => reader'[v][o] = reader[v][o]
        /\ reader'[s][e] = "reading"
    BY <1>1, ReaderUpdate DEF RInv, IInv
  <2>2. Earlier'
    BY <1>1, <2>1, TwoEnds DEF RInv, Earlier
  <2> QED
    BY <2>1, <2>2
<1>3. /\ s <= dialled /\ t # s
      /\ t # None => t \in Streams /\ t <= dialled /\ reader[t][e] = "reading"
  <2>1. dialled \in Nat /\ s \in Int
    BY ConnectionBounds DEF RInv, IInv, TypeOK, Streams
  <2>2. s <= dialled
    BY <1>1, <2>1 DEF RInv, IInv, Undialled
  <2>3. t # None => t \in Streams /\ t <= dialled /\ reader[t][e] = "reading"
    BY DEF RInv, IInv, Known, Served, TypeOK
  <2>4. s # None
    BY DEF Streams, None
  <2> QED
    BY <1>1, <2>2, <2>3, <2>4
<1>4. Served'
  <2> SUFFICES ASSUME NEW o \in Ends, table'[o] # None  PROVE reader'[table'[o]][o] = "reading"
    BY DEF Served
  <2>1. CASE o = e
    BY <1>1, <1>2, <2>1 DEF RInv, IInv, TypeOK
  <2>2. CASE o # e
    <3>1. table'[o] = table[o] /\ table[o] \in Streams
      BY <1>1, <2>2 DEF RInv, IInv, TypeOK
    <3> QED
      BY <1>2, <2>2, <3>1 DEF RInv, Served
  <2> QED
    BY <2>1, <2>2
<1>5. DialledDie'
  BY <1>1, <1>3 DEF RInv, DialledDie
<1>6. CASE dead' = dead
  BY <1>1, <1>2, <1>4, <1>6, ReaderCost DEF RInv
<1>7. CASE dead' # dead
  <2>1. t # None /\ t \in Streams \ dead /\ dead' = dead \cup {t}
    BY <1>1, <1>3, <1>7
  <2>2. e = Acceptor
    <3> SUFFICES ASSUME e = Dialer  PROVE FALSE
      BY TwoEnds
    <3>1. Active(s) /\ Active(t)
      BY <1>1, <1>3, <2>1 DEF Active
    <3> QED
      BY <1>3, <2>1, <3>1 DEF RInv, IInv, OneActive
  <2>3. s \in dead
    <3>1. reader[t][Dialer] # "done" /\ dialled \in Nat /\ s \in Int /\ t \in Int
      BY <2>1 DEF RInv, IInv, DoneIsDead, TypeOK, Streams
    <3>2. ~(t < dialled)
      BY <2>1, <3>1 DEF RInv, Earlier
    <3>3. s < dialled
      BY <1>3, <2>1, <3>1, <3>2
    <3> QED
      BY <3>3 DEF RInv, IInv, Earlier, DoneIsDead
  <2>4. s \in Late /\ Late' \subseteq Late \ {s}
    <3>1. s \in Late
      BY <1>1, <2>2, <2>3 DEF Late
    <3> SUFFICES ASSUME NEW v \in Late'  PROVE v \in Late /\ v # s
      BY <3>1
    <3>2. v \in dead \cup {t} /\ reader'[v][Acceptor] = "handshake" /\ v \in Streams
      BY <2>1 DEF Late, RInv, IInv, TypeOK
    <3>3. v # s
      BY <1>2, <2>2, <3>2
    <3>4. reader[v][Acceptor] = "handshake"
      BY <1>2, <3>2, <3>3, TwoEnds
    <3>5. v # t
      BY <1>3, <2>1, <2>2, <3>4
    <3> QED
      BY <3>2, <3>3, <3>4, <3>5 DEF Late
  <2>5. dead \in SUBSET Streams /\ dead' \in SUBSET Streams /\ Late \in SUBSET Streams
        /\ Late' \in SUBSET Streams
    BY <2>4 DEF RInv, IInv, TypeOK, Late
  <2>6. Cardinality(dead') <= Cardinality(dead) + 1
    BY <2>1, <2>5, CountWith
  <2>7. Cardinality(Late') + 1 <= Cardinality(Late)
    BY <2>4, <2>5, CountWithout
  <2>8. /\ Cardinality(dead) \in Nat /\ Cardinality(Late) \in Nat /\ breaks \in Nat
        /\ Cardinality(dead') \in Nat /\ Cardinality(Late') \in Nat
    BY <2>5, StreamCount DEF RInv, IInv, TypeOK
  <2>9. Paid'
    BY <1>1, <2>6, <2>7, <2>8 DEF RInv, Paid
  <2> QED
    BY <1>2, <1>4, <1>5, <2>9 DEF RInv
<1> QED
  BY <1>6, <1>7

(* A handshake that fails replaces nothing. *)
LEMMA HandshakeFailsCost ==
    ASSUME RInv, IInv', NEW e \in Ends, NEW s \in Streams, HandshakeFails(e, s)
    PROVE  RInv'
<1>1. /\ reader[s][e] = "handshake"
      /\ reader' = [reader EXCEPT ![s][e] = "done"]
      /\ dialled' = dialled /\ table' = table /\ dead' = dead /\ breaks' = breaks
  BY DEF HandshakeFails
<1>2. /\ \A v \in Streams, o \in Ends : v # s \/ o # e => reader'[v][o] = reader[v][o]
      /\ Earlier' /\ DialledDie' /\ Paid'
  BY <1>1, ReaderCost
<1>3. Served'
  <2> SUFFICES ASSUME NEW o \in Ends, table[o] # None  PROVE reader'[table[o]][o] = "reading"
    BY <1>1 DEF Served
  <2>1. reader[table[o]][o] = "reading" /\ table[o] \in Streams
    BY DEF RInv, Served, IInv, TypeOK
  <2> QED
    BY <1>1, <1>2, <2>1
<1> QED
  BY <1>2, <1>3 DEF RInv

(* A reader takes its stream out of the table when it exits. *)
LEMMA ReaderExitsCost ==
    ASSUME RInv, IInv', NEW e \in Ends, NEW s \in Streams, ReaderExits(e, s)
    PROVE  RInv'
<1>1. /\ reader[s][e] = "reading"
      /\ reader' = [reader EXCEPT ![s][e] = "done"]
      /\ table' = Forget(e, s)
      /\ dialled' = dialled /\ dead' = dead /\ breaks' = breaks
  BY DEF ReaderExits
<1>2. /\ \A v \in Streams, o \in Ends : v # s \/ o # e => reader'[v][o] = reader[v][o]
      /\ Earlier' /\ DialledDie' /\ Paid'
  BY <1>1, ReaderCost
<1>3. Served'
  <2> SUFFICES ASSUME NEW o \in Ends, table'[o] # None  PROVE reader'[table'[o]][o] = "reading"
    BY DEF Served
  <2>1. table'[o] = table[o] /\ (o = e => table[o] # s) /\ table[o] \in Streams
    BY <1>1 DEF Forget, RInv, IInv, TypeOK
  <2> QED
    BY <1>2, <2>1 DEF RInv, Served
<1> QED
  BY <1>2, <1>3 DEF RInv

(* A break costs its stream, and one more if its handshake is still to come. *)
LEMMA BreakCost ==
    ASSUME RInv, IInv', NEW s \in Streams, BreakStream(s)
    PROVE  RInv'
<1>1. /\ s <= dialled /\ dead' = dead \cup {s} /\ breaks' = breaks + 1
      /\ UNCHANGED <<dialled, reader, table>>
  BY DEF BreakStream, dialVars
<1>2. Earlier' /\ DialledDie' /\ Served'
  BY <1>1 DEF RInv, Earlier, DialledDie, Served
<1>3. dead \in SUBSET Streams /\ dead' \in SUBSET Streams /\ Late \in SUBSET Streams
      /\ Late' \in SUBSET Streams /\ Late' \subseteq Late \cup {s}
  BY <1>1 DEF RInv, IInv, TypeOK, Late
<1>4. Cardinality(dead') <= Cardinality(dead) + 1 /\ Cardinality(Late') <= Cardinality(Late) + 1
  BY <1>1, <1>3, CountWith
<1>5. /\ Cardinality(dead) \in Nat /\ Cardinality(Late) \in Nat /\ breaks \in Nat
      /\ Cardinality(dead') \in Nat /\ Cardinality(Late') \in Nat
  BY <1>3, StreamCount DEF RInv, IInv, TypeOK
<1>6. Paid'
  BY <1>1, <1>4, <1>5 DEF RInv, Paid
<1> QED
  BY <1>2, <1>6 DEF RInv

(* The other steps touch neither a reader nor what is dead. *)
LEMMA QuietCost ==
    ASSUME RInv, IInv', UNCHANGED <<dialled, reader, dead, breaks>>,
           \A o \in Ends : table'[o] = table[o] \/ table'[o] = None
    PROVE  RInv'
<1>1. Earlier' /\ DialledDie' /\ Served'
  BY DEF RInv, Earlier, DialledDie, Served
<1>2. Late' = Late
  BY DEF Late
<1>3. Paid'
  BY <1>2, NothingCosts DEF RInv, IInv
<1> QED
  BY <1>1, <1>3 DEF RInv

(* Every step keeps the account. *)
LEMMA NextRedials == RInv /\ [Next]_vars => RInv'
<1> SUFFICES ASSUME RInv, [Next]_vars PROVE RInv'
  OBVIOUS
<1>1. IInv'
  BY NextInv DEF RInv
<1>2. CASE UNCHANGED vars
  BY <1>1, <1>2, QuietCost DEF vars, dialVars
<1>3. ASSUME NEW e \in Ends, LookUp(e) \/ Write(e) \/ WriteFails(e)
      PROVE  RInv'
  <2>1. UNCHANGED <<dialled, reader, dead, breaks>>
    BY <1>3 DEF LookUp, Write, WriteFails, dialVars
  <2>2. \A o \in Ends : table'[o] = table[o] \/ table'[o] = None
    BY <1>3 DEF LookUp, Write, WriteFails, Forget, RInv, IInv, TypeOK
  <2> QED
    BY <1>1, <2>1, <2>2, QuietCost
<1>4. ASSUME NEW e \in Ends, NEW s \in Streams, Decode(e, s) \/ Enqueue(e, s)
      PROVE  RInv'
  <2>1. UNCHANGED <<dialled, reader, dead, breaks, table>>
    BY <1>4 DEF Decode, Enqueue, dialVars
  <2> QED
    BY <1>1, <2>1, QuietCost
<1>5. ASSUME NEW e \in Ends, NEW s \in Streams,
             Install(e, s) \/ HandshakeFails(e, s) \/ ReaderExits(e, s)
      PROVE  RInv'
  BY <1>1, <1>5, InstallCost, HandshakeFailsCost, ReaderExitsCost
<1> QED
  BY <1>1, <1>2, <1>3, <1>4, <1>5, DialCost, BreakCost DEF Next

(* However the handshakes and the readers interleave, every redial is paid   *)
(* for by a break of the network, and no break pays for more than two        *)
(* (connectionManager, tryConnect).                                          *)
THEOREM RedialsBoundedHolds == Spec => []RedialsBounded
<1>1. RInv => RedialsBounded
  <2> SUFFICES ASSUME RInv PROVE RedialsBounded
    OBVIOUS
  <2> DEFINE before == 1 .. dialled - 1
  <2>1. dialled \in Nat /\ dialled <= MaxStreams /\ breaks \in Nat
    BY ConnectionBounds DEF RInv, IInv, TypeOK
  <2>2. before \subseteq dead
    BY <2>1, ConnectionBounds DEF RInv, IInv, Earlier, DoneIsDead, Streams
  <2>3. IsFiniteSet(dead) /\ Cardinality(dead) \in Nat /\ Cardinality(Late) \in Nat
    BY StreamCount DEF RInv, IInv, TypeOK, Late
  <2>4. Cardinality(before) <= Cardinality(dead)
    BY <2>2, <2>3, FS_Subset
  <2>5. dialled = 0 \/ Cardinality(before) = dialled - 1
    BY <2>1, FS_Interval
  <2> QED
    BY <2>1, <2>3, <2>4, <2>5 DEF RInv, Paid, RedialsBounded
<1>2. Spec => []RInv
  BY InitRedials, NextRedials, PTL DEF Spec
<1> QED
  BY <1>1, <1>2, PTL
=============================================================================
