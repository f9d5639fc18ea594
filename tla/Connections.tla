------------------------------ MODULE Connections ------------------------------
(***************************************************************************)
(* The connection of one pair of replicas (pkg/network/network.go).  The    *)
(* replica with the lower ID dials; the stream carries messages both ways.  *)
(* Each end keeps the stream it sends on in its connections table and runs  *)
(* one reader goroutine per stream, which puts what it decodes into the     *)
(* replica's message queue.  When a stream breaks both ends notice, each in *)
(* its own time, and the dialer's connection manager dials again; the       *)
(* acceptor's goroutines handle the handshakes they accepted in any order.  *)
(* The pairs of a mesh are independent of each other.                       *)
(***************************************************************************)
EXTENDS Integers, Sequences, FiniteSets

CONSTANTS
    MaxStreams,   \* bound: streams dialled, numbered in that order
    MaxMessages,  \* bound: [Ends -> Nat], messages an end sends, numbered in that order
    MaxBreaks     \* bound: streams the network breaks

Dialer == "dialer"
Acceptor == "acceptor"
Ends == {Dialer, Acceptor}
Other(e) == CHOOSE o \in Ends : o # e
Streams == 1 .. MaxStreams
None == 0

ASSUME ConnectionBounds == MaxStreams \in Nat /\ MaxMessages \in [Ends -> Nat] /\ MaxBreaks \in Nat

VARIABLES
    dialled,     \* streams dialled so far
    attempting,  \* connAttempts of the dialer
    reader,      \* [Streams -> [Ends -> state of the goroutine]]
    table,       \* connections of each end: the stream it sends on
    dead,        \* streams closed by an end or broken by the network
    pipe,        \* [Streams -> [Ends -> Seq]]: under way to an end, FIFO
    held,        \* [Streams -> [Ends -> message]]: decoded, not yet in the queue
    sending,     \* the stream a sender of an end has looked up
    sent,        \* messages each end has sent
    received,    \* [Ends -> Seq]: put into the message queue, in this order
    breaks       \* streams the network has broken

dialVars == <<dialled, attempting>>
messageVars == <<pipe, held, received>>
sendVars == <<sending, sent>>
vars == <<dialVars, reader, table, dead, messageVars, sendVars, breaks>>

Init ==
    /\ dialled = 0 /\ attempting = FALSE
    /\ reader = [s \in Streams |-> [e \in Ends |-> "none"]]
    /\ table = [e \in Ends |-> None]
    /\ dead = {} /\ breaks = 0
    /\ pipe = [s \in Streams |-> [e \in Ends |-> <<>>]]
    /\ held = [s \in Streams |-> [e \in Ends |-> None]]
    /\ sending = [e \in Ends |-> None] /\ sent = [e \in Ends |-> 0]
    /\ received = [e \in Ends |-> <<>>]

-----------------------------------------------------------------------------
(* connectionManager and tryConnect: one attempt at a time, from the dial    *)
(* until the reader of the stream exits.                                     *)

NoAttempt == ~attempting

Dial ==
    /\ NoAttempt /\ table[Dialer] = None
    /\ dialled < MaxStreams
    /\ dialled' = dialled + 1 /\ attempting' = TRUE
    /\ reader' = [reader EXCEPT ![dialled'] = [e \in Ends |-> "handshake"]]
    /\ UNCHANGED <<table, dead, messageVars, sendVars, breaks>>

\* Mutant: the stream that is replaced stays open.
Nothing(e) == {}
Replaced(e) == {table[e]} \ {None}

\* Mutant: the attempt ends with the handshake.
Finished(e) == attempting' = (attempting /\ e = Acceptor)
Continues(e) == UNCHANGED attempting

(* After the handshake: the stream replaces and closes the one in the table. *)
(* The acceptor may decode the identifier of a stream that has died since.   *)
Install(e, s) ==
    /\ reader[s][e] = "handshake"
    /\ reader' = [reader EXCEPT ![s][e] = "reading"]
    /\ table' = [table EXCEPT ![e] = s]
    /\ dead' = dead \cup Replaced(e)
    /\ Continues(e)
    /\ UNCHANGED <<dialled, messageVars, sendVars, breaks>>

EndAttempt(e) == attempting' = (attempting /\ e = Acceptor)

HandshakeFails(e, s) ==
    /\ reader[s][e] = "handshake" /\ s \in dead
    /\ reader' = [reader EXCEPT ![s][e] = "done"]
    /\ EndAttempt(e)
    /\ UNCHANGED <<dialled, table, dead, messageVars, sendVars, breaks>>

-----------------------------------------------------------------------------
(* Send: the stream is looked up, then written to. *)

Forget(e, s) == [table EXCEPT ![e] = IF @ = s THEN None ELSE @]

LookUp(e) ==
    /\ sending[e] = None /\ table[e] # None /\ sent[e] < MaxMessages[e]
    /\ sending' = [sending EXCEPT ![e] = table[e]]
    /\ UNCHANGED <<dialVars, reader, table, dead, messageVars, sent, breaks>>

Encoded(e) ==
    /\ sending[e] # None
    /\ sending' = [sending EXCEPT ![e] = None] /\ sent' = [sent EXCEPT ![e] = @ + 1]

(* What is written to a stream that died unnoticed is lost. *)
Write(e) ==
    /\ Encoded(e)
    /\ pipe' = IF sending[e] \in dead THEN pipe
               ELSE [pipe EXCEPT ![sending[e]][Other(e)] = Append(@, sent'[e])]
    /\ UNCHANGED <<dialVars, reader, table, dead, held, received, breaks>>

WriteFails(e) ==
    /\ Encoded(e) /\ sending[e] \in dead
    /\ table' = Forget(e, sending[e])
    /\ UNCHANGED <<dialVars, reader, dead, messageVars, breaks>>

-----------------------------------------------------------------------------
(* The reader of stream s at end e. *)

Decode(e, s) ==
    /\ reader[s][e] = "reading" /\ held[s][e] = None /\ pipe[s][e] # <<>>
    /\ held' = [held EXCEPT ![s][e] = Head(pipe[s][e])]
    /\ pipe' = [pipe EXCEPT ![s][e] = Tail(@)]
    /\ UNCHANGED <<dialVars, reader, table, dead, received, sendVars, breaks>>

(* A reader waits here while the message queue is full. *)
Enqueue(e, s) ==
    /\ held[s][e] # None
    /\ received' = [received EXCEPT ![e] = Append(@, held[s][e])]
    /\ held' = [held EXCEPT ![s][e] = None]
    /\ UNCHANGED <<dialVars, reader, table, dead, pipe, sendVars, breaks>>

(* A dead stream yields an error at once or after what is still buffered. *)
ReaderExits(e, s) ==
    /\ reader[s][e] = "reading" /\ held[s][e] = None /\ s \in dead
    /\ reader' = [reader EXCEPT ![s][e] = "done"]
    /\ pipe' = [pipe EXCEPT ![s][e] = <<>>]
    /\ table' = Forget(e, s)
    /\ EndAttempt(e)
    /\ UNCHANGED <<dialled, dead, held, received, sendVars, breaks>>

(* The network fails, or a write does not end within its five seconds.       *)
BreakStream(s) ==
    /\ s <= dialled /\ s \notin dead /\ breaks < MaxBreaks
    /\ dead' = dead \cup {s} /\ breaks' = breaks + 1
    /\ UNCHANGED <<dialVars, reader, table, messageVars, sendVars>>

-----------------------------------------------------------------------------
HandshakeEnds(e, s) == Install(e, s) \/ HandshakeFails(e, s)

Next ==
    \/ Dial
    \/ \E e \in Ends : LookUp(e) \/ Write(e) \/ WriteFails(e)
    \/ \E e \in Ends, s \in Streams :
        Install(e, s) \/ HandshakeFails(e, s) \/ Decode(e, s) \/ Enqueue(e, s) \/ ReaderExits(e, s)
    \/ \E s \in Streams : BreakStream(s)

Spec == Init /\ [][Next]_vars

(* The connection manager ticks, every goroutine that is not blocked goes on *)
(* and message workers make room; nobody has to send.                        *)
Fairness ==
    /\ WF_vars(Dial)
    /\ \A e \in Ends, s \in Streams :
        /\ WF_vars(HandshakeEnds(e, s)) /\ WF_vars(Enqueue(e, s)) /\ WF_vars(ReaderExits(e, s))

FairSpec == Spec /\ Fairness

-----------------------------------------------------------------------------
(* Properties. *)

(* Every variable has the type its declaration gives it. *)
TypeOK ==
    /\ dialled \in 0 .. MaxStreams /\ attempting \in BOOLEAN
    /\ reader \in [Streams -> [Ends -> {"none", "handshake", "reading", "done"}]]
    /\ table \in [Ends -> Streams \cup {None}] /\ dead \subseteq Streams
    /\ pipe \in [Streams -> [Ends -> Seq(Nat)]] /\ held \in [Streams -> [Ends -> Nat]]
    /\ sending \in [Ends -> Streams \cup {None}] /\ sent \in [Ends -> Nat]
    /\ received \in [Ends -> Seq(Nat)] /\ breaks \in Nat

(* The dialer keeps connAttempts until the reader of the old stream exits:   *)
(* what the peer sent arrives at the dialer in the order it was sent, across *)
(* reconnections too, and nothing twice.                                     *)
DialerOrder ==
    \A i, j \in DOMAIN received[Dialer] : i < j => received[Dialer][i] < received[Dialer][j]

(* Every stream that is read is the one the end sends on or is dead: a stale *)
(* reader or sender removes no successor from the table ("c.conn == conn",   *)
(* "c == pc") and a successor closes what it replaces.                       *)
NoOrphanStream ==
    \A e \in Ends, s \in Streams : reader[s][e] = "reading" => table[e] = s \/ s \in dead

(* A broken stream costs at most two redials: the second when the acceptor   *)
(* completes the broken stream's handshake late and closes its successor.    *)
RedialsBounded == dialled <= 1 + 2 * breaks

(* "Verify both endpoints reference the same stream" (network_test.go) and   *)
(* "The lower-ID node must redial": whatever breaks, both ends end up with   *)
(* the same live stream in their tables.                                     *)
SameStream ==
    table[Dialer] # None /\ table[Dialer] = table[Acceptor] /\ table[Dialer] \notin dead
Reconnects == <>[]SameStream
=============================================================================
