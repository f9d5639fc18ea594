----------------------------- MODULE AgreedLog ------------------------------
(***************************************************************************)
(* What fragment replication promises: one log, extended one entry at a    *)
(* time, and learners that each hold a prefix of it and learn its entries  *)
(* in order.                                                               *)
(***************************************************************************)
EXTENDS Integers, Sequences

CONSTANTS Learners, Entry

VARIABLES log, learned

Init == log = <<>> /\ learned = [p \in Learners |-> <<>>]

Decide ==
    /\ Len(log') = Len(log) + 1
    /\ log'[Len(log')] \in Entry /\ SubSeq(log', 1, Len(log)) = log
    /\ UNCHANGED learned

Learn(p) ==
    /\ Len(learned[p]) < Len(log)
    /\ learned' = [learned EXCEPT ![p] = Append(@, log[Len(@) + 1])]
    /\ UNCHANGED log

Next == Decide \/ \E p \in Learners : Learn(p)

Spec == Init /\ [][Next]_<<log, learned>>
=============================================================================
