----------------------------- MODULE DurableLog -----------------------------
(***************************************************************************)
(* What a write-ahead log with group commit promises to its clients: the   *)
(* records form one sequence that only grows at its end, a prefix of it is *)
(* durable, the durable prefix only grows, and a client is told "done"     *)
(* about a record only when the record lies in the durable prefix.         *)
(***************************************************************************)
EXTENDS Naturals, Sequences

CONSTANT Record     \* the records, each with a field seq: its ticket, or 0

VARIABLES
    log,      \* every record ever accepted, in order
    durable,  \* how many of them a crash can no longer take away
    acked     \* tickets whose clients were told that the write is durable

vars == <<log, durable, acked>>

\* The tickets of the records in a prefix of the log.
Tickets(n) == {log[i].seq : i \in 1..n}

Init ==
    /\ log = << >>
    /\ durable = 0
    /\ acked = {}

\* Which record is accepted is the client's choice.
Accept ==
    /\ log' # << >>
    /\ log' = Append(log, log'[Len(log')])
    /\ log'[Len(log')] \in Record
    /\ UNCHANGED <<durable, acked>>

Harden ==
    /\ durable' \in durable..Len(log)
    /\ UNCHANGED <<log, acked>>

Acknowledge ==
    /\ acked \subseteq acked'
    /\ acked' \subseteq acked \cup Tickets(durable)
    /\ UNCHANGED <<log, durable>>

Next == Accept \/ Harden \/ Acknowledge

Spec == Init /\ [][Next]_vars
=============================================================================
