----------------------------- MODULE RequestLog -----------------------------
(***************************************************************************)
(* What the runtime ledger promises its callers, whatever they send and    *)
(* whenever the machine stops: a request takes effect at most once, the    *)
(* order of what took effect never changes, and what a caller was told is  *)
(* done is never lost.  A power failure may drop what nobody was told of.  *)
(***************************************************************************)
EXTENDS Naturals, Sequences, FiniteSets

CONSTANT Ids

VARIABLES log,    \* the requests that took effect, in order
          told    \* the requests some caller was told are done

Init == log = << >> /\ told = {}

Accept(id) ==
    /\ \A k \in DOMAIN log : log[k] # id
    /\ log' = Append(log, id)
    /\ UNCHANGED told

Tell(id) ==
    /\ \E k \in DOMAIN log : log[k] = id
    /\ told' = told \cup {id}
    /\ UNCHANGED log

Lose ==
    /\ \E n \in 0..Len(log) : log' = SubSeq(log, 1, n)
    /\ \A id \in told : \E k \in DOMAIN log' : log'[k] = id
    /\ UNCHANGED told

Next == Lose \/ \E id \in Ids : Accept(id) \/ Tell(id)

Spec == Init /\ [][Next]_<<log, told>>
=============================================================================
