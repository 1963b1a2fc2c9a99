---------------------------- MODULE LedgerReplay ----------------------------
(***************************************************************************)
(* What a chain of runtime records says (internal/sddstatus/               *)
(* runtime_ledger.go, applyRuntimeRecord and the events it applies).  The  *)
(* ledger keeps no state but its records: every operation replays them     *)
(* from the first, and a record that does not follow makes the whole chain *)
(* unreadable.  A revision is a number that stands for the hash of a       *)
(* record; 0 is the empty ledger.  A work unit stands for the whole scope  *)
(* of an objective (unit, evidence goal, limits), so the limits are the    *)
(* same for every unit.                                                    *)
(***************************************************************************)
EXTENDS Integers, Sequences, FiniteSets

CONSTANTS MaxAttempts,   \* max_attempts of every objective
          MaxLines,      \* max_changed_lines of every objective
          None

Empty == [ok |-> TRUE, rev |-> 0, requests |-> << >>, gen |-> 0, unit |-> None,
          attempts |-> << >>, charged |-> 0, lines |-> 0, evidence |-> None,
          decision |-> FALSE, complete |-> FALSE, binding |-> None]
Damaged == [Empty EXCEPT !.ok = FALSE]

LastAttempt(s) == s.attempts[Len(s.attempts)]
Active(s) == s.attempts # << >> /\ LastAttempt(s).outcome = "running"

\* A reset may follow a terminal scope: decided, complete, or a last attempt
\* that failed or was interrupted.  Write and replay share this test.
ResetPermitted(s) ==
    \/ s.decision \/ s.complete
    \/ s.attempts # << >> /\ LastAttempt(s).outcome = "failed"

Closed(s) == [s EXCEPT !.unit = None, !.charged = 0, !.lines = 0, !.evidence = None,
                       !.decision = FALSE, !.complete = FALSE]

-----------------------------------------------------------------------------
\* The mutated forms of the definitions below.
Known_Ignored(s, id) == {}
-----------------------------------------------------------------------------
\* The records of a chain, and the one a request left there, if any.
Recorded(s) == {s.requests[n] : n \in DOMAIN s.requests}
Known(s, id) == {p \in Recorded(s) : p.id = id}

\* applyRuntimeBeginEvent: what it demands, and the attempt it opens.
Opens(s, r) ==
    /\ ~Active(s) /\ ~s.complete /\ ~s.decision
    /\ r.ordinal = Len(s.attempts) + 1
    /\ IF s.unit = None THEN r.gen = s.gen + 1
       ELSE /\ r.gen = s.gen /\ r.unit = s.unit
            /\ r.tree = LastAttempt(s).finish
    /\ s.charged < MaxAttempts /\ s.lines < MaxLines

Opened(s, r) ==
    [s EXCEPT !.gen = r.gen, !.unit = r.unit, !.charged = @ + 1,
              !.attempts = Append(@, [gen |-> r.gen, unit |-> r.unit, begin |-> r.tree,
                                      finish |-> None, outcome |-> "running",
                                      exceeded |-> FALSE, token |-> r.rev])]

\* applyRuntimeAdvanceEvent: a passed objective makes room for another unit.
Advances(s, r) ==
    /\ ~Active(s) /\ s.unit # None /\ s.complete /\ ~s.decision
    /\ s.attempts # << >> /\ LastAttempt(s).gen = s.gen
    /\ LastAttempt(s).outcome = "passed" /\ ~LastAttempt(s).exceeded
    /\ r.unit # s.unit
    /\ Opens(Closed(s), r)

\* applyRuntimeFinishEvent: lines are charged whatever the outcome; a passed
\* attempt within its budget completes the objective, a spent budget asks for
\* a decision.
Finishes(s, r) ==
    /\ Active(s) /\ r.ordinal = Len(s.attempts)
    /\ r.exceeded = (s.lines + r.lines > MaxLines)

Finished(s, r) ==
    LET n == Len(s.attempts)
        done == r.outcome = "passed" /\ ~r.exceeded IN
    [s EXCEPT !.attempts[n] = [@ EXCEPT !.finish = r.tree, !.outcome = r.outcome,
                                        !.exceeded = r.exceeded],
              !.lines = @ + r.lines, !.evidence = r.evidence,
              !.complete = done,
              !.decision = ~done /\ (\/ r.exceeded \/ s.charged >= MaxAttempts
                                     \/ s.lines + r.lines >= MaxLines)]

\* The binding half of an atomic remediation: the attempt, its evidence and
\* the binding change in one record, unless the budget was exceeded.
Remediates(s, r) ==
    /\ s.binding # None /\ s.binding = r.expected
    /\ s.evidence \in {None, r.remediates}
    /\ r.binding.lineage = s.binding.lineage => r.evidence # r.remediates
    /\ Finishes(s, r)

Follows(s, r) ==
    /\ r.prev = s.rev /\ Known(s, r.id) = {}
    /\ \/ r.op = "begin" /\ Opens(s, r)
       \/ r.op = "advance" /\ Advances(s, r)
       \/ r.op = "finish" /\ Finishes(s, r)
       \/ r.op = "remediate" /\ Remediates(s, r)
       \/ r.op = "reset" /\ ~Active(s) /\ s.unit # None /\ ResetPermitted(s) /\ r.gen = s.gen
       \/ r.op = "bind" /\ r.expected = s.binding

Effect(s, r) ==
    CASE r.op = "begin" -> Opened(s, r)
      [] r.op = "advance" -> Opened(Closed(s), r)
      [] r.op = "finish" -> Finished(s, r)
      [] r.op = "remediate" -> [Finished(s, r) EXCEPT !.binding = IF r.exceeded THEN @ ELSE r.binding]
      [] r.op = "reset" -> Closed(s)
      [] r.op = "bind" -> [s EXCEPT !.binding = r.binding]

\* applyRuntimeRecord
Apply(s, r) ==
    IF s.ok /\ Follows(s, r)
    THEN [Effect(s, r) EXCEPT !.rev = r.rev,
                              !.requests = Append(@, [id |-> r.id, digest |-> r.digest, rev |-> r.rev])]
    ELSE Damaged
=============================================================================
