---------------------------- MODULE MCRuntimeLedger ----------------------------
(***************************************************************************)
(* RuntimeLedger for TLC: a behaviour is one of the ledger in one setting, *)
(* a record of the values of its constants; part names it.  Trees are      *)
(* numbers; the lines between two of them are their distance.              *)
(***************************************************************************)
EXTENDS Integers

CONSTANTS None, c1, c2, u, v, e1, e2

ASSUME ModelValues == None \notin {u, v} /\ None # "proceed"

VARIABLES part, records, replay, present, head, durable, synced,
          cand, leaf, approved, off, pc, call, acked, answer, faults

\* The ledger in the setting k.
L(k) == INSTANCE RuntimeLedger WITH
    Callers <- k.Callers, Names <- k.Names, Units <- k.Units, Trees <- k.Trees, Evidence <- k.Evidence,
    Lines <- k.Lines, MaxAttempts <- k.MaxAttempts, MaxLines <- k.MaxLines, MaxLineages <- k.MaxLineages,
    ChainLimit <- k.ChainLimit, MaxRecords <- k.MaxRecords, MaxFaults <- k.MaxFaults,
    Operations <- k.Operations, Overlap <- k.Overlap

Distance(factor) == [t \in {0, 1} \X {0, 1} |-> IF t[1] = t[2] THEN 0 ELSE factor]

(* One caller, two units, a long chain.                                    *)
Plain == [Callers |-> {c1}, Names |-> 1..5, Units |-> {u, v}, Trees |-> {0, 1}, Evidence |-> {e1},
          Lines |-> Distance(1), MaxAttempts |-> 2, MaxLines |-> 1, MaxLineages |-> 1, ChainLimit |-> 10,
          MaxRecords |-> 5, MaxFaults |-> 0, Operations |-> {"begin", "reset", "finish"}, Overlap |-> TRUE]

(* Two callers and a fault; one caller and three.                          *)
Race == [Plain EXCEPT !.Callers = {c1, c2}, !.Names = 1..2, !.MaxRecords = 3, !.MaxFaults = 1]
Crash == [Plain EXCEPT !.Names = 1..2, !.Units = {u}, !.MaxRecords = 3, !.MaxFaults = 3]

(* A bound review, every line counted twice.                               *)
Bound == [Plain EXCEPT !.Names = 1..2, !.Units = {u}, !.Evidence = {e1, e2}, !.Lines = Distance(2),
                       !.MaxLineages = 2, !.MaxRecords = 3,
                       !.Operations = {"begin", "finish", "remediation", "bind"}]

(* Acquire and Settle: two callers of a tree that does not move, either of *)
(* whom may send a request again that is under way; one, with a bound      *)
(* review.                                                                 *)
Compact == [Race EXCEPT !.Names = 1..3, !.Units = {u}, !.Trees = {0}, !.Lines = [t \in {0} \X {0} |-> 0],
                        !.Operations = {"acquire", "settle"}]
Remedy == [Plain EXCEPT !.Names = 1..4, !.Units = {u}, !.Evidence = {e1, e2}, !.MaxLines = 2,
                        !.MaxRecords = 4, !.Operations = {"acquire", "settle", "bind"}]

Setting == [plain |-> Plain, race |-> Race, crash |-> Crash, bound |-> Bound, compact |-> Compact, remedy |-> Remedy]

\* What the ledger promises its callers in the setting k.
Promise(k) == INSTANCE RequestLog WITH Ids <- L(k)!AllIds, log <- L(k)!Log, told <- acked

vars == <<part, records, replay, present, head, durable, synced,
          cand, leaf, approved, off, pc, call, acked, answer, faults>>

Init == \E p \in DOMAIN Setting : part = p /\ L(Setting[p])!Init

Next == UNCHANGED part /\ \E p \in DOMAIN Setting : part = p /\ L(Setting[p])!Next

Spec == Init /\ [][Next]_vars

-----------------------------------------------------------------------------
(* Properties: those of RuntimeLedger, by name *)

(* What is written replays after every crash, and no objective runs past   *)
(* its budget.                                                             *)
LedgerSound == \A p \in DOMAIN Setting : part = p =>
    /\ p = "race" => L(Setting[p])!TypeOK
    /\ p \in {"plain", "crash", "bound"} => L(Setting[p])!HeadReplays
    /\ p = "plain" => L(Setting[p])!BudgetHeld

(* A bound ledger passes only on the bytes an approved review holds.       *)
PassIsReviewed == \A p \in {"bound", "remedy"} : part = p => L(Setting[p])!PassIsReviewed

(* "The returned token identifies that exact begin record for Settle"      *)
(* (runtime_compact.go on Acquire), also for a request sent again.         *)
TokenNamesAttempt == part = "compact" => L(Compact)!TokenNamesAttempt

(* A request takes effect once, and what is told done stays (RequestLog).  *)
LedgerPromise ==
    /\ \A p \in {"race", "crash", "compact"} : part = p => Promise(Setting[p])!Init
    /\ [][ \A p \in {"race", "crash", "compact"} : part = p => [Promise(Setting[p])!Next]_<<L(Setting[p])!Log, acked>> ]_vars
=============================================================================
