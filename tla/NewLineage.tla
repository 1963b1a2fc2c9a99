------------------------------- MODULE NewLineage -------------------------------
(***************************************************************************)
(* The new-lineage (v3) review authority: one mutable state artifact under *)
(* compare-and-swap and one immutable receipt for each lineage             *)
(* (reviewtransaction/authority_store.go), the transitions ReviewCore      *)
(* decides (review_core.go), START and finalize around them, and the gate  *)
(* that lets a v3 record of the named lineage govern and otherwise defers  *)
(* to the legacy receipts (cli/review_governing_authority.go).             *)
(***************************************************************************)
EXTENDS Naturals

CONSTANTS
    Procs,        \* commands that may run at the same time
    Lineages, Candidates,
    None,         \* no process, no record, no receipt, no marker
    Clean,        \* a workspace without changes
    MaxRuns, MaxToggles, MaxFaults, MaxCrashes

VARIABLES
    tree,         \* the candidate in the workspace
    dirs,         \* lineages that have a directory, the marker
    rec,          \* review-state.json of every lineage
    receipt,      \* review-receipt.json of every lineage: the record it binds
    legacy,       \* candidates an approved legacy receipt is for
    active,       \* GENTLE_AI_RDD_NEW_LINEAGE
    reviews,      \* the kill switch
    lock,         \* holder of v3/LOCK
    proc,
    runs, toggles, faults, crashes

bounds == <<runs, toggles, faults, crashes>>
store == <<dirs, rec, receipt, lock>>
world == <<tree, legacy, active, reviews>>
vars == <<store, world, proc, bounds>>

Terminal == {"approved", "escalated"}
Authority == [state : {"reviewing"} \cup Terminal, cand : Candidates]
Idle == [op |-> "none", at |-> "idle", lineage |-> None, verdict |-> "none",
         read |-> None, next |-> None, live |-> None, result |-> "none"]

Init ==
    /\ tree \in Candidates /\ dirs = {} /\ lock = None
    /\ rec = [l \in Lineages |-> None] /\ receipt = [l \in Lineages |-> None]
    /\ legacy = {} /\ active \in BOOLEAN /\ reviews = TRUE
    /\ proc = [p \in Procs |-> Idle]
    /\ runs = 0 /\ toggles = 0 /\ faults = 0 /\ crashes = 0

Fault == faults < MaxFaults /\ faults' = faults + 1
At(p, at) == proc[p].at = at
Goes(p, new) == proc' = [proc EXCEPT ![p] = new]
To(p, at) == Goes(p, [proc[p] EXCEPT !.at = at])
Ends(p, result) == Goes(p, [proc[p] EXCEPT !.at = "ended", !.result = result])
Begin(p) == proc[p].at \in {"idle", "ended"} /\ runs < MaxRuns /\ runs' = runs + 1
Calm == UNCHANGED <<toggles, faults, crashes>>
Lineage(p) == proc[p].lineage

-----------------------------------------------------------------------------
(* START and finalize *)

(* runReviewFacadeStart: authorized, and with the switch on a new lineage. *)
Start(p, l) ==
    /\ Begin(p) /\ reviews /\ active /\ tree # Clean
    /\ Goes(p, [Idle EXCEPT !.op = "start", !.at = "mutate", !.lineage = l,
                  !.next = [state |-> "reviewing", cand |-> tree]])
    /\ Calm /\ UNCHANGED <<store, world>>

(* With the switch off the review is a legacy one, here up to its receipt. *)
StartLegacy(p) ==
    /\ Begin(p) /\ reviews /\ ~active /\ tree # Clean
    /\ legacy' = legacy \cup {tree} /\ Goes(p, Idle)
    /\ Calm /\ UNCHANGED <<store, tree, active, reviews>>

(* DiscoverNewLineage: a directory without a record is a damaged marker.   *)
Corrupted(l) == l \in dirs /\ rec[l] = None

(* ReviewCore.finalize: a terminal authority is left as it is.             *)
Advanced(read, verdict) ==
    IF read.state \in Terminal THEN read
    ELSE [read EXCEPT !.state = IF verdict = "failed" THEN "escalated" ELSE "approved"]

(* Without a record the legacy finalize goes on, outside this model.       *)
Finalize(p, l, verdict) ==
    LET new == [Idle EXCEPT !.op = "finalize", !.lineage = l, !.verdict = verdict, !.read = rec[l]] IN
    /\ Begin(p) /\ (l \in dirs \/ rec[l] # None)
    /\ \/ Corrupted(l) /\ Goes(p, [new EXCEPT !.at = "ended", !.result = "corrupted"])
       \/ /\ rec[l] # None /\ rec[l].state \notin Terminal /\ ~reviews
          /\ Goes(p, [new EXCEPT !.at = "ended", !.result = "off"])
       \/ /\ rec[l] # None /\ (reviews \/ rec[l].state \in Terminal)
          /\ LET next == Advanced(rec[l], verdict) IN
             Goes(p, [new EXCEPT !.next = next, !.at = IF next = rec[l] THEN "load" ELSE "mutate"])
    /\ Calm /\ UNCHANGED <<store, world>>

(* The compare of Mutate: START expects that there is no record.           *)
Expected(p) == rec[Lineage(p)] = proc[p].read

Acquire(p) == lock = None /\ lock' = p
Busy(p) == lock # None /\ Ends(p, "busy")

(* AuthorityStore.Mutate, up to the directory that writeAtomic makes.      *)
Mutate(p) ==
    /\ At(p, "mutate")
    /\ \/ Acquire(p) /\ Expected(p) /\ dirs' = dirs \cup {Lineage(p)} /\ To(p, "rename")
       \/ lock = None /\ ~Expected(p) /\ Ends(p, "conflict") /\ UNCHANGED <<dirs, lock>>
       \/ Busy(p) /\ UNCHANGED <<dirs, lock>>
    /\ UNCHANGED <<rec, receipt, world, bounds>>

(* The rename, which is in effect when the sync of the directory fails.    *)
Rename(p) ==
    /\ At(p, "rename") /\ lock' = None
    /\ \/ rec' = [rec EXCEPT ![Lineage(p)] = proc[p].next] /\ To(p, "load") /\ UNCHANGED faults
       \/ Fault /\ Ends(p, "error") /\ rec' \in {rec, [rec EXCEPT ![Lineage(p)] = proc[p].next]}
    /\ UNCHANGED <<dirs, receipt, world, runs, toggles, crashes>>

Load(p) ==
    /\ At(p, "load")
    /\ LET read == [proc[p] EXCEPT !.read = rec[Lineage(p)]] IN
       IF proc[p].op = "start" THEN Goes(p, [read EXCEPT !.at = "ended", !.result = "started"])
       ELSE Goes(p, [read EXCEPT !.at = "publish"])
    /\ UNCHANGED <<store, world, bounds>>

(* Mutated: the receipt is of the revision at the start of the command. *)
Bound_Entry(p) == [proc[p].next EXCEPT !.state = "reviewing"]

(* What the receipt binds: the revision ReviewCore returned.               *)
Bound(p) == proc[p].next

(* AuthorityStore.WriteReceipt: the checks under the lock.                 *)
WriteReceipt(p) ==
    /\ At(p, "publish")
    /\ \/ IF rec[Lineage(p)] = Bound(p) /\ rec[Lineage(p)] = proc[p].read THEN Acquire(p) /\ To(p, "link")
          ELSE lock = None /\ Ends(p, "mismatch") /\ UNCHANGED lock
       \/ Busy(p) /\ UNCHANGED lock
    /\ UNCHANGED <<dirs, rec, receipt, world, bounds>>

(* publishImmutable: the first receipt stays, an equal one is accepted.    *)
Publish(p) ==
    /\ At(p, "link") /\ lock' = None
    /\ \/ /\ receipt' = [receipt EXCEPT ![Lineage(p)] = IF @ = None THEN Bound(p) ELSE @]
          /\ Ends(p, IF receipt'[Lineage(p)] = Bound(p) THEN proc[p].read.state ELSE "differs")
          /\ UNCHANGED faults
       \/ Fault /\ Ends(p, "error") /\ UNCHANGED receipt
    /\ UNCHANGED <<dirs, rec, world, runs, toggles, crashes>>

-----------------------------------------------------------------------------
(* The gate *)

Legacy(p, live) == IF live \in legacy THEN "legacy" ELSE "denied"

(* A gate without a marker, as the hooks call it, asks the legacy store.   *)
GateUnmarked(p) ==
    /\ Begin(p)
    /\ Goes(p, [Idle EXCEPT !.op = "gate", !.at = "ended", !.live = tree, !.result = Legacy(p, tree)])
    /\ Calm /\ UNCHANGED <<store, world>>

(* resolveGoverningAuthority: the record is read without the lock.         *)
Gate(p, l) ==
    LET new == [Idle EXCEPT !.op = "gate", !.lineage = l, !.read = rec[l]] IN
    /\ Begin(p)
    /\ IF Corrupted(l) THEN Goes(p, [new EXCEPT !.at = "ended", !.result = "corrupted"])
       ELSE Goes(p, [new EXCEPT !.at = "live"])
    /\ Calm /\ UNCHANGED <<store, world>>

(* governingAuthorityLiveEvidence: without a live candidate, legacy.       *)
Live(p) ==
    /\ At(p, "live")
    /\ \/ /\ proc[p].read # None /\ UNCHANGED faults
          /\ Goes(p, [proc[p] EXCEPT !.at = "decide", !.live = tree])
       \/ /\ proc[p].read = None /\ UNCHANGED faults
          /\ Goes(p, [proc[p] EXCEPT !.at = "ended", !.live = tree, !.result = Legacy(p, tree)])
       \/ /\ proc[p].read # None /\ Fault
          /\ Goes(p, [proc[p] EXCEPT !.at = "ended", !.live = tree, !.result = Legacy(p, tree)])
    /\ UNCHANGED <<store, world, runs, toggles, crashes>>

(* Mutated: the state alone is trusted. *)
Proven_State(p) == proc[p].read.state = "approved"

(* LoadReceipt and the comparison with the record.                         *)
Proven(p) == proc[p].read.state = "approved" /\ receipt[Lineage(p)] = proc[p].read

(* relateCandidates, with the evidence this gate has.                      *)
Relation(p) ==
    IF proc[p].live = Clean THEN "unknown" ELSE IF proc[p].live = proc[p].read.cand THEN "exact" ELSE "changed"

Decide(p) ==
    /\ At(p, "decide")
    /\ \/ proc[p].read.state = "escalated" /\ Ends(p, "escalate")
       \/ proc[p].read.state # "escalated" /\ ~Proven(p) /\ Ends(p, "no receipt")
       \/ Proven(p) /\ Ends(p, CASE Relation(p) = "exact" -> "allow"
                                 [] Relation(p) = "changed" -> "scope changed"
                                 [] Relation(p) = "unknown" -> "escalate")
    /\ UNCHANGED <<store, world, bounds>>

-----------------------------------------------------------------------------
(* The world *)

Crash(p) ==
    /\ proc[p].at \notin {"idle", "ended"} /\ crashes < MaxCrashes /\ crashes' = crashes + 1
    /\ Goes(p, Idle) /\ lock' = IF lock = p THEN None ELSE lock
    /\ UNCHANGED <<dirs, rec, receipt, world, runs, toggles, faults>>

(* The user edits or commits, and turns the two switches.                  *)
Toggle ==
    /\ toggles < MaxToggles /\ toggles' = toggles + 1
    /\ \/ tree' \in (Candidates \cup {Clean}) \ {tree} /\ UNCHANGED <<active, reviews>>
       \/ active' = ~active /\ UNCHANGED <<tree, reviews>>
       \/ reviews' = ~reviews /\ UNCHANGED <<tree, active>>
    /\ UNCHANGED <<store, legacy, proc, runs, faults, crashes>>

Command(p) ==
    \/ \E l \in Lineages : Start(p, l) \/ Gate(p, l) \/ (\E v \in {"clean", "failed"} : Finalize(p, l, v))
    \/ StartLegacy(p) \/ GateUnmarked(p)

Work(p) == Mutate(p) \/ Rename(p) \/ Load(p) \/ WriteReceipt(p) \/ Publish(p) \/ Live(p) \/ Decide(p)

Next == Toggle \/ \E p \in Procs : Command(p) \/ Work(p) \/ Crash(p)

(* The steps of a command follow each other.                               *)
Spec == Init /\ [][Next]_vars /\ \A p \in Procs : WF_vars(Work(p))

-----------------------------------------------------------------------------
(* Properties *)

(* The stores are well formed, a record has its directory, and the lock is *)
(* held by a command that is writing, and by no other (acquireStoreLock).  *)
TypeOK ==
    /\ tree \in Candidates \cup {Clean} /\ legacy \subseteq Candidates /\ dirs \subseteq Lineages
    /\ rec \in [Lineages -> Authority \cup {None}] /\ receipt \in [Lineages -> Authority \cup {None}]
    /\ \A l \in Lineages : rec[l] # None => l \in dirs
    /\ \A p \in Procs : proc[p].at \in {"rename", "link"} <=> lock = p

(* A receipt is for ever that of the record it was issued for, whatever    *)
(* commands race and crash (Mutate's compare-and-swap, WriteReceipt).      *)
ReceiptMatches == \A l \in Lineages : receipt[l] # None => receipt[l] = rec[l] /\ rec[l].state \in Terminal

(* A lineage that has reached a terminal state keeps it, and no lineage    *)
(* gets another candidate (Expected, ReviewCore.finalize).                 *)
KeepsTerminal ==
    \A l \in Lineages : rec[l] # None =>
        /\ rec'[l] # None /\ rec'[l].cand = rec[l].cand
        /\ rec[l].state \in Terminal => rec'[l] = rec[l]
TerminalFrozen == [][KeepsTerminal]_rec

(* Between reading the record again and binding the receipt to it nobody   *)
(* has changed it: WriteReceipt never refuses its own caller.              *)
NoMismatch == \A p \in Procs : proc[p].result \notin {"mismatch", "differs"}

(* The gate lets a candidate through as reviewed only with a receipt of    *)
(* approval, published, for just that candidate (resolveGoverningAuthority)*)
AllowEarned ==
    \A p \in Procs : proc[p].result = "allow" =>
        receipt[Lineage(p)] = [state |-> "approved", cand |-> proc[p].live]

(* A finalize that is neither refused nor interrupted leaves the lineage   *)
(* with its receipt, whoever committed the terminal state.                 *)
Publishing(l, p) == proc[p].op = "finalize" /\ Lineage(p) = l /\ At(p, "publish") /\ lock = None
PublishedOrRefused(l, p) == receipt[l] # None \/ At(p, "idle") \/ proc[p].result \in {"error", "busy"}
Finalized == \A l \in Lineages, p \in Procs : Publishing(l, p) ~> PublishedOrRefused(l, p)

=============================================================================
