----------------------------- MODULE ReviewerCapture -----------------------------
(***************************************************************************)
(* The slots reviewer results are captured in, beside the authority they   *)
(* belong to (review capture-result, finalize --captured-results,          *)
(* reopen-results, dispose-result).  A slot is a file and its .sha256; a   *)
(* capture writes them under the store lock and leaves the record alone,   *)
(* so the compare-and-swap of the others does not see it, and a FINALIZE   *)
(* reads them without the lock.  A reopening condemns results in the       *)
(* record only: the next capture of the slot moves them to the archive.    *)
(*                                                                         *)
(* A result is its text and the revision its subject was issued at; its    *)
(* digest is the result itself.  Left out: preserve-result, what admission *)
(* asks of the text, and results a reopening condemns for what they say:   *)
(* no review completed today accepts those, and any may be named.          *)
(***************************************************************************)
EXTENDS Naturals, Sequences

CONSTANTS Procs, Lenses, Bodies,
          Severe,     \* the bodies with a blocking finding
          MaxRev,     \* revisions of the record
          MaxFaults,  \* crashes
          None

VARIABLES auth,      \* the compact record
          payloads,  \* the result in each lens's slot, or None
          digests,   \* the .sha256 beside it, or None
          archive,   \* <<lens, revision reopened, "payload" | "digest", result>>
          proc, lock, faults

vars == <<auth, payloads, digests, archive, proc, lock, faults>>

Results == Bodies \X (1 .. MaxRev)
Idle == [op |-> "idle"]
Done(p) == proc' = [proc EXCEPT ![p] = Idle]
At(p, step) == proc[p].op # "idle" /\ proc[p].at = step
Goto(p, step) == proc' = [proc EXCEPT ![p].at = step]

(* ReviewerResultDigestIsQuarantined, ReviewerResultAdmissionWasRetained   *)
CondemnedBy(r, l, d) == {i \in 1 .. Len(r.reopens) : r.reopens[i].quarantined[l] = d}
Quarantined(r, l, d) == CondemnedBy(r, l, d) # {}
Retained(r, l, d) == \E i \in 1 .. Len(r.reopens) : r.reopens[i].retained[l] = d

(* ReviewerResultQuarantinePath: under the last reopening that condemned it*)
ArchivedUnder(r, l, d) ==
    LET last == CHOOSE i \in CondemnedBy(r, l, d) : \A j \in CondemnedBy(r, l, d) : j <= i
    IN r.reopens[last].from

Init ==
    /\ auth = [rev |-> 1, state |-> "reviewing", results |-> [l \in Lenses |-> None], reopens |-> <<>>, disposed |-> {}]
    /\ payloads = [l \in Lenses |-> None] /\ digests = [l \in Lenses |-> None] /\ archive = {}
    /\ proc = [p \in Procs |-> Idle] /\ lock = None /\ faults = 0

-----------------------------------------------------------------------------
(* review capture-result *)

(* The record is read without the lock; the subject names its revision.    *)
BeginCapture(p, l, b) ==
    /\ proc[p] = Idle /\ auth.state = "reviewing"
    /\ proc' = [proc EXCEPT ![p] = [op |-> "capture", at |-> "wait", lens |-> l, result |-> <<b, auth.rev>>, told |-> FALSE]]
    /\ UNCHANGED <<auth, payloads, digests, archive, lock, faults>>

BoundTo(r) == auth.rev = r[2] /\ auth.state = "reviewing"

(* The lock is polled for; under it the record must still be what it was.  *)
TakeLock(p) ==
    /\ At(p, "wait") /\ lock = None
    /\ IF BoundTo(proc[p].result) THEN lock' = p /\ Goto(p, "prepare") ELSE UNCHANGED lock /\ Done(p)
    /\ UNCHANGED <<auth, payloads, digests, archive, faults>>

(* The lock stayed taken: the command answers with what is published, if   *)
(* that is this very result.                                               *)
GiveUp(p) ==
    /\ At(p, "wait") /\ lock # None
    /\ LET j == proc[p]
           published == BoundTo(j.result) /\ payloads[j.lens] = j.result /\ digests[j.lens] = j.result
       IN IF published THEN proc' = [proc EXCEPT ![p].at = "answer", ![p].told = TRUE] ELSE Done(p)
    /\ UNCHANGED <<auth, payloads, digests, archive, lock, faults>>

Held(l) == IF payloads[l] # None THEN payloads[l] ELSE digests[l]
Place(l, kind) == <<l, ArchivedUnder(auth, l, Held(l)), kind, Held(l)>>
(* The archived files are immutable: the same bytes, or nothing there yet. *)
MayPublish(a) == \A x \in archive : <<x[1], x[2], x[3]>> = <<a[1], a[2], a[3]>> => x = a

(* Every refusal releases the lock. *)
Fail(p) == lock' = None /\ Done(p) /\ UNCHANGED <<auth, payloads, digests, archive, faults>>

(* archiveQuarantinedReviewerArtifact: what the record condemned, in the   *)
(* archive before it leaves the slot; what does not fit is refused.        *)
Condemned(l) == Held(l) # None /\ Quarantined(auth, l, Held(l))
Archivable(l) == MayPublish(Place(l, "payload")) /\ (payloads[l] # None \/ Place(l, "payload") \in archive)
Matches(l) == payloads[l] = None \/ digests[l] \in {None, payloads[l]}
Prepare(p) ==
    LET l == proc[p].lens IN
    /\ At(p, "prepare")
    /\ IF ~Matches(l) \/ (Condemned(l) /\ ~Archivable(l))
       THEN Fail(p)
       ELSE /\ IF Condemned(l)
               THEN archive' = archive \cup {Place(l, "payload")} /\ Goto(p, "seal")
               ELSE UNCHANGED archive /\ Goto(p, "publish")
            /\ UNCHANGED <<auth, payloads, digests, lock, faults>>

Seal(p) ==
    LET a == Place(proc[p].lens, "digest") IN
    /\ At(p, "seal")
    /\ IF MayPublish(a)
       THEN archive' = archive \cup {a} /\ Goto(p, "clear") /\ UNCHANGED <<auth, payloads, digests, lock, faults>>
       ELSE Fail(p)

(* First the result leaves the slot, then its digest. *)
Clear(p) ==
    LET l == proc[p].lens IN
    /\ At(p, "clear")
    /\ IF payloads[l] # None
       THEN payloads' = [payloads EXCEPT ![l] = None] /\ UNCHANGED <<digests, proc>>
       ELSE digests' = [digests EXCEPT ![l] = None] /\ Goto(p, "publish") /\ UNCHANGED payloads
    /\ UNCHANGED <<auth, archive, lock, faults>>

(* publishCompactAdmittedReviewerResult: both files must be free or equal. *)
Compatible(l, r) == payloads[l] \in {None, r} /\ digests[l] \in {None, r}
Publish(p) ==
    LET l == proc[p].lens IN
    /\ At(p, "publish")
    /\ IF Compatible(l, proc[p].result)
       THEN /\ payloads' = [payloads EXCEPT ![l] = proc[p].result]
            /\ Goto(p, "digest") /\ UNCHANGED <<auth, digests, archive, lock, faults>>
       ELSE Fail(p)

PublishDigest(p) ==
    /\ At(p, "digest")
    /\ digests' = [digests EXCEPT ![proc[p].lens] = proc[p].result]
    /\ lock' = None /\ proc' = [proc EXCEPT ![p].at = "answer", ![p].told = TRUE]
    /\ UNCHANGED <<auth, payloads, archive, faults>>

Answer(p) == At(p, "answer") /\ Done(p) /\ UNCHANGED <<auth, payloads, digests, archive, lock, faults>>

-----------------------------------------------------------------------------
(* review finalize --captured-results *)

BeginFinalize(p) ==
    /\ proc[p] = Idle /\ auth.state = "reviewing"
    /\ proc' = [proc EXCEPT ![p] = [op |-> "finalize", at |-> "read", seen |-> auth, got |-> [l \in Lenses |-> None]]]
    /\ UNCHANGED <<auth, payloads, digests, archive, lock, faults>>

(* discoverCapturedReviewerArtifacts, decodeBoundAdmittedReviewerResult: a *)
(* result that is whole, not condemned, and issued at this revision or     *)
(* retained by a reopening.  The file must have the digest just read, so   *)
(* reading the two is one step.                                            *)
Usable(r, l) ==
    /\ digests[l] # None /\ payloads[l] = digests[l]
    /\ ~Quarantined(r, l, digests[l])
    /\ digests[l][2] = r.rev \/ Retained(r, l, digests[l])

ReadSlot(p, l) ==
    /\ At(p, "read") /\ proc[p].got[l] = None
    /\ IF Usable(proc[p].seen, l) THEN proc' = [proc EXCEPT ![p].got[l] = digests[l]] ELSE Done(p)
    /\ UNCHANGED <<auth, payloads, digests, archive, lock, faults>>

(* The compare-and-swap: refused at once if the lock is taken.  A severe   *)
(* finding may be refuted, corrected, or escalated.                        *)
Verdicts(got) ==
    {"validating"} \cup IF \E l \in Lenses : got[l][1] \in Severe THEN {"correction_required", "escalated"} ELSE {}
CompleteReview(p) ==
    /\ At(p, "read") /\ \A l \in Lenses : proc[p].got[l] # None
    /\ IF lock = None /\ auth.rev = proc[p].seen.rev
       THEN auth.rev < MaxRev /\ \E v \in Verdicts(proc[p].got) :
                auth' = [proc[p].seen EXCEPT !.rev = @ + 1, !.results = proc[p].got, !.state = v]
       ELSE UNCHANGED auth
    /\ Done(p) /\ UNCHANGED <<payloads, digests, archive, lock, faults>>

(* A later FINALIZE approves it. *)
Approve ==
    /\ lock = None /\ auth.state = "validating" /\ auth.rev < MaxRev
    /\ auth' = [auth EXCEPT !.rev = @ + 1, !.state = "approved"]
    /\ UNCHANGED <<payloads, digests, archive, proc, lock, faults>>

-----------------------------------------------------------------------------
(* review reopen-results and dispose-result *)

Readable(l) == digests[l] # None /\ payloads[l] = digests[l]
Trusted(r, l) == payloads[l] = r.results[l]
(* classifyCompactResultReopenSlots, for the lenses the maintainer names.  *)
Classified(r, named) ==
    LET out == {l \in Lenses : l \in named \/ ~Trusted(r, l)}
    IN [quarantined |-> [l \in Lenses |-> IF l \in out THEN payloads[l] ELSE None],
        retained |-> [l \in Lenses |-> IF l \notin out THEN payloads[l] ELSE None]]

(* The plan and its authorization, of a record and slots read without lock.*)
BeginReopen(p, named) ==
    /\ proc[p] = Idle /\ auth.state \in {"validating", "correction_required"}
    /\ \A l \in Lenses : Readable(l)
    /\ \E l \in Lenses : Classified(auth, named).quarantined[l] # None
    /\ proc' = [proc EXCEPT ![p] = [op |-> "reopen", at |-> "commit", seen |-> auth, named |-> named, plan |-> Classified(auth, named)]]
    /\ UNCHANGED <<auth, payloads, digests, archive, lock, faults>>

Reopened(r, plan) ==
    [r EXCEPT !.rev = @ + 1, !.state = "reviewing", !.results = [l \in Lenses |-> None],
              !.reopens = Append(@, [from |-> r.rev, quarantined |-> plan.quarantined, retained |-> plan.retained])]
CommitReopen(p) ==
    LET j == proc[p] IN
    /\ At(p, "commit") /\ j.op = "reopen"
    /\ IF lock = None /\ auth.rev = j.seen.rev /\ (\A l \in Lenses : Readable(l)) /\ Classified(j.seen, j.named) = j.plan
       THEN auth.rev < MaxRev /\ auth' = Reopened(j.seen, j.plan)
       ELSE UNCHANGED auth
    /\ Done(p) /\ UNCHANGED <<payloads, digests, archive, lock, faults>>

(* compactCapturedReviewerResults, compactRefuseCapturedLens: the slot has *)
(* no result file.                                                         *)
Uncaptured(l) == payloads[l] = None
BeginDispose(p, l) ==
    /\ proc[p] = Idle /\ auth.state = "reviewing" /\ Uncaptured(l)
    /\ proc' = [proc EXCEPT ![p] = [op |-> "dispose", at |-> "commit", seen |-> auth, lens |-> l]]
    /\ UNCHANGED <<auth, payloads, digests, archive, lock, faults>>

(* A capture moves no revision: the slot is looked at again under the lock.*)
(* Mutated: the slot was looked at before. *)
Disposable_NotScanned(j) == lock = None /\ auth.rev = j.seen.rev
Disposable(j) == lock = None /\ auth.rev = j.seen.rev /\ Uncaptured(j.lens)
CommitDispose(p) ==
    LET j == proc[p] IN
    /\ At(p, "commit") /\ j.op = "dispose"
    /\ IF Disposable(j)
       THEN auth.rev < MaxRev /\ auth' = [j.seen EXCEPT !.rev = @ + 1, !.state = "escalated", !.disposed = @ \cup {j.lens}]
       ELSE UNCHANGED auth
    /\ Done(p) /\ UNCHANGED <<payloads, digests, archive, lock, faults>>

-----------------------------------------------------------------------------
Crash(p) ==
    /\ proc[p] # Idle /\ faults < MaxFaults
    /\ faults' = faults + 1 /\ Done(p) /\ lock' = IF lock = p THEN None ELSE lock
    /\ UNCHANGED <<auth, payloads, digests, archive>>

CaptureStep(p) ==
    TakeLock(p) \/ GiveUp(p) \/ Prepare(p) \/ Seal(p) \/ Clear(p) \/ Publish(p) \/ PublishDigest(p) \/ Answer(p)

Next ==
    \/ \E p \in Procs :
         \/ \E l \in Lenses, b \in Bodies : BeginCapture(p, l, b)
         \/ CaptureStep(p)
         \/ BeginFinalize(p)
         \/ \E l \in Lenses : ReadSlot(p, l)
         \/ CompleteReview(p)
         \/ \E named \in SUBSET Lenses : BeginReopen(p, named)
         \/ CommitReopen(p)
         \/ \E l \in Lenses : BeginDispose(p, l)
         \/ CommitDispose(p)
         \/ Crash(p)
    \/ Approve

Spec == Init /\ [][Next]_vars

-----------------------------------------------------------------------------
(* Properties *)

TypeOK ==
    /\ auth.rev \in 1 .. MaxRev
    /\ auth.state \in {"reviewing", "validating", "correction_required", "approved", "escalated"}
    /\ payloads \in [Lenses -> Results \cup {None}] /\ digests \in [Lenses -> Results \cup {None}]
    /\ archive \subseteq Lenses \X (1 .. MaxRev) \X {"payload", "digest"} \X Results
    /\ lock \in Procs \cup {None} /\ faults \in 0 .. MaxFaults

(* A verdict rests on results that were read without the lock: they are in *)
(* their slots, whole, and no reopening condemned them.                    *)
VerdictOnDisk ==
    auth.state \in {"validating", "correction_required", "approved"} =>
        \A l \in Lenses :
            /\ payloads[l] = auth.results[l] /\ digests[l] = auth.results[l]
            /\ ~Quarantined(auth, l, auth.results[l])

(* A lens that was disposed of has no captured result ("a valid capture is *)
(* never dispositioned").                                                  *)
DisposedIsEmpty == \A l \in auth.disposed : Uncaptured(l)

(* Wherever a capture stopped, the next one can go on: a digest without    *)
(* its file belongs to a condemned result that is in the archive, and a    *)
(* file without its digest to one that no reopening condemned.             *)
CaptureConverges ==
    \A l \in Lenses :
        /\ payloads[l] # None /\ digests[l] # None => payloads[l] = digests[l]
        /\ payloads[l] = None /\ digests[l] # None =>
              Quarantined(auth, l, digests[l]) /\ Place(l, "payload") \in archive
        /\ payloads[l] # None /\ digests[l] = None => ~Quarantined(auth, l, payloads[l])

(* A command that answers that its result is captured tells of a result    *)
(* that is in the slot or, once condemned, in the archive.                 *)
ToldIsKept ==
    \A p \in Procs : At(p, "answer") =>
        \/ payloads[proc[p].lens] = proc[p].result
        \/ \E x \in archive : x[1] = proc[p].lens /\ x[4] = proc[p].result

(* Whatever leaves a slot is in the archive, file and digest, and a result *)
(* that a reopening retained stays where it is until a reopening condemns  *)
(* it.                                                                     *)
LeavesForArchive ==
    \A l \in Lenses : payloads[l] # None /\ payloads'[l] # payloads[l] =>
        /\ \A kind \in {"payload", "digest"} : \E x \in archive : x[1] = l /\ x[3] = kind /\ x[4] = payloads[l]
        /\ Quarantined(auth, l, payloads[l])
=============================================================================
