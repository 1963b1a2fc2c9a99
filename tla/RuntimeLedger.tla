---------------------------- MODULE RuntimeLedger ----------------------------
(***************************************************************************)
(* The SDD runtime ledger (internal/sddstatus/runtime_ledger.go and        *)
(* runtime_compact.go): several processes begin, finish and reset attempts *)
(* and bind reviews in one ledger.  A mutation takes the lock, replays the *)
(* chain from HEAD, answers a request it already knows, compares the       *)
(* revision, builds a record, publishes it, replaces HEAD and syncs.       *)
(* Acquire and Settle first read the ledger without the lock and call      *)
(* Begin and Finish with the revision they read.                           *)
(*                                                                         *)
(* A record's revision is the hash of its content, predecessor included:   *)
(* here the index of the content in `records', the list of all contents    *)
(* ever built.  Legacy bindings and receipt references are left out.       *)
(***************************************************************************)
EXTENDS LedgerReplay

CONSTANTS Callers, Names, Units, Trees, Evidence,
          Lines,          \* changed lines between two trees
          MaxLineages,    \* recovery successors the review world may create
          ChainLimit,     \* maximumRuntimeChainRecords
          MaxRecords,     \* bound: contents built
          MaxFaults,      \* bound: failing calls, crashes and power failures
          Operations,     \* bound: the operations the callers use
          Overlap         \* a request may be sent again while it is in flight

VARIABLES records, replay,            \* contents, and what a chain ending in each says
          present, head,              \* the store as processes see it
          durable, synced,             \* records and HEAD a power failure keeps
          cand, leaf, approved, off,   \* worktree, review authority, review mode
          pc, call,                    \* each caller and what it has in hand
          acked, answer, faults        \* who was told what

store == <<records, replay, present, head, durable, synced>>
world == <<cand, leaf, approved, off>>
vars == <<store, world, pc, call, acked, answer, faults>>

Lineages == 1..MaxLineages
Ids == {<<"call", n>> : n \in Names}
NoCall == [id |-> None]
Locked == {"built", "recorded", "headed"}
Holder == {c \in Callers : pc[c] \in Locked}

-----------------------------------------------------------------------------
\* load: the chain from HEAD, replayed from its first record.  What a chain says
\* depends on its contents only, so it is kept, in `replay', when the content is
\* built; that all of them can be read is asked each time.
StatusAt(h) ==
    IF h = 0 THEN Empty
    ELSE IF /\ {h} \cup {q.rev : q \in Recorded(replay[h])} \subseteq present
            /\ Len(replay[h].requests) <= ChainLimit
         THEN replay[h] ELSE Damaged

Current == StatusAt(head)

\* The approved authority of a lineage whose post-apply gate allows the
\* worktree as it is: it must be the leaf of the recovery graph.
Prepared(l) == IF l = leaf /\ approved[l] = cand THEN {[lineage |-> l, tree |-> cand]} ELSE {}

AdvanceAdmissible(s, unit) ==
    /\ s.complete /\ ~s.decision /\ ~Active(s) /\ s.unit # None /\ unit # s.unit
    /\ LastAttempt(s).gen = s.gen /\ LastAttempt(s).outcome = "passed"
    /\ ~LastAttempt(s).exceeded

\* What every record carries; a build fills the fields of its operation.
Record(s, id, q, op) ==
    [op |-> op, id |-> id, digest |-> q, prev |-> s.rev, rev |-> 0, unit |-> None, gen |-> s.gen,
     ordinal |-> Len(s.attempts), tree |-> cand, outcome |-> None, lines |-> 0, exceeded |-> FALSE,
     evidence |-> None, binding |-> None, expected |-> None, remediates |-> None]

Reply(c, a) ==
    /\ pc' = [pc EXCEPT ![c] = "idle"]
    /\ call' = [call EXCEPT ![c] = NoCall]
    /\ answer' = a

NoAnswer == [state |-> None]
Blocked == [state |-> "blocked", token |-> 0]
Complete == [state |-> "complete", token |-> 0]
Proceed(token) == [state |-> "proceed", token |-> token]
Refusal(h) == IF h.via = "direct" THEN NoAnswer
              ELSE [state |-> "blocked", via |-> h.via, id |-> h.id, why |-> "mutation"]

\* The mutation is over: the caller of a plain operation is answered at once,
\* Acquire and Settle go on without the lock.
Return(c, h, how) ==
    IF h.via = "direct" THEN Reply(c, NoAnswer)
    ELSE /\ pc' = [pc EXCEPT ![c] = how]
         /\ call' = [call EXCEPT ![c] = h]
         /\ answer' = NoAnswer

-----------------------------------------------------------------------------
\* The mutated forms of the definitions below.
BoundExit_Unchecked(s, q) == TRUE
PublishRecord_Unsynced(c) ==
    LET r == call[c].record
        old == {k \in DOMAIN records : records[k] = r}
        rev == IF old = {} THEN Len(records) + 1 ELSE CHOOSE k \in old : TRUE
        before == IF r.prev = 0 THEN Empty ELSE replay[r.prev] IN
    /\ pc[c] = "built" /\ rev <= MaxRecords
    /\ records' = IF old = {} THEN Append(records, r) ELSE records
    /\ replay' = IF old = {} THEN Append(replay, Apply(before, [r EXCEPT !.rev = rev])) ELSE replay
    /\ present' = present \cup {rev}
    /\ pc' = [pc EXCEPT ![c] = "recorded"]
    /\ call' = [call EXCEPT ![c].got = rev]
    /\ UNCHANGED <<head, durable, synced, world, acked, answer, faults>>
-----------------------------------------------------------------------------
\* RuntimeStore.Begin
BuildBegin(s, id, q) ==
    LET advancing == s.complete /\ AdvanceAdmissible(s, q.unit)
        fresh == s.unit = None \/ advancing IN
    IF /\ ~Active(s) /\ ~s.decision /\ (s.complete => advancing)
       /\ ~fresh => q.unit = s.unit /\ cand = LastAttempt(s).finish
       /\ ~advancing => s.charged < MaxAttempts /\ s.lines < MaxLines
    THEN {[Record(s, id, q, IF advancing THEN "advance" ELSE "begin") EXCEPT
             !.unit = q.unit, !.gen = IF fresh THEN s.gen + 1 ELSE s.gen,
             !.ordinal = Len(s.attempts) + 1]}
    ELSE {}

\* A passed attempt on a bound ledger, without a successor: the candidate did
\* not move and the bound review still allows it, unless reviews are off.
BoundExit(s, q) ==
    q.outcome = "passed" /\ s.binding # None /\ ~off =>
        cand = LastAttempt(s).begin /\ s.binding \in Prepared(s.binding.lineage)

\* The successor of the populated binding: itself, corrected, or the leaf that
\* recovers it while it is still approved as it was bound.
Succeeds(s, q, b) ==
    /\ s.binding # None /\ s.binding = q.expected /\ s.evidence \in {None, q.remediates}
    /\ IF b.lineage = s.binding.lineage THEN q.evidence # q.remediates
       ELSE b.lineage > s.binding.lineage /\ approved[s.binding.lineage] = s.binding.tree

\* RuntimeStore.Finish
BuildFinish(s, id, q) ==
    LET charge == Lines[<<LastAttempt(s).begin, cand>>]
        finish(op) == [Record(s, id, q, op) EXCEPT
            !.outcome = q.outcome, !.evidence = q.evidence, !.lines = charge,
            !.exceeded = s.lines + charge > MaxLines] IN
    IF ~Active(s) THEN {}
    ELSE IF q.successor = None THEN {r \in {finish("finish")} : BoundExit(s, q)}
    ELSE {[finish("remediate") EXCEPT !.binding = b, !.expected = q.expected,
                                      !.remediates = q.remediates] :
              b \in {p \in Prepared(q.successor) : Succeeds(s, q, p)}}

\* RuntimeStore.Reset: an open objective with budget left may be reset only
\* when its candidate drifted.
BuildReset(s, id, q) ==
    IF /\ ~Active(s) /\ s.unit # None /\ ResetPermitted(s)
       /\ (s.decision \/ s.complete \/ cand # LastAttempt(s).finish)
    THEN {Record(s, id, q, "reset")} ELSE {}

\* bindPreparedReview: compared with the binding, never with the revision.
BuildBind(s, id, q) ==
    {[Record(s, id, q, "bind") EXCEPT !.binding = b, !.expected = q.expected] :
        b \in {p \in Prepared(q.lineage) : p # s.binding /\ s.binding = q.expected}}

Build(s, id, q) ==
    CASE q.op = "begin" -> BuildBegin(s, id, q)
      [] q.op = "finish" -> BuildFinish(s, id, q)
      [] q.op = "reset" -> BuildReset(s, id, q)
      [] q.op = "bind" -> BuildBind(s, id, q)

Expected(s, q) == IF q.op = "bind" THEN TRUE ELSE q.at = s.rev

-----------------------------------------------------------------------------
\* A failing call of the operating system.
Fail == faults < MaxFaults /\ faults' = faults + 1

\* mutate, from the lock to the record: everything here happens under it.  A
\* known request is answered again once both directories are synced.
Mutate(c, h) ==
    LET id == h.id  q == h.q  s == Current IN
    \/ /\ \/ Holder # {}
          \/ ~s.ok
          \/ Known(s, id) # {} /\ \A k \in Known(s, id) : k.digest # q
          \/ Known(s, id) = {} /\ ~Expected(s, q)
          \/ Known(s, id) = {} /\ Expected(s, q) /\ Build(s, id, q) = {}
       /\ Reply(c, Refusal(h))
       /\ UNCHANGED <<store, world, acked, faults>>
    \/ /\ Holder = {} /\ s.ok
       /\ \E k \in Known(s, id) : k.digest = q
       /\ \/ /\ durable' = present /\ synced' = head
             /\ acked' = acked \cup {id}
             /\ Return(c, [h EXCEPT !.got = s.rev], "done")
             /\ UNCHANGED faults
          \/ /\ Fail
             /\ Return(c, h, "unsure")
             /\ UNCHANGED <<durable, synced, acked>>
       /\ UNCHANGED <<records, replay, present, head, world>>
    \/ /\ Holder = {} /\ s.ok
       /\ Known(s, id) = {} /\ Expected(s, q)
       /\ \E r \in Build(s, id, q) : call' = [call EXCEPT ![c] = [h EXCEPT !.record = r]]
       /\ pc' = [pc EXCEPT ![c] = "built"]
       /\ answer' = NoAnswer
       /\ UNCHANGED <<store, world, acked, faults>>

\* Acquire and Settle enter the mutation with the revision they read before.
Submit(c) == pc[c] = "call" /\ Mutate(c, call[c])

\* publishRecord: immutable, so a content that is there already is the same.
PublishRecord(c) ==
    LET r == call[c].record
        old == {k \in DOMAIN records : records[k] = r}
        rev == IF old = {} THEN Len(records) + 1 ELSE CHOOSE k \in old : TRUE
        before == IF r.prev = 0 THEN Empty ELSE replay[r.prev] IN
    /\ pc[c] = "built" /\ rev <= MaxRecords
    /\ records' = IF old = {} THEN Append(records, r) ELSE records
    /\ replay' = IF old = {} THEN Append(replay, Apply(before, [r EXCEPT !.rev = rev])) ELSE replay
    /\ present' = present \cup {rev}
    /\ \/ /\ durable' = present'
          /\ pc' = [pc EXCEPT ![c] = "recorded"]
          /\ call' = [call EXCEPT ![c].got = rev]
          /\ UNCHANGED <<answer, faults>>
       \/ Fail /\ UNCHANGED durable /\ Reply(c, Refusal(call[c]))
    /\ UNCHANGED <<head, synced, world, acked>>

\* publishHead
PublishHead(c) ==
    /\ pc[c] = "recorded"
    /\ \/ /\ head' = call[c].got
          /\ pc' = [pc EXCEPT ![c] = "headed"]
          /\ UNCHANGED <<call, answer, faults>>
       \/ Fail /\ UNCHANGED head /\ Reply(c, Refusal(call[c]))
    /\ UNCHANGED <<records, replay, present, durable, synced, world, acked>>

\* The end of commitRecordLocked: the sync, and the chain read back.
SyncHead(c) ==
    /\ pc[c] = "headed"
    /\ \/ /\ synced' = head /\ UNCHANGED faults
          /\ IF Current.ok
             THEN acked' = acked \cup {call[c].id} /\ Return(c, call[c], "done")
             ELSE Return(c, call[c], "unsure") /\ UNCHANGED acked
       \/ Fail /\ Return(c, call[c], "unsure") /\ UNCHANGED <<synced, acked>>
    /\ UNCHANGED <<records, replay, present, head, durable, world>>

-----------------------------------------------------------------------------
\* The compact projection of a ledger: compactAcquireResult and
\* compactSettleResult, both read without the lock.
Token(s) == LastAttempt(s).token
AcquireResult(s, unit, owned) ==
    IF ~s.ok THEN Blocked
    ELSE IF s.complete /\ ~AdvanceAdmissible(s, unit) THEN Complete
    ELSE IF Active(s) /\ Token(s) = owned THEN Proceed(owned)
    ELSE Blocked
SettleResult(s) ==
    IF ~s.ok \/ s.decision \/ (Active(s) /\ ~s.complete) THEN Blocked
    ELSE IF s.complete THEN Complete ELSE Proceed(0)

Labelled(c, a) == [state |-> a.state, token |-> a.token, via |-> call[c].via, id |-> call[c].id, why |-> "ledger"]

\* What the caller is told.  A fresh Acquire answers with the revision Begin
\* returned and reads nothing more; the others read the ledger again, and a
\* commit reported unsure must still be HEAD for Settle.
Finish(c) ==
    LET s == Current
        k == Known(s, call[c].id)
        mine == IF k = {} THEN 0 ELSE (CHOOSE x \in k : TRUE).rev IN
    /\ pc[c] \in {"done", "unsure"}
    /\ Reply(c, CASE call[c].via = "acquire" /\ call[c].fresh /\ pc[c] = "done" ->
                       Labelled(c, Proceed(call[c].got))
                  [] call[c].via = "acquire" /\ ~(call[c].fresh /\ pc[c] = "done") ->
                       Labelled(c, AcquireResult(s, call[c].q.unit, mine))
                  [] call[c].via = "settle" ->
                       Labelled(c, IF pc[c] = "unsure" /\ s.rev # mine THEN Blocked
                                   ELSE SettleResult(s)))
    /\ UNCHANGED <<store, world, acked, faults>>

InFlight == {call[d].id : d \in {x \in Callers : pc[x] # "idle"}}
Handed(id, q, via, fresh) ==
    [id |-> id, q |-> q, via |-> via, fresh |-> fresh, got |-> 0, record |-> NoCall]

\* The bound on identifiers: a new one is the lowest that is in no record and in
\* no call in hand; they are interchangeable.
MaySend(c, id) ==
    /\ pc[c] = "idle" /\ (Overlap \/ id \notin InFlight)
    /\ \A j \in Ids : j[2] < id[2] => j \in InFlight \cup {records[k].id : k \in DOMAIN records}

Direct(c, id, q) == pc[c] = "idle" /\ Mutate(c, Handed(id, q, "direct", TRUE))

Send(c, id, q, via, fresh) ==
    /\ pc' = [pc EXCEPT ![c] = "call"]
    /\ call' = [call EXCEPT ![c] = Handed(id, q, via, fresh)]
    /\ answer' = NoAnswer
    /\ UNCHANGED <<store, world, acked, faults>>

FinishRequest(at, o, e, expected, successor, remediates) ==
    [op |-> "finish", at |-> at, outcome |-> o, evidence |-> e, expected |-> expected,
     successor |-> successor, remediates |-> remediates]

\* The operations that pass the caller's request straight to the ledger.
\* The revision a caller expects: the latest or the one before it.
Seen == {head} \cup {records[h].prev : h \in {head} \ {0}}

Begin(c) == "begin" \in Operations /\ \E id \in Ids, u \in Units, at \in Seen :
    MaySend(c, id) /\ Direct(c, id, [op |-> "begin", at |-> at, unit |-> u])
Reset(c) == "reset" \in Operations /\ \E id \in Ids, at \in Seen :
    MaySend(c, id) /\ Direct(c, id, [op |-> "reset", at |-> at])
FinishPlain(c) ==
    /\ "finish" \in Operations
    /\ \E id \in Ids, at \in Seen \ {0}, o \in {"passed", "failed"}, e \in Evidence :
         MaySend(c, id) /\ Direct(c, id, FinishRequest(at, o, e, None, None, None))
FinishRemediation(c) ==
    /\ "remediation" \in Operations /\ Current.ok /\ Current.binding # None
    /\ \E id \in Ids, at \in Seen \ {0}, e, f \in Evidence, l \in Lineages :
         MaySend(c, id) /\ Direct(c, id, FinishRequest(at, "passed", e, Current.binding, l, f))
Bind(c) == "bind" \in Operations /\ \E l \in Lineages :
    LET q == [op |-> "bind", expected |-> Current.binding, lineage |-> l] IN
    Direct(c, <<"bind", q.expected, l>>, q)

\* Acquire: a known request is sent again as it was recorded; an ordinary one
\* is answered from what was read, or sent with the revision that was read.
Acquire(c) == \E id \in Ids, u \in Units :
    LET s == Current  k == Known(s, id)
        q(at) == [op |-> "begin", at |-> at, unit |-> u] IN
    /\ s.ok /\ "acquire" \in Operations /\ MaySend(c, id)
    /\ \/ k = {} /\ ~Active(s) /\ ~s.decision /\ (s.complete => AdvanceAdmissible(s, u))
          /\ Send(c, id, q(s.rev), "acquire", TRUE)
       \/ \E x \in k : /\ x.digest = q(records[x.rev].prev)
                       /\ Send(c, id, x.digest, "acquire", FALSE)

\* Settle of a request that is not in the ledger: the binding and the failed
\* evidence come from the ledger when the caller does not name them.
Settle(c) == \E id \in Ids, o \in {"passed", "failed"}, e \in Evidence :
    LET s == Current IN
    /\ s.ok /\ "settle" \in Operations /\ MaySend(c, id) /\ Known(s, id) = {} /\ Active(s)
    /\ IF o = "passed" /\ s.binding # None /\ s.evidence # None /\ ~off
       THEN Send(c, id, FinishRequest(s.rev, o, e, s.binding, s.binding.lineage, s.evidence), "settle", TRUE)
       ELSE Send(c, id, FinishRequest(s.rev, o, e, None, None, None), "settle", TRUE)

\* Settle of a request that is: the caller, who named neither successor nor
\* failed evidence, sends what it sent before.
SettleAgain(c) == \E id \in Ids :
    LET s == Current IN
    /\ s.ok /\ "settle" \in Operations /\ MaySend(c, id)
    /\ \E k \in Known(s, id) :
         /\ records[k.rev].op \in {"finish", "remediate"}
         /\ IF k.digest.remediates = None
            THEN Send(c, id, k.digest, "settle", FALSE)
            ELSE /\ answer' = [state |-> "blocked", via |-> "settle", id |-> id, why |-> "mismatch"]
                 /\ UNCHANGED <<store, world, pc, call, acked, faults>>

-----------------------------------------------------------------------------
Crash(c) ==
    /\ pc[c] # "idle" /\ Fail
    /\ Reply(c, NoAnswer)
    /\ UNCHANGED <<store, world, acked>>

\* Every process stops; what was not synced may be gone, and HEAD may be any
\* revision it had since it was last synced.
HeadsSince == {synced, head} \cup
    ({q.rev : q \in Recorded(StatusAt(head))} \ {q.rev : q \in Recorded(StatusAt(synced))})
PowerLoss ==
    /\ Fail
    /\ \E kept \in SUBSET (present \ durable), h \in HeadsSince :
         /\ present' = durable \cup kept /\ durable' = present'
         /\ head' = h /\ synced' = h
    /\ pc' = [c \in Callers |-> "idle"] /\ call' = [c \in Callers |-> NoCall]
    /\ answer' = NoAnswer
    /\ UNCHANGED <<records, replay, world, acked>>

Edit == \E t \in Trees \ {cand} :
    cand' = t /\ answer' = NoAnswer /\ UNCHANGED <<store, leaf, approved, off, pc, call, acked, faults>>
Approve ==
    /\ "bind" \in Operations /\ approved[leaf] # cand /\ approved' = [approved EXCEPT ![leaf] = cand] /\ answer' = NoAnswer
    /\ UNCHANGED <<store, cand, leaf, off, pc, call, acked, faults>>
Recover ==
    /\ leaf < MaxLineages /\ leaf' = leaf + 1 /\ answer' = NoAnswer
    /\ UNCHANGED <<store, cand, approved, off, pc, call, acked, faults>>

Init ==
    /\ records = << >> /\ replay = << >> /\ present = {} /\ durable = {} /\ head = 0 /\ synced = 0
    /\ cand \in Trees /\ leaf = 1 /\ approved = [l \in Lineages |-> None] /\ off \in BOOLEAN /\ (off => "bind" \in Operations)
    /\ pc = [c \in Callers |-> "idle"] /\ call = [c \in Callers |-> NoCall]
    /\ acked = {} /\ answer = NoAnswer /\ faults = 0

Operation(c) ==
    \/ Begin(c) \/ Reset(c) \/ FinishPlain(c) \/ FinishRemediation(c) \/ Bind(c)
    \/ Acquire(c) \/ Settle(c) \/ SettleAgain(c)
Step(c) == Submit(c) \/ PublishRecord(c) \/ PublishHead(c) \/ SyncHead(c) \/ Finish(c)

Next == \/ \E c \in Callers : Operation(c) \/ Step(c) \/ Crash(c)
        \/ PowerLoss \/ Edit \/ Approve \/ Recover

Spec == Init /\ [][Next]_vars

-----------------------------------------------------------------------------
(* Properties *)

\* Every variable stays in its range, and the lock has one holder.
TypeOK ==
    /\ Len(records) <= MaxRecords /\ present \subseteq DOMAIN records /\ durable \subseteq present
    /\ head \in 0..Len(records) /\ synced \in 0..Len(records)
    /\ cand \in Trees /\ leaf \in Lineages /\ approved \in [Lineages -> Trees \cup {None}]
    /\ \A c \in Callers : pc[c] \in {"idle", "call", "done", "unsure"} \cup Locked
    /\ Cardinality({c \in Callers : pc[c] \in Locked}) <= 1 /\ faults \in 0..MaxFaults

\* What a mutation wrote, the next one can read: the checks of the builders
\* and those of the replay agree, and no crash or power failure leaves HEAD on
\* a chain that has lost a record.
HeadReplays == Current.ok /\ StatusAt(synced).ok

\* The lines the attempts before the i-th spent on its objective.
Spent(a) ==
    LET before[i \in DOMAIN a] ==
            IF i = 1 \/ a[i - 1].gen # a[i].gen THEN 0
            ELSE before[i - 1] + Lines[<<a[i - 1].begin, a[i - 1].finish>>]
    IN before

\* No objective gets more attempts than its limit, nor one more after its
\* lines are spent, and between two attempts of one objective the candidate did
\* not move, however often the calls were repeated, crashed or raced.
BudgetHeld ==
    LET a == Current.attempts IN
    /\ \A i \in DOMAIN a : Cardinality({j \in DOMAIN a : a[j].gen = a[i].gen}) <= MaxAttempts
    /\ \A i \in DOMAIN a : Spent(a)[i] < MaxLines
    /\ \A i \in DOMAIN a \ {1} : a[i - 1].gen = a[i].gen => a[i - 1].finish = a[i].begin

\* While reviews are on, an attempt that passes on a bound ledger closes on the
\* very bytes an approved review holds: those the binding already names, or
\* those of the successor it selects in the same record.
PassIsReviewed ==
    head # 0 /\ ~off /\ Current.ok =>
        LET r == records[head]
            before == StatusAt(r.prev).binding IN
        r.op \in {"finish", "remediate"} /\ r.outcome = "passed" /\ before # None =>
            r.tree = (IF r.op = "finish" THEN before.tree ELSE r.binding.tree)

\* The requests that took effect, in order, and their identifiers.
Log == LET r == Current.requests IN [n \in DOMAIN r |-> r[n].id]
BindIds == {<<"bind", b, l>> : b \in {None} \cup [lineage : Lineages, tree : Trees], l \in Lineages}
AllIds == Ids \cup BindIds

\* "The returned token identifies that exact begin record for Settle"
\* (runtime_compact.go): what Acquire answers beside "proceed" is the revision
\* of the record that began the attempt of that request.
TokenNamesAttempt ==
    answer.state = "proceed" /\ answer.via = "acquire" =>
        /\ records[answer.token].id = answer.id
        /\ records[answer.token].op \in {"begin", "advance"}

=============================================================================
