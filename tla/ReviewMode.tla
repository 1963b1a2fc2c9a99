------------------------------ MODULE ReviewMode ------------------------------
(***************************************************************************)
(* The review kill switch (internal/reviewtransaction/rdd_mode.go,         *)
(* cli/review_mode.go, cli/review_kill_switch.go).  Two sources decide:    *)
(* the user's global mode and this clone's off-only override.  The         *)
(* override is a row of immutable generations; a command replaces the head *)
(* by publishing the next one under a lock, if the head is still the one   *)
(* it was told.  A review command asks the switch once, when it resolves   *)
(* its repository, reading one source after the other, and writes review   *)
(* authority some time later.                                              *)
(***************************************************************************)
EXTENDS Naturals, Sequences

CONSTANTS Users,       \* processes that run a mode command
          Reviews,     \* processes that run a review command
          None,        \* the lock is free
          Scopes,      \* the scopes the users' commands name
          Globals,     \* initial values of the global mode
          MaxGen,      \* bound on the generations of the override
          MaxSets,     \* bound on the changes of the global mode
          MaxFaults    \* bound on crashes and damaged records

VARIABLES global,    \* rdd_mode of the user's state file: "unset" is none, "junk" no mode
          slots,     \* the generations, oldest first
          lock,      \* holder of the override's lock
          user,      \* the mode command each user is running
          review,    \* the review command each process is running
          sets, faults

vars == <<global, slots, lock, user, review, sets, faults>>

\* A generation: the revision it replaced (0 for none), the mode it records,
\* the revision its writer was told, and whether its bytes can still be read.
\* The revision of a record is the digest of its content, which its number
\* stands for
Slot == [previous : 0..MaxGen, mode : {"off", "inherit"}, ok : BOOLEAN,
         told : 0..MaxGen, repairs : BOOLEAN]

Newest == Len(slots)
Current == slots[Newest]
Present == Newest > 0 /\ Current.ok
Unreadable == Newest > 0 /\ ~Current.ok

\* the compare-and-set token of what readCloneLocalRDDOverrideHead answers
Token == IF Present THEN Newest ELSE 0

\* rddModeStatus over the two sources as read: any off wins, an unreadable
\* source is an error and authorizes nothing
On(g, o) == g \in {"unset", "on"} /\ o \in {"none", "inherit"}
Override == CASE Unreadable -> "corrupt" [] Present -> Current.mode [] OTHER -> "none"
Effective == On(global, Override)

UserIdle == [at |-> "idle", scope |-> "none", op |-> "none", told |-> 0,
             before |-> 0, answer |-> "none"]
ReviewIdle == [at |-> "idle", global |-> "unset", on |-> FALSE]

Init ==
    /\ global \in Globals
    /\ slots = <<>>
    /\ lock = None
    /\ user = [u \in Users |-> UserIdle]
    /\ review = [w \in Reviews |-> ReviewIdle]
    /\ sets = 0 /\ faults = 0

\* What the review commands under way have seen of the switch: was it on at
\* any moment since they began to ask
Watched(now) == [w \in Reviews |->
                   [review[w] EXCEPT !.on = @ \/ (review[w].at # "idle" /\ now)]]

-----------------------------------------------------------------------------
(* Mode commands *)

\* review mode enable | disable --scope global
SetGlobal(u, op) ==
    /\ user[u].at = "idle" /\ "global" \in Scopes /\ sets < MaxSets
    /\ global' = IF op = "enable" THEN "on" ELSE "off"
    /\ sets' = sets + 1
    /\ review' = Watched(On(global', Override))
    /\ UNCHANGED <<slots, lock, user, faults>>

\* --scope clone: without an explicit revision the head is read with an unset
\* global mode; a corrupt head has no token
Resolve(u, op) ==
    /\ user[u].at = "idle" /\ "clone" \in Scopes /\ Newest < MaxGen
    /\ user' = [user EXCEPT ![u] = [UserIdle EXCEPT !.at = "lock", !.scope = "clone",
                                    !.op = op, !.told = Token]]
    /\ UNCHANGED <<global, slots, lock, review, sets, faults>>

Acquire(u) ==
    /\ user[u].at = "lock" /\ lock = None
    /\ lock' = u
    /\ user' = [user EXCEPT ![u].at = "compare"]
    /\ UNCHANGED <<global, slots, review, sets, faults>>

\* acquireBoundedRARLock gives up while another command holds the lock
GiveUp(u) ==
    /\ user[u].at = "lock" /\ lock # None
    /\ user' = [user EXCEPT ![u] = [UserIdle EXCEPT !.answer = "error"]]
    /\ UNCHANGED <<global, slots, lock, review, sets, faults>>

(* Mutated: the revision is not compared. *)
Compares_Never(u) == TRUE

(* Mutated: a head that cannot be read blocks its own repair. *)
Compares_Readable(u) == user[u].told = Token /\ ~Unreadable

\* the head is read again under the lock and has to be the one named
Compares(u) == user[u].told = Token

\* Under the lock: a mismatch refuses; otherwise the next generation is the
\* one after the head, readable or not
Compare(u) ==
    /\ user[u].at = "compare"
    /\ IF Compares(u)
       THEN user' = [user EXCEPT ![u].at = "publish", ![u].before = Newest] /\ UNCHANGED lock
       ELSE user' = [user EXCEPT ![u] = [UserIdle EXCEPT !.answer = "error"]] /\ lock' = None
    /\ UNCHANGED <<global, slots, review, sets, faults>>

\* The record is published without replacing anything: a slot already taken
\* is a conflict.  A global mode that is none is reported after that, as an
\* error of a command that took effect
Publish(u) ==
    /\ user[u].at = "publish"
    /\ LET r == [previous |-> user[u].told,
                 mode |-> IF user[u].op = "enable" THEN "inherit" ELSE "off",
                 ok |-> TRUE, told |-> user[u].told, repairs |-> Unreadable]
           done == Newest = user[u].before
       IN /\ slots' = IF done THEN Append(slots, r) ELSE slots
          /\ review' = Watched(IF done THEN On(global, r.mode) ELSE Effective)
          /\ user' = [user EXCEPT ![u] = [UserIdle EXCEPT !.answer =
                        IF done /\ global # "junk" THEN "ok" ELSE "error"]]
    /\ lock' = None
    /\ UNCHANGED <<global, sets, faults>>

-----------------------------------------------------------------------------
(* Review commands *)

\* authorizeReviewRDDOperation: the global mode is read first ...
AskGlobal(w) ==
    /\ review[w].at = "idle"
    /\ review' = [review EXCEPT ![w] = [at |-> "override", global |-> global, on |-> Effective]]
    /\ UNCHANGED <<global, slots, lock, user, sets, faults>>

\* ... then the override, and both decide
Authorizes(w) == On(review[w].global, Override)

AskOverride(w) ==
    /\ review[w].at = "override"
    /\ review' = [review EXCEPT ![w] = IF Authorizes(w) THEN [@ EXCEPT !.at = "act"]
                                       ELSE ReviewIdle]
    /\ UNCHANGED <<global, slots, lock, user, sets, faults>>

\* The command writes authority; the switch is not asked again
Advance(w) ==
    /\ review[w].at = "act"
    /\ review' = [review EXCEPT ![w] = ReviewIdle]
    /\ UNCHANGED <<global, slots, lock, user, sets, faults>>

-----------------------------------------------------------------------------
(* Faults *)

\* a mode command dies; the operating system frees its lock
Crash(u) ==
    /\ user[u].at # "idle" /\ faults < MaxFaults
    /\ user' = [user EXCEPT ![u] = UserIdle]
    /\ lock' = IF lock = u THEN None ELSE lock
    /\ faults' = faults + 1
    /\ UNCHANGED <<global, slots, review, sets>>

\* the bytes of the head are damaged; within the bound a repair has room
Damage ==
    /\ Present /\ Newest < MaxGen /\ faults < MaxFaults
    /\ slots' = [slots EXCEPT ![Newest].ok = FALSE]
    /\ faults' = faults + 1
    /\ UNCHANGED <<global, lock, user, review, sets>>

Command(u) == \E op \in {"enable", "disable"} : SetGlobal(u, op) \/ Resolve(u, op)
UserStep(u) == Acquire(u) \/ GiveUp(u) \/ Compare(u) \/ Publish(u)
ReviewStep(w) == AskGlobal(w) \/ AskOverride(w) \/ Advance(w)

Next ==
    \/ \E u \in Users : Command(u) \/ UserStep(u) \/ Crash(u)
    \/ \E w \in Reviews : ReviewStep(w)
    \/ Damage

\* A command that was given goes on, and the user gives one again
GivesCommand(u) == \E op \in {"enable", "disable"} : Resolve(u, op)
Fairness == \A u \in Users : WF_vars(UserStep(u)) /\ SF_vars(GivesCommand(u))

Spec == Init /\ [][Next]_vars
FairSpec == Spec /\ Fairness

-----------------------------------------------------------------------------
(* Properties *)

TypeOK ==
    /\ global \in {"unset", "on", "off", "junk"}
    /\ slots \in Seq(Slot) /\ Len(slots) <= MaxGen + 1
    /\ lock \in Users \cup {None}
    /\ user \in [Users -> [at : {"idle", "lock", "compare", "publish"},
                           scope : {"none", "clone"}, op : {"none", "enable", "disable"},
                           told : 0..MaxGen, before : 0..MaxGen,
                           answer : {"none", "ok", "error"}]]
    /\ review \in [Reviews -> [at : {"idle", "override", "act"},
                               global : {"unset", "on", "off", "junk"}, on : BOOLEAN]]
    /\ sets \in 0..MaxSets /\ faults \in 0..MaxFaults

\* No choice is replaced unseen: whoever published a generation had been told
\* the one before it, so of two commands that start from one head only one
\* takes effect.  Only a head that could not be read was replaced without
\* being named (rdd_mode.go SetCloneLocalRDDMode).
NothingReplacedUnseen ==
    \A n \in 1..Len(slots) : slots[n].told = n - 1 \/ slots[n].repairs

\* What was published stays: a generation is never rewritten, and a damaged
\* one is superseded, not overwritten (publishPrivateRARImmutable).
KeepsGenerations ==
    /\ Len(slots) <= Len(slots')
    /\ \A n \in 1..Len(slots) : slots'[n] = slots[n] \/ slots'[n] = [slots[n] EXCEPT !.ok = FALSE]
GenerationsImmutable == [][KeepsGenerations]_slots

\* A review command that the switch let pass asked at a time when, at some
\* moment between its first and its last read, reviews were on and both
\* sources could be read (rdd_mode.go AuthorizeRDDOperation).
AuthorizedWhileOn == \A w \in Reviews : review[w].at = "act" => review[w].on

\* An unreadable override can be repaired from any state by the command the
\* refusal names, also while the global mode cannot be read
\* (applyReviewMode, SetCloneLocalRDDMode).
DamageIsRepairable == Unreadable ~> ~Unreadable
=============================================================================
