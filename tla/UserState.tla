------------------------------ MODULE UserState ------------------------------
(***************************************************************************)
(* ~/.hgtran-ai/state.json (internal/state/state.go): one record, written  *)
(* whole by every command that changes any field of it and guarded by no   *)
(* lock.  Each command reads the record, works for a while, and replaces   *)
(* the file by its own copy with its own fields changed:                   *)
(*   install   a full install writes a fresh record (cli/run.go, app.go)   *)
(*   add       install --agent X merges into what it reads                 *)
(*   sync      may migrate the community tools of the record it READ FIRST *)
(*   models    the screen's sync, then the model assignments               *)
(*   launch    the screen's start: runs the deferred sync and clears it    *)
(*   defer     an upgrade that leaves a deferred sync behind               *)
(*   upgrade   the explicit upgrade, which leaves none                     *)
(*   check     the time of the last check for updates (cooldown.go)        *)
(*   mode      the review kill switch (cli/review_mode.go)                 *)
(*   remove    uninstall of one agent                                      *)
(* Beside the file: the installed binary, and the binary whose sync or     *)
(* install last wrote the managed assets.                                  *)
(***************************************************************************)
EXTENDS Naturals, FiniteSets

CONSTANTS Procs,        \* running gentle-ai processes
          Agents,       \* agents that can be installed
          Commands,     \* the commands this instance runs
          MaxBinary,    \* bound on upgrades
          Overlap,      \* may two processes run at once
          MaxFaults,    \* bound on crashes and damaged files
          Missing,      \* there is no file
          Corrupt       \* the file cannot be decoded

VARIABLES file,     \* the record, or Missing, or Corrupt
          binary,   \* version of the installed binary
          assets,   \* version of the binary that last wrote the assets
          proc,     \* what each process is doing
          chosen,   \* has the user ever set the kill switch
          faults

vars == <<file, binary, assets, proc, chosen, faults>>

\* rdd_mode; "unset" is the empty string of a user who never chose
Modes == {"unset", "on", "off"}
Records == [agents : SUBSET Agents, tools : BOOLEAN, models : BOOLEAN,
            pending : BOOLEAN, mode : Modes, checked : BOOLEAN]

\* InstallState{}: what a command starts from when there is no file
Zero == [agents |-> {}, tools |-> FALSE, models |-> FALSE,
         pending |-> FALSE, mode |-> "unset", checked |-> FALSE]

Readable == file \notin {Missing, Corrupt}
Read == IF Readable THEN file ELSE Zero

Idle == [cmd |-> "none", at |-> "idle", ver |-> 0,
         outer |-> Zero, inner |-> Zero, seen |-> "ok", arg |-> "none"]

\* state.Read as a process sees it: the record and what the read answered
Seen == IF Readable THEN "ok" ELSE IF file = Missing THEN "missing" ELSE "corrupt"

\* the argument of a command: an agent or a mode
Args(c) == CASE c \in {"install", "add", "remove"} -> Agents
             [] c = "mode" -> {"on", "off"}
             [] OTHER -> {"none"}

\* where a command starts
Entry(c) == CASE c \in {"install", "add"} -> "work"
              [] c \in {"sync", "models"} -> "syncread"
              [] c = "launch" -> "open"
              [] c \in {"defer", "upgrade"} -> "replace"
              [] OTHER -> "read"

\* where the work of a command goes on when it succeeded
AfterWork(c) == CASE c = "install" -> "write"
                  [] c \in {"add", "models"} -> "read"
                  [] c = "launch" -> "write"
                  [] OTHER -> "idle"

Go(p, at) == proc' = [proc EXCEPT ![p] = IF at = "idle" THEN Idle ELSE [@ EXCEPT !.at = at]]

Init ==
    /\ file \in {Missing} \cup
         {[Zero EXCEPT !.agents = Agents, !.models = m] : m \in BOOLEAN}
    /\ binary = 1 /\ assets = 1
    /\ proc = [p \in Procs |-> Idle]
    /\ chosen = FALSE
    /\ faults = 0

Begin(p, c) ==
    /\ proc[p] = Idle
    /\ Overlap \/ \A q \in Procs : proc[q] = Idle
    /\ \E a \in Args(c) :
         proc' = [proc EXCEPT ![p] = [Idle EXCEPT !.cmd = c, !.at = Entry(c),
                                                  !.ver = binary, !.arg = a]]
    /\ UNCHANGED <<file, binary, assets, chosen, faults>>

(* Mutated: the screen never looks at the flag. *)
Open_Ignores(p) ==
    /\ proc[p].at = "open"
    /\ Go(p, "idle")
    /\ UNCHANGED <<file, binary, assets, chosen, faults>>

\* The screen starts: whatever the read answers, the record it got is kept
\* and only its pending flag is looked at
Open(p) ==
    /\ proc[p].at = "open"
    /\ proc' = [proc EXCEPT ![p] = IF Read.pending
                  THEN [@ EXCEPT !.at = "syncread", !.outer = Read] ELSE Idle]
    /\ UNCHANGED <<file, binary, assets, chosen, faults>>

\* RunSyncWithSelection reads the record before its pipeline runs
SyncRead(p) ==
    /\ proc[p].at = "syncread"
    /\ proc' = [proc EXCEPT ![p].inner = Read, ![p].seen = Seen, ![p].at = "work"]
    /\ UNCHANGED <<file, binary, assets, chosen, faults>>

\* The pipeline of an install or a sync.  A failure ends the command; a
\* sync that succeeded may still have to migrate the community tools
Work(p) ==
    /\ proc[p].at = "work"
    /\ \/ Go(p, "idle") /\ UNCHANGED assets
       \/ /\ assets' = proc[p].ver
          /\ LET syncing == proc[p].cmd \in {"sync", "models", "launch"}
             IN \/ Go(p, AfterWork(proc[p].cmd))
                \/ /\ syncing /\ proc[p].seen = "ok" /\ ~proc[p].inner.tools
                   /\ Go(p, "migrate")
    /\ UNCHANGED <<file, binary, chosen, faults>>

\* ... and then writes the record it read before the pipeline
Migrate(p) ==
    /\ proc[p].at = "migrate"
    /\ file' = [proc[p].inner EXCEPT !.tools = TRUE]
    /\ Go(p, AfterWork(proc[p].cmd))
    /\ UNCHANGED <<binary, assets, chosen, faults>>

(* Mutated: an upgrade that ought to defer a sync forgets it. *)
Replace_NoMark(p) ==
    /\ proc[p].at = "replace"
    /\ binary < MaxBinary
    /\ binary' = binary + 1
    /\ Go(p, "idle")
    /\ UNCHANGED <<file, assets, chosen, faults>>

\* The upgrade strategy replaces the binary.  Only an upgrade at the start
\* of a command, or with the sync of the screen, defers a sync
Replace(p) ==
    /\ proc[p].at = "replace"
    /\ \/ Go(p, "idle") /\ UNCHANGED binary
       \/ /\ binary < MaxBinary
          /\ binary' = binary + 1
          /\ Go(p, IF proc[p].cmd = "defer" THEN "read" ELSE "idle")
    /\ UNCHANGED <<file, assets, chosen, faults>>

(* Mutated: every error of a read counts as no file. *)
ReadsOn_Anything(c) == Readable \/ c # "remove"

\* What a command does about a file it cannot read
ReadsOn(c) ==
    \/ Readable
    \/ file = Missing /\ c # "remove"

\* The read before the write.  A file that cannot be decoded stops every
\* command; uninstall also stops when there is none, or nothing to remove
ReadBack(p) ==
    /\ proc[p].at = "read"
    /\ IF ReadsOn(proc[p].cmd) /\ (proc[p].cmd = "remove" => proc[p].arg \in file.agents)
       THEN proc' = [proc EXCEPT ![p].outer = Read, ![p].seen = Seen, ![p].at = "write"]
       ELSE Go(p, "idle")
    /\ UNCHANGED <<file, binary, assets, chosen, faults>>

\* A full install builds its record from the selection alone
Fresh(a) == [Zero EXCEPT !.agents = {a}, !.tools = TRUE]

\* MergeAgents: the agents are added and every other field is kept
MergeAgents(r, a) == [r EXCEPT !.agents = @ \cup {a}]

\* The record a command writes from the one it read
Written(p) ==
    LET r == proc[p].outer
        a == proc[p].arg
    IN CASE proc[p].cmd = "install" -> Fresh(a)
         [] proc[p].cmd = "add" -> IF proc[p].seen = "missing" THEN Fresh(a)
                                   ELSE MergeAgents(r, a)
         [] proc[p].cmd = "models" -> [r EXCEPT !.models = TRUE]
         [] proc[p].cmd = "launch" -> [r EXCEPT !.pending = FALSE]
         [] proc[p].cmd = "defer" -> [r EXCEPT !.pending = TRUE]
         [] proc[p].cmd = "check" -> [r EXCEPT !.checked = TRUE]
         [] proc[p].cmd = "mode" -> [r EXCEPT !.mode = a]
         [] proc[p].cmd = "remove" -> [r EXCEPT !.agents = @ \ {a}]

\* state.Write: a temporary file renamed over the old one
Write(p) ==
    /\ proc[p].at = "write"
    /\ file' = Written(p)
    /\ chosen' = (chosen \/ proc[p].cmd = "mode")
    /\ Go(p, "idle")
    /\ UNCHANGED <<binary, assets, faults>>

\* The process dies
Crash(p) ==
    /\ proc[p] # Idle
    /\ faults < MaxFaults
    /\ faults' = faults + 1
    /\ Go(p, "idle")
    /\ UNCHANGED <<file, binary, assets, chosen>>

\* The user's editor leaves a file that is not JSON, or deletes it, while
\* no command runs
Damage ==
    /\ \A p \in Procs : proc[p] = Idle
    /\ faults < MaxFaults
    /\ faults' = faults + 1
    /\ file' \in {Corrupt, Missing}
    /\ chosen' = FALSE
    /\ UNCHANGED <<binary, assets, proc>>

Step(p) == \/ Open(p) \/ SyncRead(p) \/ Work(p) \/ Migrate(p)
           \/ Replace(p) \/ ReadBack(p) \/ Write(p)

Next ==
    \/ \E p \in Procs : (\E c \in Commands : Begin(p, c)) \/ Step(p) \/ Crash(p)
    \/ Damage

\* The sync of a screen that was opened succeeds
LaunchSyncs(p) == proc[p].cmd = "launch" /\ Work(p) /\ assets' = proc[p].ver

\* A process that runs goes on.  The screen is opened again and again, and
\* a sync that is tried again and again succeeds once
Fairness ==
    \A p \in Procs :
        /\ WF_vars(Step(p))
        /\ SF_vars(Begin(p, "launch"))
        /\ SF_vars(LaunchSyncs(p))

Spec == Init /\ [][Next]_vars
FairSpec == Spec /\ Fairness

-----------------------------------------------------------------------------
(* Properties *)

TypeOK ==
    /\ file \in Records \cup {Missing, Corrupt}
    /\ binary \in 1..MaxBinary /\ assets \in 1..MaxBinary
    /\ proc \in [Procs -> [cmd : Commands \cup {"none"},
                           at : {"idle", "open", "syncread", "work", "migrate",
                                 "replace", "read", "write"},
                           ver : 0..MaxBinary, outer : Records, inner : Records,
                           seen : {"ok", "missing", "corrupt"},
                           arg : Agents \cup {"on", "off", "none"}]]
    /\ chosen \in BOOLEAN
    /\ faults \in 0..MaxFaults

\* The commands whose business a field is.  The start of the screen runs a
\* sync, so it may migrate the tools
Owners == [agents |-> {"add", "remove"}, tools |-> {"sync", "models", "launch"},
           models |-> {"models"}, pending |-> {"launch", "defer"},
           mode |-> {"mode"}, checked |-> {"check"}]

\* A command that merges into the record leaves every field that is not its
\* own as it was: adding an agent does not touch the kill switch, the check
\* for updates does not touch the agents, nothing but the user's own mode
\* command changes the mode (state.MergeAgents and the read-modify-write of
\* each command).  It is stated of commands that do not overlap.
KeepsOthersFields ==
    (file \in Records /\ file' \in Records /\ file' # file) =>
        \E p \in Procs :
            \/ proc[p].cmd = "install"
            \/ \A f \in DOMAIN Owners :
                 file'[f] # file[f] => proc[p].cmd \in Owners[f]
OthersFieldsKept == [][KeepsOthersFields]_file

\* A file that cannot be decoded is never replaced by a command that merges:
\* what is in it may be the user's agents and models, so every such command
\* stops or skips instead of starting from an empty record (the no-clobber
\* guards of cooldown.go, selfupdate.go, app.go and run.go).
KeepsUnreadable ==
    file = Corrupt /\ file' \in Records => \E p \in Procs : proc[p].cmd = "install"
UnreadableIsKept == [][KeepsUnreadable]_file

\* A new binary is never left with the old binary's assets without the
\* record saying so: until a sync or an install of the new binary wrote the
\* assets, the pending flag is set, or the upgrade is about to set it
\* (selfupdate.go, tui/model.go startUpgradeSync, app.go deferred sync).
UpgradeIsSynced ==
    assets < binary =>
        \/ Readable /\ file.pending
        \/ \E p \in Procs : proc[p].cmd = "defer" /\ proc[p].at \in {"read", "write"}

\* The deferred sync happens: with the screen opened again and again, the
\* assets catch up with the binary, however often a sync fails (app.go, the
\* flag is left set after a failure and the next launch retries).
AssetsCatchUp == (assets < binary) ~> (assets = binary)

\* An empty mode means the user never expressed a preference: once a mode
\* command succeeded the record holds its value (state.go on RDDMode).
EmptyMeansNeverAsked == Readable /\ chosen => file.mode # "unset"

=============================================================================
