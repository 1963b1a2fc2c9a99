--------------------------- MODULE InstallerProofs ---------------------------
(***************************************************************************)
(* What every setting of the other components of MCInstaller keeps, and    *)
(* then that the behaviours of MCInstaller do: one section for a component *)
(* with what it assumes of the setting (its ...Bounds), the inductive      *)
(* invariant (its ...Inv) with a lemma for every action, and what follows; *)
(* the last section puts the settings in.                                  *)
(***************************************************************************)
EXTENDS BackupProofs

(***************************************************************************)
(* InstallPipeline                                                         *)
(***************************************************************************)

(* The files of the Pi integration are not among those components write.   *)
PipelineBounds(k) ==
    /\ k.MaxRuns \in Nat /\ k.MaxFaults \in Nat /\ k.Fresh \in BOOLEAN /\ k.Plugins \in BOOLEAN
    /\ k.Managed \cap {"piMCP", "child", "overlay"} = {}

StepNames ==
    {"restore", "agent", "plugin", "tool", "component", "guidance", "pi", "refresh", "pi-sync"}
Commands(k) ==
    [cmd : {"none", "install", "tui", "sync"}, tool : BOOLEAN, plan : Seq(StepNames),
     at : {"idle", "done", "failed", "refused", "unverified", "apply", "rollback", "verify"},
     results : Seq({"ok", "failed"}), left : Nat, disk : SUBSET Pipeline(k)!Files,
     owned : SUBSET Pipeline(k)!PiFiles, covered : SUBSET Pipeline(k)!Files, before : SUBSET k.Managed,
     errors : SUBSET {"restore", "refresh", "pi"}]
PipelineTypes(k) ==
    /\ disk \subseteq Pipeline(k)!Files /\ owned \subseteq Pipeline(k)!PiFiles /\ pkg \in BOOLEAN
    /\ saved \in {"none", "tool", "plain"} /\ runs \in 0 .. k.MaxRuns /\ faults \in 0 .. k.MaxFaults
    /\ run \in Commands(k)

(* The snapshot is the first step of a plan and of no other step, some     *)
(* component is configured, and Pi is reconciled last if at all.           *)
PlanFits(k, p, cmd) ==
    /\ p \in Seq(StepNames) /\ Len(p) >= 3 /\ p[1] = "restore"
    /\ \A i \in 2 .. Len(p) : p[i] # "restore"
    /\ \E i \in 1 .. Len(p) : p[i] = "component"
    /\ \A i \in 1 .. Len(p) : p[i] = "pi" => i = Len(p)
    /\ cmd # "sync" => p[Len(p)] = "pi"
    /\ ~k.Plugins => \A i \in 1 .. Len(p) : p[i] # "plugin"

Running == {"apply", "verify", "rollback"}

(* Where a command is: a failure after the snapshot leads to the rollback, *)
(* and the verification follows a plan all of whose steps have succeeded.  *)
Where(k, r) ==
    /\ r.at \in Running => PlanFits(k, r.plan, r.cmd)
    /\ Len(r.results) <= Len(r.plan)
    /\ r.results # <<>> => r.results[1] = "ok"
    /\ r.at = "apply" => Len(r.results) < Len(r.plan) /\ r.errors = {}
    /\ r.at = "verify" => /\ Len(r.results) = Len(r.plan)
                            /\ \A i \in 1 .. Len(r.plan) : r.results[i] = "ok"
    /\ r.at = "rollback" => r.results # <<>> /\ r.left <= Len(r.results)
    /\ r.at \in Running => k.Managed \cup {"piMCP", "child"} \cup r.owned \subseteq r.covered

(* What is on the disk: steps that have succeeded have taken effect, and   *)
(* a snapshot that was restored is back.                                   *)
Done(r, step) == \E i \in 1 .. Len(r.results) : r.plan[i] = step /\ r.results[i] = "ok"
Back(r, d, o) == d \cap r.covered = r.disk \cap r.covered /\ o = r.owned
OnDisk(k, r, d, o) ==
    /\ r.errors = {} /\ r.owned \subseteq r.disk => o \subseteq d
    /\ r.at \in {"apply", "verify"} /\ Done(r, "component") => k.Managed \subseteq d
    /\ r.at \in {"apply", "verify"} /\ Done(r, "pi") => (r.tool <=> o # {})
    /\ r.at = "failed" \/ (r.at = "rollback" /\ r.left = 0) => "restore" \in r.errors \/ Back(r, d, o)

(* Without new packages and plugins nothing outside the snapshot changes.  *)
Within(k, r, d, o) ==
    ~k.Fresh /\ ~k.Plugins /\ r.at \in Running \cup {"failed"} =>
        /\ d \ r.covered = r.disk \ r.covered
        /\ r.at # "failed" => o \subseteq r.covered /\ ("overlay" \in r.covered \/ (~pkg /\ "overlay" \notin r.disk))

PipelineInv(k) ==
    PipelineTypes(k) /\ Where(k, run) /\ OnDisk(k, run, disk, owned) /\ Within(k, run, disk, owned)

-----------------------------------------------------------------------------
(* Two sequences of steps one after the other.                             *)
LEMMA Joined ==
    ASSUME NEW S, NEW s \in Seq(S), NEW t \in Seq(S), NEW u \in Seq(S), Len(u) = Len(s) + Len(t),
           \A i \in 1 .. Len(s) : u[i] = s[i], \A i \in 1 .. Len(t) : u[Len(s) + i] = t[i]
    PROVE  s \o t = u
<1>1. /\ s \o t \in Seq(S) /\ Len(s \o t) = Len(u)
      /\ \A i \in 1 .. Len(s \o t) : (s \o t)[i] = IF i <= Len(s) THEN s[i] ELSE t[i - Len(s)]
    BY ConcatProperties
<1>2. ASSUME NEW i \in 1 .. Len(u) PROVE (s \o t)[i] = u[i]
  <2>1. CASE i <= Len(s)
      BY <1>1, <2>1
  <2>2. CASE ~(i <= Len(s))
    <3>1. i - Len(s) \in 1 .. Len(t) /\ i = Len(s) + (i - Len(s))
        BY <2>2
    <3> QED
        BY <1>1, <2>2, <3>1
  <2> QED
      BY <2>1, <2>2
<1> QED
    BY <1>1, <1>2, SeqEqual

LEMMA Join21 ==
    ASSUME NEW a, NEW b, NEW c
    PROVE  <<a, b>> \o <<c>> = <<a, b, c>>
<1> DEFINE S == {a, b, c}
           s == <<a, b>>
           t == <<c>>
           u == <<a, b, c>>
<1>1. /\ s \in Seq(S) /\ t \in Seq(S) /\ u \in Seq(S)
      /\ Len(s) = 2 /\ Len(t) = 1 /\ Len(u) = 3
    OBVIOUS
<1>2. (\A i \in 1 .. 2 : u[i] = s[i]) /\ \A i \in 1 .. 1 : u[2 + i] = t[i]
    OBVIOUS
<1> HIDE DEF S, s, t, u
<1>3. /\ Len(u) = Len(s) + Len(t)
      /\ \A i \in 1 .. Len(s) : u[i] = s[i]
      /\ \A i \in 1 .. Len(t) : u[Len(s) + i] = t[i]
    BY <1>1, <1>2
<1>4. s \o t = u
    BY <1>1, <1>3, Joined
<1> QED
    BY <1>4 DEF s, t, u

LEMMA Join31 ==
    ASSUME NEW a, NEW b, NEW c,
           NEW d
    PROVE  <<a, b, c>> \o <<d>> = <<a, b, c, d>>
<1> DEFINE S == {a, b, c, d}
           s == <<a, b, c>>
           t == <<d>>
           u == <<a, b, c, d>>
<1>1. /\ s \in Seq(S) /\ t \in Seq(S) /\ u \in Seq(S)
      /\ Len(s) = 3 /\ Len(t) = 1 /\ Len(u) = 4
    OBVIOUS
<1>2. (\A i \in 1 .. 3 : u[i] = s[i]) /\ \A i \in 1 .. 1 : u[3 + i] = t[i]
    OBVIOUS
<1> HIDE DEF S, s, t, u
<1>3. /\ Len(u) = Len(s) + Len(t)
      /\ \A i \in 1 .. Len(s) : u[i] = s[i]
      /\ \A i \in 1 .. Len(t) : u[Len(s) + i] = t[i]
    BY <1>1, <1>2
<1>4. s \o t = u
    BY <1>1, <1>3, Joined
<1> QED
    BY <1>4 DEF s, t, u

LEMMA Join23 ==
    ASSUME NEW a, NEW b, NEW c,
           NEW d, NEW e
    PROVE  <<a, b>> \o <<c, d, e>> = <<a, b, c, d, e>>
<1> DEFINE S == {a, b, c, d, e}
           s == <<a, b>>
           t == <<c, d, e>>
           u == <<a, b, c, d, e>>
<1>1. /\ s \in Seq(S) /\ t \in Seq(S) /\ u \in Seq(S)
      /\ Len(s) = 2 /\ Len(t) = 3 /\ Len(u) = 5
    OBVIOUS
<1>2. (\A i \in 1 .. 2 : u[i] = s[i]) /\ \A i \in 1 .. 3 : u[2 + i] = t[i]
    OBVIOUS
<1> HIDE DEF S, s, t, u
<1>3. /\ Len(u) = Len(s) + Len(t)
      /\ \A i \in 1 .. Len(s) : u[i] = s[i]
      /\ \A i \in 1 .. Len(t) : u[Len(s) + i] = t[i]
    BY <1>1, <1>2
<1>4. s \o t = u
    BY <1>1, <1>3, Joined
<1> QED
    BY <1>4 DEF s, t, u

LEMMA Join32 ==
    ASSUME NEW a, NEW b, NEW c,
           NEW d, NEW e
    PROVE  <<a, b, c>> \o <<d, e>> = <<a, b, c, d, e>>
<1> DEFINE S == {a, b, c, d, e}
           s == <<a, b, c>>
           t == <<d, e>>
           u == <<a, b, c, d, e>>
<1>1. /\ s \in Seq(S) /\ t \in Seq(S) /\ u \in Seq(S)
      /\ Len(s) = 3 /\ Len(t) = 2 /\ Len(u) = 5
    OBVIOUS
<1>2. (\A i \in 1 .. 3 : u[i] = s[i]) /\ \A i \in 1 .. 2 : u[3 + i] = t[i]
    OBVIOUS
<1> HIDE DEF S, s, t, u
<1>3. /\ Len(u) = Len(s) + Len(t)
      /\ \A i \in 1 .. Len(s) : u[i] = s[i]
      /\ \A i \in 1 .. Len(t) : u[Len(s) + i] = t[i]
    BY <1>1, <1>2
<1>4. s \o t = u
    BY <1>1, <1>3, Joined
<1> QED
    BY <1>4 DEF s, t, u

LEMMA SyncPlan == ASSUME NEW k, NEW plugin PROVE
    /\ PlanFits(k, Pipeline(k)!Plan("sync", TRUE, plugin), "sync")
    /\ PlanFits(k, Pipeline(k)!Plan("sync", FALSE, plugin), "sync")
<1>1. Pipeline(k)!Plan("sync", TRUE, plugin) = <<"restore", "component", "guidance", "refresh", "pi-sync">>
  <2>1. <<"restore", "component", "guidance">> \o <<"refresh", "pi-sync">> =
            <<"restore", "component", "guidance", "refresh", "pi-sync">>
      BY Join32, Zenon
  <2> QED
      BY <2>1 DEF Pipeline!Plan
<1>2. Pipeline(k)!Plan("sync", FALSE, plugin) = <<"restore", "component", "guidance">>
    BY DEF Pipeline!Plan
<1>3. PlanFits(k, <<"restore", "component", "guidance", "refresh", "pi-sync">>, "sync")
    BY DEF PlanFits, StepNames
<1>4. PlanFits(k, <<"restore", "component", "guidance">>, "sync")
    BY DEF PlanFits, StepNames
<1> QED
    BY <1>1, <1>2, <1>3, <1>4

(* What follows the agents in a plan of install, as they are put together. *)
LEMMA InstallParts ==
    /\ <<"restore", "agent">> \o <<"plugin">> = <<"restore", "agent", "plugin">>
    /\ <<"restore", "agent">> \o <<>> = <<"restore", "agent">>
    /\ <<"restore", "agent", "plugin">> \o <<"tool">> = <<"restore", "agent", "plugin", "tool">>
    /\ <<"restore", "agent", "plugin">> \o <<>> = <<"restore", "agent", "plugin">>
    /\ <<"restore", "agent">> \o <<"tool">> = <<"restore", "agent", "tool">>
    /\ <<"restore", "agent", "plugin", "tool">> \o <<"component", "guidance", "pi">> =
           <<"restore", "agent", "plugin", "tool", "component", "guidance", "pi">>
    /\ <<"restore", "agent", "plugin">> \o <<"component", "guidance", "pi">> =
           <<"restore", "agent", "plugin", "component", "guidance", "pi">>
    /\ <<"restore", "agent", "tool">> \o <<"component", "guidance", "pi">> =
           <<"restore", "agent", "tool", "component", "guidance", "pi">>
    /\ <<"restore", "agent">> \o <<"component", "guidance", "pi">> =
           <<"restore", "agent", "component", "guidance", "pi">>
<1>1. <<"restore", "agent">> \o <<"plugin">> = <<"restore", "agent", "plugin">>
    BY Join21, Zenon
<1>2. <<"restore", "agent">> \o <<>> = <<"restore", "agent">>
    OBVIOUS
<1>3. <<"restore", "agent", "plugin">> \o <<"tool">> = <<"restore", "agent", "plugin", "tool">>
    BY Join31, Zenon
<1>4. <<"restore", "agent", "plugin">> \o <<>> = <<"restore", "agent", "plugin">>
    OBVIOUS
<1>5. <<"restore", "agent">> \o <<"tool">> = <<"restore", "agent", "tool">>
    BY Join21, Zenon
<1>6. <<"restore", "agent", "plugin", "tool">> \o <<"component", "guidance", "pi">> =
           <<"restore", "agent", "plugin", "tool", "component", "guidance", "pi">>
  <2> DEFINE s == <<"restore", "agent", "plugin", "tool">>
             t == <<"component", "guidance", "pi">>
             u == <<"restore", "agent", "plugin", "tool", "component", "guidance", "pi">>
  <2>1. /\ s \in Seq(StepNames) /\ t \in Seq(StepNames) /\ u \in Seq(StepNames)
        /\ Len(s) = 4 /\ Len(t) = 3 /\ Len(u) = 7
      BY DEF StepNames
  <2>2. (\A i \in 1 .. 4 : u[i] = s[i]) /\ \A i \in 1 .. 3 : u[4 + i] = t[i]
      OBVIOUS
  <2> HIDE DEF s, t, u
  <2>3. /\ Len(u) = Len(s) + Len(t)
        /\ \A i \in 1 .. Len(s) : u[i] = s[i]
        /\ \A i \in 1 .. Len(t) : u[Len(s) + i] = t[i]
      BY <2>1, <2>2
  <2>4. s \o t = u
      BY <2>1, <2>3, Joined
  <2> QED
      BY <2>4 DEF s, t, u
<1>7. <<"restore", "agent", "plugin">> \o <<"component", "guidance", "pi">> =
           <<"restore", "agent", "plugin", "component", "guidance", "pi">>
  <2> DEFINE s == <<"restore", "agent", "plugin">>
             t == <<"component", "guidance", "pi">>
             u == <<"restore", "agent", "plugin", "component", "guidance", "pi">>
  <2>1. /\ s \in Seq(StepNames) /\ t \in Seq(StepNames) /\ u \in Seq(StepNames)
        /\ Len(s) = 3 /\ Len(t) = 3 /\ Len(u) = 6
      BY DEF StepNames
  <2>2. (\A i \in 1 .. 3 : u[i] = s[i]) /\ \A i \in 1 .. 3 : u[3 + i] = t[i]
      OBVIOUS
  <2> HIDE DEF s, t, u
  <2>3. /\ Len(u) = Len(s) + Len(t)
        /\ \A i \in 1 .. Len(s) : u[i] = s[i]
        /\ \A i \in 1 .. Len(t) : u[Len(s) + i] = t[i]
      BY <2>1, <2>2
  <2>4. s \o t = u
      BY <2>1, <2>3, Joined
  <2> QED
      BY <2>4 DEF s, t, u
<1>8. <<"restore", "agent", "tool">> \o <<"component", "guidance", "pi">> =
           <<"restore", "agent", "tool", "component", "guidance", "pi">>
  <2> DEFINE s == <<"restore", "agent", "tool">>
             t == <<"component", "guidance", "pi">>
             u == <<"restore", "agent", "tool", "component", "guidance", "pi">>
  <2>1. /\ s \in Seq(StepNames) /\ t \in Seq(StepNames) /\ u \in Seq(StepNames)
        /\ Len(s) = 3 /\ Len(t) = 3 /\ Len(u) = 6
      BY DEF StepNames
  <2>2. (\A i \in 1 .. 3 : u[i] = s[i]) /\ \A i \in 1 .. 3 : u[3 + i] = t[i]
      OBVIOUS
  <2> HIDE DEF s, t, u
  <2>3. /\ Len(u) = Len(s) + Len(t)
        /\ \A i \in 1 .. Len(s) : u[i] = s[i]
        /\ \A i \in 1 .. Len(t) : u[Len(s) + i] = t[i]
      BY <2>1, <2>2
  <2>4. s \o t = u
      BY <2>1, <2>3, Joined
  <2> QED
      BY <2>4 DEF s, t, u
<1>9. <<"restore", "agent">> \o <<"component", "guidance", "pi">> =
           <<"restore", "agent", "component", "guidance", "pi">>
    BY Join23, Zenon
<1> QED
    BY <1>1, <1>2, <1>3, <1>4, <1>5, <1>6, <1>7, <1>8, <1>9

LEMMA InstallPlan ==
    ASSUME NEW k, NEW cmd \in {"install", "tui"}, NEW tool \in BOOLEAN, NEW plugin \in {FALSE, k.Plugins},
           k.Plugins \in BOOLEAN
    PROVE  PlanFits(k, Pipeline(k)!Plan(cmd, tool, plugin), cmd)
<1>1. CASE tool /\ plugin
  <2>1. Pipeline(k)!Plan(cmd, tool, plugin) =
            <<"restore", "agent", "plugin", "tool", "component", "guidance", "pi">>
      BY <1>1, InstallParts DEF Pipeline!Plan
  <2>2. k.Plugins
      BY <1>1
  <2> QED
      BY <2>1, <2>2 DEF PlanFits, StepNames
<1>2. CASE tool /\ ~plugin
  <2>1. Pipeline(k)!Plan(cmd, tool, plugin) =
            <<"restore", "agent", "tool", "component", "guidance", "pi">>
      BY <1>2, InstallParts DEF Pipeline!Plan
  <2> QED
      BY <2>1 DEF PlanFits, StepNames
<1>3. CASE ~tool /\ plugin
  <2>1. Pipeline(k)!Plan(cmd, tool, plugin) =
            <<"restore", "agent", "plugin", "component", "guidance", "pi">>
      BY <1>3, InstallParts DEF Pipeline!Plan
  <2>2. k.Plugins
      BY <1>3
  <2> QED
      BY <2>1, <2>2 DEF PlanFits, StepNames
<1>4. CASE ~tool /\ ~plugin
  <2>1. Pipeline(k)!Plan(cmd, tool, plugin) =
            <<"restore", "agent", "component", "guidance", "pi">>
      BY <1>4, InstallParts DEF Pipeline!Plan
  <2> QED
      BY <2>1 DEF PlanFits, StepNames
<1> QED
    BY <1>1, <1>2, <1>3, <1>4

-----------------------------------------------------------------------------
LEMMA PipelineStarts == ASSUME NEW k, PipelineBounds(k), Pipeline(k)!Init PROVE PipelineInv(k)
<1>1. Pipeline(k)!None \in Commands(k) /\ run = Pipeline(k)!None
    BY DEF Pipeline!Init, Pipeline!None, Commands
<1>2. /\ run.at = "idle" /\ run.results = <<>> /\ run.plan = <<>> /\ owned = {}
    BY <1>1 DEF Pipeline!Init, Pipeline!None
<1>3. PipelineTypes(k)
    BY <1>1 DEF Pipeline!Init, PipelineTypes, PipelineBounds
<1>4. Where(k, run)
    BY <1>2 DEF Where, Running
<1>5. OnDisk(k, run, disk, owned) /\ Within(k, run, disk, owned)
    BY <1>2 DEF OnDisk, Within, Running
<1> QED
    BY <1>3, <1>4, <1>5 DEF PipelineInv

(* A new command takes the snapshot of the files as they are.              *)
LEMMA PrepareKeeps ==
    ASSUME NEW k, PipelineBounds(k), PipelineInv(k),
           NEW cmd \in {"install", "tui", "sync"}, NEW tool \in BOOLEAN, NEW plugin \in {FALSE, k.Plugins},
           Pipeline(k)!Prepare(cmd, tool, plugin)
    PROVE  PipelineInv(k)'
<1> DEFINE Targets == Pipeline(k)!Targets
           p == Pipeline(k)!Plan(cmd, tool, plugin)
<1>1. PlanFits(k, p, cmd)
  <2>1. CASE cmd = "sync"
    <3>1. ~plugin
        BY <2>1 DEF Pipeline!Prepare
    <3> QED
        BY <2>1, SyncPlan
  <2>2. CASE cmd # "sync"
      BY <2>2, InstallPlan DEF PipelineBounds
  <2> QED
      BY <2>1, <2>2
<1>2. /\ Targets \in SUBSET Pipeline(k)!Files /\ k.Managed \cup {"piMCP", "child"} \cup owned \subseteq Targets
      /\ "overlay" \in Targets \/ (~pkg /\ "overlay" \notin disk)
    BY DEF PipelineInv, PipelineTypes, Pipeline!Targets, Pipeline!Discovered, Pipeline!Files, Pipeline!PiFiles
<1> HIDE DEF Targets, p
<1>3. PICK new : /\ new = [Pipeline(k)!None EXCEPT !.cmd = cmd, !.tool = tool, !.plan = p,
                                !.disk = disk, !.owned = owned, !.covered = Targets]
                 /\ \/ run' = [new EXCEPT !.at = "apply"]
                    \/ run' = [new EXCEPT !.at = "refused"]
                 /\ faults' = faults \/ (faults' = faults + 1 /\ faults < k.MaxFaults)
    BY DEF Pipeline!Prepare, Pipeline!Fault, Pipeline!NoFault, Targets, p
<1>4. /\ new \in Commands(k) /\ new.cmd = cmd /\ new.plan = p /\ new.results = <<>> /\ new.left = 0
      /\ new.disk = disk /\ new.owned = owned /\ new.covered = Targets /\ new.errors = {}
  <2>0. Pipeline(k)!None \in Commands(k)
      BY DEF Pipeline!None, Commands
  <2>0a. /\ Pipeline(k)!None.results = <<>> /\ Pipeline(k)!None.left = 0 /\ Pipeline(k)!None.errors = {}
      BY DEF Pipeline!None
  <2>1. PICK z \in Commands(k) : z = Pipeline(k)!None /\ z.results = <<>> /\ z.left = 0 /\ z.errors = {}
      BY <2>0, <2>0a
  <2>2. /\ p \in Seq(StepNames) /\ disk \in SUBSET Pipeline(k)!Files /\ owned \in SUBSET Pipeline(k)!PiFiles
        /\ new = [z EXCEPT !.cmd = cmd, !.tool = tool, !.plan = p, !.disk = disk, !.owned = owned, !.covered = Targets]
      BY <1>1, <1>3, <2>1 DEF PlanFits, PipelineInv, PipelineTypes
  <2>3. new \in Commands(k)
      BY <1>2, <2>2 DEF Commands
  <2> QED
      BY <2>1, <2>2, <2>3 DEF Commands
<1>5. /\ run' \in Commands(k) /\ run'.cmd = cmd /\ run'.plan = p /\ run'.results = <<>> /\ run'.left = 0
      /\ run'.disk = disk /\ run'.owned = owned /\ run'.covered = Targets /\ run'.errors = {}
      /\ run'.at \in {"apply", "refused"}
  <2>1. CASE run' = [new EXCEPT !.at = "apply"]
      BY <1>4, <2>1 DEF Commands
  <2>2. CASE run' = [new EXCEPT !.at = "refused"]
      BY <1>4, <2>2 DEF Commands
  <2> QED
      BY <1>3, <2>1, <2>2
<1>6. UNCHANGED <<disk, owned, pkg, saved>> /\ runs' = runs + 1 /\ runs < k.MaxRuns
    BY DEF Pipeline!Prepare
<1>7. PipelineTypes(k)'
    BY <1>3, <1>5, <1>6 DEF PipelineInv, PipelineTypes, PipelineBounds
<1>8. Where(k, run)'
    BY <1>1, <1>2, <1>5 DEF Where, Running, PlanFits
<1>9. OnDisk(k, run, disk, owned)'
    BY <1>5, <1>6 DEF OnDisk, Done
<1>10. Within(k, run, disk, owned)'
    BY <1>2, <1>5, <1>6 DEF Within, Running
<1> QED
    BY <1>7, <1>8, <1>9, <1>10 DEF PipelineInv

(* A step of the plan ends in res, and the command goes on, stops, or ends.*)
Same(r, s) ==
    /\ r.cmd = s.cmd /\ r.tool = s.tool /\ r.plan = s.plan
    /\ r.disk = s.disk /\ r.owned = s.owned /\ r.covered = s.covered
Advanced(k, r, res) ==
    /\ r \in Commands(k) /\ Same(r, run) /\ r.errors = run.errors
    /\ r.results = Append(run.results, res) /\ r.left = Len(run.results) + 1
    /\ r.at = IF res = "failed" /\ run.cmd # "tui" THEN "rollback"
              ELSE IF Len(run.results) + 1 < Len(run.plan) THEN "apply"
              ELSE IF \A i \in 1 .. Len(run.results) + 1 : r.results[i] = "ok" THEN "verify" ELSE "rollback"

LEMMA AfterAdvances ==
    ASSUME NEW k, run \in Commands(k), NEW res \in {"ok", "failed"}, NEW r, r = Pipeline(k)!After(res)
    PROVE  /\ Advanced(k, r, res) /\ r.before = run.before
           /\ \A b \in SUBSET k.Managed : /\ Advanced(k, [r EXCEPT !.before = b], res)
                                          /\ [r EXCEPT !.before = b].before = b
<1> DEFINE results == Append(run.results, res)
           at == IF res = "failed" /\ Pipeline(k)!Policy = "stop" THEN "rollback"
                 ELSE IF Len(results) < Len(run.plan) THEN "apply"
                 ELSE IF Pipeline(k)!Succeeded(results) THEN "verify" ELSE "rollback"
<1>1. r = [run EXCEPT !.results = results, !.left = Len(results), !.at = at]
    BY DEF Pipeline!After
<1>2. results \in Seq({"ok", "failed"}) /\ Len(results) = Len(run.results) + 1 /\ Len(results) \in Nat
      /\ DOMAIN results = 1 .. Len(run.results) + 1
    BY DEF Commands
<1>3. Pipeline(k)!Policy = "stop" <=> run.cmd # "tui"
    BY DEF Pipeline!Policy
<1>4. at \in {"rollback", "apply", "verify"}
    OBVIOUS
<1>5. at = IF res = "failed" /\ run.cmd # "tui" THEN "rollback"
           ELSE IF Len(run.results) + 1 < Len(run.plan) THEN "apply"
           ELSE IF \A i \in 1 .. Len(run.results) + 1 : results[i] = "ok" THEN "verify" ELSE "rollback"
    BY <1>2, <1>3 DEF Pipeline!Succeeded
<1> HIDE DEF at, results
<1>6. /\ r \in Commands(k) /\ Same(r, run) /\ r.errors = run.errors /\ r.before = run.before
      /\ r.results = results /\ r.left = Len(results) /\ r.at = at
    BY <1>1, <1>2, <1>4 DEF Commands, Same
<1>7. ASSUME NEW b \in SUBSET k.Managed, NEW s, s = [r EXCEPT !.before = b]
      PROVE  /\ s \in Commands(k) /\ Same(s, run) /\ s.errors = run.errors /\ s.before = b
             /\ s.results = results /\ s.left = Len(results) /\ s.at = at
    BY <1>6, <1>7 DEF Commands, Same
<1>8. ASSUME NEW s, /\ s \in Commands(k) /\ Same(s, run) /\ s.errors = run.errors
                    /\ s.results = results /\ s.left = Len(results) /\ s.at = at
      PROVE  Advanced(k, s, res)
  <2>1. s.results = Append(run.results, res) /\ s.left = Len(run.results) + 1
      BY <1>2, <1>8 DEF results
  <2>2. s.at = IF res = "failed" /\ run.cmd # "tui" THEN "rollback"
               ELSE IF Len(run.results) + 1 < Len(run.plan) THEN "apply"
               ELSE IF \A i \in 1 .. Len(run.results) + 1 : s.results[i] = "ok" THEN "verify" ELSE "rollback"
      BY <1>5, <1>8
  <2> QED
      BY <1>8, <2>1, <2>2 DEF Advanced
<1> QED
    BY <1>6, <1>7, <1>8

LEMMA AdvancedWhere ==
    ASSUME NEW k, PipelineBounds(k), run \in Commands(k), Where(k, run), run.at = "apply",
           NEW res \in {"ok", "failed"}, run.results = <<>> => res = "ok",
           NEW r, Advanced(k, r, res)
    PROVE  Where(k, r) /\ r.at \in Running
<1>1. /\ run.results \in Seq({"ok", "failed"}) /\ run.plan \in Seq(StepNames)
      /\ Len(run.results) < Len(run.plan) /\ Len(run.plan) >= 3 /\ run.errors = {}
    BY DEF Commands, Where, Running, PlanFits
<1>2. /\ Len(r.results) = Len(run.results) + 1 /\ r.results # <<>>
      /\ \A i \in 1 .. Len(run.results) : r.results[i] = run.results[i]
      /\ r.results[Len(run.results) + 1] = res
    BY <1>1 DEF Advanced
<1>3. r.results[1] = "ok"
  <2>1. CASE run.results = <<>>
      BY <1>2, <2>1
  <2>2. CASE run.results # <<>>
    <3>1. 1 \in 1 .. Len(run.results) /\ run.results[1] = "ok"
        BY <1>1, <2>2 DEF Where
    <3> QED
        BY <1>2, <3>1
  <2> QED
      BY <2>1, <2>2
<1>4. /\ r.at \in Running /\ r.plan = run.plan /\ r.cmd = run.cmd /\ r.covered = run.covered /\ r.owned = run.owned
      /\ r.errors = {} /\ r.left = Len(r.results)
    BY <1>1, <1>2 DEF Advanced, Same, Running
<1>5. r.at = "apply" => Len(r.results) < Len(r.plan)
    BY <1>1, <1>2, <1>4 DEF Advanced
<1>6. r.at = "verify" => Len(r.results) = Len(r.plan) /\ \A i \in 1 .. Len(r.plan) : r.results[i] = "ok"
    BY <1>1, <1>2, <1>4 DEF Advanced
<1>7. PlanFits(k, run.plan, run.cmd) /\ k.Managed \cup {"piMCP", "child"} \cup run.owned \subseteq run.covered
    BY DEF Where, Running
<1> QED
    BY <1>1, <1>2, <1>3, <1>4, <1>5, <1>6, <1>7 DEF Where

(* A step of the plan, with what it may do to the files.                   *)
Effect(k, res) ==
    LET step == run.plan[Len(run.results) + 1] IN
    /\ disk' \subseteq Pipeline(k)!Files /\ owned' \subseteq Pipeline(k)!PiFiles /\ pkg' \in BOOLEAN
    /\ k.Managed \cap disk \subseteq disk'
    /\ owned \subseteq disk => owned' \subseteq disk'
    /\ step = "component" /\ res = "ok" => k.Managed \subseteq disk'
    /\ step = "pi" /\ res = "ok" => (run.tool <=> owned' # {})
    /\ ~k.Fresh /\ ~k.Plugins => /\ disk' \ run.covered = disk \ run.covered
                                 /\ owned' \subseteq run.covered /\ pkg' = pkg

LEMMA ApplyKeeps ==
    ASSUME NEW k, PipelineBounds(k), PipelineInv(k), run.at = "apply",
           NEW res \in {"ok", "failed"}, run.results = <<>> => res = "ok",
           Advanced(k, run', res), Effect(k, res),
           UNCHANGED <<saved, runs>>, faults' \in 0 .. k.MaxFaults
    PROVE  PipelineInv(k)'
<1> DEFINE n == Len(run.results) + 1
           step == run.plan[n]
<1>1. /\ run \in Commands(k) /\ run' \in Commands(k) /\ run'.tool = run.tool /\ run'.plan = run.plan
      /\ run'.disk = run.disk /\ run'.owned = run.owned /\ run'.covered = run.covered /\ run'.errors = run.errors
      /\ run'.results = Append(run.results, res) /\ run'.left = n
    BY DEF Advanced, Same, PipelineInv, PipelineTypes
<1>2. Where(k, run') /\ run'.at \in Running
    BY <1>1, AdvancedWhere DEF PipelineInv
<1>3. PipelineTypes(k)'
    BY <1>1 DEF PipelineInv, PipelineTypes, Effect
<1>4. /\ run.results \in Seq({"ok", "failed"}) /\ run.plan \in Seq(StepNames) /\ n <= Len(run.plan) /\ n \in Nat
      /\ \A i \in 1 .. Len(run.plan) : run.plan[i] = "pi" => i = Len(run.plan)
    BY DEF PipelineInv, PipelineTypes, Commands, Where, Running, PlanFits
<1>5. Len(run'.results) = n /\ (\A i \in 1 .. n - 1 : run'.results[i] = run.results[i]) /\ run'.results[n] = res
    BY <1>1, <1>4
<1>6. \A s : Done(run', s) => Done(run, s) \/ (s = step /\ res = "ok")
  <2> SUFFICES ASSUME NEW s, NEW i \in 1 .. n, run'.plan[i] = s, run'.results[i] = "ok"
               PROVE  Done(run, s) \/ (s = step /\ res = "ok")
      BY <1>5 DEF Done
  <2>1. CASE i = n
      BY <1>1, <1>5, <2>1
  <2>2. CASE i # n
    <3>1. i \in 1 .. n - 1 /\ i \in 1 .. Len(run.results)
        BY <1>4, <2>2
    <3> QED
        BY <1>1, <1>5, <3>1 DEF Done
  <2> QED
      BY <2>1, <2>2
<1>7. ~Done(run, "pi")
    BY <1>4 DEF Done
<1>8. OnDisk(k, run', disk', owned')
  <2>1. run.errors = {} /\ run.owned \subseteq run.disk => owned' \subseteq disk'
      BY DEF PipelineInv, OnDisk, Effect
  <2>2. Done(run', "component") => k.Managed \subseteq disk'
    <3>1. CASE Done(run, "component")
        BY <3>1 DEF PipelineInv, OnDisk, Effect
    <3>2. CASE step = "component" /\ res = "ok"
        BY <3>2 DEF Effect
    <3> QED
        BY <1>6, <3>1, <3>2
  <2>3. Done(run', "pi") => (run.tool <=> owned' # {})
      BY <1>6, <1>7 DEF Effect
  <2>4. run'.left # 0 /\ run'.at # "failed"
      BY <1>1, <1>2, <1>4 DEF Running
  <2> QED
      BY <1>1, <2>1, <2>2, <2>3, <2>4 DEF OnDisk
<1>9. Within(k, run, disk, owned)'
    BY <1>1, <1>2 DEF PipelineInv, Within, Effect, Running
<1> QED
    BY <1>2, <1>3, <1>8, <1>9 DEF PipelineInv

(* The three ways a step ends, for the step the plan has come to.          *)
LEMMA StepEnds ==
    ASSUME NEW k, PipelineBounds(k), PipelineInv(k), run.at = "apply"
    PROVE  /\ Pipeline(k)!Ok => Advanced(k, run', "ok") /\ run'.before = run.before /\ faults' \in 0 .. k.MaxFaults
           /\ Pipeline(k)!Failed => Advanced(k, run', "failed") /\ faults' \in 0 .. k.MaxFaults
           /\ \A b \in SUBSET k.Managed : Advanced(k, [Pipeline(k)!After("ok") EXCEPT !.before = b], "ok")
<1>1. run \in Commands(k) /\ faults \in 0 .. k.MaxFaults
    BY DEF PipelineInv, PipelineTypes
<1>2. \A res \in {"ok", "failed"} :
        /\ Advanced(k, Pipeline(k)!After(res), res) /\ Pipeline(k)!After(res).before = run.before
        /\ \A b \in SUBSET k.Managed : Advanced(k, [Pipeline(k)!After(res) EXCEPT !.before = b], res)
    BY <1>1, AfterAdvances
<1>3. ASSUME Pipeline(k)!Ok PROVE run' = Pipeline(k)!After("ok") /\ faults' = faults
    BY <1>3 DEF Pipeline!Ok, Pipeline!NoFault
<1>4. ASSUME Pipeline(k)!Failed
      PROVE  run' = Pipeline(k)!After("failed") /\ faults < k.MaxFaults /\ faults' = faults + 1
    BY <1>4 DEF Pipeline!Failed, Pipeline!Fault
<1> QED
    BY <1>1, <1>2, <1>3, <1>4 DEF PipelineBounds

LEMMA ApplyStepKeeps ==
    ASSUME NEW k, PipelineBounds(k), PipelineInv(k), Pipeline(k)!Apply
    PROVE  PipelineInv(k)'
<1> DEFINE step == run.plan[Len(run.results) + 1]
           fits == run.results = <<>> => step = "restore"
<1>0. UNCHANGED <<saved, runs>>
    BY DEF Pipeline!Apply
<1>1. /\ disk \subseteq Pipeline(k)!Files /\ owned \subseteq Pipeline(k)!PiFiles /\ pkg \in BOOLEAN
      /\ k.Managed \cap {"piMCP", "child", "overlay"} = {} /\ run \in Commands(k)
    BY DEF PipelineInv, PipelineTypes, PipelineBounds
<1>2. ASSUME run.at = "apply"
      PROVE  /\ k.Managed \cup {"piMCP", "child"} \cup run.owned \subseteq run.covered
             /\ fits
             /\ ~k.Fresh /\ ~k.Plugins => /\ owned \subseteq run.covered
                                          /\ "overlay" \in run.covered \/ (~pkg /\ "overlay" \notin run.disk)
                                          /\ disk \ run.covered = run.disk \ run.covered
             /\ ~k.Plugins => step # "plugin"
  <2>1. PlanFits(k, run.plan, run.cmd) /\ Len(run.results) < Len(run.plan)
      BY <1>2 DEF PipelineInv, Where, Running
  <2>2. run.results \in Seq({"ok", "failed"}) /\ run.plan \in Seq(StepNames)
      BY <1>1 DEF Commands
  <2>3. ~k.Plugins => step # "plugin"
      BY <2>1, <2>2 DEF PlanFits
  <2>4. fits
    <3>1. run.results = <<>> => Len(run.results) + 1 = 1
        OBVIOUS
    <3> QED
        BY <2>1, <3>1 DEF PlanFits
  <2> QED
      BY <1>2, <2>3, <2>4 DEF PipelineInv, Within, Where, Running
<1>2a. \A s : Pipeline(k)!At(s) => run.at = "apply" /\ step = s
    BY DEF Pipeline!At, Pipeline!Step
<1>3. ASSUME run.at = "apply", NEW res \in {"ok", "failed"}, Advanced(k, run', res), faults' \in 0 .. k.MaxFaults,
             step # "restore" \/ res = "ok", Effect(k, res)
      PROVE  PipelineInv(k)'
    BY <1>0, <1>2, <1>3, ApplyKeeps
<1> HIDE DEF step, fits
<1>4. CASE Pipeline(k)!Marker
  <2>1. /\ Pipeline(k)!At("restore") /\ Pipeline(k)!Ok /\ UNCHANGED <<disk, owned, pkg>>
      BY <1>4 DEF Pipeline!Marker
  <2>2. Effect(k, "ok")
      BY <1>1, <1>2, <1>2a, <2>1 DEF Effect, step
  <2> QED
      BY <1>2a, <1>3, <2>1, <2>2, StepEnds
<1>5. CASE Pipeline(k)!InstallAgent
  <2>1. /\ Pipeline(k)!At("agent") /\ pkg' \in {pkg, pkg \/ k.Fresh} /\ UNCHANGED <<disk, owned>>
        /\ Pipeline(k)!Ok \/ Pipeline(k)!Failed
      BY <1>5 DEF Pipeline!InstallAgent
  <2>2. pkg' \in BOOLEAN /\ (~k.Fresh => pkg' = pkg)
      BY <1>1, <2>1 DEF PipelineBounds
  <2>3. Effect(k, "ok") /\ Effect(k, "failed")
      BY <1>1, <1>2, <1>2a, <2>1, <2>2 DEF Effect, step
  <2> QED
      BY <1>2a, <1>3, <2>1, <2>3, StepEnds
<1>6. CASE Pipeline(k)!InstallPlugin
  <2>1. /\ Pipeline(k)!At("plugin") /\ UNCHANGED <<owned, pkg>>
        /\ \/ Pipeline(k)!Ok /\ disk' = disk \cup {"tui.json"}
           \/ Pipeline(k)!Failed /\ UNCHANGED disk
      BY <1>6 DEF Pipeline!InstallPlugin
  <2>2. run.at = "apply" /\ step = "plugin" /\ k.Plugins
      BY <1>2, <1>2a, <2>1 DEF PipelineBounds
  <2>3. Effect(k, "ok") /\ Effect(k, "failed")
      BY <1>1, <1>2, <2>1, <2>2 DEF Effect, step, Pipeline!Files
  <2> QED
      BY <1>3, <2>1, <2>2, <2>3, StepEnds
<1>7. CASE Pipeline(k)!Configure
  <2>1. /\ Pipeline(k)!At("component") \/ Pipeline(k)!At("guidance")
        /\ \/ Pipeline(k)!Ok /\ disk' = disk \cup k.Managed
           \/ Pipeline(k)!Failed /\ \E some \in SUBSET k.Managed : disk' = disk \cup some
        /\ UNCHANGED <<owned, pkg>>
      BY <1>7 DEF Pipeline!Configure
  <2>2. run.at = "apply" /\ step \in {"component", "guidance"}
      BY <1>2a, <2>1
  <2>3. CASE Pipeline(k)!Ok /\ disk' = disk \cup k.Managed
    <3>1. Effect(k, "ok")
        BY <1>1, <1>2, <2>1, <2>2, <2>3 DEF Effect, step, Pipeline!Files
    <3> QED
        BY <1>3, <2>2, <2>3, <3>1, StepEnds
  <2>4. CASE Pipeline(k)!Failed /\ \E some \in SUBSET k.Managed : disk' = disk \cup some
    <3>1. Effect(k, "failed")
        BY <1>1, <1>2, <2>1, <2>2, <2>4 DEF Effect, step, Pipeline!Files
    <3> QED
        BY <1>3, <2>2, <2>4, <3>1, StepEnds
  <2> QED
      BY <2>1, <2>3, <2>4
<1> DEFINE found == Pipeline(k)!Discovered
<1>8. /\ found \subseteq {"child", "overlay"} /\ "child" \in found
      /\ run.at = "apply" /\ ~k.Fresh /\ ~k.Plugins => found \subseteq run.covered
    BY <1>1, <1>2 DEF Pipeline!Discovered
<1> HIDE DEF found
<1>9. ASSUME run.at = "apply", NEW res \in {"ok", "failed"}, step \notin {"component", "pi"} \/ res = "failed",
             UNCHANGED <<disk, owned, pkg>>
      PROVE  Effect(k, res)
    BY <1>1, <1>2, <1>9 DEF Effect, step
<1>10. ASSUME run.at = "apply", NEW res \in {"ok", "failed"}, step # "component", UNCHANGED pkg,
              step = "pi" /\ res = "ok" => run.tool, NEW some \in SUBSET k.Managed,
              disk' = disk \cup some \cup {"piMCP"} \cup found, owned' = owned \cup {"piMCP"} \cup found
       PROVE  Effect(k, res)
    BY <1>1, <1>2, <1>8, <1>10 DEF Effect, step, Pipeline!Files, Pipeline!PiFiles
<1>11. CASE Pipeline(k)!InstallTool
  <2>1. /\ Pipeline(k)!At("tool") /\ UNCHANGED pkg
        /\ \/ /\ Pipeline(k)!Ok /\ disk' = disk \cup k.Managed \cup {"piMCP"} \cup found
              /\ owned' = owned \cup {"piMCP"} \cup found
           \/ Pipeline(k)!Failed /\ UNCHANGED <<disk, owned>>
           \/ /\ Pipeline(k)!Failed /\ disk' = disk \cup {"piMCP"} \cup found
              /\ owned' = owned \cup {"piMCP"} \cup found
      BY <1>11 DEF Pipeline!InstallTool, Pipeline!PiSame, Pipeline!PiReconciled, found
  <2>2. run.at = "apply" /\ step = "tool"
      BY <1>2a, <2>1
  <2>3. CASE /\ Pipeline(k)!Ok /\ disk' = disk \cup k.Managed \cup {"piMCP"} \cup found
             /\ owned' = owned \cup {"piMCP"} \cup found
    <3>1. Effect(k, "ok")
        BY <1>10, <2>1, <2>2, <2>3
    <3> QED
        BY <1>3, <2>2, <2>3, <3>1, StepEnds
  <2>4. CASE Pipeline(k)!Failed /\ UNCHANGED <<disk, owned>>
    <3>1. Effect(k, "failed")
        BY <1>9, <2>1, <2>2, <2>4
    <3> QED
        BY <1>3, <2>2, <2>4, <3>1, StepEnds
  <2>5. CASE /\ Pipeline(k)!Failed /\ disk' = disk \cup {"piMCP"} \cup found
             /\ owned' = owned \cup {"piMCP"} \cup found
    <3>1. disk' = disk \cup {} \cup {"piMCP"} \cup found /\ {} \in SUBSET k.Managed
        BY <2>5
    <3>2. Effect(k, "failed")
        BY <1>10, <2>1, <2>2, <2>5, <3>1
    <3> QED
        BY <1>3, <2>2, <2>5, <3>2, StepEnds
  <2> QED
      BY <2>1, <2>3, <2>4, <2>5
<1>12. CASE Pipeline(k)!RefreshGuidance
  <2>1. /\ Pipeline(k)!At("refresh") /\ UNCHANGED <<owned, pkg>>
        /\ \/ /\ run' = [Pipeline(k)!After("ok") EXCEPT !.before = disk \cap k.Managed]
              /\ faults' = faults /\ disk' = disk \cup k.Managed
           \/ Pipeline(k)!Failed /\ UNCHANGED disk
      BY <1>12 DEF Pipeline!RefreshGuidance, Pipeline!NoFault
  <2>2. run.at = "apply" /\ step = "refresh"
      BY <1>2a, <2>1
  <2>3. CASE /\ run' = [Pipeline(k)!After("ok") EXCEPT !.before = disk \cap k.Managed]
             /\ faults' = faults /\ disk' = disk \cup k.Managed
    <3>1. Effect(k, "ok")
        BY <1>1, <1>2, <2>1, <2>2, <2>3 DEF Effect, step, Pipeline!Files
    <3>2. disk \cap k.Managed \in SUBSET k.Managed /\ faults' \in 0 .. k.MaxFaults
        BY <2>3 DEF PipelineInv, PipelineTypes
    <3>3. Advanced(k, run', "ok")
        BY <2>2, <2>3, <3>2, StepEnds
    <3> QED
        BY <1>3, <2>2, <3>1, <3>2, <3>3
  <2>4. CASE Pipeline(k)!Failed /\ UNCHANGED disk
    <3>1. Effect(k, "failed")
        BY <1>9, <2>1, <2>2, <2>4
    <3> QED
        BY <1>3, <2>2, <2>4, <3>1, StepEnds
  <2> QED
      BY <2>1, <2>3, <2>4
<1>13. CASE Pipeline(k)!SyncPi
  <2>1. /\ Pipeline(k)!At("pi-sync") /\ UNCHANGED pkg
        /\ \/ Pipeline(k)!Ok /\ UNCHANGED <<disk, owned>>
           \/ /\ Pipeline(k)!Ok /\ disk' = disk \cup {"piMCP"} \cup found
              /\ owned' = owned \cup {"piMCP"} \cup found
           \/ Pipeline(k)!Failed /\ UNCHANGED <<disk, owned>>
      BY <1>13 DEF Pipeline!SyncPi, Pipeline!PiSame, Pipeline!PiReconciled, found
  <2>2. run.at = "apply" /\ step = "pi-sync"
      BY <1>2a, <2>1
  <2>3. CASE UNCHANGED <<disk, owned>>
    <3>1. Effect(k, "ok") /\ Effect(k, "failed")
        BY <1>9, <2>1, <2>2, <2>3
    <3> QED
        BY <1>3, <2>1, <2>2, <3>1, StepEnds
  <2>4. CASE /\ Pipeline(k)!Ok /\ disk' = disk \cup {"piMCP"} \cup found
             /\ owned' = owned \cup {"piMCP"} \cup found
    <3>1. disk' = disk \cup {} \cup {"piMCP"} \cup found /\ {} \in SUBSET k.Managed
        BY <2>4
    <3>2. Effect(k, "ok")
        BY <1>10, <2>1, <2>2, <2>4, <3>1
    <3> QED
        BY <1>3, <2>2, <2>4, <3>2, StepEnds
  <2> QED
      BY <2>1, <2>3, <2>4
<1>14. CASE Pipeline(k)!ReconcilePi
  <2>1. /\ Pipeline(k)!At("pi") /\ UNCHANGED pkg
        /\ \/ /\ Pipeline(k)!Ok /\ run.tool /\ disk' = disk \cup {"piMCP"} \cup found
              /\ owned' = owned \cup {"piMCP"} \cup found
           \/ Pipeline(k)!Ok /\ ~run.tool /\ disk' = disk \ owned /\ owned' = {}
           \/ Pipeline(k)!Failed /\ UNCHANGED <<disk, owned>>
      BY <1>14 DEF Pipeline!ReconcilePi, Pipeline!PiSame, Pipeline!PiReconciled, Pipeline!PiUninstalled, found
  <2>2. run.at = "apply" /\ step = "pi"
      BY <1>2a, <2>1
  <2>3. CASE Pipeline(k)!Failed /\ UNCHANGED <<disk, owned>>
    <3>1. Effect(k, "failed")
        BY <1>9, <2>1, <2>2, <2>3
    <3> QED
        BY <1>3, <2>2, <2>3, <3>1, StepEnds
  <2>4. CASE /\ Pipeline(k)!Ok /\ run.tool /\ disk' = disk \cup {"piMCP"} \cup found
             /\ owned' = owned \cup {"piMCP"} \cup found
    <3>1. disk' = disk \cup {} \cup {"piMCP"} \cup found /\ {} \in SUBSET k.Managed
        BY <2>4
    <3>2. Effect(k, "ok")
        BY <1>10, <2>1, <2>2, <2>4, <3>1
    <3> QED
        BY <1>3, <2>2, <2>4, <3>2, StepEnds
  <2>5. CASE Pipeline(k)!Ok /\ ~run.tool /\ disk' = disk \ owned /\ owned' = {}
    <3>1. Effect(k, "ok")
        BY <1>1, <1>2, <2>1, <2>2, <2>5 DEF Effect, step, Pipeline!PiFiles
    <3> QED
        BY <1>3, <2>2, <2>5, <3>1, StepEnds
  <2> QED
      BY <2>1, <2>3, <2>4, <2>5
<1> QED
    BY <1>4, <1>5, <1>6, <1>7, <1>11, <1>12, <1>13, <1>14 DEF Pipeline!Apply

(* What is undone next: the snapshot comes last, as it was taken first.    *)
LEMMA LastToUndo ==
    ASSUME NEW k, PipelineInv(k), run.at = "rollback", Pipeline(k)!ToUndo # {}
    PROVE  /\ Pipeline(k)!LastDone \in 1 .. run.left
           /\ Pipeline(k)!Undoing \in {"restore", "refresh", "pi"}
           /\ (Pipeline(k)!Undoing = "restore" <=> Pipeline(k)!LastDone = 1)
<1> DEFINE T == Pipeline(k)!ToUndo
           last == Pipeline(k)!LastDone
<1>1. /\ run.left \in Nat /\ run.results \in Seq({"ok", "failed"}) /\ run.plan \in Seq(StepNames)
      /\ run.left <= Len(run.results) /\ Len(run.results) <= Len(run.plan)
      /\ run.plan[1] = "restore" /\ \A i \in 2 .. Len(run.plan) : run.plan[i] # "restore"
    BY DEF PipelineInv, PipelineTypes, Commands, Where, Running, PlanFits
<1>2. T \in SUBSET (0 .. run.left) /\ T # {}
    BY DEF Pipeline!ToUndo
<1>3. \E i \in T : \A j \in T : j <= i
    BY <1>1, <1>2, GreatestNatural
<1>4. last \in T
  <2> HIDE DEF T
  <2>1. last = CHOOSE i \in T : \A j \in T : j <= i
      BY DEF Pipeline!LastDone, T
  <2> QED
      BY <1>3, <2>1
<1>5. last \in 1 .. run.left /\ run.plan[last] \in {"restore", "refresh", "pi"}
    BY <1>4 DEF Pipeline!ToUndo, Pipeline!RollbackSteps
<1> HIDE DEF T, last
<1>6. Pipeline(k)!Undoing = run.plan[last]
    BY DEF Pipeline!Undoing, last
<1>7. run.plan[last] = "restore" <=> last = 1
    BY <1>1, <1>5
<1> QED
    BY <1>5, <1>6, <1>7 DEF last

(* Nothing is left to undo only when the snapshot has had its turn.        *)
LEMMA NothingToUndo ==
    ASSUME NEW k, PipelineInv(k), run.at = "rollback", Pipeline(k)!ToUndo = {}
    PROVE  run.left = 0
<1>1. /\ run.left \in Nat /\ run.results # <<>> /\ run.results[1] = "ok" /\ run.plan[1] = "restore"
    BY DEF PipelineInv, PipelineTypes, Commands, Where, Running, PlanFits
<1>2. run.left >= 1 => 1 \in Pipeline(k)!ToUndo
    BY <1>1 DEF Pipeline!ToUndo, Pipeline!RollbackSteps
<1> QED
    BY <1>1, <1>2

(* The command after a step of the rollback, with or without an error.     *)
UndoneAs(r, left, errors) ==
    /\ Same(r, run) /\ r.before = run.before /\ r.results = run.results /\ r.at = "rollback"
    /\ r.left = left /\ r.errors = errors

LEMMA UndoneCommand ==
    ASSUME NEW k, PipelineBounds(k), PipelineInv(k), NEW step,
           Pipeline(k)!Undo(step), Pipeline(k)!UndoOk \/ Pipeline(k)!UndoFailed
    PROVE  /\ run' \in Commands(k) /\ faults' \in 0 .. k.MaxFaults /\ step \in {"restore", "refresh", "pi"}
           /\ UndoneAs(run', run'.left, run'.errors)
           /\ run'.left \in Nat /\ run'.left <= run.left /\ (run'.left = 0 <=> step = "restore")
           /\ \/ Pipeline(k)!UndoOk /\ run'.errors = run.errors
              \/ Pipeline(k)!UndoFailed /\ run'.errors = run.errors \cup {step}
<1> DEFINE last == Pipeline(k)!LastDone
<1>1. /\ run.at = "rollback" /\ Pipeline(k)!ToUndo # {} /\ Pipeline(k)!Undoing = step
    BY DEF Pipeline!Undo
<1>2. /\ last \in 1 .. run.left /\ step \in {"restore", "refresh", "pi"} /\ (step = "restore" <=> last = 1)
    BY <1>1, LastToUndo
<1>3. PICK errors \in {run.errors, run.errors \cup {step}} :
        /\ run' = [run EXCEPT !.errors = errors, !.left = last - 1]
        /\ \/ Pipeline(k)!UndoOk /\ errors = run.errors
           \/ Pipeline(k)!UndoFailed /\ errors = run.errors \cup {step}
        /\ faults' = faults \/ (faults < k.MaxFaults /\ faults' = faults + 1)
  <2>1. CASE Pipeline(k)!UndoOk
    <3>1. run' = [run EXCEPT !.errors = run.errors, !.left = last - 1] /\ faults' = faults
        BY <2>1 DEF Pipeline!UndoOk, Pipeline!Undone, Pipeline!NoFault
    <3> QED
        BY <2>1, <3>1
  <2>2. CASE Pipeline(k)!UndoFailed
    <3>1. /\ run' = [run EXCEPT !.errors = run.errors \cup {step}, !.left = last - 1]
          /\ faults < k.MaxFaults /\ faults' = faults + 1
        BY <1>1, <2>2 DEF Pipeline!UndoFailed, Pipeline!Undone, Pipeline!Fault
    <3> QED
        BY <2>2, <3>1
  <2> QED
      BY <2>1, <2>2
<1> HIDE DEF last
<1>4. run \in Commands(k) /\ faults \in 0 .. k.MaxFaults /\ k.MaxFaults \in Nat
    BY DEF PipelineInv, PipelineTypes, PipelineBounds
<1>5. run.left \in Nat /\ last - 1 \in Nat /\ errors \in SUBSET {"restore", "refresh", "pi"}
    BY <1>2, <1>3, <1>4 DEF Commands
<1>6. run' \in Commands(k) /\ run'.left = last - 1 /\ run'.errors = errors /\ UndoneAs(run', last - 1, errors)
    BY <1>1, <1>3, <1>4, <1>5 DEF Commands, UndoneAs, Same
<1> QED
    BY <1>2, <1>3, <1>4, <1>5, <1>6

LEMMA UndoKeeps ==
    ASSUME NEW k, PipelineInv(k), run.at = "rollback", run' \in Commands(k), faults' \in 0 .. k.MaxFaults,
           UndoneAs(run', run'.left, run'.errors), run'.left \in Nat, run'.left <= run.left,
           disk' \subseteq Pipeline(k)!Files, owned' \subseteq Pipeline(k)!PiFiles, UNCHANGED <<pkg, saved, runs>>,
           run'.errors = {} /\ run.owned \subseteq run.disk => owned' \subseteq disk',
           run'.left = 0 => "restore" \in run'.errors \/ Back(run, disk', owned'),
           ~k.Fresh /\ ~k.Plugins => disk' \ run.covered = disk \ run.covered /\ owned' \subseteq run.covered
    PROVE  PipelineInv(k)'
<1>1. /\ run'.cmd = run.cmd /\ run'.tool = run.tool /\ run'.plan = run.plan /\ run'.disk = run.disk
      /\ run'.owned = run.owned /\ run'.covered = run.covered /\ run'.results = run.results /\ run'.at = "rollback"
    BY DEF UndoneAs, Same
<1>2. run.results \in Seq({"ok", "failed"}) /\ run.left \in Nat
    BY DEF PipelineInv, PipelineTypes, Commands
<1>3. PipelineTypes(k)'
    BY DEF PipelineInv, PipelineTypes
<1>4. Where(k, run)'
    BY <1>1, <1>2 DEF PipelineInv, Where, Running
<1>5. OnDisk(k, run, disk, owned)'
    BY <1>1 DEF OnDisk, Back
<1>6. Within(k, run, disk, owned)'
    BY <1>1 DEF PipelineInv, Within, Running
<1> QED
    BY <1>3, <1>4, <1>5, <1>6 DEF PipelineInv

LEMMA RollbackKeeps ==
    ASSUME NEW k, PipelineBounds(k), PipelineInv(k), Pipeline(k)!Rollback
    PROVE  PipelineInv(k)'
<1>1. /\ disk \subseteq Pipeline(k)!Files /\ owned \subseteq Pipeline(k)!PiFiles
      /\ k.Managed \cap {"piMCP", "child", "overlay"} = {} /\ run \in Commands(k)
      /\ UNCHANGED <<pkg, saved, runs>>
    BY DEF PipelineInv, PipelineTypes, PipelineBounds, Pipeline!Rollback
<1>2. /\ run.disk \subseteq Pipeline(k)!Files /\ run.owned \subseteq Pipeline(k)!PiFiles
      /\ run.covered \subseteq Pipeline(k)!Files /\ run.before \subseteq k.Managed /\ run.errors \subseteq {"restore", "refresh", "pi"}
    BY <1>1 DEF Commands
<1>3. ASSUME run.at = "rollback"
      PROVE  /\ k.Managed \subseteq run.covered /\ run.owned \subseteq run.covered
             /\ run.errors = {} /\ run.owned \subseteq run.disk => owned \subseteq disk
             /\ ~k.Fresh /\ ~k.Plugins => owned \subseteq run.covered
    BY <1>3 DEF PipelineInv, Where, Running, OnDisk, Within
<1>4. CASE Pipeline(k)!RestoreSnapshot
  <2>1. /\ Pipeline(k)!Undo("restore") /\ run.at = "rollback"
        /\ \/ /\ Pipeline(k)!UndoOk /\ owned' = run.owned
              /\ disk' = (disk \ run.covered) \cup (run.disk \cap run.covered)
           \/ /\ Pipeline(k)!UndoFailed /\ owned' \in {owned, run.owned}
              /\ \E some \in SUBSET run.covered : disk' = (disk \ some) \cup (run.disk \cap some)
      BY <1>4 DEF Pipeline!RestoreSnapshot, Pipeline!Undo
  <2>2. /\ run' \in Commands(k) /\ faults' \in 0 .. k.MaxFaults /\ UndoneAs(run', run'.left, run'.errors)
        /\ run'.left \in Nat /\ run'.left <= run.left
      BY <2>1, UndoneCommand
  <2>3. CASE Pipeline(k)!UndoFailed /\ run'.errors = run.errors \cup {"restore"}
    <3>1. disk' \subseteq disk \cup run.disk /\ disk' \ run.covered = disk \ run.covered /\ owned' \in {owned, run.owned}
      <4>1. CASE \E some \in SUBSET run.covered : disk' = (disk \ some) \cup (run.disk \cap some)
          BY <4>1, <2>1
      <4>2. CASE disk' = (disk \ run.covered) \cup (run.disk \cap run.covered)
          BY <4>2, <2>1
      <4> QED
          BY <2>1, <4>1, <4>2
    <3> QED
        BY <1>1, <1>2, <1>3, <2>1, <2>2, <2>3, <3>1, UndoKeeps
  <2>4. CASE Pipeline(k)!UndoOk /\ run'.errors = run.errors
    <3>1. CASE owned' = run.owned /\ disk' = (disk \ run.covered) \cup (run.disk \cap run.covered)
      <4>1. /\ disk' \subseteq Pipeline(k)!Files /\ disk' \ run.covered = disk \ run.covered
            /\ disk' \cap run.covered = run.disk \cap run.covered
            /\ run.owned \subseteq run.disk => owned' \subseteq disk'
          BY <1>1, <1>2, <1>3, <2>1, <3>1
      <4>2. Back(run, disk', owned')
          BY <3>1, <4>1 DEF Back
      <4> QED
          BY <1>1, <1>2, <1>3, <2>1, <2>2, <3>1, <4>1, <4>2, UndoKeeps
    <3>2. ~Pipeline(k)!UndoFailed
      <4>1. faults \in Nat
          BY DEF PipelineInv, PipelineTypes
      <4> QED
          BY <2>4, <4>1 DEF Pipeline!UndoFailed, Pipeline!UndoOk, Pipeline!Fault, Pipeline!NoFault
    <3> QED
        BY <2>1, <3>1, <3>2
  <2> QED
      BY <2>1, <2>3, <2>4, UndoneCommand
<1>5. CASE Pipeline(k)!UndoGuidance
  <2>1. /\ Pipeline(k)!Undo("refresh") /\ run.at = "rollback" /\ owned' = owned
        /\ \/ Pipeline(k)!UndoOk /\ disk' = (disk \ k.Managed) \cup run.before
           \/ /\ Pipeline(k)!UndoFailed
              /\ \E some \in SUBSET k.Managed : disk' = (disk \ some) \cup (run.before \cap some)
      BY <1>5 DEF Pipeline!UndoGuidance, Pipeline!Undo
  <2>2. /\ run' \in Commands(k) /\ faults' \in 0 .. k.MaxFaults /\ UndoneAs(run', run'.left, run'.errors)
        /\ run'.left \in Nat /\ run'.left <= run.left /\ run'.left # 0
        /\ run'.errors = run.errors \/ run'.errors = run.errors \cup {"refresh"}
      BY <2>1, UndoneCommand
  <2>3. disk' \subseteq disk \cup k.Managed /\ disk' \ k.Managed = disk \ k.Managed
      BY <1>2, <2>1
  <2>4. disk' \ run.covered = disk \ run.covered
      BY <1>3, <2>1, <2>3
  <2>5. owned \subseteq disk => owned' \subseteq disk'
      BY <1>1, <2>1, <2>3 DEF Pipeline!PiFiles
  <2>6. disk' \subseteq Pipeline(k)!Files
      BY <1>1, <2>3 DEF Pipeline!Files
  <2>7. run'.errors = {} => run.errors = {}
      BY <2>2
  <2> QED
      BY <1>1, <1>3, <2>1, <2>2, <2>4, <2>5, <2>6, <2>7, UndoKeeps
<1>6. CASE Pipeline(k)!UndoPi
  <2>1. /\ Pipeline(k)!Undo("pi") /\ run.at = "rollback"
        /\ \/ Pipeline(k)!UndoOk /\ disk' = disk \ owned /\ owned' = {}
           \/ Pipeline(k)!UndoFailed /\ UNCHANGED <<disk, owned>>
      BY <1>6 DEF Pipeline!UndoPi, Pipeline!Undo, Pipeline!PiUninstalled, Pipeline!PiSame
  <2>2. /\ run' \in Commands(k) /\ faults' \in 0 .. k.MaxFaults /\ UndoneAs(run', run'.left, run'.errors)
        /\ run'.left \in Nat /\ run'.left <= run.left /\ run'.left # 0
        /\ run'.errors = run.errors \/ run'.errors = run.errors \cup {"pi"}
      BY <2>1, UndoneCommand
  <2>3. CASE disk' = disk \ owned /\ owned' = {}
      BY <1>1, <1>3, <2>1, <2>2, <2>3, UndoKeeps
  <2>4. CASE UNCHANGED <<disk, owned>>
      BY <1>1, <1>3, <2>1, <2>2, <2>4, UndoKeeps
  <2> QED
      BY <2>1, <2>3, <2>4
<1> QED
    BY <1>4, <1>5, <1>6 DEF Pipeline!Rollback

(* Only the way a command stands changes when its rollback ends, when it   *)
(* ends well, and when its verification fails.                             *)
LEMMA CommandEnds ==
    ASSUME NEW k, PipelineInv(k), NEW at \in {"failed", "done", "unverified"}, run' = [run EXCEPT !.at = at],
           run.at = IF at = "failed" THEN "rollback" ELSE "verify", at = "failed" => run.left = 0,
           UNCHANGED <<disk, owned, pkg, runs>>, saved' \in {"none", "tool", "plain"}, faults' \in 0 .. k.MaxFaults
    PROVE  PipelineInv(k)'
<1>1. /\ run' \in Commands(k) /\ Same(run', run) /\ run'.at = at /\ run'.results = run.results
      /\ run'.left = run.left /\ run'.errors = run.errors
    BY DEF PipelineInv, PipelineTypes, Commands, Same
<1>2. PipelineTypes(k)'
    BY <1>1 DEF PipelineInv, PipelineTypes
<1>3. Where(k, run)'
    BY <1>1 DEF PipelineInv, Where, Running, Same
<1>4. OnDisk(k, run, disk, owned)'
    BY <1>1 DEF PipelineInv, OnDisk, Back, Same
<1>5. Within(k, run, disk, owned)'
    BY <1>1 DEF PipelineInv, Within, Running, Same
<1> QED
    BY <1>2, <1>3, <1>4, <1>5 DEF PipelineInv

LEMMA PipelineStep ==
    ASSUME NEW k, PipelineBounds(k), PipelineInv(k), [Pipeline(k)!Next]_(Pipeline(k)!vars)
    PROVE  PipelineInv(k)'
<1>0. saved \in {"none", "tool", "plain"} /\ faults \in 0 .. k.MaxFaults /\ k.MaxFaults \in Nat
    BY DEF PipelineInv, PipelineTypes, PipelineBounds
<1>1. CASE \E cmd \in {"install", "tui", "sync"}, tool \in BOOLEAN, plugin \in {FALSE, k.Plugins} :
             Pipeline(k)!Prepare(cmd, tool, plugin)
    BY <1>1, PrepareKeeps
<1>2. CASE Pipeline(k)!Apply
    BY <1>2, ApplyStepKeeps
<1>3. CASE Pipeline(k)!Rollback
    BY <1>3, RollbackKeeps
<1>4. CASE Pipeline(k)!RolledBackAll
  <2>1. /\ run.at = "rollback" /\ Pipeline(k)!ToUndo = {} /\ run' = [run EXCEPT !.at = "failed"]
        /\ UNCHANGED <<disk, owned, pkg, runs>> /\ saved' = saved /\ faults' = faults
      BY <1>4 DEF Pipeline!RolledBackAll, Pipeline!bounds
  <2>2. run.left = 0
      BY <2>1, NothingToUndo
  <2> QED
      BY <1>0, <2>1, <2>2, CommandEnds
<1>5. CASE Pipeline(k)!Finish
  <2>1. PICK at \in {"done", "unverified"} :
          /\ run.at = "verify" /\ run' = [run EXCEPT !.at = at]
          /\ faults' = faults \/ (faults < k.MaxFaults /\ faults' = faults + 1)
          /\ saved' \in {saved, "tool", "plain"} /\ UNCHANGED <<disk, owned, pkg, runs>>
      BY <1>5, Zenon DEF Pipeline!Finish, Pipeline!NoFault, Pipeline!Fault
  <2>2. faults' \in 0 .. k.MaxFaults
      BY <1>0, <2>1
  <2> QED
      BY <1>0, <2>1, <2>2, CommandEnds
<1>6. CASE UNCHANGED Pipeline(k)!vars
    BY <1>6 DEF Pipeline!vars, Pipeline!bounds, PipelineInv, PipelineTypes, Where, OnDisk, Within, Done
<1> QED
    BY <1>1, <1>2, <1>3, <1>4, <1>5, <1>6 DEF Pipeline!Next

(* What the selection saved says is true of the steps and of the files.    *)
LEMMA SavingFollows ==
    ASSUME NEW k, PipelineBounds(k), PipelineInv(k), [Pipeline(k)!Next]_(Pipeline(k)!vars)
    PROVE  Pipeline(k)!SavesSuccess
<1> SUFFICES ASSUME saved' # saved
             PROVE  /\ \A i \in DOMAIN run.plan : run.results[i] = "ok"
                    /\ k.Managed \subseteq disk /\ (saved' = "tool" <=> owned # {})
    BY DEF Pipeline!SavesSuccess
<1>1. Pipeline(k)!Finish
    BY DEF Pipeline!Next, Pipeline!Prepare, Pipeline!Apply, Pipeline!Rollback, Pipeline!RolledBackAll, Pipeline!vars
<1>2. run.at = "verify" /\ run.cmd # "sync" /\ saved' = IF run.tool THEN "tool" ELSE "plain"
    BY <1>1 DEF Pipeline!Finish
<1>3. /\ run.plan \in Seq(StepNames) /\ run.results \in Seq({"ok", "failed"}) /\ run.tool \in BOOLEAN
      /\ PlanFits(k, run.plan, run.cmd)
      /\ Len(run.results) = Len(run.plan) /\ \A i \in 1 .. Len(run.plan) : run.results[i] = "ok"
    BY <1>2 DEF PipelineInv, PipelineTypes, Commands, Where, Running
<1>4. Done(run, "component") /\ Done(run, "pi")
  <2>1. PICK i \in 1 .. Len(run.plan) : run.plan[i] = "component"
      BY <1>3 DEF PlanFits
  <2>2. run.plan[Len(run.plan)] = "pi" /\ Len(run.plan) \in 1 .. Len(run.plan)
      BY <1>2, <1>3 DEF PlanFits
  <2> QED
      BY <1>3, <2>1, <2>2 DEF Done
<1>5. k.Managed \subseteq disk /\ (run.tool <=> owned # {})
    BY <1>2, <1>4 DEF PipelineInv, OnDisk
<1> QED
    BY <1>2, <1>3, <1>5

LEMMA PipelineInvHolds == ASSUME NEW k, PipelineBounds(k) PROVE Pipeline(k)!Spec => []PipelineInv(k)
<1>1. Pipeline(k)!Init => PipelineInv(k)
    BY PipelineStarts
<1>2. PipelineInv(k) /\ [Pipeline(k)!Next]_(Pipeline(k)!vars) => PipelineInv(k)'
    BY PipelineStep
<1> QED
    BY <1>1, <1>2, PTL DEF Pipeline!Spec

LEMMA PipelineTyped == ASSUME NEW k, PipelineInv(k) PROVE Pipeline(k)!TypeOK
<1>1. /\ run.at \in Pipeline(k)!Ends \cup {"apply", "rollback", "verify"}
      /\ run.errors \subseteq Pipeline(k)!RollbackSteps
    BY DEF PipelineInv, PipelineTypes, Commands, Pipeline!Ends, Pipeline!RollbackSteps
<1> QED
    BY <1>1 DEF PipelineInv, PipelineTypes, Where, OnDisk, Pipeline!TypeOK

LEMMA PipelineRestores == ASSUME NEW k, PipelineInv(k) PROVE Pipeline(k)!CoveredRestored
    BY DEF PipelineInv, OnDisk, Back, Pipeline!CoveredRestored

LEMMA PipelineRollsBack ==
    ASSUME NEW k, PipelineInv(k), ~k.Fresh, ~k.Plugins
    PROVE  Pipeline(k)!RolledBack
<1> SUFFICES ASSUME run.at = "failed", run.errors = {} PROVE disk = run.disk /\ owned = run.owned
    BY DEF Pipeline!RolledBack
<1>1. disk \cap run.covered = run.disk \cap run.covered /\ owned = run.owned
    BY DEF PipelineInv, OnDisk, Back
<1>2. disk \ run.covered = run.disk \ run.covered
    BY DEF PipelineInv, Within
<1> QED
    BY <1>1, <1>2

-----------------------------------------------------------------------------
(***************************************************************************)
(* PluginUninstall                                                         *)
(***************************************************************************)

(* Files come before directories, and a file that is removed whole is the  *)
(* last layer.                                                             *)
UninstallBounds(k) ==
    /\ Len(k.Layers) \in Nat \ {0} /\ DOMAIN k.Layers = 1 .. Len(k.Layers)
    /\ \A i, j \in DOMAIN k.Layers : k.Layers[i] = k.Layers[j] => i = j
    /\ k.Layers[1] \notin k.Dirs
    /\ \A i \in DOMAIN k.Layers : i # Len(k.Layers) =>
         k.Layers[i] \notin k.Deleted /\ (k.Layers[i] \in k.Dirs => k.Layers[i + 1] \in k.Dirs)
    /\ k.MaxEdits \in Nat /\ k.MaxFails \in Nat /\ k.LateSyncFails \in BOOLEAN /\ k.RacyEdits \in BOOLEAN
    /\ Absent \notin [listed : BOOLEAN, rev : Nat]

(* What a file may hold after n edits, and what the journal knows of it.   *)
Old(n) == [listed : BOOLEAN, rev : 0 .. n] \cup {Absent}
Entry(n) == [data : Old(n), after : Old(n), changed : BOOLEAN]

Forward == {"capture", "read", "verify", "replace", "record"}
Backward == {"unstage", "restore", "rewrite", "manual", "rolledback"}

UninstallTypes(k) ==
    /\ file \in [Uninstall(k)!Files -> Old(edits)]
    /\ editor \in [Uninstall(k)!Files -> {"nobody", "us", "other"}]
    /\ original \subseteq k.Dirs /\ staged \subseteq k.Dirs
    /\ DOMAIN journal \subseteq Uninstall(k)!Files /\ journal \in [DOMAIN journal -> Entry(edits)]
    /\ layer \in DOMAIN k.Layers /\ edits \in 0 .. k.MaxEdits /\ fails \in 0 .. k.MaxFails /\ trouble \in BOOLEAN
    /\ pc \in Forward \cup Backward \cup {"stage", "clean", "done", "refused"}

(* Where the uninstaller is, and what it knows there.                      *)
Placed(k) ==
    LET current == k.Layers[layer] IN
    /\ pc \in Forward => current \notin k.Dirs
    /\ pc = "stage" => current \in k.Dirs
    /\ pc \in Forward \ {"capture"} => current \in DOMAIN journal /\ ~journal[current].changed
    /\ pc = "capture" => current \notin DOMAIN journal
    /\ pc = "read" => current \notin k.Deleted
    /\ \A f \in DOMAIN journal : \E i \in 1 .. layer : f = k.Layers[i]
    /\ pc \in {"verify", "replace", "record"} =>
         /\ plan \in Old(edits) /\ (plan = Absent <=> current \in k.Deleted) /\ (plan # Absent => ~plan.listed)
    /\ pc \in {"verify", "replace"} /\ plan # Absent => file[current] # plan
    /\ pc \in {"replace", "record"} /\ plan # Absent => journal[current].data # plan
    /\ pc = "rewrite" => plan.path \in DOMAIN journal /\ journal[plan.path].changed
    /\ \A f \in DOMAIN journal : journal[f].changed /\ journal[f].after = Absent => pc \in {"clean", "done"}

(* If no edit falls between a check and its write, what was checked is     *)
(* still there when it is written.                                         *)
Checked(k) ==
    ~k.RacyEdits =>
        /\ pc = "replace" => file[k.Layers[layer]] = journal[k.Layers[layer]].data
        /\ pc = "rewrite" => file[plan.path] = journal[plan.path].after

(* Who changed a captured file last is known from its content, and while   *)
(* a write is not recorded, from the plan; but not when a write was done   *)
(* and reported as failed.                                                 *)
Settled(k) == ~k.LateSyncFails \/ pc \in Forward \cup {"stage"}
Told(k, f) ==
    LET e == journal[f] IN
    IF pc = "record" /\ f = k.Layers[layer]
    THEN /\ file[f] = plan \/ editor[f] = "other" \/ (file[f] = Absent /\ e.data = Absent)
         /\ plan # Absent /\ editor[f] = "other" => file[f] # plan
    ELSE /\ Settled(k) /\ ~e.changed => (file[f] = e.data <=> editor[f] # "other")
         /\ e.changed /\ e.after # Absent /\ editor[f] = "other" => file[f] # e.after
         /\ e.changed => (e.after # Absent => ~e.after.listed /\ e.data # e.after)

(* The layers passed no longer hold the plugin.                            *)
IsGone(f) == file[f] = Absent \/ ~file[f].listed \/ editor[f] = "other"
Gone(k) ==
    \A i \in DOMAIN k.Layers :
        /\ pc \in {"clean", "done"} \/ (pc \in Forward \cup {"stage"} /\ i < layer)
        /\ k.Layers[i] \notin k.Dirs
        => IsGone(k.Layers[i])

(* What is staged is to be removed, or to be brought back.                 *)
Staging(k) ==
    /\ pc \in Forward \cup {"stage"} => ~trouble
    /\ pc \notin {"clean", "done"} => pending = {}
    /\ pc = "clean" => staged = pending \cup todo /\ pending \cap todo = {}
    /\ pc = "done" => staged = pending
    /\ pc = "unstage" => todo \subseteq staged /\ (~trouble => staged \subseteq todo)
    /\ pc \in {"restore", "rewrite", "rolledback"} /\ ~trouble => staged = {}
    /\ pc = "rolledback" => ~trouble /\ todo = {}
    /\ todo \subseteq Uninstall(k)!Files \cup k.Dirs

(* What has been restored has its before-image, or what somebody else      *)
(* wrote since.                                                            *)
Restoring(k) ==
    pc \in {"restore", "rewrite", "rolledback"} =>
        /\ \A f \in todo : f \in DOMAIN journal /\ journal[f].changed
        /\ ~trouble => \A f \in DOMAIN journal :
             journal[f].changed /\ f \notin todo /\ ~(pc = "rewrite" /\ f = plan.path) =>
               file[f] = journal[f].data \/ editor[f] = "other"

UninstallInv(k) ==
    /\ UninstallTypes(k) /\ Placed(k) /\ Checked(k) /\ (\A f \in DOMAIN journal : Told(k, f))
    /\ Gone(k) /\ Staging(k) /\ Restoring(k)

-----------------------------------------------------------------------------
LEMMA UninstallStarts == ASSUME NEW k, UninstallBounds(k), Uninstall(k)!Init PROVE UninstallInv(k)
<1>1. /\ pc = "capture" /\ layer = 1 /\ todo = {} /\ trouble = FALSE /\ edits = 0 /\ fails = 0
      /\ staged = {} /\ pending = {} /\ original \in SUBSET k.Dirs
      /\ editor = [f \in Uninstall(k)!Files |-> "nobody"]
      /\ file \in [Uninstall(k)!Files -> {[listed |-> TRUE, rev |-> 0], [listed |-> FALSE, rev |-> 0], Absent}]
    BY DEF Uninstall!Init
<1>2. journal = [p \in {} |-> Absent] /\ DOMAIN journal = {}
    BY DEF Uninstall!Init, Uninstall!EmptyJournal
<1>3. layer \in DOMAIN k.Layers /\ k.Layers[layer] \notin k.Dirs /\ k.MaxEdits \in Nat /\ k.MaxFails \in Nat
    BY <1>1 DEF UninstallBounds
<1>4. {[listed |-> TRUE, rev |-> 0], [listed |-> FALSE, rev |-> 0], Absent} \subseteq Old(0)
    BY DEF Old
<1>5. UninstallTypes(k)
  <2>1. file \in [Uninstall(k)!Files -> Old(edits)]
      BY <1>1, <1>4
  <2>2. journal \in [DOMAIN journal -> Entry(edits)] /\ DOMAIN journal \subseteq Uninstall(k)!Files
      BY <1>2
  <2>3. editor \in [Uninstall(k)!Files -> {"nobody", "us", "other"}]
      BY <1>1
  <2>4. /\ pc \in Forward /\ edits \in 0 .. k.MaxEdits /\ fails \in 0 .. k.MaxFails /\ trouble \in BOOLEAN
        /\ original \subseteq k.Dirs /\ staged \subseteq k.Dirs
    <3>1. trouble \in BOOLEAN
        BY <1>1, Zenon
    <3>2. edits \in 0 .. k.MaxEdits /\ fails \in 0 .. k.MaxFails
        BY <1>1, <1>3
    <3> QED
        BY <1>1, <3>1, <3>2 DEF Forward
  <2> QED
      BY <1>3, <2>1, <2>2, <2>3, <2>4 DEF UninstallTypes
<1>6. Placed(k) /\ Checked(k)
    BY <1>1, <1>2, <1>3 DEF Placed, Checked, Forward
<1>7. Gone(k)
    BY <1>1, <1>3 DEF Gone, UninstallBounds
<1>8. Staging(k) /\ Restoring(k)
    BY <1>1 DEF Staging, Restoring, Forward
<1> QED
    BY <1>2, <1>5, <1>6, <1>7, <1>8 DEF UninstallInv

(* The next layer, with what the layer done has left behind.               *)
LEMMA GoesOn ==
    ASSUME NEW k, UninstallBounds(k), UninstallInv(k), pc \in Forward \cup {"stage"}, Uninstall(k)!NextLayer,
           UNCHANGED <<file, editor, edits, trouble, pending>>, fails' \in 0 .. k.MaxFails,
           original' \subseteq k.Dirs, staged' \subseteq k.Dirs,
           layer = Len(k.Layers) => todo' = staged',
           DOMAIN journal' = DOMAIN journal, journal' \in [DOMAIN journal -> Entry(edits)],
           \A f \in DOMAIN journal : /\ journal'[f].changed /\ journal'[f].after = Absent => layer = Len(k.Layers)
                                     /\ Told(k, f)',
           k.Layers[layer] \notin k.Dirs => IsGone(k.Layers[layer])
    PROVE  UninstallInv(k)'
<1>1. /\ layer \in 1 .. Len(k.Layers) /\ Len(k.Layers) \in Nat /\ DOMAIN k.Layers = 1 .. Len(k.Layers)
      /\ pending = {} /\ ~trouble /\ todo \subseteq Uninstall(k)!Files \cup k.Dirs
    BY DEF UninstallBounds, UninstallInv, UninstallTypes, Staging, Forward
<1>2. \/ layer = Len(k.Layers) /\ pc' = "clean" /\ layer' = layer
      \/ /\ layer < Len(k.Layers) /\ layer' = layer + 1 /\ todo' = todo
         /\ \/ pc' = "stage" /\ k.Layers[layer + 1] \in k.Dirs
            \/ pc' = "capture" /\ k.Layers[layer + 1] \notin k.Dirs
    BY <1>1 DEF Uninstall!NextLayer
<1>3. layer' \in DOMAIN k.Layers /\ pc' \in {"stage", "capture", "clean"}
    BY <1>1, <1>2
<1>4. UninstallTypes(k)'
    BY <1>3 DEF UninstallInv, UninstallTypes, Forward, Backward
<1>5. Placed(k)'
  <2>1. \A f \in DOMAIN journal : \E j \in 1 .. layer : f = k.Layers[j]
      BY DEF UninstallInv, Placed
  <2>2. pc' = "capture" => k.Layers[layer'] \notin DOMAIN journal'
    <3>1. ASSUME pc' = "capture", k.Layers[layer'] \in DOMAIN journal PROVE FALSE
      <4>1. layer' = layer + 1 /\ layer + 1 \in DOMAIN k.Layers
          BY <1>1, <1>2, <3>1
      <4>2. PICK j \in 1 .. layer : k.Layers[layer + 1] = k.Layers[j]
          BY <2>1, <3>1, <4>1
      <4>3. j \in DOMAIN k.Layers /\ j # layer + 1
          BY <1>1, <4>2
      <4> QED
          BY <4>1, <4>2, <4>3 DEF UninstallBounds
    <3> QED
        BY <3>1
  <2>3. \A f \in DOMAIN journal' : \E j \in 1 .. layer' : f = k.Layers[j]
      BY <1>1, <1>2, <2>1
  <2>4. \A f \in DOMAIN journal' : journal'[f].changed /\ journal'[f].after = Absent => pc' = "clean"
      BY <1>1, <1>2
  <2>5. pc' = "capture" => k.Layers[layer'] \notin k.Dirs
      BY <1>2
  <2>6. pc' = "stage" => k.Layers[layer'] \in k.Dirs
      BY <1>2
  <2> QED
      BY <1>3, <2>2, <2>3, <2>4, <2>5, <2>6 DEF Placed, Forward
<1>6. Gone(k)'
  <2> SUFFICES ASSUME NEW j \in DOMAIN k.Layers, pc' = "clean" \/ j < layer', k.Layers[j] \notin k.Dirs
               PROVE  IsGone(k.Layers[j])'
      BY <1>3 DEF Gone
  <2>1. IsGone(k.Layers[j]) => IsGone(k.Layers[j])'
      BY DEF IsGone
  <2>2. CASE j < layer
      BY <2>1, <2>2 DEF UninstallInv, Gone
  <2>3. CASE ~(j < layer)
    <3>1. j = layer
        BY <1>1, <1>2, <2>3
    <3> QED
        BY <2>1, <3>1
  <2> QED
      BY <2>2, <2>3
<1>7. Staging(k)' /\ Restoring(k)' /\ Checked(k)'
    BY <1>1, <1>2 DEF Staging, Restoring, Checked, Forward
<1> QED
    BY <1>4, <1>5, <1>6, <1>7 DEF UninstallInv

(* A failure leads to the rollback, and changes nothing else.              *)
LEMMA TurnsBack ==
    ASSUME NEW k, UninstallBounds(k), UninstallInv(k), pc \in (Forward \ {"record"}) \cup {"stage"},
           Uninstall(k)!Rollback, fails' \in 0 .. k.MaxFails,
           UNCHANGED <<file, editor, edits, trouble, pending, original, staged, journal>>
    PROVE  UninstallInv(k)'
<1>1. pc' = "unstage" /\ todo' = staged /\ layer' = layer /\ ~trouble /\ pending = {} /\ staged \subseteq k.Dirs
    BY DEF Uninstall!Rollback, UninstallInv, Staging, UninstallTypes, Forward
<1>2. UninstallTypes(k)'
    BY <1>1 DEF UninstallInv, UninstallTypes, Backward
<1>3. Placed(k)' /\ Gone(k)'
    BY <1>1 DEF UninstallInv, Placed, Gone, Forward
<1>4. \A f \in DOMAIN journal' : Told(k, f)'
    BY <1>1 DEF UninstallInv, Told, Settled, Forward
<1>5. Staging(k)' /\ Restoring(k)' /\ Checked(k)'
    BY <1>1 DEF Staging, Restoring, Checked, Forward
<1> QED
    BY <1>2, <1>3, <1>4, <1>5 DEF UninstallInv

LEMMA FailCounts ==
    ASSUME NEW k, UninstallBounds(k), UninstallInv(k)
    PROVE  /\ Uninstall(k)!Fail => fails' \in 0 .. k.MaxFails
           /\ fails' = fails => fails' \in 0 .. k.MaxFails
           /\ fails < k.MaxFails /\ fails' = fails + 1 => fails' \in 0 .. k.MaxFails
BY DEF UninstallInv, UninstallTypes, UninstallBounds, Uninstall!Fail

(* Another step of the same layer, which changes nothing but the plan.     *)
LEMMA StaysOn ==
    ASSUME NEW k, UninstallBounds(k), UninstallInv(k), pc \in {"read", "verify"}, pc' \in {"verify", "replace"},
           UNCHANGED <<file, editor, original, staged, pending, journal, edits, trouble, fails, layer, todo>>,
           Placed(k)', Checked(k)'
    PROVE  UninstallInv(k)'
<1>1. UninstallTypes(k)'
    BY DEF UninstallInv, UninstallTypes, Forward
<1>2. \A f \in DOMAIN journal' : Told(k, f)'
    BY DEF UninstallInv, Told, Settled, Forward
<1>3. Gone(k)'
    BY DEF UninstallInv, Gone, IsGone, Forward
<1>4. Staging(k)' /\ Restoring(k)'
    BY DEF UninstallInv, Staging, Restoring, Forward
<1> QED
    BY <1>1, <1>2, <1>3, <1>4 DEF UninstallInv

LEMMA CaptureKeeps ==
    ASSUME NEW k, UninstallBounds(k), UninstallInv(k), Uninstall(k)!CaptureFile
    PROVE  UninstallInv(k)'
<1> DEFINE c == k.Layers[layer]
<1>0. c = Uninstall(k)!Current
    BY DEF Uninstall!Current
<1>1. /\ pc = "capture" /\ UNCHANGED <<file, original, staged, pending, edits, trouble>>
    BY DEF Uninstall!CaptureFile, Uninstall!rest
<1>2. /\ c \notin k.Dirs /\ c \notin DOMAIN journal /\ layer \in DOMAIN k.Layers
      /\ c \in Uninstall(k)!Files /\ file[c] \in Old(edits) /\ pending = {} /\ ~trouble
      /\ DOMAIN journal \subseteq Uninstall(k)!Files
    BY <1>1 DEF UninstallInv, UninstallTypes, Placed, Staging, Forward, Uninstall!Files
<1>3. CASE /\ journal' = Uninstall(k)!Capture(journal, c, file[c])
           /\ editor' = [editor EXCEPT ![c] = "nobody"]
           /\ pc' = (IF c \in k.Deleted THEN "verify" ELSE "read")
           /\ plan' = Absent
           /\ UNCHANGED <<todo, layer, fails>>
  <2> DEFINE entry == [data |-> file[c], after |-> Absent, changed |-> FALSE]
  <2>1. journal' = [q \in DOMAIN journal \cup {c} |-> IF q = c THEN entry ELSE journal[q]]
      BY <1>2, <1>3 DEF Uninstall!Capture
  <2>2. entry \in Entry(edits) /\ entry.data = file[c] /\ entry.changed = FALSE
      BY <1>2 DEF Entry, Old
  <2> HIDE DEF c, entry
  <2>3. /\ DOMAIN journal' = DOMAIN journal \cup {c} /\ journal'[c] = entry
        /\ \A f \in DOMAIN journal : f # c /\ journal'[f] = journal[f]
      BY <1>2, <2>1
  <2>4. journal' \in [DOMAIN journal' -> Entry(edits)]
    <3>1. \A f \in DOMAIN journal : journal[f] \in Entry(edits)
        BY DEF UninstallInv, UninstallTypes
    <3> QED
        BY <2>1, <2>2, <3>1
  <2>5. /\ editor' \in [Uninstall(k)!Files -> {"nobody", "us", "other"}] /\ editor'[c] = "nobody"
        /\ \A f \in Uninstall(k)!Files : f # c => editor'[f] = editor[f]
      BY <1>2, <1>3 DEF UninstallInv, UninstallTypes
  <2>6. UninstallTypes(k)'
      BY <1>1, <1>2, <1>3, <2>3, <2>4, <2>5 DEF UninstallInv, UninstallTypes, Forward
  <2>7. Placed(k)'
    <3>1. \A f \in DOMAIN journal' : \E j \in 1 .. layer' : f = k.Layers[j]
        BY <1>2, <1>3, <2>3 DEF UninstallInv, Placed, UninstallBounds, c
    <3>2. pc' = "verify" => plan' \in Old(edits') /\ plan' = Absent /\ c \in k.Deleted
        BY <1>3 DEF Old
    <3>3. \A f \in DOMAIN journal' : ~(journal'[f].changed /\ journal'[f].after = Absent)
        BY <1>1, <2>2, <2>3 DEF UninstallInv, Placed
    <3>4. /\ layer' = layer /\ pc' \in {"verify", "read"} /\ ~journal'[c].changed
          /\ pc' = "read" => c \notin k.Deleted
        BY <1>3, <2>2, <2>3
    <3> QED
        BY <1>2, <2>3, <3>1, <3>2, <3>3, <3>4 DEF Placed, Forward, c
  <2>8. ASSUME NEW f \in DOMAIN journal' PROVE Told(k, f)'
    <3>1. CASE f = c
        BY <1>1, <1>3, <2>2, <2>3, <2>5, <3>1 DEF Told
    <3>2. CASE f # c
      <4>1. f \in DOMAIN journal /\ journal'[f] = journal[f] /\ editor'[f] = editor[f] /\ file'[f] = file[f]
          BY <1>1, <1>2, <2>3, <2>5, <3>2
      <4> QED
          BY <1>1, <1>3, <4>1 DEF UninstallInv, Told, Settled, Forward
    <3> QED
        BY <3>1, <3>2
  <2>9. Gone(k)'
    <3> SUFFICES ASSUME NEW j \in DOMAIN k.Layers, j < layer, k.Layers[j] \notin k.Dirs
                 PROVE  IsGone(k.Layers[j])'
        BY <1>3 DEF Gone
    <3>1. IsGone(k.Layers[j])
        BY <1>1 DEF UninstallInv, Gone, Forward
    <3>2. k.Layers[j] # c /\ k.Layers[j] \in Uninstall(k)!Files
        BY <1>2 DEF UninstallBounds, c, Uninstall!Files
    <3> QED
        BY <1>1, <2>5, <3>1, <3>2 DEF IsGone
  <2>10. Staging(k)' /\ Restoring(k)' /\ Checked(k)'
      BY <1>1, <1>2, <1>3 DEF UninstallInv, Staging, Restoring, Checked, Forward
  <2> QED
      BY <2>6, <2>7, <2>8, <2>9, <2>10 DEF UninstallInv
<1>4. CASE /\ Uninstall(k)!Fail /\ pc' = "refused"
           /\ UNCHANGED <<todo, layer, journal, editor, plan>>
  <2>1. UninstallTypes(k)'
      BY <1>1, <1>4, FailCounts DEF UninstallInv, UninstallTypes
  <2>2. Placed(k)' /\ Gone(k)' /\ Staging(k)' /\ Restoring(k)' /\ Checked(k)'
      BY <1>1, <1>2, <1>4 DEF UninstallInv, Placed, Gone, Staging, Restoring, Checked, Forward
  <2>3. \A f \in DOMAIN journal' : Told(k, f)'
      BY <1>1, <1>4 DEF UninstallInv, Told, Settled, Forward
  <2> QED
      BY <2>1, <2>2, <2>3 DEF UninstallInv
<1>5. CASE Uninstall(k)!Fail /\ Uninstall(k)!Rollback /\ UNCHANGED <<journal, editor, plan>>
    BY <1>1, <1>5, FailCounts, TurnsBack DEF Forward
<1> QED
    BY <1>0, <1>3, <1>4, <1>5 DEF Uninstall!CaptureFile

LEMMA ReadKeeps ==
    ASSUME NEW k, UninstallBounds(k), UninstallInv(k), Uninstall(k)!ReadFile
    PROVE  UninstallInv(k)'
<1> DEFINE c == k.Layers[layer]
<1>0. c = Uninstall(k)!Current
    BY DEF Uninstall!Current
<1>1. /\ pc = "read" /\ UNCHANGED <<file, editor, original, staged, pending, journal, edits, trouble, fails>>
    BY DEF Uninstall!ReadFile, Uninstall!rest, Uninstall!disk
<1>2. c \in Uninstall(k)!Files /\ file[c] \in Old(edits) /\ c \in DOMAIN journal /\ layer \in DOMAIN k.Layers
    BY <1>1 DEF UninstallInv, UninstallTypes, Placed, Forward, Uninstall!Files
<1>3. CASE /\ file[c] # Absent /\ file[c].listed /\ plan' = [file[c] EXCEPT !.listed = FALSE]
           /\ pc' = "verify" /\ UNCHANGED <<layer, todo>>
  <2>1. PICK r \in [listed : BOOLEAN, rev : 0 .. edits] : r = file[c]
      BY <1>2, <1>3 DEF Old
  <2>2. plan' = [listed |-> FALSE, rev |-> r.rev]
      BY <1>3, <2>1
  <2>3. plan' \in Old(edits) /\ plan' # Absent /\ ~plan'.listed
    <3>1. edits \in Nat /\ r.rev \in 0 .. edits
        BY <2>1 DEF UninstallInv, UninstallTypes
    <3>2. plan' \in [listed : BOOLEAN, rev : 0 .. edits] /\ plan' \in [listed : BOOLEAN, rev : Nat] /\ ~plan'.listed
        BY <2>2, <3>1
    <3> QED
        BY <3>2 DEF Old, UninstallBounds
  <2>4. c \notin k.Deleted
      BY <1>1 DEF UninstallInv, Placed
  <2>5. plan' # file[c]
    <3>1. r.listed
        BY <1>3, <2>1
    <3> QED
        BY <2>1, <2>3, <3>1
  <2>6. Placed(k)' /\ Checked(k)'
      BY <1>1, <1>2, <1>3, <2>3, <2>4, <2>5 DEF UninstallInv, Placed, Checked, Forward
  <2> QED
      BY <1>1, <1>3, <2>6, StaysOn
<1>4. CASE ~(file[c] # Absent /\ file[c].listed) /\ Uninstall(k)!NextLayer /\ UNCHANGED plan
  <2>1. IsGone(c)
      BY <1>4 DEF IsGone
  <2>2. ASSUME NEW f \in DOMAIN journal
        PROVE  /\ journal'[f].changed /\ journal'[f].after = Absent => layer = Len(k.Layers)
               /\ Told(k, f)'
    <3>1. pc' \in {"clean", "capture", "stage"}
        BY <1>4 DEF Uninstall!NextLayer
    <3> QED
        BY <1>1, <3>1 DEF UninstallInv, Placed, Told, Settled, Forward
  <2>3. journal' \in [DOMAIN journal -> Entry(edits)] /\ original' \subseteq k.Dirs /\ staged' \subseteq k.Dirs
      BY <1>1 DEF UninstallInv, UninstallTypes
  <2>4. layer = Len(k.Layers) => todo' = staged'
      BY <1>1, <1>4 DEF Uninstall!NextLayer
  <2> QED
      BY <1>1, <1>4, <2>1, <2>2, <2>3, <2>4, FailCounts, GoesOn DEF Forward
<1> QED
    BY <1>0, <1>3, <1>4 DEF Uninstall!ReadFile

LEMMA VerifyKeeps ==
    ASSUME NEW k, UninstallBounds(k), UninstallInv(k), Uninstall(k)!Verify
    PROVE  UninstallInv(k)'
<1> DEFINE c == k.Layers[layer]
<1>0. c = Uninstall(k)!Current
    BY DEF Uninstall!Current
<1>1. /\ pc = "verify" /\ UNCHANGED <<file, editor, original, staged, pending, journal, plan, edits, trouble, fails>>
    BY DEF Uninstall!Verify, Uninstall!rest, Uninstall!disk
<1>2. c \in Uninstall(k)!Files /\ file[c] \in Old(edits) /\ c \in DOMAIN journal /\ layer \in DOMAIN k.Layers
      /\ ~journal[c].changed
    BY <1>1 DEF UninstallInv, UninstallTypes, Placed, Forward, Uninstall!Files
<1>3. CASE journal[c].data = Absent /\ Uninstall(k)!NextLayer
  <2>1. IsGone(c)
      BY <1>1, <1>2, <1>3 DEF UninstallInv, Told, Settled, IsGone, Forward
  <2>2. ASSUME NEW f \in DOMAIN journal
        PROVE  /\ journal'[f].changed /\ journal'[f].after = Absent => layer = Len(k.Layers)
               /\ Told(k, f)'
    <3>1. pc' \in {"clean", "capture", "stage"}
        BY <1>3 DEF Uninstall!NextLayer
    <3> QED
        BY <1>1, <3>1 DEF UninstallInv, Placed, Told, Settled, Forward
  <2>3. journal' \in [DOMAIN journal -> Entry(edits)] /\ original' \subseteq k.Dirs /\ staged' \subseteq k.Dirs
      BY <1>1 DEF UninstallInv, UninstallTypes
  <2>4. layer = Len(k.Layers) => todo' = staged'
      BY <1>1, <1>3 DEF Uninstall!NextLayer
  <2> QED
      BY <1>1, <1>3, <2>1, <2>2, <2>3, <2>4, FailCounts, GoesOn DEF Forward
<1>4. CASE file[c] = journal[c].data /\ pc' = "replace" /\ UNCHANGED <<layer, todo>>
  <2>1. Placed(k)' /\ Checked(k)'
      BY <1>1, <1>2, <1>4 DEF UninstallInv, Placed, Checked, Forward
  <2> QED
      BY <1>1, <1>4, <2>1, StaysOn
<1>5. CASE Uninstall(k)!Rollback
    BY <1>1, <1>5, FailCounts, TurnsBack DEF Forward
<1> QED
    BY <1>0, <1>3, <1>4, <1>5 DEF Uninstall!Verify, Uninstall!Before

LEMMA ReplaceKeeps ==
    ASSUME NEW k, UninstallBounds(k), UninstallInv(k), Uninstall(k)!Replace
    PROVE  UninstallInv(k)'
<1> DEFINE c == k.Layers[layer]
<1>0. c = Uninstall(k)!Current
    BY DEF Uninstall!Current
<1>1. /\ pc = "replace" /\ UNCHANGED <<original, staged, pending, journal, plan, edits, trouble>>
    BY DEF Uninstall!Replace, Uninstall!rest
<1>2. /\ c \in Uninstall(k)!Files /\ c \in DOMAIN journal /\ layer \in DOMAIN k.Layers /\ ~journal[c].changed
      /\ plan \in Old(edits) /\ c \notin k.Dirs /\ (plan = Absent <=> c \in k.Deleted)
      /\ plan # Absent => ~plan.listed /\ file[c] # plan
    BY <1>1 DEF UninstallInv, UninstallTypes, Placed, Forward, Uninstall!Files
<1>3. CASE /\ file' = [file EXCEPT ![c] = plan]
           /\ editor' = IF file[c] = plan THEN editor ELSE [editor EXCEPT ![c] = "us"]
           /\ pc' = "record" /\ UNCHANGED <<layer, todo, fails>>
  <2>1. /\ file' \in [Uninstall(k)!Files -> Old(edits)] /\ file'[c] = plan
        /\ editor' \in [Uninstall(k)!Files -> {"nobody", "us", "other"}]
        /\ plan # Absent => editor'[c] # "other"
        /\ \A f \in Uninstall(k)!Files \ {c} : file'[f] = file[f] /\ editor'[f] = editor[f]
      BY <1>2, <1>3 DEF UninstallInv, UninstallTypes
  <2>2. UninstallTypes(k)'
      BY <1>1, <1>3, <2>1 DEF UninstallInv, UninstallTypes, Forward
  <2>3. Placed(k)' /\ Checked(k)'
      BY <1>1, <1>2, <1>3 DEF UninstallInv, Placed, Checked, Forward
  <2>4. ASSUME NEW f \in DOMAIN journal' PROVE Told(k, f)'
    <3>1. f \in DOMAIN journal /\ f \in Uninstall(k)!Files
        BY <1>1 DEF UninstallInv, UninstallTypes
    <3>2. CASE f = c
        BY <1>1, <1>3, <2>1, <3>2 DEF Told
    <3>3. CASE f # c
        BY <1>1, <1>3, <2>1, <3>1, <3>3 DEF UninstallInv, Told, Settled, Forward
    <3> QED
        BY <3>2, <3>3
  <2>5. Gone(k)'
    <3> SUFFICES ASSUME NEW j \in DOMAIN k.Layers, j < layer, k.Layers[j] \notin k.Dirs
                 PROVE  IsGone(k.Layers[j])'
        BY <1>3 DEF Gone
    <3>1. IsGone(k.Layers[j])
        BY <1>1 DEF UninstallInv, Gone, Forward
    <3>2. k.Layers[j] # c /\ k.Layers[j] \in Uninstall(k)!Files
        BY <1>2 DEF UninstallBounds, Uninstall!Files
    <3> QED
        BY <2>1, <3>1, <3>2 DEF IsGone
  <2>6. Staging(k)' /\ Restoring(k)'
      BY <1>1, <1>3 DEF UninstallInv, Staging, Restoring, Forward
  <2> QED
      BY <2>2, <2>3, <2>4, <2>5, <2>6 DEF UninstallInv
<1>4. CASE Uninstall(k)!Fail /\ Uninstall(k)!Rollback /\ UNCHANGED <<file, editor>>
    BY <1>1, <1>4, FailCounts, TurnsBack DEF Forward
<1> QED
    BY <1>0, <1>3, <1>4 DEF Uninstall!Replace

(* The write is done but reported as failed: it is not recorded.           *)
LEMMA LateTurnsBack ==
    ASSUME NEW k, UninstallBounds(k), UninstallInv(k), pc = "record", k.LateSyncFails,
           Uninstall(k)!Fail, Uninstall(k)!Rollback,
           UNCHANGED <<file, editor, edits, trouble, pending, original, staged, journal>>
    PROVE  UninstallInv(k)'
<1>1. /\ pc' = "unstage" /\ todo' = staged /\ layer' = layer /\ ~trouble /\ pending = {} /\ staged \subseteq k.Dirs
      /\ fails' \in 0 .. k.MaxFails
    BY FailCounts DEF Uninstall!Rollback, UninstallInv, Staging, UninstallTypes, Forward
<1>2. UninstallTypes(k)'
    BY <1>1 DEF UninstallInv, UninstallTypes, Backward
<1>3. Placed(k)' /\ Gone(k)'
    BY <1>1 DEF UninstallInv, Placed, Gone, Forward
<1>4. ASSUME NEW f \in DOMAIN journal' PROVE Told(k, f)'
  <2>1. ~Settled(k)' /\ f \in DOMAIN journal
      BY <1>1 DEF Settled, Forward
  <2>2. f = k.Layers[layer] => ~journal[f].changed
      BY DEF UninstallInv, Placed, Forward
  <2> QED
      BY <1>1, <2>1, <2>2 DEF UninstallInv, Told
<1>5. Staging(k)' /\ Restoring(k)' /\ Checked(k)'
    BY <1>1 DEF Staging, Restoring, Checked, Forward
<1> QED
    BY <1>2, <1>3, <1>4, <1>5 DEF UninstallInv

LEMMA RecordKeeps ==
    ASSUME NEW k, UninstallBounds(k), UninstallInv(k), Uninstall(k)!Record
    PROVE  UninstallInv(k)'
<1> DEFINE c == k.Layers[layer]
<1>0. c = Uninstall(k)!Current
    BY DEF Uninstall!Current
<1>a. /\ pc = "record" /\ UNCHANGED <<file, editor, original, staged, pending, plan, edits, trouble>>
      /\ \/ /\ journal' = [journal EXCEPT ![c].after = plan, ![c].changed = TRUE]
            /\ Uninstall(k)!NextLayer /\ UNCHANGED fails
         \/ k.LateSyncFails /\ Uninstall(k)!Fail /\ Uninstall(k)!Rollback /\ UNCHANGED journal
    BY <1>0 DEF Uninstall!Record, Uninstall!rest, Uninstall!disk, Uninstall!Recorded
<1>b. CASE k.LateSyncFails /\ Uninstall(k)!Fail /\ Uninstall(k)!Rollback /\ UNCHANGED journal
    BY <1>a, <1>b, LateTurnsBack
<1> SUFFICES ASSUME /\ journal' = [journal EXCEPT ![c].after = plan, ![c].changed = TRUE]
                    /\ Uninstall(k)!NextLayer /\ UNCHANGED fails
             PROVE  UninstallInv(k)'
    BY <1>a, <1>b
<1>1. /\ pc = "record" /\ UNCHANGED <<file, editor, original, staged, pending, plan, edits, trouble, fails>>
      /\ journal' = [journal EXCEPT ![c].after = plan, ![c].changed = TRUE] /\ Uninstall(k)!NextLayer
    BY <1>a
<1>2. /\ c \in Uninstall(k)!Files /\ c \in DOMAIN journal /\ layer \in DOMAIN k.Layers
      /\ plan \in Old(edits) /\ c \notin k.Dirs /\ (plan = Absent <=> c \in k.Deleted)
      /\ plan # Absent => ~plan.listed /\ journal[c].data # plan
      /\ journal[c] \in Entry(edits) /\ journal \in [DOMAIN journal -> Entry(edits)]
    BY <1>1 DEF UninstallInv, UninstallTypes, Placed, Told, Forward, Uninstall!Files
<1>3. PICK e \in Entry(edits) : /\ e = [journal[c] EXCEPT !.after = plan, !.changed = TRUE]
                                /\ e.after = plan /\ e.changed = TRUE /\ e.data = journal[c].data
  <2>1. PICK z \in Entry(edits) : z = journal[c]
      BY <1>2
  <2> DEFINE y == [z EXCEPT !.after = plan, !.changed = TRUE]
  <2>2. y \in Entry(edits)
      BY <1>2, <2>1 DEF Entry
  <2>3. y.after = plan /\ y.changed = TRUE /\ y.data = z.data
      BY <2>1 DEF Entry
  <2> QED
      BY <2>1, <2>2, <2>3
<1>4. /\ journal' = [journal EXCEPT ![c] = e] /\ DOMAIN journal' = DOMAIN journal
      /\ journal' \in [DOMAIN journal -> Entry(edits)]
      /\ journal'[c] = e /\ \A f \in DOMAIN journal : f # c => journal'[f] = journal[f]
    BY <1>1, <1>2, <1>3
<1>5. pc' \in {"clean", "capture", "stage"} /\ (layer = Len(k.Layers) => todo' = staged')
    BY <1>1 DEF Uninstall!NextLayer
<1>6. IsGone(c) /\ (plan # Absent /\ editor[c] = "other" => file[c] # plan)
    BY <1>1, <1>2 DEF UninstallInv, Told, IsGone
<1>7. plan = Absent => layer = Len(k.Layers)
    BY <1>2 DEF UninstallBounds
<1>8. ASSUME NEW f \in DOMAIN journal
      PROVE  /\ journal'[f].changed /\ journal'[f].after = Absent => layer = Len(k.Layers)
             /\ Told(k, f)'
  <2>1. CASE f = c
    <3>1. /\ journal'[f].changed /\ journal'[f].after = plan /\ journal'[f].data = journal[c].data
          /\ pc' # "record" /\ file'[f] = file[c] /\ editor'[f] = editor[c]
        BY <1>1, <1>3, <1>4, <1>5, <2>1
    <3> QED
        BY <1>2, <1>6, <1>7, <3>1 DEF Told
  <2>2. CASE f # c
      BY <1>1, <1>4, <1>5, <2>2 DEF UninstallInv, Told, Settled, Forward, Placed
  <2> QED
      BY <2>1, <2>2
<1>9. original' \subseteq k.Dirs /\ staged' \subseteq k.Dirs
    BY <1>1 DEF UninstallInv, UninstallTypes
<1> QED
    BY <1>1, <1>4, <1>5, <1>6, <1>8, <1>9, FailCounts, GoesOn DEF Forward

LEMMA StageKeeps ==
    ASSUME NEW k, UninstallBounds(k), UninstallInv(k), Uninstall(k)!Stage
    PROVE  UninstallInv(k)'
<1> DEFINE c == k.Layers[layer]
<1>0. c = Uninstall(k)!Current
    BY DEF Uninstall!Current
<1>1. /\ pc = "stage" /\ UNCHANGED <<file, editor, pending, journal, plan, edits, trouble>>
    BY DEF Uninstall!Stage, Uninstall!rest
<1>2. /\ c \in k.Dirs /\ layer \in DOMAIN k.Layers /\ original \subseteq k.Dirs /\ staged \subseteq k.Dirs
      /\ journal \in [DOMAIN journal -> Entry(edits)]
      /\ layer \in 1 .. Len(k.Layers) /\ Len(k.Layers) \in Nat
    BY <1>1 DEF UninstallInv, UninstallTypes, Placed, UninstallBounds
<1>3. ASSUME Uninstall(k)!NextLayer, original' \subseteq k.Dirs, staged' \subseteq k.Dirs, UNCHANGED fails,
             layer = Len(k.Layers) => todo' = staged'
      PROVE  UninstallInv(k)'
  <2>1. ASSUME NEW f \in DOMAIN journal
        PROVE  /\ journal'[f].changed /\ journal'[f].after = Absent => layer = Len(k.Layers)
               /\ Told(k, f)'
    <3>1. pc' \in {"clean", "capture", "stage"}
        BY <1>3 DEF Uninstall!NextLayer
    <3> QED
        BY <1>1, <3>1 DEF UninstallInv, Placed, Told, Settled, Forward
  <2> QED
      BY <1>1, <1>2, <1>3, <2>1, FailCounts, GoesOn
<1>4. CASE c \notin original /\ Uninstall(k)!NextLayer /\ UNCHANGED <<original, staged, fails>>
  <2>1. layer = Len(k.Layers) => todo' = staged'
      BY <1>4 DEF Uninstall!NextLayer
  <2> QED
      BY <1>2, <1>3, <1>4, <2>1
<1>5. CASE /\ original' = original \ {c} /\ staged' = staged \cup {c} /\ UNCHANGED fails
           /\ IF layer = Len(k.Layers)
              THEN pc' = "clean" /\ todo' = staged' /\ UNCHANGED layer
              ELSE layer' = layer + 1 /\ pc' = "stage" /\ UNCHANGED todo
  <2>1. \/ layer = Len(k.Layers) /\ pc' = "clean" /\ layer' = layer /\ todo' = staged'
        \/ /\ layer < Len(k.Layers) /\ layer' = layer + 1 /\ pc' = "stage" /\ todo' = todo
           /\ k.Layers[layer + 1] \in k.Dirs
      BY <1>2, <1>5 DEF UninstallBounds
  <2>2. original' \subseteq k.Dirs /\ staged' \subseteq k.Dirs /\ (layer = Len(k.Layers) => todo' = staged')
      BY <1>2, <1>5
  <2>3. ~trouble /\ pending = {} /\ todo \subseteq Uninstall(k)!Files \cup k.Dirs
      BY <1>1 DEF UninstallInv, Staging
  <2>4. layer' \in DOMAIN k.Layers /\ pc' \in {"stage", "clean"}
      BY <1>2, <2>1 DEF UninstallBounds
  <2>5. UninstallTypes(k)'
      BY <1>1, <1>5, <2>2, <2>4 DEF UninstallInv, UninstallTypes
  <2>6. Placed(k)'
    <3>1. \A f \in DOMAIN journal : \E j \in 1 .. layer' : f = k.Layers[j]
        BY <1>2, <2>1 DEF UninstallInv, Placed
    <3>2. \A f \in DOMAIN journal : ~(journal[f].changed /\ journal[f].after = Absent)
        BY <1>1 DEF UninstallInv, Placed
    <3> QED
        BY <1>1, <2>1, <3>1, <3>2 DEF Placed, Forward
  <2>7. \A f \in DOMAIN journal' : Told(k, f)'
      BY <1>1, <2>4 DEF UninstallInv, Told, Settled
  <2>8. Gone(k)'
    <3> SUFFICES ASSUME NEW j \in DOMAIN k.Layers, pc' = "clean" \/ j < layer', k.Layers[j] \notin k.Dirs
                 PROVE  IsGone(k.Layers[j])'
        BY <2>4 DEF Gone, Forward
    <3>1. j < layer
        BY <1>2, <2>1 DEF UninstallBounds
    <3> QED
        BY <1>1, <3>1 DEF UninstallInv, Gone, IsGone
  <2>9. Staging(k)' /\ Restoring(k)' /\ Checked(k)'
      BY <1>1, <2>1, <2>2, <2>3 DEF Staging, Restoring, Checked, Forward
  <2> QED
      BY <2>5, <2>6, <2>7, <2>8, <2>9 DEF UninstallInv
<1>6. CASE Uninstall(k)!Fail /\ Uninstall(k)!Rollback /\ UNCHANGED <<original, staged>>
    BY <1>1, <1>6, FailCounts, TurnsBack
<1> QED
    BY <1>0, <1>4, <1>5, <1>6 DEF Uninstall!Stage

LEMMA CleanKeeps ==
    ASSUME NEW k, UninstallBounds(k), UninstallInv(k), Uninstall(k)!Clean
    PROVE  UninstallInv(k)'
<1>1. /\ pc = "clean" /\ UNCHANGED <<file, editor, original, journal, layer, plan, edits, trouble>>
      /\ pc' \in {"clean", "done"}
    BY DEF Uninstall!Clean, Uninstall!rest
<1>2. staged = pending \cup todo /\ pending \cap todo = {} /\ staged \subseteq k.Dirs
    BY <1>1 DEF UninstallInv, Staging, UninstallTypes
<1>3. \/ todo = {} /\ pc' = "done" /\ UNCHANGED <<staged, pending, todo, fails>>
      \/ pc' = "clean" /\ \E d \in todo :
           /\ todo' = todo \ {d}
           /\ \/ staged' = staged \ {d} /\ UNCHANGED <<pending, fails>>
              \/ Uninstall(k)!Fail /\ pending' = pending \cup {d} /\ UNCHANGED staged
    BY <1>1 DEF Uninstall!Clean
<1>4. Staging(k)'
    BY <1>2, <1>3 DEF UninstallInv, Staging, Forward
<1>5. UninstallTypes(k)'
  <2>1. fails' \in 0 .. k.MaxFails
      BY <1>3, FailCounts
  <2>2. staged' \subseteq k.Dirs
      BY <1>2, <1>3
  <2> QED
      BY <1>1, <2>1, <2>2 DEF UninstallInv, UninstallTypes
<1>6. Placed(k)'
    BY <1>1 DEF UninstallInv, Placed, Forward
<1>7. \A f \in DOMAIN journal' : Told(k, f)'
    BY <1>1 DEF UninstallInv, Told, Settled, Forward
<1>8. Gone(k)'
    BY <1>1 DEF UninstallInv, Gone, IsGone
<1>9. Restoring(k)' /\ Checked(k)'
    BY <1>1 DEF Restoring, Checked
<1> QED
    BY <1>4, <1>5, <1>6, <1>7, <1>8, <1>9 DEF UninstallInv

LEMMA UnstageKeeps ==
    ASSUME NEW k, UninstallBounds(k), UninstallInv(k), Uninstall(k)!Unstage
    PROVE  UninstallInv(k)'
<1>1. /\ pc = "unstage" /\ UNCHANGED <<file, editor, pending, journal, layer, plan, edits>>
      /\ pc' \in {"unstage", "restore"}
    BY DEF Uninstall!Unstage
<1>2. /\ todo \subseteq staged /\ (~trouble => staged \subseteq todo) /\ staged \subseteq k.Dirs /\ original \subseteq k.Dirs
      /\ pending = {} /\ trouble \in BOOLEAN
    BY <1>1 DEF UninstallInv, Staging, UninstallTypes
<1>3. \/ /\ todo = {} /\ pc' = "restore" /\ todo' = {f \in DOMAIN journal : journal[f].changed}
         /\ UNCHANGED <<original, staged, trouble, fails>>
      \/ pc' = "unstage" /\ \E d \in todo :
           /\ todo' = todo \ {d}
           /\ \/ original' = original \cup {d} /\ staged' = staged \ {d} /\ UNCHANGED <<trouble, fails>>
              \/ /\ fails' = fails \/ (fails < k.MaxFails /\ fails' = fails + 1)
                 /\ trouble' = TRUE /\ UNCHANGED <<original, staged>>
    BY <1>1, Zenon DEF Uninstall!Unstage, Uninstall!ToRestore
<1>4. original' \subseteq k.Dirs /\ staged' \subseteq k.Dirs /\ trouble' \in BOOLEAN /\ fails' \in 0 .. k.MaxFails
  <2>1. fails' \in 0 .. k.MaxFails
      BY <1>3, FailCounts
  <2>2. original' \subseteq k.Dirs /\ staged' \subseteq k.Dirs
      BY <1>2, <1>3
  <2>3. trouble' \in BOOLEAN
      BY <1>2, <1>3, Zenon
  <2> QED
      BY <2>1, <2>2, <2>3
<1>5. UninstallTypes(k)'
    BY <1>1, <1>4 DEF UninstallInv, UninstallTypes, Backward
<1>6. Placed(k)' /\ Gone(k)'
    BY <1>1 DEF UninstallInv, Placed, Gone, Forward
<1>7. \A f \in DOMAIN journal' : Told(k, f)'
    BY <1>1 DEF UninstallInv, Told, Settled, Forward
<1>8. Staging(k)' /\ Checked(k)'
  <2>0. DOMAIN journal \subseteq Uninstall(k)!Files /\ todo \subseteq Uninstall(k)!Files \cup k.Dirs
      BY DEF UninstallInv, UninstallTypes, Staging
  <2>1. CASE pc' = "restore"
    <3>1. todo = {} /\ todo' = {f \in DOMAIN journal : journal[f].changed} /\ UNCHANGED <<staged, trouble>>
        BY <1>3, <2>1
    <3> QED
        BY <1>1, <1>2, <2>0, <2>1, <3>1 DEF Staging, Checked, Forward
  <2>2. CASE pc' = "unstage"
    <3>1. todo' \subseteq todo /\ todo' \subseteq staged' /\ (~trouble' => staged' \subseteq todo')
        BY <1>2, <1>3, <2>2
    <3> QED
        BY <1>1, <1>2, <2>0, <2>2, <3>1 DEF Staging, Checked, Forward
  <2> QED
      BY <1>1, <2>1, <2>2
<1>9. Restoring(k)'
  <2>1. CASE pc' = "restore"
    <3>1. todo = {} /\ todo' = {f \in DOMAIN journal : journal[f].changed}
        BY <1>3, <2>1
    <3> QED
        BY <1>1, <2>1, <3>1 DEF Restoring
  <2> QED
      BY <1>1, <2>1 DEF Restoring
<1> QED
    BY <1>5, <1>6, <1>7, <1>8, <1>9 DEF UninstallInv

LEMMA RestoreKeeps ==
    ASSUME NEW k, UninstallBounds(k), UninstallInv(k), Uninstall(k)!Restore
    PROVE  UninstallInv(k)'
<1>1. /\ pc = "restore" /\ UNCHANGED <<file, editor, original, staged, pending, journal, layer, edits, fails>>
    BY DEF Uninstall!Restore, Uninstall!disk
<1>2. /\ \A f \in todo : f \in DOMAIN journal /\ journal[f].changed
      /\ ~trouble => staged = {} /\ \A f \in DOMAIN journal :
           journal[f].changed /\ f \notin todo => file[f] = journal[f].data \/ editor[f] = "other"
      /\ pending = {} /\ trouble \in BOOLEAN /\ todo \subseteq Uninstall(k)!Files \cup k.Dirs
    BY <1>1 DEF UninstallInv, Staging, UninstallTypes, Restoring
<1>3. \/ /\ todo = {} /\ pc' = (IF trouble THEN "manual" ELSE "rolledback") /\ UNCHANGED <<todo, plan, trouble>>
      \/ \E f \in todo : /\ todo' = todo \ {f} /\ file[f] = journal[f].after
                         /\ pc' = "rewrite" /\ plan' = [path |-> f] /\ UNCHANGED trouble
      \/ pc' = pc /\ trouble' = TRUE /\ todo' \subseteq todo /\ UNCHANGED plan
    BY <1>1 DEF Uninstall!Restore, Uninstall!Restorable
<1>4. CASE /\ todo = {} /\ pc' = (IF trouble THEN "manual" ELSE "rolledback") /\ UNCHANGED <<todo, plan, trouble>>
  <2>1. pc' \in {"manual", "rolledback"} /\ (pc' = "rolledback" => ~trouble)
      BY <1>4
  <2>2. UninstallTypes(k)'
      BY <1>1, <1>4, <2>1 DEF UninstallInv, UninstallTypes, Backward
  <2>3. Placed(k)' /\ Gone(k)'
      BY <1>1, <2>1 DEF UninstallInv, Placed, Gone, Forward
  <2>4. \A f \in DOMAIN journal' : Told(k, f)'
      BY <1>1, <2>1 DEF UninstallInv, Told, Settled, Forward
  <2>5. Staging(k)' /\ Restoring(k)' /\ Checked(k)'
      BY <1>1, <1>2, <1>4, <2>1 DEF Staging, Restoring, Checked, Forward
  <2> QED
      BY <2>2, <2>3, <2>4, <2>5 DEF UninstallInv
<1>5. ASSUME NEW f \in todo, todo' = todo \ {f}, file[f] = journal[f].after,
             pc' = "rewrite", plan' = [path |-> f], UNCHANGED trouble
      PROVE  UninstallInv(k)'
  <2>1. plan'.path = f /\ f \in DOMAIN journal /\ journal[f].changed
      BY <1>2, <1>5
  <2>2. UninstallTypes(k)'
      BY <1>1, <1>5 DEF UninstallInv, UninstallTypes, Backward
  <2>3. Placed(k)' /\ Gone(k)'
      BY <1>1, <1>5, <2>1 DEF UninstallInv, Placed, Gone, Forward
  <2>4. \A g \in DOMAIN journal' : Told(k, g)'
      BY <1>1, <1>5 DEF UninstallInv, Told, Settled, Forward
  <2>5. Staging(k)' /\ Restoring(k)' /\ Checked(k)'
      BY <1>1, <1>2, <1>5, <2>1 DEF Staging, Restoring, Checked, Forward
  <2> QED
      BY <2>2, <2>3, <2>4, <2>5 DEF UninstallInv
<1>6. CASE pc' = pc /\ trouble' = TRUE /\ todo' \subseteq todo /\ UNCHANGED plan
  <2>2. UninstallTypes(k)'
      BY <1>1, <1>6 DEF UninstallInv, UninstallTypes
  <2>3. Placed(k)' /\ Gone(k)'
      BY <1>1, <1>6 DEF UninstallInv, Placed, Gone, Forward
  <2>4. \A g \in DOMAIN journal' : Told(k, g)'
      BY <1>1, <1>6 DEF UninstallInv, Told, Settled, Forward
  <2>5. Staging(k)' /\ Restoring(k)' /\ Checked(k)'
      BY <1>1, <1>2, <1>6 DEF Staging, Restoring, Checked, Forward
  <2> QED
      BY <2>2, <2>3, <2>4, <2>5 DEF UninstallInv
<1> QED
    BY <1>3, <1>4, <1>5, <1>6

LEMMA RewriteKeeps ==
    ASSUME NEW k, UninstallBounds(k), UninstallInv(k), Uninstall(k)!Rewrite
    PROVE  UninstallInv(k)'
<1> DEFINE c == plan.path
<1>1. /\ pc = "rewrite" /\ pc' = "restore"
      /\ UNCHANGED <<original, staged, pending, journal, layer, plan, todo, edits>>
    BY DEF Uninstall!Rewrite
<1>2. \/ /\ file' = [file EXCEPT ![c] = journal[c].data]
         /\ editor' = [editor EXCEPT ![c] = IF file[c] = journal[c].data THEN @ ELSE "us"]
         /\ UNCHANGED <<trouble, fails>> \/ (Uninstall(k)!Fail /\ trouble' = TRUE)
      \/ Uninstall(k)!Fail /\ trouble' = TRUE /\ UNCHANGED <<file, editor>>
    BY DEF Uninstall!Rewrite, Uninstall!Before
<1>3. /\ c \in DOMAIN journal /\ journal[c].changed
      /\ journal[c] \in Entry(edits) /\ journal[c].after # Absent /\ journal[c].data # journal[c].after
      /\ DOMAIN journal \subseteq Uninstall(k)!Files /\ c \in Uninstall(k)!Files
    BY <1>1 DEF UninstallInv, UninstallTypes, Placed, Told
<1>4. /\ \A f \in todo : f \in DOMAIN journal /\ journal[f].changed
      /\ ~trouble => staged = {} /\ \A f \in DOMAIN journal :
           journal[f].changed /\ f \notin todo /\ f # c => file[f] = journal[f].data \/ editor[f] = "other"
      /\ pending = {} /\ todo \subseteq Uninstall(k)!Files \cup k.Dirs
    BY <1>1 DEF UninstallInv, Staging, UninstallTypes, Restoring
<1> HIDE DEF c
<1>5. CASE /\ file' = [file EXCEPT ![c] = journal[c].data]
           /\ editor' = [editor EXCEPT ![c] = IF file[c] = journal[c].data THEN @ ELSE "us"]
           /\ UNCHANGED <<trouble, fails>> \/ (Uninstall(k)!Fail /\ trouble' = TRUE)
  <2>0. trouble' \in BOOLEAN /\ fails' \in 0 .. k.MaxFails /\ (trouble' = FALSE => trouble = FALSE)
    <3>1. trouble \in BOOLEAN
        BY DEF UninstallInv, UninstallTypes
    <3>2. trouble' \in BOOLEAN /\ (trouble' = FALSE => trouble = FALSE)
        BY <1>5, <3>1, Zenon
    <3>3. fails' \in 0 .. k.MaxFails
        BY <1>5, FailCounts
    <3> QED
        BY <3>2, <3>3
  <2>1. /\ file' \in [Uninstall(k)!Files -> Old(edits)] /\ file'[c] = journal[c].data
        /\ editor' \in [Uninstall(k)!Files -> {"nobody", "us", "other"}]
        /\ \A f \in Uninstall(k)!Files \ {c} : file'[f] = file[f] /\ editor'[f] = editor[f]
      BY <1>3, <1>5 DEF UninstallInv, UninstallTypes, Entry
  <2>2. UninstallTypes(k)'
      BY <1>1, <2>0, <2>1 DEF UninstallInv, UninstallTypes, Backward
  <2>3. Placed(k)' /\ Gone(k)'
      BY <1>1 DEF UninstallInv, Placed, Gone, Forward
  <2>4. ASSUME NEW f \in DOMAIN journal' PROVE Told(k, f)'
    <3>1. f \in DOMAIN journal /\ f \in Uninstall(k)!Files
        BY <1>1, <1>3
    <3>2. CASE f = c
        BY <1>1, <1>3, <2>1, <3>2 DEF UninstallInv, Told
    <3>3. CASE f # c
        BY <1>1, <2>1, <3>1, <3>3 DEF UninstallInv, Told, Settled, Forward
    <3> QED
        BY <3>2, <3>3
  <2>5. Staging(k)' /\ Checked(k)'
      BY <1>1, <1>4, <2>0 DEF Staging, Checked, Forward
  <2>6. Restoring(k)'
      BY <1>1, <1>3, <1>4, <2>0, <2>1 DEF Restoring
  <2> QED
      BY <2>2, <2>3, <2>4, <2>5, <2>6 DEF UninstallInv
<1>6. CASE Uninstall(k)!Fail /\ trouble' = TRUE /\ UNCHANGED <<file, editor>>
  <2>2. UninstallTypes(k)'
      BY <1>1, <1>6, FailCounts DEF UninstallInv, UninstallTypes, Backward
  <2>3. Placed(k)' /\ Gone(k)'
      BY <1>1 DEF UninstallInv, Placed, Gone, Forward
  <2>4. \A g \in DOMAIN journal' : Told(k, g)'
      BY <1>1, <1>6 DEF UninstallInv, Told, Settled, Forward
  <2>5. Staging(k)' /\ Restoring(k)' /\ Checked(k)'
      BY <1>1, <1>4, <1>6 DEF Staging, Restoring, Checked, Forward
  <2> QED
      BY <2>2, <2>3, <2>4, <2>5 DEF UninstallInv
<1> QED
    BY <1>2, <1>5, <1>6

LEMMA OldGrows == ASSUME NEW n \in Nat PROVE Old(n) \subseteq Old(n + 1) /\ Entry(n) \subseteq Entry(n + 1)
<1>1. Old(n) \subseteq Old(n + 1)
    BY DEF Old
<1> QED
    BY <1>1 DEF Entry

(* An edit is new to the journal, unless the file is gone with it.         *)
LEMMA EditSays ==
    ASSUME NEW k, UninstallBounds(k), UninstallInv(k), NEW f \in Uninstall(k)!Files, NEW c,
           c = Absent \/ \E l \in BOOLEAN : c = [listed |-> l, rev |-> edits + 1]
    PROVE  /\ c \in Old(edits + 1) /\ (c # Absent => c \notin Old(edits))
           /\ Uninstall(k)!Editor(f, c) \in {"nobody", "us", "other"}
           /\ f \in DOMAIN journal /\ ~journal[f].changed =>
                (c = journal[f].data <=> Uninstall(k)!Editor(f, c) # "other")
           /\ f \in DOMAIN journal /\ journal[f].changed /\ c # journal[f].after => Uninstall(k)!Editor(f, c) = "other"
           /\ c = Absent \/ Uninstall(k)!Editor(f, c) = "other"
<1>1. edits \in Nat /\ \A g \in DOMAIN journal : journal[g] \in Entry(edits)
    BY DEF UninstallInv, UninstallTypes
<1>2. c \in Old(edits + 1) /\ (c # Absent => c \notin Old(edits))
  <2>1. CASE c = Absent
      BY <2>1 DEF Old
  <2>2. ASSUME NEW l \in BOOLEAN, c = [listed |-> l, rev |-> edits + 1]
        PROVE  c \in Old(edits + 1) /\ c \notin Old(edits)
    <3>1. c \in [listed : BOOLEAN, rev : Nat] /\ c \in [listed : BOOLEAN, rev : 0 .. edits + 1]
          /\ c \notin [listed : BOOLEAN, rev : 0 .. edits]
        BY <1>1, <2>2
    <3> QED
        BY <3>1 DEF Old, UninstallBounds
  <2> QED
      BY <2>1, <2>2
<1>3. f \in DOMAIN journal => journal[f].data \in Old(edits) /\ journal[f].after \in Old(edits)
    BY <1>1 DEF Entry
<1> DEFINE kept == f \in DOMAIN journal /\ ~journal[f].changed /\ c = journal[f].data
           ours == f \in DOMAIN journal /\ journal[f].changed /\ c = journal[f].after
<1>4. Uninstall(k)!Editor(f, c) = CASE kept -> "nobody" [] ours -> "us" [] OTHER -> "other"
    BY DEF Uninstall!Editor, Uninstall!Before
<1>5. ~(kept /\ ours)
    OBVIOUS
<1>6. /\ kept => Uninstall(k)!Editor(f, c) = "nobody"
      /\ ours => Uninstall(k)!Editor(f, c) = "us"
      /\ ~kept /\ ~ours => Uninstall(k)!Editor(f, c) = "other"
  <2> HIDE DEF kept, ours
  <2> QED
      BY <1>4, <1>5
<1>7. c # Absent => ~kept /\ ~ours
    BY <1>2, <1>3
<1> QED
    BY <1>2, <1>6, <1>7

LEMMA EditKeeps ==
    ASSUME NEW k, UninstallBounds(k), UninstallInv(k), NEW f \in Uninstall(k)!Files, Uninstall(k)!Edit(f)
    PROVE  UninstallInv(k)'
<1> DEFINE c == file'[f]
           cur == k.Layers[layer]
<1>1. /\ UNCHANGED <<original, staged, pending, journal, pc, layer, plan, todo, trouble, fails>>
      /\ edits' = edits + 1 /\ edits < k.MaxEdits /\ pc \notin {"done", "refused", "rolledback", "manual"}
      /\ editor' = [editor EXCEPT ![f] = Uninstall(k)!Editor(f, c)]
      /\ ~k.RacyEdits => ~(pc = "replace" /\ f = cur) /\ ~(pc = "rewrite" /\ f = plan.path)
    BY DEF Uninstall!Edit, Uninstall!InWindow, Uninstall!Current, Uninstall!Ended
<1>2. /\ file \in [Uninstall(k)!Files -> Old(edits)] /\ edits \in Nat /\ k.MaxEdits \in Nat
      /\ editor \in [Uninstall(k)!Files -> {"nobody", "us", "other"}]
      /\ journal \in [DOMAIN journal -> Entry(edits)] /\ DOMAIN journal \subseteq Uninstall(k)!Files
    BY DEF UninstallInv, UninstallTypes, UninstallBounds
<1>3. /\ c = Absent \/ \E l \in BOOLEAN : c = [listed |-> l, rev |-> edits + 1]
      /\ file' = [file EXCEPT ![f] = c]
    BY <1>2 DEF Uninstall!Edit
<1> HIDE DEF c
<1>4. /\ c \in Old(edits + 1) /\ (c # Absent => c \notin Old(edits))
      /\ Uninstall(k)!Editor(f, c) \in {"nobody", "us", "other"}
      /\ f \in DOMAIN journal /\ ~journal[f].changed => (c = journal[f].data <=> Uninstall(k)!Editor(f, c) # "other")
      /\ f \in DOMAIN journal /\ journal[f].changed /\ c # journal[f].after => Uninstall(k)!Editor(f, c) = "other"
      /\ c = Absent \/ Uninstall(k)!Editor(f, c) = "other"
    BY <1>3, EditSays
<1>5. /\ file'[f] = c /\ editor'[f] = Uninstall(k)!Editor(f, c)
      /\ \A g \in Uninstall(k)!Files \ {f} : file'[g] = file[g] /\ editor'[g] = editor[g]
    BY <1>1, <1>2, <1>3
<1>6. Old(edits) \subseteq Old(edits') /\ Entry(edits) \subseteq Entry(edits')
    BY <1>1, <1>2, OldGrows
<1>7. UninstallTypes(k)'
  <2>1. file' \in [Uninstall(k)!Files -> Old(edits')]
      BY <1>1, <1>2, <1>3, <1>4, <1>6
  <2>2. editor' \in [Uninstall(k)!Files -> {"nobody", "us", "other"}]
      BY <1>1, <1>2, <1>4
  <2>3. journal' \in [DOMAIN journal' -> Entry(edits')]
      BY <1>1, <1>2, <1>6
  <2>4. edits' \in 0 .. k.MaxEdits
      BY <1>1, <1>2
  <2> QED
      BY <1>1, <2>1, <2>2, <2>3, <2>4 DEF UninstallInv, UninstallTypes
<1>8. Placed(k)' /\ Checked(k)'
  <2>1. /\ pc \in {"verify", "replace"} => cur \in Uninstall(k)!Files
        /\ pc = "rewrite" => plan.path \in Uninstall(k)!Files
      BY <1>2 DEF UninstallInv, Placed, Forward
  <2>2. pc \in {"verify", "replace", "record"} => plan \in Old(edits) /\ plan' \in Old(edits')
      BY <1>1, <1>6 DEF UninstallInv, Placed
  <2>3. pc \in {"verify", "replace"} /\ plan # Absent => file'[cur] # plan
    <3>1. CASE cur = f
        BY <1>4, <1>5, <2>2, <3>1
    <3>2. CASE cur # f
        BY <1>5, <2>1, <3>2 DEF UninstallInv, Placed
    <3> QED
        BY <3>1, <3>2
  <2>4. Placed(k)'
      BY <1>1, <2>2, <2>3 DEF UninstallInv, Placed
  <2>5. ASSUME ~k.RacyEdits
        PROVE  /\ pc = "replace" => file'[cur] = file[cur]
               /\ pc = "rewrite" => file'[plan.path] = file[plan.path]
      BY <1>1, <1>5, <2>1, <2>5
  <2>6. Checked(k)'
      BY <1>1, <2>5 DEF UninstallInv, Checked
  <2> QED
      BY <2>4, <2>6
<1>9. ASSUME NEW g \in DOMAIN journal' PROVE Told(k, g)'
  <2>1. g \in DOMAIN journal /\ g \in Uninstall(k)!Files /\ journal[g] \in Entry(edits) /\ journal' = journal
      BY <1>1, <1>2
  <2>2. CASE g # f
      BY <1>1, <1>5, <2>1, <2>2 DEF UninstallInv, Told, Settled
  <2>3. CASE g = f
    <3>1. journal[f].data \in Old(edits) /\ journal[f].after \in Old(edits)
        BY <2>1, <2>3 DEF Entry
    <3>2. CASE pc = "record" /\ f = cur
      <4>1. ~journal[f].changed /\ plan \in Old(edits)
          BY <3>2 DEF UninstallInv, Placed, Forward
      <4> QED
          BY <1>1, <1>4, <1>5, <2>1, <2>3, <3>1, <3>2, <4>1 DEF Told
    <3>3. CASE ~(pc = "record" /\ f = cur)
      <4>1. journal[f].changed =>
              (journal[f].after # Absent => ~journal[f].after.listed /\ journal[f].data # journal[f].after)
          BY <2>1, <2>3, <3>3 DEF UninstallInv, Told
      <4> QED
          BY <1>1, <1>4, <1>5, <2>1, <2>3, <3>1, <3>3, <4>1 DEF Told
    <3> QED
        BY <3>2, <3>3
  <2> QED
      BY <2>2, <2>3
<1>10. Gone(k)'
  <2> SUFFICES ASSUME NEW j \in DOMAIN k.Layers, IsGone(k.Layers[j]), k.Layers[j] \notin k.Dirs
               PROVE  IsGone(k.Layers[j])'
      BY <1>1 DEF UninstallInv, Gone
  <2>1. k.Layers[j] \in Uninstall(k)!Files
      BY DEF Uninstall!Files
  <2> QED
      BY <1>4, <1>5, <2>1 DEF IsGone
<1>11. Staging(k)'
    BY <1>1 DEF UninstallInv, Staging
<1>12. Restoring(k)'
  <2>1. ASSUME pc \in {"restore", "rewrite"}, ~trouble, NEW g \in DOMAIN journal, journal[g].changed, g \notin todo,
               ~(pc = "rewrite" /\ g = plan.path)
        PROVE  file'[g] = journal[g].data \/ editor'[g] = "other"
    <3>1. (file[g] = journal[g].data \/ editor[g] = "other") /\ g \in Uninstall(k)!Files
        BY <1>2, <2>1 DEF UninstallInv, Restoring
    <3>2. journal[g].after # Absent /\ journal[g].after \in Old(edits)
        BY <1>2, <2>1 DEF UninstallInv, Placed, Entry
    <3> QED
        BY <1>4, <1>5, <2>1, <3>1, <3>2
  <2> QED
      BY <1>1, <2>1 DEF UninstallInv, Restoring
<1> QED
    BY <1>7, <1>8, <1>9, <1>10, <1>11, <1>12 DEF UninstallInv

LEMMA MakeDirKeeps ==
    ASSUME NEW k, UninstallBounds(k), UninstallInv(k), NEW d \in k.Dirs, Uninstall(k)!MakeDir(d)
    PROVE  UninstallInv(k)'
<1>1. /\ UNCHANGED <<file, editor, staged, pending, journal, pc, layer, plan, todo, trouble, fails>>
      /\ edits' = edits + 1 /\ edits < k.MaxEdits /\ original' = original \cup {d}
    BY DEF Uninstall!MakeDir
<1>2. /\ file \in [Uninstall(k)!Files -> Old(edits)] /\ edits \in Nat /\ k.MaxEdits \in Nat
      /\ journal \in [DOMAIN journal -> Entry(edits)] /\ original \subseteq k.Dirs
    BY DEF UninstallInv, UninstallTypes, UninstallBounds
<1>3. Old(edits) \subseteq Old(edits') /\ Entry(edits) \subseteq Entry(edits')
    BY <1>1, <1>2, OldGrows
<1>4. UninstallTypes(k)'
  <2>1. file' \in [Uninstall(k)!Files -> Old(edits')] /\ journal' \in [DOMAIN journal' -> Entry(edits')]
      BY <1>1, <1>2, <1>3
  <2>2. edits' \in 0 .. k.MaxEdits /\ original' \subseteq k.Dirs
      BY <1>1, <1>2
  <2> QED
      BY <1>1, <2>1, <2>2 DEF UninstallInv, UninstallTypes
<1>5. Placed(k)'
  <2>1. pc \in {"verify", "replace", "record"} => plan' \in Old(edits')
      BY <1>1, <1>3 DEF UninstallInv, Placed
  <2> QED
      BY <1>1, <2>1 DEF UninstallInv, Placed
<1>6. \A g \in DOMAIN journal' : Told(k, g)'
    BY <1>1 DEF UninstallInv, Told, Settled
<1>7. Gone(k)' /\ Staging(k)' /\ Restoring(k)' /\ Checked(k)'
    BY <1>1 DEF UninstallInv, Gone, IsGone, Staging, Restoring, Checked
<1> QED
    BY <1>4, <1>5, <1>6, <1>7 DEF UninstallInv

LEMMA UninstallStep ==
    ASSUME NEW k, UninstallBounds(k), UninstallInv(k), [Uninstall(k)!Next]_(Uninstall(k)!vars)
    PROVE  UninstallInv(k)'
<1>1. CASE UNCHANGED Uninstall(k)!vars
    BY <1>1 DEF Uninstall!vars, UninstallInv, UninstallTypes, Placed, Checked, Told, Settled, Gone, IsGone, Staging, Restoring
<1>2. CASE Uninstall(k)!Uninstall
    BY <1>2, CaptureKeeps, ReadKeeps, VerifyKeeps, ReplaceKeeps, RecordKeeps, StageKeeps, CleanKeeps, UnstageKeeps,
       RestoreKeeps, RewriteKeeps DEF Uninstall!Uninstall
<1> QED
    BY <1>1, <1>2, EditKeeps, MakeDirKeeps DEF Uninstall!Next

LEMMA UninstallInvHolds == ASSUME NEW k, UninstallBounds(k) PROVE Uninstall(k)!Spec => []UninstallInv(k)
<1>1. Uninstall(k)!Init => UninstallInv(k)
    BY UninstallStarts
<1>2. UninstallInv(k) /\ [Uninstall(k)!Next]_(Uninstall(k)!vars) => UninstallInv(k)'
    BY UninstallStep
<1> QED
    BY <1>1, <1>2, PTL DEF Uninstall!Spec

LEMMA UninstallTyped == ASSUME NEW k, UninstallBounds(k), UninstallInv(k) PROVE Uninstall(k)!TypeOK
<1>1. edits \in Nat /\ edits <= k.MaxEdits /\ k.MaxEdits \in Nat
    BY DEF UninstallInv, UninstallTypes, UninstallBounds
<1>2. Old(edits) \subseteq Uninstall(k)!Contents
    BY <1>1 DEF Old, Uninstall!Contents
<1>3. file \in [Uninstall(k)!Files -> Uninstall(k)!Contents]
    BY <1>2 DEF UninstallInv, UninstallTypes
<1>4. \A f \in DOMAIN journal : journal[f].data \in Uninstall(k)!Contents /\ journal[f].after \in Uninstall(k)!Contents
    BY <1>2 DEF UninstallInv, UninstallTypes, Entry
<1>5. pending \subseteq staged
    BY DEF UninstallInv, Staging
<1> QED
    BY <1>3, <1>4, <1>5 DEF UninstallInv, UninstallTypes, Staging, Uninstall!TypeOK

LEMMA UninstallRollsBack == ASSUME NEW k, UninstallInv(k), ~k.LateSyncFails PROVE Uninstall(k)!RollbackRestores
<1> SUFFICES ASSUME pc = "rolledback"
             PROVE  staged = {} /\ \A f \in DOMAIN journal : file[f] = journal[f].data \/ editor[f] = "other"
    BY DEF Uninstall!RollbackRestores, Uninstall!Before
<1>1. ~trouble /\ todo = {} /\ staged = {}
    BY DEF UninstallInv, Staging
<1> SUFFICES ASSUME NEW f \in DOMAIN journal PROVE file[f] = journal[f].data \/ editor[f] = "other"
    BY <1>1
<1>2. CASE journal[f].changed
    BY <1>1, <1>2 DEF UninstallInv, Restoring
<1>3. CASE ~journal[f].changed
    BY <1>1, <1>3 DEF UninstallInv, Told, Settled
<1> QED
    BY <1>2, <1>3

LEMMA UninstallEnds == ASSUME NEW k, UninstallInv(k) PROVE Uninstall(k)!DoneIsGone
    BY DEF UninstallInv, Gone, IsGone, Staging, Uninstall!DoneIsGone, Uninstall!Files

(* Only the two writes change a file, each of them one that is what the    *)
(* journal knows of it.                                                    *)
LEMMA EditsAreKept ==
    ASSUME NEW k, UninstallBounds(k), UninstallInv(k), [Uninstall(k)!Next]_(Uninstall(k)!vars), ~k.RacyEdits
    PROVE  Uninstall(k)!KeepsEdits
<1> SUFFICES ASSUME edits' = edits, NEW f \in Uninstall(k)!Files, editor[f] = "other" PROVE file'[f] = file[f]
    BY DEF Uninstall!KeepsEdits
<1>0. edits \in Nat /\ file \in [Uninstall(k)!Files -> Old(edits)]
    BY DEF UninstallInv, UninstallTypes
<1>1. CASE Uninstall(k)!Replace
  <2>1. file' = file \/ file' = [file EXCEPT ![k.Layers[layer]] = plan]
      BY <1>1 DEF Uninstall!Replace, Uninstall!Current
  <2>2. k.Layers[layer] # f
      BY <1>1 DEF Uninstall!Replace, UninstallInv, Placed, Checked, Told, Settled, Forward
  <2> QED
      BY <1>0, <2>1, <2>2
<1>2. CASE Uninstall(k)!Rewrite
  <2>1. file' = file \/ file' = [file EXCEPT ![plan.path] = Uninstall(k)!Before(journal, plan.path)]
      BY <1>2 DEF Uninstall!Rewrite
  <2>2. plan.path # f
      BY <1>2 DEF Uninstall!Rewrite, UninstallInv, Placed, Checked, Told
  <2> QED
      BY <1>0, <2>1, <2>2
<1>3. CASE \/ Uninstall(k)!CaptureFile \/ Uninstall(k)!ReadFile \/ Uninstall(k)!Verify \/ Uninstall(k)!Record
           \/ Uninstall(k)!Stage \/ Uninstall(k)!Clean \/ Uninstall(k)!Unstage \/ Uninstall(k)!Restore
    BY <1>3 DEF Uninstall!CaptureFile, Uninstall!ReadFile, Uninstall!Verify, Uninstall!Record, Uninstall!Stage,
                Uninstall!Clean, Uninstall!Unstage, Uninstall!Restore, Uninstall!disk
<1>4. \A g : ~Uninstall(k)!Edit(g) /\ ~Uninstall(k)!MakeDir(g)
    BY <1>0 DEF Uninstall!Edit, Uninstall!MakeDir
<1> QED
    BY <1>1, <1>2, <1>3, <1>4 DEF Uninstall!Next, Uninstall!Uninstall, Uninstall!vars

-----------------------------------------------------------------------------
(***************************************************************************)
(* TerminalJobs                                                            *)
(***************************************************************************)

(* However often, and whenever, an agent is asked for.                     *)
JobsBounds(k) == k.MaxAsked \in Nat

OneShots == {"restore", "uninstall", "register", "remove", "tools"}
JobNames == OneShots \cup {"upgrade", "both", "sync", "mark", "install", "agent"}
JobRecords == [job : JobNames, with : {Nothing, "models", "profile"}]
JobScreens ==
    OneShots \cup {"upgrade", "sync", "both", "config", "profiles", "delete", "save", "result", "wizard",
                   "installing", "describe", "generating", "preview", "added", "welcome", "prompt", "picker",
                   "tooling", "adding", "quit"}

(* The job in flight: there is one at most.                                *)
JobOf(w) == IF w = <<>> THEN "none" ELSE w[1].job

AgentRecords(N, P) ==
    [generating : BOOLEAN, failed : BOOLEAN, asked : N, flying : P, generated : N, adding : BOOLEAN]
Requests(k) == 0 .. k.MaxAsked
InFlight(k) == SUBSET (1 .. k.MaxAsked)
AgentTypes(k) == AgentRecords(Requests(k), InFlight(k))

JobsTypes(k) ==
    /\ screen \in JobScreens
    /\ busy \in BOOLEAN /\ running \in BOOLEAN /\ synced \in BOOLEAN /\ configuring \in BOOLEAN
    /\ work = <<>> \/ \E w \in JobRecords : work = <<w>>
    /\ check \in [flying : Nat, done : BOOLEAN, updates : BOOLEAN]
    /\ report \in {Nothing, "tools", "self"} /\ overrides \in {Nothing, "models", "profile"}
    /\ agent \in AgentTypes(k)
    /\ binary \in {"old", "new"} /\ marked \in BOOLEAN

(* The screen of a job, and what is set while it is in flight.             *)
Waits(job, on) ==
    /\ job = "upgrade" => on = "upgrade"
    /\ job \in {"both", "mark"} => on = "both"
    /\ job = "sync" => on \in {"sync", "both"}
    /\ job = "tools" => on = "tooling"
    /\ job \in OneShots \ {"tools"} => on = job
    /\ job = "install" => on = "installing"
    /\ job = "agent" => on = "adding"

Flight(job, on, b, r, a) ==
    /\ on = "quit" => job = "none"
    /\ on # "quit" => /\ Waits(job, on)
                      /\ b <=> job \notin {"none", "install", "agent"}
                      /\ r <=> job = "install"
                      /\ a <=> job = "agent"
    /\ on = "adding" => job = "agent"
    /\ on = "prompt" => job = "none"

Checking(job, on, c) ==
    /\ c.flying = IF c.done THEN 0 ELSE 1
    /\ job \in {"upgrade", "both"} => c.done
    /\ on = "prompt" => c.done

Asked(on, from, over, s, conf) ==
    /\ on = "sync" /\ ~s =>
         over = IF from = "picker" THEN "models" ELSE IF from = "save" THEN "profile" ELSE Nothing
    /\ on \notin {"sync", "quit"} => over = Nothing
    /\ conf => on \in {"picker", "quit"}

Resting(job, on, b, rep, bin, m) ==
    bin = "new" =>
        /\ job \in {"none", "mark"}
        /\ on \in {"upgrade", "both", "quit"}
        /\ on = "both" /\ ~b => m
        /\ on \in {"upgrade", "both"} => rep = "self"

Generating(on, a) ==
    /\ on \in {"preview", "adding"} => a.generated # 0
    /\ a.generating => on \in {"generating", "quit"}

JobsInv(k) ==
    /\ JobsTypes(k)
    /\ Flight(JobOf(work), screen, busy, running, agent.adding)
    /\ Checking(JobOf(work), screen, check)
    /\ Asked(screen, previous, overrides, synced, configuring)
    /\ Resting(JobOf(work), screen, busy, report, binary, marked)
    /\ Generating(screen, agent)

(* For a user who waits, what is in flight and what is shown is of the     *)
(* latest request.                                                         *)
Latest(a) == a.flying \subseteq {a.asked} /\ (a.generated # 0 => a.generated = a.asked)

-----------------------------------------------------------------------------
LEMMA JobShapes ==
    ASSUME work = <<>> \/ \E w \in JobRecords : work = <<w>>
    PROVE  /\ JobOf(work) \in JobNames \cup {"none"} /\ Len(work) <= 1
           /\ work = <<>> <=> JobOf(work) = "none"
           /\ \A i \in DOMAIN work : i = 1 /\ work[1] \in JobRecords /\ work[1].job = JobOf(work)
           /\ work \in Seq(JobRecords)
<1>1. CASE work = <<>>
    BY <1>1 DEF JobOf
<1>2. ASSUME NEW w \in JobRecords, work = <<w>>
      PROVE  /\ JobOf(work) = w.job /\ w.job \in JobNames /\ w.job # "none" /\ Len(work) = 1 /\ work # <<>>
             /\ work[1] = w /\ DOMAIN work = {1} /\ work \in Seq(JobRecords)
    BY <1>2 DEF JobOf, JobRecords, JobNames, OneShots
<1> QED
    BY <1>1, <1>2 DEF JobOf

LEMMA JobStarts ==
    ASSUME NEW k, work = <<>>, NEW w \in JobRecords, Jobs(k)!Start(w)
    PROVE  work' = <<w>> /\ JobOf(work') = w.job
<1>2. work' = Append(<<>>, w)
    BY DEF Jobs!Start
<1>3. work' = <<w>>
    BY <1>2
<1> QED
    BY <1>3 DEF JobOf

LEMMA JobEnds ==
    ASSUME NEW k, work = <<>> \/ \E w \in JobRecords : work = <<w>>, NEW i \in DOMAIN work
    PROVE  /\ Jobs(k)!Without(i) = <<>>
           /\ \A w \in JobRecords : [work EXCEPT ![i] = w] = <<w>> /\ JobOf(<<w>>) = w.job
<1>1. i = 1 /\ Len(work) = 1 /\ work \in Seq(JobRecords) /\ DOMAIN work = {1}
    BY JobShapes
<1>2. Jobs(k)!Without(i) = <<>>
  <2>1. SubSeq(work, 1, 0) = <<>> /\ SubSeq(work, 2, 1) = <<>>
      BY <1>1
  <2>2. Jobs(k)!Without(i) = SubSeq(work, 1, 0) \o SubSeq(work, 2, 1)
      BY <1>1 DEF Jobs!Without
  <2> QED
      BY <2>1, <2>2
<1>3. ASSUME NEW w \in JobRecords PROVE [work EXCEPT ![i] = w] = <<w>> /\ JobOf(<<w>>) = w.job
    BY <1>1 DEF JobOf
<1> QED
    BY <1>2, <1>3

LEMMA JobsStart == ASSUME NEW k, JobsBounds(k), Jobs(k)!Init PROVE JobsInv(k)
<1>1. /\ screen = "welcome" /\ work = <<>> /\ busy = FALSE /\ running = FALSE /\ configuring = FALSE
      /\ report = Nothing /\ overrides = Nothing /\ synced = FALSE /\ binary = "old" /\ marked = FALSE
      /\ check = [flying |-> 1, done |-> FALSE, updates |-> FALSE]
      /\ agent = [generating |-> FALSE, failed |-> FALSE, asked |-> 0, flying |-> {}, generated |-> 0, adding |-> FALSE]
    BY DEF Jobs!Init
<1>2. JobsTypes(k)
  <2>1. agent \in AgentTypes(k)
      BY <1>1 DEF JobsBounds, AgentTypes, AgentRecords, Requests, InFlight
  <2>2. check \in [flying : Nat, done : BOOLEAN, updates : BOOLEAN]
      BY <1>1
  <2>3. /\ busy \in BOOLEAN /\ running \in BOOLEAN /\ synced \in BOOLEAN /\ configuring \in BOOLEAN /\ marked \in BOOLEAN
      BY <1>1, Zenon
  <2> QED
      BY <1>1, <2>1, <2>2, <2>3 DEF JobsTypes, JobScreens
<1>3. JobOf(work) = "none"
    BY <1>1 DEF JobOf
<1> QED
    BY <1>1, <1>2, <1>3 DEF JobsInv, Flight, Waits, Checking, Asked, Resting, Generating, OneShots

(* The agent builder, with some of its fields set.                         *)
LEMMA AgentResets ==
    ASSUME NEW N, NEW P, agent \in AgentRecords(N, P),
           agent' = [agent EXCEPT !.generating = FALSE, !.failed = FALSE, !.generated = 0, !.adding = FALSE], 0 \in N
    PROVE  /\ agent' \in AgentRecords(N, P) /\ agent'.generating = FALSE /\ agent'.asked = agent.asked
           /\ agent'.flying = agent.flying /\ agent'.generated = 0 /\ agent'.adding = FALSE
<1>1. /\ agent'.generating = FALSE /\ agent'.asked = agent.asked /\ agent'.flying = agent.flying
      /\ agent'.generated = 0 /\ agent'.adding = FALSE /\ agent'.failed \in BOOLEAN
    BY DEF AgentRecords
<1>2. agent' \in AgentRecords(N, P)
    BY DEF AgentRecords
<1> QED
    BY <1>1, <1>2

LEMMA AgentBack ==
    ASSUME NEW N, NEW P, agent \in AgentRecords(N, P),
           agent' = [agent EXCEPT !.failed = FALSE, !.generating = FALSE]
    PROVE  /\ agent' \in AgentRecords(N, P) /\ agent'.generating = FALSE /\ agent'.asked = agent.asked
           /\ agent'.flying = agent.flying /\ agent'.generated = agent.generated /\ agent'.adding = agent.adding
<1>1. /\ agent'.generating = FALSE /\ agent'.asked = agent.asked /\ agent'.flying = agent.flying
      /\ agent'.generated = agent.generated /\ agent'.adding = agent.adding /\ agent'.failed \in BOOLEAN
    BY DEF AgentRecords
<1>2. agent' \in AgentRecords(N, P)
    BY DEF AgentRecords
<1> QED
    BY <1>1, <1>2

LEMMA AgentAdds ==
    ASSUME NEW N, NEW P, agent \in AgentRecords(N, P), NEW x \in BOOLEAN,
           agent' = [agent EXCEPT !.adding = x]
    PROVE  /\ agent' \in AgentRecords(N, P) /\ agent'.generating = agent.generating /\ agent'.asked = agent.asked
           /\ agent'.flying = agent.flying /\ agent'.generated = agent.generated /\ agent'.adding = x
<1>1. /\ agent'.generating = agent.generating /\ agent'.asked = agent.asked /\ agent'.flying = agent.flying
      /\ agent'.generated = agent.generated /\ agent'.adding = x /\ agent'.failed \in BOOLEAN
    BY DEF AgentRecords
<1>2. agent' \in AgentRecords(N, P)
    BY DEF AgentRecords
<1> QED
    BY <1>1, <1>2

LEMMA AgentAsks ==
    ASSUME NEW N, NEW P, agent \in AgentRecords(N, P), agent.asked + 1 \in N, agent.flying \cup {agent.asked + 1} \in P,
           agent' = [agent EXCEPT !.generating = TRUE, !.failed = FALSE, !.generated = 0, !.asked = @ + 1,
                      !.flying = @ \cup {agent.asked + 1}], 0 \in N
    PROVE  /\ agent' \in AgentRecords(N, P) /\ agent'.generating = TRUE /\ agent'.asked = agent.asked + 1
           /\ agent'.flying = agent.flying \cup {agent.asked + 1} /\ agent'.generated = 0 /\ agent'.adding = agent.adding
<1>1. /\ agent'.generating = TRUE /\ agent'.asked = agent.asked + 1 /\ agent'.flying = agent.flying \cup {agent.asked + 1}
      /\ agent'.generated = 0 /\ agent'.adding = agent.adding /\ agent'.failed \in BOOLEAN
    BY DEF AgentRecords
<1>2. agent' \in AgentRecords(N, P)
    BY DEF AgentRecords
<1> QED
    BY <1>1, <1>2

LEMMA AgentDrops ==
    ASSUME NEW N, NEW P, agent \in AgentRecords(N, P), NEW n, agent.flying \ {n} \in P,
           agent' = [agent EXCEPT !.flying = @ \ {n}]
    PROVE  /\ agent' \in AgentRecords(N, P) /\ agent'.generating = agent.generating /\ agent'.asked = agent.asked
           /\ agent'.flying = agent.flying \ {n} /\ agent'.generated = agent.generated /\ agent'.adding = agent.adding
<1>1. /\ agent'.generating = agent.generating /\ agent'.asked = agent.asked /\ agent'.flying = agent.flying \ {n}
      /\ agent'.generated = agent.generated /\ agent'.adding = agent.adding /\ agent'.failed \in BOOLEAN
    BY DEF AgentRecords
<1>2. agent' \in AgentRecords(N, P)
    BY DEF AgentRecords
<1> QED
    BY <1>1, <1>2

LEMMA AgentShows ==
    ASSUME NEW N, NEW P, agent \in AgentRecords(N, P), NEW n \in N, agent.flying \ {n} \in P,
           agent' = [agent EXCEPT !.flying = @ \ {n}, !.generating = FALSE, !.generated = n]
    PROVE  /\ agent' \in AgentRecords(N, P) /\ agent'.generating = FALSE /\ agent'.asked = agent.asked
           /\ agent'.flying = agent.flying \ {n} /\ agent'.generated = n /\ agent'.adding = agent.adding
<1>1. /\ agent'.generating = FALSE /\ agent'.asked = agent.asked /\ agent'.flying = agent.flying \ {n}
      /\ agent'.generated = n /\ agent'.adding = agent.adding /\ agent'.failed \in BOOLEAN
    BY DEF AgentRecords
<1>2. agent' \in AgentRecords(N, P)
    BY DEF AgentRecords
<1> QED
    BY <1>1, <1>2

LEMMA AgentFails ==
    ASSUME NEW N, NEW P, agent \in AgentRecords(N, P), NEW n, agent.flying \ {n} \in P,
           agent' = [agent EXCEPT !.flying = @ \ {n}, !.generating = FALSE, !.failed = TRUE]
    PROVE  /\ agent' \in AgentRecords(N, P) /\ agent'.generating = FALSE /\ agent'.asked = agent.asked
           /\ agent'.flying = agent.flying \ {n} /\ agent'.generated = agent.generated /\ agent'.adding = agent.adding
<1>1. /\ agent'.generating = FALSE /\ agent'.asked = agent.asked /\ agent'.flying = agent.flying \ {n}
      /\ agent'.generated = agent.generated /\ agent'.adding = agent.adding /\ agent'.failed \in BOOLEAN
    BY DEF AgentRecords
<1>2. agent' \in AgentRecords(N, P)
    BY DEF AgentRecords
<1> QED
    BY <1>1, <1>2


(* The screens on which no job is in flight.                               *)
Calm == {"config", "profiles", "delete", "save", "result", "wizard", "describe", "generating", "preview", "added",
         "welcome", "picker", "prompt"}

LEMMA Idle ==
    ASSUME NEW k, JobsInv(k),
           screen \in Calm \/ (screen \in OneShots \cup {"upgrade", "both", "sync"} /\ ~busy)
    PROVE  JobOf(work) = "none" /\ work = <<>> /\ ~busy /\ ~running /\ ~agent.adding
<1>1. JobOf(work) \in JobNames \cup {"none"} /\ (work = <<>> <=> JobOf(work) = "none")
    BY JobShapes DEF JobsInv, JobsTypes
<1>2. JobOf(work) = "none"
    BY <1>1 DEF JobsInv, Flight, Waits, JobNames, OneShots, Calm
<1>3. screen # "quit"
    BY DEF Calm, OneShots
<1> QED
    BY <1>1, <1>2, <1>3 DEF JobsInv, Flight

LEMMA JobForms ==
    ASSUME NEW k
    PROVE  /\ \A job \in JobNames : Jobs(k)!Plain(job) \in JobRecords /\ Jobs(k)!Plain(job).job = job
           /\ \A with \in {Nothing, "models", "profile"} : Jobs(k)!Sync(with) \in JobRecords /\ Jobs(k)!Sync(with).job = "sync"
BY DEF Jobs!Plain, Jobs!Sync, JobRecords, JobNames

LEMMA OpenKeeps == ASSUME NEW k, JobsBounds(k), JobsInv(k), Jobs(k)!Open PROVE JobsInv(k)'
<1>1. /\ screen = "welcome" /\ previous' = screen /\ UNCHANGED <<running, work, check, configuring, binary, marked>>
      /\ \/ /\ screen' \in {"upgrade", "sync", "both"} /\ UNCHANGED agent
            /\ busy' = FALSE /\ report' = Nothing /\ overrides' = Nothing /\ synced' = FALSE
         \/ /\ screen' \in {"wizard", "config", "profiles"} \cup OneShots
            /\ UNCHANGED <<busy, report, overrides, synced, agent>>
         \/ /\ screen' = "describe" /\ UNCHANGED <<busy, report, overrides, synced>>
            /\ agent' = [agent EXCEPT !.generating = FALSE, !.failed = FALSE, !.generated = 0, !.adding = FALSE]
    BY DEF Jobs!Open, Jobs!SetScreen, Jobs!ResetOperation, Jobs!operation, Jobs!disk, Jobs!OneShot, OneShots
<1>2. JobOf(work') = "none" /\ JobOf(work) = "none" /\ ~busy /\ ~running /\ ~agent.adding
    BY <1>1, Idle DEF Calm
<1>3. /\ agent' \in AgentTypes(k) /\ (agent'.adding = agent.adding \/ agent'.adding = FALSE)
      /\ agent'.flying = agent.flying /\ agent'.asked = agent.asked
      /\ agent'.generated = agent.generated \/ agent'.generated = 0
      /\ agent'.generating = agent.generating \/ agent'.generating = FALSE
  <2>1. agent \in AgentRecords(Requests(k), InFlight(k)) /\ 0 \in Requests(k)
      BY DEF Requests, JobsBounds, JobsInv, JobsTypes, AgentTypes
  <2>2. CASE agent' = agent
      BY <2>1, <2>2 DEF AgentTypes
  <2>3. CASE agent' = [agent EXCEPT !.generating = FALSE, !.failed = FALSE, !.generated = 0, !.adding = FALSE]
    <3>1. /\ agent' \in AgentRecords(Requests(k), InFlight(k))
          /\ agent'.generating = FALSE /\ agent'.asked = agent.asked
          /\ agent'.flying = agent.flying /\ agent'.generated = 0 /\ agent'.adding = FALSE
        BY <2>1, <2>3, AgentResets, SMTT(30)
    <3> QED
        BY <3>1 DEF AgentTypes
  <2> QED
      BY <1>1, <2>2, <2>3
<1>4. JobsTypes(k)'
  <2>1. busy' \in BOOLEAN /\ synced' \in BOOLEAN
      BY <1>1, Zenon DEF JobsInv, JobsTypes
  <2> QED
      BY <1>1, <1>3, <2>1 DEF JobsInv, JobsTypes, JobScreens, OneShots
<1>5. Flight(JobOf(work), screen, busy, running, agent.adding)'
    BY <1>1, <1>2, <1>3 DEF Flight, Waits, OneShots
<1>6. Checking(JobOf(work), screen, check)' /\ Asked(screen, previous, overrides, synced, configuring)'
    BY <1>1, <1>2 DEF JobsInv, Checking, Asked, OneShots
<1>7. Resting(JobOf(work), screen, busy, report, binary, marked)'
    BY <1>1, <1>2 DEF JobsInv, Resting
<1>8. Generating(screen, agent)'
    BY <1>1, <1>3 DEF JobsInv, Generating, OneShots
<1> QED
    BY <1>4, <1>5, <1>6, <1>7, <1>8 DEF JobsInv

LEMMA PickerKeeps ==
    ASSUME NEW k, JobsBounds(k), JobsInv(k), Jobs(k)!OpenPicker \/ Jobs(k)!ConfirmPicker
    PROVE  JobsInv(k)'
<1>1. /\ screen \in {"wizard", "config", "picker"} /\ previous' = screen
      /\ UNCHANGED <<running, work, check, report, agent, binary, marked>>
      /\ \/ /\ screen # "picker" /\ screen' = "picker" /\ configuring' = (configuring \/ screen = "config")
            /\ UNCHANGED <<busy, overrides, synced>>
         \/ /\ screen = "picker" /\ screen' = "sync" /\ configuring' = FALSE
            /\ busy' = FALSE /\ synced' = FALSE /\ overrides' = "models"
         \/ /\ screen = "picker" /\ screen' = "wizard" /\ configuring' = FALSE
            /\ UNCHANGED <<busy, overrides, synced>>
    BY DEF Jobs!OpenPicker, Jobs!ConfirmPicker, Jobs!SetScreen, Jobs!operation, Jobs!disk
<1>2. JobOf(work') = "none" /\ JobOf(work) = "none" /\ ~busy /\ ~running /\ ~agent.adding
    BY <1>1, Idle DEF Calm
<1>4. JobsTypes(k)'
  <2>1. busy' \in BOOLEAN /\ synced' \in BOOLEAN /\ configuring' \in BOOLEAN
      BY <1>1, Zenon DEF JobsInv, JobsTypes
  <2> QED
      BY <1>1, <2>1 DEF JobsInv, JobsTypes, JobScreens
<1>5. Flight(JobOf(work), screen, busy, running, agent.adding)'
    BY <1>1, <1>2 DEF Flight, Waits, OneShots
<1>6. Checking(JobOf(work), screen, check)' /\ Asked(screen, previous, overrides, synced, configuring)'
    BY <1>1, <1>2 DEF JobsInv, Checking, Asked
<1>7. Resting(JobOf(work), screen, busy, report, binary, marked)'
    BY <1>1, <1>2 DEF JobsInv, Resting
<1>8. Generating(screen, agent)'
    BY <1>1 DEF JobsInv, Generating
<1> QED
    BY <1>4, <1>5, <1>6, <1>7, <1>8 DEF JobsInv

LEMMA ProfileKeeps ==
    ASSUME NEW k, JobsBounds(k), JobsInv(k), Jobs(k)!OpenProfile \/ Jobs(k)!KeepVersion
    PROVE  JobsInv(k)'
<1>1. /\ screen \in {"profiles", "prompt"} /\ previous' = screen /\ screen' \in {"delete", "save", "welcome"}
      /\ UNCHANGED <<busy, running, work, check, report, overrides, synced, configuring, agent, binary, marked>>
    BY DEF Jobs!OpenProfile, Jobs!KeepVersion, Jobs!SetScreen, Jobs!operation, Jobs!disk
<1>2. JobOf(work') = "none" /\ JobOf(work) = "none" /\ ~busy /\ ~running /\ ~agent.adding
    BY <1>1, Idle DEF Calm
<1>4. JobsTypes(k)'
    BY <1>1 DEF JobsInv, JobsTypes, JobScreens
<1>5. Flight(JobOf(work), screen, busy, running, agent.adding)'
    BY <1>1, <1>2 DEF Flight, Waits, OneShots
<1>6. Checking(JobOf(work), screen, check)' /\ Asked(screen, previous, overrides, synced, configuring)'
    BY <1>1, <1>2 DEF JobsInv, Checking, Asked
<1>7. Resting(JobOf(work), screen, busy, report, binary, marked)'
    BY <1>1, <1>2 DEF JobsInv, Resting
<1>8. Generating(screen, agent)'
    BY <1>1 DEF JobsInv, Generating
<1> QED
    BY <1>4, <1>5, <1>6, <1>7, <1>8 DEF JobsInv

LEMMA UpgradeKeeps ==
    ASSUME NEW k, JobsBounds(k), JobsInv(k), Jobs(k)!UpdateNow
    PROVE  JobsInv(k)'
<1>1. /\ screen = "prompt" /\ previous' = screen /\ screen' = "upgrade" /\ busy' = TRUE
      /\ Jobs(k)!Start(Jobs(k)!Plain("upgrade"))
      /\ UNCHANGED <<running, check, report, overrides, synced, configuring, agent, binary, marked>>
    BY DEF Jobs!UpdateNow, Jobs!StartUpgrade, Jobs!SetScreen, Jobs!disk
<1>2. JobOf(work) = "none" /\ work = <<>> /\ ~busy /\ ~running /\ ~agent.adding
    BY <1>1, Idle DEF Calm
<1>3. /\ JobOf(work') = "upgrade" /\ work' = <<Jobs(k)!Plain("upgrade")>>
      /\ Jobs(k)!Plain("upgrade") \in JobRecords
  <2>1. Jobs(k)!Plain("upgrade") \in JobRecords /\ Jobs(k)!Plain("upgrade").job = "upgrade"
      BY JobForms DEF JobNames
  <2> QED
      BY <1>1, <1>2, <2>1, JobStarts
<1>4. JobsTypes(k)'
  <2>1. busy' \in BOOLEAN
      BY <1>1, Zenon
  <2> QED
      BY <1>1, <1>3, <2>1 DEF JobsInv, JobsTypes, JobScreens
<1>5. Flight(JobOf(work), screen, busy, running, agent.adding)'
    BY <1>1, <1>2, <1>3 DEF Flight, Waits, OneShots
<1>6. Checking(JobOf(work), screen, check)' /\ Asked(screen, previous, overrides, synced, configuring)'
    BY <1>1, <1>2, <1>3 DEF JobsInv, Checking, Asked
<1>7. Resting(JobOf(work), screen, busy, report, binary, marked)'
    BY <1>1, <1>2, <1>3 DEF JobsInv, Resting
<1>8. Generating(screen, agent)'
    BY <1>1 DEF JobsInv, Generating
<1> QED
    BY <1>4, <1>5, <1>6, <1>7, <1>8 DEF JobsInv

LEMMA QuitKeeps ==
    ASSUME NEW k, JobsInv(k), screen' = "quit", work' = <<>>,
           UNCHANGED <<busy, running, check, report, overrides, synced, configuring, agent, binary, marked>>
    PROVE  JobsInv(k)'
<1>1. JobOf(work') = "none"
    BY DEF JobOf
<1>2. JobsTypes(k)'
    BY DEF JobsInv, JobsTypes, JobScreens
<1>3. Flight(JobOf(work), screen, busy, running, agent.adding)' /\ Checking(JobOf(work), screen, check)'
    BY <1>1 DEF JobsInv, Flight, Checking
<1>4. Asked(screen, previous, overrides, synced, configuring)' /\ Generating(screen, agent)'
    BY DEF JobsInv, Asked, Generating
<1>5. Resting(JobOf(work), screen, busy, report, binary, marked)'
    BY <1>1 DEF JobsInv, Resting
<1> QED
    BY <1>2, <1>3, <1>4, <1>5 DEF JobsInv

LEMMA EnterUpgradeKeeps ==
    ASSUME NEW k, JobsBounds(k), JobsInv(k), Jobs(k)!EnterUpgrade, report # "self"
    PROVE  JobsInv(k)'
<1>1. /\ screen \in {"upgrade", "both"} /\ ~busy
      /\ UNCHANGED <<running, check, configuring, agent, binary, marked>>
      /\ \/ /\ screen' = "welcome" /\ busy' = FALSE /\ report' = Nothing /\ overrides' = Nothing /\ synced' = FALSE
            /\ UNCHANGED work
         \/ /\ screen' = "welcome" /\ UNCHANGED <<busy, report, overrides, synced, work>>
         \/ /\ check.done /\ busy' = TRUE /\ Jobs(k)!Start(Jobs(k)!Plain(screen))
            /\ UNCHANGED <<screen, previous, report, overrides, synced>>
    BY DEF Jobs!EnterUpgrade, Jobs!SetScreen, Jobs!ResetOperation, Jobs!operation, Jobs!disk
<1>2. JobOf(work) = "none" /\ work = <<>> /\ ~busy /\ ~running /\ ~agent.adding
    BY <1>1, Idle DEF Calm, OneShots
<1>3. \/ JobOf(work') = "none" /\ work' = <<>> /\ screen' = "welcome"
      \/ /\ JobOf(work') = screen /\ work' = <<Jobs(k)!Plain(screen)>> /\ Jobs(k)!Plain(screen) \in JobRecords
         /\ check.done /\ busy' = TRUE /\ screen' = screen
  <2>1. Jobs(k)!Plain(screen) \in JobRecords /\ Jobs(k)!Plain(screen).job = screen
      BY <1>1, JobForms DEF JobNames
  <2> QED
      BY <1>1, <1>2, <2>1, JobStarts
<1>4. JobsTypes(k)'
  <2>1. busy' \in BOOLEAN /\ synced' \in BOOLEAN
      BY <1>1, Zenon DEF JobsInv, JobsTypes
  <2> QED
      BY <1>1, <1>2, <1>3, <2>1 DEF JobsInv, JobsTypes, JobScreens, OneShots
<1>5. Flight(JobOf(work), screen, busy, running, agent.adding)'
    BY <1>1, <1>2, <1>3 DEF JobsInv, Flight, Waits, OneShots
<1>6. Checking(JobOf(work), screen, check)' /\ Asked(screen, previous, overrides, synced, configuring)'
    BY <1>1, <1>2, <1>3 DEF JobsInv, JobsTypes, Checking, Asked, OneShots
<1>7. Resting(JobOf(work), screen, busy, report, binary, marked)'
    BY <1>1, <1>2, <1>3 DEF JobsInv, Resting, OneShots
<1>8. Generating(screen, agent)'
    BY <1>1, <1>2, <1>3 DEF JobsInv, Generating, OneShots
<1> QED
    BY <1>4, <1>5, <1>6, <1>7, <1>8 DEF JobsInv

LEMMA EnterSyncKeeps ==
    ASSUME NEW k, JobsBounds(k), JobsInv(k), Jobs(k)!EnterSync
    PROVE  JobsInv(k)'
<1>1. /\ screen = "sync" /\ ~busy
      /\ UNCHANGED <<running, check, configuring, agent, binary, marked>>
      /\ \/ /\ screen' = "welcome" /\ busy' = FALSE /\ report' = Nothing /\ overrides' = Nothing /\ synced' = FALSE
            /\ UNCHANGED work
         \/ /\ busy' = TRUE /\ Jobs(k)!Start(Jobs(k)!Sync(overrides))
            /\ UNCHANGED <<screen, previous, report, overrides, synced>>
    BY DEF Jobs!EnterSync, Jobs!SetScreen, Jobs!ResetOperation, Jobs!operation, Jobs!disk
<1>2. JobOf(work) = "none" /\ work = <<>> /\ ~busy /\ ~running /\ ~agent.adding
    BY <1>1, Idle DEF Calm, OneShots
<1>3. \/ JobOf(work') = "none" /\ work' = <<>> /\ screen' = "welcome"
      \/ /\ JobOf(work') = "sync" /\ work' = <<Jobs(k)!Sync(overrides)>> /\ Jobs(k)!Sync(overrides) \in JobRecords
         /\ busy' = TRUE /\ screen' = screen
  <2>1. Jobs(k)!Sync(overrides) \in JobRecords /\ Jobs(k)!Sync(overrides).job = "sync"
      BY JobForms DEF JobsInv, JobsTypes
  <2> QED
      BY <1>1, <1>2, <2>1, JobStarts
<1>4. JobsTypes(k)'
  <2>1. busy' \in BOOLEAN /\ synced' \in BOOLEAN
      BY <1>1, Zenon DEF JobsInv, JobsTypes
  <2> QED
      BY <1>1, <1>2, <1>3, <2>1 DEF JobsInv, JobsTypes, JobScreens, OneShots
<1>5. Flight(JobOf(work), screen, busy, running, agent.adding)'
    BY <1>1, <1>2, <1>3 DEF JobsInv, Flight, Waits, OneShots
<1>6. Checking(JobOf(work), screen, check)' /\ Asked(screen, previous, overrides, synced, configuring)'
    BY <1>1, <1>2, <1>3 DEF JobsInv, JobsTypes, Checking, Asked, OneShots
<1>7. Resting(JobOf(work), screen, busy, report, binary, marked)'
    BY <1>1, <1>2, <1>3 DEF JobsInv, Resting, OneShots
<1>8. Generating(screen, agent)'
    BY <1>1, <1>2, <1>3 DEF JobsInv, Generating, OneShots
<1> QED
    BY <1>4, <1>5, <1>6, <1>7, <1>8 DEF JobsInv

LEMMA SyncProfileKeeps ==
    ASSUME NEW k, JobsBounds(k), JobsInv(k), Jobs(k)!SyncProfile
    PROVE  JobsInv(k)'
<1>1. /\ screen \in {"delete", "save"} /\ screen' = "sync" /\ previous' = screen /\ synced' = FALSE /\ busy' = TRUE
      /\ overrides' = (IF screen = "save" THEN "profile" ELSE Nothing)
      /\ work' = Append(work, Jobs(k)!Sync(overrides'))
      /\ UNCHANGED <<running, check, report, configuring, agent, binary, marked>>
    BY DEF Jobs!SyncProfile, Jobs!SetScreen, Jobs!disk, Jobs!Start
<1>2. JobOf(work) = "none" /\ work = <<>> /\ ~busy /\ ~running /\ ~agent.adding
    BY <1>1, Idle DEF Calm, OneShots
<1>3. /\ JobOf(work') = "sync" /\ work' = <<Jobs(k)!Sync(overrides')>> /\ Jobs(k)!Sync(overrides') \in JobRecords
  <2>1. Jobs(k)!Sync(overrides') \in JobRecords /\ Jobs(k)!Sync(overrides').job = "sync"
      BY <1>1, JobForms
  <2>2. work' = <<Jobs(k)!Sync(overrides')>>
      BY <1>1, <1>2
  <2> QED
      BY <2>1, <2>2 DEF JobOf
<1>4. JobsTypes(k)'
  <2>1. busy' \in BOOLEAN /\ synced' \in BOOLEAN
      BY <1>1, Zenon DEF JobsInv, JobsTypes
  <2> QED
      BY <1>1, <1>2, <1>3, <2>1 DEF JobsInv, JobsTypes, JobScreens, OneShots
<1>5. Flight(JobOf(work), screen, busy, running, agent.adding)'
    BY <1>1, <1>2, <1>3 DEF JobsInv, Flight, Waits, OneShots
<1>6. Checking(JobOf(work), screen, check)' /\ Asked(screen, previous, overrides, synced, configuring)'
    BY <1>1, <1>2, <1>3 DEF JobsInv, JobsTypes, Checking, Asked, OneShots
<1>7. Resting(JobOf(work), screen, busy, report, binary, marked)'
    BY <1>1, <1>2, <1>3 DEF JobsInv, Resting, OneShots
<1>8. Generating(screen, agent)'
    BY <1>1, <1>2, <1>3 DEF JobsInv, Generating, OneShots
<1> QED
    BY <1>4, <1>5, <1>6, <1>7, <1>8 DEF JobsInv

LEMMA ConfirmKeeps ==
    ASSUME NEW k, JobsBounds(k), JobsInv(k), Jobs(k)!Confirm
    PROVE  JobsInv(k)'
<1>1. /\ screen \in OneShots /\ ~busy
      /\ UNCHANGED <<running, check, report, overrides, synced, configuring, agent, binary, marked>>
      /\ \/ /\ busy' = TRUE /\ Jobs(k)!Start(Jobs(k)!Plain(screen))
            /\ screen' = IF screen = "tools" THEN "tooling" ELSE screen
         \/ screen' = "result" /\ UNCHANGED <<busy, work>>
    BY DEF Jobs!Confirm, Jobs!SetScreen, Jobs!disk, Jobs!OneShot, Jobs!Running, OneShots
<1>2. JobOf(work) = "none" /\ work = <<>> /\ ~busy /\ ~running /\ ~agent.adding
    BY <1>1, Idle DEF Calm, OneShots
<1>3. \/ JobOf(work') = "none" /\ work' = <<>> /\ screen' = "result" /\ busy' = busy
      \/ /\ JobOf(work') = screen /\ work' = <<Jobs(k)!Plain(screen)>> /\ Jobs(k)!Plain(screen) \in JobRecords
         /\ busy' = TRUE /\ screen' = IF screen = "tools" THEN "tooling" ELSE screen
  <2>1. Jobs(k)!Plain(screen) \in JobRecords /\ Jobs(k)!Plain(screen).job = screen
      BY <1>1, JobForms DEF JobNames
  <2> QED
      BY <1>1, <1>2, <2>1, JobStarts
<1>4. JobsTypes(k)'
  <2>1. busy' \in BOOLEAN
      BY <1>1, Zenon DEF JobsInv, JobsTypes
  <2> QED
      BY <1>1, <1>2, <1>3, <2>1 DEF JobsInv, JobsTypes, JobScreens, OneShots
<1>5. Flight(JobOf(work), screen, busy, running, agent.adding)'
    BY <1>1, <1>2, <1>3 DEF JobsInv, Flight, Waits, OneShots
<1>6. Checking(JobOf(work), screen, check)' /\ Asked(screen, previous, overrides, synced, configuring)'
    BY <1>1, <1>2, <1>3 DEF JobsInv, JobsTypes, Checking, Asked, OneShots
<1>7. Resting(JobOf(work), screen, busy, report, binary, marked)'
    BY <1>1, <1>2, <1>3 DEF JobsInv, Resting, OneShots
<1>8. Generating(screen, agent)'
    BY <1>1, <1>2, <1>3 DEF JobsInv, Generating, OneShots
<1> QED
    BY <1>4, <1>5, <1>6, <1>7, <1>8 DEF JobsInv

LEMMA StartInstallingKeeps ==
    ASSUME NEW k, JobsBounds(k), JobsInv(k), Jobs(k)!StartInstalling
    PROVE  JobsInv(k)'
<1>1. /\ screen = "wizard" /\ screen' = "installing" /\ running' = TRUE /\ Jobs(k)!Start(Jobs(k)!Plain("install"))
      /\ UNCHANGED <<busy, check, report, overrides, synced, configuring, agent, binary, marked>>
    BY DEF Jobs!StartInstalling, Jobs!SetScreen, Jobs!operation, Jobs!disk
<1>2. JobOf(work) = "none" /\ work = <<>> /\ ~busy /\ ~running /\ ~agent.adding
    BY <1>1, Idle DEF Calm, OneShots
<1>3. /\ JobOf(work') = "install" /\ work' = <<Jobs(k)!Plain("install")>>
      /\ Jobs(k)!Plain("install") \in JobRecords
  <2>1. Jobs(k)!Plain("install") \in JobRecords /\ Jobs(k)!Plain("install").job = "install"
      BY JobForms DEF JobNames
  <2> QED
      BY <1>1, <1>2, <2>1, JobStarts
<1>4. JobsTypes(k)'
  <2>1. running' \in BOOLEAN
      BY <1>1, Zenon DEF JobsInv, JobsTypes
  <2> QED
      BY <1>1, <1>2, <1>3, <2>1 DEF JobsInv, JobsTypes, JobScreens, OneShots
<1>5. Flight(JobOf(work), screen, busy, running, agent.adding)'
    BY <1>1, <1>2, <1>3 DEF JobsInv, Flight, Waits, OneShots
<1>6. Checking(JobOf(work), screen, check)' /\ Asked(screen, previous, overrides, synced, configuring)'
    BY <1>1, <1>2, <1>3 DEF JobsInv, JobsTypes, Checking, Asked, OneShots
<1>7. Resting(JobOf(work), screen, busy, report, binary, marked)'
    BY <1>1, <1>2, <1>3 DEF JobsInv, Resting, OneShots
<1>8. Generating(screen, agent)'
    BY <1>1, <1>2, <1>3 DEF JobsInv, Generating, OneShots
<1> QED
    BY <1>4, <1>5, <1>6, <1>7, <1>8 DEF JobsInv

LEMMA GenerateKeeps ==
    ASSUME NEW k, JobsBounds(k), JobsInv(k), Jobs(k)!Generate
    PROVE  JobsInv(k)'
<1>1. /\ screen \in {"describe", "preview", "generating"} /\ screen' = "generating"
      /\ agent.asked < k.MaxAsked
      /\ agent' = [agent EXCEPT !.generating = TRUE, !.failed = FALSE, !.generated = 0, !.asked = @ + 1,
                                !.flying = @ \cup {agent.asked + 1}]
      /\ UNCHANGED <<busy, running, work, check, report, overrides, synced, configuring, binary, marked>>
    BY DEF Jobs!Generate, Jobs!SetScreen, Jobs!operation, Jobs!disk
<1>2. JobOf(work) = "none" /\ work = <<>> /\ ~busy /\ ~running /\ ~agent.adding
    BY <1>1, Idle DEF Calm, OneShots
<1>3. /\ agent' \in AgentTypes(k) /\ agent'.generating = TRUE /\ agent'.asked = agent.asked + 1
      /\ agent'.flying = agent.flying \cup {agent'.asked} /\ agent'.generated = 0 /\ agent'.adding = agent.adding
  <2>1. agent \in AgentRecords(Requests(k), InFlight(k)) /\ 0 \in Requests(k)
      BY DEF Requests, JobsBounds, JobsInv, JobsTypes, AgentTypes
  <2>2. agent.asked \in Requests(k) /\ agent.flying \in InFlight(k)
      BY <2>1 DEF AgentRecords
  <2>3. agent.asked + 1 \in Requests(k) /\ agent.flying \cup {agent.asked + 1} \in InFlight(k)
      BY <1>1, <2>2 DEF Requests, InFlight, JobsBounds
  <2> QED
      BY <1>1, <2>1, <2>3, AgentAsks DEF AgentTypes
<1>4. JobsTypes(k)'
    BY <1>1, <1>2, <1>3 DEF JobsInv, JobsTypes, JobScreens
<1>5. Flight(JobOf(work), screen, busy, running, agent.adding)'
    BY <1>1, <1>2, <1>3 DEF JobsInv, Flight, Waits, OneShots
<1>6. Checking(JobOf(work), screen, check)' /\ Asked(screen, previous, overrides, synced, configuring)'
    BY <1>1, <1>2, <1>3 DEF JobsInv, JobsTypes, Checking, Asked, OneShots
<1>7. Resting(JobOf(work), screen, busy, report, binary, marked)'
    BY <1>1, <1>2, <1>3 DEF JobsInv, Resting, OneShots
<1>8. Generating(screen, agent)'
    BY <1>1, <1>2, <1>3 DEF JobsInv, Generating, OneShots
<1> QED
    BY <1>4, <1>5, <1>6, <1>7, <1>8 DEF JobsInv

LEMMA StartInstallationKeeps ==
    ASSUME NEW k, JobsBounds(k), JobsInv(k), Jobs(k)!StartInstallation
    PROVE  JobsInv(k)'
<1>1. /\ screen = "preview" /\ agent.generated # 0 /\ screen' = "adding"
      /\ agent' = [agent EXCEPT !.adding = TRUE] /\ Jobs(k)!Start(Jobs(k)!Plain("agent"))
      /\ UNCHANGED <<busy, running, check, report, overrides, synced, configuring, binary, marked>>
    BY DEF Jobs!StartInstallation, Jobs!SetScreen, Jobs!operation, Jobs!disk
<1>2. JobOf(work) = "none" /\ work = <<>> /\ ~busy /\ ~running /\ ~agent.adding
    BY <1>1, Idle DEF Calm, OneShots
<1>3. /\ JobOf(work') = "agent" /\ work' = <<Jobs(k)!Plain("agent")>> /\ Jobs(k)!Plain("agent") \in JobRecords
      /\ agent' \in AgentTypes(k) /\ agent'.adding = TRUE /\ agent'.generating = agent.generating
      /\ agent'.asked = agent.asked /\ agent'.flying = agent.flying /\ agent'.generated = agent.generated
  <2>1. Jobs(k)!Plain("agent") \in JobRecords /\ Jobs(k)!Plain("agent").job = "agent"
      BY JobForms DEF JobNames
  <2>2. agent \in AgentRecords(Requests(k), InFlight(k))
      BY DEF JobsInv, JobsTypes, AgentTypes
  <2>3. /\ agent' \in AgentTypes(k) /\ agent'.adding = TRUE /\ agent'.generating = agent.generating
        /\ agent'.asked = agent.asked /\ agent'.flying = agent.flying /\ agent'.generated = agent.generated
      BY <1>1, <2>2, AgentAdds DEF AgentTypes
  <2> QED
      BY <1>1, <1>2, <2>1, <2>3, JobStarts
<1>4. JobsTypes(k)'
    BY <1>1, <1>2, <1>3 DEF JobsInv, JobsTypes, JobScreens
<1>5. Flight(JobOf(work), screen, busy, running, agent.adding)'
    BY <1>1, <1>2, <1>3 DEF JobsInv, Flight, Waits, OneShots
<1>6. Checking(JobOf(work), screen, check)' /\ Asked(screen, previous, overrides, synced, configuring)'
    BY <1>1, <1>2, <1>3 DEF JobsInv, JobsTypes, Checking, Asked, OneShots
<1>7. Resting(JobOf(work), screen, busy, report, binary, marked)'
    BY <1>1, <1>2, <1>3 DEF JobsInv, Resting, OneShots
<1>8. Generating(screen, agent)'
    BY <1>1, <1>2, <1>3 DEF JobsInv, Generating, OneShots
<1> QED
    BY <1>4, <1>5, <1>6, <1>7, <1>8 DEF JobsInv

LEMMA ResultKeeps ==
    ASSUME NEW k, JobsBounds(k), JobsInv(k), Jobs(k)!EnterResult, screen # "installing"
    PROVE  JobsInv(k)'
<1>1. /\ screen \in {"result", "added"} /\ screen' = "welcome"
      /\ UNCHANGED <<busy, running, work, check, report, overrides, synced, configuring, agent, binary, marked>>
    BY DEF Jobs!EnterResult, Jobs!SetScreen, Jobs!operation, Jobs!disk
<1>2. JobOf(work) = "none" /\ work = <<>> /\ ~busy /\ ~running /\ ~agent.adding
    BY <1>1, Idle DEF Calm, OneShots
<1>4. JobsTypes(k)'
    BY <1>1 DEF JobsInv, JobsTypes, JobScreens
<1>5. Flight(JobOf(work), screen, busy, running, agent.adding)'
    BY <1>1, <1>2 DEF JobsInv, Flight, Waits, OneShots
<1>6. Checking(JobOf(work), screen, check)' /\ Asked(screen, previous, overrides, synced, configuring)'
    BY <1>1, <1>2 DEF JobsInv, JobsTypes, Checking, Asked, OneShots
<1>7. Resting(JobOf(work), screen, busy, report, binary, marked)'
    BY <1>1, <1>2 DEF JobsInv, Resting, OneShots
<1>8. Generating(screen, agent)'
    BY <1>1, <1>2 DEF JobsInv, Generating, OneShots
<1> QED
    BY <1>4, <1>5, <1>6, <1>7, <1>8 DEF JobsInv

LEMMA EscKeeps ==
    ASSUME NEW k, JobsBounds(k), JobsInv(k), Jobs(k)!Esc, report # "self"
    PROVE  JobsInv(k)'
<1>1. /\ screen \notin {"welcome", "prompt", "tooling", "quit"} /\ ~busy /\ ~(screen = "installing" /\ running)
      /\ ~agent.adding
      /\ screen' = IF screen # "picker" THEN Jobs(k)!Backward[screen] ELSE IF configuring THEN "config" ELSE "wizard"
      /\ configuring' = (configuring /\ screen # "picker")
      /\ overrides' = (IF screen = "sync" THEN Nothing ELSE overrides)
      /\ agent' = IF screen = "generating" THEN [agent EXCEPT !.failed = FALSE, !.generating = FALSE] ELSE agent
      /\ UNCHANGED <<busy, running, work, check, report, synced, binary, marked>>
    BY DEF Jobs!Esc, Jobs!SetScreen, Jobs!disk
<1>2. JobOf(work) = "none" /\ screen # "adding"
  <2>1. JobOf(work) \in JobNames \cup {"none"}
      BY JobShapes DEF JobsInv, JobsTypes
  <2> QED
      BY <1>1, <2>1 DEF JobsInv, Flight, Waits
<1>3. screen' \in {"welcome", "profiles", "wizard", "describe", "config"}
  <2>1. screen \in JobScreens \ {"welcome", "prompt", "tooling", "quit", "adding"}
      BY <1>1, <1>2 DEF JobsInv, JobsTypes
  <2>2. CASE screen = "picker"
      BY <1>1, <2>2
  <2>3. CASE screen # "picker"
      BY <1>1, <2>1, <2>3 DEF JobScreens, OneShots, Jobs!Backward
  <2> QED
      BY <2>2, <2>3
<1>10. agent \in AgentRecords(Requests(k), InFlight(k))
    BY DEF JobsInv, JobsTypes, AgentTypes
<1>11. agent' \in AgentTypes(k)
  <2>2. CASE screen = "generating"
      BY <1>1, <1>10, <2>2, AgentBack DEF AgentTypes
  <2>3. CASE screen # "generating"
      BY <1>1, <1>10, <2>3 DEF AgentTypes
  <2> QED
      BY <2>2, <2>3
<1>9. /\ agent'.adding = agent.adding
       /\ agent'.generating => agent.generating /\ screen # "generating"
       /\ agent'.asked = agent.asked /\ agent'.flying = agent.flying /\ agent'.generated = agent.generated
  <2>2. CASE screen = "generating"
      BY <1>1, <1>10, <2>2, AgentBack
  <2>3. CASE screen # "generating"
      BY <1>1, <2>3
  <2> QED
      BY <2>2, <2>3
<1>4. JobsTypes(k)'
  <2>1. configuring' \in BOOLEAN
      BY <1>1, Zenon
  <2>2. screen' \in JobScreens
      BY <1>3 DEF JobScreens
  <2>3. JobsTypes(k)
      BY DEF JobsInv
  <2>4. overrides' \in {Nothing, "models", "profile"}
      BY <1>1, <2>3 DEF JobsTypes
  <2>5. UNCHANGED <<busy, running, work, check, report, synced, binary, marked>>
      BY <1>1
  <2>6. busy' \in BOOLEAN /\ running' \in BOOLEAN /\ synced' \in BOOLEAN /\ marked' \in BOOLEAN
      BY <2>3, <2>5, Zenon DEF JobsTypes
  <2>7. /\ work' = <<>> \/ \E w \in JobRecords : work' = <<w>>
        /\ check' \in [flying : Nat, done : BOOLEAN, updates : BOOLEAN]
        /\ report' \in {Nothing, "tools", "self"} /\ binary' \in {"old", "new"}
      BY <2>3, <2>5, Zenon DEF JobsTypes
  <2> QED
      BY <1>11, <2>1, <2>2, <2>4, <2>6, <2>7, ZenonT(60) DEF JobsTypes
<1>5. Flight(JobOf(work), screen, busy, running, agent.adding)'
    BY <1>1, <1>2, <1>3, <1>9 DEF JobsInv, Flight, Waits, OneShots
<1>6. Checking(JobOf(work), screen, check)' /\ Asked(screen, previous, overrides, synced, configuring)'
    BY <1>1, <1>2, <1>3, <1>9 DEF JobsInv, JobsTypes, Checking, Asked, OneShots
<1>7. Resting(JobOf(work), screen, busy, report, binary, marked)'
    BY <1>1, <1>2, <1>3, <1>9 DEF JobsInv, Resting, OneShots
<1>8. Generating(screen, agent)'
    BY <1>1, <1>2, <1>3, <1>9 DEF JobsInv, Generating, OneShots
<1> QED
    BY <1>4, <1>5, <1>6, <1>7, <1>8 DEF JobsInv

LEMMA CheckAgain ==
    ASSUME NEW N, NEW n \in N, check \in [flying : N, done : BOOLEAN, updates : BOOLEAN],
           check' = [check EXCEPT !.flying = n, !.done = FALSE, !.updates = FALSE]
    PROVE  check'.done = FALSE /\ check'.flying = n /\ check' \in [flying : N, done : BOOLEAN, updates : BOOLEAN]
<1>1. check'.done = FALSE /\ check'.flying = n
    OBVIOUS
<1>2. check' \in [flying : N, done : BOOLEAN, updates : BOOLEAN]
    OBVIOUS
<1> QED
    BY <1>1, <1>2

LEMMA CheckKeeps ==
    ASSUME NEW k, JobsBounds(k), JobsInv(k), screen # "quit", Jobs(k)!CheckResult
    PROVE  JobsInv(k)'
<1>0. PICK updates \in BOOLEAN :
        /\ check' = [flying |-> check.flying - 1, done |-> TRUE, updates |-> updates]
        /\ (screen = "welcome" /\ screen' = "prompt") \/ (UNCHANGED <<screen, previous>>)
    BY DEF Jobs!CheckResult, Jobs!SetScreen
<1>1. /\ check.flying > 0
      /\ UNCHANGED <<busy, running, work, report, overrides, synced, configuring, agent, binary, marked>>
      /\ check' = [flying |-> check.flying - 1, done |-> TRUE, updates |-> updates]
      /\ (screen = "welcome" /\ screen' = "prompt") \/ (UNCHANGED <<screen, previous>>)
    BY <1>0 DEF Jobs!CheckResult, Jobs!disk
<1>2. JobOf(work') = JobOf(work) /\ (screen' = "prompt" => JobOf(work) = "none")
    BY <1>1, Idle DEF Calm
<1>3. check'.done = TRUE /\ check'.flying = 0 /\ check' \in [flying : Nat, done : BOOLEAN, updates : BOOLEAN]
  <2>1. check.flying = 1
      BY <1>1 DEF JobsInv, Checking
  <2>3. check' = [flying |-> 0, done |-> TRUE, updates |-> updates]
      BY <1>1, <2>1
  <2> QED
      BY <2>3
<1>4. JobsTypes(k)'
    BY <1>1, <1>2, <1>3 DEF JobsInv, JobsTypes, JobScreens
<1>5. Flight(JobOf(work), screen, busy, running, agent.adding)'
    BY <1>1, <1>2, <1>3 DEF JobsInv, Flight, Waits, OneShots
<1>6. Checking(JobOf(work), screen, check)' /\ Asked(screen, previous, overrides, synced, configuring)'
    BY <1>1, <1>2, <1>3 DEF JobsInv, JobsTypes, Checking, Asked, OneShots
<1>7. Resting(JobOf(work), screen, busy, report, binary, marked)'
    BY <1>1, <1>2, <1>3 DEF JobsInv, Resting, OneShots
<1>8. Generating(screen, agent)'
    BY <1>1, <1>2, <1>3 DEF JobsInv, Generating, OneShots
<1> QED
    BY <1>4, <1>5, <1>6, <1>7, <1>8 DEF JobsInv

LEMMA UpgradedKeeps ==
    ASSUME NEW k, JobsBounds(k), JobsInv(k), screen # "quit", NEW i \in DOMAIN work, Jobs(k)!UpgradeDone(i), screen = "upgrade"
    PROVE  JobsInv(k)'
<1>1. /\ work[i].job = "upgrade" /\ work' = Jobs(k)!Without(i) /\ busy' = FALSE /\ Jobs(k)!Recheck
      /\ report' \in {"tools", "self"} /\ binary' = (IF report' = "self" THEN "new" ELSE binary)
      /\ UNCHANGED <<screen, previous, running, overrides, synced, configuring, agent, marked>>
    BY DEF Jobs!UpgradeDone
<1>2. JobOf(work) = work[i].job /\ Jobs(k)!Without(i) = <<>> /\ JobOf(<<>>) = "none" /\ screen \in JobScreens
  <2>1. work = <<>> \/ \E w \in JobRecords : work = <<w>>
      BY DEF JobsInv, JobsTypes
  <2>2. JobOf(work) = work[i].job
      BY <2>1, JobShapes
  <2>3. Jobs(k)!Without(i) = <<>>
      BY <2>1, JobEnds
  <2> QED
      BY <2>2, <2>3 DEF JobsInv, JobsTypes, JobOf
<1>3. check'.done = FALSE /\ check'.flying = 1 /\ check' \in [flying : Nat, done : BOOLEAN, updates : BOOLEAN]
  <2>1. check \in [flying : Nat, done : BOOLEAN, updates : BOOLEAN] /\ check.flying = 0
      BY <1>1, <1>2 DEF JobsInv, JobsTypes, Checking
  <2>2. check' = [check EXCEPT !.flying = 1, !.done = FALSE, !.updates = FALSE]
      BY <1>1, <2>1 DEF Jobs!Recheck
  <2> QED
      BY <2>1, <2>2, CheckAgain
<1>4. JobsTypes(k)'
  <2>1. busy' \in BOOLEAN
      BY <1>1, Zenon DEF JobsInv, JobsTypes
  <2> QED
      BY <1>1, <1>2, <1>3, <2>1 DEF JobsInv, JobsTypes, JobScreens, OneShots
<1>5. Flight(JobOf(work), screen, busy, running, agent.adding)'
    BY <1>1, <1>2, <1>3 DEF JobsInv, Flight, Waits, OneShots
<1>6. Checking(JobOf(work), screen, check)' /\ Asked(screen, previous, overrides, synced, configuring)'
    BY <1>1, <1>2, <1>3 DEF JobsInv, JobsTypes, Checking, Asked, OneShots
<1>7. Resting(JobOf(work), screen, busy, report, binary, marked)'
    BY <1>1, <1>2, <1>3 DEF JobsInv, Resting, OneShots
<1>8. Generating(screen, agent)'
    BY <1>1, <1>2, <1>3 DEF JobsInv, Generating, OneShots
<1> QED
    BY <1>4, <1>5, <1>6, <1>7, <1>8 DEF JobsInv

LEMMA PhaseKeeps ==
    ASSUME NEW k, JobsBounds(k), JobsInv(k), screen # "quit", NEW i \in DOMAIN work, Jobs(k)!UpgradePhaseCompleted(i), screen = "both"
    PROVE  JobsInv(k)'
<1>1. /\ work[i].job = "both" /\ Jobs(k)!Recheck
      /\ report' \in {"tools", "self"} /\ binary' = (IF report' = "self" THEN "new" ELSE binary)
      /\ work' = [work EXCEPT ![i] = IF report' = "self" THEN Jobs(k)!Plain("mark") ELSE Jobs(k)!Sync(Nothing)]
      /\ UNCHANGED <<screen, previous, busy, running, overrides, synced, configuring, agent, marked>>
    BY DEF Jobs!UpgradePhaseCompleted
<1>2. JobOf(work) = work[i].job /\ Jobs(k)!Without(i) = <<>> /\ JobOf(<<>>) = "none" /\ screen \in JobScreens
  <2>1. work = <<>> \/ \E w \in JobRecords : work = <<w>>
      BY DEF JobsInv, JobsTypes
  <2>2. JobOf(work) = work[i].job
      BY <2>1, JobShapes
  <2>3. Jobs(k)!Without(i) = <<>>
      BY <2>1, JobEnds
  <2> QED
      BY <2>2, <2>3 DEF JobsInv, JobsTypes, JobOf
<1>3. check'.done = FALSE /\ check'.flying = 1 /\ check' \in [flying : Nat, done : BOOLEAN, updates : BOOLEAN]
  <2>1. check \in [flying : Nat, done : BOOLEAN, updates : BOOLEAN] /\ check.flying = 0
      BY <1>1, <1>2 DEF JobsInv, JobsTypes, Checking
  <2>2. check' = [check EXCEPT !.flying = 1, !.done = FALSE, !.updates = FALSE]
      BY <1>1, <2>1 DEF Jobs!Recheck
  <2> QED
      BY <2>1, <2>2, CheckAgain
<1>9. \E w \in JobRecords : /\ work' = <<w>> /\ JobOf(work') = w.job
                              /\ w.job = IF report' = "self" THEN "mark" ELSE "sync"
  <2>1. /\ Jobs(k)!Plain("mark") \in JobRecords /\ Jobs(k)!Plain("mark").job = "mark"
        /\ Jobs(k)!Sync(Nothing) \in JobRecords /\ Jobs(k)!Sync(Nothing).job = "sync"
      BY JobForms DEF JobNames
  <2>2. \A w \in JobRecords : [work EXCEPT ![i] = w] = <<w>> /\ JobOf(<<w>>) = w.job
      BY JobEnds DEF JobsInv, JobsTypes
  <2>3. CASE report' = "self"
    <3>1. work' = [work EXCEPT ![i] = Jobs(k)!Plain("mark")]
        BY <1>1, <2>3
    <3> QED
        BY <2>1, <2>2, <2>3, <3>1
  <2>4. CASE report' # "self"
    <3>1. work' = [work EXCEPT ![i] = Jobs(k)!Sync(Nothing)]
        BY <1>1, <2>4
    <3> QED
        BY <2>1, <2>2, <2>4, <3>1
  <2> QED
      BY <2>3, <2>4
<1>4. JobsTypes(k)'
    BY <1>1, <1>2, <1>3, <1>9 DEF JobsInv, JobsTypes
<1>5. Flight(JobOf(work), screen, busy, running, agent.adding)'
    BY <1>1, <1>2, <1>3, <1>9 DEF JobsInv, Flight, Waits, OneShots
<1>6. Checking(JobOf(work), screen, check)' /\ Asked(screen, previous, overrides, synced, configuring)'
    BY <1>1, <1>2, <1>3, <1>9 DEF JobsInv, JobsTypes, Checking, Asked, OneShots
<1>7. Resting(JobOf(work), screen, busy, report, binary, marked)'
    BY <1>1, <1>2, <1>3, <1>9 DEF JobsInv, Flight, Resting, OneShots
<1>8. Generating(screen, agent)'
    BY <1>1, <1>2, <1>3, <1>9 DEF JobsInv, Generating, OneShots
<1> QED
    BY <1>4, <1>5, <1>6, <1>7, <1>8 DEF JobsInv

LEMMA SyncedKeeps ==
    ASSUME NEW k, JobsBounds(k), JobsInv(k), screen # "quit", NEW i \in DOMAIN work, Jobs(k)!SyncDone(i), screen \in {"sync", "both"}
    PROVE  JobsInv(k)'
<1>1. /\ work[i].job \in {"sync", "mark"} /\ work' = Jobs(k)!Without(i)
      /\ marked' = (marked \/ work[i].job = "mark") /\ busy' = FALSE /\ synced' = TRUE /\ overrides' = Nothing
      /\ UNCHANGED <<screen, previous, running, check, report, configuring, agent, binary>>
    BY DEF Jobs!SyncDone
<1>2. JobOf(work) = work[i].job /\ Jobs(k)!Without(i) = <<>> /\ JobOf(<<>>) = "none" /\ screen \in JobScreens
  <2>1. work = <<>> \/ \E w \in JobRecords : work = <<w>>
      BY DEF JobsInv, JobsTypes
  <2>2. JobOf(work) = work[i].job
      BY <2>1, JobShapes
  <2>3. Jobs(k)!Without(i) = <<>>
      BY <2>1, JobEnds
  <2> QED
      BY <2>2, <2>3 DEF JobsInv, JobsTypes, JobOf
<1>4. JobsTypes(k)'
  <2>1. busy' \in BOOLEAN /\ synced' \in BOOLEAN /\ marked' \in BOOLEAN
      BY <1>1, Zenon DEF JobsInv, JobsTypes
  <2> QED
      BY <1>1, <1>2, <2>1 DEF JobsInv, JobsTypes, JobScreens, OneShots
<1>5. Flight(JobOf(work), screen, busy, running, agent.adding)'
    BY <1>1, <1>2 DEF JobsInv, Flight, Waits, OneShots
<1>6. Checking(JobOf(work), screen, check)' /\ Asked(screen, previous, overrides, synced, configuring)'
    BY <1>1, <1>2 DEF JobsInv, JobsTypes, Checking, Asked, OneShots
<1>7. Resting(JobOf(work), screen, busy, report, binary, marked)'
    BY <1>1, <1>2 DEF JobsInv, Resting, OneShots
<1>8. Generating(screen, agent)'
    BY <1>1, <1>2 DEF JobsInv, Generating, OneShots
<1> QED
    BY <1>4, <1>5, <1>6, <1>7, <1>8 DEF JobsInv

LEMMA OneShotKeeps ==
    ASSUME NEW k, JobsBounds(k), JobsInv(k), screen # "quit", NEW i \in DOMAIN work, Jobs(k)!OneShotDone(i), screen = Jobs(k)!Running(work[i].job)
    PROVE  JobsInv(k)'
<1>1. /\ work[i].job \in OneShots /\ work' = Jobs(k)!Without(i) /\ busy' = FALSE /\ screen' = "result"
      /\ screen = IF work[i].job = "tools" THEN "tooling" ELSE work[i].job
      /\ UNCHANGED <<running, check, report, overrides, synced, configuring, agent, binary, marked>>
    BY DEF Jobs!OneShotDone, Jobs!SetScreen, Jobs!disk, Jobs!OneShot, Jobs!Running, OneShots
<1>2. JobOf(work) = work[i].job /\ Jobs(k)!Without(i) = <<>> /\ JobOf(<<>>) = "none" /\ screen \in JobScreens
  <2>1. work = <<>> \/ \E w \in JobRecords : work = <<w>>
      BY DEF JobsInv, JobsTypes
  <2>2. JobOf(work) = work[i].job
      BY <2>1, JobShapes
  <2>3. Jobs(k)!Without(i) = <<>>
      BY <2>1, JobEnds
  <2> QED
      BY <2>2, <2>3 DEF JobsInv, JobsTypes, JobOf
<1>4. JobsTypes(k)'
  <2>1. busy' \in BOOLEAN
      BY <1>1, Zenon DEF JobsInv, JobsTypes
  <2> QED
      BY <1>1, <1>2, <2>1 DEF JobsInv, JobsTypes, JobScreens, OneShots
<1>5. Flight(JobOf(work), screen, busy, running, agent.adding)'
    BY <1>1, <1>2 DEF JobsInv, Flight, Waits, OneShots
<1>6. Checking(JobOf(work), screen, check)' /\ Asked(screen, previous, overrides, synced, configuring)'
    BY <1>1, <1>2 DEF JobsInv, JobsTypes, Checking, Asked, OneShots
<1>7. Resting(JobOf(work), screen, busy, report, binary, marked)'
    BY <1>1, <1>2 DEF JobsInv, Resting, OneShots
<1>8. Generating(screen, agent)'
    BY <1>1, <1>2 DEF JobsInv, Generating, OneShots
<1> QED
    BY <1>4, <1>5, <1>6, <1>7, <1>8 DEF JobsInv

LEMMA PipelineDoneKeeps ==
    ASSUME NEW k, JobsBounds(k), JobsInv(k), screen # "quit", NEW i \in DOMAIN work, Jobs(k)!PipelineDone(i)
    PROVE  JobsInv(k)'
<1>1. /\ work[i].job = "install" /\ work' = Jobs(k)!Without(i) /\ running' = FALSE
      /\ UNCHANGED <<screen, previous, busy, check, report, overrides, synced, configuring, agent, binary, marked>>
    BY DEF Jobs!PipelineDone, Jobs!operation, Jobs!disk
<1>2. JobOf(work) = work[i].job /\ Jobs(k)!Without(i) = <<>> /\ JobOf(<<>>) = "none" /\ screen \in JobScreens
  <2>1. work = <<>> \/ \E w \in JobRecords : work = <<w>>
      BY DEF JobsInv, JobsTypes
  <2>2. JobOf(work) = work[i].job
      BY <2>1, JobShapes
  <2>3. Jobs(k)!Without(i) = <<>>
      BY <2>1, JobEnds
  <2> QED
      BY <2>2, <2>3 DEF JobsInv, JobsTypes, JobOf
<1>4. JobsTypes(k)'
  <2>1. running' \in BOOLEAN
      BY <1>1, Zenon DEF JobsInv, JobsTypes
  <2> QED
      BY <1>1, <1>2, <2>1 DEF JobsInv, JobsTypes, JobScreens, OneShots
<1>5. Flight(JobOf(work), screen, busy, running, agent.adding)'
    BY <1>1, <1>2 DEF JobsInv, Flight, Waits, OneShots
<1>6. Checking(JobOf(work), screen, check)' /\ Asked(screen, previous, overrides, synced, configuring)'
    BY <1>1, <1>2 DEF JobsInv, JobsTypes, Checking, Asked, OneShots
<1>7. Resting(JobOf(work), screen, busy, report, binary, marked)'
    BY <1>1, <1>2 DEF JobsInv, Resting, OneShots
<1>8. Generating(screen, agent)'
    BY <1>1, <1>2 DEF JobsInv, Generating, OneShots
<1> QED
    BY <1>4, <1>5, <1>6, <1>7, <1>8 DEF JobsInv

LEMMA AgentAddedKeeps ==
    ASSUME NEW k, JobsBounds(k), JobsInv(k), screen # "quit", NEW i \in DOMAIN work, Jobs(k)!InstallDone(i)
    PROVE  JobsInv(k)'
<1>1. /\ work[i].job = "agent" /\ work' = Jobs(k)!Without(i) /\ screen' \in {"preview", "added"}
      /\ agent' = [agent EXCEPT !.adding = FALSE]
      /\ UNCHANGED <<busy, running, check, report, overrides, synced, configuring, binary, marked>>
    BY DEF Jobs!InstallDone, Jobs!SetScreen, Jobs!operation, Jobs!disk
<1>2. JobOf(work) = work[i].job /\ Jobs(k)!Without(i) = <<>> /\ JobOf(<<>>) = "none" /\ screen \in JobScreens
  <2>1. work = <<>> \/ \E w \in JobRecords : work = <<w>>
      BY DEF JobsInv, JobsTypes
  <2>2. JobOf(work) = work[i].job
      BY <2>1, JobShapes
  <2>3. Jobs(k)!Without(i) = <<>>
      BY <2>1, JobEnds
  <2> QED
      BY <2>2, <2>3 DEF JobsInv, JobsTypes, JobOf
<1>3. /\ agent' \in AgentTypes(k) /\ agent'.adding = FALSE /\ agent'.generating = agent.generating
      /\ agent'.asked = agent.asked /\ agent'.flying = agent.flying /\ agent'.generated = agent.generated
  <2>1. agent \in AgentRecords(Requests(k), InFlight(k))
      BY DEF JobsInv, JobsTypes, AgentTypes
  <2> QED
      BY <1>1, <2>1, AgentAdds DEF AgentTypes
<1>9. screen = "adding"
    BY <1>1, <1>2 DEF JobsInv, Flight, Waits
<1>4. JobsTypes(k)'
    BY <1>1, <1>2, <1>3 DEF JobsInv, JobsTypes, JobScreens
<1>5. Flight(JobOf(work), screen, busy, running, agent.adding)'
    BY <1>1, <1>2, <1>3, <1>9 DEF JobsInv, Flight, Waits, OneShots
<1>6. Checking(JobOf(work), screen, check)' /\ Asked(screen, previous, overrides, synced, configuring)'
    BY <1>1, <1>2, <1>3, <1>9 DEF JobsInv, JobsTypes, Checking, Asked, OneShots
<1>7. Resting(JobOf(work), screen, busy, report, binary, marked)'
    BY <1>1, <1>2, <1>3, <1>9 DEF JobsInv, Resting, OneShots
<1>8. Generating(screen, agent)'
    BY <1>1, <1>2, <1>3, <1>9 DEF JobsInv, Generating, OneShots
<1> QED
    BY <1>4, <1>5, <1>6, <1>7, <1>8 DEF JobsInv

LEMMA GeneratedKeeps ==
    ASSUME NEW k, JobsBounds(k), JobsInv(k), screen # "quit", NEW n \in agent.flying, Jobs(k)!Generated(n)
    PROVE  JobsInv(k)'
<1>1. /\ UNCHANGED <<busy, running, work, check, report, overrides, synced, configuring, binary, marked>>
      /\ \/ /\ ~agent.generating /\ agent' = [agent EXCEPT !.flying = @ \ {n}] /\ UNCHANGED <<screen, previous>>
         \/ /\ agent.generating /\ screen' = "preview"
            /\ agent' = [agent EXCEPT !.flying = @ \ {n}, !.generating = FALSE, !.generated = n]
         \/ /\ agent.generating /\ UNCHANGED <<screen, previous>>
            /\ agent' = [agent EXCEPT !.flying = @ \ {n}, !.generating = FALSE, !.failed = TRUE]
    BY DEF Jobs!Generated, Jobs!SetScreen, Jobs!operation, Jobs!disk
<1>2. agent.generating => screen = "generating" /\ JobOf(work) = "none"
    BY Idle DEF JobsInv, Generating, Calm
<1>3. /\ agent' \in AgentTypes(k) /\ agent'.asked = agent.asked /\ agent'.flying = agent.flying \ {n}
      /\ agent'.adding = agent.adding /\ n # 0
      /\ \/ /\ agent'.generating = agent.generating /\ agent'.generated = agent.generated /\ ~agent.generating
            /\ UNCHANGED <<screen, previous>>
         \/ /\ agent'.generating = FALSE /\ agent'.generated = n /\ agent.generating /\ screen' = "preview"
         \/ /\ agent'.generating = FALSE /\ agent'.generated = agent.generated /\ agent.generating
            /\ UNCHANGED <<screen, previous>>
  <2>1. agent \in AgentRecords(Requests(k), InFlight(k))
      BY DEF JobsInv, JobsTypes, AgentTypes
  <2>2. agent.flying \in InFlight(k) /\ agent.asked \in Requests(k)
      BY <2>1 DEF AgentRecords
  <2>3. n \in Requests(k) /\ agent.flying \ {n} \in InFlight(k)
      BY <2>2 DEF InFlight, Requests, JobsBounds
  <2>7. n # 0
      BY <2>2 DEF InFlight, JobsBounds
  <2>4. CASE agent' = [agent EXCEPT !.flying = @ \ {n}] /\ ~agent.generating /\ UNCHANGED <<screen, previous>>
    <3>1. /\ agent' \in AgentTypes(k) /\ agent'.asked = agent.asked /\ agent'.flying = agent.flying \ {n}
          /\ agent'.adding = agent.adding /\ agent'.generating = agent.generating /\ agent'.generated = agent.generated
        BY <2>1, <2>3, <2>4, AgentDrops DEF AgentTypes
    <3> QED
        BY <2>7, <2>4, <3>1
  <2>5. CASE /\ agent' = [agent EXCEPT !.flying = @ \ {n}, !.generating = FALSE, !.generated = n]
             /\ agent.generating /\ screen' = "preview"
    <3>1. /\ agent' \in AgentTypes(k) /\ agent'.asked = agent.asked /\ agent'.flying = agent.flying \ {n}
          /\ agent'.adding = agent.adding /\ agent'.generating = FALSE /\ agent'.generated = n
        BY <2>1, <2>3, <2>5, AgentShows DEF AgentTypes
    <3> QED
        BY <2>7, <2>5, <3>1
  <2>6. CASE /\ agent' = [agent EXCEPT !.flying = @ \ {n}, !.generating = FALSE, !.failed = TRUE]
             /\ agent.generating /\ UNCHANGED <<screen, previous>>
    <3>1. /\ agent' \in AgentTypes(k) /\ agent'.asked = agent.asked /\ agent'.flying = agent.flying \ {n}
          /\ agent'.adding = agent.adding /\ agent'.generating = FALSE /\ agent'.generated = agent.generated
        BY <2>1, <2>3, <2>6, AgentFails DEF AgentTypes
    <3> QED
        BY <2>7, <2>6, <3>1
  <2> QED
      BY <1>1, <2>4, <2>5, <2>6
<1>4. JobsTypes(k)'
    BY <1>1, <1>3 DEF JobsInv, JobsTypes, JobScreens
<1>5. Flight(JobOf(work), screen, busy, running, agent.adding)'
    BY <1>1, <1>2, <1>3 DEF JobsInv, Flight, Waits, OneShots
<1>6. Checking(JobOf(work), screen, check)' /\ Asked(screen, previous, overrides, synced, configuring)'
    BY <1>1, <1>2, <1>3 DEF JobsInv, JobsTypes, Checking, Asked, OneShots
<1>7. Resting(JobOf(work), screen, busy, report, binary, marked)'
    BY <1>1, <1>2, <1>3 DEF JobsInv, Resting, OneShots
<1>8. Generating(screen, agent)'
    BY <1>1, <1>2, <1>3 DEF JobsInv, Generating, OneShots
<1> QED
    BY <1>4, <1>5, <1>6, <1>7, <1>8 DEF JobsInv

LEMMA AnswerKeeps == ASSUME NEW k, JobsBounds(k), JobsInv(k), Jobs(k)!Answer PROVE JobsInv(k)'
<1>1. screen # "quit"
    BY DEF Jobs!Answer
<1>2. CASE Jobs(k)!CheckResult
    BY <1>1, <1>2, CheckKeeps
<1>3. ASSUME NEW i \in DOMAIN work,
             \/ Jobs(k)!UpgradeDone(i) \/ Jobs(k)!UpgradePhaseCompleted(i) \/ Jobs(k)!SyncDone(i)
             \/ Jobs(k)!OneShotDone(i) \/ Jobs(k)!PipelineDone(i) \/ Jobs(k)!InstallDone(i)
      PROVE  JobsInv(k)'
  <2>1. JobOf(work) = work[i].job
      BY JobShapes DEF JobsInv, JobsTypes
  <2>2. /\ work[i].job = "upgrade" => screen = "upgrade"
        /\ work[i].job = "both" => screen = "both"
        /\ work[i].job \in {"sync", "mark"} => screen \in {"sync", "both"}
        /\ work[i].job \in OneShots => screen = Jobs(k)!Running(work[i].job)
      BY <1>1, <2>1 DEF JobsInv, Flight, Waits, OneShots, Jobs!Running
  <2>3. CASE Jobs(k)!UpgradeDone(i)
    <3>1. work[i].job = "upgrade"
        BY <2>3 DEF Jobs!UpgradeDone
    <3> QED
        BY <1>1, <2>2, <2>3, <3>1, UpgradedKeeps
  <2>4. CASE Jobs(k)!UpgradePhaseCompleted(i)
    <3>1. work[i].job = "both"
        BY <2>4 DEF Jobs!UpgradePhaseCompleted
    <3> QED
        BY <1>1, <2>2, <2>4, <3>1, PhaseKeeps
  <2>5. CASE Jobs(k)!SyncDone(i)
    <3>1. work[i].job \in {"sync", "mark"}
        BY <2>5 DEF Jobs!SyncDone
    <3> QED
        BY <1>1, <2>2, <2>5, <3>1, SyncedKeeps
  <2>6. CASE Jobs(k)!OneShotDone(i)
    <3>1. work[i].job \in OneShots
        BY <2>6 DEF Jobs!OneShotDone, Jobs!OneShot, OneShots
    <3> QED
        BY <1>1, <2>2, <2>6, <3>1, OneShotKeeps
  <2>7. CASE Jobs(k)!PipelineDone(i)
      BY <1>1, <2>7, PipelineDoneKeeps
  <2>8. CASE Jobs(k)!InstallDone(i)
      BY <1>1, <2>8, AgentAddedKeeps
  <2> QED
      BY <1>3, <2>3, <2>4, <2>5, <2>6, <2>7, <2>8
<1>4. ASSUME NEW n \in agent.flying, Jobs(k)!Generated(n) PROVE JobsInv(k)'
    BY <1>1, <1>4, GeneratedKeeps
<1> QED
    BY <1>2, <1>3, <1>4 DEF Jobs!Answer

(* What a replaced binary is left with is to quit.                         *)
LEMMA LeaveKeeps ==
    ASSUME NEW k, JobsBounds(k), JobsInv(k),
           \/ Jobs(k)!EnterUpgrade \/ Jobs(k)!Esc \/ Jobs(k)!EnterResult \/ Jobs(k)!PressQ
    PROVE  JobsInv(k)'
<1>1. CASE Jobs(k)!EnterUpgrade /\ report # "self"
    BY <1>1, EnterUpgradeKeeps
<1>2. CASE Jobs(k)!Esc /\ report # "self"
    BY <1>2, EscKeeps
<1>3. CASE Jobs(k)!EnterResult /\ screen # "installing"
    BY <1>3, ResultKeeps
<1>4. CASE \/ Jobs(k)!EnterUpgrade /\ report = "self"
           \/ Jobs(k)!Esc /\ report = "self"
           \/ Jobs(k)!EnterResult /\ screen = "installing"
           \/ Jobs(k)!PressQ
  <2>1. /\ screen' = "quit" /\ work' = <<>>
        /\ UNCHANGED <<busy, running, check, report, overrides, synced, configuring, agent, binary, marked>>
      BY <1>4 DEF Jobs!EnterUpgrade, Jobs!Esc, Jobs!EnterResult, Jobs!PressQ, Jobs!Quit, Jobs!SetScreen,
                  Jobs!operation, Jobs!disk
  <2> QED
      BY <2>1, QuitKeeps
<1> QED
    BY <1>1, <1>2, <1>3, <1>4

LEMMA JobsStep ==
    ASSUME NEW k, JobsBounds(k), JobsInv(k), [Jobs(k)!Next]_(Jobs(k)!vars)
    PROVE  JobsInv(k)'
<1>1. CASE UNCHANGED Jobs(k)!vars
  <2>1. /\ UNCHANGED <<screen, previous, busy, running, work, check, report, overrides, synced, configuring, agent,
                       binary, marked>>
        /\ JobOf(work') = JobOf(work)
      BY <1>1 DEF Jobs!vars
  <2>2. JobsTypes(k)'
      BY <2>1 DEF JobsInv, JobsTypes
  <2>3. /\ Flight(JobOf(work), screen, busy, running, agent.adding)' /\ Checking(JobOf(work), screen, check)'
        /\ Asked(screen, previous, overrides, synced, configuring)'
        /\ Resting(JobOf(work), screen, busy, report, binary, marked)' /\ Generating(screen, agent)'
      BY <2>1 DEF JobsInv
  <2> QED
      BY <2>2, <2>3 DEF JobsInv
<1>2. CASE \/ Jobs(k)!Open \/ Jobs(k)!OpenPicker \/ Jobs(k)!ConfirmPicker \/ Jobs(k)!OpenProfile \/ Jobs(k)!KeepVersion
    BY <1>2, OpenKeeps, PickerKeeps, ProfileKeeps
<1>3. CASE \/ Jobs(k)!UpdateNow \/ Jobs(k)!EnterSync \/ Jobs(k)!SyncProfile \/ Jobs(k)!Confirm
           \/ Jobs(k)!StartInstalling
    BY <1>3, UpgradeKeeps, EnterSyncKeeps, SyncProfileKeeps, ConfirmKeeps, StartInstallingKeeps
<1>4. CASE Jobs(k)!Generate \/ Jobs(k)!StartInstallation \/ Jobs(k)!Answer
    BY <1>4, GenerateKeeps, StartInstallationKeeps, AnswerKeeps
<1>5. CASE Jobs(k)!EnterUpgrade \/ Jobs(k)!Esc \/ Jobs(k)!EnterResult \/ Jobs(k)!PressQ
    BY <1>5, LeaveKeeps
<1> QED
    BY <1>1, <1>2, <1>3, <1>4, <1>5 DEF Jobs!Next

LEMMA JobsInvHolds == ASSUME NEW k, JobsBounds(k) PROVE Jobs(k)!Spec => []JobsInv(k)
<1>1. Jobs(k)!Init => JobsInv(k)
    BY JobsStart
<1>2. JobsInv(k) /\ [Jobs(k)!Next]_(Jobs(k)!vars) => JobsInv(k)'
    BY JobsStep
<1> QED
    BY <1>1, <1>2, PTL DEF Jobs!Spec

LEMMA JobsTyped == ASSUME NEW k, JobsInv(k) PROVE Jobs(k)!TypeOK
<1>1. work \in Seq([job : Jobs(k)!Jobs, with : {Nothing, "models", "profile"}])
  <2>1. work \in Seq(JobRecords)
      BY JobShapes DEF JobsInv, JobsTypes
  <2>2. JobRecords = [job : Jobs(k)!Jobs, with : {Nothing, "models", "profile"}]
      BY DEF JobRecords, JobNames, OneShots, Jobs!Jobs, Jobs!OneShot
  <2> QED
      BY <2>1, <2>2
<1>2. screen \in DOMAIN Jobs(k)!Backward \cup {"welcome", "prompt", "picker", "tooling", "adding", "quit"}
    BY DEF JobsInv, JobsTypes, JobScreens, OneShots, Jobs!Backward
<1>3. agent \in [generating : BOOLEAN, failed : BOOLEAN, asked : 0 .. k.MaxAsked, flying : SUBSET (1 .. k.MaxAsked),
                 generated : 0 .. k.MaxAsked, adding : BOOLEAN]
    BY DEF JobsInv, JobsTypes, AgentTypes, AgentRecords, Requests, InFlight
<1> QED
    BY <1>1, <1>2, <1>3 DEF JobsInv, JobsTypes, Jobs!TypeOK

(* The properties name no constant, so that those of one setting are those *)
(* of every other.                                                         *)
LEMMA JobsSound ==
    ASSUME NEW k, NEW q, JobsInv(k)
    PROVE  Jobs(q)!Attended /\ Jobs(q)!OneCheck /\ Jobs(q)!OverridesAsked /\ Jobs(q)!OldBinaryRests
<1>1. /\ \A i \in DOMAIN work : work[i].job = JobOf(work) /\ JobOf(work) \in JobNames
      /\ work = <<>> <=> JobOf(work) = "none"
      /\ Len(work) <= 1
  <2>1. work = <<>> \/ \E w \in JobRecords : work = <<w>>
      BY DEF JobsInv, JobsTypes
  <2> QED
      BY <2>1, JobShapes DEF JobRecords
<1>2. Jobs(q)!Attended
  <2> SUFFICES ASSUME screen # "quit"
               PROVE  /\ Len(work) <= 1
                      /\ \A i \in DOMAIN work : screen \in Jobs(q)!AnsweredOn(work[i].job)
                      /\ (busy \/ running \/ agent.adding) <=> work # <<>>
      BY DEF Jobs!Attended
  <2>1. (busy \/ running \/ agent.adding) <=> JobOf(work) # "none"
      BY DEF JobsInv, Flight
  <2>2. ASSUME JobOf(work) \in JobNames PROVE screen \in Jobs(q)!AnsweredOn(JobOf(work))
      BY <2>2 DEF JobsInv, Flight, Waits, JobNames, OneShots, Jobs!AnsweredOn, Jobs!OneShot, Jobs!Running
  <2> QED
      BY <1>1, <2>1, <2>2
<1>3. Jobs(q)!OneCheck
    BY <1>1 DEF JobsInv, Checking, Jobs!OneCheck
<1>4. Jobs(q)!OverridesAsked
    BY DEF JobsInv, Asked, Jobs!OverridesAsked
<1>5. Jobs(q)!OldBinaryRests
    BY <1>1 DEF JobsInv, Resting, Jobs!OldBinaryRests, JobNames
<1> QED
    BY <1>2, <1>3, <1>4, <1>5

-----------------------------------------------------------------------------
(* The user who waits.                                                     *)

LEMMA LatestStart == ASSUME NEW k, Jobs(k)!Init PROVE Latest(agent)
    BY DEF Jobs!Init, Latest

LEMMA LatestOpens == ASSUME NEW k, JobsBounds(k), JobsInv(k), Latest(agent), Jobs(k)!Open PROVE Latest(agent)'
<1>1. \/ UNCHANGED agent
      \/ agent' = [agent EXCEPT !.generating = FALSE, !.failed = FALSE, !.generated = 0, !.adding = FALSE]
    BY DEF Jobs!Open
<1>2. agent \in AgentRecords(Requests(k), InFlight(k)) /\ 0 \in Requests(k)
    BY DEF Requests, JobsBounds, JobsInv, JobsTypes, AgentTypes
<1>3. CASE agent' = agent
    BY <1>3 DEF Latest
<1>4. CASE agent' = [agent EXCEPT !.generating = FALSE, !.failed = FALSE, !.generated = 0, !.adding = FALSE]
  <2>1. agent'.asked = agent.asked /\ agent'.flying = agent.flying /\ agent'.generated = 0
      BY <1>2, <1>4 DEF AgentRecords
  <2> QED
      BY <2>1 DEF Latest
<1> QED
    BY <1>1, <1>3, <1>4

LEMMA LatestAsks ==
    ASSUME NEW k, JobsBounds(k), JobsInv(k), k.Patient, Jobs(k)!Generate
    PROVE  Latest(agent)'
<1>1. /\ agent.asked < k.MaxAsked /\ agent.flying = {}
      /\ agent' = [agent EXCEPT !.generating = TRUE, !.failed = FALSE, !.generated = 0, !.asked = @ + 1,
                                !.flying = @ \cup {agent.asked + 1}]
    BY DEF Jobs!Generate
<1>2. agent \in AgentRecords(Requests(k), InFlight(k)) /\ 0 \in Requests(k)
    BY DEF Requests, JobsBounds, JobsInv, JobsTypes, AgentTypes
<1>3. agent.asked \in Requests(k) /\ agent.flying \in InFlight(k)
    BY <1>2 DEF AgentRecords
<1>4. agent.asked + 1 \in Requests(k) /\ agent.flying \cup {agent.asked + 1} \in InFlight(k)
    BY <1>1, <1>3 DEF Requests, InFlight, JobsBounds
<1>5. agent'.asked = agent.asked + 1 /\ agent'.flying = agent.flying \cup {agent.asked + 1} /\ agent'.generated = 0
    BY <1>1, <1>2 DEF AgentRecords
<1> QED
    BY <1>1, <1>5 DEF Latest

LEMMA LatestAdds ==
    ASSUME NEW k, JobsInv(k), Latest(agent), NEW x \in BOOLEAN, agent' = [agent EXCEPT !.adding = x]
    PROVE  Latest(agent)'
<1>1. agent \in AgentRecords(Requests(k), InFlight(k))
    BY DEF JobsInv, JobsTypes, AgentTypes
<1>2. agent'.asked = agent.asked /\ agent'.flying = agent.flying /\ agent'.generated = agent.generated
    BY <1>1 DEF AgentRecords
<1> QED
    BY <1>2 DEF Latest

LEMMA LatestLeaves == ASSUME NEW k, JobsInv(k), Latest(agent), Jobs(k)!Esc PROVE Latest(agent)'
<1>1. UNCHANGED agent \/ agent' = [agent EXCEPT !.failed = FALSE, !.generating = FALSE]
    BY DEF Jobs!Esc
<1>2. agent \in AgentRecords(Requests(k), InFlight(k))
    BY DEF JobsInv, JobsTypes, AgentTypes
<1>3. CASE agent' = [agent EXCEPT !.failed = FALSE, !.generating = FALSE]
  <2>1. agent'.asked = agent.asked /\ agent'.flying = agent.flying /\ agent'.generated = agent.generated
      BY <1>2, <1>3 DEF AgentRecords
  <2> QED
      BY <2>1 DEF Latest
<1> QED
    BY <1>1, <1>3 DEF Latest

LEMMA LatestComes ==
    ASSUME NEW k, JobsBounds(k), JobsInv(k), Latest(agent), NEW n \in agent.flying, Jobs(k)!Generated(n)
    PROVE  Latest(agent)'
<1>1. \/ agent' = [agent EXCEPT !.flying = @ \ {n}]
      \/ agent' = [agent EXCEPT !.flying = @ \ {n}, !.generating = FALSE, !.generated = n]
      \/ agent' = [agent EXCEPT !.flying = @ \ {n}, !.generating = FALSE, !.failed = TRUE]
    BY DEF Jobs!Generated
<1>2. agent \in AgentRecords(Requests(k), InFlight(k))
    BY DEF JobsInv, JobsTypes, AgentTypes
<1>3. agent.flying \in InFlight(k) /\ n = agent.asked
    BY <1>2 DEF AgentRecords, Latest
<1>4. n \in Requests(k) /\ agent.flying \ {n} \in InFlight(k)
    BY <1>3 DEF InFlight, Requests, JobsBounds
<1>5. /\ agent'.asked = agent.asked /\ agent'.flying = agent.flying \ {n}
      /\ agent'.generated = agent.generated \/ agent'.generated = n
  <2>1. CASE agent' = [agent EXCEPT !.flying = @ \ {n}]
      BY <1>2, <2>1 DEF AgentRecords
  <2>2. CASE agent' = [agent EXCEPT !.flying = @ \ {n}, !.generating = FALSE, !.generated = n]
    <3>1. agent'.asked = agent.asked /\ agent'.flying = agent.flying \ {n} /\ agent'.generated = n
        BY <1>2, <2>2 DEF AgentRecords
    <3> QED
        BY <3>1
  <2>3. CASE agent' = [agent EXCEPT !.flying = @ \ {n}, !.generating = FALSE, !.failed = TRUE]
      BY <1>2, <2>3 DEF AgentRecords
  <2> QED
      BY <1>1, <2>1, <2>2, <2>3
<1> QED
    BY <1>3, <1>5 DEF Latest

LEMMA LatestStep ==
    ASSUME NEW k, JobsBounds(k), JobsInv(k), k.Patient, Latest(agent), [Jobs(k)!Next]_(Jobs(k)!vars)
    PROVE  Latest(agent)'
<1>1. CASE UNCHANGED agent
    BY <1>1 DEF Latest
<1>2. CASE Jobs(k)!Open
    BY <1>2, LatestOpens
<1>3. CASE Jobs(k)!Generate
    BY <1>3, LatestAsks
<1>4. CASE Jobs(k)!StartInstallation
  <2>1. agent' = [agent EXCEPT !.adding = TRUE]
      BY <1>4 DEF Jobs!StartInstallation
  <2> QED
      BY <2>1, LatestAdds
<1>5. CASE Jobs(k)!Esc
    BY <1>5, LatestLeaves
<1>6. CASE Jobs(k)!Answer
  <2>1. ASSUME NEW n \in agent.flying, Jobs(k)!Generated(n) PROVE Latest(agent)'
      BY <2>1, LatestComes
  <2>2. ASSUME NEW i \in DOMAIN work, Jobs(k)!InstallDone(i) PROVE Latest(agent)'
    <3>1. agent' = [agent EXCEPT !.adding = FALSE]
        BY <2>2 DEF Jobs!InstallDone
    <3> QED
        BY <3>1, LatestAdds
  <2>3. ASSUME \/ Jobs(k)!CheckResult
               \/ \E i \in DOMAIN work : \/ Jobs(k)!UpgradeDone(i) \/ Jobs(k)!UpgradePhaseCompleted(i)
                                         \/ Jobs(k)!SyncDone(i) \/ Jobs(k)!OneShotDone(i) \/ Jobs(k)!PipelineDone(i)
        PROVE  UNCHANGED agent
      BY <2>3 DEF Jobs!CheckResult, Jobs!UpgradeDone, Jobs!UpgradePhaseCompleted, Jobs!SyncDone, Jobs!OneShotDone,
                  Jobs!PipelineDone
  <2> QED
      BY <1>1, <1>6, <2>1, <2>2, <2>3 DEF Jobs!Answer
<1> QED
  <2>1. CASE UNCHANGED Jobs(k)!vars
      BY <1>1, <2>1 DEF Jobs!vars
  <2>2. CASE \/ Jobs(k)!OpenPicker \/ Jobs(k)!ConfirmPicker \/ Jobs(k)!OpenProfile \/ Jobs(k)!UpdateNow
             \/ Jobs(k)!KeepVersion \/ Jobs(k)!EnterUpgrade \/ Jobs(k)!EnterSync \/ Jobs(k)!SyncProfile
             \/ Jobs(k)!Confirm \/ Jobs(k)!StartInstalling \/ Jobs(k)!EnterResult \/ Jobs(k)!PressQ
    <3>1. UNCHANGED agent
        BY <2>2 DEF Jobs!OpenPicker, Jobs!ConfirmPicker, Jobs!OpenProfile, Jobs!UpdateNow, Jobs!KeepVersion,
                    Jobs!EnterUpgrade, Jobs!EnterSync, Jobs!SyncProfile, Jobs!Confirm, Jobs!StartInstalling,
                    Jobs!EnterResult, Jobs!PressQ
    <3> QED
        BY <1>1, <3>1
  <2> QED
      BY <1>2, <1>3, <1>4, <1>5, <1>6, <2>1, <2>2 DEF Jobs!Next

LEMMA JobsGenerated ==
    ASSUME NEW k, JobsInv(k), Latest(agent)
    PROVE  Jobs(k)!GeneratedAsAsked
    BY DEF JobsInv, Generating, Latest, Jobs!GeneratedAsAsked

-----------------------------------------------------------------------------
(***************************************************************************)
(* InstallWizard                                                           *)
(***************************************************************************)

PickScreens == {"preset", "deps", "claude", "kiro", "codex", "mode", "models", "tdd"}

(* The order of the pickers: which follow a screen, and which it follows.  *)
LEMMA FlowLonger ==
    ASSUME NEW f, f \in Seq(PickScreens), NEW on \in PickScreens, NEW to, to = f \o <<on>>
    PROVE  /\ to \in Seq(PickScreens) /\ Len(f) \in Nat /\ Len(to) \in Nat
           /\ \A i \in 1 .. Len(f) : to[i] = f[i]
           /\ Len(to) = Len(f) + 1 /\ to[Len(to)] = on
<1>1. <<on>> \in Seq(PickScreens) /\ Len(<<on>>) = 1 /\ <<on>>[1] = on
    OBVIOUS
<1>2. to \in Seq(PickScreens) /\ Len(to) = Len(f) + 1 /\ Len(f) \in Nat
    BY <1>1, ConcatProperties
<1>3. \A i \in 1 .. Len(f) : to[i] = f[i]
    BY <1>1, ConcatProperties
<1>4. to[Len(f) + 1] = on
    BY <1>1, ConcatProperties
<1> QED
    BY <1>2, <1>3, <1>4

(* The places of the pickers in the flow f: each comes after those before  *)
(* it, or takes no place.                                                  *)
FlowAt(k, s, f, n2, n3, n4, n5, n6, n7, n8, n9) ==
    /\ f = Wizard(k)!PickerFlow(s) /\ Len(f) = n9 /\ f[1] = "preset"
    /\ IF Wizard(k)!Custom(s) THEN n2 = 1 + 1 /\ f[n2] = "deps" ELSE n2 = 1
    /\ IF Wizard(k)!ShowFor(s, "claude") THEN n3 = n2 + 1 /\ f[n3] = "claude" ELSE n3 = n2
    /\ IF Wizard(k)!ShowFor(s, "kiro") THEN n4 = n3 + 1 /\ f[n4] = "kiro" ELSE n4 = n3
    /\ IF Wizard(k)!ShowFor(s, "codex") THEN n5 = n4 + 1 /\ f[n5] = "codex" ELSE n5 = n4
    /\ IF Wizard(k)!ShowFor(s, "opencode") THEN n6 = n5 + 1 /\ f[n6] = "mode" ELSE n6 = n5
    /\ IF Wizard(k)!ShowFor(s, "opencode") /\ s.mode = "multi" THEN n7 = n6 + 1 /\ f[n7] = "models" ELSE n7 = n6
    /\ IF Wizard(k)!ShowTDD(s) THEN n8 = n7 + 1 /\ f[n8] = "tdd" ELSE n8 = n7
    /\ IF ~Wizard(k)!Custom(s) THEN n9 = n8 + 1 /\ f[n9] = "deps" ELSE n9 = n8

LEMMA FlowPlaces ==
    ASSUME NEW k, NEW s
    PROVE  \E f \in Seq(PickScreens), n2, n3, n4, n5, n6, n7, n8, n9 \in Nat :
               FlowAt(k, s, f, n2, n3, n4, n5, n6, n7, n8, n9)
<1>0. "preset" \in PickScreens /\ "deps" \in PickScreens /\ "claude" \in PickScreens /\ "kiro" \in PickScreens /\ "codex" \in PickScreens /\ "mode" \in PickScreens /\ "models" \in PickScreens /\ "tdd" \in PickScreens
    BY DEF PickScreens
<1>1. PICK h1 : h1 = <<"preset">>
    OBVIOUS
<1>2. PICK e2, h2 : e2 = Wizard(k)!If(Wizard(k)!Custom(s), "deps") /\ h2 = h1 \o e2
    OBVIOUS
<1>3. PICK e3, h3 : e3 = Wizard(k)!If(Wizard(k)!ShowFor(s, "claude"), "claude") /\ h3 = h2 \o e3
    OBVIOUS
<1>4. PICK e4, h4 : e4 = Wizard(k)!If(Wizard(k)!ShowFor(s, "kiro"), "kiro") /\ h4 = h3 \o e4
    OBVIOUS
<1>5. PICK e5, h5 : e5 = Wizard(k)!If(Wizard(k)!ShowFor(s, "codex"), "codex") /\ h5 = h4 \o e5
    OBVIOUS
<1>6. PICK e6, h6 : e6 = Wizard(k)!If(Wizard(k)!ShowFor(s, "opencode"), "mode") /\ h6 = h5 \o e6
    OBVIOUS
<1>7. PICK e7, h7 : e7 = Wizard(k)!If(Wizard(k)!ShowFor(s, "opencode") /\ s.mode = "multi", "models") /\ h7 = h6 \o e7
    OBVIOUS
<1>8. PICK e8, h8 : e8 = Wizard(k)!If(Wizard(k)!ShowTDD(s), "tdd") /\ h8 = h7 \o e8
    OBVIOUS
<1>9. PICK e9, h9 : e9 = Wizard(k)!If(~Wizard(k)!Custom(s), "deps") /\ h9 = h8 \o e9
    OBVIOUS
<1>11. h1 \in Seq(PickScreens) /\ Len(h1) = 1 /\ h1[1] = "preset"
    BY <1>0, <1>1
<1>12. /\ h2 \in Seq(PickScreens) /\ Len(h2) \in Nat
       /\ \A i \in 1 .. Len(h1) : h2[i] = h1[i]
       /\ IF Wizard(k)!Custom(s) THEN Len(h2) = Len(h1) + 1 /\ h2[Len(h2)] = "deps" ELSE Len(h2) = Len(h1)
  <2>1. h1 \in Seq(PickScreens) /\ h2 = h1 \o e2 /\ "deps" \in PickScreens
      BY <1>0, <1>2, <1>11
  <2>2. CASE Wizard(k)!Custom(s)
    <3>1. e2 = <<"deps">>
        BY <1>2, <2>2 DEF Wizard!If
    <3>2. h2 = h1 \o <<"deps">>
        BY <2>1, <3>1
    <3>3. /\ h2 \in Seq(PickScreens) /\ Len(h2) \in Nat
          /\ \A i \in 1 .. Len(h1) : h2[i] = h1[i]
          /\ Len(h2) = Len(h1) + 1 /\ h2[Len(h2)] = "deps"
        BY <2>1, <3>2, FlowLonger
    <3> QED
        BY <2>2, <3>3
  <2>3. CASE ~(Wizard(k)!Custom(s))
    <3>1. e2 = << >>
        BY <1>2, <2>3 DEF Wizard!If
    <3>2. h2 = h1
        BY <2>1, <3>1
    <3> QED
        BY <2>1, <2>3, <3>2
  <2> QED
      BY <2>2, <2>3
<1>13. /\ h3 \in Seq(PickScreens) /\ Len(h3) \in Nat
       /\ \A i \in 1 .. Len(h2) : h3[i] = h2[i]
       /\ IF Wizard(k)!ShowFor(s, "claude") THEN Len(h3) = Len(h2) + 1 /\ h3[Len(h3)] = "claude" ELSE Len(h3) = Len(h2)
  <2>1. h2 \in Seq(PickScreens) /\ h3 = h2 \o e3 /\ "claude" \in PickScreens
      BY <1>0, <1>3, <1>12
  <2>2. CASE Wizard(k)!ShowFor(s, "claude")
    <3>1. e3 = <<"claude">>
        BY <1>3, <2>2 DEF Wizard!If
    <3>2. h3 = h2 \o <<"claude">>
        BY <2>1, <3>1
    <3>3. /\ h3 \in Seq(PickScreens) /\ Len(h3) \in Nat
          /\ \A i \in 1 .. Len(h2) : h3[i] = h2[i]
          /\ Len(h3) = Len(h2) + 1 /\ h3[Len(h3)] = "claude"
        BY <2>1, <3>2, FlowLonger
    <3> QED
        BY <2>2, <3>3
  <2>3. CASE ~(Wizard(k)!ShowFor(s, "claude"))
    <3>1. e3 = << >>
        BY <1>3, <2>3 DEF Wizard!If
    <3>2. h3 = h2
        BY <2>1, <3>1
    <3> QED
        BY <2>1, <2>3, <3>2
  <2> QED
      BY <2>2, <2>3
<1>14. /\ h4 \in Seq(PickScreens) /\ Len(h4) \in Nat
       /\ \A i \in 1 .. Len(h3) : h4[i] = h3[i]
       /\ IF Wizard(k)!ShowFor(s, "kiro") THEN Len(h4) = Len(h3) + 1 /\ h4[Len(h4)] = "kiro" ELSE Len(h4) = Len(h3)
  <2>1. h3 \in Seq(PickScreens) /\ h4 = h3 \o e4 /\ "kiro" \in PickScreens
      BY <1>0, <1>4, <1>13
  <2>2. CASE Wizard(k)!ShowFor(s, "kiro")
    <3>1. e4 = <<"kiro">>
        BY <1>4, <2>2 DEF Wizard!If
    <3>2. h4 = h3 \o <<"kiro">>
        BY <2>1, <3>1
    <3>3. /\ h4 \in Seq(PickScreens) /\ Len(h4) \in Nat
          /\ \A i \in 1 .. Len(h3) : h4[i] = h3[i]
          /\ Len(h4) = Len(h3) + 1 /\ h4[Len(h4)] = "kiro"
        BY <2>1, <3>2, FlowLonger
    <3> QED
        BY <2>2, <3>3
  <2>3. CASE ~(Wizard(k)!ShowFor(s, "kiro"))
    <3>1. e4 = << >>
        BY <1>4, <2>3 DEF Wizard!If
    <3>2. h4 = h3
        BY <2>1, <3>1
    <3> QED
        BY <2>1, <2>3, <3>2
  <2> QED
      BY <2>2, <2>3
<1>15. /\ h5 \in Seq(PickScreens) /\ Len(h5) \in Nat
       /\ \A i \in 1 .. Len(h4) : h5[i] = h4[i]
       /\ IF Wizard(k)!ShowFor(s, "codex") THEN Len(h5) = Len(h4) + 1 /\ h5[Len(h5)] = "codex" ELSE Len(h5) = Len(h4)
  <2>1. h4 \in Seq(PickScreens) /\ h5 = h4 \o e5 /\ "codex" \in PickScreens
      BY <1>0, <1>5, <1>14
  <2>2. CASE Wizard(k)!ShowFor(s, "codex")
    <3>1. e5 = <<"codex">>
        BY <1>5, <2>2 DEF Wizard!If
    <3>2. h5 = h4 \o <<"codex">>
        BY <2>1, <3>1
    <3>3. /\ h5 \in Seq(PickScreens) /\ Len(h5) \in Nat
          /\ \A i \in 1 .. Len(h4) : h5[i] = h4[i]
          /\ Len(h5) = Len(h4) + 1 /\ h5[Len(h5)] = "codex"
        BY <2>1, <3>2, FlowLonger
    <3> QED
        BY <2>2, <3>3
  <2>3. CASE ~(Wizard(k)!ShowFor(s, "codex"))
    <3>1. e5 = << >>
        BY <1>5, <2>3 DEF Wizard!If
    <3>2. h5 = h4
        BY <2>1, <3>1
    <3> QED
        BY <2>1, <2>3, <3>2
  <2> QED
      BY <2>2, <2>3
<1>16. /\ h6 \in Seq(PickScreens) /\ Len(h6) \in Nat
       /\ \A i \in 1 .. Len(h5) : h6[i] = h5[i]
       /\ IF Wizard(k)!ShowFor(s, "opencode") THEN Len(h6) = Len(h5) + 1 /\ h6[Len(h6)] = "mode" ELSE Len(h6) = Len(h5)
  <2>1. h5 \in Seq(PickScreens) /\ h6 = h5 \o e6 /\ "mode" \in PickScreens
      BY <1>0, <1>6, <1>15
  <2>2. CASE Wizard(k)!ShowFor(s, "opencode")
    <3>1. e6 = <<"mode">>
        BY <1>6, <2>2 DEF Wizard!If
    <3>2. h6 = h5 \o <<"mode">>
        BY <2>1, <3>1
    <3>3. /\ h6 \in Seq(PickScreens) /\ Len(h6) \in Nat
          /\ \A i \in 1 .. Len(h5) : h6[i] = h5[i]
          /\ Len(h6) = Len(h5) + 1 /\ h6[Len(h6)] = "mode"
        BY <2>1, <3>2, FlowLonger
    <3> QED
        BY <2>2, <3>3
  <2>3. CASE ~(Wizard(k)!ShowFor(s, "opencode"))
    <3>1. e6 = << >>
        BY <1>6, <2>3 DEF Wizard!If
    <3>2. h6 = h5
        BY <2>1, <3>1
    <3> QED
        BY <2>1, <2>3, <3>2
  <2> QED
      BY <2>2, <2>3
<1>17. /\ h7 \in Seq(PickScreens) /\ Len(h7) \in Nat
       /\ \A i \in 1 .. Len(h6) : h7[i] = h6[i]
       /\ IF Wizard(k)!ShowFor(s, "opencode") /\ s.mode = "multi" THEN Len(h7) = Len(h6) + 1 /\ h7[Len(h7)] = "models" ELSE Len(h7) = Len(h6)
  <2>1. h6 \in Seq(PickScreens) /\ h7 = h6 \o e7 /\ "models" \in PickScreens
      BY <1>0, <1>7, <1>16
  <2>2. CASE Wizard(k)!ShowFor(s, "opencode") /\ s.mode = "multi"
    <3>1. e7 = <<"models">>
        BY <1>7, <2>2 DEF Wizard!If
    <3>2. h7 = h6 \o <<"models">>
        BY <2>1, <3>1
    <3>3. /\ h7 \in Seq(PickScreens) /\ Len(h7) \in Nat
          /\ \A i \in 1 .. Len(h6) : h7[i] = h6[i]
          /\ Len(h7) = Len(h6) + 1 /\ h7[Len(h7)] = "models"
        BY <2>1, <3>2, FlowLonger
    <3> QED
        BY <2>2, <3>3
  <2>3. CASE ~(Wizard(k)!ShowFor(s, "opencode") /\ s.mode = "multi")
    <3>1. e7 = << >>
        BY <1>7, <2>3 DEF Wizard!If
    <3>2. h7 = h6
        BY <2>1, <3>1
    <3> QED
        BY <2>1, <2>3, <3>2
  <2> QED
      BY <2>2, <2>3
<1>18. /\ h8 \in Seq(PickScreens) /\ Len(h8) \in Nat
       /\ \A i \in 1 .. Len(h7) : h8[i] = h7[i]
       /\ IF Wizard(k)!ShowTDD(s) THEN Len(h8) = Len(h7) + 1 /\ h8[Len(h8)] = "tdd" ELSE Len(h8) = Len(h7)
  <2>1. h7 \in Seq(PickScreens) /\ h8 = h7 \o e8 /\ "tdd" \in PickScreens
      BY <1>0, <1>8, <1>17
  <2>2. CASE Wizard(k)!ShowTDD(s)
    <3>1. e8 = <<"tdd">>
        BY <1>8, <2>2 DEF Wizard!If
    <3>2. h8 = h7 \o <<"tdd">>
        BY <2>1, <3>1
    <3>3. /\ h8 \in Seq(PickScreens) /\ Len(h8) \in Nat
          /\ \A i \in 1 .. Len(h7) : h8[i] = h7[i]
          /\ Len(h8) = Len(h7) + 1 /\ h8[Len(h8)] = "tdd"
        BY <2>1, <3>2, FlowLonger
    <3> QED
        BY <2>2, <3>3
  <2>3. CASE ~(Wizard(k)!ShowTDD(s))
    <3>1. e8 = << >>
        BY <1>8, <2>3 DEF Wizard!If
    <3>2. h8 = h7
        BY <2>1, <3>1
    <3> QED
        BY <2>1, <2>3, <3>2
  <2> QED
      BY <2>2, <2>3
<1>19. /\ h9 \in Seq(PickScreens) /\ Len(h9) \in Nat
       /\ \A i \in 1 .. Len(h8) : h9[i] = h8[i]
       /\ IF ~Wizard(k)!Custom(s) THEN Len(h9) = Len(h8) + 1 /\ h9[Len(h9)] = "deps" ELSE Len(h9) = Len(h8)
  <2>1. h8 \in Seq(PickScreens) /\ h9 = h8 \o e9 /\ "deps" \in PickScreens
      BY <1>0, <1>9, <1>18
  <2>2. CASE ~Wizard(k)!Custom(s)
    <3>1. e9 = <<"deps">>
        BY <1>9, <2>2 DEF Wizard!If
    <3>2. h9 = h8 \o <<"deps">>
        BY <2>1, <3>1
    <3>3. /\ h9 \in Seq(PickScreens) /\ Len(h9) \in Nat
          /\ \A i \in 1 .. Len(h8) : h9[i] = h8[i]
          /\ Len(h9) = Len(h8) + 1 /\ h9[Len(h9)] = "deps"
        BY <2>1, <3>2, FlowLonger
    <3> QED
        BY <2>2, <3>3
  <2>3. CASE ~(~Wizard(k)!Custom(s))
    <3>1. e9 = << >>
        BY <1>9, <2>3 DEF Wizard!If
    <3>2. h9 = h8
        BY <2>1, <3>1
    <3> QED
        BY <2>1, <2>3, <3>2
  <2> QED
      BY <2>2, <2>3
<1>22. Len(h2) \in 1 .. Len(h2) /\ Len(h2) >= Len(h1)
    BY <1>11, <1>12
<1>23. Len(h3) \in 1 .. Len(h3) /\ Len(h3) >= Len(h2)
    BY <1>11, <1>13, <1>22
<1>24. Len(h4) \in 1 .. Len(h4) /\ Len(h4) >= Len(h3)
    BY <1>11, <1>14, <1>23
<1>25. Len(h5) \in 1 .. Len(h5) /\ Len(h5) >= Len(h4)
    BY <1>11, <1>15, <1>24
<1>26. Len(h6) \in 1 .. Len(h6) /\ Len(h6) >= Len(h5)
    BY <1>11, <1>16, <1>25
<1>27. Len(h7) \in 1 .. Len(h7) /\ Len(h7) >= Len(h6)
    BY <1>11, <1>17, <1>26
<1>28. Len(h8) \in 1 .. Len(h8) /\ Len(h8) >= Len(h7)
    BY <1>11, <1>18, <1>27
<1>29. Len(h9) \in 1 .. Len(h9) /\ Len(h9) >= Len(h8)
    BY <1>11, <1>19, <1>28
<1>31. \A i \in 1 .. Len(h8) : h9[i] = h8[i]
    BY <1>19
<1>32. \A i \in 1 .. Len(h7) : h9[i] = h7[i]
    BY <1>31, <1>18, <1>17, <1>28
<1>33. \A i \in 1 .. Len(h6) : h9[i] = h6[i]
    BY <1>32, <1>17, <1>16, <1>27
<1>34. \A i \in 1 .. Len(h5) : h9[i] = h5[i]
    BY <1>33, <1>16, <1>15, <1>26
<1>35. \A i \in 1 .. Len(h4) : h9[i] = h4[i]
    BY <1>34, <1>15, <1>14, <1>25
<1>36. \A i \in 1 .. Len(h3) : h9[i] = h3[i]
    BY <1>35, <1>14, <1>13, <1>24
<1>37. \A i \in 1 .. Len(h2) : h9[i] = h2[i]
    BY <1>36, <1>13, <1>12, <1>23
<1>38. \A i \in 1 .. Len(h1) : h9[i] = h1[i]
    BY <1>37, <1>12, <1>11, <1>22
<1>40. h9[1] = "preset"
    BY <1>11, <1>38
<1>42. IF Wizard(k)!Custom(s) THEN Len(h2) = 1 + 1 /\ h9[Len(h2)] = "deps" ELSE Len(h2) = 1
    BY <1>12, <1>22, <1>37, <1>11
<1>43. IF Wizard(k)!ShowFor(s, "claude") THEN Len(h3) = Len(h2) + 1 /\ h9[Len(h3)] = "claude" ELSE Len(h3) = Len(h2)
    BY <1>13, <1>23, <1>36
<1>44. IF Wizard(k)!ShowFor(s, "kiro") THEN Len(h4) = Len(h3) + 1 /\ h9[Len(h4)] = "kiro" ELSE Len(h4) = Len(h3)
    BY <1>14, <1>24, <1>35
<1>45. IF Wizard(k)!ShowFor(s, "codex") THEN Len(h5) = Len(h4) + 1 /\ h9[Len(h5)] = "codex" ELSE Len(h5) = Len(h4)
    BY <1>15, <1>25, <1>34
<1>46. IF Wizard(k)!ShowFor(s, "opencode") THEN Len(h6) = Len(h5) + 1 /\ h9[Len(h6)] = "mode" ELSE Len(h6) = Len(h5)
    BY <1>16, <1>26, <1>33
<1>47. IF Wizard(k)!ShowFor(s, "opencode") /\ s.mode = "multi" THEN Len(h7) = Len(h6) + 1 /\ h9[Len(h7)] = "models" ELSE Len(h7) = Len(h6)
    BY <1>17, <1>27, <1>32
<1>48. IF Wizard(k)!ShowTDD(s) THEN Len(h8) = Len(h7) + 1 /\ h9[Len(h8)] = "tdd" ELSE Len(h8) = Len(h7)
    BY <1>18, <1>28, <1>31
<1>49. IF ~Wizard(k)!Custom(s) THEN Len(h9) = Len(h8) + 1 /\ h9[Len(h9)] = "deps" ELSE Len(h9) = Len(h8)
    BY <1>19
<1>50. h9 = Wizard(k)!PickerFlow(s)
    BY <1>1, <1>2, <1>3, <1>4, <1>5, <1>6, <1>7, <1>8, <1>9 DEF Wizard!PickerFlow
<1>51. h9 \in Seq(PickScreens)
    BY <1>19
<1>52. /\ Len(h2) \in Nat /\ Len(h3) \in Nat /\ Len(h4) \in Nat /\ Len(h5) \in Nat /\ Len(h6) \in Nat
       /\ Len(h7) \in Nat /\ Len(h8) \in Nat /\ Len(h9) \in Nat
    BY <1>12, <1>13, <1>14, <1>15, <1>16, <1>17, <1>18, <1>19
<1>53. FlowAt(k, s, h9, Len(h2), Len(h3), Len(h4), Len(h5), Len(h6), Len(h7), Len(h8), Len(h9))
    BY <1>40, <1>42, <1>43, <1>44, <1>45, <1>46, <1>47, <1>48, <1>49, <1>50 DEF FlowAt
<1> QED
    BY <1>51, <1>52, <1>53

(* i is the one place of a screen in the flow f, of length n.              *)
OnlyAt(f, n, on, i) == i \in 1 .. n /\ f[i] = on /\ \A j \in 1 .. n : f[j] = on => j = i
Neighbours(k, s, f, n, on, i) ==
    /\ i # n => Wizard(k)!PickerNext(s, on) = f[1 + i]
    /\ i = n => Wizard(k)!PickerNext(s, on) = Nothing
    /\ i # 1 => Wizard(k)!PickerPrevious(s, on) = f[i - 1]

LEMMA NextAt ==
    ASSUME NEW k, NEW s, NEW f, f = Wizard(k)!PickerFlow(s), NEW n, n = Len(f), n \in Nat,
           NEW on, NEW i, OnlyAt(f, n, on, i)
    PROVE  Neighbours(k, s, f, n, on, i)
<1>0. i \in 1 .. n /\ f[i] = on /\ \A j \in 1 .. n : f[j] = on => j = i
    BY DEF OnlyAt
<1>1. PICK after, before :
        /\ after = {j \in 1 .. n - 1 : f[j] = on} /\ before = {j \in 2 .. n : f[j] = on}
    OBVIOUS
<1>2. /\ Wizard(k)!PickerNext(s, on) = IF after = {} THEN Nothing ELSE f[1 + CHOOSE j \in after : TRUE]
      /\ Wizard(k)!PickerPrevious(s, on) = IF before = {} THEN Nothing ELSE f[(CHOOSE j \in before : TRUE) - 1]
    BY <1>1 DEF Wizard!PickerNext, Wizard!PickerPrevious
<1>3. (i = n => after = {}) /\ (i # n => after = {i})
    BY <1>0, <1>1
<1>4. (i = 1 => before = {}) /\ (i # 1 => before = {i})
    BY <1>0, <1>1
<1>5. (CHOOSE j \in {i} : TRUE) = i /\ {i} # {}
    OBVIOUS
<1> QED
    BY <1>2, <1>3, <1>4, <1>5 DEF Neighbours

(* The first of the pickers from one on, and the last up to one.           *)
FromMode(k, s) == IF Wizard(k)!ShowFor(s, "opencode") THEN "mode" ELSE "tdd"
FromCodex(k, s) == IF Wizard(k)!ShowFor(s, "codex") THEN "codex" ELSE FromMode(k, s)
FromKiro(k, s) == IF Wizard(k)!ShowFor(s, "kiro") THEN "kiro" ELSE FromCodex(k, s)
FromClaude(k, s) == IF Wizard(k)!ShowFor(s, "claude") THEN "claude" ELSE FromKiro(k, s)
Before(k, s) == IF Wizard(k)!Custom(s) THEN "deps" ELSE "preset"
UpToClaude(k, s) == IF Wizard(k)!ShowFor(s, "claude") THEN "claude" ELSE Before(k, s)
UpToKiro(k, s) == IF Wizard(k)!ShowFor(s, "kiro") THEN "kiro" ELSE UpToClaude(k, s)
UpToCodex(k, s) == IF Wizard(k)!ShowFor(s, "codex") THEN "codex" ELSE UpToKiro(k, s)
UpToMode(k, s) ==
    IF Wizard(k)!ShowFor(s, "opencode") THEN (IF s.mode = "multi" THEN "models" ELSE "mode") ELSE UpToCodex(k, s)

LEMMA PickerOrder ==
    ASSUME NEW k, NEW s, "sdd" \in s.components
    PROVE  /\ Wizard(k)!PickerNext(s, "preset") = IF Wizard(k)!Custom(s) THEN "deps" ELSE FromClaude(k, s)
           /\ Wizard(k)!Custom(s) => Wizard(k)!PickerNext(s, "deps") = FromClaude(k, s)
           /\ ~Wizard(k)!Custom(s) => Wizard(k)!PickerPrevious(s, "deps") = "tdd"
           /\ Wizard(k)!ShowFor(s, "claude") =>
                 Wizard(k)!PickerNext(s, "claude") = FromKiro(k, s) /\ Wizard(k)!PickerPrevious(s, "claude") = Before(k, s)
           /\ Wizard(k)!ShowFor(s, "kiro") =>
                 Wizard(k)!PickerNext(s, "kiro") = FromCodex(k, s) /\ Wizard(k)!PickerPrevious(s, "kiro") = UpToClaude(k, s)
           /\ Wizard(k)!ShowFor(s, "codex") =>
                 Wizard(k)!PickerNext(s, "codex") = FromMode(k, s) /\ Wizard(k)!PickerPrevious(s, "codex") = UpToKiro(k, s)
           /\ Wizard(k)!ShowFor(s, "opencode") =>
                 /\ Wizard(k)!PickerNext(s, "mode") = (IF s.mode = "multi" THEN "models" ELSE "tdd")
                 /\ Wizard(k)!PickerPrevious(s, "mode") = UpToCodex(k, s)
           /\ Wizard(k)!ShowFor(s, "opencode") /\ s.mode = "multi" =>
                 Wizard(k)!PickerNext(s, "models") = "tdd" /\ Wizard(k)!PickerPrevious(s, "models") = "mode"
           /\ Wizard(k)!PickerPrevious(s, "tdd") = UpToMode(k, s)
<1>1. PICK f \in Seq(PickScreens), n2, n3, n4, n5, n6, n7, n8, n9 \in Nat :
        FlowAt(k, s, f, n2, n3, n4, n5, n6, n7, n8, n9)
    BY FlowPlaces
<1>2. Wizard(k)!ShowTDD(s)
    BY DEF Wizard!ShowTDD
<1>3. f = Wizard(k)!PickerFlow(s) /\ n9 = Len(f) /\ n9 \in Nat /\ f[1] = "preset"
    BY <1>1 DEF FlowAt
<1>4. \A j \in 1 .. n9 :
         \/ j = 1 /\ f[j] = "preset"
         \/ j = n2 /\ Wizard(k)!Custom(s) /\ f[j] = "deps"
         \/ j = n3 /\ Wizard(k)!ShowFor(s, "claude") /\ f[j] = "claude"
         \/ j = n4 /\ Wizard(k)!ShowFor(s, "kiro") /\ f[j] = "kiro"
         \/ j = n5 /\ Wizard(k)!ShowFor(s, "codex") /\ f[j] = "codex"
         \/ j = n6 /\ f[j] = "mode"
         \/ j = n7 /\ f[j] = "models"
         \/ j = n8 /\ f[j] = "tdd"
         \/ j = n9 /\ ~Wizard(k)!Custom(s) /\ f[j] = "deps"
    BY <1>1 DEF FlowAt
<1>5. Wizard(k)!PickerNext(s, "preset") = (IF Wizard(k)!Custom(s) THEN "deps" ELSE FromClaude(k, s))
  <2>1. 1 \in 1 .. n9 /\ f[1] = "preset"
      BY <1>1, <1>2 DEF FlowAt
  <2>2. \A j \in 1 .. n9 : f[j] = "preset" => j = 1
      BY <1>3, <1>4
  <2>3. OnlyAt(f, n9, "preset", 1)
      BY <2>1, <2>2 DEF OnlyAt
  <2>4. Neighbours(k, s, f, n9, "preset", 1)
      BY <1>3, <2>3, NextAt
  <2>5. 1 # n9 /\ f[1 + 1] = (IF Wizard(k)!Custom(s) THEN "deps" ELSE FromClaude(k, s))
      BY <1>1, <1>2 DEF FlowAt, FromClaude, FromKiro, FromCodex, FromMode
  <2>6. Wizard(k)!PickerNext(s, "preset") = f[1 + 1]
      BY <2>4, <2>5 DEF Neighbours
  <2> QED
      BY <2>5, <2>6
<1>6. ASSUME Wizard(k)!Custom(s)
      PROVE  Wizard(k)!PickerNext(s, "deps") = FromClaude(k, s)
  <2>1. n2 \in 1 .. n9 /\ f[n2] = "deps"
      BY <1>6, <1>1, <1>2 DEF FlowAt
  <2>2. \A j \in 1 .. n9 : f[j] = "deps" => j = n2
      BY <1>6, <1>3, <1>4
  <2>3. OnlyAt(f, n9, "deps", n2)
      BY <2>1, <2>2 DEF OnlyAt
  <2>4. Neighbours(k, s, f, n9, "deps", n2)
      BY <1>3, <2>3, NextAt
  <2>5. n2 # n9 /\ f[1 + n2] = FromClaude(k, s)
      BY <1>6, <1>1, <1>2 DEF FlowAt, FromClaude, FromKiro, FromCodex, FromMode
  <2>6. Wizard(k)!PickerNext(s, "deps") = f[1 + n2]
      BY <2>4, <2>5 DEF Neighbours
  <2> QED
      BY <2>5, <2>6
<1>7. ASSUME ~Wizard(k)!Custom(s)
      PROVE  Wizard(k)!PickerPrevious(s, "deps") = "tdd"
  <2>1. n9 \in 1 .. n9 /\ f[n9] = "deps"
      BY <1>7, <1>1, <1>2 DEF FlowAt
  <2>2. \A j \in 1 .. n9 : f[j] = "deps" => j = n9
      BY <1>7, <1>3, <1>4
  <2>3. OnlyAt(f, n9, "deps", n9)
      BY <2>1, <2>2 DEF OnlyAt
  <2>4. Neighbours(k, s, f, n9, "deps", n9)
      BY <1>3, <2>3, NextAt
  <2>5. n9 # 1 /\ f[n9 - 1] = "tdd"
      BY <1>7, <1>1, <1>2 DEF FlowAt, Before, UpToClaude, UpToKiro, UpToCodex, UpToMode
  <2>6. Wizard(k)!PickerPrevious(s, "deps") = f[n9 - 1]
      BY <2>4, <2>5 DEF Neighbours
  <2> QED
      BY <2>5, <2>6
<1>8. ASSUME Wizard(k)!ShowFor(s, "claude")
      PROVE  Wizard(k)!PickerNext(s, "claude") = FromKiro(k, s) /\ Wizard(k)!PickerPrevious(s, "claude") = Before(k, s)
  <2>1. n3 \in 1 .. n9 /\ f[n3] = "claude"
      BY <1>8, <1>1, <1>2 DEF FlowAt
  <2>2. \A j \in 1 .. n9 : f[j] = "claude" => j = n3
      BY <1>8, <1>3, <1>4
  <2>3. OnlyAt(f, n9, "claude", n3)
      BY <2>1, <2>2 DEF OnlyAt
  <2>4. Neighbours(k, s, f, n9, "claude", n3)
      BY <1>3, <2>3, NextAt
  <2>5. n3 # n9 /\ f[1 + n3] = FromKiro(k, s)
      BY <1>8, <1>1, <1>2 DEF FlowAt, FromClaude, FromKiro, FromCodex, FromMode
  <2>6. n3 # 1 /\ f[n3 - 1] = Before(k, s)
      BY <1>8, <1>1, <1>2 DEF FlowAt, Before, UpToClaude, UpToKiro, UpToCodex, UpToMode
  <2>7. Wizard(k)!PickerNext(s, "claude") = f[1 + n3]
      BY <2>4, <2>5 DEF Neighbours
  <2>8. Wizard(k)!PickerPrevious(s, "claude") = f[n3 - 1]
      BY <2>4, <2>6 DEF Neighbours
  <2> QED
      BY <2>5, <2>7, <2>6, <2>8
<1>9. ASSUME Wizard(k)!ShowFor(s, "kiro")
      PROVE  Wizard(k)!PickerNext(s, "kiro") = FromCodex(k, s) /\ Wizard(k)!PickerPrevious(s, "kiro") = UpToClaude(k, s)
  <2>1. n4 \in 1 .. n9 /\ f[n4] = "kiro"
      BY <1>9, <1>1, <1>2 DEF FlowAt
  <2>2. \A j \in 1 .. n9 : f[j] = "kiro" => j = n4
      BY <1>9, <1>3, <1>4
  <2>3. OnlyAt(f, n9, "kiro", n4)
      BY <2>1, <2>2 DEF OnlyAt
  <2>4. Neighbours(k, s, f, n9, "kiro", n4)
      BY <1>3, <2>3, NextAt
  <2>5. n4 # n9 /\ f[1 + n4] = FromCodex(k, s)
      BY <1>9, <1>1, <1>2 DEF FlowAt, FromClaude, FromKiro, FromCodex, FromMode
  <2>6. n4 # 1 /\ f[n4 - 1] = UpToClaude(k, s)
      BY <1>9, <1>1, <1>2 DEF FlowAt, Before, UpToClaude, UpToKiro, UpToCodex, UpToMode
  <2>7. Wizard(k)!PickerNext(s, "kiro") = f[1 + n4]
      BY <2>4, <2>5 DEF Neighbours
  <2>8. Wizard(k)!PickerPrevious(s, "kiro") = f[n4 - 1]
      BY <2>4, <2>6 DEF Neighbours
  <2> QED
      BY <2>5, <2>7, <2>6, <2>8
<1>10. ASSUME Wizard(k)!ShowFor(s, "codex")
      PROVE  Wizard(k)!PickerNext(s, "codex") = FromMode(k, s) /\ Wizard(k)!PickerPrevious(s, "codex") = UpToKiro(k, s)
  <2>1. n5 \in 1 .. n9 /\ f[n5] = "codex"
      BY <1>10, <1>1, <1>2 DEF FlowAt
  <2>2. \A j \in 1 .. n9 : f[j] = "codex" => j = n5
      BY <1>10, <1>3, <1>4
  <2>3. OnlyAt(f, n9, "codex", n5)
      BY <2>1, <2>2 DEF OnlyAt
  <2>4. Neighbours(k, s, f, n9, "codex", n5)
      BY <1>3, <2>3, NextAt
  <2>5. n5 # n9 /\ f[1 + n5] = FromMode(k, s)
      BY <1>10, <1>1, <1>2 DEF FlowAt, FromClaude, FromKiro, FromCodex, FromMode
  <2>6. n5 # 1 /\ f[n5 - 1] = UpToKiro(k, s)
      BY <1>10, <1>1, <1>2 DEF FlowAt, Before, UpToClaude, UpToKiro, UpToCodex, UpToMode
  <2>7. Wizard(k)!PickerNext(s, "codex") = f[1 + n5]
      BY <2>4, <2>5 DEF Neighbours
  <2>8. Wizard(k)!PickerPrevious(s, "codex") = f[n5 - 1]
      BY <2>4, <2>6 DEF Neighbours
  <2> QED
      BY <2>5, <2>7, <2>6, <2>8
<1>11. ASSUME Wizard(k)!ShowFor(s, "opencode")
      PROVE  Wizard(k)!PickerNext(s, "mode") = (IF s.mode = "multi" THEN "models" ELSE "tdd") /\ Wizard(k)!PickerPrevious(s, "mode") = UpToCodex(k, s)
  <2>1. n6 \in 1 .. n9 /\ f[n6] = "mode"
      BY <1>11, <1>1, <1>2 DEF FlowAt
  <2>2. \A j \in 1 .. n9 : f[j] = "mode" => j = n6
      BY <1>11, <1>3, <1>4
  <2>3. OnlyAt(f, n9, "mode", n6)
      BY <2>1, <2>2 DEF OnlyAt
  <2>4. Neighbours(k, s, f, n9, "mode", n6)
      BY <1>3, <2>3, NextAt
  <2>5. n6 # n9 /\ f[1 + n6] = (IF s.mode = "multi" THEN "models" ELSE "tdd")
      BY <1>11, <1>1, <1>2 DEF FlowAt, FromClaude, FromKiro, FromCodex, FromMode
  <2>6. n6 # 1 /\ f[n6 - 1] = UpToCodex(k, s)
      BY <1>11, <1>1, <1>2 DEF FlowAt, Before, UpToClaude, UpToKiro, UpToCodex, UpToMode
  <2>7. Wizard(k)!PickerNext(s, "mode") = f[1 + n6]
      BY <2>4, <2>5 DEF Neighbours
  <2>8. Wizard(k)!PickerPrevious(s, "mode") = f[n6 - 1]
      BY <2>4, <2>6 DEF Neighbours
  <2> QED
      BY <2>5, <2>7, <2>6, <2>8
<1>12. ASSUME Wizard(k)!ShowFor(s, "opencode") /\ s.mode = "multi"
      PROVE  Wizard(k)!PickerNext(s, "models") = "tdd" /\ Wizard(k)!PickerPrevious(s, "models") = "mode"
  <2>1. n7 \in 1 .. n9 /\ f[n7] = "models"
      BY <1>12, <1>1, <1>2 DEF FlowAt
  <2>2. \A j \in 1 .. n9 : f[j] = "models" => j = n7
      BY <1>12, <1>3, <1>4
  <2>3. OnlyAt(f, n9, "models", n7)
      BY <2>1, <2>2 DEF OnlyAt
  <2>4. Neighbours(k, s, f, n9, "models", n7)
      BY <1>3, <2>3, NextAt
  <2>5. n7 # n9 /\ f[1 + n7] = "tdd"
      BY <1>12, <1>1, <1>2 DEF FlowAt, FromClaude, FromKiro, FromCodex, FromMode
  <2>6. n7 # 1 /\ f[n7 - 1] = "mode"
      BY <1>12, <1>1, <1>2 DEF FlowAt, Before, UpToClaude, UpToKiro, UpToCodex, UpToMode
  <2>7. Wizard(k)!PickerNext(s, "models") = f[1 + n7]
      BY <2>4, <2>5 DEF Neighbours
  <2>8. Wizard(k)!PickerPrevious(s, "models") = f[n7 - 1]
      BY <2>4, <2>6 DEF Neighbours
  <2> QED
      BY <2>5, <2>7, <2>6, <2>8
<1>13. Wizard(k)!PickerPrevious(s, "tdd") = UpToMode(k, s)
  <2>1. n8 \in 1 .. n9 /\ f[n8] = "tdd"
      BY <1>1, <1>2 DEF FlowAt
  <2>2. \A j \in 1 .. n9 : f[j] = "tdd" => j = n8
      BY <1>3, <1>4
  <2>3. OnlyAt(f, n9, "tdd", n8)
      BY <2>1, <2>2 DEF OnlyAt
  <2>4. Neighbours(k, s, f, n9, "tdd", n8)
      BY <1>3, <2>3, NextAt
  <2>5. n8 # 1 /\ f[n8 - 1] = UpToMode(k, s)
      BY <1>1, <1>2 DEF FlowAt, Before, UpToClaude, UpToKiro, UpToCodex, UpToMode
  <2>6. Wizard(k)!PickerPrevious(s, "tdd") = f[n8 - 1]
      BY <2>4, <2>5 DEF Neighbours
  <2> QED
      BY <2>5, <2>6
<1> QED
    BY <1>5, <1>6, <1>7, <1>8, <1>9, <1>10, <1>11, <1>12, <1>13

LEMMA PickerNone ==
    ASSUME NEW k, NEW s, "sdd" \notin s.components
    PROVE  /\ Wizard(k)!PickerNext(s, "preset") = "deps" /\ Wizard(k)!PickerPrevious(s, "deps") = "preset"
           /\ Wizard(k)!PickerNext(s, "deps") = Nothing
<1>1. PICK f \in Seq(PickScreens), n2, n3, n4, n5, n6, n7, n8, n9 \in Nat :
        FlowAt(k, s, f, n2, n3, n4, n5, n6, n7, n8, n9)
    BY FlowPlaces
<1>2. /\ ~Wizard(k)!ShowTDD(s) /\ ~Wizard(k)!ShowFor(s, "claude") /\ ~Wizard(k)!ShowFor(s, "kiro")
      /\ ~Wizard(k)!ShowFor(s, "codex") /\ ~Wizard(k)!ShowFor(s, "opencode")
    BY DEF Wizard!ShowTDD, Wizard!ShowFor
<1>3. f = Wizard(k)!PickerFlow(s) /\ n9 = Len(f) /\ n9 = 2 /\ f[1] = "preset" /\ f[2] = "deps"
    BY <1>1, <1>2 DEF FlowAt
<1>4. 1 \in 1 .. n9 /\ 2 \in 1 .. n9 /\ \A j \in 1 .. n9 : (f[j] = "preset" => j = 1) /\ (f[j] = "deps" => j = 2)
    BY <1>3
<1>7. OnlyAt(f, n9, "preset", 1) /\ OnlyAt(f, n9, "deps", 2)
    BY <1>3, <1>4 DEF OnlyAt
<1>5. Wizard(k)!PickerNext(s, "preset") = "deps"
  <2>1. Neighbours(k, s, f, n9, "preset", 1)
      BY <1>3, <1>7, NextAt
  <2> QED
      BY <1>3, <2>1 DEF Neighbours
<1>6. Wizard(k)!PickerNext(s, "deps") = Nothing /\ Wizard(k)!PickerPrevious(s, "deps") = "preset"
  <2>1. Neighbours(k, s, f, n9, "deps", 2)
      BY <1>3, <1>7, NextAt
  <2> QED
      BY <1>3, <2>1 DEF Neighbours
<1> QED
    BY <1>3, <1>5, <1>6

(* What a setting must say: the persona of the start can be chosen, and no *)
(* screen is the missing one.                                              *)
WizardBounds(k) ==
    /\ "gentleman" \in k.Personas /\ k.Walked \subseteq {"full", "minimal"}
    /\ Nothing \notin {"preset", "deps", "claude", "kiro", "codex", "mode", "models", "tdd", "tools", "plugins"}

LastScreens == {"review", "installing", "complete"}
WizardPickers == {"claude", "kiro", "codex", "mode", "models", "tdd"}

(* The pickers that a selection shows.                                     *)
PickerShown(k, s, on) ==
    /\ on \in WizardPickers /\ "sdd" \in s.components
    /\ on \in {"claude", "kiro", "codex"} => Wizard(k)!ShowFor(s, on)
    /\ on \in {"mode", "models"} => Wizard(k)!ShowFor(s, "opencode")
    /\ on = "models" => s.mode = "multi"

(* An optional screen that is open from the menu is shown, or its result;  *)
(* all other screens are of the flow.                                      *)
WizardOpen ==
    /\ alone # Nothing => screen \in {alone, "result"}
    /\ screen \notin {"welcome", "result", "quit"} /\ alone = Nothing => flow

(* A screen that depends on the selection is only shown if the selection,  *)
(* as it is, shows it.                                                     *)
WizardShown(k) ==
    /\ screen \in WizardPickers => PickerShown(k, sel, screen)
    /\ screen = "plugins" /\ alone = Nothing => "opencode" \in sel.agents
    /\ screen = "skills" => Wizard(k)!ShowSkills(sel)

(* From where the plan is computed to the end it is that of the selection. *)
(* For a custom preset that is before the pickers, else after them.        *)
WizardSettled(k) ==
    \/ screen \in LastScreens
    \/ screen = "deps" /\ ~Wizard(k)!Custom(sel)
    \/ Wizard(k)!Custom(sel) /\ alone = Nothing /\ screen \in WizardPickers \cup {"tools", "plugins", "skills"}
WizardPlan(k) == WizardSettled(k) => chosen = Wizard(k)!Resolve(sel)

(* Skills are only picked in a custom preset, which stays if no other is   *)
(* picked after them, and are those of the picker where the review is      *)
(* shown, with its summary.                                                *)
WizardChosen(k) ==
    /\ ~k.Reconsiders /\ sel.skills # {} => Wizard(k)!Custom(sel)
    /\ screen \in LastScreens => summary = Wizard(k)!ReviewPayload(sel, chosen)
    /\ screen \in LastScreens /\ Wizard(k)!ShowSkills(sel) => sel.skills = picker

WizardScreens ==
    {"detection", "agents", "persona", "preset", "claude", "kiro", "codex", "mode", "tdd", "models", "deps", "skills",
     "review", "installing", "complete", "welcome", "tools", "plugins", "result", "quit"}
Selections(k) ==
    [agents : SUBSET k.Agents, persona : k.Personas, preset : {"full", "minimal", "custom"},
     mode : {"", "single", "multi"}, tdd : BOOLEAN, skills : SUBSET k.Skills,
     components : SUBSET {"engram", "sdd", "skills", "persona"}]
WizardTypes(k) ==
    /\ screen \in WizardScreens /\ flow \in BOOLEAN /\ alone \in {Nothing, "tools", "plugins"} /\ running \in BOOLEAN
    /\ sel \in Selections(k) /\ picker \in SUBSET k.Skills

WizardInv(k) == WizardTypes(k) /\ WizardOpen /\ WizardShown(k) /\ WizardPlan(k) /\ WizardChosen(k)

LEMMA ResolveSame ==
    ASSUME NEW k, NEW s, NEW t, s.agents = t.agents, s.components = t.components
    PROVE  Wizard(k)!Resolve(s) = Wizard(k)!Resolve(t)
BY DEF Wizard!Resolve

LEMMA PickerFirst ==
    ASSUME NEW k, NEW s, NEW on, on = FromClaude(k, s), "sdd" \in s.components
    PROVE  PickerShown(k, s, on) /\ Wizard(k)!PickerPrevious(s, on) = Before(k, s)
BY PickerOrder DEF PickerShown, WizardPickers, FromClaude, FromKiro, FromCodex, FromMode, Wizard!ShowFor,
   UpToClaude, UpToKiro, UpToCodex, UpToMode

LEMMA PickerGoesOn ==
    ASSUME NEW k, NEW s, NEW on, PickerShown(k, s, on), on # "tdd", NEW next, next = Wizard(k)!PickerNext(s, on)
    PROVE  PickerShown(k, s, next) /\ Wizard(k)!PickerPrevious(s, next) = on
<1>1. CASE on = "claude"
    BY <1>1, PickerOrder DEF PickerShown, WizardPickers, FromKiro, FromCodex, FromMode, UpToClaude, UpToKiro, UpToCodex, UpToMode, Wizard!ShowFor
<1>2. CASE on = "kiro"
    BY <1>2, PickerOrder DEF PickerShown, WizardPickers, FromCodex, FromMode, UpToKiro, UpToCodex, UpToMode, Wizard!ShowFor
<1>3. CASE on = "codex"
    BY <1>3, PickerOrder DEF PickerShown, WizardPickers, FromMode, UpToCodex, UpToMode, Wizard!ShowFor
<1>4. CASE on = "mode"
    BY <1>4, PickerOrder DEF PickerShown, WizardPickers, UpToMode, Wizard!ShowFor
<1>5. CASE on = "models"
    BY <1>5, PickerOrder DEF PickerShown, WizardPickers, UpToMode, Wizard!ShowFor
<1> QED
    BY <1>1, <1>2, <1>3, <1>4, <1>5 DEF PickerShown, WizardPickers

LEMMA PickerGoesBack ==
    ASSUME NEW k, NEW s, NEW on, PickerShown(k, s, on), NEW to, to = Wizard(k)!PickerPrevious(s, on)
    PROVE  PickerShown(k, s, to) \/ to = Before(k, s)
<1> USE DEF PickerShown, WizardPickers
<1>1. CASE on = "claude"
    BY <1>1, PickerOrder
<1>2. CASE on = "kiro"
    BY <1>2, PickerOrder DEF UpToClaude
<1>3. CASE on = "codex"
    BY <1>3, PickerOrder DEF UpToClaude, UpToKiro
<1>4. CASE on = "mode"
    BY <1>4, PickerOrder DEF UpToClaude, UpToKiro, UpToCodex
<1>5. CASE on = "models"
    BY <1>5, PickerOrder
<1>6. CASE on = "tdd"
    BY <1>6, PickerOrder DEF UpToClaude, UpToKiro, UpToCodex, UpToMode
<1> QED
    BY <1>1, <1>2, <1>3, <1>4, <1>5, <1>6

LEMMA OnWelcomeKeeps == ASSUME NEW k, WizardBounds(k), WizardInv(k), Wizard(k)!OnWelcome PROVE WizardInv(k)'
<1>1. screen = "welcome" /\ flow' = TRUE /\ screen' = "detection" /\ UNCHANGED <<alone, sel, running, picker, chosen, summary>>
    BY DEF Wizard!OnWelcome, Wizard!Show
<1>2. WizardTypes(k)'
    BY <1>1 DEF WizardInv, WizardTypes, WizardScreens
<1>3. WizardOpen' /\ WizardShown(k)' /\ WizardPlan(k)' /\ WizardChosen(k)'
    BY <1>1 DEF WizardBounds, WizardInv, WizardTypes, WizardOpen, WizardShown, WizardPlan, WizardSettled, WizardChosen, LastScreens, WizardPickers
<1> QED
    BY <1>2, <1>3 DEF WizardInv

LEMMA MovesOnKeeps == ASSUME NEW k, WizardBounds(k), WizardInv(k),
    Wizard(k)!OnDetection \/ Wizard(k)!OnReview \/ Wizard(k)!OnInstalling \/ Wizard(k)!OnComplete \/ Wizard(k)!PipelineDone
    \/ Wizard(k)!LeaveResult PROVE WizardInv(k)'
<1>1. UNCHANGED <<flow, sel, picker, chosen, summary>>
    BY DEF Wizard!OnDetection, Wizard!OnReview, Wizard!OnInstalling, Wizard!OnComplete, Wizard!PipelineDone, Wizard!LeaveResult, Wizard!Show
<1>2. \/ screen = "detection" /\ screen' = "agents" /\ UNCHANGED <<alone, running>>
      \/ screen = "review" /\ screen' = "installing" /\ UNCHANGED <<alone>> /\ running' = TRUE
      \/ screen = "installing" /\ screen' = "complete" /\ UNCHANGED <<alone, running>>
      \/ screen = "complete" /\ screen' = "quit" /\ UNCHANGED <<alone, running>>
      \/ UNCHANGED <<screen, alone>> /\ running' = FALSE
      \/ screen = "result" /\ screen' = "welcome" /\ alone' = Nothing /\ UNCHANGED <<running>>
    BY DEF Wizard!OnDetection, Wizard!OnReview, Wizard!OnInstalling, Wizard!OnComplete, Wizard!PipelineDone, Wizard!LeaveResult, Wizard!Show
<1>3. WizardTypes(k)'
    BY <1>1, <1>2 DEF WizardInv, WizardTypes, WizardScreens
<1>4. WizardOpen' /\ WizardShown(k)' /\ WizardPlan(k)' /\ WizardChosen(k)'
    BY <1>1, <1>2 DEF WizardBounds, WizardInv, WizardTypes, WizardOpen, WizardShown, WizardPlan, WizardSettled, WizardChosen, LastScreens, WizardPickers
<1> QED
    BY <1>3, <1>4 DEF WizardInv

LEMMA OnAgentsKeeps ==
    ASSUME NEW k, WizardBounds(k), WizardInv(k), Wizard(k)!OnAgents
    PROVE  WizardInv(k)' /\ screen = "agents" /\ (~Wizard(k)!PiOnly(sel') => screen' = "persona")
<1>1. /\ screen = "agents" /\ UNCHANGED <<flow, alone, running, picker, summary>>
      /\ \/ screen' = "deps" /\ chosen' = Wizard(k)!Resolve(sel') /\ sel' = [sel EXCEPT !.components = {"engram"}]
         \/ screen' = "persona" /\ UNCHANGED <<sel, chosen>>
    BY DEF Wizard!OnAgents, Wizard!Show, Wizard!ShowPlan
<1>5. sel' \in Selections(k)
  <2>1. sel \in Selections(k) /\ {"engram"} \in SUBSET {"engram", "sdd", "skills", "persona"}
      BY DEF WizardInv, WizardTypes
  <2> QED
      BY <1>1, <2>1 DEF Selections
<1>2. WizardTypes(k)'
    BY <1>1, <1>5 DEF WizardInv, WizardTypes, WizardScreens
<1>3. sel'.skills = sel.skills /\ sel'.preset = sel.preset
    BY <1>1 DEF WizardInv, WizardTypes, Selections
<1>4. WizardOpen' /\ WizardShown(k)' /\ WizardPlan(k)' /\ WizardChosen(k)'
    BY <1>1, <1>3 DEF WizardBounds, WizardInv, WizardTypes, WizardOpen, WizardShown, WizardPlan, WizardSettled, WizardChosen,
       LastScreens, WizardPickers, Wizard!Custom
<1>6. screen = "agents" /\ (~Wizard(k)!PiOnly(sel') => screen' = "persona")
  <2>1. screen = "agents" /\ (Wizard(k)!PiOnly(sel) \/ screen' = "persona")
      BY DEF Wizard!OnAgents, Wizard!Show
  <2>2. sel'.agents = sel.agents
      BY <1>1 DEF WizardInv, WizardTypes, Selections
  <2> QED
      BY <2>1, <2>2 DEF Wizard!PiOnly
<1> QED
    BY <1>2, <1>4, <1>6 DEF WizardInv

LEMMA ComponentsTyped ==
    ASSUME NEW k, NEW preset, NEW persona
    PROVE  /\ Wizard(k)!ComponentsForPreset(preset, persona) \in SUBSET {"engram", "sdd", "skills", "persona"}
           /\ preset = "custom" => Wizard(k)!ComponentsForPreset(preset, persona) = {}
           /\ preset = "full" => "sdd" \in Wizard(k)!ComponentsForPreset(preset, persona)
           /\ preset = "minimal" => "sdd" \notin Wizard(k)!ComponentsForPreset(preset, persona)
<1>1. CASE preset = "custom"
    BY <1>1 DEF Wizard!ComponentsForPreset
<1>2. CASE preset = "minimal"
    BY <1>2 DEF Wizard!ComponentsForPreset
<1>3. CASE preset \notin {"custom", "minimal"}
  <2>1. Wizard(k)!ComponentsForPreset(preset, persona)
          = {"engram", "sdd", "skills"} \cup (IF persona = "custom" THEN {} ELSE {"persona"})
      BY <1>3 DEF Wizard!ComponentsForPreset
  <2> QED
      BY <1>3, <2>1
<1> QED
    BY <1>1, <1>2, <1>3

LEMMA OnPersonaKeeps ==
    ASSUME NEW k, WizardBounds(k), WizardInv(k), NEW p \in k.Personas, Wizard(k)!OnPersona(p)
    PROVE  WizardInv(k)'
<1>1. PICK c : c = Wizard(k)!ComponentsForPreset(sel.preset, p)
    OBVIOUS
<1>2. c \in SUBSET {"engram", "sdd", "skills", "persona"}
    BY <1>1, ComponentsTyped
<1>3. /\ screen = "persona" /\ screen' = "preset" /\ UNCHANGED <<flow, alone, running, picker, chosen, summary>>
      /\ sel' = [sel EXCEPT !.persona = p, !.components = IF Wizard(k)!Custom(sel) THEN sel.components ELSE c]
    BY <1>1 DEF Wizard!OnPersona, Wizard!Show, WizardInv, WizardTypes, Selections
<1>4. sel' \in Selections(k)
    BY <1>2, <1>3 DEF WizardInv, WizardTypes, Selections
<1>5. WizardTypes(k)'
    BY <1>3, <1>4 DEF WizardInv, WizardTypes, WizardScreens
<1>6. sel'.skills = sel.skills /\ sel'.preset = sel.preset
    BY <1>3 DEF WizardInv, WizardTypes, Selections
<1>7. WizardOpen' /\ WizardShown(k)' /\ WizardPlan(k)' /\ WizardChosen(k)'
    BY <1>3, <1>6 DEF WizardBounds, WizardInv, WizardTypes, WizardOpen, WizardShown, WizardPlan, WizardSettled, WizardChosen,
       LastScreens, WizardPickers, Wizard!Custom
<1> QED
    BY <1>5, <1>7 DEF WizardInv

(* Where a screen goes that follows the pickers: they are all of the flow. *)
LEMMA AfterPickersOf ==
    ASSUME NEW k, NEW s, NEW on, flow, alone # "tools", Wizard(k)!AfterPickers(s, on)
    PROVE  screen' = "tools" /\ UNCHANGED <<picker, chosen, summary>>
BY DEF Wizard!AfterPickers, Wizard!ShowTools, Wizard!Show

LEMMA OnTDDKeeps ==
    ASSUME NEW k, WizardBounds(k), WizardInv(k), NEW strict \in BOOLEAN, Wizard(k)!OnTDD(strict)
    PROVE  WizardInv(k)' /\ screen = "tdd" /\ screen' = "tools" /\ "sdd" \in sel'.components /\ flow' /\ alone' = Nothing
<1>1. screen = "tdd" /\ sel' = [sel EXCEPT !.tdd = strict] /\ UNCHANGED <<flow, alone, running>>
    BY DEF Wizard!OnTDD
<1>2. flow /\ alone = Nothing
    BY <1>1 DEF WizardInv, WizardOpen, WizardTypes
<1>3. screen' = "tools" /\ UNCHANGED <<picker, chosen, summary>>
  <2>1. alone # "tools"
      BY <1>2 DEF WizardBounds
  <2> QED
      BY <1>2, <2>1, AfterPickersOf DEF Wizard!OnTDD, Wizard!ShowTools, Wizard!AfterPickers, Wizard!Show
<1>4. sel' \in Selections(k) /\ sel'.skills = sel.skills /\ sel'.preset = sel.preset /\ sel'.agents = sel.agents
      /\ sel'.components = sel.components
    BY <1>1 DEF WizardInv, WizardTypes, Selections
<1>5. WizardTypes(k)'
    BY <1>1, <1>2, <1>3, <1>4 DEF WizardInv, WizardTypes, WizardScreens
<1>6. Wizard(k)!Resolve(sel') = Wizard(k)!Resolve(sel)
    BY <1>4, ResolveSame
<1>7. WizardOpen' /\ WizardShown(k)' /\ WizardPlan(k)' /\ WizardChosen(k)'
    BY <1>1, <1>2, <1>3, <1>4, <1>6 DEF WizardBounds, WizardInv, WizardOpen, WizardShown, WizardPlan, WizardSettled, WizardChosen,
       LastScreens, WizardPickers, Wizard!Custom
<1>8. "sdd" \in sel'.components
    BY <1>1, <1>4 DEF WizardInv, WizardShown, PickerShown, WizardPickers
<1> QED
    BY <1>1, <1>2, <1>3, <1>5, <1>7, <1>8 DEF WizardInv

LEMMA ShownSame ==
    ASSUME NEW k, NEW s, NEW t, NEW on, PickerShown(k, s, on), t.agents = s.agents, t.components = s.components, t.mode = s.mode
    PROVE  PickerShown(k, t, on)
BY DEF PickerShown, Wizard!ShowFor

(* A step to a picker that the selection shows, from one that has settled. *)
LEMMA PickerStep ==
    ASSUME NEW k, WizardInv(k), UNCHANGED <<flow, alone, running, picker, chosen, summary>>, screen \in WizardPickers,
           sel' \in Selections(k), sel'.skills = sel.skills, sel'.preset = sel.preset, sel'.agents = sel.agents,
           sel'.components = sel.components, PickerShown(k, sel', screen')
    PROVE  WizardInv(k)'
<1>1. screen' \in WizardPickers /\ screen' \notin LastScreens /\ screen' \in WizardScreens
    BY DEF PickerShown, WizardPickers, LastScreens, WizardScreens
<1>2. flow /\ alone = Nothing
    BY DEF WizardInv, WizardTypes, WizardOpen, WizardPickers
<1>3. WizardTypes(k)'
    BY <1>1, <1>2 DEF WizardInv, WizardTypes
<1>4. WizardOpen'
    BY <1>2 DEF WizardInv, WizardTypes, WizardOpen
<1>5. WizardShown(k)'
    BY <1>1 DEF WizardShown, WizardPickers
<1>6. Wizard(k)!Resolve(sel') = Wizard(k)!Resolve(sel)
    BY ResolveSame
<1>7. WizardPlan(k)' /\ WizardChosen(k)'
    BY <1>1, <1>2, <1>6 DEF WizardInv, WizardPlan, WizardSettled, WizardChosen, WizardPickers, LastScreens, Wizard!Custom
<1> QED
    BY <1>3, <1>4, <1>5, <1>7 DEF WizardInv

LEMMA AdvanceTo ==
    ASSUME NEW k, NEW s, NEW on, PickerShown(k, s, on), on # "tdd", WizardBounds(k), Wizard(k)!Advance(s, on)
    PROVE  /\ screen' = Wizard(k)!PickerNext(s, on) /\ UNCHANGED <<picker, chosen, summary>>
           /\ PickerShown(k, s, Wizard(k)!PickerNext(s, on))
<1>1. PICK next : next = Wizard(k)!PickerNext(s, on)
    OBVIOUS
<1>2. PickerShown(k, s, next)
    BY <1>1, PickerGoesOn
<1>3. next # "deps" /\ next # Nothing
    BY <1>2 DEF PickerShown, WizardPickers, WizardBounds
<1> QED
    BY <1>1, <1>2, <1>3 DEF Wizard!Advance, Wizard!Show

LEMMA OnModelsKeeps ==
    ASSUME NEW k, WizardBounds(k), WizardInv(k), Wizard(k)!OnModels
    PROVE  WizardInv(k)' /\ screen' = Wizard(k)!PickerNext(sel, screen) /\ PickerShown(k, sel, screen) /\ screen # "tdd"
<1>1. /\ screen \in {"claude", "kiro", "codex", "models"} /\ UNCHANGED <<flow, alone, sel, running>>
      /\ Wizard(k)!Advance(sel, screen)
    BY DEF Wizard!OnModels
<1>2. PickerShown(k, sel, screen) /\ screen \in WizardPickers /\ screen # "tdd"
    BY <1>1 DEF WizardInv, WizardShown, WizardPickers
<1>3. /\ screen' = Wizard(k)!PickerNext(sel, screen) /\ UNCHANGED <<picker, chosen, summary>>
      /\ PickerShown(k, sel, Wizard(k)!PickerNext(sel, screen))
    BY <1>1, <1>2, AdvanceTo
<1>4. sel' = sel /\ sel' \in Selections(k) /\ PickerShown(k, sel', screen')
    BY <1>1, <1>3 DEF WizardInv, WizardTypes
<1>5. WizardInv(k)'
    BY <1>1, <1>2, <1>3, <1>4, PickerStep
<1> QED
    BY <1>2, <1>3, <1>5

LEMMA OnModeKeeps ==
    ASSUME NEW k, WizardBounds(k), WizardInv(k), NEW m \in {"single", "multi"}, Wizard(k)!OnMode(m)
    PROVE  /\ WizardInv(k)' /\ screen = "mode" /\ PickerShown(k, sel', "mode") /\ sel'.mode = m
           /\ screen' = IF m = "multi" THEN "models" ELSE "tdd"
<1>1. /\ screen = "mode" /\ sel' = [sel EXCEPT !.mode = m] /\ UNCHANGED <<flow, alone, running>>
      /\ IF m = "multi" THEN screen' = "models" /\ UNCHANGED <<picker, chosen, summary>> ELSE Wizard(k)!Advance(sel', "mode")
    BY DEF Wizard!OnMode, Wizard!Show
<1>2. PickerShown(k, sel, "mode") /\ screen \in WizardPickers
    BY <1>1 DEF WizardInv, WizardShown, WizardPickers
<1>3. /\ sel' \in Selections(k) /\ sel'.skills = sel.skills /\ sel'.preset = sel.preset /\ sel'.agents = sel.agents
      /\ sel'.components = sel.components /\ sel'.mode = m
    BY <1>1 DEF WizardInv, WizardTypes, Selections
<1>4. PickerShown(k, sel', "mode")
    BY <1>2, <1>3 DEF PickerShown, Wizard!ShowFor
<1>5. /\ screen' = (IF m = "multi" THEN "models" ELSE "tdd") /\ UNCHANGED <<picker, chosen, summary>>
      /\ PickerShown(k, sel', screen')
  <2>1. CASE m = "multi"
      BY <1>1, <1>3, <1>4, <2>1 DEF PickerShown, WizardPickers
  <2>2. CASE m # "multi"
    <3>1. PICK s : s = sel'
        OBVIOUS
    <3>2. Wizard(k)!PickerNext(s, "mode") = "tdd"
        BY <1>3, <1>4, <2>2, <3>1, PickerOrder DEF PickerShown
    <3>3. screen' = Wizard(k)!PickerNext(s, "mode") /\ UNCHANGED <<picker, chosen, summary>> /\ PickerShown(k, s, Wizard(k)!PickerNext(s, "mode"))
        BY <1>1, <1>4, <2>2, <3>1, AdvanceTo
    <3> QED
        BY <2>2, <3>1, <3>2, <3>3
  <2> QED
      BY <2>1, <2>2
<1>6. WizardInv(k)'
    BY <1>1, <1>2, <1>3, <1>5, PickerStep
<1> QED
    BY <1>1, <1>3, <1>4, <1>5, <1>6

LEMMA OnPresetKeeps ==
    ASSUME NEW k, WizardBounds(k), WizardInv(k), NEW p \in {"full", "minimal", "custom"}, Wizard(k)!OnPreset(p)
    PROVE  /\ WizardInv(k)' /\ screen = "preset" /\ sel'.preset = p
           /\ IF p = "custom" THEN screen' = "deps"
              ELSE IF "sdd" \in sel'.components THEN screen' = FromClaude(k, sel') ELSE screen' = "tools"
<1>1. PICK c : c = Wizard(k)!ComponentsForPreset(p, sel.persona)
    OBVIOUS
<1>2. /\ c \in SUBSET {"engram", "sdd", "skills", "persona"}
      /\ (p = "custom" => c = {}) /\ (p = "full" => "sdd" \in c) /\ (p = "minimal" => "sdd" \notin c)
    BY <1>1, ComponentsTyped
<1>3. PICK s : s = [sel EXCEPT !.preset = p, !.components = c]
    OBVIOUS
<1>4. /\ screen = "preset" /\ (k.Reconsiders \/ sel.skills = {} \/ p = sel.preset) /\ sel' = s /\ UNCHANGED <<flow, alone, running>>
      /\ LET next == Wizard(k)!PickerNext(s, "preset")
         IN IF next # Nothing /\ (next # "deps" \/ p = "custom") THEN screen' = next /\ UNCHANGED <<picker, chosen, summary>>
            ELSE Wizard(k)!AfterPickers(s, "preset")
    BY <1>1, <1>3 DEF WizardBounds, Wizard!OnPreset, Wizard!Show
<1>5. s \in Selections(k) /\ s.preset = p /\ s.components = c /\ s.skills = sel.skills
    BY <1>2, <1>3 DEF WizardInv, WizardTypes, Selections
<1>6. flow /\ alone = Nothing /\ alone # "tools"
    BY <1>4 DEF WizardInv, WizardOpen, WizardTypes, WizardBounds
<1>7. /\ UNCHANGED <<picker, chosen, summary>>
      /\ IF p = "custom" THEN screen' = "deps"
         ELSE IF "sdd" \in c THEN screen' = FromClaude(k, s) /\ PickerShown(k, s, screen') ELSE screen' = "tools"
  <2>1. CASE p = "custom"
    <3>1. Wizard(k)!PickerNext(s, "preset") = "deps"
        BY <1>2, <1>5, <2>1, PickerNone
    <3> QED
        BY <1>4, <2>1, <3>1 DEF WizardBounds
  <2>2. CASE p = "minimal"
    <3>1. Wizard(k)!PickerNext(s, "preset") = "deps" /\ "sdd" \notin c
        BY <1>2, <1>5, <2>2, PickerNone
    <3>2. Wizard(k)!AfterPickers(s, "preset")
        BY <1>4, <2>2, <3>1
    <3> QED
        BY <1>6, <2>2, <3>1, <3>2, AfterPickersOf
  <2>3. CASE p = "full"
    <3>1. "sdd" \in s.components /\ ~Wizard(k)!Custom(s)
        BY <1>2, <1>5, <2>3 DEF Wizard!Custom
    <3>2. PICK next : next = FromClaude(k, s)
        OBVIOUS
    <3>3. Wizard(k)!PickerNext(s, "preset") = next
        BY <3>1, <3>2, PickerOrder
    <3>4. PickerShown(k, s, next)
        BY <3>1, <3>2, PickerFirst
    <3>5. next # Nothing /\ next # "deps"
        BY <3>4 DEF PickerShown, WizardPickers, WizardBounds
    <3> QED
        BY <1>4, <1>5, <2>3, <3>1, <3>2, <3>3, <3>4, <3>5
  <2> QED
      BY <2>1, <2>2, <2>3
<1>8. screen' \in WizardPickers \cup {"deps", "tools"}
    BY <1>7 DEF PickerShown
<1>9. WizardTypes(k)'
    BY <1>4, <1>5, <1>6, <1>7, <1>8 DEF WizardInv, WizardTypes, WizardScreens, WizardPickers
<1>10. WizardOpen'
    BY <1>4, <1>6 DEF WizardInv, WizardOpen
<1>11. WizardShown(k)'
    BY <1>4, <1>7, <1>8 DEF WizardShown, WizardPickers
<1>13. sel'.preset = p /\ sel'.skills = sel.skills /\ (screen' = "deps" <=> p = "custom")
  <2>1. CASE p = "custom"
      BY <1>4, <1>5, <1>7, <2>1
  <2>2. CASE p # "custom"
    <3>1. screen' # "deps"
        BY <1>7, <2>2 DEF PickerShown, WizardPickers
    <3> QED
        BY <1>4, <1>5, <2>2, <3>1
  <2> QED
      BY <2>1, <2>2
<1>14. screen' \notin LastScreens /\ screen' # "plugins" /\ screen' # "skills"
    BY <1>8 DEF WizardPickers, LastScreens
<1>15. ~WizardSettled(k)'
  <2>1. CASE p = "custom"
      BY <1>13, <1>14, <2>1 DEF WizardSettled, WizardPickers, Wizard!Custom
  <2>2. CASE p # "custom"
      BY <1>13, <1>14, <2>2 DEF WizardSettled, Wizard!Custom
  <2> QED
      BY <2>1, <2>2
<1>16. WizardPlan(k)'
    BY <1>15 DEF WizardPlan
<1>12. WizardChosen(k)'
    BY <1>4, <1>13, <1>14 DEF WizardInv, WizardChosen, Wizard!Custom
<1> QED
    BY <1>4, <1>5, <1>7, <1>9, <1>10, <1>11, <1>12, <1>13, <1>16 DEF WizardInv

(* The skills or the review of a custom preset with its plan.              *)
LEMMA EndsOf ==
    ASSUME NEW k, WizardInv(k), flow, alone = Nothing, Wizard(k)!Custom(sel), NEW p, p = Wizard(k)!Resolve(sel),
           Wizard(k)!SkillsOrReview(sel, p), UNCHANGED <<flow, alone, sel, running>>
    PROVE  WizardInv(k)' /\ screen' = IF Wizard(k)!ShowSkills(sel) THEN "skills" ELSE "review"
<1>1. \/ /\ Wizard(k)!ShowSkills(sel) /\ screen' = "skills" /\ picker' = (IF picker = {} THEN k.Skills ELSE picker)
         /\ chosen' = p /\ UNCHANGED summary
      \/ /\ ~Wizard(k)!ShowSkills(sel) /\ screen' = "review" /\ UNCHANGED picker
         /\ chosen' = p /\ summary' = Wizard(k)!ReviewPayload(sel, p)
    BY DEF Wizard!SkillsOrReview, Wizard!ShowSkillPicker, Wizard!ShowReview
<1>2. WizardTypes(k)'
    BY <1>1 DEF WizardInv, WizardTypes, WizardScreens
<1>3. WizardOpen' /\ WizardShown(k)' /\ WizardPlan(k)' /\ WizardChosen(k)'
    BY <1>1 DEF WizardInv, WizardOpen, WizardShown, WizardPlan, WizardSettled, WizardChosen, LastScreens, WizardPickers
<1> QED
    BY <1>1, <1>2, <1>3 DEF WizardInv

LEMMA PlansOf ==
    ASSUME NEW k, WizardInv(k), flow, alone = Nothing, ~Wizard(k)!Custom(sel),
           Wizard(k)!ShowPlan(sel), UNCHANGED <<flow, alone, sel, running>>
    PROVE  WizardInv(k)' /\ screen' = "deps"
<1>1. screen' = "deps" /\ chosen' = Wizard(k)!Resolve(sel) /\ UNCHANGED <<picker, summary>>
    BY DEF Wizard!ShowPlan
<1>2. WizardTypes(k)'
    BY <1>1 DEF WizardInv, WizardTypes, WizardScreens
<1>3. WizardOpen' /\ WizardShown(k)' /\ WizardPlan(k)' /\ WizardChosen(k)'
    BY <1>1 DEF WizardInv, WizardOpen, WizardShown, WizardPlan, WizardSettled, WizardChosen, LastScreens, WizardPickers
<1> QED
    BY <1>1, <1>2, <1>3 DEF WizardInv

(* The result of an optional screen that the menu opened.                  *)
LEMMA AloneEnds ==
    ASSUME NEW k, WizardInv(k), alone # Nothing, screen' = "result",
           UNCHANGED <<flow, alone, sel, running, picker, chosen, summary>>
    PROVE  WizardInv(k)'
<1>1. WizardTypes(k)'
    BY DEF WizardInv, WizardTypes, WizardScreens
<1>2. WizardOpen' /\ WizardShown(k)' /\ WizardPlan(k)' /\ WizardChosen(k)'
    BY DEF WizardInv, WizardOpen, WizardShown, WizardPlan, WizardSettled, WizardChosen, LastScreens, WizardPickers
<1> QED
    BY <1>1, <1>2 DEF WizardInv

LEMMA OnPluginsKeeps ==
    ASSUME NEW k, WizardBounds(k), WizardInv(k), Wizard(k)!OnPlugins
    PROVE  WizardInv(k)' /\ (~Wizard(k)!Custom(sel) => screen' \in {"result", "deps"})
<1>1. screen = "plugins" /\ UNCHANGED <<flow, alone, sel, running>>
    BY DEF Wizard!OnPlugins
<1>2. CASE alone = "plugins"
  <2>1. screen' = "result" /\ UNCHANGED <<picker, chosen, summary>>
      BY <1>2 DEF Wizard!OnPlugins, Wizard!Show
  <2>2. alone # Nothing
      BY <1>2 DEF WizardBounds
  <2> QED
      BY <1>1, <2>1, <2>2, AloneEnds
<1>3. CASE alone # "plugins"
  <2>1. flow /\ alone = Nothing
      BY <1>1, <1>3 DEF WizardInv, WizardOpen, WizardTypes
  <2>2. CASE Wizard(k)!Custom(sel)
    <3>1. Wizard(k)!SkillsOrReview(sel, chosen) /\ chosen = Wizard(k)!Resolve(sel)
        BY <1>1, <1>3, <2>1, <2>2 DEF Wizard!OnPlugins, Wizard!AfterPlugins, WizardInv, WizardPlan, WizardSettled
    <3> QED
        BY <1>1, <2>1, <2>2, <3>1, EndsOf
  <2>3. CASE ~Wizard(k)!Custom(sel)
    <3>1. Wizard(k)!ShowPlan(sel)
        BY <1>3, <2>3 DEF Wizard!OnPlugins, Wizard!AfterPlugins
    <3> QED
        BY <1>1, <2>1, <2>3, <3>1, PlansOf
  <2> QED
      BY <2>2, <2>3
<1> QED
    BY <1>2, <1>3

LEMMA OnToolsKeeps ==
    ASSUME NEW k, WizardBounds(k), WizardInv(k), Wizard(k)!OnTools
    PROVE  /\ WizardInv(k)'
           /\ ~Wizard(k)!Custom(sel) => screen' \in {"result", "deps", "plugins"}
           /\ ~Wizard(k)!Custom(sel) /\ screen' = "deps" => "opencode" \notin sel.agents
<1>1. screen = "tools" /\ UNCHANGED <<flow, alone, sel, running>>
    BY DEF Wizard!OnTools
<1>2. CASE alone = "tools"
  <2>1. screen' = "result" /\ UNCHANGED <<picker, chosen, summary>>
      BY <1>2 DEF Wizard!OnTools, Wizard!Show
  <2>2. alone # Nothing
      BY <1>2 DEF WizardBounds
  <2> QED
      BY <1>1, <2>1, <2>2, AloneEnds
<1>3. CASE alone # "tools"
  <2>1. flow /\ alone = Nothing
      BY <1>1, <1>3 DEF WizardInv, WizardOpen, WizardTypes
  <2>2. CASE Wizard(k)!ShowPlugins(sel, "tools")
    <3>1. screen' = "plugins" /\ UNCHANGED <<picker, chosen, summary>> /\ "opencode" \in sel.agents
        BY <1>3, <2>2 DEF Wizard!OnTools, Wizard!AfterTools, Wizard!Show, Wizard!ShowPlugins
    <3>2. WizardTypes(k)'
        BY <1>1, <3>1 DEF WizardInv, WizardTypes, WizardScreens
    <3>3. WizardOpen' /\ WizardShown(k)' /\ WizardPlan(k)' /\ WizardChosen(k)'
        BY <1>1, <2>1, <3>1 DEF WizardInv, WizardOpen, WizardShown, WizardPlan, WizardSettled, WizardChosen, LastScreens, WizardPickers
    <3> QED
        BY <3>1, <3>2, <3>3 DEF WizardInv
  <2>3. CASE ~Wizard(k)!ShowPlugins(sel, "tools") /\ Wizard(k)!Custom(sel)
    <3>1. Wizard(k)!SkillsOrReview(sel, chosen) /\ chosen = Wizard(k)!Resolve(sel)
        BY <1>1, <1>3, <2>1, <2>3 DEF Wizard!OnTools, Wizard!AfterTools, Wizard!AfterPlugins, WizardInv, WizardPlan, WizardSettled
    <3> QED
        BY <1>1, <2>1, <2>3, <3>1, EndsOf
  <2>4. CASE ~Wizard(k)!ShowPlugins(sel, "tools") /\ ~Wizard(k)!Custom(sel)
    <3>1. Wizard(k)!ShowPlan(sel) /\ "opencode" \notin sel.agents
        BY <1>3, <2>4 DEF Wizard!OnTools, Wizard!AfterTools, Wizard!AfterPlugins, Wizard!ShowPlugins
    <3>2. WizardInv(k)' /\ screen' = "deps"
        BY <1>1, <2>1, <2>4, <3>1, PlansOf
    <3> QED
        BY <3>1, <3>2
  <2> QED
      BY <2>2, <2>3, <2>4
<1> QED
    BY <1>2, <1>3

LEMMA OnDepsKeeps ==
    ASSUME NEW k, WizardBounds(k), WizardInv(k), Wizard(k)!OnDeps
    PROVE  WizardInv(k)' /\ screen = "deps" /\ sel' = sel /\ (~Wizard(k)!Custom(sel) => screen' = "review")
<1>1. PICK p : p = Wizard(k)!Resolve(sel)
    OBVIOUS
<1>2. screen = "deps" /\ UNCHANGED <<flow, alone, sel, running>> /\ flow /\ alone = Nothing
    BY DEF Wizard!OnDeps, WizardInv, WizardOpen, WizardTypes
<1>3. CASE ~Wizard(k)!Custom(sel)
  <2>1. screen' = "review" /\ chosen' = chosen /\ summary' = Wizard(k)!ReviewPayload(sel, chosen) /\ UNCHANGED picker
      BY <1>3 DEF Wizard!OnDeps, Wizard!ShowReview
  <2>2. WizardTypes(k)'
      BY <1>2, <2>1 DEF WizardInv, WizardTypes, WizardScreens
  <2>3. WizardOpen' /\ WizardShown(k)' /\ WizardPlan(k)' /\ WizardChosen(k)'
      BY <1>2, <1>3, <2>1 DEF WizardInv, WizardOpen, WizardShown, WizardPlan, WizardSettled, WizardChosen, LastScreens, WizardPickers,
         Wizard!ShowSkills
  <2> QED
      BY <1>2, <2>1, <2>2, <2>3 DEF WizardInv
<1>4. CASE Wizard(k)!Custom(sel)
  <2>1. PICK next : next = Wizard(k)!PickerNext(sel, "deps")
      OBVIOUS
  <2>2. IF next # Nothing THEN screen' = next ELSE screen' = "tools"
    <3>1. alone # "tools"
        BY <1>2 DEF WizardBounds
    <3> QED
        BY <1>2, <1>4, <2>1, <3>1 DEF Wizard!OnDeps, Wizard!ShowTools
  <2>3. chosen' = p /\ UNCHANGED <<picker, summary>>
    <3>1. alone # "tools"
        BY <1>2 DEF WizardBounds
    <3> QED
        BY <1>1, <1>2, <1>4, <2>1, <3>1 DEF Wizard!OnDeps, Wizard!ShowTools
  <2>4. next # Nothing => PickerShown(k, sel, next)
    <3>1. PICK s : s = sel
        OBVIOUS
    <3>2. CASE "sdd" \in s.components
      <4>1. next = FromClaude(k, s)
          BY <1>4, <2>1, <3>1, <3>2, PickerOrder
      <4> QED
          BY <3>1, <3>2, <4>1, PickerFirst
    <3>3. CASE "sdd" \notin s.components
        BY <2>1, <3>1, <3>3, PickerNone
    <3> QED
        BY <3>2, <3>3
  <2>5. screen' \in WizardPickers \cup {"tools"} /\ (screen' # "tools" => PickerShown(k, sel, screen'))
      BY <2>2, <2>4 DEF PickerShown
  <2>6. WizardTypes(k)'
      BY <1>2, <2>3, <2>5 DEF WizardInv, WizardTypes, WizardScreens, WizardPickers
  <2>7. WizardOpen' /\ WizardShown(k)' /\ WizardPlan(k)' /\ WizardChosen(k)'
      BY <1>1, <1>2, <2>3, <2>5 DEF WizardInv, WizardOpen, WizardShown, WizardPlan, WizardChosen, LastScreens, WizardPickers
  <2> QED
      BY <1>2, <1>4, <2>6, <2>7 DEF WizardInv
<1> QED
    BY <1>3, <1>4

LEMMA OnSkillsKeeps ==
    ASSUME NEW k, WizardBounds(k), WizardInv(k), Wizard(k)!OnSkills
    PROVE  WizardInv(k)' /\ screen = "skills" /\ Wizard(k)!Custom(sel')
<1>1. /\ screen = "skills" /\ sel' = [sel EXCEPT !.skills = picker] /\ UNCHANGED <<flow, alone, running, picker>>
      /\ screen' = "review" /\ chosen' = chosen /\ summary' = Wizard(k)!ReviewPayload(sel', chosen)
    BY DEF Wizard!OnSkills, Wizard!ShowReview
<1>2. flow /\ alone = Nothing /\ Wizard(k)!Custom(sel) /\ chosen = Wizard(k)!Resolve(sel)
    BY <1>1 DEF WizardInv, WizardOpen, WizardTypes, WizardShown, WizardPlan, WizardSettled, WizardPickers, Wizard!ShowSkills
<1>3. /\ sel' \in Selections(k) /\ sel'.skills = picker /\ sel'.preset = sel.preset /\ sel'.agents = sel.agents
      /\ sel'.components = sel.components
    BY <1>1 DEF WizardInv, WizardTypes, Selections
<1>4. Wizard(k)!Resolve(sel') = Wizard(k)!Resolve(sel) /\ Wizard(k)!Custom(sel')
    BY <1>2, <1>3, ResolveSame DEF Wizard!Custom
<1>5. WizardTypes(k)'
    BY <1>1, <1>2, <1>3 DEF WizardInv, WizardTypes, WizardScreens
<1>6. WizardOpen' /\ WizardShown(k)' /\ WizardPlan(k)' /\ WizardChosen(k)'
    BY <1>1, <1>2, <1>3, <1>4 DEF WizardInv, WizardOpen, WizardShown, WizardPlan, WizardChosen, LastScreens, WizardPickers
<1> QED
    BY <1>1, <1>4, <1>5, <1>6 DEF WizardInv

LEMMA TogglesKeep ==
    ASSUME NEW k, WizardBounds(k), WizardInv(k),
           \/ \E a \in k.Agents : Wizard(k)!ToggleAgent(a)
           \/ \E c \in {"engram", "sdd", "skills"} : Wizard(k)!ToggleComponent(c)
           \/ \E x \in k.Skills : Wizard(k)!ToggleSkill(x)
    PROVE  WizardInv(k)'
<1>0. ASSUME NEW S, NEW set \in SUBSET S, NEW x \in S PROVE Wizard(k)!Other(set, x) \in SUBSET S
    BY DEF Wizard!Other
<1>1. ASSUME NEW a \in k.Agents, Wizard(k)!ToggleAgent(a) PROVE WizardInv(k)'
  <2>1. PICK set : set = Wizard(k)!Other(sel.agents, a)
      OBVIOUS
  <2>2. /\ screen = "agents" /\ sel' = [sel EXCEPT !.agents = set]
        /\ UNCHANGED <<screen, flow, alone, picker, chosen, summary, running>>
      BY <1>1, <2>1 DEF Wizard!ToggleAgent, WizardInv, WizardTypes, Selections
  <2>3. set \in SUBSET k.Agents
      BY <1>0, <2>1 DEF WizardInv, WizardTypes, Selections
  <2>4. sel' \in Selections(k) /\ sel'.skills = sel.skills /\ sel'.preset = sel.preset
      BY <2>2, <2>3 DEF WizardInv, WizardTypes, Selections
  <2>5. WizardTypes(k)'
      BY <2>2, <2>4 DEF WizardInv, WizardTypes
  <2>6. WizardOpen' /\ WizardShown(k)' /\ WizardPlan(k)' /\ WizardChosen(k)'
      BY <2>2, <2>4 DEF WizardInv, WizardOpen, WizardShown, WizardPlan, WizardSettled, WizardChosen, LastScreens, WizardPickers,
         Wizard!Custom
  <2> QED
      BY <2>5, <2>6 DEF WizardInv
<1>2. ASSUME NEW c \in {"engram", "sdd", "skills"}, Wizard(k)!ToggleComponent(c) PROVE WizardInv(k)'
  <2>1. PICK set : set = Wizard(k)!Other(sel.components, c)
      OBVIOUS
  <2>2. /\ screen = "deps" /\ Wizard(k)!Custom(sel) /\ sel' = [sel EXCEPT !.components = set]
        /\ UNCHANGED <<screen, flow, alone, picker, chosen, summary, running>>
      BY <1>2, <2>1 DEF Wizard!ToggleComponent, WizardInv, WizardTypes, Selections
  <2>3. set \in SUBSET {"engram", "sdd", "skills", "persona"}
      BY <1>0, <2>1 DEF WizardInv, WizardTypes, Selections
  <2>4. sel' \in Selections(k) /\ sel'.skills = sel.skills /\ sel'.preset = sel.preset
      BY <2>2, <2>3 DEF WizardInv, WizardTypes, Selections
  <2>5. WizardTypes(k)'
      BY <2>2, <2>4 DEF WizardInv, WizardTypes
  <2>6. WizardOpen' /\ WizardShown(k)' /\ WizardPlan(k)' /\ WizardChosen(k)'
      BY <2>2, <2>4 DEF WizardInv, WizardOpen, WizardShown, WizardPlan, WizardSettled, WizardChosen, LastScreens, WizardPickers,
         Wizard!Custom
  <2> QED
      BY <2>5, <2>6 DEF WizardInv
<1>3. ASSUME NEW x \in k.Skills, Wizard(k)!ToggleSkill(x) PROVE WizardInv(k)'
  <2>2. /\ screen = "skills" /\ picker' = Wizard(k)!Other(picker, x)
        /\ UNCHANGED <<screen, flow, alone, sel, chosen, summary, running>>
      BY <1>3 DEF Wizard!ToggleSkill
  <2>3. picker' \in SUBSET k.Skills
      BY <1>0, <2>2 DEF WizardInv, WizardTypes
  <2>5. WizardTypes(k)'
      BY <2>2, <2>3 DEF WizardInv, WizardTypes
  <2>6. WizardOpen' /\ WizardShown(k)' /\ WizardPlan(k)' /\ WizardChosen(k)'
      BY <2>2 DEF WizardInv, WizardOpen, WizardShown, WizardPlan, WizardSettled, WizardChosen, LastScreens, WizardPickers
  <2> QED
      BY <2>5, <2>6 DEF WizardInv
<1> QED
    BY <1>1, <1>2, <1>3

LEMMA OpenAloneKeeps ==
    ASSUME NEW k, WizardBounds(k), WizardInv(k), NEW on \in {"tools", "plugins"}, Wizard(k)!OpenAlone(on)
    PROVE  WizardInv(k)'
<1>1. screen = "welcome" /\ screen' = on /\ alone' = on /\ UNCHANGED <<flow, sel, running, picker, chosen, summary>>
    BY DEF Wizard!OpenAlone, Wizard!Show
<1>2. on # Nothing
    BY DEF WizardBounds
<1>3. WizardTypes(k)'
    BY <1>1 DEF WizardInv, WizardTypes, WizardScreens
<1>4. WizardOpen' /\ WizardShown(k)' /\ WizardPlan(k)' /\ WizardChosen(k)'
    BY <1>1, <1>2 DEF WizardInv, WizardOpen, WizardShown, WizardPlan, WizardSettled, WizardChosen, LastScreens, WizardPickers
<1> QED
    BY <1>3, <1>4 DEF WizardInv

(* ------------------------------------------------------- the two ways back *)

LEMMA BackOf ==
    ASSUME NEW k, WizardBounds(k), flow
    PROVE  /\ \A last : Wizard(k)!BeforeSkills(last) = IF Wizard(k)!ShowTDD(sel) THEN "tdd" ELSE "deps"
           /\ alone = Nothing => /\ Wizard(k)!FromTools = IF Wizard(k)!ShowTDD(sel) THEN "tdd"
                                                         ELSE IF Wizard(k)!Custom(sel) THEN "deps" ELSE "preset"
                                 /\ Wizard(k)!FromPlugins = "tools"
                                 /\ Wizard(k)!FromPlan = IF Wizard(k)!PiOnly(sel) THEN "agents"
                                                        ELSE IF Wizard(k)!ShowPlugins(sel, "deps") THEN "plugins" ELSE "tools"
<1>1. ~Wizard(k)!ShowTDD(sel) => \A a : ~Wizard(k)!ShowFor(sel, a)
    BY DEF Wizard!ShowTDD, Wizard!ShowFor
<1>2. ASSUME NEW last
      PROVE  Wizard(k)!BeforeSkills(last) = IF Wizard(k)!ShowTDD(sel) THEN "tdd" ELSE "deps"
    BY <1>1 DEF Wizard!BeforeSkills
<1>3. ASSUME alone = Nothing
      PROVE  /\ alone # "tools" /\ alone # "plugins"
             /\ Wizard(k)!FromTools = IF Wizard(k)!ShowTDD(sel) THEN "tdd"
                                      ELSE IF Wizard(k)!Custom(sel) THEN "deps" ELSE "preset"
  <2>1. alone # "tools" /\ alone # "plugins"
      BY <1>3 DEF WizardBounds
  <2> QED
      BY <1>1, <2>1 DEF Wizard!FromTools
<1>4. alone = Nothing => /\ Wizard(k)!FromPlugins = "tools"
                         /\ Wizard(k)!FromPlan = IF Wizard(k)!PiOnly(sel) THEN "agents"
                                                ELSE IF Wizard(k)!ShowPlugins(sel, "deps") THEN "plugins" ELSE "tools"
    BY <1>3 DEF Wizard!FromPlugins, Wizard!FromPlan, Wizard!ShowTools
<1> QED
    BY <1>2, <1>3, <1>4

LEMMA EscOf ==
    ASSUME NEW k
    PROVE  /\ screen \in WizardPickers \ {"models"} /\ Wizard(k)!PickerPrevious(sel, screen) # Nothing =>
                Wizard(k)!EscTo = Wizard(k)!PickerPrevious(sel, screen)
           /\ screen = "models" => Wizard(k)!EscTo = "mode"
           /\ screen = "tools" => Wizard(k)!EscTo = Wizard(k)!FromTools
           /\ screen = "plugins" => Wizard(k)!EscTo = Wizard(k)!FromPlugins
           /\ screen = "deps" => Wizard(k)!EscTo = IF Wizard(k)!Custom(sel) THEN "preset" ELSE Wizard(k)!FromPlan
           /\ screen = "skills" /\ Wizard(k)!Custom(sel) => Wizard(k)!EscTo = Wizard(k)!BeforeSkills({"kiro"})
           /\ screen = "review" => Wizard(k)!EscTo = IF ~Wizard(k)!Custom(sel) THEN "deps"
                                                    ELSE IF Wizard(k)!ShowSkills(sel) THEN "skills"
                                                    ELSE Wizard(k)!BeforeSkills({"claude"})
           /\ screen = "detection" => Wizard(k)!EscTo = "welcome"
           /\ screen = "agents" => Wizard(k)!EscTo = "detection"
           /\ screen = "persona" => Wizard(k)!EscTo = "agents"
           /\ screen = "preset" => Wizard(k)!EscTo = "persona"
           /\ screen = "installing" => Wizard(k)!EscTo = "review"
           /\ screen = "complete" => Wizard(k)!EscTo = "installing"
BY DEF Wizard!EscTo, Wizard!Picker, Wizard!Backward, WizardPickers

LEMMA BackRowOf ==
    ASSUME NEW k
    PROVE  /\ screen \in WizardPickers /\ Wizard(k)!PickerPrevious(sel, screen) # Nothing =>
                Wizard(k)!BackTo = Wizard(k)!PickerPrevious(sel, screen)
           /\ screen = "tools" => Wizard(k)!BackTo = Wizard(k)!FromTools
           /\ screen = "plugins" => Wizard(k)!BackTo = Wizard(k)!FromPlugins
           /\ screen = "deps" => Wizard(k)!BackTo = IF Wizard(k)!Custom(sel) THEN "preset" ELSE Wizard(k)!FromPlan
           /\ screen = "skills" /\ Wizard(k)!Custom(sel) => Wizard(k)!BackTo = Wizard(k)!BeforeSkills({"claude"})
           /\ screen = "review" => Wizard(k)!BackTo = IF ~Wizard(k)!Custom(sel) THEN "deps"
                                                     ELSE IF Wizard(k)!ShowSkills(sel) THEN "skills"
                                                     ELSE Wizard(k)!BeforeSkills({"claude"})
           /\ screen = "detection" => Wizard(k)!BackTo = "welcome"
           /\ screen = "agents" => Wizard(k)!BackTo = "detection"
           /\ screen = "persona" => Wizard(k)!BackTo = "agents"
           /\ screen = "preset" => Wizard(k)!BackTo = "persona"
BY DEF Wizard!BackTo, Wizard!Picker, Wizard!Backward, WizardPickers

(* Where Esc may lead from a screen.                                       *)
MayGoBack(k, to) ==
    /\ to \in WizardScreens \ {"result", "quit", "complete"}
    /\ to \in WizardPickers => PickerShown(k, sel, to)
    /\ to = "plugins" => "opencode" \in sel.agents
    /\ to = "skills" => Wizard(k)!ShowSkills(sel)
    /\ alone # Nothing => to = "welcome"
    /\ to \in LastScreens => screen \in LastScreens
    /\ to = "deps" /\ ~Wizard(k)!Custom(sel) => WizardSettled(k)
    /\ Wizard(k)!Custom(sel) /\ to \in WizardPickers \cup {"tools", "plugins", "skills"} => WizardSettled(k)

LEMMA EscMay ==
    ASSUME NEW k, WizardBounds(k), WizardInv(k), screen \notin {"welcome", "result", "quit"}
    PROVE  /\ MayGoBack(k, Wizard(k)!EscTo)
           /\ screen \notin {"installing", "complete"} => Wizard(k)!BackTo = Wizard(k)!EscTo
<1>1. PICK to : to = Wizard(k)!EscTo
    OBVIOUS
<1>2. CASE screen \in WizardPickers
  <2>1. PICK s, on : s = sel /\ on = screen
      OBVIOUS
  <2>2. PickerShown(k, s, on) /\ alone = Nothing /\ flow
      BY <1>2, <2>1 DEF WizardInv, WizardShown, WizardOpen, WizardTypes, WizardPickers
  <2>3. PICK before : before = Wizard(k)!PickerPrevious(s, on)
      OBVIOUS
  <2>4. PickerShown(k, s, before) \/ before = Before(k, s)
      BY <2>2, <2>3, PickerGoesBack
  <2>5. before # Nothing
      BY <2>4 DEF PickerShown, Before, WizardPickers, WizardBounds
  <2>6. on = "models" => before = "mode"
      BY <2>2, <2>3, PickerOrder DEF PickerShown
  <2>7. to = before /\ Wizard(k)!BackTo = before
      BY <1>1, <1>2, <2>1, <2>3, <2>5, <2>6, EscOf, BackRowOf
  <2>8. MayGoBack(k, before)
      BY <1>2, <2>1, <2>2, <2>4 DEF MayGoBack, PickerShown, Before, WizardPickers, WizardScreens, WizardSettled, LastScreens
  <2> QED
      BY <1>1, <2>7, <2>8
<1>3. CASE screen \in {"detection", "agents", "persona", "preset"}
  <2>1. to \in {"welcome", "detection", "agents", "persona"} /\ Wizard(k)!BackTo = to
      BY <1>1, <1>3, EscOf, BackRowOf
  <2>2. alone = Nothing
      BY <1>3 DEF WizardInv, WizardOpen, WizardTypes
  <2>3. MayGoBack(k, to)
      BY <2>1, <2>2 DEF MayGoBack, WizardPickers, WizardScreens, LastScreens
  <2> QED
      BY <1>1, <2>1, <2>3
<1>4. CASE screen \in {"tools", "plugins"} /\ alone # Nothing
  <2>1. alone = screen
      BY <1>4 DEF WizardInv, WizardOpen
  <2>2. to = "welcome" /\ Wizard(k)!BackTo = "welcome"
      BY <1>1, <1>4, <2>1, EscOf, BackRowOf DEF Wizard!FromTools, Wizard!FromPlugins
  <2>3. MayGoBack(k, to)
      BY <2>2 DEF MayGoBack, WizardPickers, WizardScreens, LastScreens
  <2> QED
      BY <1>1, <2>2, <2>3
<1>5. CASE screen = "tools" /\ alone = Nothing
  <2>1. flow
      BY <1>5 DEF WizardInv, WizardOpen
  <2>2. /\ to = (IF Wizard(k)!ShowTDD(sel) THEN "tdd" ELSE IF Wizard(k)!Custom(sel) THEN "deps" ELSE "preset")
        /\ Wizard(k)!BackTo = to
      BY <1>1, <1>5, <2>1, BackOf, EscOf, BackRowOf
  <2>3. MayGoBack(k, to)
      BY <1>5, <2>2 DEF MayGoBack, WizardPickers, WizardScreens, LastScreens, WizardSettled, PickerShown, Wizard!ShowTDD
  <2> QED
      BY <1>1, <2>2, <2>3
<1>6. CASE screen = "plugins" /\ alone = Nothing
  <2>1. flow
      BY <1>6 DEF WizardInv, WizardOpen
  <2>2. to = "tools" /\ Wizard(k)!BackTo = to
      BY <1>1, <1>6, <2>1, BackOf, EscOf, BackRowOf
  <2>3. MayGoBack(k, to)
      BY <1>6, <2>2 DEF MayGoBack, WizardPickers, WizardScreens, LastScreens, WizardSettled
  <2> QED
      BY <1>1, <2>2, <2>3
<1>7. CASE screen = "deps"
  <2>1. flow /\ alone = Nothing
      BY <1>7 DEF WizardInv, WizardOpen, WizardTypes
  <2>2. Wizard(k)!BackTo = to
      BY <1>1, <1>7, EscOf, BackRowOf
  <2>3. to = IF Wizard(k)!Custom(sel) THEN "preset" ELSE IF Wizard(k)!PiOnly(sel) THEN "agents"
             ELSE IF Wizard(k)!ShowPlugins(sel, "deps") THEN "plugins" ELSE "tools"
      BY <1>1, <1>7, <2>1, BackOf, EscOf
  <2>4. MayGoBack(k, to)
      BY <1>7, <2>1, <2>3 DEF MayGoBack, WizardPickers, WizardScreens, LastScreens, Wizard!ShowPlugins
  <2> QED
      BY <1>1, <2>2, <2>4
<1>8. CASE screen = "skills"
  <2>1. flow /\ alone = Nothing /\ Wizard(k)!Custom(sel)
      BY <1>8 DEF WizardInv, WizardOpen, WizardTypes, WizardShown, Wizard!ShowSkills
  <2>2. to = (IF Wizard(k)!ShowTDD(sel) THEN "tdd" ELSE "deps") /\ Wizard(k)!BackTo = to
      BY <1>1, <1>8, <2>1, BackOf, EscOf, BackRowOf
  <2>3. MayGoBack(k, to)
      BY <1>8, <2>1, <2>2 DEF MayGoBack, WizardPickers, WizardScreens, LastScreens, WizardSettled, PickerShown, Wizard!ShowTDD
  <2> QED
      BY <1>1, <2>2, <2>3
<1>9. CASE screen = "review"
  <2>1. flow /\ alone = Nothing
      BY <1>9 DEF WizardInv, WizardOpen, WizardTypes
  <2>2. /\ to = (IF ~Wizard(k)!Custom(sel) THEN "deps" ELSE IF Wizard(k)!ShowSkills(sel) THEN "skills"
                 ELSE IF Wizard(k)!ShowTDD(sel) THEN "tdd" ELSE "deps")
        /\ Wizard(k)!BackTo = to
      BY <1>1, <1>9, <2>1, BackOf, EscOf, BackRowOf
  <2>3. MayGoBack(k, to)
      BY <1>9, <2>1, <2>2 DEF MayGoBack, WizardPickers, WizardScreens, LastScreens, WizardSettled, PickerShown, Wizard!ShowTDD
  <2> QED
      BY <1>1, <2>2, <2>3
<1>10. CASE screen \in {"installing", "complete"}
  <2>1. alone = Nothing
      BY <1>10 DEF WizardInv, WizardOpen, WizardTypes
  <2>2. to \in {"review", "installing"}
      BY <1>1, <1>10, EscOf
  <2>3. MayGoBack(k, to)
      BY <1>10, <2>1, <2>2 DEF MayGoBack, WizardPickers, WizardScreens, LastScreens, WizardSettled
  <2> QED
      BY <1>1, <1>10, <2>3
<1> QED
    BY <1>2, <1>3, <1>4, <1>5, <1>6, <1>7, <1>8, <1>9, <1>10 DEF WizardInv, WizardTypes, WizardScreens, WizardPickers

LEMMA WaysBackKeep ==
    ASSUME NEW k, WizardBounds(k), WizardInv(k), Wizard(k)!PressBack \/ Wizard(k)!PressEsc
    PROVE  WizardInv(k)'
<1>1. PICK to : to = Wizard(k)!EscTo
    OBVIOUS
<1>2. screen \notin {"welcome", "result", "quit"}
    BY DEF Wizard!PressBack, Wizard!PressEsc, Wizard!HasBack
<1>3. Wizard(k)!Leave(to)
    BY <1>1, <1>2, EscMay DEF Wizard!PressBack, Wizard!PressEsc
<1>4. MayGoBack(k, to)
    BY <1>1, <1>2, EscMay
<1>5. /\ screen' = to /\ picker' = (IF to = "skills" /\ picker = {} THEN k.Skills ELSE picker)
      /\ summary' = (IF to \in {"review", "installing"} THEN summary ELSE Nothing)
      /\ UNCHANGED <<flow, sel, chosen, running>> /\ alone' = IF screen \in {"tools", "plugins"} THEN Nothing ELSE alone
    BY <1>3 DEF Wizard!Leave
<1>6. alone' = Nothing
    BY <1>2, <1>5 DEF WizardInv, WizardOpen, WizardTypes
<1>7. WizardTypes(k)'
    BY <1>4, <1>5, <1>6 DEF WizardInv, WizardTypes, MayGoBack
<1>8. WizardOpen'
    BY <1>2, <1>4, <1>5, <1>6 DEF WizardInv, WizardOpen, MayGoBack
<1>9. WizardShown(k)'
  <2>1. sel' = sel
      BY <1>5
  <2>2. screen' \in WizardPickers => PickerShown(k, sel', screen')
      BY <1>4, <1>5, <2>1 DEF MayGoBack
  <2>3. screen' = "skills" => Wizard(k)!ShowSkills(sel')
      BY <1>4, <1>5, <2>1 DEF MayGoBack
  <2>4. screen' = "plugins" => "opencode" \in sel'.agents
      BY <1>4, <1>5, <2>1 DEF MayGoBack
  <2> QED
      BY <2>2, <2>3, <2>4 DEF WizardShown
<1>10. WizardSettled(k)' => WizardSettled(k)
    BY <1>4, <1>5 DEF MayGoBack, WizardSettled, Wizard!Custom
<1>11. WizardPlan(k)'
    BY <1>5, <1>10 DEF WizardInv, WizardPlan
<1>12. WizardChosen(k)'
    BY <1>4, <1>5 DEF WizardInv, WizardChosen, MayGoBack, WizardScreens, LastScreens
<1> QED
    BY <1>7, <1>8, <1>9, <1>11, <1>12 DEF WizardInv

(* ------------------------------------------------- the inductive invariant *)

LEMMA WizardStarts == ASSUME NEW k, WizardBounds(k), Wizard(k)!Init PROVE WizardInv(k)
<1>1. PICK a \in SUBSET k.Agents \ {{}} :
        sel = [agents |-> a, persona |-> "gentleman", preset |-> "full", mode |-> "", tdd |-> FALSE, skills |-> {},
               components |-> IF a = {"pi"} THEN {"engram"} ELSE Wizard(k)!ComponentsForPreset("full", "gentleman")]
    BY DEF Wizard!Init
<1>2. screen = "welcome" /\ flow = FALSE /\ alone = Nothing /\ running = FALSE /\ picker = {}
    BY DEF Wizard!Init
<1>3. PICK c \in SUBSET {"engram", "sdd", "skills", "persona"} :
        sel = [agents |-> a, persona |-> "gentleman", preset |-> "full", mode |-> "", tdd |-> FALSE, skills |-> {},
               components |-> c]
  <2>1. Wizard(k)!ComponentsForPreset("full", "gentleman") \in SUBSET {"engram", "sdd", "skills", "persona"}
      BY ComponentsTyped
  <2> QED
      BY <1>1, <2>1
<1>4. sel \in Selections(k) /\ sel.skills = {}
    BY <1>3 DEF WizardBounds, Selections
<1>5. WizardTypes(k)
    BY <1>2, <1>4 DEF WizardTypes, WizardScreens
<1>6. WizardOpen /\ WizardShown(k) /\ WizardPlan(k) /\ WizardChosen(k)
    BY <1>2, <1>4 DEF WizardOpen, WizardShown, WizardPlan, WizardSettled, WizardChosen, WizardPickers, LastScreens
<1> QED
    BY <1>5, <1>6 DEF WizardInv

LEMMA WizardStep ==
    ASSUME NEW k, WizardBounds(k), WizardInv(k), [Wizard(k)!Next]_(Wizard(k)!vars)
    PROVE  WizardInv(k)'
<1>1. CASE Wizard(k)!Continue
    BY <1>1, OnWelcomeKeeps, MovesOnKeeps, OnAgentsKeeps, OnModelsKeeps, OnToolsKeeps, OnPluginsKeeps, OnDepsKeeps,
       OnSkillsKeeps, OnPersonaKeeps, OnPresetKeeps, OnModeKeeps, OnTDDKeeps DEF Wizard!Continue, Wizard!Presets
<1>2. CASE Wizard(k)!PipelineDone \/ Wizard(k)!LeaveResult
    BY <1>2, MovesOnKeeps
<1>3. CASE Wizard(k)!PressBack \/ Wizard(k)!PressEsc
    BY <1>3, WaysBackKeep
<1>4. CASE \/ \E a \in k.Agents : Wizard(k)!ToggleAgent(a)
           \/ \E c \in {"engram", "sdd", "skills"} : Wizard(k)!ToggleComponent(c)
           \/ \E x \in k.Skills : Wizard(k)!ToggleSkill(x)
    BY <1>4, TogglesKeep
<1>5. CASE \E on \in {"tools", "plugins"} : Wizard(k)!OpenAlone(on)
    BY <1>5, OpenAloneKeeps
<1>6. CASE UNCHANGED Wizard(k)!vars
  <2>1. UNCHANGED <<screen, flow, alone, sel, picker, chosen, summary, running>>
      BY <1>6 DEF Wizard!vars
  <2> QED
      BY <2>1 DEF WizardInv, WizardTypes, WizardOpen, WizardShown, WizardPlan, WizardSettled, WizardChosen
<1> QED
    BY <1>1, <1>2, <1>3, <1>4, <1>5, <1>6 DEF Wizard!Next, Wizard!Choosable

LEMMA WizardInvHolds == ASSUME NEW k, WizardBounds(k) PROVE Wizard(k)!Spec => []WizardInv(k)
<1>1. Wizard(k)!Init => WizardInv(k)
    BY WizardStarts
<1>2. WizardInv(k) /\ [Wizard(k)!Next]_(Wizard(k)!vars) => WizardInv(k)'
    BY WizardStep
<1> QED
    BY <1>1, <1>2, PTL DEF Wizard!Spec

(* ------------------------------------------------------- what it implies *)

LEMMA WizardTyped == ASSUME NEW k, WizardInv(k) PROVE Wizard(k)!TypeOK
<1>1. screen \in DOMAIN Wizard(k)!Backward \cup {"welcome", "tools", "plugins", "result", "quit"}
    BY DEF WizardInv, WizardTypes, WizardScreens, Wizard!Backward
<1>2. Wizard(k)!Choosable \cup {"persona"} = {"engram", "sdd", "skills", "persona"}
    BY DEF Wizard!Choosable
<1> QED
    BY <1>1, <1>2 DEF WizardInv, WizardTypes, Selections, Wizard!TypeOK, Wizard!Presets

LEMMA WizardPlans ==
    ASSUME NEW k, WizardBounds(k), WizardInv(k)
    PROVE  Wizard(k)!PlanIsCurrent /\ (~k.Reconsiders => Wizard(k)!SkillsAsChosen)
<1>1. screen \in {"review", "installing"} => chosen = Wizard(k)!Resolve(sel) /\ summary = Wizard(k)!ReviewPayload(sel, chosen)
    BY DEF WizardInv, WizardPlan, WizardSettled, WizardChosen, LastScreens
<1>2. ASSUME ~k.Reconsiders, screen = "installing"
      PROVE  Wizard(k)!SelectedSkills(sel, chosen) =
                IF "skills" \notin chosen.components THEN {}
                ELSE IF Wizard(k)!Custom(sel) THEN picker ELSE Wizard(k)!SkillsForPreset(sel.preset)
  <2>1. chosen = Wizard(k)!Resolve(sel)
      BY <1>1, <1>2
  <2>2. "skills" \in chosen.components => "skills" \in sel.components
      BY <2>1 DEF Wizard!Resolve
  <2>3. Wizard(k)!Custom(sel) /\ "skills" \in sel.components => sel.skills = picker
      BY <1>2 DEF WizardInv, WizardChosen, LastScreens, Wizard!ShowSkills
  <2>4. ~Wizard(k)!Custom(sel) => sel.skills = {}
      BY <1>2 DEF WizardInv, WizardChosen
  <2>5. Wizard(k)!Custom(sel) => Wizard(k)!SkillsForPreset(sel.preset) = {}
      BY DEF Wizard!Custom, Wizard!SkillsForPreset
  <2> QED
      BY <2>2, <2>3, <2>4, <2>5 DEF Wizard!SelectedSkills
<1> QED
    BY <1>1, <1>2 DEF Wizard!PlanIsCurrent, Wizard!SkillsAsChosen

LEMMA WizardWays ==
    ASSUME NEW k, WizardBounds(k), WizardInv(k)
    PROVE  Wizard(k)!EscIsBack /\ Wizard(k)!NoDeadEnd
<1>1. Wizard(k)!EscIsBack
    BY EscMay DEF Wizard!EscIsBack, Wizard!HasBack
<1>2. ASSUME screen \in WizardPickers
      PROVE  /\ screen # "tdd" => Wizard(k)!PickerNext(sel, screen) # Nothing
             /\ Wizard(k)!PickerPrevious(sel, screen) # Nothing
  <2>1. PICK s, on : s = sel /\ on = screen
      OBVIOUS
  <2>2. PickerShown(k, s, on)
      BY <1>2, <2>1 DEF WizardInv, WizardShown
  <2>3. PICK next, before : next = Wizard(k)!PickerNext(s, on) /\ before = Wizard(k)!PickerPrevious(s, on)
      OBVIOUS
  <2>4. on # "tdd" => PickerShown(k, s, next)
      BY <2>2, <2>3, PickerGoesOn
  <2>5. PickerShown(k, s, before) \/ before = Before(k, s)
      BY <2>2, <2>3, PickerGoesBack
  <2>6. (on # "tdd" => next # Nothing) /\ before # Nothing
      BY <2>4, <2>5 DEF PickerShown, Before, WizardPickers, WizardBounds
  <2> QED
      BY <2>1, <2>3, <2>6
<1>3. Wizard(k)!NoDeadEnd
    BY <1>2 DEF Wizard!NoDeadEnd, Wizard!Picker, WizardPickers
<1> QED
    BY <1>1, <1>3

(* ---------------------------------------------- going on, and back again *)

(* Where Esc leads after a step, in the presets with their own components. *)
LEMMA EscAfter ==
    ASSUME NEW k, WizardBounds(k), NEW s, s = sel', NEW on, on = screen', ~Wizard(k)!Custom(s), ~Wizard(k)!PiOnly(s),
           flow', alone' = Nothing
    PROVE  /\ PickerShown(k, s, on) => Wizard(k)!EscTo' = Wizard(k)!PickerPrevious(s, on)
           /\ on = "tools" => Wizard(k)!EscTo' = IF "sdd" \in s.components THEN "tdd" ELSE "preset"
           /\ on = "plugins" => Wizard(k)!EscTo' = "tools"
           /\ on = "deps" => Wizard(k)!EscTo' = IF "opencode" \in s.agents THEN "plugins" ELSE "tools"
           /\ on = "review" => Wizard(k)!EscTo' = "deps"
<1>1. ASSUME PickerShown(k, s, on) PROVE Wizard(k)!EscTo' = Wizard(k)!PickerPrevious(s, on)
  <2>1. PICK before : before = Wizard(k)!PickerPrevious(s, on)
      OBVIOUS
  <2>2. PickerShown(k, s, before) \/ before = Before(k, s)
      BY <1>1, <2>1, PickerGoesBack
  <2>3. before # Nothing
      BY <2>2 DEF PickerShown, Before, WizardPickers, WizardBounds
  <2>4. on = "models" => before = "mode"
      BY <1>1, <2>1, PickerOrder DEF PickerShown
  <2>5. on \in {"claude", "kiro", "codex", "mode", "models", "tdd"}
      BY <1>1 DEF PickerShown, WizardPickers
  <2> QED
      BY <2>1, <2>3, <2>4, <2>5 DEF Wizard!EscTo, Wizard!Picker, Wizard!Backward
<1>2. alone' # "tools" /\ alone' # "plugins"
    BY DEF WizardBounds
<1>3. "sdd" \notin s.components => \A a : ~Wizard(k)!ShowFor(s, a)
    BY DEF Wizard!ShowFor
<1>4. on = "tools" => Wizard(k)!EscTo' = IF "sdd" \in s.components THEN "tdd" ELSE "preset"
  <2>1. Wizard(k)!FromTools' = IF "sdd" \in s.components THEN "tdd" ELSE "preset"
      BY <1>2, <1>3 DEF Wizard!FromTools, Wizard!ShowTDD
  <2> QED
      BY <2>1 DEF Wizard!EscTo, Wizard!Picker
<1>5. on = "plugins" => Wizard(k)!EscTo' = "tools"
  <2>1. Wizard(k)!FromPlugins' = "tools"
      BY <1>2 DEF Wizard!FromPlugins, Wizard!ShowTools
  <2> QED
      BY <2>1 DEF Wizard!EscTo, Wizard!Picker
<1>6. on = "deps" => Wizard(k)!EscTo' = IF "opencode" \in s.agents THEN "plugins" ELSE "tools"
  <2>1. Wizard(k)!FromPlan' = IF "opencode" \in s.agents THEN "plugins" ELSE "tools"
      BY <1>2 DEF Wizard!FromPlan, Wizard!ShowTools, Wizard!ShowPlugins
  <2> QED
      BY <2>1 DEF Wizard!EscTo, Wizard!Picker
<1>7. on = "review" => Wizard(k)!EscTo' = "deps"
    BY DEF Wizard!EscTo, Wizard!Picker, Wizard!Backward
<1> QED
    BY <1>1, <1>4, <1>5, <1>6, <1>7

(* And on the screens before and after these.                              *)
LEMMA EscAtEnds ==
    ASSUME NEW k
    PROVE  /\ screen' = "detection" => Wizard(k)!EscTo' = "welcome"
           /\ screen' = "agents" => Wizard(k)!EscTo' = "detection"
           /\ screen' = "persona" => Wizard(k)!EscTo' = "agents"
           /\ screen' = "preset" => Wizard(k)!EscTo' = "persona"
           /\ screen' = "installing" => Wizard(k)!EscTo' = "review"
           /\ screen' = "complete" => Wizard(k)!EscTo' = "installing"
BY DEF Wizard!EscTo, Wizard!Picker, Wizard!Backward

LEMMA WizardReturns ==
    ASSUME NEW k, WizardBounds(k), WizardInv(k), Wizard(k)!Next
    PROVE  Wizard(k)!Returns
<1> SUFFICES ASSUME Wizard(k)!Continue, screen' \notin {screen, "result", "quit"}, sel'.preset \in {"full", "minimal"},
                    ~Wizard(k)!PiOnly(sel')
             PROVE  Wizard(k)!EscTo' = screen
    BY DEF Wizard!Returns, WizardBounds
<1>0. PICK s : s = sel'
    OBVIOUS
<1>1. ~Wizard(k)!Custom(s) /\ ~Wizard(k)!PiOnly(s)
    BY <1>0 DEF Wizard!Custom
<1>2. WizardInv(k)'
    BY WizardStep
<1>3. screen' \notin {"welcome", "tools", "plugins"} => flow' /\ alone' = Nothing
    BY <1>2 DEF WizardInv, WizardOpen, WizardTypes
<1>4. CASE Wizard(k)!OnWelcome \/ Wizard(k)!OnDetection \/ Wizard(k)!OnReview \/ Wizard(k)!OnInstalling \/ Wizard(k)!OnComplete
    BY <1>4, EscAtEnds DEF Wizard!OnWelcome, Wizard!OnDetection, Wizard!OnReview, Wizard!OnInstalling, Wizard!OnComplete, Wizard!Show
<1>5. CASE Wizard(k)!OnAgents
    BY <1>0, <1>1, <1>5, OnAgentsKeeps, EscAtEnds
<1>6. CASE \E p \in k.Personas : Wizard(k)!OnPersona(p)
    BY <1>6, EscAtEnds DEF Wizard!OnPersona, Wizard!Show
<1>7. ASSUME NEW p \in Wizard(k)!Presets, Wizard(k)!OnPreset(p) PROVE Wizard(k)!EscTo' = screen
  <2>1. /\ screen = "preset" /\ s.preset = p /\ p # "custom"
        /\ IF "sdd" \in s.components THEN screen' = FromClaude(k, s) ELSE screen' = "tools"
      BY <1>0, <1>1, <1>7, OnPresetKeeps DEF Wizard!Presets, Wizard!Custom
  <2>2. flow' /\ alone' = Nothing
      BY <1>7, <2>1 DEF Wizard!OnPreset, WizardInv, WizardOpen, WizardTypes
  <2>3. CASE "sdd" \in s.components
    <3>1. PICK on : on = screen'
        OBVIOUS
    <3>2. on = FromClaude(k, s)
        BY <2>1, <2>3, <3>1
    <3>3. PickerShown(k, s, on) /\ Wizard(k)!PickerPrevious(s, on) = "preset"
        BY <1>1, <2>3, <3>2, PickerFirst DEF Before
    <3> QED
        BY <1>0, <1>1, <2>1, <2>2, <3>1, <3>3, EscAfter
  <2>4. CASE "sdd" \notin s.components
      BY <1>0, <1>1, <2>1, <2>2, <2>4, EscAfter
  <2> QED
      BY <2>3, <2>4
<1>8. CASE Wizard(k)!OnModels
  <2>1. PICK on, next : on = screen /\ next = Wizard(k)!PickerNext(s, on)
      OBVIOUS
  <2>2. sel' = sel /\ UNCHANGED <<flow, alone>>
      BY <1>8 DEF Wizard!OnModels
  <2>3. PickerShown(k, s, on) /\ on # "tdd" /\ screen' = next
      BY <1>0, <1>8, <2>1, <2>2, OnModelsKeeps
  <2>4. PickerShown(k, s, next) /\ Wizard(k)!PickerPrevious(s, next) = on
      BY <2>1, <2>3, PickerGoesOn
  <2>5. flow' /\ alone' = Nothing
      BY <1>3, <2>3, <2>4 DEF PickerShown, WizardPickers
  <2> QED
      BY <1>0, <1>1, <2>1, <2>3, <2>4, <2>5, EscAfter
<1>9. ASSUME NEW m \in {"single", "multi"}, Wizard(k)!OnMode(m) PROVE Wizard(k)!EscTo' = screen
  <2>1. PICK next : next = Wizard(k)!PickerNext(s, "mode")
      OBVIOUS
  <2>2. screen = "mode" /\ PickerShown(k, s, "mode") /\ s.mode = m /\ screen' = IF m = "multi" THEN "models" ELSE "tdd"
      BY <1>0, <1>9, OnModeKeeps
  <2>3. next = IF m = "multi" THEN "models" ELSE "tdd"
      BY <2>1, <2>2, PickerOrder DEF PickerShown
  <2>4. PickerShown(k, s, next) /\ Wizard(k)!PickerPrevious(s, next) = "mode" /\ screen' = next
      BY <2>1, <2>2, <2>3, PickerGoesOn
  <2>5. flow' /\ alone' = Nothing
      BY <1>3, <2>4 DEF PickerShown, WizardPickers
  <2> QED
      BY <1>0, <1>1, <2>2, <2>4, <2>5, EscAfter
<1>10. ASSUME NEW strict \in BOOLEAN, Wizard(k)!OnTDD(strict) PROVE Wizard(k)!EscTo' = screen
  <2>1. screen = "tdd" /\ screen' = "tools" /\ "sdd" \in s.components /\ flow' /\ alone' = Nothing
      BY <1>0, <1>10, OnTDDKeeps
  <2> QED
      BY <1>0, <1>1, <2>1, EscAfter
<1>11. CASE Wizard(k)!OnTools
  <2>1. screen = "tools" /\ UNCHANGED <<flow, alone, sel, running>> /\ ~Wizard(k)!Custom(sel)
      BY <1>0, <1>1, <1>11 DEF Wizard!OnTools
  <2>2. screen' \in {"deps", "plugins"} /\ (screen' = "deps" => "opencode" \notin s.agents)
      BY <1>0, <1>11, <2>1, OnToolsKeeps
  <2>3. flow' /\ alone' = Nothing
      BY <1>2, <2>1, <2>2 DEF WizardInv, WizardOpen, WizardTypes
  <2> QED
      BY <1>0, <1>1, <2>1, <2>2, <2>3, EscAfter
<1>12. CASE Wizard(k)!OnPlugins
  <2>1. screen = "plugins" /\ UNCHANGED <<flow, alone, sel, running>> /\ ~Wizard(k)!Custom(sel)
      BY <1>0, <1>1, <1>12 DEF Wizard!OnPlugins
  <2>2. screen' = "deps"
      BY <1>12, <2>1, OnPluginsKeeps
  <2>3. flow' /\ alone' = Nothing
      BY <1>3, <2>2
  <2>4. "opencode" \in s.agents
      BY <1>0, <2>1, <2>3 DEF WizardInv, WizardShown
  <2> QED
      BY <1>0, <1>1, <2>1, <2>2, <2>3, <2>4, EscAfter
<1>13. CASE Wizard(k)!OnDeps
  <2>1. screen = "deps" /\ screen' = "review"
      BY <1>0, <1>1, <1>13, OnDepsKeeps
  <2>2. flow' /\ alone' = Nothing
      BY <1>3, <2>1
  <2> QED
      BY <1>0, <1>1, <2>1, <2>2, EscAfter
<1>14. CASE Wizard(k)!OnSkills
    BY <1>0, <1>1, <1>14, OnSkillsKeeps
<1> QED
    BY <1>4, <1>5, <1>6, <1>7, <1>8, <1>9, <1>10, <1>11, <1>12, <1>13, <1>14 DEF Wizard!Continue

-----------------------------------------------------------------------------
(***************************************************************************)
(* The settings                                                            *)
(***************************************************************************)

(* Of the constants of a run: no file content is a missing or a special    *)
(* file, the process that runs is not the screen, there are two files, and *)
(* the missing screen is none of the screens.                              *)
InstallerValues ==
    /\ Absent \notin [listed : BOOLEAN, rev : Nat] /\ Absent \notin Nat /\ Special \notin Nat
    /\ Absent # Special /\ r1 # s1 /\ f1 # f2
    /\ Nothing \notin {"preset", "deps", "claude", "kiro", "codex", "mode", "models", "tdd", "tools", "plugins"}

(* ------------------------------------------------------ PluginUninstall *)

LEMMA UninstallSettings ==
    ASSUME InstallerValues
    PROVE  /\ UninstallBounds(Npm) /\ UninstallBounds(Logo) /\ UninstallBounds(Late)
           /\ ~Npm.LateSyncFails /\ ~Logo.LateSyncFails /\ ~Npm.RacyEdits /\ ~Late.RacyEdits
<1>0. /\ Npm.LateSyncFails = FALSE /\ Npm.RacyEdits = FALSE /\ Logo.LateSyncFails = FALSE /\ Logo.RacyEdits = TRUE
      /\ Late.LateSyncFails = TRUE /\ Late.RacyEdits = FALSE
    BY DEF Npm, Logo, Late
<1>a. /\ Npm.LateSyncFails \in BOOLEAN /\ Npm.RacyEdits \in BOOLEAN
      /\ Logo.LateSyncFails \in BOOLEAN /\ Logo.RacyEdits \in BOOLEAN
      /\ Late.LateSyncFails \in BOOLEAN /\ Late.RacyEdits \in BOOLEAN
    BY <1>0, Zenon
<1>1. UninstallBounds(Npm)
  <2>1. /\ Npm.Layers = <<"tui", "pkg", "modules", "cache">> /\ Npm.Dirs = {"modules", "cache"} /\ Npm.Deleted = {}
        /\ Npm.MaxEdits = 2 /\ Npm.MaxFails = 2
      BY DEF Npm
  <2> DEFINE L == <<"tui", "pkg", "modules", "cache">>
  <2>2. /\ Len(L) = 4 /\ DOMAIN L = 1 .. 4 /\ L[1] = "tui" /\ L[2] = "pkg" /\ L[3] = "modules" /\ L[4] = "cache"
      OBVIOUS
  <2>3. \A i \in 1 .. 4 : i = 1 \/ i = 2 \/ i = 3 \/ i = 4
      OBVIOUS
  <2> HIDE DEF L
  <2>4. \A i, j \in 1 .. 4 : L[i] = L[j] => i = j
      BY <2>2, <2>3
  <2>5. \A i \in 1 .. 4 : i # 4 => (L[i] \in {"modules", "cache"} => L[i + 1] \in {"modules", "cache"})
      BY <2>2, <2>3
  <2>6. Npm.Layers = L
      BY <2>1 DEF L
  <2> QED
      BY <1>a, <2>1, <2>2, <2>4, <2>5, <2>6 DEF UninstallBounds, InstallerValues
<1>2. UninstallBounds(Logo)
  <2>1. /\ Logo.Layers = <<"tui", "tsx">> /\ Logo.Dirs = {} /\ Logo.Deleted = {"tsx"}
        /\ Logo.MaxEdits = 3 /\ Logo.MaxFails = 2
      BY DEF Logo
  <2> DEFINE L == <<"tui", "tsx">>
  <2>2. /\ Len(L) = 2 /\ DOMAIN L = 1 .. 2 /\ L[1] = "tui" /\ L[2] = "tsx"
      OBVIOUS
  <2>3. \A i \in 1 .. 2 : i = 1 \/ i = 2
      OBVIOUS
  <2> HIDE DEF L
  <2>4. \A i, j \in 1 .. 2 : L[i] = L[j] => i = j
      BY <2>2, <2>3
  <2>5. \A i \in 1 .. 2 : i # 2 => L[i] \notin {"tsx"}
      BY <2>2, <2>3
  <2>6. Logo.Layers = L
      BY <2>1 DEF L
  <2> QED
      BY <1>a, <2>1, <2>2, <2>4, <2>5, <2>6 DEF UninstallBounds, InstallerValues
<1>3. UninstallBounds(Late)
  <2>1. /\ Late.Layers = <<"tui", "pkg", "modules">> /\ Late.Dirs = {"modules"} /\ Late.Deleted = {}
        /\ Late.MaxEdits = 2 /\ Late.MaxFails = 2
      BY DEF Npm, Late
  <2> DEFINE L == <<"tui", "pkg", "modules">>
  <2>2. /\ Len(L) = 3 /\ DOMAIN L = 1 .. 3 /\ L[1] = "tui" /\ L[2] = "pkg" /\ L[3] = "modules"
      OBVIOUS
  <2>3. \A i \in 1 .. 3 : i = 1 \/ i = 2 \/ i = 3
      OBVIOUS
  <2> HIDE DEF L
  <2>4. \A i, j \in 1 .. 3 : L[i] = L[j] => i = j
      BY <2>2, <2>3
  <2>5. \A i \in 1 .. 3 : i # 3 => (L[i] \in {"modules"} => L[i + 1] \in {"modules"})
      BY <2>2, <2>3
  <2>6. Late.Layers = L
      BY <2>1 DEF L
  <2> QED
      BY <1>a, <2>1, <2>2, <2>4, <2>5, <2>6 DEF UninstallBounds, InstallerValues
<1>4. ~Npm.LateSyncFails /\ ~Logo.LateSyncFails /\ ~Npm.RacyEdits /\ ~Late.RacyEdits
    BY <1>0, Zenon
<1> QED
    BY <1>1, <1>2, <1>3, <1>4

UninstallsInv ==
    /\ part = "npm" => UninstallInv(Npm)
    /\ part = "logo" => UninstallInv(Logo)
    /\ part = "late" => UninstallInv(Late)

LEMMA UninstallsInvHolds == ASSUME InstallerValues PROVE Spec => []UninstallsInv
<1>1. Init => UninstallsInv
    BY UninstallSettings, UninstallStarts DEF Init, InitPart, InitScreens, UninstallsInv
<1>2. UninstallsInv /\ [Next]_vars => UninstallsInv'
  <2> SUFFICES ASSUME UninstallsInv, [Next]_vars PROVE UninstallsInv'
      OBVIOUS
  <2>1. /\ part' = part
        /\ part = "npm" => [Uninstall(Npm)!Next]_(Uninstall(Npm)!vars)
        /\ part = "logo" => [Uninstall(Logo)!Next]_(Uninstall(Logo)!vars)
        /\ part = "late" => [Uninstall(Late)!Next]_(Uninstall(Late)!vars)
      BY DEF Next, NextPart, NextScreens, vars, installing, uninstall, Uninstall!vars
  <2>2. CASE part = "npm"
    <3>1. UninstallInv(Npm)'
        BY <2>1, <2>2, UninstallSettings, UninstallStep DEF UninstallsInv
    <3> QED
        BY <2>1, <2>2, <3>1 DEF UninstallsInv
  <2>3. CASE part = "logo"
    <3>1. UninstallInv(Logo)'
        BY <2>1, <2>3, UninstallSettings, UninstallStep DEF UninstallsInv
    <3> QED
        BY <2>1, <2>3, <3>1 DEF UninstallsInv
  <2>4. CASE part = "late"
    <3>1. UninstallInv(Late)'
        BY <2>1, <2>4, UninstallSettings, UninstallStep DEF UninstallsInv
    <3> QED
        BY <2>1, <2>4, <3>1 DEF UninstallsInv
  <2> QED
      BY <2>1, <2>2, <2>3, <2>4 DEF UninstallsInv
<1> QED
    BY <1>1, <1>2, PTL DEF Spec

(* An uninstall that reports success has left nothing of the plugin, and   *)
(* one that reports a rollback has put back what it changed and nobody     *)
(* else has edited since (communitytool/uninstall.go, MutationJournal).    *)
THEOREM UninstallIsSound == ASSUME InstallerValues PROVE Spec => []UninstallSound
<1>1. UninstallsInv => UninstallSound
  <2> SUFFICES ASSUME UninstallsInv PROVE UninstallSound
      OBVIOUS
  <2>1. ASSUME part = "npm"
        PROVE  Uninstall(Npm)!TypeOK /\ Uninstall(Npm)!DoneIsGone /\ Uninstall(Npm)!RollbackRestores
    <3>1. UninstallInv(Npm) /\ UninstallBounds(Npm) /\ ~Npm.LateSyncFails
        BY <2>1, UninstallSettings DEF UninstallsInv
    <3> QED
        BY <3>1, UninstallTyped, UninstallEnds, UninstallRollsBack
  <2>2. ASSUME part = "logo" PROVE Uninstall(Logo)!DoneIsGone /\ Uninstall(Logo)!RollbackRestores
    <3>1. UninstallInv(Logo)
        BY <2>2 DEF UninstallsInv
    <3> QED
        BY <3>1, UninstallSettings, UninstallEnds, UninstallRollsBack
  <2>3. ASSUME part = "late" PROVE Uninstall(Late)!DoneIsGone
    <3>1. UninstallInv(Late)
        BY <2>3 DEF UninstallsInv
    <3> QED
        BY <3>1, UninstallEnds
  <2> QED
      BY <2>1, <2>2, <2>3 DEF UninstallSound
<1> QED
    BY <1>1, UninstallsInvHolds, PTL

(* ------------------------------------------------------ InstallPipeline *)

LEMMA PipelineSettings == PipelineBounds(Known) /\ PipelineBounds(Any) /\ ~Known.Fresh /\ ~Known.Plugins
<1>1. /\ Known.Managed = {"prompt", "settings"} /\ Known.Fresh = FALSE /\ Known.Plugins = FALSE
      /\ Known.MaxRuns = 2 /\ Known.MaxFaults = 3
    BY DEF Known
<1>2. /\ Any.Managed = {"prompt", "settings"} /\ Any.Fresh = TRUE /\ Any.Plugins = TRUE
      /\ Any.MaxRuns = 2 /\ Any.MaxFaults = 3
    BY DEF Known, Any
<1>3. Known.Fresh \in BOOLEAN /\ Known.Plugins \in BOOLEAN /\ ~Known.Fresh /\ ~Known.Plugins
    BY <1>1, Zenon
<1>4. Any.Fresh \in BOOLEAN /\ Any.Plugins \in BOOLEAN
    BY <1>2, Zenon
<1>5. \A x \in {Known, Any} : /\ x.Managed \cap {"piMCP", "child", "overlay"} = {}
                             /\ x.MaxRuns \in Nat /\ x.MaxFaults \in Nat
    BY <1>1, <1>2
<1> QED
    BY <1>3, <1>4, <1>5 DEF PipelineBounds

PipelinesInv ==
    /\ part = "known" => PipelineInv(Known)
    /\ part = "any" => PipelineInv(Any)

LEMMA PipelinesInvHolds == Spec => []PipelinesInv
<1>1. Init => PipelinesInv
    BY PipelineSettings, PipelineStarts DEF Init, InitPart, InitScreens, PipelinesInv
<1>2. PipelinesInv /\ [Next]_vars => PipelinesInv'
  <2> SUFFICES ASSUME PipelinesInv, [Next]_vars PROVE PipelinesInv'
      OBVIOUS
  <2>1. /\ part' = part
        /\ part = "known" => [Pipeline(Known)!Next]_(Pipeline(Known)!vars)
        /\ part = "any" => [Pipeline(Any)!Next]_(Pipeline(Any)!vars)
      BY DEF Next, NextPart, NextScreens, vars, installing, both, pipeline, Pipeline!vars, Pipeline!bounds
  <2>2. CASE part = "known"
    <3>1. PipelineInv(Known)'
        BY <2>1, <2>2, PipelineSettings, PipelineStep DEF PipelinesInv
    <3> QED
        BY <2>1, <2>2, <3>1 DEF PipelinesInv
  <2>3. CASE part = "any"
    <3>1. PipelineInv(Any)'
        BY <2>1, <2>3, PipelineSettings, PipelineStep DEF PipelinesInv
    <3> QED
        BY <2>1, <2>3, <3>1 DEF PipelinesInv
  <2> QED
      BY <2>1, <2>2, <2>3 DEF PipelinesInv
<1> QED
    BY <1>1, <1>2, PTL DEF Spec

(* A rollback that reports no error has put back every file, if no package *)
(* and no plugin was installed on the way, and in any case what the        *)
(* snapshot holds (pipeline/orchestrator.go, cli/run.go).                  *)
THEOREM PipelineIsSound == Spec => []PipelineSound
<1>1. PipelinesInv => PipelineSound
    BY PipelineSettings, PipelineTyped, PipelineRestores, PipelineRollsBack DEF PipelinesInv, PipelineSound
<1> QED
    BY <1>1, PipelinesInvHolds, PTL

(* ----------------------------------------------------------- BackupStore *)

LEMMA BackupsSettings == ASSUME InstallerValues PROVE TwinBounds(Quiet) /\ TwinBounds(Stale) /\ StoreBounds(Mixed)
<1> DEFINE W == [f \in {f1, f2} |-> IF f = f1 THEN Absent ELSE 0]
<1>1. /\ Quiet.Runs = {r1} /\ Quiet.Kinds = {"install"} /\ Quiet.Screens = {s1} /\ Quiet.Files = {f1, f2}
      /\ Quiet.Worlds = {W} /\ Quiet.Keep = 1 /\ Quiet.MaxEdits = 1 /\ Quiet.Overlap = FALSE
      /\ Quiet.CheckFails = FALSE
    BY DEF Quiet
<1>2. /\ Stale.Runs = {r1} /\ Stale.Kinds = {"install"} /\ Stale.Screens = {s1} /\ Stale.Files = {f1, f2}
      /\ Stale.Worlds = {W} /\ Stale.Keep = 1 /\ Stale.MaxEdits = 1 /\ Stale.Overlap = FALSE
      /\ Stale.CheckFails = FALSE
    BY DEF Quiet, Stale
<1>3. /\ Mixed.Runs = {r1} /\ Mixed.Kinds = {"install", "upgrade"} /\ Mixed.Screens = {s1} /\ Mixed.Files = {f1, f2}
      /\ Mixed.Worlds = {W} /\ Mixed.Keep = 1 /\ Mixed.MaxEdits = 1 /\ Mixed.Overlap = FALSE
      /\ Mixed.CheckFails = TRUE
    BY DEF Quiet, Mixed
<1>4. W \in [{f1, f2} -> (0 .. 2) \cup {Absent}] /\ W[f2] # Absent
    BY DEF InstallerValues
<1> HIDE DEF W
<1>5. ASSUME NEW k, k.Runs = {r1}, k.Kinds \subseteq {"install", "upgrade"}, k.Screens = {s1}, k.Files = {f1, f2},
             k.Worlds = {W}, k.Keep = 1, k.MaxEdits = 1, k.Overlap = FALSE, k.CheckFails \in BOOLEAN
      PROVE  StoreBounds(k)
  <2>1. FileContents(k) = (0 .. 2) \cup {Absent}
      BY <1>5 DEF FileContents
  <2>2. k.Worlds \subseteq [k.Files -> FileContents(k)]
      BY <1>4, <1>5, <2>1
  <2>3. k.Keep \in Nat \ {0} /\ k.MaxEdits \in Nat
      BY <1>5
  <2> QED
      BY <1>5, <2>2, <2>3 DEF StoreBounds, InstallerValues
<1>6. Quiet.CheckFails \in BOOLEAN /\ Stale.CheckFails \in BOOLEAN /\ Mixed.CheckFails \in BOOLEAN
    BY <1>1, <1>2, <1>3, Zenon
<1> QED
    BY <1>1, <1>2, <1>3, <1>4, <1>5, <1>6 DEF TwinBounds

BackupsInv ==
    /\ part = "quiet" => StoreInv(Quiet) /\ TwinInv(Quiet)
    /\ part = "stale" => StoreInv(Stale) /\ TwinInv(Stale)
    /\ part = "mixed" => StoreInv(Mixed)

LEMMA BackupsParts ==
    ASSUME [Next]_vars
    PROVE  /\ part' = part
           /\ part = "quiet" => Backups(Quiet)!Next \/ UNCHANGED Backups(Quiet)!vars
           /\ part = "stale" => Backups(Stale)!Next \/ UNCHANGED Backups(Stale)!vars
           /\ part = "mixed" => Backups(Mixed)!Next \/ UNCHANGED Backups(Mixed)!vars
<1>1. UNCHANGED vars => UNCHANGED <<part, world, backups, proc, list, edits, faults, uses>>
    BY DEF vars, installing, home
<1> QED
    BY <1>1 DEF Next, NextPart, NextScreens, Backups!vars

LEMMA BackupsInvHolds == ASSUME InstallerValues PROVE Spec => []BackupsInv
<1>1. TwinBounds(Quiet) /\ TwinBounds(Stale) /\ StoreBounds(Quiet) /\ StoreBounds(Stale) /\ StoreBounds(Mixed)
    BY BackupsSettings DEF TwinBounds
<1>2. Init => BackupsInv
    BY <1>1, StoreStarts, TwinStarts DEF Init, InitPart, InitScreens, BackupsInv
<1>3. BackupsInv /\ [Next]_vars => BackupsInv'
  <2> SUFFICES ASSUME BackupsInv, [Next]_vars PROVE BackupsInv'
      OBVIOUS
  <2>1. CASE part = "quiet"
    <3>1. StoreInv(Quiet) /\ TwinInv(Quiet) /\ part' = part
        BY <2>1, BackupsParts DEF BackupsInv
    <3>2. StoreInv(Quiet)'
        BY <1>1, <2>1, <3>1, BackupsParts, StoreStep, StoreUnchanged
    <3>3. TwinInv(Quiet)'
        BY <1>1, <2>1, <3>1, <3>2, BackupsParts, TwinStep, TwinUnchanged
    <3> QED
        BY <2>1, <3>1, <3>2, <3>3 DEF BackupsInv
  <2>2. CASE part = "stale"
    <3>1. StoreInv(Stale) /\ TwinInv(Stale) /\ part' = part
        BY <2>2, BackupsParts DEF BackupsInv
    <3>2. StoreInv(Stale)'
        BY <1>1, <2>2, <3>1, BackupsParts, StoreStep, StoreUnchanged
    <3>3. TwinInv(Stale)'
        BY <1>1, <2>2, <3>1, <3>2, BackupsParts, TwinStep, TwinUnchanged
    <3> QED
        BY <2>2, <3>1, <3>2, <3>3 DEF BackupsInv
  <2>3. CASE part = "mixed"
    <3>1. StoreInv(Mixed) /\ part' = part
        BY <2>3, BackupsParts DEF BackupsInv
    <3>2. StoreInv(Mixed)'
        BY <1>1, <2>3, <3>1, BackupsParts, StoreStep, StoreUnchanged
    <3> QED
        BY <2>3, <3>1, <3>2 DEF BackupsInv
  <2>4. CASE part \notin {"quiet", "stale", "mixed"}
    <3>1. part' = part
        BY BackupsParts
    <3> QED
        BY <2>4, <3>1 DEF BackupsInv
  <2> QED
      BY <2>1, <2>2, <2>3, <2>4
<1> QED
    BY <1>2, <1>3, PTL DEF Spec

(* No two backups in a row hold the same if only installations make them,  *)
(* and a run that reports a rollback has put back every file it found      *)
(* (backup/snapshot.go, restore.go).                                       *)
THEOREM BackupsAreSound == ASSUME InstallerValues PROVE Spec => []BackupsSound
<1>1. BackupsInv => BackupsSound
    BY BackupsSettings, StoreTyped, TwinsDiffer, StoreRollsBack DEF BackupsInv, BackupsSound, TwinBounds
<1> QED
    BY <1>1, BackupsInvHolds, PTL

(* ---------------------------------------------------------- TerminalJobs *)

JobsPartInv ==
    /\ part = "jobs" => JobsInv(Terminal) /\ Latest(agent)
    /\ part = "hasty" => JobsInv(Hasty)

LEMMA JobsSettings == JobsBounds(Terminal) /\ Terminal.Patient /\ JobsBounds(Hasty)
<1>1. Terminal.MaxAsked = 2 /\ Terminal.Patient = TRUE /\ Hasty.MaxAsked = 2
    BY DEF Terminal, Hasty
<1> QED
    BY <1>1 DEF JobsBounds

LEMMA JobsPartInvHolds == Spec => []JobsPartInv
<1>1. Init => JobsPartInv
  <2> SUFFICES ASSUME Init PROVE JobsPartInv
      OBVIOUS
  <2>1. /\ part = "jobs" => Jobs(Terminal)!Init
        /\ part = "hasty" => Jobs(Hasty)!Init
      BY DEF Init, InitPart, InitScreens
  <2> QED
      BY <2>1, JobsSettings, JobsStart, LatestStart DEF JobsPartInv
<1>2. JobsPartInv /\ [Next]_vars => JobsPartInv'
  <2> SUFFICES ASSUME JobsPartInv, [Next]_vars PROVE JobsPartInv'
      OBVIOUS
  <2>1. /\ part' = part
        /\ part = "jobs" => [Jobs(Terminal)!Next]_(Jobs(Terminal)!vars)
        /\ part = "hasty" => [Jobs(Hasty)!Next]_(Jobs(Hasty)!vars)
      BY DEF Next, NextPart, NextScreens, vars, screens, jobs, Jobs!vars
  <2>2. CASE part = "jobs"
    <3>1. JobsInv(Terminal)'
        BY <2>1, <2>2, JobsSettings, JobsStep DEF JobsPartInv
    <3>2. Latest(agent)'
        BY <2>1, <2>2, JobsSettings, LatestStep DEF JobsPartInv
    <3> QED
        BY <2>1, <2>2, <3>1, <3>2 DEF JobsPartInv
  <2>3. CASE part = "hasty"
    <3>1. JobsInv(Hasty)'
        BY <2>1, <2>3, JobsSettings, JobsStep DEF JobsPartInv
    <3> QED
        BY <2>1, <2>3, <3>1 DEF JobsPartInv
  <2> QED
      BY <2>1, <2>2, <2>3 DEF JobsPartInv
<1> QED
    BY <1>1, <1>2, PTL DEF Spec

(* ---------------------------------------------------------- InstallWizard *)

LEMMA WizardSettings ==
    ASSUME InstallerValues
    PROVE  /\ WizardBounds(Models) /\ WizardBounds(Code) /\ WizardBounds(Alone)
           /\ ~Code.Reconsiders /\ ~Alone.Reconsiders
<1>1. Models.Personas = {"gentleman"} /\ Models.Walked = {"full", "minimal"}
    BY DEF Models
<1>2. Code.Personas = {"gentleman"} /\ Code.Walked = {"full", "minimal"} /\ Code.Reconsiders = FALSE
    BY DEF Models, Code
<1>3. Alone.Personas = {"gentleman", "custom"} /\ Alone.Walked = {"full", "minimal"} /\ Alone.Reconsiders = FALSE
    BY DEF Models, Alone
<1>4. ~Code.Reconsiders /\ ~Alone.Reconsiders
    BY <1>2, <1>3, Zenon
<1> QED
    BY <1>1, <1>2, <1>3, <1>4 DEF WizardBounds, InstallerValues

WizardsInv ==
    /\ part = "models" => WizardInv(Models)
    /\ part = "code" => WizardInv(Code)
    /\ part = "alone" => WizardInv(Alone)

LEMMA WizardParts ==
    ASSUME [Next]_vars
    PROVE  /\ part' = part
           /\ part = "models" => [Wizard(Models)!Next]_(Wizard(Models)!vars)
           /\ part = "code" => [Wizard(Code)!Next]_(Wizard(Code)!vars)
           /\ part = "alone" => [Wizard(Alone)!Next]_(Wizard(Alone)!vars)
<1>1. UNCHANGED vars => UNCHANGED <<part, screen, flow, alone, sel, picker, chosen, summary, running>>
    BY DEF vars, screens, wizard
<1> QED
    BY <1>1 DEF Next, NextPart, NextScreens, Wizard!vars

LEMMA WizardsInvHolds == ASSUME InstallerValues PROVE Spec => []WizardsInv
<1>1. Init => WizardsInv
    BY WizardSettings, WizardStarts DEF Init, InitPart, InitScreens, WizardsInv
<1>2. WizardsInv /\ [Next]_vars => WizardsInv'
  <2> SUFFICES ASSUME WizardsInv, [Next]_vars PROVE WizardsInv'
      OBVIOUS
  <2>1. CASE part = "models"
    <3>1. WizardInv(Models)' /\ part' = part
        BY <2>1, WizardParts, WizardSettings, WizardStep DEF WizardsInv
    <3> QED
        BY <2>1, <3>1 DEF WizardsInv
  <2>2. CASE part = "code"
    <3>1. WizardInv(Code)' /\ part' = part
        BY <2>2, WizardParts, WizardSettings, WizardStep DEF WizardsInv
    <3> QED
        BY <2>2, <3>1 DEF WizardsInv
  <2>3. CASE part = "alone"
    <3>1. WizardInv(Alone)' /\ part' = part
        BY <2>3, WizardParts, WizardSettings, WizardStep DEF WizardsInv
    <3> QED
        BY <2>3, <3>1 DEF WizardsInv
  <2>4. CASE part \notin {"models", "code", "alone"}
    <3>1. part' = part
        BY WizardParts
    <3> QED
        BY <2>4, <3>1 DEF WizardsInv
  <2> QED
      BY <2>1, <2>2, <2>3, <2>4
<1> QED
    BY <1>1, <1>2, PTL DEF Spec

(* What the user confirms and what is installed is the plan of the         *)
(* selection as it is, the row "Back" and Esc are one way, no screen is a  *)
(* dead end; and the jobs of the screens are attended, one at a time       *)
(* (tui/model.go confirmSelection, goBack, Update).                        *)
THEOREM ScreensAreSound == ASSUME InstallerValues PROVE Spec => []ScreensSound
<1>1. ASSUME NEW k, WizardBounds(k), WizardInv(k)
      PROVE  /\ Wizard(k)!TypeOK /\ Wizard(k)!PlanIsCurrent /\ (~k.Reconsiders => Wizard(k)!SkillsAsChosen)
             /\ Wizard(k)!EscIsBack /\ Wizard(k)!NoDeadEnd
    BY <1>1, WizardTyped, WizardPlans, WizardWays
<1>2. ASSUME NEW k, JobsInv(k)
      PROVE  /\ Jobs(k)!TypeOK /\ Jobs(Hasty)!Attended /\ Jobs(Hasty)!OneCheck /\ Jobs(Hasty)!OverridesAsked
             /\ Jobs(Hasty)!OldBinaryRests
    BY <1>2, JobsTyped, JobsSound
<1>3. ASSUME WizardsInv, JobsPartInv PROVE ScreensSound
  <2>1. /\ part = "models" => Wizard(Models)!TypeOK /\ Wizard(Models)!PlanIsCurrent /\ Wizard(Models)!EscIsBack
                              /\ Wizard(Models)!NoDeadEnd
        /\ part = "code" => Wizard(Code)!TypeOK /\ Wizard(Code)!PlanIsCurrent /\ Wizard(Code)!SkillsAsChosen
                            /\ Wizard(Code)!EscIsBack /\ Wizard(Code)!NoDeadEnd
        /\ part = "alone" => Wizard(Alone)!TypeOK /\ Wizard(Alone)!PlanIsCurrent /\ Wizard(Alone)!SkillsAsChosen
                             /\ Wizard(Alone)!EscIsBack /\ Wizard(Alone)!NoDeadEnd
      BY <1>1, <1>3, WizardSettings DEF WizardsInv
  <2>2. /\ part = "jobs" => Jobs(Terminal)!TypeOK /\ Jobs(Terminal)!GeneratedAsAsked
        /\ part = "hasty" => Jobs(Hasty)!TypeOK
        /\ part \in {"jobs", "hasty"} => Jobs(Hasty)!Attended /\ Jobs(Hasty)!OneCheck /\ Jobs(Hasty)!OverridesAsked
                                         /\ Jobs(Hasty)!OldBinaryRests
      BY <1>2, <1>3, JobsGenerated DEF JobsPartInv
  <2> QED
      BY <2>1, <2>2 DEF ScreensSound
<1> QED
    BY <1>3, WizardsInvHolds, JobsPartInvHolds, PTL

(* ------------------------------------------- every setting of a component *)

(* Whatever the layers, directories and bounds: an uninstall that reports  *)
(* success has left nothing of the plugin in a file nobody else has        *)
(* edited, and one that reports a rollback has restored what nobody else   *)
(* has edited since, if no write lands and reports a failure, which leaves *)
(* it unrecorded (opencodeplugin/uninstall.go, mutationjournal/journal.go).*)
THEOREM UninstallsAreSound ==
    ASSUME NEW k, UninstallBounds(k)
    PROVE  Uninstall(k)!Spec => [](/\ Uninstall(k)!TypeOK /\ Uninstall(k)!DoneIsGone
                                   /\ ~k.LateSyncFails => Uninstall(k)!RollbackRestores)
<1>1. UninstallInv(k) => /\ Uninstall(k)!TypeOK /\ Uninstall(k)!DoneIsGone
                         /\ ~k.LateSyncFails => Uninstall(k)!RollbackRestores
    BY UninstallTyped, UninstallRollsBack, UninstallEnds
<1> QED
    BY <1>1, UninstallInvHolds, PTL

(* And no write and no restoration of it overwrites what somebody else     *)
(* wrote since the file was captured, unless the edit falls between the    *)
(* check of the file and the write (Journal.Write, Remove, Restore).       *)
THEOREM UninstallsKeepEdits ==
    ASSUME NEW k, UninstallBounds(k), ~k.RacyEdits
    PROVE  Uninstall(k)!Spec => Uninstall(k)!EditsSurvive
<1>1. UninstallInv(k) /\ [Uninstall(k)!Next]_(Uninstall(k)!vars) => [Uninstall(k)!KeepsEdits]_(Uninstall(k)!vars)
    BY EditsAreKept
<1> QED
    BY <1>1, UninstallInvHolds, PTL DEF Uninstall!Spec, Uninstall!EditsSurvive

(* Whatever files the components manage: a rollback whose snapshot could   *)
(* be restored has put back all it covers, and one that reports no error   *)
(* all there is, if nothing was installed that no snapshot covers          *)
(* (pipeline/orchestrator.go ExecuteRollback, cli/run.go).                 *)
THEOREM PipelinesAreSound ==
    ASSUME NEW k, PipelineBounds(k)
    PROVE  Pipeline(k)!Spec => [](/\ Pipeline(k)!TypeOK /\ Pipeline(k)!CoveredRestored
                                  /\ ~k.Fresh /\ ~k.Plugins => Pipeline(k)!RolledBack)
<1>1. PipelineInv(k) => /\ Pipeline(k)!TypeOK /\ Pipeline(k)!CoveredRestored
                        /\ ~k.Fresh /\ ~k.Plugins => Pipeline(k)!RolledBack
    BY PipelineTyped, PipelineRestores, PipelineRollsBack
<1> QED
    BY <1>1, PipelineInvHolds, PTL

(* And the selection is saved only after every step has succeeded, when    *)
(* all managed files are written, with the tool exactly if Pi has it       *)
(* (cli/run.go RunInstall).                                                *)
THEOREM PipelinesSaveSuccess ==
    ASSUME NEW k, PipelineBounds(k)
    PROVE  Pipeline(k)!Spec => Pipeline(k)!SavedAfterSuccess
<1>1. PipelineInv(k) /\ [Pipeline(k)!Next]_(Pipeline(k)!vars) => [Pipeline(k)!SavesSuccess]_(Pipeline(k)!vars)
    BY SavingFollows
<1> QED
    BY <1>1, PipelineInvHolds, PTL DEF Pipeline!Spec, Pipeline!SavedAfterSuccess

(* Whatever keys the user presses, and however often an agent is asked     *)
(* for: one job at a time, which the user waits for on the screen that     *)
(* takes its answer, one check for updates, the models last asked for, and *)
(* no job by a replaced binary; and the agent shown is that of the latest  *)
(* request, if the user asks for another only once it is answered (Esc     *)
(* cancels no generation) (tui/model.go Update, goBack, tea.Cmd).          *)
THEOREM JobsAreSound ==
    ASSUME NEW k, JobsBounds(k)
    PROVE  Jobs(k)!Spec => [](/\ Jobs(k)!TypeOK /\ Jobs(k)!Attended /\ Jobs(k)!OneCheck /\ Jobs(k)!OverridesAsked
                              /\ Jobs(k)!OldBinaryRests /\ (k.Patient => Jobs(k)!GeneratedAsAsked))
<1> DEFINE Waiting == k.Patient => Latest(agent)
<1>1. JobsInv(k) /\ Waiting => /\ Jobs(k)!TypeOK /\ Jobs(k)!Attended /\ Jobs(k)!OneCheck /\ Jobs(k)!OverridesAsked
                               /\ Jobs(k)!OldBinaryRests /\ (k.Patient => Jobs(k)!GeneratedAsAsked)
    BY JobsTyped, JobsSound, JobsGenerated
<1>2. Jobs(k)!Init => Waiting
    BY LatestStart
<1>3. JobsInv(k) /\ Waiting /\ [Jobs(k)!Next]_(Jobs(k)!vars) => Waiting'
    BY LatestStep
<1> QED
    BY <1>1, <1>2, <1>3, JobsInvHolds, PTL DEF Jobs!Spec

(* Whatever agents, personas and skills there are: the plan confirmed is   *)
(* that of the selection, the two ways back are one and no picker is a     *)
(* dead end; and the skills are those ticked last, if no other preset is   *)
(* picked after them (tui/model.go confirmSelection, goBack,               *)
(* pickerFlowSlice; the skills ticked stay in the selection).              *)
THEOREM WizardsAreSound ==
    ASSUME NEW k, WizardBounds(k)
    PROVE  Wizard(k)!Spec => [](/\ Wizard(k)!TypeOK /\ Wizard(k)!PlanIsCurrent
                                /\ Wizard(k)!EscIsBack /\ Wizard(k)!NoDeadEnd
                                /\ ~k.Reconsiders => Wizard(k)!SkillsAsChosen)
<1>1. WizardInv(k) => /\ Wizard(k)!TypeOK /\ Wizard(k)!PlanIsCurrent
                      /\ Wizard(k)!EscIsBack /\ Wizard(k)!NoDeadEnd
                      /\ ~k.Reconsiders => Wizard(k)!SkillsAsChosen
    BY WizardTyped, WizardPlans, WizardWays
<1> QED
    BY <1>1, WizardInvHolds, PTL

(* And going back leads to the screen that was left by going on, in every  *)
(* preset with components of its own, save for pi alone (goBack).          *)
THEOREM WizardsReturn ==
    ASSUME NEW k, WizardBounds(k)
    PROVE  Wizard(k)!Spec => Wizard(k)!BackReturns
<1>1. WizardInv(k) /\ [Wizard(k)!Next]_(Wizard(k)!vars) => [Wizard(k)!Returns]_(Wizard(k)!vars)
    BY WizardReturns
<1> QED
    BY <1>1, WizardInvHolds, PTL DEF Wizard!Spec, Wizard!BackReturns
=============================================================================
