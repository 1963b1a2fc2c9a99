------------------------------ MODULE InstallWizard ------------------------------
(***************************************************************************)
(* The screens that lead to an installation (internal/tui): which screen   *)
(* follows which depends on the agents, the preset and the components the  *)
(* user has picked so far, and the user may go back, by Esc or by the row  *)
(* "Back", and pick again.  The plan and the summary the user confirms are *)
(* computed on the way and kept in the model; the executor gets the plan   *)
(* and the selection as they are when the user confirms.                   *)
(*                                                                         *)
(* What a screen shows and the models picked on one are left out; what the *)
(* two optional screens, of tools and of OpenCode plugins, collect too.    *)
(***************************************************************************)
EXTENDS Naturals, Sequences

CONSTANTS Agents,       \* a set of "claude", "kiro", "codex", "opencode", "pi", ...
          Personas,     \* a set of "gentleman", "custom"
          Skills,       \* the skills one may pick
          Walked,       \* the presets in which a screen is left for the one before
          Reconsiders,  \* may another preset be picked after the skills?
          None          \* no plan, no summary, no screen

VARIABLES screen,
          flow,     \* InstallFlowActive
          alone,    \* the optional screen that is open from the main menu, or None
          sel,      \* Selection
          picker,   \* SkillPicker
          plan,     \* DependencyPlan
          summary,  \* Review
          running   \* pipelineRunning
vars == <<screen, flow, alone, sel, picker, plan, summary, running>>

Presets == {"full", "minimal", "custom"}
Choosable == {"engram", "sdd", "skills"}

ComponentsForPreset(preset, persona) ==
    CASE preset = "custom" -> {}
      [] preset = "minimal" -> {"engram"} \cup (IF persona = "custom" THEN {} ELSE {"persona"})
      [] OTHER -> {"engram", "sdd", "skills"} \cup (IF persona = "custom" THEN {} ELSE {"persona"})

(* The installed skills are those picked, else those of the preset.        *)
SkillsForPreset(preset) == IF preset = "full" THEN Skills ELSE {}
SelectedSkills(s, p) ==
    IF "skills" \notin p.components THEN {} ELSE IF s.skills # {} THEN s.skills ELSE SkillsForPreset(s.preset)

(* buildDependencyPlan, with MVPGraph, and BuildReviewPayload.             *)
Resolve(s) ==
    [agents |-> s.agents,
     components |-> s.components
                    \cup (IF "skills" \in s.components THEN {"sdd"} ELSE {})
                    \cup (IF s.components \cap {"sdd", "skills"} # {} THEN {"engram"} ELSE {})]
ReviewPayload(s, p) ==
    [agents |-> p.agents, components |-> p.components, added |-> p.components \ s.components,
     persona |-> s.persona, preset |-> s.preset, skills |-> s.skills, tdd |-> s.tdd]

PiOnly(s) == s.agents = {"pi"}
Custom(s) == s.preset = "custom"

-----------------------------------------------------------------------------
(* Which screens are shown. *)

ShowTools == flow /\ alone # "tools"
ShowPlugins(s, on) == "opencode" \in s.agents /\ ~(Custom(s) /\ on = "preset")
ShowTDD(s) == "sdd" \in s.components
ShowFor(s, agent) == agent \in s.agents /\ "sdd" \in s.components
ShowSkills(s) == Custom(s) /\ "skills" \in s.components

If(shown, on) == IF shown THEN <<on>> ELSE <<>>
PickerFlow(s) ==
    <<"preset">> \o If(Custom(s), "deps")
    \o If(ShowFor(s, "claude"), "claude") \o If(ShowFor(s, "kiro"), "kiro") \o If(ShowFor(s, "codex"), "codex")
    \o If(ShowFor(s, "opencode"), "mode") \o If(ShowFor(s, "opencode") /\ s.mode = "multi", "models")
    \o If(ShowTDD(s), "tdd") \o If(~Custom(s), "deps")

PickerNext(s, on) ==
    LET f == PickerFlow(s) at == {i \in 1..Len(f) - 1 : f[i] = on}
    IN IF at = {} THEN None ELSE f[1 + CHOOSE i \in at : TRUE]
PickerPrevious(s, on) ==
    LET f == PickerFlow(s) at == {i \in 2..Len(f) : f[i] = on}
    IN IF at = {} THEN None ELSE f[(CHOOSE i \in at : TRUE) - 1]

-----------------------------------------------------------------------------
Init ==
    /\ screen = "welcome" /\ flow = FALSE /\ alone = None /\ running = FALSE
    /\ \E a \in SUBSET Agents \ {{}} :
         sel = [agents |-> a, persona |-> "gentleman", preset |-> "full", mode |-> "", tdd |-> FALSE, skills |-> {},
                components |-> IF a = {"pi"} THEN {"engram"} ELSE ComponentsForPreset("full", "gentleman")]
    /\ picker = {} /\ plan = None /\ summary = None

(* The screens a step ends on, with the plan and the summary it computes.  *)
(* A summary is only read on the screens after it.                         *)
Show(on) == screen' = on /\ UNCHANGED <<picker, plan, summary>>
ShowPlan(s) == screen' = "deps" /\ plan' = Resolve(s) /\ UNCHANGED <<picker, summary>>
ShowReview(s, p) ==
    screen' = "review" /\ plan' = p /\ summary' = ReviewPayload(s, p) /\ UNCHANGED picker
ShowSkillPicker(p) ==
    screen' = "skills" /\ picker' = (IF picker = {} THEN Skills ELSE picker) /\ plan' = p /\ UNCHANGED summary
SkillsOrReview(s, p) == IF ShowSkills(s) THEN ShowSkillPicker(p) ELSE ShowReview(s, p)

(* continueAfterOpenCodePlugins, continueAfterCommunityTools *)
(* Mutated: a plan there is already is shown again. *)
AfterPlugins_KeepsPlan ==
    IF Custom(sel) THEN SkillsOrReview(sel, plan) ELSE IF plan = None THEN ShowPlan(sel) ELSE Show("deps")
AfterPlugins == IF Custom(sel) THEN SkillsOrReview(sel, plan) ELSE ShowPlan(sel)
AfterTools == IF ShowPlugins(sel, "tools") THEN Show("plugins") ELSE AfterPlugins

(* What follows the pickers, and the next of these (advanceToNextPickerScreen). *)
AfterPickers(s, on) ==
    IF ShowTools THEN Show("tools") ELSE IF ShowPlugins(s, on) THEN Show("plugins") ELSE ShowPlan(s)
Advance(s, on) ==
    LET next == PickerNext(s, on)
    IN IF next = "deps" THEN AfterPickers(s, on) ELSE Show(IF next = None THEN on ELSE next)

-----------------------------------------------------------------------------
(* Enter on a row that goes on (confirmSelection). *)

OnWelcome ==
    /\ screen = "welcome"
    /\ flow' = TRUE /\ Show("detection") /\ UNCHANGED <<alone, sel, running>>

OnDetection == screen = "detection" /\ Show("agents") /\ UNCHANGED <<flow, alone, sel, running>>

OnAgents ==
    /\ screen = "agents" /\ sel.agents # {}
    /\ sel' = IF PiOnly(sel) THEN [sel EXCEPT !.components = {"engram"}] ELSE sel
    /\ IF PiOnly(sel) THEN ShowPlan(sel') ELSE Show("persona")
    /\ UNCHANGED <<flow, alone, running>>

OnPersona(p) ==
    /\ screen = "persona"
    /\ sel' = [sel EXCEPT !.persona = p,
                          !.components = IF Custom(sel) THEN @ ELSE ComponentsForPreset(sel.preset, p)]
    /\ Show("preset") /\ UNCHANGED <<flow, alone, running>>

OnPreset(p) ==
    /\ screen = "preset" /\ (Reconsiders \/ sel.skills = {} \/ p = sel.preset)
    /\ sel' = [sel EXCEPT !.preset = p, !.components = ComponentsForPreset(p, sel.persona)]
    /\ LET next == PickerNext(sel', "preset")
       IN IF next # None /\ (next # "deps" \/ p = "custom") THEN Show(next) ELSE AfterPickers(sel', "preset")
    /\ UNCHANGED <<flow, alone, running>>

OnModels ==
    /\ screen \in {"claude", "kiro", "codex", "models"}
    /\ Advance(sel, screen) /\ UNCHANGED <<flow, alone, sel, running>>

OnMode(m) ==
    /\ screen = "mode" /\ sel' = [sel EXCEPT !.mode = m]
    /\ IF m = "multi" THEN Show("models") ELSE Advance(sel', "mode")
    /\ UNCHANGED <<flow, alone, running>>

OnTDD(strict) ==
    /\ screen = "tdd" /\ sel' = [sel EXCEPT !.tdd = strict]
    /\ IF Custom(sel) /\ ~ShowTools /\ ~ShowPlugins(sel, "tdd") THEN SkillsOrReview(sel', plan)
       ELSE AfterPickers(sel', "tdd")
    /\ UNCHANGED <<flow, alone, running>>

OnTools ==
    /\ screen = "tools"
    /\ IF alone = "tools" THEN Show("result") ELSE AfterTools
    /\ UNCHANGED <<flow, alone, sel, running>>

OnPlugins ==
    /\ screen = "plugins"
    /\ IF alone = "plugins" THEN Show("result") ELSE AfterPlugins
    /\ UNCHANGED <<flow, alone, sel, running>>

OnDeps ==
    /\ screen = "deps"
    /\ LET p == Resolve(sel) next == PickerNext(sel, "deps")
       IN IF ~Custom(sel) THEN ShowReview(sel, plan)
          ELSE IF next # None THEN screen' = next /\ plan' = p /\ UNCHANGED <<picker, summary>>
          ELSE IF ShowTools THEN screen' = "tools" /\ plan' = p /\ UNCHANGED <<picker, summary>>
          ELSE IF ShowPlugins(sel, "deps") THEN screen' = "plugins" /\ plan' = p /\ UNCHANGED <<picker, summary>>
          ELSE SkillsOrReview(sel, p)
    /\ UNCHANGED <<flow, alone, sel, running>>

OnSkills ==
    /\ screen = "skills"
    /\ sel' = [sel EXCEPT !.skills = picker]
    /\ ShowReview(sel', plan) /\ UNCHANGED <<flow, alone, running>>

OnReview ==
    /\ screen = "review"
    /\ running' = TRUE /\ Show("installing") /\ UNCHANGED <<flow, alone, sel>>

OnInstalling ==
    /\ screen = "installing" /\ ~running
    /\ Show("complete") /\ UNCHANGED <<flow, alone, sel, running>>

OnComplete == screen = "complete" /\ Show("quit") /\ UNCHANGED <<flow, alone, sel, running>>

Continue ==
    \/ OnWelcome \/ OnDetection \/ OnAgents \/ OnModels \/ OnTools \/ OnPlugins \/ OnDeps \/ OnSkills
    \/ OnReview \/ OnInstalling \/ OnComplete
    \/ \E p \in Personas : OnPersona(p)
    \/ \E p \in Presets : OnPreset(p)
    \/ \E m \in {"single", "multi"} : OnMode(m)
    \/ \E strict \in BOOLEAN : OnTDD(strict)

(* The pipeline has ended.                                                 *)
PipelineDone == running /\ running' = FALSE /\ UNCHANGED <<screen, flow, alone, sel, picker, plan, summary>>

-----------------------------------------------------------------------------
(* Rows that are toggled, and the optional screens from the main menu.     *)

Other(set, x) == IF x \in set THEN set \ {x} ELSE set \cup {x}

ToggleAgent(a) ==
    /\ screen = "agents" /\ sel' = [sel EXCEPT !.agents = Other(@, a)]
    /\ UNCHANGED <<screen, flow, alone, picker, plan, summary, running>>
ToggleComponent(c) ==
    /\ screen = "deps" /\ Custom(sel) /\ sel' = [sel EXCEPT !.components = Other(@, c)]
    /\ UNCHANGED <<screen, flow, alone, picker, plan, summary, running>>
ToggleSkill(k) ==
    /\ screen = "skills" /\ picker' = Other(picker, k)
    /\ UNCHANGED <<screen, flow, alone, sel, plan, summary, running>>

OpenAlone(on) ==
    /\ screen = "welcome" /\ alone' = on
    /\ Show(on) /\ UNCHANGED <<flow, sel, running>>
LeaveResult ==
    /\ screen = "result" /\ alone' = None
    /\ Show("welcome") /\ UNCHANGED <<flow, sel, running>>

-----------------------------------------------------------------------------
(* Going back. *)

(* PreviousScreen *)
Backward ==
    [detection |-> "welcome", agents |-> "detection", persona |-> "agents", preset |-> "persona",
     claude |-> "preset", kiro |-> "preset", codex |-> "preset", mode |-> "preset", tdd |-> "mode",
     models |-> "mode", deps |-> "preset", skills |-> "deps", review |-> "deps", installing |-> "review",
     complete |-> "installing"]

Picker == {"claude", "kiro", "codex", "mode", "models", "tdd"}

FromTools ==
    IF alone = "tools" THEN "welcome"
    ELSE IF ShowTDD(sel) THEN "tdd"
    ELSE IF ShowFor(sel, "opencode") THEN "mode"
    ELSE IF ShowFor(sel, "codex") THEN "codex"
    ELSE IF ShowFor(sel, "kiro") THEN "kiro"
    ELSE IF ShowFor(sel, "claude") THEN "claude"
    ELSE IF Custom(sel) THEN "deps" ELSE "preset"
FromPlugins ==
    IF alone = "plugins" THEN "welcome"
    ELSE IF ShowTools THEN "tools"
    ELSE IF ShowTDD(sel) THEN "tdd"
    ELSE IF ShowFor(sel, "opencode") THEN "mode"
    ELSE "preset"
FromPlan ==
    IF PiOnly(sel) THEN "agents"
    ELSE IF ShowPlugins(sel, "deps") THEN "plugins"
    ELSE IF ShowTools THEN "tools"
    ELSE PickerPrevious(sel, "deps")

(* The screens before the skills and the review of a custom preset: last   *)
(* says which picker the two ways back look at when SDD is not selected.   *)
BeforeSkills(last) ==
    IF ShowTDD(sel) THEN "tdd"
    ELSE IF ShowFor(sel, "opencode") THEN (IF sel.mode = "multi" THEN "models" ELSE "mode")
    ELSE IF \E a \in last : ShowFor(sel, a) THEN CHOOSE a \in last : ShowFor(sel, a)
    ELSE "deps"

(* The row "Back" (confirmSelection). *)
BackTo ==
    CASE screen \in Picker ->
             LET previous == PickerPrevious(sel, screen) IN IF previous = None THEN screen ELSE previous
      [] screen = "tools" -> FromTools
      [] screen = "plugins" -> FromPlugins
      [] screen = "deps" -> IF Custom(sel) THEN "preset" ELSE FromPlan
      [] screen = "skills" -> IF Custom(sel) THEN BeforeSkills({"claude"}) ELSE "deps"
      [] screen = "review" ->
             IF ~Custom(sel) THEN "deps" ELSE IF ShowSkills(sel) THEN "skills" ELSE BeforeSkills({"claude"})
      [] OTHER -> Backward[screen]

(* Esc (goBack). *)
EscTo ==
    CASE screen \in Picker \ {"models"} /\ PickerPrevious(sel, screen) # None -> PickerPrevious(sel, screen)
      [] screen = "tools" -> FromTools
      [] screen = "plugins" -> FromPlugins
      [] screen = "deps" /\ ~Custom(sel) -> FromPlan
      [] screen = "skills" /\ Custom(sel) -> BeforeSkills({"kiro"})
      [] screen = "review" /\ Custom(sel) -> IF ShowSkills(sel) THEN "skills" ELSE BeforeSkills({"claude"})
      [] OTHER -> Backward[screen]

HasBack == screen \notin {"welcome", "result", "quit"} /\ (screen = "installing" => ~running)
Leave(to) ==
    /\ screen' = to
    /\ alone' = IF screen \in {"tools", "plugins"} THEN None ELSE alone
    /\ picker' = IF to = "skills" /\ picker = {} THEN Skills ELSE picker
    /\ summary' = IF to \in {"review", "installing"} THEN summary ELSE None
    /\ UNCHANGED <<flow, sel, plan, running>>

PressBack == HasBack /\ screen \notin {"installing", "complete"} /\ Leave(BackTo)
PressEsc == HasBack /\ Leave(EscTo)

Next ==
    \/ Continue \/ PipelineDone \/ LeaveResult \/ PressBack \/ PressEsc
    \/ \E a \in Agents : ToggleAgent(a)
    \/ \E c \in Choosable : ToggleComponent(c)
    \/ \E k \in Skills : ToggleSkill(k)
    \/ \E on \in {"tools", "plugins"} : OpenAlone(on)

Spec == Init /\ [][Next]_vars

-----------------------------------------------------------------------------
(* Properties. *)

TypeOK ==
    /\ screen \in DOMAIN Backward \cup {"welcome", "tools", "plugins", "result", "quit"}
    /\ flow \in BOOLEAN /\ alone \in {None, "tools", "plugins"} /\ running \in BOOLEAN
    /\ sel \in [agents : SUBSET Agents, persona : Personas, preset : Presets, mode : {"", "single", "multi"},
                tdd : BOOLEAN, skills : SUBSET Skills, components : SUBSET (Choosable \cup {"persona"})]
    /\ picker \in SUBSET Skills

(* What the user confirms, and what is then installed, is the plan of the  *)
(* selection as it is, wherever the user went back to and changed it.      *)
PlanIsCurrent ==
    screen \in {"review", "installing"} => plan = Resolve(sel) /\ summary = ReviewPayload(sel, plan)

(* The installed skills are those of the preset, or, in a custom one,      *)
(* those ticked when the skill picker was left for the review.             *)
SkillsAsChosen ==
    screen = "installing" =>
        SelectedSkills(sel, plan) =
            IF "skills" \notin plan.components THEN {}
            ELSE IF Custom(sel) THEN picker ELSE SkillsForPreset(sel.preset)

(* "INV-2: Enter-on-Back and Esc must produce identical results."          *)
EscIsBack == HasBack /\ screen \notin {"installing", "complete"} => EscTo = BackTo

(* Every screen can be left for another one by going on.                   *)
NoDeadEnd ==
    /\ screen \in {"claude", "kiro", "codex", "mode", "models"} => PickerNext(sel, screen) # None
    /\ screen \in Picker => PickerPrevious(sel, screen) # None

(* Back leads to the screen that was left by going on, in the presets of   *)
(* Walked, save for an installation of pi alone, which skips most screens. *)
Returns ==
    Continue /\ screen' \notin {screen, "result", "quit"} /\ sel'.preset \in Walked /\ ~PiOnly(sel')
        => EscTo' = screen
BackReturns == [][Returns]_vars
=============================================================================
