------------------------------ MODULE Workbench ------------------------------
(* The setting-up of `lab simulate` and its full-screen workbench: the         *)
(* arguments, prompts or questions a run is set up with, the preflight, and    *)
(* the live timeline of the run that was launched.                             *)
(*                                                                             *)
(* The app handles one message at a time, in the order they were posted, and   *)
(* none while its launch handler waits for the preflight. The run is a task of *)
(* its own, whose events reach the timeline as messages. Keys are handled when *)
(* the app is free; what is typed, a field takes at once. PersonaRun says what *)
(* the run does: here it emits events, and ends.                               *)
EXTENDS SimulationSetup

CONSTANTS Catalogs,     \* what may stand in the YAML files
          Machines,     \* what the preflight may find
          TurnsAsked,   \* turn limits that may be asked for, 0 if none is
          EventKinds,   \* [category, text], category "none" if it is not displayed
          Queries,      \* texts of the filter, "" if there is none
          MaxPresses,   \* bound on the presses of buttons that wait for the app
          MaxEvents,    \* bound on the events emitted
          MaxInputs     \* bound on the keys pressed on the live page

ASSUME MachinesAssumption == \A m \in Machines : m.database \in Databases

VARIABLES catalog,      \* the YAML files
          machine,      \* the environment, the database and the disk
          place,        \* where the command is
          said,         \* how it ended, or "nothing"
          settings,     \* what the run is to be set up with
          question,     \* _setup_step, by its number
          launchable,   \* the launch button is enabled
          checking,     \* the settings that wait for their preflight, or NoSettings
          inbox,        \* messages posted to the app
          flows,        \* the runs, each with its state and the events it emitted
          events,       \* _events
          shown,        \* _visible
          held,         \* _pending_sequences
          category,     \* _active_category
          query,        \* value of the filter field
          paused,
          finished,
          status,       \* the status line
          inputs        \* keys pressed on the live page

setupVars == <<place, said, settings, question, launchable, checking, flows>>
viewVars == <<events, shown, held, category, query, paused>>
workbenchVars == <<catalog, machine, setupVars, inbox, viewVars, finished, status, inputs>>

NoScenario == [id |-> NoId, plugin |-> NoId, profile |-> NoId, turns |-> 0]
NoSettings == [scenario |-> NoScenario, turns |-> 0, profile |-> NoId]
Simulations == Entries(catalog)
ProfileIds == {p.id : p \in ProfilesOf(catalog)}

WorkbenchInit(c, m) ==
    /\ catalog = c /\ machine = m
    /\ place = "command" /\ said = "nothing"
    /\ settings = NoSettings
    /\ question = 1 /\ launchable = TRUE /\ checking = NoSettings
    /\ inbox = <<>> /\ flows = <<>>
    /\ events = <<>> /\ shown = <<>> /\ held = {}
    /\ category = "all" /\ query = "" /\ paused = FALSE
    /\ finished = FALSE /\ status = "setup" /\ inputs = 0

-----------------------------------------------------------------------------
(* Runs. A new run of the app's worker cancels the one before; one that was    *)
(* cancelled still cleans up, and the process waits for that.                  *)

Cancelled == [i \in DOMAIN flows |->
                IF flows[i].state = "running" THEN [flows[i] EXCEPT !.state = "cancelled"]
                                              ELSE flows[i]]
Launch == flows' = Append(Cancelled, [state |-> "running", emitted |-> 0])
Close(how) == /\ place' = "closed" /\ said' = how
              /\ flows' = Cancelled

-----------------------------------------------------------------------------
(* _cmd_run: the terminal's way from the arguments to a run.                   *)

Arguments == [id : {NoId, "unknown"} \cup {s.id : s \in ToSet(Simulations)}, turns : TurnsAsked,
              profile : {NoId, "unknown"} \cup ProfileIds, yes : BOOLEAN, json : BOOLEAN, tty : BOOLEAN]
Interactive(a) == a.tty /\ ~a.yes
Programmatic(a) == a.id # NoId \/ a.yes \/ a.json \/ ~a.tty

\* A simulation is named, or chosen at a prompt.
Candidates(a) == {s \in ToSet(Simulations) : s.id = a.id \/ (a.id = NoId /\ Interactive(a))}

\* What the arguments leave open comes from the scenario; a limit of 0 is one
\* that was left open.
Effective(a, s) == [scenario |-> s,
                    turns |-> IF a.turns = 0 THEN s.turns ELSE a.turns,
                    profile |-> IF a.profile = NoId THEN s.profile ELSE a.profile]
Sound(s) == s.turns \in TurnLimit /\ ProfileExists(catalog, s.profile)

Unlaunched == UNCHANGED <<question, launchable, checking>>

RunCommand(a, s) ==
    /\ Programmatic(a) /\ Usable(catalog)
    /\ IF Sound(Effective(a, s))
         THEN /\ settings' = Effective(a, s)
              /\ place' = CASE ~Interactive(a) -> "preflight"
                            [] Interactive(a) /\ a.profile = NoId -> "wizard"
                            [] OTHER -> "wizard_with_profile"
              /\ UNCHANGED <<said, flows>>
         ELSE Close("refused") /\ UNCHANGED settings

\* A catalog with issues, a simulation nobody has, or a chooser that is left.
CommandStops(a) ==
    /\ \/ ~Usable(catalog)
       \/ Programmatic(a) /\ (Candidates(a) = {} \/ (a.id = NoId /\ Interactive(a)))
    /\ Close("refused") /\ UNCHANGED settings

\* run_interactive_workbench: the first question, with the first simulation.
OpenWorkbench(a) ==
    /\ Usable(catalog) /\ ~Programmatic(a)
    /\ place' = "questions"
    /\ settings' = IF Simulations = <<>> THEN NoSettings
                   ELSE [scenario |-> Head(Simulations), turns |-> Head(Simulations).turns,
                         profile |-> Head(Simulations).profile]
    /\ UNCHANGED <<said, flows>>

CommandLine ==
    /\ place = "command"
    /\ \E a \in Arguments : \/ \E s \in Candidates(a) : RunCommand(a, s)
                            \/ CommandStops(a)
                            \/ OpenWorkbench(a)
    /\ Unlaunched

\* `lab simulate list` and `validate` only read the catalog.
Inspect ==
    /\ place = "command"
    /\ Close(IF Usable(catalog) THEN "listed" ELSE "refused")
    /\ UNCHANGED settings /\ Unlaunched

\* The prompts; an answer of "n" starts over with what there was before them.
Wizard ==
    /\ place \in {"wizard", "wizard_with_profile"}
    /\ \/ \E t \in TurnsAsked, p \in ProfileIds :
            /\ t \in TurnLimit /\ (place = "wizard_with_profile" => p = settings.profile)
            /\ settings' = [settings EXCEPT !.turns = t, !.profile = p]
            /\ place' = "preflight"
            /\ UNCHANGED <<said, flows>>
       \/ Close("cancelled") /\ UNCHANGED settings
    /\ Unlaunched

Issues(s) == LET p == Profile(catalog, s.profile)
             IN  PreflightIssues(s.scenario.plugin, p, machine) \cup RuntimeIssues(p, machine)

TerminalPreflight ==
    /\ place = "preflight"
    /\ IF Issues(settings) = {}
         THEN Launch /\ place' = "terminal" /\ UNCHANGED said
         ELSE Close("refused")
    /\ UNCHANGED <<settings, question, launchable, checking>>

TerminalEnds ==
    /\ place = "terminal"
    /\ flows' = <<[Head(flows) EXCEPT !.state = "ended"]>>
    /\ place' = "closed" /\ said' = "result"
    /\ UNCHANGED settings /\ Unlaunched

TerminalStep == /\ CommandLine \/ Inspect \/ Wizard \/ TerminalPreflight \/ TerminalEnds
                /\ UNCHANGED <<catalog, machine, inbox, viewVars, finished, status, inputs>>

-----------------------------------------------------------------------------
(* The questions of the workbench, from the scenario to the review; those for  *)
(* persona, request and goal, which take any text, are left out.               *)

ScenarioQuestion == 1
TurnsQuestion == 2
ProfileQuestion == 3
Review == 4

Asking == place = "questions"
Open == place \in {"questions", "live"}
Idle == Open /\ checking = NoSettings

Press(b) == [is |-> "press", what |-> b]

\* The entries of a sequence that are to be kept, in their order: SelectSeq for
\* a set, as a recursive function, which can be reasoned about.
Picked(s, kept) ==
    LET f[n \in 0..Len(s)] == IF n = 0 THEN <<>>
                              ELSE f[n - 1] \o (IF s[n] \in kept THEN <<s[n]>> ELSE <<>>)
    IN  f[Len(s)]
Messages(kind) == Picked(inbox, {m \in ToSet(inbox) : m.is = kind})
Presses == Messages("press")

\* The press of a button that is displayed and enabled when it is pressed.
PressButton ==
    /\ Asking /\ Idle /\ Len(Presses) < MaxPresses
    /\ \/ question # Review /\ inbox' = Append(inbox, Press("next"))
       \/ question # ScenarioQuestion /\ inbox' = Append(inbox, Press("back"))
       \/ question = Review /\ launchable /\ inbox' = Append(inbox, Press("launch"))
    /\ UNCHANGED setupVars

PickScenario ==
    /\ Asking /\ Idle /\ question = ScenarioQuestion
    /\ \E s \in ToSet(Simulations) :
         settings' = [scenario |-> s, turns |-> s.turns, profile |-> s.profile]
    /\ UNCHANGED <<place, said, question, launchable, checking, flows, inbox>>

\* Keys may reach a field when the app has moved on to the next question.
TypeAnswer ==
    /\ Asking /\ Idle
    /\ \/ /\ question \in {TurnsQuestion, ProfileQuestion}
          /\ \E t \in TurnsAsked : settings' = [settings EXCEPT !.turns = t]
       \/ /\ question \in {ProfileQuestion, Review}
          /\ \E p \in ProfileIds \cup {"", "unknown"} : settings' = [settings EXCEPT !.profile = p]
    /\ UNCHANGED <<place, said, question, launchable, checking, flows, inbox>>

Takes(m) == Idle /\ inbox # <<>> /\ Head(inbox) = m /\ inbox' = Tail(inbox)

AnswerAccepted ==
    /\ question = TurnsQuestion => settings.turns \in TurnLimit
    /\ question = ProfileQuestion => ProfileExists(catalog, settings.profile)

\* There is no question after the review: a second press that waits there ends
\* the app with an IndexError.
TakeNext ==
    /\ Takes(Press("next"))
    /\ IF question = Review
         THEN Close("crash") /\ UNCHANGED question
         ELSE /\ question' = IF AnswerAccepted THEN question + 1 ELSE question
              /\ UNCHANGED <<place, said, flows>>
    /\ UNCHANGED <<settings, launchable, checking, status>>

TakeBack ==
    /\ Takes(Press("back"))
    /\ question' = IF question = ScenarioQuestion THEN question ELSE question - 1
    /\ UNCHANGED <<place, said, settings, launchable, checking, flows, status>>

ProfileAsked == IF settings.profile = "" THEN settings.scenario.profile ELSE settings.profile

\* Mutated: the limit was validated when it was asked for.
LaunchTrusted ==
    /\ Takes(Press("launch"))
    /\ IF settings.scenario # NoScenario /\ ProfileExists(catalog, ProfileAsked)
         THEN /\ checking' = [settings EXCEPT !.profile = ProfileAsked]
              /\ launchable' = FALSE /\ status' = "checking"
         ELSE UNCHANGED <<launchable, checking, status>>
    /\ UNCHANGED <<place, said, settings, question, flows>>

\* The settings are read, and checked again, before the preflight; the handler
\* goes on after it with what it read.
TakeLaunch ==
    /\ Takes(Press("launch"))
    /\ IF settings.scenario # NoScenario /\ settings.turns \in TurnLimit /\ ProfileExists(catalog, ProfileAsked)
         THEN /\ checking' = [settings EXCEPT !.profile = ProfileAsked]
              /\ launchable' = FALSE /\ status' = "checking"
              /\ UNCHANGED question
         ELSE /\ question' = CASE settings.scenario = NoScenario -> question
                              [] settings.scenario # NoScenario /\ settings.turns \notin TurnLimit -> TurnsQuestion
                              [] OTHER -> ProfileQuestion
              /\ UNCHANGED <<launchable, checking, status>>
    /\ UNCHANGED <<place, said, settings, flows>>

\* After the preflight: back to the questions, or on to the live page, where
\* only a second press of the button can still read the answers.
LaunchChecked ==
    /\ Open /\ checking # NoSettings
    /\ checking' = NoSettings
    /\ IF Issues(checking) = {}
         THEN /\ Launch
              /\ place' = "live" /\ status' = "running"
              /\ question' = IF Presses = <<>> THEN Review ELSE question
              /\ settings' = IF Press("launch") \in ToSet(inbox) THEN settings ELSE NoSettings
              /\ UNCHANGED launchable
         ELSE /\ launchable' = TRUE /\ status' = "setup"
              /\ UNCHANGED <<place, flows, settings, question>>
    /\ UNCHANGED <<said, inbox>>

QuestionStep == /\ TakeNext \/ TakeBack \/ TakeLaunch \/ LaunchChecked
                /\ UNCHANGED <<catalog, machine, viewVars, finished, inputs>>
QuestionInput == /\ PressButton \/ PickScenario \/ TypeAnswer
                 /\ UNCHANGED <<catalog, machine, viewVars, finished, status, inputs>>

-----------------------------------------------------------------------------
(* The live page.                                                              *)

Live == place = "live"
Changed(q) == [is |-> "changed", what |-> q]

Matches(e, c, q) == /\ e.kind.category # "none"
                    /\ c \in {"all", e.kind.category}
                    /\ q \in {"", e.kind.text}
\* Mutated: a pause holds nothing back from a new rendering.
RenderedWithHeld(c, q, hidden) == Picked(events, {e \in ToSet(events) : Matches(e, c, q)})
Rendered(c, q, hidden) == Picked(events, {e \in ToSet(events) : e \notin hidden /\ Matches(e, c, q)})

Emitted == FoldLeft(LAMBDA n, f : n + f.emitted, 0, flows)

\* A run posts its events, the last ones often just before it returns; one that
\* was cancelled has some left too.
Emit ==
    /\ Live /\ Emitted < MaxEvents
    /\ \E i \in DOMAIN flows, k \in EventKinds :
         /\ flows[i].state # "ended"
         /\ flows' = [flows EXCEPT ![i].emitted = @ + 1]
         /\ inbox' = Append(inbox, [is |-> "event", what |-> [run |-> i, seq |-> flows'[i].emitted, kind |-> k]])
    /\ UNCHANGED <<place, said, settings, question, launchable, checking, viewVars,
                   finished, status>>

\* _run_flow: the result, or the failure, is set by the run's own task.
FlowEnds ==
    /\ Live
    /\ \E i \in DOMAIN flows : /\ flows[i].state = "running"
                              /\ flows' = [flows EXCEPT ![i].state = "ended"]
    /\ finished' = TRUE
    /\ status' = "verdict"
    /\ UNCHANGED <<place, said, settings, question, launchable, checking, inbox, viewVars>>

CancelledEnds ==
    /\ \E i \in DOMAIN flows : /\ flows[i].state = "cancelled"
                              /\ flows' = [flows EXCEPT ![i].state = "ended"]
    /\ UNCHANGED <<place, said, settings, question, launchable, checking, inbox, viewVars,
                   finished, status>>

ReceiveEvent ==
    /\ Idle /\ inbox # <<>> /\ Head(inbox).is = "event" /\ inbox' = Tail(inbox)
    /\ LET e == Head(inbox).what
       IN  /\ events' = Append(events, e)
           /\ held' = IF paused THEN held \cup {e} ELSE held
           /\ shown' = IF ~paused /\ Matches(e, category, query) THEN Append(shown, e) ELSE shown
    /\ UNCHANGED <<setupVars, category, query, paused, finished, status>>

\* The timeline is rendered for the value the filter had when it changed.
FilterChanged ==
    /\ \E q \in Queries : Takes(Changed(q)) /\ shown' = Rendered(category, q, held)
    /\ UNCHANGED <<setupVars, events, held, category, query, paused, finished, status>>

\* The clock of a run that is not over.
Tick ==
    /\ Idle /\ Live /\ ~finished
    /\ status' = "running"
    /\ UNCHANGED <<setupVars, inbox, viewVars, finished>>

LiveStep == /\ Emit \/ FlowEnds \/ CancelledEnds \/ ReceiveEvent \/ FilterChanged \/ Tick
            /\ UNCHANGED <<catalog, machine, inputs>>

TypeFilter ==
    /\ Idle
    /\ \E q \in Queries \ {query} : query' = q /\ inbox' = Append(inbox, Changed(q))
    /\ UNCHANGED <<events, shown, held, category, paused>>

SetCategory ==
    /\ Idle
    /\ \E c \in {"all"} \cup ({k.category : k \in EventKinds} \ {"none"}) :
         category' = c /\ shown' = Rendered(c, query, held)
    /\ UNCHANGED <<inbox, events, held, query, paused>>

ClearFilter ==
    /\ Idle
    /\ query' = "" /\ category' = "all"
    /\ inbox' = IF query = "" THEN inbox ELSE Append(inbox, Changed(""))
    /\ shown' = Rendered("all", "", held)
    /\ UNCHANGED <<events, held, paused>>

TogglePause ==
    /\ Idle
    /\ paused' = ~paused
    /\ IF paused THEN held' = {} /\ shown' = Rendered(category, query, {})
                 ELSE UNCHANGED <<held, shown>>
    /\ UNCHANGED <<inbox, events, category, query>>

LiveInput ==
    /\ Live /\ inputs < MaxInputs /\ inputs' = inputs + 1
    /\ TypeFilter \/ SetCategory \/ ClearFilter \/ TogglePause
    /\ UNCHANGED <<catalog, machine, setupVars, finished, status>>

\* q, or the exit button: only before a run, or when it is over.
Leaves == Idle /\ (Live => finished) /\ Close("exit")
\* The framework's own key, which asks nothing.
Quits == Idle /\ Close("quit")
\* The app goes, with its messages and what it displays.
ExitInput == /\ Leaves \/ Quits
             /\ settings' = NoSettings /\ question' = 1 /\ launchable' = TRUE
             /\ inbox' = <<>> /\ events' = <<>> /\ shown' = <<>> /\ held' = {}
             /\ category' = "all" /\ query' = "" /\ paused' = FALSE /\ inputs' = 0
             /\ UNCHANGED <<catalog, machine, checking, finished, status>>

\* Nothing happens until the user does something: no preflight is under way, and
\* no run.
WorkbenchRests == \/ place = "closed"
                  \/ Asking /\ checking = NoSettings
                  \/ Live /\ finished

WorkbenchStep == TerminalStep \/ QuestionStep \/ LiveStep
WorkbenchInput == QuestionInput \/ LiveInput \/ ExitInput

-----------------------------------------------------------------------------
\* Types of the set-up and of the live page.
WorkbenchTypeOK ==
    /\ place \in {"command", "wizard", "wizard_with_profile", "preflight", "terminal", "questions",
                  "live", "closed"}
    /\ said \in {"nothing", "refused", "cancelled", "listed", "result", "crash", "exit", "quit"}
    /\ question \in ScenarioQuestion..Review
    /\ launchable \in BOOLEAN /\ paused \in BOOLEAN /\ finished \in BOOLEAN
    /\ \A i \in DOMAIN inbox : inbox[i].is \in {"press", "event", "changed"}
    /\ \A i \in DOMAIN flows : flows[i].state \in {"running", "cancelled", "ended"}
    /\ status \in {"setup", "checking", "running", "verdict"}

(* What the set-up and the workbench promise.                                  *)

\* A run is only launched with settings that were found good: a limit in range,
\* a flow and a profile that exist, variables and disk as they must be, and a
\* database that, if a URL names one, is there and migrated. A command that was
\* refused launched nothing; the verdict on a run is not displayed away while
\* its page is open, and q waits for the clean-up of the run, both unless the
\* launch button was pressed twice.
Launched == IF place = "preflight" THEN settings ELSE checking
LaunchIsChecked(s) ==
    LET p == Profile(catalog, s.profile)
    IN  /\ s.turns \in TurnLimit /\ s.scenario.plugin \in Plugins
        /\ ProfileExists(catalog, s.profile)
        /\ MissingVariables(p, machine) = {} /\ machine.writable
        /\ UrlVariable(p, machine) # NoId => machine.database = "head"
VerdictStays ==
    Len(flows') = 1 /\ finished /\ place' = "live" => /\ flows'[1].state = "ended"
                                                      /\ checking' = NoSettings => status' = "verdict"
StepIsGuarded ==
    /\ Len(flows') > Len(flows) => LaunchIsChecked(Launched)
    /\ said' \in {"refused", "cancelled"} => flows' = <<>>
    /\ said' = "exit" /\ Len(flows) = 1 => flows[1].state = "ended"
    /\ VerdictStays
RunIsGuarded == [][StepIsGuarded]_workbenchVars

\* The timeline shows exactly the events that arrived, in their order, that
\* pass the category and the filter and were not held back by a pause, once
\* the filter's own changes have arrived; and no event of a run is lost.
EventsOf(i, received) == Picked(received, {e \in ToSet(received) : e.run = i})
Arrived == events \o [n \in DOMAIN Messages("event") |-> Messages("event")[n].what]
TimelineIsExact ==
    /\ (\A i \in DOMAIN inbox : inbox[i].is # "changed") => shown = Rendered(category, query, held)
    /\ ~paused => held = {}
    /\ Open => \A i \in DOMAIN flows :
         /\ Len(EventsOf(i, Arrived)) = flows[i].emitted
         /\ \A n \in 1..flows[i].emitted : EventsOf(i, Arrived)[n].seq = n
=============================================================================
