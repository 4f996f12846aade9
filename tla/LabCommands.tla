---------------------------- MODULE LabCommands ----------------------------
(* One process of the command line runs one command: both sides of a reference *)
(* workflow, a persona's conversation, the setting-up of one and the workbench *)
(* that displays it, or a comparison over several cases.                       *)
EXTENDS ReferenceRun, PersonaRun, Workbench, SuiteComparison

vars == <<command, workflow, repo, runVars, personaVars, workbenchVars, suiteVars>>

\* What a command does not read plays no part in it.
Init ==
    /\ CommandInit /\ RunInit /\ PersonaInit
    /\ command # "reference" => script = OwnScript(workflow)
    /\ OfSupport => command = "simulate" /\ workflow = "disputes"
    /\ \/ command = "setup" /\ workflow = "disputes" /\ \E c \in Catalogs, m \in Machines : WorkbenchInit(c, m)
       \/ command # "setup" /\ WorkbenchInit("unread", "unread")
    /\ \/ command = "compare" /\ workflow = "disputes" /\ \E s \in Studies : SuiteInit(s)
       \/ command # "compare" /\ SuiteInit(CHOOSE s \in Studies : TRUE)

ReferenceCommandStep == RunStep /\ UNCHANGED <<personaVars, workbenchVars, suiteVars>>
SimulateStep == PersonaStep /\ UNCHANGED <<runVars, workbenchVars, suiteVars>>
SimulateFault == PersonaFault /\ UNCHANGED <<runVars, workbenchVars, suiteVars>>
SetupStep == /\ command = "setup" /\ WorkbenchStep
             /\ UNCHANGED <<command, workflow, repo, runVars, personaVars, suiteVars>>
SetupInput == /\ command = "setup" /\ WorkbenchInput
              /\ UNCHANGED <<command, workflow, repo, runVars, personaVars, suiteVars>>
CompareStep == /\ command = "compare" /\ SuiteStep
               /\ UNCHANGED <<command, workflow, repo, runVars, personaVars, workbenchVars>>

\* A command that ended stays so. The workbench is open for as long as its user wants.
CommandEnded == /\ ReferenceEnded /\ PersonaEnded
                /\ command = "setup" => WorkbenchRests
                /\ command = "compare" => SuiteEnded
Ended == CommandEnded /\ UNCHANGED vars

Next == ReferenceCommandStep \/ SimulateStep \/ SimulateFault \/ SetupStep \/ SetupInput \/ CompareStep \/ Ended

Spec == Init /\ [][Next]_vars

\* Each command is one coroutine that runs until it returns; a hosted model
\* answers or fails in the end. Faults, and what a user does, are never owed.
FairSpec == /\ Spec
            /\ WF_vars(ReferenceCommandStep)
            /\ WF_vars(SimulateStep)
            /\ WF_vars(SetupStep)
            /\ WF_vars(CompareStep)

-----------------------------------------------------------------------------
\* Types of the repository and of the commands' state.
TypeOK ==
    /\ command \in Commands /\ workflow \in Workflows /\ repo \in Repositories
    /\ RunTypeOK /\ PersonaTypeOK /\ WorkbenchTypeOK /\ SuiteTypeOK

\* Whatever the plans, the fault script, the models, the disk and the user do,
\* the command comes to an end, and the workbench always to rest, with its run over.
CommandEnds == []<>CommandEnded
=============================================================================
