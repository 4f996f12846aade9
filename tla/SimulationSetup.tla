--------------------------- MODULE SimulationSetup ---------------------------
(* What `lab simulate` has to know before it starts a run: the catalog of      *)
(* simulations and environment profiles, read strictly from YAML, and the      *)
(* preflight, which looks at the machine. Of a manifest only what decides      *)
(* whether it is usable is kept; of the machine, what the preflight reads.     *)
EXTENDS Naturals, SequencesExt

CONSTANT Plugins   \* flow ids of the registry, which refuses a second one of a name

TurnLimit == 1..50
NoId == "none"

-----------------------------------------------------------------------------
(* The catalog: [read, secret, profiles] for the environments file and, for    *)
(* each manifest in "files", [id, read, secret, scenarios].                    *)

ProfilesOf(catalog) == ToSet(catalog.environments.profiles)
Entries(catalog) == FlattenSeq([i \in DOMAIN catalog.files |-> catalog.files[i].scenarios])
Distinct(s) == \A i, j \in DOMAIN s : s[i].id = s[j].id => i = j

\* A document that parses to a mapping without anything that looks like a secret.
Readable(document) == document.read /\ ~document.secret

ProfileExists(catalog, id) == \E p \in ProfilesOf(catalog) : p.id = id

\* FlowRegistry knows a flow under its id, which no second one can take.
Registered(id) == id \in Plugins

Strict(catalog, s) ==
    /\ s.turns \in TurnLimit
    /\ Registered(s.plugin)
    /\ ProfileExists(catalog, s.profile)

\* load_simulation_catalog leaves no issue.
Usable(catalog) ==
    /\ Readable(catalog.environments) /\ Distinct(catalog.environments.profiles)
    /\ \A i \in DOMAIN catalog.files : Readable(catalog.files[i])
    /\ Distinct(catalog.files)
    /\ Distinct(Entries(catalog))
    /\ \A i \in DOMAIN Entries(catalog) : Strict(catalog, Entries(catalog)[i])

Profile(catalog, id) == CHOOSE p \in ProfilesOf(catalog) : p.id = id

-----------------------------------------------------------------------------
(* The preflight.                                                              *)

Issue(name, found) == IF found THEN {name} ELSE {}

\* What a probe of the database may find.
Databases == {"down", "unmigrated", "behind", "head"}

\* The profile's own variable comes first, DATABASE_URL second.
UrlVariable(p, machine) ==
    CASE p.url \in machine.set -> p.url
      [] p.url \notin machine.set /\ "DATABASE_URL" \in machine.set -> "DATABASE_URL"
      [] OTHER -> NoId

MissingVariables(p, machine) ==
    {v \in p.required : /\ v \notin machine.set
                        /\ v = p.url => "DATABASE_URL" \notin machine.set}

RuntimeIssues(p, machine) ==
    LET url == UrlVariable(p, machine)
    IN  Issue("database", url # NoId /\ machine.scheme[url] # "postgresql")

\* A URL that is not set is not probed: a variable that is required is missed
\* above, one that is not required leaves the run without a URL of its own.
DatabaseIssues(p, machine) ==
    CASE RuntimeIssues(p, machine) # {} -> RuntimeIssues(p, machine)
      [] RuntimeIssues(p, machine) = {} /\ UrlVariable(p, machine) = NoId -> {}
      [] OTHER -> Issue("database", machine.database = "down")
                  \cup Issue("migrations", machine.database \in {"unmigrated", "behind"})

PreflightIssues(plugin, p, machine) ==
    Issue("plugin", plugin \notin Plugins)
    \cup MissingVariables(p, machine)
    \cup Issue("model", p.model \notin {"any", machine.model})
    \cup Issue("artifacts", ~machine.writable)
    \cup DatabaseIssues(p, machine)
=============================================================================
