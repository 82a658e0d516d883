---------------------------- MODULE TaskRegistry ----------------------------
(***************************************************************************)
(* Task definitions and templates: the TaskRegistry of src/crawler/task    *)
(* (definition.go), which keeps them in memory and in Redis, and the       *)
(* ConfigLoader (config_loader.go), which registers what files, Redis keys *)
(* and Lua scripts define. A process has one registry under one lock, a    *)
(* loader, and callers that create tasks from templates.                   *)
(***************************************************************************)
EXTENDS Naturals, FiniteSets

CONSTANTS Loaders, Users,  \* the goroutines: the loader and a caller of each process
          DefinitionOf,    \* the definition each template names
          Defines,         \* the definitions each Lua script puts into its table tasks
          MaxLoads,        \* bound of the configurations that are processed
          MaxRegFaults     \* bound of the Redis commands that fail and of the restarts

VARIABLES definitions,  \* per process, in memory
          templates,
          rDefinitions, rTemplates,  \* in Redis
          rIndex,                    \* the index of definitions in Redis
          luaTasks,     \* per process, the Lua global tasks: it outlives the script that set it
          at, job,      \* per goroutine: its next step and what it works on
          failed,       \* scripts that failed, perhaps after they had set tasks
          refused,      \* definitions of which Redis refused a SET
          missed,       \* definitions no task could be created from, Redis having answered
          loads, regFaults

registryVars == <<definitions, templates, rDefinitions, rTemplates, rIndex, luaTasks, at, job,
                  failed, refused, missed, loads, regFaults>>
memory == <<definitions, templates>>
inRedis == <<rDefinitions, rTemplates, rIndex>>
history == <<failed, refused, missed, loads, regFaults>>

Processes == Loaders
Templates == DOMAIN DefinitionOf
Scripts == DOMAIN Defines
Ids == {DefinitionOf[t] : t \in Templates} \cup UNION {Defines[s] : s \in Scripts}
NoScript == "no script"
None == [id |-> "none"]
\* A definition: the script it names in its metadata and the script that made it.
Definition == [script : Scripts \cup {NoScript}, maker : Scripts \cup {NoScript}]
NoTasks == [maker |-> NoScript, ids |-> {}]
NoJob == [op |-> "none", id |-> "none", template |-> "none", value |-> None, script |-> NoScript,
          left |-> {}]

Routines == Loaders \cup DOMAIN Users
ProcessOf(g) == IF g \in Loaders THEN g ELSE Users[g]

RegistryInit ==
  /\ definitions = [p \in Processes |-> [d \in Ids |-> None]]
  /\ templates = [p \in Processes |-> {}]
  /\ rDefinitions = [d \in Ids |-> None] /\ rTemplates = {} /\ rIndex = {}
  /\ luaTasks = [p \in Processes |-> NoTasks]
  /\ at = [g \in Routines |-> "idle"] /\ job = [g \in Routines |-> NoJob]
  /\ failed = {} /\ refused = {} /\ missed = {} /\ loads = 0 /\ regFaults = 0

\* RegisterDefinition and RegisterTemplate hold the lock during their Redis commands.
Locked(p) == \E g \in Routines : ProcessOf(g) = p /\ at[g] \in {"set", "index", "template set"}

Goto(g, l) == at' = [at EXCEPT ![g] = l]
Ends(g) == /\ at' = [at EXCEPT ![g] = "idle"] /\ job' = [job EXCEPT ![g] = NoJob]
Fault == regFaults < MaxRegFaults /\ regFaults' = regFaults + 1

-----------------------------------------------------------------------------
\* The loader. LoadAll takes the configurations of its files in their order and those of
\* Redis in the order of KEYS, which is any order; it may be called again.
Loads(g) == /\ g \in Loaders /\ at[g] = "idle" /\ loads < MaxLoads /\ loads' = loads + 1
            /\ UNCHANGED <<memory, inRedis, failed, refused, missed, regFaults>>

LoadDefinition(g, d) ==
  /\ Loads(g) /\ Goto(g, "register") /\ UNCHANGED luaTasks
  /\ job' = [job EXCEPT ![g] = [NoJob EXCEPT !.op = "load", !.left = {d}]]

Unverified == "register template"  \* bug: the template is registered as it comes
Verify == "look up"
LoadTemplate(g, t) ==
  /\ Loads(g) /\ Goto(g, Verify) /\ UNCHANGED luaTasks
  /\ job' = [job EXCEPT ![g] = [NoJob EXCEPT !.op = "template", !.template = t,
                                             !.id = DefinitionOf[t]]]

\* A script runs in the Lua state all scripts share. What the table holds afterwards is
\* registered, whoever put it there.
LoadScript(g, s) ==
  LET tasks == IF Defines[s] = {} THEN luaTasks[g] ELSE [maker |-> s, ids |-> Defines[s]]
  IN /\ Loads(g) /\ luaTasks' = [luaTasks EXCEPT ![g] = tasks]
     /\ IF tasks.ids = {} THEN UNCHANGED <<at, job>>
        ELSE /\ Goto(g, "register")
             /\ job' = [job EXCEPT ![g] = [NoJob EXCEPT !.op = "load", !.script = s,
                                                        !.left = tasks.ids]]

\* The script does not compile, cannot be read, or raises an error, perhaps when it has
\* already set tasks.
ScriptFails(g, s) ==
  /\ g \in Loaders /\ at[g] = "idle" /\ s \notin failed /\ Fault
  /\ failed' = failed \cup {s}
  /\ \E set \in {{}, Defines[s]} :
       luaTasks' = IF set = {} THEN luaTasks
                   ELSE [luaTasks EXCEPT ![g] = [maker |-> s, ids |-> set]]
  /\ UNCHANGED <<memory, inRedis, at, job, refused, missed, loads>>

\* RegisterDefinition: refused if the memory has the definition, whatever Redis has.
Made(g) == [script |-> job[g].script,
            maker |-> IF job[g].script = NoScript THEN NoScript ELSE luaTasks[g].maker]
Exists(p, d) == definitions[p][d] # None
NeverExists(p, d) == FALSE  \* bug: no test for a duplicate
Refused(p, d) == Exists(p, d)

Rest(g, d) == IF job[g].left = {d} THEN Ends(g)
              ELSE Goto(g, "register") /\ job' = [job EXCEPT ![g].left = @ \ {d}]

RegisterDefinition(g) ==
  /\ at[g] = "register" /\ ~Locked(ProcessOf(g))
  /\ \E d \in job[g].left :
       IF Refused(ProcessOf(g), d) THEN Rest(g, d) /\ UNCHANGED memory
       ELSE /\ definitions' = [definitions EXCEPT ![ProcessOf(g)][d] = Made(g)]
            /\ Goto(g, "set") /\ job' = [job EXCEPT ![g].id = d] /\ UNCHANGED templates
  /\ UNCHANGED <<inRedis, luaTasks, history>>

\* An error of SET is logged, one of SADD ignored.
SetDefinition(g) ==
  /\ at[g] = "set" /\ Goto(g, "index")
  /\ \/ /\ rDefinitions' = [rDefinitions EXCEPT
                              ![job[g].id] = definitions[ProcessOf(g)][job[g].id]]
        /\ UNCHANGED <<refused, regFaults>>
     \/ Fault /\ refused' = refused \cup {job[g].id} /\ UNCHANGED rDefinitions
  /\ UNCHANGED <<memory, rTemplates, rIndex, luaTasks, job, failed, missed, loads>>
AddToIndex(g) ==
  /\ at[g] = "index" /\ Rest(g, job[g].id)
  /\ \/ rIndex' = rIndex \cup {job[g].id} /\ UNCHANGED regFaults
     \/ Fault /\ UNCHANGED rIndex
  /\ UNCHANGED <<memory, rDefinitions, rTemplates, luaTasks, failed, refused, missed, loads>>

-----------------------------------------------------------------------------
\* GetDefinition: the memory, then Redis, then back to the memory, each under its own lock.
Found(g) == IF job[g].op = "template" THEN Goto(g, "register template") /\ UNCHANGED job
            ELSE Ends(g)

LookUp(g) ==
  /\ at[g] = "look up" /\ ~Locked(ProcessOf(g))
  /\ IF Exists(ProcessOf(g), job[g].id) THEN Found(g)
     ELSE Goto(g, "get") /\ UNCHANGED job
  /\ UNCHANGED <<memory, inRedis, luaTasks, history>>
GetDefinition(g) ==
  /\ at[g] = "get"
  /\ \/ /\ rDefinitions[job[g].id] # None /\ Goto(g, "cache")
        /\ job' = [job EXCEPT ![g].value = rDefinitions[job[g].id]]
        /\ UNCHANGED <<missed, regFaults>>
     \/ /\ rDefinitions[job[g].id] = None /\ Ends(g)
        /\ UNCHANGED regFaults
        /\ missed' = IF job[g].op = "create" THEN missed \cup {job[g].id} ELSE missed
     \/ Fault /\ Ends(g) /\ UNCHANGED missed
  /\ UNCHANGED <<memory, inRedis, luaTasks, failed, refused, loads>>
CacheDefinition(g) ==
  /\ at[g] = "cache" /\ ~Locked(ProcessOf(g)) /\ Found(g)
  /\ definitions' = [definitions EXCEPT ![ProcessOf(g)][job[g].id] = job[g].value]
  /\ UNCHANGED <<templates, inRedis, luaTasks, history>>

\* RegisterTemplate, once its definition is found.
RegisterTemplate(g) ==
  /\ at[g] = "register template" /\ ~Locked(ProcessOf(g)) /\ Goto(g, "template set")
  /\ templates' = [templates EXCEPT ![ProcessOf(g)] = @ \cup {job[g].template}]
  /\ UNCHANGED <<definitions, inRedis, luaTasks, job, history>>
SetTemplate(g) ==
  /\ at[g] = "template set" /\ Ends(g)
  /\ \/ rTemplates' = rTemplates \cup {job[g].template} /\ UNCHANGED regFaults
     \/ Fault /\ UNCHANGED rTemplates
  /\ UNCHANGED <<memory, rDefinitions, rIndex, luaTasks, failed, refused, missed, loads>>

\* CreateTaskFromTemplate, CreateInstanceFromTemplate and LoadTemplatesFromRedis: the
\* template, from the memory or from Redis, then its definition.
CreateTask(g, t) ==
  /\ g \notin Loaders /\ at[g] = "idle" /\ ~Locked(ProcessOf(g))
  /\ Goto(g, IF t \in templates[ProcessOf(g)] THEN "look up" ELSE "get template")
  /\ job' = [job EXCEPT ![g] = [NoJob EXCEPT !.op = "create", !.template = t,
                                             !.id = DefinitionOf[t]]]
  /\ UNCHANGED <<memory, inRedis, luaTasks, history>>
GetTemplate(g) ==
  /\ at[g] = "get template"
  /\ \/ /\ job[g].template \in rTemplates /\ Goto(g, "cache template")
        /\ UNCHANGED <<job, regFaults>>
     \/ job[g].template \notin rTemplates /\ Ends(g) /\ UNCHANGED regFaults
     \/ Fault /\ Ends(g)
  /\ UNCHANGED <<memory, inRedis, luaTasks, failed, refused, missed, loads>>
CacheTemplate(g) ==
  /\ at[g] = "cache template" /\ ~Locked(ProcessOf(g)) /\ Goto(g, "look up")
  /\ templates' = [templates EXCEPT ![ProcessOf(g)] = @ \cup {job[g].template}]
  /\ UNCHANGED <<definitions, inRedis, luaTasks, job, history>>

\* LoadDefinitionsFromRedis: what the index names.
LoadIndexed(g, d) ==
  /\ g \notin Loaders /\ at[g] = "idle" /\ d \in rIndex /\ Goto(g, "look up")
  /\ job' = [job EXCEPT ![g] = [NoJob EXCEPT !.op = "index", !.id = d]]
  /\ UNCHANGED <<memory, inRedis, luaTasks, history>>

\* The end of a process, at any step, and its next start.
Restart(p) ==
  /\ Fault
  /\ definitions' = [definitions EXCEPT ![p] = [d \in Ids |-> None]]
  /\ templates' = [templates EXCEPT ![p] = {}]
  /\ luaTasks' = [luaTasks EXCEPT ![p] = NoTasks]
  /\ at' = [g \in Routines |-> IF ProcessOf(g) = p THEN "idle" ELSE at[g]]
  /\ job' = [g \in Routines |-> IF ProcessOf(g) = p THEN NoJob ELSE job[g]]
  /\ UNCHANGED <<inRedis, failed, refused, missed, loads>>

Next == \/ \E g \in Loaders : \/ \E d \in Ids : LoadDefinition(g, d)
                              \/ \E t \in Templates : LoadTemplate(g, t)
                              \/ \E s \in Scripts : LoadScript(g, s) \/ ScriptFails(g, s)
                              \/ Restart(g)
        \/ \E g \in Routines :
             \/ RegisterDefinition(g) \/ SetDefinition(g) \/ AddToIndex(g)
             \/ LookUp(g) \/ GetDefinition(g) \/ CacheDefinition(g)
             \/ RegisterTemplate(g) \/ SetTemplate(g) \/ GetTemplate(g) \/ CacheTemplate(g)
             \/ (\E t \in Templates : CreateTask(g, t)) \/ (\E d \in Ids : LoadIndexed(g, d))

Spec == RegistryInit /\ [][Next]_registryVars

-----------------------------------------------------------------------------
\* Types of the state.
RegistryTypeOK ==
  /\ definitions \in [Processes -> [Ids -> Definition \cup {None}]]
  /\ templates \in [Processes -> SUBSET Templates]
  /\ rDefinitions \in [Ids -> Definition \cup {None}] /\ rTemplates \subseteq Templates
  /\ rIndex \subseteq Ids
  /\ luaTasks \in [Processes -> [maker : Scripts \cup {NoScript}, ids : SUBSET Ids]]
  /\ \A g \in Routines :
       /\ at[g] \in {"idle", "register", "set", "index", "look up", "get", "cache",
                     "register template", "template set", "get template", "cache template"}
       /\ (at[g] = "idle" <=> job[g] = NoJob)
  /\ failed \subseteq Scripts /\ refused \subseteq Ids /\ missed \subseteq Ids
  /\ loads \in 0 .. MaxLoads /\ regFaults \in 0 .. MaxRegFaults

\* Who has found a template also finds its definition, in whatever process and at
\* whatever moment, and whichever of the two was loaded first; a definition that names
\* a script was made by it, although what one script has left in the table tasks is
\* registered again under the name of every later one. Only a SET that Redis refused
\* excuses the first, and a script that failed half-way the second.
RegistryWorks ==
  /\ missed \subseteq refused
  /\ \A p \in Processes, d \in Ids :
       LET def == definitions[p][d]
       IN def # None => def.script = def.maker \/ def.maker \in failed
=============================================================================
