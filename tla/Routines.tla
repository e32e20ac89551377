------------------------------ MODULE Routines ------------------------------
(***************************************************************************)
(* Seven routines that share no state, each a module of its own: opening   *)
(* the runtime database, planning a prompt, doctor --fix, the commit of a  *)
(* fetched source, the calls of the language model, the caches, and the    *)
(* settings and child requests of a source.  A behavior runs one of them,  *)
(* the others are over.                                                    *)
(***************************************************************************)
EXTENDS RuntimeSchema, PromptPlanner, Doctor, PreparedCommit, BackendCall, Caches,
        SourceSettings

(* The bounds that a routine which is over has reached are numbers.        *)
ASSUME RoutinesAssumption == {MaxRounds, MaxPolls, MaxLoads, MaxChanges, MaxPages, MaxUpdates} \subseteq Nat

routinesVars == <<schemaVars, promptVars, doctorVars, commitVars, callVars, cacheVars, settingsVars>>

SchemaOver == /\ file = 0
              /\ disk = [f \in Files |-> Empty]
              /\ doing = [p \in Openers |-> "away"]
              /\ opened = [p \in Openers |-> 0]
              /\ seen = [p \in Openers |-> {}]
              /\ at = [p \in Openers |-> 0]
              /\ opens = MaxOpens
              /\ deaths = MaxDeaths
              /\ overlapped = FALSE

PromptOver == input = <<>> /\ plan = [at |-> "over"]

DoctorOver == world = <<>> /\ visit = NoVisit /\ rounds = MaxRounds /\ hitches = MaxHitches

CommitOver == area = <<>> /\ commit = NoCommit /\ polls = MaxPolls /\ faults = MaxFaults

CallOver == /\ breaker = Closed /\ call = NoCall /\ calls = MaxCalls /\ cancels = MaxCancels
            /\ run = [failed |-> 0, most |-> FailureThreshold, abandoned |-> FALSE]

CachesOver == /\ held = <<>> /\ index = NoAreaIndex /\ context = NoContext /\ load = NoLoad
              /\ loads = MaxLoads /\ changes = MaxChanges /\ misreads = MaxMisreads /\ saw = <<>>

SettingsOver == /\ parent = AsAdded /\ wished = 0 /\ page = MaxPages /\ registered = {} /\ poll = NoPoll
                /\ update = [u \in Updaters |-> NoUpdate]
                /\ updates = MaxUpdates /\ visits = MaxVisits /\ mishaps = MaxMishaps

RoutinesInit == \/ SchemaInit /\ PromptOver /\ DoctorOver /\ CommitOver /\ CallOver /\ CachesOver /\ SettingsOver
                \/ SchemaOver /\ PromptInit /\ DoctorOver /\ CommitOver /\ CallOver /\ CachesOver /\ SettingsOver
                \/ SchemaOver /\ PromptOver /\ DoctorInit /\ CommitOver /\ CallOver /\ CachesOver /\ SettingsOver
                \/ SchemaOver /\ PromptOver /\ DoctorOver /\ CommitInit /\ CallOver /\ CachesOver /\ SettingsOver
                \/ SchemaOver /\ PromptOver /\ DoctorOver /\ CommitOver /\ CallInit /\ CachesOver /\ SettingsOver
                \/ SchemaOver /\ PromptOver /\ DoctorOver /\ CommitOver /\ CallOver /\ CachesInit /\ SettingsOver
                \/ SchemaOver /\ PromptOver /\ DoctorOver /\ CommitOver /\ CallOver /\ CachesOver /\ SettingsInit

RoutinesNext == \/ /\ SchemaNext
                   /\ UNCHANGED <<promptVars, doctorVars, commitVars, callVars, cacheVars, settingsVars>>
                \/ /\ PromptNext
                   /\ UNCHANGED <<schemaVars, doctorVars, commitVars, callVars, cacheVars, settingsVars>>
                \/ /\ DoctorNext
                   /\ UNCHANGED <<schemaVars, promptVars, commitVars, callVars, cacheVars, settingsVars>>
                \/ /\ CommitNext
                   /\ UNCHANGED <<schemaVars, promptVars, doctorVars, callVars, cacheVars, settingsVars>>
                \/ /\ CallNext
                   /\ UNCHANGED <<schemaVars, promptVars, doctorVars, commitVars, cacheVars, settingsVars>>
                \/ /\ CachesNext
                   /\ UNCHANGED <<schemaVars, promptVars, doctorVars, commitVars, callVars, settingsVars>>
                \/ /\ SettingsNext
                   /\ UNCHANGED <<schemaVars, promptVars, doctorVars, commitVars, callVars, cacheVars>>

Spec == RoutinesInit /\ [][RoutinesNext]_routinesVars

=============================================================================
