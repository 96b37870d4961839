--------------------------------- MODULE App ---------------------------------
(***************************************************************************)
(* The inventory demo as a process: main(), App::init() with the           *)
(* configuration it reads through IniFile, App::run() and the end of the   *)
(* program.  The pools and the logger are modelled in modules of their     *)
(* own; here they are not made, running or shut down.                      *)
(*                                                                         *)
(* Drogon and the signals are external: a TERM signal calls the handler    *)
(* that run() sets, in the event loop; app.run() returns once it is asked  *)
(* to quit.                                                                *)
(***************************************************************************)
EXTENDS IniFile

CONSTANTS
    Key,       \* for each section load_config() needs, a key it reads there
    Files,     \* configuration files the program may be started with
    Absent     \* stands for a file that does not open

Required == DOMAIN Key
Resources == {"logger", "mysql", "redis"}
Default == -1     \* what app.h gives a field

ASSUME AppAssumption ==
    /\ Absent \notin Files
    /\ \A f \in Files : f \in Seq(Range(f))
    /\ \A t \in DOMAIN Number : Number[t] \in Nat

VARIABLES
    file,      \* the file the program is started with
    ini,       \* the sections IniFile has read
    config,    \* App::m_config: the field read from each required section
    pc,        \* where main() is
    res,       \* each resource: "none", "up" or "down"
    quit,      \* Drogon was asked to quit
    after      \* where main() goes on after cleanup_resources()

appVars == <<file, ini, config, pc, res, quit, after>>

AppInit ==
    /\ file \in Files \union {Absent}
    /\ ini = <<>>
    /\ config = [s \in Required |-> Default]
    /\ pc = "load"
    /\ res = [x \in Resources |-> "none"]
    /\ quit = FALSE
    /\ after = "exit"

-----------------------------------------------------------------------------
(* init() *)

\* load_config() looks all sections up before it reads a key; a key that is
\* missing is made and reads as 0, whatever app.h gave the field
LoadConfig ==
    /\ pc = "load"
    /\ ini' = IF file = Absent THEN ini ELSE Parsed(file)
    /\ IF \A s \in Required : HasSection(ini', s)
       THEN /\ config' = [s \in Required |-> AsInt(Text(ini'[s], Key[s]))]
            /\ pc' = "logger"
       ELSE /\ pc' = "exit"
            /\ UNCHANGED config
    /\ UNCHANGED <<file, res, quit, after>>

Start(x, from, to) ==
    /\ pc = from /\ pc' = to
    /\ res' = [res EXCEPT ![x] = "up"]
    /\ UNCHANGED <<file, ini, config, quit, after>>

\* setExternalLookup() and the making of the components change nothing else here
InitLogger == Start("logger", "logger", "mysql")
InitDatabasePool == Start("mysql", "mysql", "redis")

\* connect() throws for a connection of the pool that is refused, and nothing up to
\* main() catches it: std::terminate ends the process, without a destructor
DatabaseRefused ==
    /\ pc = "mysql" /\ pc' = "gone"
    /\ UNCHANGED <<file, ini, config, res, quit, after>>

\* a Redis connection that cannot be made is a null pointer, no exception
InitRedisPool == Start("redis", "redis", "bootstrap")

-----------------------------------------------------------------------------
(* run() *)

\* a bootstrap that fails leaves without cleanup_resources()
RunBootstrap ==
    /\ pc = "bootstrap"
    /\ pc' \in {"serving", "exit"}
    /\ UNCHANGED <<file, ini, config, res, quit, after>>

\* the handler given to setTermSignalHandler(): it does not ask Drogon to quit
TermSignal ==
    /\ pc = "serving"
    /\ pc' = "cleanup" /\ after' = "serving"
    /\ UNCHANGED <<file, ini, config, res, quit>>

\* external: anything that makes app.run() return
Quit ==
    /\ pc \in {"serving", "cleanup"} /\ ~ quit
    /\ quit' = TRUE
    /\ UNCHANGED <<file, ini, config, pc, res, after>>

RunReturns ==
    /\ pc = "serving" /\ quit
    /\ pc' = "cleanup" /\ after' = "exit"
    /\ UNCHANGED <<file, ini, config, res, quit>>

\* Mutant of CleanupOrder: the databases are left to the end of the process.
CleanupOrderShort == [cleanup |-> "redis", cleanup2 |-> "logger", cleanup3 |-> "logger"]

\* cleanup_resources(): Redis, then MySQL, then the logger
CleanupOrder == [cleanup |-> "redis", cleanup2 |-> "mysql", cleanup3 |-> "logger"]
NextCleanup == [cleanup |-> "cleanup2", cleanup2 |-> "cleanup3", cleanup3 |-> after]

Cleanup ==
    /\ pc \in DOMAIN CleanupOrder
    /\ res' = [res EXCEPT ![CleanupOrder[pc]] = "down"]
    /\ pc' = NextCleanup[pc]
    /\ UNCHANGED <<file, ini, config, quit, after>>

\* the destructors of the statics at the end of the process: the MySQL pool is
\* made with new and has none
Exit ==
    /\ pc = "exit" /\ pc' = "gone"
    /\ res' = [x \in Resources |->
                  IF x # "mysql" /\ res[x] = "up" THEN "down" ELSE res[x]]
    /\ UNCHANGED <<file, ini, config, quit, after>>

-----------------------------------------------------------------------------
Main ==
    \/ LoadConfig \/ InitLogger \/ InitDatabasePool \/ DatabaseRefused \/ InitRedisPool
    \/ RunBootstrap \/ RunReturns \/ Cleanup \/ Exit

AppNext == Main \/ TermSignal \/ Quit

AppSpec == AppInit /\ [][AppNext]_appVars

\* main() goes on; nobody has to send a signal or to ask Drogon to quit, and
\* signals do not come for ever
AppFairSpec == AppSpec /\ WF_appVars(Main) /\ SF_appVars(RunReturns)

-----------------------------------------------------------------------------
(* Properties *)

\* What load() keeps of a file is what a reader finds in it: the last value of a
\* key in the last block of its section, Global for pairs under no name, and never
\* a value of a block that a later header of the section has emptied
\* (ini.cpp:40).  Every field of the configuration is that value, and 0 for a key
\* that is not there: never the default of app.h.
ReadsWhatIsWritten ==
    pc \notin {"load", "exit", "gone"} =>
        /\ \A s \in Required \union {"Global"}, k \in Range(Key) :
              Written(file, s, k) = IF HasSection(ini, s) THEN Text(ini[s], k) ELSE NoText
        /\ \A s \in Required : config[s] = AsInt(Written(file, s, Key[s]))

\* A program asked to quit ends with the logger and both pools shut down by
\* cleanup_resources(), also when a TERM signal has already run it.
QuitShutsDown ==
    quit ~> (pc = "gone" /\ \A x \in Resources : res[x] = "down")
=============================================================================
