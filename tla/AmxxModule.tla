----------------------------- MODULE AmxxModule -----------------------------
(***************************************************************************)
(* The module as the host, AMX Mod X, runs it: the library is loaded, the  *)
(* host asks its version, hands it host functions by name, and attaches    *)
(* it; then maps come and go, plugins are loaded, call natives, and are    *)
(* unloaded; at the end the module is detached.  The order in which the    *)
(* host makes these calls is the host's, external to this code; what each  *)
(* call does is amxxmodule.cpp with the hooks of amxxapi.cpp.              *)
(***************************************************************************)
EXTENDS KeyIteration

CONSTANT HostVersions      \* interface versions a host may offer

ASSUME ModuleAssumption == HostVersions \subseteq Nat

VARIABLES
    phase,         \* where the module stands with the host
    offered,       \* the functions this host has
    bound,         \* the pointers that are not null
    nativesAdded   \* the host lists the module's natives

hostVars == <<phase, offered, bound, nativesAdded>>
moduleVars == <<iterSpecVars, hostVars>>

Phases == {"Down", "Loaded", "Queried", "Refused", "Attached", "Plugins", "Unloading"}

AMXX_INTERFACE_VERSION == 4

\* Mutant: the option is set.
ReloadsOnMapChange == TRUE

\* g_ModuleInfo.reload: MODULE_RELOAD_ON_MAPCHANGE is not defined.
ReloadOnMapChange == FALSE

\* What AMXX_Attach asks for, in its order; "MessageBlock" stands for those
\* that no code of the module calls.
Requested == <<"Log", "LogError", "SetAmxString", "GetAmxString", "GetAmxAddr",
    "AddNatives", "RegisterSPForwardByName", "UnregisterSPForward",
    "ExecuteForward", "MessageBlock", "CellToReal", "RealToCell">>

HostFunctions == {Requested[i] : i \in DOMAIN Requested}

\* What the hooks and the natives call through a pointer.
CalledByHooks == {"AddNatives", "Log"}
CalledByNatives ==
    {"GetAmxString", "SetAmxString", "GetAmxAddr", "LogError", "CellToReal",
     "RealToCell", "RegisterSPForwardByName", "UnregisterSPForward", "ExecuteForward"}

ModuleInit ==
    /\ IterationInit
    /\ phase = "Down"
    /\ offered = HostFunctions
    /\ bound = {}
    /\ nativesAdded = FALSE

-----------------------------------------------------------------------------
(* Coming up.                                                              *)

Load ==
    /\ phase = "Down"
    /\ Construct
    /\ phase' = "Loaded"
    /\ \E missing \in SUBSET HostFunctions :
          Cardinality(missing) <= 1 /\ offered' = HostFunctions \ missing
    /\ bound' = {}
    /\ nativesAdded' = FALSE
    /\ answer' = NoAnswer
    /\ UNCHANGED iterVars

\* Another version than its own is answered with AMXX_IFVERS.
AMXX_Query(version) ==
    /\ phase = "Loaded"
    /\ phase' = IF version = AMXX_INTERFACE_VERSION THEN "Queried" ELSE "Refused"
    /\ UNCHANGED <<iterSpecVars, offered, bound, nativesAdded>>

\* There is no FN_AMXX_CHECKGAME: every game will do.
AMXX_CheckGame == "AMXX_GAME_OK"

\* OnAmxxAttach
OnAmxxAttach == nativesAdded' = TRUE

\* Mutant: every function is optional.
AttachWithWhatThereIs ==
    /\ phase = "Queried" /\ AMXX_CheckGame = "AMXX_GAME_OK"
    /\ bound' = offered
    /\ OnAmxxAttach
    /\ phase' = "Attached"
    /\ UNCHANGED <<iterSpecVars, offered>>

\* The first function the host lacks ends it with AMXX_FUNC_NOT_PRESENT: the
\* pointers before it are set, the hook is not called.
AMXX_Attach ==
    /\ phase = "Queried" /\ AMXX_CheckGame = "AMXX_GAME_OK"
    /\ \/ /\ HostFunctions \subseteq offered
          /\ bound' = HostFunctions
          /\ OnAmxxAttach
          /\ phase' = "Attached"
       \/ \E i \in DOMAIN Requested :
             /\ Requested[i] \notin offered
             /\ \A j \in 1..(i - 1) : Requested[j] \in offered
             /\ bound' = {Requested[j] : j \in 1..(i - 1)}
             /\ phase' = "Refused"
             /\ UNCHANGED nativesAdded
    /\ UNCHANGED <<iterSpecVars, offered>>

\* The host unloads a library it refuses, or that refused it.
Unload ==
    /\ phase = "Refused"
    /\ phase' = "Down"
    /\ bound' = {}
    /\ UNCHANGED <<iterSpecVars, offered, nativesAdded>>

-----------------------------------------------------------------------------
(* Maps.  The host calls these from outside of every native.               *)

Outside == frames = <<>>

\* A hook returns nothing to a plugin.
Hook(method) == method /\ answer' = NoAnswer

\* OnPluginsLoaded is empty.
AMXX_PluginsLoaded ==
    /\ phase = "Attached"
    /\ phase' = "Plugins"
    /\ UNCHANGED <<iterSpecVars, offered, bound, nativesAdded>>

\* There is no FN_AMXX_PLUGINSUNLOADING.
AMXX_PluginsUnloading ==
    /\ phase = "Plugins" /\ Outside
    /\ phase' = "Unloading"
    /\ UNCHANGED <<iterSpecVars, offered, bound, nativesAdded>>

\* OnPluginsUnloaded
AMXX_PluginsUnloaded ==
    /\ phase = "Unloading"
    /\ Hook(SweepBoth)
    /\ phase' = "Attached"
    /\ UNCHANGED <<iterVars, offered, bound, nativesAdded>>

\* OnAmxxDetach, when the server stops or the module asks to be loaded again
\* for each map; then the library goes.
AMXX_Detach ==
    /\ phase = "Attached"
    /\ Hook(ClearBoth)
    /\ phase' \in {"Down"} \cup (IF ReloadOnMapChange THEN {"Loaded"} ELSE {})
    /\ nativesAdded' = FALSE
    /\ bound' = {}
    /\ UNCHANGED <<iterVars, offered>>

\* What runs while the plugins are there: natives, their callbacks, the clock.
PluginsRun ==
    /\ phase = "Plugins" /\ nativesAdded
    /\ \/ NativeCall /\ Watched
       \/ Wait /\ UNCHANGED answer /\ Watched
       \/ IterationCall
    /\ UNCHANGED hostVars

\* The server dies of a broken heap, in the middle of anything.
ServerDies ==
    /\ Abort
    /\ phase' = "Down"
    /\ bound' = {}
    /\ nativesAdded' = FALSE
    /\ frames' = <<>> /\ forwards' = {} /\ watch' = <<>>
    /\ answer' = NoAnswer
    /\ UNCHANGED offered

ModuleNext ==
    \/ Load
    \/ \E version \in HostVersions : AMXX_Query(version)
    \/ AMXX_Attach
    \/ Unload
    \/ AMXX_PluginsLoaded
    \/ AMXX_PluginsUnloading
    \/ AMXX_PluginsUnloaded
    \/ AMXX_Detach
    \/ PluginsRun
    \/ ServerDies

ModuleSpec == ModuleInit /\ [][ModuleNext]_moduleVars

-----------------------------------------------------------------------------

\* No native and no hook calls through a null pointer: whatever function the
\* host lacks, by the time the natives are in the host's table every function
\* they call is bound.
NoNullCalls == nativesAdded => CalledByHooks \cup CalledByNatives \subseteq bound

\* While the module is not attached it holds no data: what a server stopped
\* with is not there when the library is loaded again in the same process.
DetachedIsEmpty ==
    phase \in {"Down", "Loaded", "Queried", "Refused"} =>
        /\ namespaces = {} /\ boards = {}
        /\ used = 0 /\ sequence = 0

\* What a map change does not end.
Stays(e) == e.policy \in {"Persistent", "TTL"}

\* From the end of one map to the start of the next, no step takes away or
\* changes a live key or score that is persistent or has seconds left.
MapChangeKeeps ==
    [][/\ phase \in {"Attached", "Plugins", "Unloading"}
       /\ phase' \notin {phase, "Down"}
       => \A ns \in NS, k \in Key :
              /\ Live(ns, k) /\ Stays(entries[ns][k]) => Same(ns, k)
              /\ RankLive(ns, k) /\ Stays(ranks[ns][k]) => RankSame(ns, k)]_moduleVars
=============================================================================
