----------------------------- MODULE VerboseBoot -----------------------------
(***************************************************************************)
(* The enumeration of the state variables in a verbose run.  Every message *)
(* writes FWUPDATE_DEBUG_LOG, one of the variables that are enumerated, so *)
(* the list changes between two calls of GetNextVariableName.  The firm-   *)
(* ware finds the variable the program names and goes on behind it; one    *)
(* that SetVariable writes may get another place in the list.              *)
(***************************************************************************)
EXTENDS DebugLog

CONSTANT NumUpdates   \* state variables of updates

ASSUME NumUpdatesAssumption == NumUpdates \in Nat

Updates == 1..NumUpdates
Debug_Log == NumUpdates + 1    \* the name of FWUPDATE_DEBUG_LOG; 0 is the empty name

\* The updates stay where they are, the log is before, between or behind them.
LogPlaces == {2 * u + 1 : u \in 0..NumUpdates}

VARIABLES
    log_place,      \* where the log is in the list, 0 if it does not exist
    step,           \* "version", "next", "seen" or "end"
    variable_name,  \* the cursor
    visited         \* the updates found or ignored (auxiliary)

enumeration == <<step, variable_name, visited>>
allVars == <<vars, log_place, enumeration>>

VerboseInit ==
    /\ Init
    /\ log_place = 0
    /\ step = "version" /\ variable_name = 0 /\ visited = <<>>

Booted ==
    /\ Boot
    /\ step' = "version" /\ variable_name' = 0 /\ visited' = <<>>
    /\ UNCHANGED log_place

\* The version is logged before the enumeration starts.
LogVersion ==
    /\ step = "version" /\ Log
    /\ step' = "next"
    /\ UNCHANGED <<variable_name, visited, log_place>>

\* What the firmware enumerates, and in which order.
Listed == Updates \cup (IF log_place = 0 THEN {} ELSE {Debug_Log})
Place(n) == IF n = Debug_Log THEN log_place ELSE 2 * n

\* It looks for the variable with the given name and goes on behind it.
Behind == {n \in Listed : variable_name = 0 \/ Place(n) > Place(variable_name)}

GetNextVariableName ==
    /\ pc = "run" /\ stack = <<>> /\ step = "next"
    /\ \/ Behind = {} /\ step' = "end" /\ UNCHANGED variable_name
       \/ /\ variable_name' \in {n \in Behind : \A m \in Behind : Place(n) <= Place(m)}
          /\ step' = "seen"
    /\ UNCHANGED <<vars, log_place, visited>>

\* "Found update" or "Ignoring update" is logged.
FoundUpdate ==
    /\ step = "seen" /\ variable_name \in Updates
    /\ Log
    /\ visited' = Append(visited, variable_name)
    /\ step' = "next"
    /\ UNCHANGED <<variable_name, log_place>>

\* Mutants of SkipSetting: it is logged that the setting is ignored; the
\* enumeration is started again, as the list may have changed.
SkipSettingLogged ==
    /\ step = "seen" /\ variable_name = Debug_Log
    /\ Log
    /\ step' = "next"
    /\ UNCHANGED <<variable_name, visited, log_place>>

SkipSettingRestarts ==
    /\ pc = "run" /\ step = "seen" /\ variable_name = Debug_Log
    /\ step' = "next" /\ variable_name' = 0
    /\ UNCHANGED <<vars, visited, log_place>>

SkipSetting ==
    /\ pc = "run" /\ step = "seen" /\ variable_name = Debug_Log
    /\ step' = "next"
    /\ UNCHANGED <<vars, variable_name, visited, log_place>>

Moves == log_place' \in LogPlaces

LogWritten == SetLog /\ Moves /\ UNCHANGED enumeration

LogStep ==
    /\ DebugHook \/ LogEnds \/ PrintMessage \/ FirstMessage \/ LaterMessage \/ SetLogFails
    /\ UNCHANGED <<log_place, enumeration>>

\* The end of the enumeration, or of the run for want of memory.
Stops == (Return \/ Crash) /\ UNCHANGED <<log_place, enumeration>>

Enumerate == GetNextVariableName \/ FoundUpdate \/ SkipSetting

Program == LogVersion \/ Enumerate \/ LogWritten \/ LogStep

VerboseNext == Booted \/ Program \/ Stops

\* The program runs on as long as it has power.
VerboseSpec == VerboseInit /\ [][VerboseNext]_allVars /\ WF_allVars(Program)

------------------------------------------------------------------------------
(* Properties *)

\* The log is listed if and only if it exists; the cursor names what is listed.
VerboseTypeOK ==
    /\ log_place \in LogPlaces \cup {0}
    /\ log_place = 0 <=> log = <<>>
    /\ step \in {"version", "next", "seen", "end"}
    /\ variable_name \in {0} \cup Listed
    /\ visited \in Seq(Updates)

VisitedInOrder == \A p \in DOMAIN visited : visited[p] = p
VisitedAll == pc = "run" /\ step = "end" => Len(visited) = NumUpdates

\* However the log moves, no update is found twice and none is passed over:
\* the loop says nothing while the cursor is the log (fwupdate.c:158).
EveryUpdateOnce == VisitedInOrder /\ VisitedAll

\* The log that runs ahead of the cursor does not keep the enumeration going.
EnumerationEnds == pc = "run" ~> step = "end" \/ pc = "boot"
==============================================================================
