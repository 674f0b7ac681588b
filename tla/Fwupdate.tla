------------------------------- MODULE Fwupdate -------------------------------
(***************************************************************************)
(* One machine that runs fwupd's EFI binary boot after boot: efi_main, the *)
(* enumeration of the update state variables, the loading of the capsules, *)
(* the marking of the variables and the hand-over to the firmware, with a  *)
(* failure possible at every call and a loss of power between any two.     *)
(* Between runs the operating system writes the state variables.           *)
(***************************************************************************)
EXTENDS Integers, Sequences, FiniteSets, Functions

CONSTANTS
    NumVars,      \* NVRAM holds at most NumVars variables; the firmware
                  \* enumerates them in the order of their numbers
    Skipped,      \* variables of other vendors, and the two debug settings,
                  \* which are always there
    Huge,         \* variables whose name does not fit GNVN_BUF_SIZE
    Broken,       \* updates whose capsule can never be loaded
    MaxUpdates,   \* FWUP_NUM_CAPSULE_UPDATES_MAX
    Writable,     \* what the operating system may store in a state variable
    MaxWrites,    \* bound on the writes of the operating system
    WarningMayFault, \* whether a read of the address that the warning about a
                  \* failing capsule takes for its guid's may fault
    MaxFailures   \* bound on the failing calls and the losses of power

Names   == 1..NumVars
Updates == Names \ Skipped

\* What a state variable holds: nothing; an update info whose status has
\* FWUPDATE_ATTEMPT_UPDATE; one whose status has not; data that
\* fwup_populate_update_info rejects.
Contents == {"absent", "armed", "attempted", "malformed"}

ASSUME NumVarsAssumption   == NumVars \in Nat
ASSUME NamesAssumption     == Skipped \subseteq Names /\ Huge \cup Broken \subseteq Updates
ASSUME MaxUpdatesAssumption == MaxUpdates \in Nat \ {0}
ASSUME WritableAssumption  == Writable \subseteq Contents \ {"attempted"}
ASSUME BoundsAssumption    == MaxWrites \in Nat /\ MaxFailures \in Nat
ASSUME WarningAssumption   == WarningMayFault \in BOOLEAN

VARIABLES
    nvram,          \* contents of the state variables
    sent,           \* UpdateCapsule calls that carried each update since the
                    \* operating system last wrote its variable
    pc,             \* where the program is; "idle" when it is not running
    got,            \* status of the last GetNextVariableName
    variable_name,  \* the enumeration's cursor, 0 for the empty name
    updates,        \* the table of the updates to apply
    i,              \* index of the loop that is running, from 1
    capsules,       \* capsules[1..j], by the update they come from
    cbd_data,       \* block descriptors: an update, Terminator or Garbage
    reset_type,
    rc,             \* efi_main's status once the capsules were applied
    writes,         \* writes of the operating system so far
    failures        \* failing calls and losses of power so far

locals == <<pc, got, variable_name, updates, i, capsules, cbd_data,
            reset_type, rc>>
vars == <<nvram, sent, locals, writes, failures>>

Terminator == 0     \* Length = 0, ContinuationPointer = 0
Garbage    == -1    \* memory fwup_malloc_raw returned and nobody wrote

ResetTypes == {"EfiResetCold", "EfiResetWarm"}

------------------------------------------------------------------------------

\* The values of efi_main's variables when it is not running.
Cleared ==
    /\ pc = "idle" /\ got = "none"
    /\ variable_name = 0
    /\ updates = <<>> /\ i = 1
    /\ capsules = <<>> /\ cbd_data = <<>>
    /\ reset_type = "EfiResetWarm" /\ rc = "success"

Init ==
    /\ nvram \in [Names -> Contents]
    /\ \A n \in Names : IF n \in Skipped THEN nvram[n] = "absent"
                                         ELSE nvram[n] \in Writable \cup {"absent"}
    /\ sent = [n \in Names |-> 0]
    /\ Cleared
    /\ writes = 0 /\ failures = 0

\* The program's memory is gone: it returned, or the machine was reset.
Return ==
    /\ pc' = "idle" /\ got' = "none"
    /\ variable_name' = 0
    /\ updates' = <<>> /\ i' = 1
    /\ capsules' = <<>> /\ cbd_data' = <<>>
    /\ reset_type' = "EfiResetWarm" /\ rc' = "success"

\* A call fails that might have succeeded.
Fails == failures < MaxFailures /\ failures' = failures + 1

------------------------------------------------------------------------------
(* Step 1: fwup_populate_update_table *)

EfiMain ==
    /\ pc = "idle"
    /\ \/ /\ pc' = "next"
          /\ UNCHANGED failures
       \/ /\ Fails                       \* no memory for updates[] or the name
          /\ UNCHANGED pc
    /\ UNCHANGED <<nvram, sent, got, variable_name, updates, i, capsules,
                   cbd_data, reset_type, rc, writes>>

Stored(n) == n \in Skipped \/ nvram[n] # "absent"

\* The variables after the cursor, in the order of the enumeration.
Remaining == {n \in Names : n > variable_name /\ Stored(n)}

\* The firmware's GetNextVariableName: the name of the first variable after
\* the cursor, unless that name does not fit the buffer.
GetNextVariableName ==
    /\ pc = "next"
    /\ pc' = "seen"
    /\ \/ /\ Remaining = {}
          /\ got' = "not_found"
          /\ UNCHANGED <<variable_name, failures>>
       \/ /\ \E n \in Remaining :
               /\ \A m \in Remaining : n <= m
               /\ IF n \in Huge
                    THEN got' = "too_small" /\ UNCHANGED variable_name
                    ELSE got' = "success" /\ variable_name' = n
          /\ UNCHANGED failures
       \/ /\ Fails
          /\ got' = "error"
          /\ UNCHANGED variable_name
    /\ UNCHANGED <<nvram, sent, updates, i, capsules, cbd_data, reset_type,
                   rc, writes>>

\* The loop of fwup_populate_update_table goes round again.
Continue ==
    /\ pc' = "next" /\ got' = "none"
    /\ UNCHANGED <<nvram, sent, variable_name, i, capsules, cbd_data,
                   reset_type, rc, writes>>

\* Mutant of TooSmall: a huge name ends the enumeration.
TooSmallBreaks ==
    /\ pc = "seen" /\ got = "too_small"
    /\ got' = "not_found"
    /\ UNCHANGED <<nvram, sent, pc, variable_name, updates, i, capsules,
                   cbd_data, reset_type, rc, writes, failures>>

TooSmall ==
    /\ pc = "seen" /\ got = "too_small"
    /\ Continue
    /\ UNCHANGED <<updates, failures>>

GetNextFails ==
    /\ pc = "seen" /\ got = "error"
    /\ Return
    /\ UNCHANGED <<nvram, sent, writes, failures>>

\* Mutant of SkipVariable: break instead of continue.
SkipVariableBreaks ==
    /\ pc = "seen" /\ got = "success"
    /\ variable_name \in Skipped
    /\ got' = "not_found"
    /\ UNCHANGED <<nvram, sent, pc, variable_name, updates, i, capsules,
                   cbd_data, reset_type, rc, writes, failures>>

SkipVariable ==
    /\ pc = "seen" /\ got = "success"
    /\ variable_name \in Skipped
    /\ Continue
    /\ UNCHANGED <<updates, failures>>

\* Mutant of TableFull: off by one.
TableOverfull == Len(updates) > MaxUpdates

TableFull == Len(updates) >= MaxUpdates

IgnoreUpdate ==
    /\ pc = "seen" /\ got = "success"
    /\ variable_name \notin Skipped
    /\ TableFull
    /\ Continue
    /\ UNCHANGED <<updates, failures>>

\* An update info is about to be allocated and read.
Populating ==
    /\ pc = "seen" /\ got = "success"
    /\ variable_name \notin Skipped
    /\ ~TableFull

PopulateArmed ==
    /\ Populating
    /\ nvram[variable_name] = "armed"
    /\ updates' = Append(updates, variable_name)
    /\ Continue
    /\ UNCHANGED failures

PopulateNotArmed ==
    /\ Populating
    /\ nvram[variable_name] = "attempted"
    /\ Continue
    /\ UNCHANGED <<updates, failures>>

PopulateOutOfMemory ==
    /\ Populating
    /\ Fails
    /\ Return
    /\ UNCHANGED <<nvram, sent, writes>>

\* Mutant of AttributesProbe: the attributes are found, so that the deletion
\* that follows every failure is carried out.
ProbeSucceeds(n) == "success"

\* fwup_delete_variable asks GetVariable for the attributes with a size of 0:
\* the firmware answers BUFFER_TOO_SMALL for every variable that holds data.
AttributesProbe(n) ==
    IF nvram[n] = "absent" THEN "not_found" ELSE "too_small"

DeleteVariable(n) ==
    nvram' = IF AttributesProbe(n) = "success"
               THEN [nvram EXCEPT ![n] = "absent"] ELSE nvram

\* Mutant of PopulateFails: once the variable is deleted, the enumeration is
\* started again instead of the run being ended.
PopulateFailsRestarts ==
    /\ Populating
    /\ \/ nvram[variable_name] = "malformed" /\ UNCHANGED failures
       \/ Fails
    /\ DeleteVariable(variable_name)
    /\ pc' = "next" /\ got' = "none" /\ variable_name' = 0 /\ updates' = <<>>
    /\ UNCHANGED <<sent, i, capsules, cbd_data, reset_type, rc, writes>>

\* The data is rejected, or reading it or copying it fails.
PopulateFails ==
    /\ Populating
    /\ \/ nvram[variable_name] = "malformed" /\ UNCHANGED failures
       \/ Fails
    /\ DeleteVariable(variable_name)
    /\ Return
    /\ UNCHANGED <<sent, writes>>

\* One descriptor for each update and one for the terminator.
NewDescriptors == [p \in 1..Len(updates) + 1 |-> Garbage]

EndOfVariables ==
    /\ pc = "seen" /\ got = "not_found"
    /\ \/ /\ updates = <<>>              \* "No updates to process"
          /\ Return
          /\ UNCHANGED failures
       \/ /\ updates # <<>>
          /\ Fails                       \* no memory for the descriptors
          /\ Return
       \/ /\ updates # <<>>
          /\ pc' = "build"
          /\ cbd_data' = NewDescriptors
          /\ UNCHANGED <<got, variable_name, updates, i, capsules,
                         reset_type, rc, failures>>
    /\ UNCHANGED <<nvram, sent, writes>>

------------------------------------------------------------------------------
(* Step 2: the capsules and their block descriptors *)

AddCapsule ==
    /\ pc = "build" /\ i <= Len(updates)
    /\ updates[i] \notin Broken
    /\ capsules' = Append(capsules, updates[i])
    /\ cbd_data' = [cbd_data EXCEPT ![Len(capsules) + 1] = updates[i]]
    /\ i' = i + 1
    /\ UNCHANGED <<nvram, sent, pc, got, variable_name, updates, reset_type,
                   rc, writes, failures>>

\* A failing capsule is ignored.
AddCapsuleFails ==
    /\ pc = "build" /\ i <= Len(updates)
    /\ \/ updates[i] \in Broken /\ UNCHANGED failures
       \/ Fails
    /\ i' = i + 1
    /\ UNCHANGED <<nvram, sent, pc, got, variable_name, updates, capsules,
                   cbd_data, reset_type, rc, writes>>

\* The warning about the failing capsule is given a guid where its %g expects
\* the address of one: on x86-64 the status is read as that address, on other
\* machines the first bytes of the guid.  Nothing, or the end of the run.
AddCapsuleFaults ==
    /\ pc = "build" /\ i <= Len(updates)
    /\ \/ updates[i] \in Broken /\ UNCHANGED failures
       \/ Fails
    /\ WarningMayFault
    /\ Return
    /\ UNCHANGED <<nvram, sent, writes>>

\* Mutant of SetTerminator: after the updates, not after the capsules.
TerminatorAtEnd(cbd, n) == [cbd EXCEPT ![Len(updates) + 1] = Terminator]

SetTerminator(cbd, n) == [cbd EXCEPT ![n + 1] = Terminator]

\* Mutant of EndOfBuild: all of the capsules or none.
EndOfBuildAll ==
    /\ pc = "build" /\ i > Len(updates)
    /\ IF Len(capsules) < Len(updates)
         THEN Return
         ELSE /\ cbd_data' = SetTerminator(cbd_data, Len(capsules))
              /\ pc' = "mark" /\ i' = 1
              /\ UNCHANGED <<got, variable_name, updates, capsules, reset_type, rc>>
    /\ UNCHANGED <<nvram, sent, writes, failures>>

EndOfBuild ==
    /\ pc = "build" /\ i > Len(updates)
    /\ \/ /\ capsules = <<>>             \* "Could not build update list"
          /\ Return
       \/ /\ capsules # <<>>
          /\ cbd_data' = SetTerminator(cbd_data, Len(capsules))
          /\ pc' = "mark" /\ i' = 1
          /\ UNCHANGED <<got, variable_name, updates, capsules, reset_type, rc>>
    /\ UNCHANGED <<nvram, sent, writes, failures>>

------------------------------------------------------------------------------
(* Step 3: fwup_set_update_statuses *)

\* Mutant of SetStatus: a failing SetVariable is ignored.
SetStatusGoesOn ==
    /\ pc = "mark" /\ i <= Len(updates)
    /\ \/ nvram' = [nvram EXCEPT ![updates[i]] = "attempted"] /\ UNCHANGED failures
       \/ Fails /\ UNCHANGED nvram
    /\ i' = i + 1
    /\ UNCHANGED <<sent, pc, got, variable_name, updates, capsules, cbd_data,
                   reset_type, rc, writes>>

SetStatus ==
    /\ pc = "mark" /\ i <= Len(updates)
    /\ \/ /\ nvram' = [nvram EXCEPT ![updates[i]] = "attempted"]
          /\ i' = i + 1
          /\ UNCHANGED <<pc, got, variable_name, updates, capsules, cbd_data,
                         reset_type, rc, failures>>
       \/ /\ Fails
          /\ Return
          /\ UNCHANGED nvram
    /\ UNCHANGED <<sent, writes>>

\* Mutant of EndOfStatuses: as many variables as capsules are marked.
StatusesOfCapsules ==
    /\ pc = "mark" /\ i > Len(capsules)
    /\ pc' = "query"
    /\ UNCHANGED <<nvram, sent, got, variable_name, updates, i, capsules,
                   cbd_data, reset_type, rc, writes, failures>>

EndOfStatuses ==
    /\ pc = "mark" /\ i > Len(updates)
    /\ pc' = "query"
    /\ UNCHANGED <<nvram, sent, got, variable_name, updates, i, capsules,
                   cbd_data, reset_type, rc, writes, failures>>

------------------------------------------------------------------------------
(* Steps 4 and 5: fwup_apply_capsules and the reset *)

QueryCapsuleCapabilities ==
    /\ pc = "query"
    /\ \/ /\ \E t \in ResetTypes : reset_type' = t
          /\ UNCHANGED failures
       \/ /\ Fails
          /\ reset_type' = "EfiResetWarm"
    /\ pc' = "update"
    /\ UNCHANGED <<nvram, sent, got, variable_name, updates, i, capsules,
                   cbd_data, rc, writes>>

Copies(n) == Cardinality({p \in 1..Len(capsules) : capsules[p] = n})

\* Mutant of UpdateCapsule: an error is answered by another try.
UpdateCapsuleRetries ==
    /\ pc = "update"
    /\ sent' = [n \in Names |-> sent[n] + Copies(n)]
    /\ \/ pc' = "reset" /\ UNCHANGED failures
       \/ pc' = "query" /\ Fails
    /\ UNCHANGED <<nvram, got, variable_name, updates, i, capsules, cbd_data,
                   reset_type, rc, writes>>

\* The firmware accepts the capsules, or resets the machine with them at
\* once, or reports an error, which does not tell how far it went.
UpdateCapsule ==
    /\ pc = "update"
    /\ sent' = [n \in Names |-> sent[n] + Copies(n)]
    /\ \/ /\ pc' = "reset"
          /\ UNCHANGED <<got, variable_name, updates, i, capsules, cbd_data,
                         reset_type, rc, failures>>
       \/ /\ Return
          /\ UNCHANGED failures
       \/ /\ Fails
          /\ pc' = "reset" /\ rc' = "error"
          /\ UNCHANGED <<got, variable_name, updates, i, capsules, cbd_data,
                         reset_type>>
    /\ UNCHANGED <<nvram, writes>>

ResetSystem ==
    /\ pc = "reset"
    /\ Return
    /\ UNCHANGED <<nvram, sent, writes, failures>>

------------------------------------------------------------------------------
(* The environment *)

\* Power is lost, or the machine is reset, while the program runs.
Crash ==
    /\ pc # "idle"
    /\ Fails
    /\ Return
    /\ UNCHANGED <<nvram, sent, writes>>

\* The operating system (fwupd's UEFI plugin) stores, replaces or removes a
\* state variable; the updater does not run then.
WriteVariable(n) ==
    /\ pc = "idle"
    /\ writes < MaxWrites
    /\ writes' = writes + 1
    /\ \E c \in Writable : nvram' = [nvram EXCEPT ![n] = c]
    /\ sent' = [sent EXCEPT ![n] = 0]
    /\ UNCHANGED <<locals, failures>>

PopulateTable ==
    \/ GetNextVariableName
    \/ TooSmall
    \/ GetNextFails
    \/ SkipVariable
    \/ IgnoreUpdate
    \/ PopulateArmed
    \/ PopulateNotArmed
    \/ PopulateOutOfMemory
    \/ PopulateFails
    \/ EndOfVariables

Apply ==
    \/ AddCapsule
    \/ AddCapsuleFails
    \/ AddCapsuleFaults
    \/ EndOfBuild
    \/ SetStatus
    \/ EndOfStatuses
    \/ QueryCapsuleCapabilities
    \/ UpdateCapsule
    \/ ResetSystem

\* A step of the program while it runs.
Program == PopulateTable \/ Apply

Next ==
    \/ EfiMain
    \/ Program
    \/ Crash
    \/ \E n \in Updates : WriteVariable(n)

Spec == Init /\ [][Next]_vars

\* The firmware lets the program it started run.  Nothing starts it: that is
\* the operating system's, by BootNext, for one boot.
FairSpec == Spec /\ WF_vars(Program)

------------------------------------------------------------------------------
(* Properties *)

PCs == {"idle", "next", "seen", "build", "mark", "query", "update", "reset"}

\* Every variable keeps its type; once cbd_data is allocated it has one place
\* more than the table has updates, as efi_main asks of fwup_malloc_raw.
TypeOK ==
    /\ nvram \in [Names -> Contents]
    /\ sent \in [Names -> Nat]
    /\ pc \in PCs
    /\ got \in {"none", "success", "too_small", "not_found", "error"}
    /\ variable_name \in 0..NumVars
    /\ updates \in Seq(Updates)
    /\ i \in Nat \ {0}
    /\ capsules \in Seq(Updates)
    /\ cbd_data \in Seq(Updates \cup {Terminator, Garbage})
    /\ Len(cbd_data) = IF pc \in {"idle", "next", "seen"}
                         THEN 0 ELSE Len(updates) + 1
    /\ reset_type \in ResetTypes
    /\ rc \in {"success", "error"}
    /\ writes \in 0..MaxWrites
    /\ failures \in 0..MaxFailures

\* However runs are cut short and repeated, the firmware is handed the capsule
\* of a request at most once: efi_main spends the variables (step 3) before it
\* applies the capsules (step 4), and spends every one of them.
AtMostOnce == \A n \in Names : sent[n] <= 1

\* The firmware never sees a capsule whose variable is still armed, so no
\* crash in or after UpdateCapsule can repeat the update.
SpentBeforeSent ==
    pc \in {"query", "update", "reset"} =>
        \A n \in Range(updates) : nvram[n] = "attempted"

\* What UpdateCapsule is given is consistent: descriptor p describes capsule
\* p, the terminator follows the last one, and the firmware, which stops at
\* the terminator, never reads a descriptor nobody wrote.  Capsules that were
\* ignored leave no hole (continue at the failing capsule, j, the terminator).
DescriptorsMatch ==
    pc \in {"mark", "query", "update", "reset"} =>
        /\ capsules # <<>>
        /\ Len(capsules) + 1 \in 1..Len(cbd_data)
        /\ \A p \in 1..Len(capsules) : cbd_data[p] = capsules[p]
        /\ cbd_data[Len(capsules) + 1] = Terminator

\* updates[], capsules[] and cbd_data[] are only written inside the memory
\* that was allocated for them.
InBounds ==
    /\ Len(updates) <= MaxUpdates
    /\ Len(capsules) <= Len(updates)
    /\ pc = "build" => Len(capsules) < i

\* The program changes a request in one way only: from armed to attempted,
\* once some capsule is ready.  No error path (fwup_delete_variable after a
\* failing read or allocation among them), and no run that finds nothing it
\* can load, destroys a request or the trace of one.
OnlySpends ==
    [][pc # "idle" =>
         \A n \in Names : nvram'[n] # nvram[n] =>
            \/ nvram[n] = "armed" /\ nvram'[n] = "attempted" /\ capsules # <<>>
            \/ nvram[n] = "malformed" /\ nvram'[n] = "absent"]_vars

\* While the firmware stores a name that does not fit the buffer, the program
\* never gets as far as acting on a request: it neither spends nor delivers.
HugeNameHoldsAll ==
    (\E n \in Huge : nvram[n] # "absent") => pc \notin {"build", "mark", "query", "update", "reset"}

\* updates[] is full of updates the firmware enumerates before n.
FullBefore(n) ==
    /\ Len(updates) = MaxUpdates
    /\ \A p \in 1..Len(updates) : updates[p] < n

\* A run that gets past the enumeration has taken up every armed request, but
\* for those it met when updates[] was full of requests the firmware enumerates
\* before them (fwup_populate_update_table): such a request waits behind
\* others, it is not lost.
NoneOverlooked ==
    pc \in {"build", "mark", "query", "update", "reset"} =>
        \A n \in Updates :
            nvram[n] = "armed" /\ n \notin Range(updates) => FullBefore(n)

\* A run of the program ends.
RunEnds == pc # "idle" ~> pc = "idle"

\* What may keep a run from spending anything, boot after boot: the warning
\* about a capsule that cannot be loaded ends it, or rejected data does.
RunCutShort == AddCapsuleFaults \/ PopulateFails

\* A request whose capsule can be loaded does not stay armed for ever, though
\* calls fail and power is lost a number of times, if
\*   - the updater is started again and again,
\*   - no rejected variable and no faulting warning (fwupdate.c:631) ends the
\*     run each time, which nothing in the code prevents, and
\*   - the capsules that can never be loaded do not fill the table.
\* A broken capsule beside it does no harm otherwise.
ArmedIsSpent ==
    \A n \in Updates \ Broken :
        /\ Cardinality(Broken) < MaxUpdates
        /\ []<><<EfiMain>>_vars
        => []<><<RunCutShort>>_vars \/ (nvram[n] = "armed" ~> nvram[n] # "armed")

\* Each update seen as a stage of its life.
Stage(n) ==
    CASE nvram[n] \in {"absent", "malformed"} -> "none"
      [] nvram[n] = "armed" ->
           IF sent[n] = 0 THEN "armed" ELSE "broken"
      [] nvram[n] = "attempted" ->
           IF sent[n] = 1 THEN "sent"
           ELSE IF sent[n] > 1 THEN "broken"
           ELSE IF n \in Range(capsules) THEN "staged" ELSE "lost"

Lifecycle == INSTANCE UpdateLifecycle WITH life <- [n \in Names |-> Stage(n)]

\* The program implements the life cycle: requests are spent one by one, what
\* is staged is delivered by one call in the run that spent it or never.
ImplementsLifecycle == Lifecycle!Spec

(* What the source says of itself, which the code does not do *)

\* fwupdate.c:146 "ignore any huge names": the enumeration goes past a name
\* that does not fit the buffer.
HugeNamesIgnored ==
    got = "too_small" ~> pc = "idle" \/ got \in {"success", "not_found"}

\* fwupdate.c:174 deletes the variable whose update info it cannot use;
\* fwup-efi.c:22 "get the attrs so we can delete it".
MalformedIsDeleted ==
    [][pc = "seen" /\ pc' = "idle" /\ failures' = failures /\ got = "success"
         => nvram'[variable_name] = "absent"]_vars

\* fwupdate.c:629 "ignore a failing capsule": nothing but a list of updates
\* without any capsule ends the run in step 2.
FailingCapsuleIgnored ==
    [][pc = "build" /\ pc' = "idle" /\ failures' = failures
         => i > Len(updates) /\ capsules = <<>>]_vars
==============================================================================
