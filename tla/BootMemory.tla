------------------------------ MODULE BootMemory ------------------------------
(***************************************************************************)
(* Who owns what one boot allocates: pool memory, raw pages, file handles. *)
(* Most of it belongs to a variable with a cleanup attribute, which frees  *)
(* it when the variable goes out of scope unless _steal_pointer took it    *)
(* over; the rest is never freed.  Every call may fail.                    *)
(***************************************************************************)
EXTENDS Naturals, Sequences, Functions

CONSTANTS
    NumVars,     \* state variables that are enumerated
    MaxUpdates   \* FWUP_NUM_CAPSULE_UPDATES_MAX

ASSUME SizesAssumption == NumVars \in Nat /\ MaxUpdates \in Nat \ {0}

Names == 1..NumVars

\* What is allocated once in a boot, and once for a variable or its capsule.
Once == {"updates", "variable_name", "capsules", "cbd_data"}
Each == {"update", "info", "name", "devices", "parent_dp", "filename",
         "strings", "root", "fh", "fbuf", "handles"}
Objects == (Once \X {0}) \cup (Each \X Names)

VARIABLES
    pc,
    heap,          \* objects allocated and not freed
    cleanup,       \* those a cleanup attribute of an open scope will free
    n,             \* variables enumerated; then updates[] entries visited
    updates,       \* the table, by the variables it was made from
    loaded,        \* updates whose capsule is in capsules[] and cbd_data[]
    null_written   \* what was written to though it is at NULL

vars == <<pc, heap, cleanup, n, updates, loaded, null_written>>

Init ==
    /\ pc = "start"
    /\ heap = {} /\ cleanup = {}
    /\ n = 0 /\ updates = <<>> /\ loaded = {}
    /\ null_written = {}

\* An object of this boot, and of the variable or update at hand.
Only(kind) == <<kind, 0>>
Of(kind, u) == <<kind, u>>

\* Allocated and owned by a cleanup attribute; allocated and not owned.
Own(S)  == heap' = heap \cup S /\ cleanup' = cleanup \cup S
Hold(S) == heap' = heap \cup S /\ UNCHANGED cleanup

\* The scope of what owns S is left.  An update whose population failed has no
\* info and no name: fwup_update_table_free then calls FreePool(NULL) for them
\* (fwupdate.c:39), which the firmware refuses and which changes nothing.
Leave(S) == heap' = heap \ (S \cap cleanup) /\ cleanup' = cleanup \ S

\* All scopes are left: efi_main returns, or a function it returns with.
Return ==
    /\ pc' = "returned"
    /\ heap' = heap \ cleanup /\ cleanup' = {}
    /\ UNCHANGED <<n, updates, loaded, null_written>>

Goto(next) == pc' = next /\ UNCHANGED <<n, updates, loaded, null_written>>

------------------------------------------------------------------------------
(* Step 1: fwup_populate_update_table and fwup_populate_update_info *)

NewUpdates ==
    /\ pc = "start"
    /\ \/ Own({Only("updates")}) /\ Goto("populate")
       \/ Return

NewVariableName ==
    /\ pc = "populate"
    /\ \/ Own({Only("variable_name")}) /\ Goto("next")
       \/ Return

Room == Len(updates) < MaxUpdates

\* The enumeration goes on, with a variable there is no place for or with one
\* that is read.
NextVariable ==
    /\ pc = "next" /\ n < NumVars
    /\ n' = n + 1
    /\ pc' = IF Room THEN "update" ELSE "next"
    /\ UNCHANGED <<heap, cleanup, updates, loaded, null_written>>

GetNextFails == pc = "next" /\ Return

NewUpdate ==
    /\ pc = "update"
    /\ \/ Own({Of("update", n)}) /\ Goto("info")
       \/ Return

\* fwup_get_variable, as Variables has it.
ReadInfo ==
    /\ pc = "info"
    /\ \/ Own({Of("info", n)}) /\ Goto("name")
       \/ Return

\* Mutant of TakeInfo: _steal_pointer does not clear info_ptr.
TakeInfoTwice ==
    /\ heap' = (heap \ {Of("info", n)}) \cup {Of("name", n)}
    /\ cleanup' = cleanup \cup {Of("name", n)}

\* info_ptr goes over to the update, which owns the copy of the name as well.
TakeInfo == Own({Of("name", n)})

\* The data is accepted and the name copied.
CopyName ==
    /\ pc = "name"
    /\ \/ TakeInfo /\ Goto("entry")
       \/ Return

\* fwup_update_table_free
Entry(u) == {Of("update", u), Of("info", u), Of("name", u)}

\* Mutant of StealUpdate: the entry is freed at the end of the loop's body.
KeepUpdate == Leave(Entry(n))

StealUpdate == cleanup' = cleanup \ Entry(n) /\ UNCHANGED heap

AddUpdate ==
    /\ pc = "entry"
    /\ updates' = Append(updates, n)
    /\ StealUpdate
    /\ pc' = "next"
    /\ UNCHANGED <<n, loaded, null_written>>

NotArmed ==
    /\ pc = "entry"
    /\ Leave(Entry(n))
    /\ Goto("next")

EndOfVariables ==
    /\ pc = "next" /\ n = NumVars
    /\ \/ updates = <<>> /\ Return
       \/ /\ updates # <<>>
          /\ Leave({Only("variable_name")})
          /\ Goto("capsules")

------------------------------------------------------------------------------
(* Step 2: the capsules *)

\* Nobody looks whether there was memory for capsules[].
NewCapsules ==
    /\ pc = "capsules"
    /\ \/ Own({Only("capsules")})
       \/ UNCHANGED <<heap, cleanup>>
    /\ Goto("cbd")

NewCbdData ==
    /\ pc = "cbd"
    /\ \/ /\ Hold({Only("cbd_data")})
          /\ pc' = "open" /\ n' = 1
          /\ UNCHANGED <<updates, loaded, null_written>>
       \/ Return

Update == updates[n]

\* What fwup_search_file and fwup_open_file free when they return.
Temporaries == {Of(kind, Update) : kind \in {"devices", "parent_dp", "filename"}}

\* fwup_add_update_capsule fails, and the loop goes on.
Ignore ==
    /\ pc' = "open" /\ n' = n + 1
    /\ Leave(Temporaries)
    /\ UNCHANGED <<updates, loaded, null_written>>

\* LocateDevicePath finds the device, or fwup_search_file looks for it.
Locate ==
    /\ pc = "open" /\ n <= Len(updates)
    /\ \/ Goto("filename") /\ UNCHANGED <<heap, cleanup>>
       \/ Goto("search") /\ Own({Of("devices", Update)})
       \/ Ignore

\* The text of the path is made for a message, printed or not.
Search ==
    /\ pc = "search"
    /\ \/ /\ heap' = heap \cup {Of("strings", Update), Of("parent_dp", Update)}
          /\ cleanup' = cleanup \cup {Of("parent_dp", Update)}
          /\ Goto("match")
       \/ /\ heap' = (heap \ (Temporaries \cap cleanup)) \cup {Of("strings", Update)}
          /\ cleanup' = cleanup \ Temporaries
          /\ pc' = "open" /\ n' = n + 1
          /\ UNCHANGED <<updates, loaded, null_written>>

Match ==
    /\ pc = "match"
    /\ \/ Leave(Temporaries) /\ Goto("filename")
       \/ Ignore

\* Mutant of OwnName: filename has no cleanup attribute.
HoldName == Hold({Of("filename", Update)})

OwnName == Own({Of("filename", Update)})

\* The node is no file path, or its name is copied, to NULL if there is no
\* memory.
NewFilename ==
    /\ pc = "filename"
    /\ \/ Ignore
       \/ OwnName /\ Goto("volume")
       \/ /\ null_written' = null_written \cup {"filename"}
          /\ pc' = "volume"
          /\ UNCHANGED <<heap, cleanup, n, updates, loaded>>

\* The handle of the volume is never closed.
OpenVolume ==
    /\ pc = "volume"
    /\ \/ Hold({Of("root", Update)}) /\ Goto("file")
       \/ Ignore

OpenFile ==
    /\ pc = "file"
    /\ \/ /\ heap' = (heap \ (Temporaries \cap cleanup)) \cup {Of("fh", Update)}
          /\ cleanup' = cleanup \ Temporaries
          /\ Goto("read")
       \/ Ignore

\* Mutant of ReadIn: the buffer is the property of the function.
OwnBuffer ==
    /\ heap' = (heap \ {Of("fh", Update)}) \cup {Of("fbuf", Update)}
    /\ cleanup' = cleanup \cup {Of("fbuf", Update)}

ReadIn ==
    /\ heap' = (heap \ {Of("fh", Update)}) \cup {Of("fbuf", Update)}
    /\ UNCHANGED cleanup

\* A file that cannot be read stays open, and a buffer that cannot grow stays
\* allocated.
ReadFile ==
    /\ pc = "read"
    /\ \/ ReadIn /\ Goto("check")
       \/ /\ Hold({}) \/ Hold({Of("fbuf", Update)})
          /\ pc' = "open" /\ n' = n + 1
          /\ UNCHANGED <<updates, loaded, null_written>>

\* The capsule is accepted, with the handles that LibLocateHandle returned for
\* the graphics, or rejected with its buffer allocated.
CheckCapsule ==
    /\ pc = "check"
    /\ \E handles \in SUBSET {Of("handles", Update)} : Hold(handles)
    /\ \/ /\ loaded' = loaded \cup {Update}
          /\ null_written' = IF Only("capsules") \in heap
                              THEN null_written ELSE null_written \cup {"capsules"}
       \/ UNCHANGED <<loaded, null_written>>
    /\ pc' = "open" /\ n' = n + 1
    /\ UNCHANGED updates

EndOfUpdates ==
    /\ pc = "open" /\ n > Len(updates)
    /\ \/ loaded = {} /\ Return
       \/ loaded # {} /\ Goto("mark") /\ UNCHANGED <<heap, cleanup>>

------------------------------------------------------------------------------
(* Steps 3 to 5 *)

SetStatuses ==
    /\ pc = "mark"
    /\ \/ Goto("apply") /\ UNCHANGED <<heap, cleanup>>
       \/ Return

\* UpdateCapsule, whatever it answers, and ResetSystem, should it come back.
ApplyCapsules ==
    /\ pc = "apply"
    /\ Goto("reset") /\ UNCHANGED <<heap, cleanup>>

ResetSystem == pc = "reset" /\ Return

Populate ==
    \/ NewUpdates \/ NewVariableName \/ NextVariable \/ GetNextFails \/ NewUpdate
    \/ ReadInfo \/ CopyName \/ AddUpdate \/ NotArmed \/ EndOfVariables

Build ==
    \/ NewCapsules \/ NewCbdData \/ Locate \/ Search \/ Match \/ NewFilename
    \/ OpenVolume \/ OpenFile \/ ReadFile \/ CheckCapsule \/ EndOfUpdates

Next == Populate \/ Build \/ SetStatuses \/ ApplyCapsules \/ ResetSystem

Spec == Init /\ [][Next]_vars

------------------------------------------------------------------------------
(* Properties *)

Places == {"start", "populate", "next", "update", "info", "name", "entry",
           "capsules", "cbd", "open", "search", "match", "filename", "volume",
           "file", "read", "check", "mark", "apply", "reset", "returned"}

TypeOK ==
    /\ pc \in Places
    /\ heap \subseteq Objects /\ cleanup \subseteq Objects
    /\ n \in Nat
    /\ updates \in Seq(Names) /\ Len(updates) <= MaxUpdates
    /\ loaded \subseteq Names
    /\ null_written \subseteq {"capsules", "filename"}

\* A cleanup attribute only frees what is allocated: nothing is freed twice,
\* though a buffer goes from fwup_get_variable to info_ptr to an update to the
\* table, and an error may come at each of these.
FreedOnce == cleanup \subseteq heap

\* The entries of the table, which steps 2 and 3 read, are complete and are
\* not freed by the loop that made them.
TableLive == \A u \in Range(updates) : Entry(u) \subseteq heap \ cleanup

\* What the firmware was given stays allocated until the reset, also when
\* efi_main returns: the capsules and, until then, the arrays.
HandedOverLive ==
    /\ \A u \in loaded : Of("fbuf", u) \in heap \ cleanup
    /\ pc \in {"mark", "apply", "reset"} => Only("cbd_data") \in heap
    /\ pc \in {"apply", "reset"} /\ "capsules" \notin null_written
           => Only("capsules") \in heap

\* What no cleanup attribute owns once there is an update: the table's entry,
\* and what is allocated for its capsule.
Leaked(u) ==
    {Of(kind, u) : kind \in {"strings", "root", "fh", "fbuf", "handles"}}
    \cup {Only("cbd_data")}

Unowned == UNION {Entry(u) \cup Leaked(u) : u \in Range(updates)}

\* That is all a return leaves behind, wherever it comes from; a boot that
\* finds nothing to do leaves nothing.
ReturnLeaves == pc = "returned" => heap \subseteq Unowned
==============================================================================
