------------------------------ MODULE Variables ------------------------------
(***************************************************************************)
(* One state variable from fwup_get_variable to the write of step 3, call  *)
(* by call: its size is asked for, a buffer is allocated, the data and its *)
(* attributes are read, the caller keeps or rejects them, and what it      *)
(* rejects goes to fwup_delete_variable.  Boots repeat; between them the   *)
(* operating system stores something else.                                 *)
(***************************************************************************)
EXTENDS Integers

CONSTANTS
    Attributes,   \* EFI_VARIABLE_NON_VOLATILE and the like
    MaxSize,      \* largest variable
    MaxWrites,    \* bound on the writes of the operating system
    MaxFailures   \* bound on the failing calls and the losses of power

Data == {"none", "armed", "attempted", "malformed"}

\* A variable or a copy of one.  Without attributes it does not exist; some
\* firmware keeps a variable without data.
Values == {v \in [size : 0..MaxSize, attrs : SUBSET Attributes, data : Data] :
             /\ v.attrs = {} => v.size = 0
             /\ v.size = 0 <=> v.data = "none"}

Absent == [size |-> 0, attrs |-> {}, data |-> "none"]

\* v with FWUPDATE_ATTEMPTED for its status.
Attempted(v) == [size |-> v.size, attrs |-> v.attrs, data |-> "attempted"]

ASSUME BoundsAssumption ==
    /\ MaxSize \in Nat \ {0} /\ Attributes # {}
    /\ MaxWrites \in Nat /\ MaxFailures \in Nat

VARIABLES
    stored,     \* the variable in NVRAM
    pc,
    size,       \* fwup_get_variable's size and attrs
    attrs,
    buf,        \* its buf: NULL, or a buffer of the pool
    info,       \* the caller's copy, Absent for none
    live,       \* pool buffers allocated and not freed (auxiliary)
    deleted,    \* what fwup_delete_variable returned
    writes, failures

locals == <<size, attrs, buf, info, live, deleted>>
vars == <<stored, pc, locals, writes, failures>>

Cleared ==
    /\ size = 0 /\ attrs = {} /\ buf = "NULL"
    /\ info = Absent /\ live = 0 /\ deleted = "none"

Init ==
    /\ stored \in Values
    /\ pc = "idle" /\ Cleared
    /\ writes = 0 /\ failures = 0

Fails == failures < MaxFailures /\ failures' = failures + 1

\* A boot in which the variable is enumerated.
Boot ==
    /\ pc = "idle"
    /\ pc' = "probe"
    /\ size' = 0 /\ attrs' = {} /\ buf' = "NULL"
    /\ info' = Absent /\ live' = 0 /\ deleted' = "none"
    /\ UNCHANGED <<stored, writes, failures>>

------------------------------------------------------------------------------
(* fwup_get_variable *)

\* GetVariable for a size of 0: the size that is needed, and perhaps the
\* attributes.  Firmware that finds no variable leaves both alone, and the
\* second call is made without a buffer.
AskSize ==
    /\ pc = "probe"
    /\ \/ stored = Absent /\ pc' = "read" /\ UNCHANGED <<size, attrs, failures>>
       \/ /\ stored.size > 0
          /\ size' = stored.size /\ attrs' \in {attrs, stored.attrs}
          /\ pc' = "malloc" /\ UNCHANGED failures
       \/ /\ stored # Absent /\ stored.size = 0   \* EFI_INVALID_PARAMETER
          /\ pc' = "delete" /\ UNCHANGED <<size, attrs, failures>>
       \/ Fails /\ pc' = "delete" /\ UNCHANGED <<size, attrs>>
    /\ UNCHANGED <<stored, buf, info, live, deleted, writes>>

Malloc ==
    /\ pc = "malloc"
    /\ \/ buf' = "pool" /\ live' = live + 1 /\ pc' = "read" /\ UNCHANGED failures
       \/ Fails /\ pc' = "delete" /\ UNCHANGED <<buf, live>>
    /\ UNCHANGED <<stored, size, attrs, info, deleted, writes>>

\* Mutant of AnsweredAttributes: the attributes of the first answer are kept.
FirstAttributes == attrs

AnsweredAttributes == stored.attrs

\* Mutant of FreeBuffer: buf has no cleanup attribute.
LeaveBuffer == buf' = "NULL" /\ UNCHANGED live

\* buf goes out of scope.
FreeBuffer == buf' = "NULL" /\ live' = IF buf = "pool" THEN live - 1 ELSE live

\* GetVariable into the buffer; the buffer becomes the caller's.
Read ==
    /\ pc = "read"
    /\ \/ /\ stored # Absent
          /\ attrs' = AnsweredAttributes
          /\ info' = [size |-> size, attrs |-> attrs', data |-> stored.data]
          /\ buf' = "NULL"
          /\ pc' = "check" /\ UNCHANGED <<live, failures>>
       \/ /\ \/ stored = Absent /\ UNCHANGED failures
             \/ Fails
          /\ FreeBuffer
          /\ pc' = "delete" /\ UNCHANGED <<attrs, info>>
    /\ UNCHANGED <<stored, size, deleted, writes>>

------------------------------------------------------------------------------
(* The callers: fwup_populate_update_info and fwup_populate_update_table *)

\* The caller's buffer is freed when it, or the update it became part of,
\* goes out of scope.
FreeInfo == info' = Absent /\ live' = live - 1

\* What is malformed, or has no copy of its name, is deleted; what is not
\* armed is dropped.
Check ==
    /\ pc = "check"
    /\ \/ /\ info.data = "armed"
          /\ info' = Attempted(info)
          /\ pc' = "mark" /\ UNCHANGED <<live, failures>>
       \/ info.data = "attempted" /\ FreeInfo /\ pc' = "idle" /\ UNCHANGED failures
       \/ info.data = "malformed" /\ FreeInfo /\ pc' = "delete" /\ UNCHANGED failures
       \/ info.data # "malformed" /\ Fails /\ FreeInfo /\ pc' = "delete"
    /\ UNCHANGED <<stored, size, attrs, buf, deleted, writes>>

\* The variable after the firmware's SetVariable: other attributes than those
\* it has are refused, no attributes and no data delete it.
AfterSet(v) ==
    IF v.attrs = {} \/ v.size = 0 THEN Absent
    ELSE IF stored.attrs \in {{}, v.attrs} THEN v ELSE stored

\* Mutant of Marking: the attributes are not kept until step 3.
MarkingPlain == [size |-> info.size, attrs |-> {}, data |-> info.data]

\* fwup_set_update_statuses gives back what fwup_get_variable returned.
Marking == info

\* Step 3, or an end of the run before it; the copy lives until the reset.
Mark ==
    /\ pc = "mark"
    /\ \/ stored' = AfterSet(Marking) /\ UNCHANGED failures
       \/ Fails /\ UNCHANGED stored
    /\ pc' = "idle"
    /\ UNCHANGED <<locals, writes>>

------------------------------------------------------------------------------
(* fwup_delete_variable *)

\* GetVariable for a size of 0 finds nothing, or fails because the variable
\* is longer; only one without data is deleted, with its attributes.
DeleteVariable ==
    /\ pc = "delete"
    /\ \/ /\ stored = Absent
          /\ deleted' = "success" /\ UNCHANGED <<stored, failures>>
       \/ /\ stored.size > 0
          /\ deleted' = "error" /\ UNCHANGED <<stored, failures>>
       \/ /\ stored # Absent /\ stored.size = 0
          /\ stored' = AfterSet(stored)
          /\ deleted' = "success" /\ UNCHANGED failures
       \/ /\ Fails                   \* GetVariable or SetVariable
          /\ deleted' = "error" /\ UNCHANGED stored
    /\ pc' = "idle"
    /\ UNCHANGED <<size, attrs, buf, info, live, writes>>

------------------------------------------------------------------------------

\* Power is lost.
Crash ==
    /\ pc # "idle"
    /\ Fails
    /\ pc' = "idle"
    /\ size' = 0 /\ attrs' = {} /\ buf' = "NULL"
    /\ info' = Absent /\ live' = 0 /\ deleted' = "none"
    /\ UNCHANGED <<stored, writes>>

WriteVariable ==
    /\ pc = "idle" /\ writes < MaxWrites
    /\ stored' \in Values
    /\ writes' = writes + 1
    /\ deleted' = "none"
    /\ UNCHANGED <<pc, size, attrs, buf, info, live, failures>>

Next == Boot \/ AskSize \/ Malloc \/ Read \/ Check \/ Mark \/ DeleteVariable
        \/ Crash \/ WriteVariable

Spec == Init /\ [][Next]_vars

------------------------------------------------------------------------------
(* Properties *)

TypeOK ==
    /\ stored \in Values
    /\ info \in [size : 0..MaxSize, attrs : SUBSET Attributes, data : Data]
    /\ pc \in {"idle", "probe", "malloc", "read", "check", "mark", "delete"}
    /\ size \in 0..MaxSize /\ attrs \in SUBSET Attributes /\ buf \in {"NULL", "pool"}
    /\ live \in Nat /\ deleted \in {"none", "success", "error"}
    /\ writes \in 0..MaxWrites /\ failures \in 0..MaxFailures

\* What the two calls of GetVariable bring together is the variable: the size
\* of the one, the data of the other, and the attributes of the one that is
\* sure to set them.  The copy that waits for step 3 differs in the status.
ReadsWhole ==
    /\ pc = "check" => info = stored
    /\ pc = "mark" => info = Attempted(stored)

\* Each pool buffer has one owner, fwup_get_variable or its caller: whatever
\* call fails, a buffer nobody can free is never left, nor one freed twice.
BuffersBalance ==
    live = (IF buf = "pool" THEN 1 ELSE 0) + (IF info # Absent THEN 1 ELSE 0)

\* fwup_delete_variable reports success only for a variable that is gone.
DeleteTells == deleted = "success" => stored = Absent

\* A boot changes the variable in two ways: what is armed is attempted, with
\* its size and attributes as they were, or what has no data is deleted.
WritesBack ==
    [][pc # "idle" /\ stored' # stored =>
         \/ stored.data = "armed" /\ stored' = Attempted(stored)
         \/ stored.size = 0 /\ stored' = Absent]_vars
==============================================================================
