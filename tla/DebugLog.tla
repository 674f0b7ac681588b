------------------------------- MODULE DebugLog -------------------------------
(***************************************************************************)
(* The log of a verbose run.  fwup_log prints a message and appends it to  *)
(* the variable FWUPDATE_DEBUG_LOG; the first message of a boot tries to   *)
(* delete that variable, which logs a message of its own, so fwup_log is   *)
(* entered again.  The variable outlives the boots, whose messages are     *)
(* numbered in the order they are printed.                                 *)
(***************************************************************************)
EXTENDS Naturals, Sequences, Functions

CONSTANTS
    MaxBoots,      \* bound on the boots
    MaxMessages,   \* bound on the messages of a boot
    MaxFailures,   \* bound on the failing calls and the losses of power
    MaxSetting,    \* largest size of a setting
    DataBytes      \* sizeof(UINTN), what fwup_debug_hook's data can hold

ASSUME BoundsAssumption ==
    /\ MaxBoots \in Nat /\ MaxMessages \in Nat /\ MaxFailures \in Nat
    /\ MaxSetting \in Nat \ {0} /\ DataBytes \in Nat \ {0}

\* A message: its boot, its number in the boot once it is formatted, and
\* whether it was logged while another one was.
Messages == [boot : Nat, number : Nat, nested : BOOLEAN]
Formatted == {m \in Messages : m.number > 0}

\* A setting by its size, 0 for one that does not exist, and what a UINTN that
\* it is read into holds then; the program tests for 1.
Settings == {s \in [size : 0..MaxSetting, value : {0, 1}] :
                s.size \notin 1..DataBytes => s.value = 0}

\* A call of fwup_log in progress: its message, where it is, and whether it
\* writes with EFI_VARIABLE_APPEND_WRITE.
Frames == [message : Messages, at : {"format", "append", "set"}, append : BOOLEAN]

VARIABLES
    log,         \* the contents of FWUPDATE_DEBUG_LOG, <<>> for none
    settings,    \* SHIM_DEBUG and FWUPDATE_VERBOSE
    pc,          \* "boot", "hook", "verbose", "run" or "lost"
    data_size,   \* of fwup_debug_hook
    overrun,     \* this boot wrote beyond data (auxiliary)
    debugging,
    once,
    stack,       \* the calls of fwup_log, the innermost one first
    boot,        \* boots so far (auxiliary)
    printed,     \* messages printed in this boot (auxiliary)
    failures     \* failing calls and losses of power in this boot (auxiliary)

vars == <<log, settings, pc, data_size, overrun, debugging, once, stack, boot,
          printed, failures>>

hook == <<data_size, overrun>>

Init ==
    /\ log = <<>>
    /\ settings \in [{"SHIM_DEBUG", "FWUPDATE_VERBOSE"} -> Settings]
    /\ pc = "boot" /\ data_size = 1 /\ overrun = FALSE
    /\ debugging = FALSE /\ once = TRUE /\ stack = <<>>
    /\ boot = 0 /\ printed = <<>> /\ failures = 0

Fails == failures < MaxFailures /\ failures' = failures + 1

\* A new image is started, its static variables initialised.
Boot ==
    /\ pc \in {"boot", "lost"} /\ boot < MaxBoots
    /\ boot' = boot + 1
    /\ debugging' = FALSE /\ once' = TRUE /\ stack' = <<>>
    /\ printed' = <<>> /\ failures' = 0
    /\ pc' = "hook" /\ data_size' = 1 /\ overrun' = FALSE
    /\ UNCHANGED <<log, settings>>

------------------------------------------------------------------------------
(* fwup_debug_hook *)

\* GetVariable copies a setting that is not longer than data_size says.
Found(name) == settings[name].size \in 1..data_size

\* Mutant of ReadsOne: whatever the setting holds.
ReadsAny(name) == Found(name)

ReadsOne(name) == Found(name) /\ settings[name].value = 1

\* What a call leaves in data_size: the size of what was found or, with
\* BUFFER_TOO_SMALL, of what was not read.
SizeAfter(name) == IF settings[name].size = 0 THEN data_size ELSE settings[name].size

Call(nested) ==
    [message |-> [boot |-> boot, number |-> 0, nested |-> nested],
     at |-> "format", append |-> FALSE]

\* A debugger is attached: where the image is loaded is logged for it.
ShimDebug ==
    /\ pc = "hook"
    /\ ReadsOne("SHIM_DEBUG")
    /\ debugging' = TRUE /\ stack' = <<Call(FALSE)>>
    /\ pc' = "run"
    /\ UNCHANGED <<log, settings, hook, once, boot, printed, failures>>

\* The size this call leaves is the one the next call is given.
NoShimDebug ==
    /\ pc = "hook"
    /\ \/ /\ ~ReadsOne("SHIM_DEBUG")
          /\ data_size' = SizeAfter("SHIM_DEBUG")
          /\ UNCHANGED failures
       \/ Fails /\ UNCHANGED data_size
    /\ pc' = "verbose"
    /\ UNCHANGED <<log, settings, overrun, debugging, once, stack, boot, printed>>

\* More is copied than data can hold.
Overruns == Found("FWUPDATE_VERBOSE") /\ settings["FWUPDATE_VERBOSE"].size > DataBytes

FwupdateVerbose ==
    /\ pc = "verbose"
    /\ \/ /\ ~Overruns
          /\ debugging' = ReadsOne("FWUPDATE_VERBOSE")
          /\ UNCHANGED failures
       \/ Fails /\ UNCHANGED debugging
    /\ pc' = "run" /\ data_size' = 1
    /\ UNCHANGED <<log, settings, overrun, once, stack, boot, printed>>

\* The stack behind data is overwritten, which is undefined: the run goes on,
\* verbose or not, or the program does not come back from the hook.
DataOverrun ==
    /\ pc = "verbose" /\ Overruns
    /\ \/ pc' = "run" /\ debugging' \in BOOLEAN
       \/ pc' = "lost" /\ UNCHANGED debugging
    /\ overrun' = TRUE /\ data_size' = 1
    /\ UNCHANGED <<log, settings, once, stack, boot, printed, failures>>

DebugHook == ShimDebug \/ NoShimDebug \/ FwupdateVerbose \/ DataOverrun

------------------------------------------------------------------------------
(* fwup_log and fwupd_debug_efivar_append *)

Top == Head(stack)
Replace(frame) == <<frame>> \o Tail(stack)

\* The program logs a message.
Log ==
    /\ pc = "run" /\ stack = <<>>
    /\ Len(printed) < MaxMessages
    /\ stack' = <<Call(FALSE)>>
    /\ UNCHANGED <<log, settings, pc, hook, debugging, once, boot, printed, failures>>

\* No memory for the message, or it is only printed.
LogEnds ==
    /\ stack # <<>> /\ Top.at = "format"
    /\ \/ Fails
       \/ ~debugging /\ UNCHANGED failures
    /\ stack' = Tail(stack)
    /\ UNCHANGED <<log, settings, pc, hook, debugging, once, boot, printed>>

PrintMessage ==
    /\ stack # <<>> /\ Top.at = "format"
    /\ debugging
    /\ LET m == [Top.message EXCEPT !.number = Len(printed) + 1]
       IN /\ printed' = Append(printed, m)
          /\ stack' = Replace([Top EXCEPT !.message = m, !.at = "append"])
    /\ UNCHANGED <<log, settings, pc, hook, debugging, once, boot, failures>>

\* Mutant of FirstMessage: once is cleared after the deletion.
FirstMessageAgain ==
    /\ stack # <<>> /\ Top.at = "append"
    /\ once
    /\ stack' = <<Call(TRUE)>> \o Replace([Top EXCEPT !.at = "set"])
    /\ UNCHANGED <<log, settings, pc, hook, debugging, once, boot, printed, failures>>

\* fwup_delete_variable asks for the attributes with a size of 0: whether the
\* variable is not found or too long for that, it logs so and returns.
FirstMessage ==
    /\ stack # <<>> /\ Top.at = "append"
    /\ once
    /\ once' = FALSE
    /\ stack' = <<Call(TRUE)>> \o Replace([Top EXCEPT !.at = "set"])
    /\ UNCHANGED <<log, settings, pc, hook, debugging, boot, printed, failures>>

\* Mutant of LaterMessage: the attributes are those of the first message.
LaterMessageReplaces ==
    /\ stack # <<>> /\ Top.at = "append"
    /\ ~once
    /\ stack' = Replace([Top EXCEPT !.at = "set"])
    /\ UNCHANGED <<log, settings, pc, hook, debugging, once, boot, printed, failures>>

LaterMessage ==
    /\ stack # <<>> /\ Top.at = "append"
    /\ ~once
    /\ stack' = Replace([Top EXCEPT !.at = "set", !.append = TRUE])
    /\ UNCHANGED <<log, settings, pc, hook, debugging, once, boot, printed, failures>>

\* Mutant of Written: the first message is appended as well.
AlwaysAppended == Append(log, Top.message)

\* The variable after SetVariable, which replaces it or appends to it.
Written == IF Top.append THEN Append(log, Top.message) ELSE <<Top.message>>

SetLog ==
    /\ stack # <<>> /\ Top.at = "set"
    /\ log' = Written
    /\ stack' = Tail(stack)
    /\ UNCHANGED <<settings, pc, hook, debugging, once, boot, printed, failures>>

\* Nobody looks at what fwup_set_variable returns.
SetLogFails ==
    /\ stack # <<>> /\ Top.at = "set"
    /\ Fails
    /\ stack' = Tail(stack)
    /\ UNCHANGED <<log, settings, pc, hook, debugging, once, boot, printed>>

------------------------------------------------------------------------------

\* The run ends.
Return ==
    /\ pc = "run" /\ stack = <<>>
    /\ pc' = "boot"
    /\ UNCHANGED <<log, settings, hook, debugging, once, stack, boot, printed, failures>>

\* Power is lost.
Crash ==
    /\ pc = "run" /\ stack # <<>>
    /\ Fails
    /\ pc' = "boot" /\ stack' = <<>>
    /\ UNCHANGED <<log, settings, hook, debugging, once, boot, printed>>

FwupLog == LogEnds \/ PrintMessage \/ FirstMessage \/ LaterMessage \/ SetLog \/ SetLogFails

Next == Boot \/ DebugHook \/ Log \/ FwupLog \/ Return \/ Crash

Spec == Init /\ [][Next]_vars

------------------------------------------------------------------------------
(* Properties *)

TypeOK ==
    /\ log \in Seq(Formatted) /\ printed \in Seq(Formatted)
    /\ settings \in [{"SHIM_DEBUG", "FWUPDATE_VERBOSE"} -> Settings]
    /\ pc \in {"boot", "hook", "verbose", "run", "lost"}
    /\ data_size \in 1..MaxSetting /\ overrun \in BOOLEAN
    /\ debugging \in BOOLEAN /\ once \in BOOLEAN
    /\ stack \in Seq(Frames)
    /\ boot \in 0..MaxBoots /\ failures \in 0..MaxFailures

\* fwup_log is entered again at most once, by the deletion that its first
\* message starts: clearing once before the deletion ends the recursion.
RecursionBounded ==
    /\ Len(stack) <= 2
    /\ Len(stack) = 2 => Head(stack).message.nested /\ ~stack[2].message.nested

Before(m, n) ==
    \/ m.boot < n.boot
    \/ m.boot = n.boot /\ m.number < n.number

\* The log keeps the order of the messages, across boots, failures and the
\* nested message that is written before the one it was logged for.
LogOrdered ==
    \A p, q \in DOMAIN log : p < q => Before(log[p], log[q])

\* A boot in which nothing failed leaves a log of its own messages: all of
\* them but the nested one, which the first message overwrites, and none of
\* an earlier boot.  (LogOrdered says in which order.)
LogComplete ==
    pc = "run" /\ stack = <<>> /\ failures = 0 /\ printed # <<>> =>
        Range(log) = {m \in Range(printed) : ~m.nested}

\* One setting of one byte is enough to make a run verbose, whatever the other
\* is and however long, although its size is all the second call is given;
\* without a setting that holds 1 no run is.  That size is not compared with
\* what data holds (fwupdate.c:559): when both settings are longer, and only
\* then, data is overrun and neither can be said.
VerboseIfAsked ==
    pc \in {"run", "lost"} =>
        IF overrun
          THEN \A name \in DOMAIN settings : settings[name].size > DataBytes
          ELSE /\ debugging => \E name \in DOMAIN settings : settings[name].value = 1
               /\ /\ failures = 0
                  /\ \E name \in DOMAIN settings : settings[name] = [size |-> 1, value |-> 1]
                  => debugging
==============================================================================
