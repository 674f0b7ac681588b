# fwupd-efi in TLA+

fwupd-efi is the EFI binary that fwupd starts once from the boot manager. It
reads requests that the operating system stored in EFI variables, loads the
capsule files they name from the EFI system partition, marks the requests as
attempted, hands the capsules to the firmware and resets the machine. It runs
single-threaded, before the operating system, with no one watching; what makes
it hard is that every call into the firmware may fail, that power may be lost
between any two of them, that what it reads was written by others, and that
what it does cannot be undone. This project models it, checks the models with
TLC and proves the main results with TLAPS.

## Inventory

| Component | Code | State it keeps | Operations | What makes it correct |
|---|---|---|---|---|
| Update run | `efi_main`, `fwup_populate_update_table`, `fwup_apply_capsules`, `fwup_set_update_statuses` | the variables in NVRAM (they outlive a boot), the table of updates, capsules, block descriptors | enumerate, add capsules, mark, deliver, reset | a request is delivered at most once, never while it is armed; no error destroys one; the descriptors fit the capsules; the run ends |
| Device paths | `fwup_populate_update_info`, `fwup_dp_size`, `fwup_search_file`, `fwup_open_file` | a cursor over bytes from a variable | validate, search, open | all that is read later was validated before |
| File reading | `fwup_read_file`, `fwup_malloc_raw`, `fwup_free_raw` | a growing buffer of raw pages | grow, read a block | the whole file, no byte outside, pages freed as they were allocated |
| Capsule preparation | `fwup_add_update_capsule`, `fwup_validate_capsule_size`, `fwup_check_gop_for_ux_capsule`, `fwup_get_gop_mode`, checksum | the capsule in its buffer | validate, complete flags, set the display's mode, checksum, describe | writes inside the image although sizes wrap; flags and checksum right |
| Debug log | `fwup_log`, `fwupd_debug_efivar_append`, `fwup_debug_hook` | the log variable, `debugging`, `once`, the settings and their size | read the settings, log a message | bounded recursion, ordered log, verbose when asked |
| Variable access | `fwup_get_variable`, `fwup_set_variable`, `fwup_delete_variable` | the copy of a variable, its size and attributes | read, write, delete | the copy is the variable; what is written back differs in its status only; a deletion tells the truth |
| Memory | `fwup-cleanups.h`, `fwup_malloc`, `fwup_malloc_raw`, `fwup_update_table_free` | what is allocated, and which scope will free it | allocate, hand over, leave a scope | nothing freed twice or while it is needed; what stays allocated is known |
| Build | `crt0/`, `lds/`, `*.py`, `meson.build` | - | link, add sections | - |
| Tests | `fwup-selftest.c`, the two fuzz targets, mocks | counters | run a test, run an input | what they assert of return values and outputs holds |

The run calls the others: the table is filled through variable access and path
validation (step 1 of `efi_main`), each capsule is prepared by opening its path
and reading its file (step 2), and the log is called from everywhere. They share
memory only through the update table and the descriptors. NVRAM is shared with
the operating system, but never at the same time. There are no threads and no
callbacks; the one re-entrance is the log's.

The hazards of this code, each at its line and with the properties that watch
it, are the `hazards` of `PROJECT.json`. The behaviours that are hard: a crash
after a partial change of NVRAM, a failure in the middle of a loop that keeps
two indices, an ambiguous error of `UpdateCapsule`, sizes that wrap or end on a
boundary, walks whose safety rests on a check made earlier, and progress in
spite of other people's variables.

## Modules

### UpdateLifecycle - the promise

One variable, `life`, the stage of each request: none, armed, staged, sent or
lost. A request is armed by the operating system, spent by the updater, and
what is staged is delivered by one step or abandoned. There is no way back from
sent or lost but a new request, so at-most-once delivery can be read off.

### Fwupdate - the updater, boot after boot

`nvram` holds the contents of the state variables and survives `Return`,
`ResetSystem` and `Crash`; `sent` counts deliveries since a request was written;
everything else is a local of `efi_main` or of a function it calls, and is
cleared when the program ends. Names are numbers in the order in which the
firmware enumerates them.

| Action | Code |
|---|---|
| `EfiMain`, `GetNextVariableName` | start, and the call at fwupdate.c:140 |
| `TooSmall`, `GetNextFails`, `SkipVariable`, `IgnoreUpdate`, `Populate*` | the branches of the loop, fwupdate.c:143-183 |
| `DeleteVariable` in `PopulateFails` | `fwup_delete_variable`, including the answer its probe gets |
| `EndOfVariables` | fwupdate.c:607-624 |
| `AddCapsule`, `AddCapsuleFails`, `EndOfBuild` | step 2, with the index of the loop and the number of capsules apart |
| `SetStatus`, `EndOfStatuses` | step 3, one variable at a time |
| `QueryCapsuleCapabilities`, `UpdateCapsule`, `ResetSystem` | steps 4 and 5 |
| `Crash`, `WriteVariable` | the environment |

A capsule and a descriptor are represented by the update they were made for;
`Garbage` is memory nobody has written. The reset type is kept although no
property uses it. What makes a capsule load or fail is left to the modules
below: here it either fails for ever (`Broken`) or in a bounded number of cases.
A name of `Huge` does not fit the program's buffer, and matters while a variable
of that name is stored. `AddCapsuleFaults` is the warning at fwupdate.c:631,
which gives a guid by value where `%g` takes its address (452 shows the correct
use): what is used as an address is undefined, so the run may end there. The
constant `WarningMayFault` says whether it can; it can in the runs that check the
safety properties and in the one that checks progress.

The firmware is assumed to enumerate each variable once and in a fixed order, to
answer BUFFER_TOO_SMALL without moving on when a name does not fit, and to
change a variable entirely or not at all. `UpdateCapsule` counts as a delivery
in all three outcomes (success, an error, a reset out of the call).

### DevicePath - what makes the later walks safe

The bytes of a variable are unknown: the header of a node is chosen when it is
first read, and remembered in `node` by its offset. Validation reads the headers
in turn; the walks of `fwup_search_file` and `fwup_open_file` then have no limit
of their own, and the properties say that they only reach remembered headers.
`LocateDevicePath` may leave the cursor at any node. `DpOffset` and the size of
a header are those of the packed structure.

### WholeRead and ReadFile - the growing buffer

`WholeRead` is what the caller relies on: one step that returns the whole file,
or an error and nothing. `ReadFile` is the loop, and is shown to implement it.
The file's contents are abstracted to `held`, how long the prefix of the buffer
is that holds the file's bytes in order: a block read to a wrong place or a copy
that is too short leaves it behind. `pages` counts pages allocated and not
freed. A request for pages whose size wrapped around asks for none and is
refused, which is the same as a refused allocation.

### CapsuleFile - one capsule, before it is handed over

The header and the payload of the file are unknown, and sizes are computed
modulo the width of their C types (`Uint32`, `Uintn`): `Uintn = Uint32` is a
32-bit build, where the sum in fwupdate.c:391 could wrap. The other bytes of
the payload enter the checksum as their sum, `rest`. `came` remembers the flags of
the file, so that `FlagsComplete` can say of every capsule with which flags it has to
be handed over: completed by those of the update info and of the build if it had
none, untouched otherwise.

### Variables - one variable, call by call

`stored` is a variable with its size, attributes and kind of data; the actions
are the two calls of GetVariable with the allocation between them, what the
caller decides of the copy, the write of step 3 and `fwup_delete_variable`.
The first call may or may not set the attributes, as firmware differs in that.
`AfterSet` is the firmware's SetVariable: other attributes are refused, none
delete. A variable without data, which some firmware keeps, is the only one
whose deletion gets past its probe. `live` counts pool buffers.

### BootMemory - who owns what a boot allocates

`heap` is what is allocated in a boot, by kind and by the variable it was
allocated for; `cleanup` is what a cleanup attribute of an open scope will free.
`Own`, `Hold` and `Leave` are an allocation with and without such an attribute
and the end of a scope; `_steal_pointer` takes an object out of `cleanup`. The end of
a scope frees what is there: for an update whose population failed
`fwup_update_table_free` also calls `FreePool(NULL)` (fwupdate.c:39-40), which is
refused and changes nothing. Every
call may fail, and the error returns of the code decide what remains.
Some error returns of the code leave memory allocated until the reset
(fwupdate.c:441, 448, 461, 478; handles and texts of device paths;
fwup-common.c:100). `ReturnLeaves`, and `PagesFreed` of `ReadFile`, name these
leaks and show that there are no others; they do not show that the code is free
of them. `null_written` records the two places where memory is used that may not be there
(`capsules`, fwupdate.c:619, and `filename`, 302); the model goes on as if the
write had been harmless, so nothing it says of later steps is about such a run
of the program.

### DebugLog and VerboseBoot - the logger that logs while it logs

Calls of `fwup_log` are frames on `stack`. The first message of a boot deletes
the log, and the deletion logs. The log is kept over two boots, with allocations
and SetVariable failing and power lost in between. The actions of `DebugHook` are
the calls of `fwup_debug_hook`, with the two settings by size and value.
`data_size` is what one call leaves for the next, and nobody compares it with
`DataBytes`, the size of `data`: when both settings are longer than that, the
second is copied over the stack behind it (`DataOverrun`). What follows is
undefined; the model lets the run go on, verbose or not, or be lost. With
SHIM_DEBUG the hook logs a message of its own (fwupdate.c:574).

`VerboseBoot` extends it by the enumeration of fwupdate.c:138-183, whose messages
are the ones that are logged. The log is one of the variables enumerated, and
each SetVariable may put it in another place of the firmware's list
(`log_place`). The updates keep their order. The enumeration is right because
nothing is logged while the cursor is the log itself: the variable is skipped
(fwupdate.c:158) without a message.

### HostTests - the repository's own tests

The 31 tests of `fwup-selftest.c` and the two fuzz targets, with real sizes, run
against the definitions of the modules above (`INSTANCE` of `DevicePath`,
`CapsuleFile` and `Fwupdate`): a test is an input and, for the return value and
each output that it asserts anything of, the values its assertions allow. That
includes whether SetVariable was called and what a buffer holds. Nothing is
asserted of what the fuzz targets get, so `FuzzVerdicts` alone speaks about them;
that the sanitizers they are run with find nothing in the heap
is not modelled. The loop of `fwup_dp_size` is a recursive function, `Rounds`,
whose n-th value is what the loop's variables hold after its n-th round. The mocks are
modelled as far as these programs reach them.
Values below 2^16 stand for a UINT32; no comparison in the tests tells them
apart. What the tests do not reach is as instructive: none gets to SetVariable in
`fwup_delete_variable` or into the loop of `fwup_get_gop_mode`, and none fails if
`fwup_dp_size` compares the rest with 0 instead of the size of a header.

## Runs

| Run | Bounds | Result |
|---|---|---|
| `fwupdate_safety` | 5 names (one skipped, one longer than the buffer), a table of 2, 2 writes of the OS, 3 failures | all safety properties hold, no request is overlooked, and the refinement holds |
| `fwupdate_progress` | 3 updates (one that never loads), a table of 2, 2 writes, 3 failures | every run ends; every loadable request is spent, if the updater is started often enough and no faulting warning or rejected data ends each run |
| `variables` | 2 attributes, sizes up to 2, 2 writes, 2 failures | the copy is the variable, buffers have one owner, only the status changes |
| `devicepath` | variables up to 72 bytes, nodes up to 22 | paths and walks are safe and end |
| `readfile` | blocks of 3 bytes, files up to 60, memory for 48 | no byte is lost or misplaced; the loop ends and implements `WholeRead` |
| `capsulefile` | types of 8 values, files up to 7 bytes, 2 displays | writes inside, flags and checksum right |
| `bootmemory` | 3 variables, a table of 2, every call fails or not | nothing freed twice or too early; leaks are the known ones |
| `verboseboot` | 2 boots, 6 messages, 2 failures a boot, settings up to 3 bytes read into 2, 3 updates | recursion bounded, verbose when asked unless `data` is overrun, log ordered and complete, each update visited once, the enumeration ends |
| `hosttests` | all tests; fuzzed paths of 3 nodes and capsules with fields at each boundary | assertions on return values and outputs hold, verdicts exact |

Type invariants are not among the runs: they are conjuncts of the inductive
invariants below and proved for all values of the constants.

Three runs show that the code differs from what the repository says of it:

- `fwupdate_huge_ignored`: "ignore any huge names" (fwupdate.c:146); the same
  call is repeated for ever.
- `fwupdate_malformed_deleted`: a variable that cannot be used is meant to be
  deleted (fwupdate.c:174, fwup-efi.c:22); the deletion never gets past its
  probe, and each boot aborts at the same variable. fwup-selftest.c:556
  describes the same answer. A repair should not simply delete: the deletion
  follows every failure, transient ones too (`OnlySpends` and its mutant).
- `fwupdate_guid`: "ignore a failing capsule" (fwupdate.c:629); the warning about
  it may end the run.

Differences that can be read off an action and have no run of their own:

- SECURITY.md:42 and 53 say that any error aborts the run; a failing capsule is
  ignored (`AddCapsuleFails`), and a failing UpdateCapsule is followed by the
  reset (`UpdateCapsule`).
- SECURITY.md:40-41 says that the checksum of the graphics is verified; it is
  replaced (`UpdateChecksum`).
- `capsules` and `filename` are not compared with NULL (`NewCapsules`,
  `NewFilename`).
- Two settings longer than `data` overrun it (fwupdate.c:559-562, `DataOverrun`);
  `VerboseIfAsked` says what holds without that.
- fwup-selftest.c:484 tests that a path has to fill the variable; its variable of
  60 bytes is rejected for its size at fwupdate.c:88, before that comparison.
  `FuzzVerdicts` covers the comparison.

### Why the bounds are enough

A table of two with three updates overflows the table, makes the indices part
company before, between and after loadable capsules, and leaves a variable
unmarked when another was marked. Three failures allow one in each of three
boots, or a failure, a crash and another failure in one; what a failure does
depends only on the state in which it comes. Two writes rearm a request that was
sent or lost. The long name is the last one, so that it can be met with an empty,
a partly filled and a full table. In `DevicePath` sizes up to 72 give paths of up to five nodes, so
every relation of a node to the limit occurs. In `ReadFile` the buffer is
replaced twice (60 bytes are five times the first buffer), files end on block,
buffer and allocation boundaries, and the
page size is prime to the block size. In `CapsuleFile` a word of eight values
wraps in every comparison. In `VerboseBoot` two boots are needed to see a log that
is left over, and the third message is the first to be appended by the
enumeration; three updates give the log a place before, between and behind the
ones visited, and six messages are all that such a run logs. A setting of three
bytes does not fit `data` of two, one of two fits and is longer than `data_size`
says at first. `Variables` needs
two attributes for a partial set and two writes for a variable that replaces one
of other attributes. In `BootMemory` the table overflows, and each capsule may
end at each call. In `HostTests` the fuzzed fields take the values at, below and
above each size they are compared with. The proofs
remove these bounds for the safety properties.

### Fairness

`fwupdate_progress` assumes weak fairness of `Program` and of nothing else: the
firmware lets the program it started run. The assumption is on `Program` as a
whole: the code is sequential and at each point has one thing to do next. Nothing
is assumed of the operating system or of failures, but that there are finitely
many (`MaxFailures`). Starts are not part of the fairness, as the machine need
not boot into the updater again (fwupdate.c:596): that it does, again and again,
is a premise of `ArmedIsSpent`. The other conditions stand in the property too.
Fewer updates that can never be loaded than places in the table: they are found
first at every boot if their names come first, and when no capsule loads, nothing
is spent. And two things may keep a loadable request armed for ever, because they
can end every run before step 3: a variable with rejected data (`PopulateFails`,
which the deletion does not remove) and the warning about a capsule that fails
(`AddCapsuleFaults`), which faults on a machine where the guid is no address. In a
run where it does not fault a broken capsule is passed over and the others are
marked and delivered. Both can happen in the run that checks the property.
`Ends` of `DevicePath` and `Returns` of `ReadFile` assume weak fairness of the only
process. `EnumerationEnds` assumes it of `Program`, which leaves out the ways a
run may be cut short: it ends the enumeration or is ended by them.

Deadlock is checked for `Fwupdate` and `Variables`, where a boot is always
possible. The other modules describe one call, one boot or a bounded number of
boots, and stop.

## Proofs

| Module | Results |
|---|---|
| `Fwupdate_proofs` | `TypeOK`, `AtMostOnce`, `SpentBeforeSent`, `DescriptorsMatch`, `InBounds`, `HugeNameHoldsAll`, `NoneOverlooked`, `OnlySpends`, `ImplementsLifecycle`; the steps of a run are bounded |
| `Variables_proofs` | `TypeOK`, `ReadsWhole`, `BuffersBalance`, `DeleteTells`, `WritesBack` |
| `DevicePath_proofs` | `TypeOK`, `HeadersInside`, `NodesInside`, `WalksValidated`, `SearchFindsFile`, `PathFills`; the steps of all walks are bounded |
| `ReadFile_proofs` | `TypeOK`, `WritesInside`, `WholeFile`, `PagesFreed`, `ImplementsWholeRead`; the steps of the loop are bounded |
| `CapsuleFile_proofs` | `TypeOK`, `PayloadInside`, `DescriptorCovers`, `ChecksumFresh`, `FlagsComplete` |
| `BootMemory_proofs` | `TypeOK`, `FreedOnce`, `TableLive`, `HandedOverLive`, `ReturnLeaves` |
| `VerboseBoot_proofs` | of the log by itself: `TypeOK`, `RecursionBounded`, `LogOrdered`, `LogComplete`, `VerboseIfAsked`; of a verbose boot: the same four, `VerboseTypeOK`, `EveryUpdateOnce`, that it is a run of the log, and that its steps are bounded |
| `HostTests_proofs` | what `fwup_dp_size` returns for every path, `AssertionsHold`, `FuzzVerdicts` |

Every invariant and every action property that a run checks is stated by a
theorem, and so is each of the refinements.

They hold for every value of the constants under the named assumptions in the
modules, which say no more than that sizes are natural numbers, that a width is
not zero, and which sets contain which.

**Fwupdate.** That no request is delivered twice is not inductive. The argument
needs three more facts. The table is strictly increasing (`TableInv`), because
the enumeration is, so no update is in it twice, and neither is a capsule
(`CapsulesInv`): one call of UpdateCapsule delivers each update at most once.
Until the capsules are delivered, what is in the table has not been sent since
it was written (`PendingInv`), because it was armed when it was read, an armed
request has never been sent (`SentInv`), and nobody writes it while the program
runs. And once step 3 has gone past an entry, the entry is marked (`MarkInv`),
so that after a crash it is not armed. `MemoryInv` and `DescriptorsInv` carry the
descriptors from allocation to the terminator. The refinement maps a request
that is attempted but not sent to staged as long as its capsule is in memory and
to lost afterwards; each step is one of the life cycle's or none. That a long
name holds everything up needs that the cursor has not passed a stored one
(`HugeInv`). The converse of at most once is that a request is not passed over
(`NoneOverlooked`): one that the enumeration has gone past and that is armed
is in the table, or the table was full when it was met (`OverlookedInv`, over what
the enumeration has decided about, `Passed`).

**DevicePath.** Every remembered header lies on the chain that validation
walked: its offset plus its length is the next offset, down to the end node,
and the count of nodes before it is its index. Walks start at the head of this
chain and follow it. That the node found in the copy is the one reached in the
original is that equal counts on one chain are equal places.

**ReadFile.** While the buffer is replaced its size is still `n_blocks * Bs`,
afterwards twice that; `held`, the position in the file and `i * Bs` are the same
number. So when the last block has been read the buffer holds the file, and the
return is the one step of `WholeRead`; all the others stutter.

**CapsuleFile.** Once `CapsuleImageSize >= HeaderSize` is known, the difference
cannot wrap; and once the difference is at least the size of the payload, the
sum is at most the image size and so cannot wrap either (`UxFitsExactly`).

**Variables.** Nobody writes the variable while the program runs, so the size of
the first call is still right in the second (`HoldsInv`); there is a buffer or a
copy, at certain places, and never both.

**BootMemory.** `TableInv`: while a variable is read its parts are in `cleanup`,
and none of them is in the table, because the table holds earlier variables.
`BuildInv` and `FreeInv`: buffers of capsules and the descriptors have never been
in `cleanup`, so no scope frees them. `OwnInv`: whatever is allocated is in
`cleanup` or one of the known kinds, so the end of all scopes leaves only those.

**HostTests.** A test is run by operators, so the invariant is small: what runs is
a test of main or a fuzzed input, and the result is that of the code. The work is
in `fwup_dp_size`. Its loop is a recursive function over the nodes of the path, so
the proof is an induction over a path of any length. `LeastNatural` takes the
least element of a set of numbers from the well-foundedness of `<`, `InductionTo`
makes induction over a set from it, and `RecursionTo` shows that a function
defined from one number to the next exists. `DpSizeFound` follows: after each
round the loop stands where the sizes of the nodes so far end, or it has
returned. `PathAccepted` compares that with what the fuzz target should say.

**DebugLog**, in `VerboseBoot_proofs`. `StackInv`: a second frame exists only after `once` was cleared, so
there is no third. For the order, a frame is about to append only what is newer
than all of the log (`AppendInv`); the log holds only what was printed (`LogInv`),
and the numbers of the frames are those of printed messages (`NumberInv`). For the
completeness, what was printed and is not nested is at any time what the log
holds and the outer call will leave there, and what that call will write
(`CompleteInv`).

**VerboseBoot.** Nothing is logged between a call of GetNextVariableName and the
message about its result, nor while the cursor is the log (`Quiet`). So the
cursor is an update, whose place is fixed, or the log at the place where it was
found: behind the updates visited and before the others (`CursorAt`). Every step
is a step of `DebugLog` or leaves its variables alone (`RefinesDebugLog`), so
what is proved of the log holds here (`LogWhileEnumerating`).

**Bounded loops.** The loops of this code have no bounds of their own: they end
because a cursor moves on. Each of `ReadFile`, `DevicePath`, `VerboseBoot` and
`Fwupdate` has a `StepsLeft`, a number with a maximum known in advance, and it is
proved that each step leaves less of it: bytes not yet read, bytes and nodes not
yet walked, frames and messages a boot has left, variables after the cursor and
entries of the table. This is the part of `Returns`, `Ends`, `EnumerationEnds` and
`RunEnds` that can go wrong in the code; what is left to TLC is that the program
is let run and always has a step to make. In `Fwupdate` one step is excepted,
`TooSmall`, and rightly: with a name that does not fit, the run does not end by
itself.

Only checked with TLC: liveness (`RunEnds`, `ArmedIsSpent`, `Ends`, `Returns`,
`EnumerationEnds`), because fairness and ENABLED are out of the prover's reach;
and the three violations. The mutants of the properties are checked with TLC too.

## Not modelled

Start-up code, linker scripts, build scripts and packaging have no run-time state
to explore. `fwup_time` stores a timestamp no one compares; delays only delay.
The text of messages and their length are left out, and so are the mocks that no
test and no fuzz target calls. What a write through NULL, a use of a guid as an
address or an overrun of `data` does is not modelled beyond that it may happen and
that the run may then be lost. `Fwupdate` takes the
calls of `fwup_get_variable` as one outcome, which `Variables` takes apart, and
what happens to a capsule as another, which `DevicePath`, `ReadFile` and
`CapsuleFile` take apart; the modules are not composed into one state space.

## Plan

1. Done: the life cycle, the updater and its refinement, device paths, file
   reading, capsule preparation, the log; their proofs.
2. Done: `Variables`, call by call; a verbose boot, with the log among the
   variables enumerated; the memory of a whole boot; the abstract reading of a
   file and its refinement; the repository's tests run against the models.
3. Done: the proofs about all of these; the bounds of the loops.
4. Left: a proof that `Variables` and `CapsuleFile` implement the single outcomes
   `Fwupdate` has for them.
