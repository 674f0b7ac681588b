------------------------------- MODULE ReadFile -------------------------------
(***************************************************************************)
(* fwup_read_file: a capsule file of unknown size is read block by block   *)
(* into raw pages, which are replaced by twice as many when they are full. *)
(* Contents are abstracted to the length of the prefix of the buffer that  *)
(* holds the bytes of the file.                                            *)
(***************************************************************************)
EXTENDS Integers

CONSTANTS
    Bs,             \* bytes of a block (512)
    InitialBlocks,  \* half of the blocks of the first buffer (4096)
    PageSize,       \* 4096
    MaxFile,        \* largest file
    Memory          \* largest allocation the firmware may grant: a size that
                    \* wraps around (news, on 32 bits) wraps to 0, which
                    \* AllocatePages refuses, as it does a size it cannot meet

ASSUME BlockAssumption  == Bs \in Nat \ {0} /\ InitialBlocks \in Nat \ {0}
ASSUME PageAssumption   == PageSize \in Nat \ {0}
ASSUME BoundsAssumption == MaxFile \in Nat /\ Memory \in Nat

VARIABLES
    pc,
    file,       \* the size of the file
    pos,        \* the file's read position
    n_blocks,
    i,          \* blocks read
    buf,        \* bytes of the buffer; 0 for NULL
    newb,       \* bytes of the buffer that replaces it; 0 for none
    held,       \* prefix of buf that holds the file's bytes
    pages,      \* pages allocated and not freed
    lost,       \* whether a buffer was left allocated by an error return
    rc,
    size        \* *buf_size_out

vars == <<pc, file, pos, n_blocks, i, buf, newb, held, pages, lost, rc, size>>

Init ==
    /\ pc = "grow"
    /\ file \in 0..MaxFile
    /\ pos = 0 /\ n_blocks = InitialBlocks /\ i = 0
    /\ buf = 0 /\ newb = 0 /\ held = 0 /\ pages = 0 /\ lost = FALSE
    /\ rc = "none" /\ size = 0

\* The pages fwup_malloc_raw and fwup_free_raw compute for a size.
Pages(bytes) == bytes \div PageSize + (IF bytes % PageSize # 0 THEN 1 ELSE 0)

NewSize == n_blocks * Bs * 2

MallocFails ==
    /\ pc = "grow"
    /\ pc' = "done" /\ rc' = "out_of_resources"
    /\ lost' = (buf # 0)
    /\ UNCHANGED <<file, pos, n_blocks, i, buf, newb, held, pages, size>>

Malloc ==
    /\ pc = "grow"
    /\ NewSize <= Memory
    /\ newb' = NewSize
    /\ pages' = pages + Pages(NewSize)
    /\ pc' = "copy"
    /\ UNCHANGED <<file, pos, n_blocks, i, buf, held, lost, rc, size>>

Smaller(a, b) == IF a <= b THEN a ELSE b

Copied == Bs * n_blocks

\* Mutant of Replace: the number of blocks stays.
ReplaceSame ==
    /\ pc = "copy"
    /\ held' = Smaller(held, buf)
    /\ pages' = pages - Pages(buf)
    /\ buf' = newb /\ newb' = 0
    /\ pc' = "read"
    /\ UNCHANGED <<file, pos, n_blocks, i, lost, rc, size>>

\* CopyMem of the old buffer, and fwup_free_raw of its pages.
Replace ==
    /\ pc = "copy"
    /\ held' = IF buf # 0 THEN Smaller(held, Copied) ELSE 0
    /\ pages' = IF buf # 0 THEN pages - Pages(Bs * n_blocks) ELSE pages
    /\ buf' = newb /\ newb' = 0
    /\ n_blocks' = n_blocks * 2
    /\ pc' = "read"
    /\ UNCHANGED <<file, pos, i, lost, rc, size>>

\* What the firmware's Read returns: a block, or what is left of the file.
Available == Smaller(Bs, file - pos)

\* Mutant of MoreBlocks: off by one.
MoreBlocksIncl == i <= n_blocks

MoreBlocks == i < n_blocks

\* The bytes land behind those that were read before, or leave a gap.
Store(bytes) == held' = IF held = i * Bs THEN held + bytes ELSE held

ReadBlock ==
    /\ pc = "read" /\ MoreBlocks
    /\ Available = Bs
    /\ Store(Bs)
    /\ pos' = pos + Bs /\ i' = i + 1
    /\ UNCHANGED <<pc, file, n_blocks, buf, newb, pages, lost, rc, size>>

\* Mutant of ReadLast: the size counts the last block as a full one.
ReadLastFull ==
    /\ pc = "read" /\ MoreBlocks
    /\ Available # Bs
    /\ Store(Available)
    /\ pos' = pos + Available
    /\ size' = Bs * (i + 1) /\ rc' = "success" /\ pc' = "done"
    /\ UNCHANGED <<file, n_blocks, i, buf, newb, pages, lost>>

ReadLast ==
    /\ pc = "read" /\ MoreBlocks
    /\ Available # Bs
    /\ Store(Available)
    /\ pos' = pos + Available
    /\ size' = Bs * i + Available /\ rc' = "success" /\ pc' = "done"
    /\ UNCHANGED <<file, n_blocks, i, buf, newb, pages, lost>>

\* Mutant of ReadFails: the buffer is not freed.
ReadFailsKeeps ==
    /\ pc = "read" /\ MoreBlocks
    /\ rc' = "error" /\ pc' = "done"
    /\ UNCHANGED <<file, pos, n_blocks, i, buf, newb, held, pages, lost, size>>

ReadFails ==
    /\ pc = "read" /\ MoreBlocks
    /\ pages' = pages - Pages(Bs * n_blocks)
    /\ rc' = "error" /\ pc' = "done"
    /\ UNCHANGED <<file, pos, n_blocks, i, buf, newb, held, lost, size>>

BufferFull ==
    /\ pc = "read" /\ ~MoreBlocks
    /\ pc' = "grow"
    /\ UNCHANGED <<file, pos, n_blocks, i, buf, newb, held, pages, lost, rc, size>>

Next == MallocFails \/ Malloc \/ Replace \/ ReadBlock \/ ReadLast \/ ReadFails
        \/ BufferFull

Spec == Init /\ [][Next]_vars

\* Every call of the firmware returns, and the program goes on.
FairSpec == Spec /\ WF_vars(Next)

------------------------------------------------------------------------------
(* Properties *)

TypeOK ==
    /\ pc \in {"grow", "copy", "read", "done"}
    /\ file \in 0..MaxFile /\ pos \in 0..file
    /\ n_blocks \in Nat \ {0} /\ i \in Nat
    /\ buf \in Nat /\ newb \in Nat /\ held \in Nat /\ pages \in Nat
    /\ lost \in BOOLEAN
    /\ rc \in {"none", "success", "error", "out_of_resources"}
    /\ size \in Nat

\* Every read, and every copy into a new buffer, stays inside the pages that
\* were allocated for it.
WritesInside ==
    /\ pc = "read" /\ MoreBlocks => i * Bs + Bs <= buf
    /\ pc = "copy" /\ buf # 0 => Copied <= buf /\ Copied <= newb

\* A successful read returns the whole file: its size, and all of its bytes in
\* order, however often the buffer was replaced and wherever the last block
\* ends.
WholeFile == rc = "success" => size = file /\ held = file /\ size <= buf

\* Every page is freed, by the size it was allocated with, except the buffer
\* handed to the caller and the one that a failing replacement leaves behind.
PagesFreed ==
    pc = "done" => pages = IF rc = "success" \/ lost THEN Pages(buf) ELSE 0

\* For its caller the function reads the file at once and entirely, or not at
\* all; what it returns through its arguments counts with its success.
Whole == INSTANCE WholeRead WITH
    returned <- IF rc = "success" THEN [size |-> size, held |-> held]
                                  ELSE [size |-> 0, held |-> 0]

ImplementsWholeRead == Whole!Spec

\* The loop without a condition comes to an end: the buffer outgrows the file
\* or the memory.
Returns == <>(pc = "done")
==============================================================================
