--------------------------- MODULE ReadFile_proofs ---------------------------
(***************************************************************************)
(* fwup_read_file is correct for every file, block and buffer size.        *)
(***************************************************************************)
EXTENDS ReadFile, TLAPS

USE BlockAssumption, PageAssumption, BoundsAssumption

\* The size of the current buffer and the bytes read so far.
Capacity == n_blocks * Bs
Read == i * Bs

BufferInv ==
    /\ pc = "grow" => /\ newb = 0
                      /\ buf = 0 => i = 0
                      /\ buf # 0 => buf = Capacity /\ i = n_blocks
    /\ pc = "copy" => /\ newb = Capacity * 2
                      /\ buf = 0 => i = 0
                      /\ buf # 0 => buf = Capacity /\ i = n_blocks
    /\ pc = "read" => newb = 0 /\ buf = Capacity /\ i <= n_blocks

ContentsInv ==
    /\ pc # "done" => held = Read /\ pos = Read /\ rc = "none" /\ lost = FALSE
    /\ rc = "success" => size = file /\ held = file /\ size <= buf

PagesInv ==
    /\ pc \in {"grow", "copy", "read"} => pages = Pages(buf) + Pages(newb)
    /\ pc = "done" => pages = IF rc = "success" \/ lost THEN Pages(buf) ELSE 0

IInv == TypeOK /\ BufferInv /\ ContentsInv /\ PagesInv

LEMMA PagesType ==
    /\ \A bytes \in Nat : Pages(bytes) \in Nat
    /\ Pages(0) = 0
  BY DEF Pages

LEMMA Products ==
    ASSUME TypeOK
    PROVE  /\ Capacity \in Nat /\ Capacity > 0 /\ Read \in Nat
           /\ (n_blocks * 2) * Bs = Capacity * 2
           /\ NewSize = Capacity * 2 /\ Copied = Capacity /\ Bs * n_blocks = Capacity
           /\ (i + 1) * Bs = Read + Bs
           /\ Bs * i = Read
           /\ i <= n_blocks => Read <= Capacity
           /\ i < n_blocks => Read + Bs <= Capacity
  <1>1. n_blocks \in Nat /\ i \in Nat /\ Bs \in Nat /\ n_blocks > 0 /\ Bs > 0
    BY DEF TypeOK
  <1>2. \A a, b, c \in Nat : a <= b => a * c <= b * c
    BY SMT
  <1>3. \A a, b \in Nat : (a + 1) * b = a * b + b /\ a * b = b * a /\ a * b \in Nat
                          /\ (a * 2) * b = a * b * 2
    BY SMT
  <1>4. \A a, b \in Nat : a > 0 /\ b > 0 => a * b > 0
    BY SMT
  <1>5. Capacity \in Nat /\ Capacity > 0 /\ Read \in Nat
    BY <1>1, <1>3, <1>4 DEF Capacity, Read
  <1>6. i <= n_blocks => Read <= Capacity
    BY <1>1, <1>2 DEF Capacity, Read
  <1>7. (i + 1) * Bs = Read + Bs
    BY <1>1, <1>3 DEF Read
  <1>8. i < n_blocks => Read + Bs <= Capacity
    <2>. SUFFICES ASSUME i < n_blocks PROVE (i + 1) * Bs <= n_blocks * Bs
      BY <1>7 DEF Capacity
    <2>1. i + 1 <= n_blocks /\ i + 1 \in Nat
      BY <1>1
    <2>. QED BY <1>1, <1>2, <2>1
  <1>. QED BY <1>1, <1>3, <1>5, <1>6, <1>7, <1>8 DEF Capacity, Read, NewSize, Copied

LEMMA InitInv == Init => IInv
  <1>. SUFFICES ASSUME Init PROVE IInv
    OBVIOUS
  <1>1. Read = 0
    BY DEF Init, Read
  <1>2. TypeOK
    <2>1. lost \in BOOLEAN /\ rc \in {"none", "success", "error", "out_of_resources"}
      BY DEF Init
    <2>2. pos \in 0..file /\ file \in 0..MaxFile
      BY DEF Init
    <2>. QED BY <2>1, <2>2 DEF Init, TypeOK
  <1>3. PagesInv
    <2>1. buf = 0 /\ newb = 0 /\ pages = 0 /\ pc = "grow"
      BY DEF Init
    <2>2. Pages(buf) = 0 /\ Pages(newb) = 0
      BY <2>1, PagesType
    <2>. QED BY <2>1, <2>2 DEF PagesInv
  <1>. QED BY <1>1, <1>2, <1>3 DEF Init, IInv, BufferInv, ContentsInv

LEMMA NextInv == IInv /\ [Next]_vars => IInv'
  <1>. SUFFICES ASSUME IInv, [Next]_vars PROVE IInv'
    OBVIOUS
  <1>0. /\ Capacity \in Nat /\ Capacity > 0 /\ Read \in Nat
        /\ (n_blocks * 2) * Bs = Capacity * 2
        /\ NewSize = Capacity * 2 /\ Copied = Capacity /\ Bs * n_blocks = Capacity
        /\ (i + 1) * Bs = Read + Bs /\ Bs * i = Read
        /\ i <= n_blocks => Read <= Capacity
        /\ i < n_blocks => Read + Bs <= Capacity
    BY Products DEF IInv
  <1>a. /\ Pages(buf) \in Nat /\ Pages(newb) \in Nat /\ Pages(0) = 0
        /\ Pages(Capacity * 2) \in Nat
    BY <1>0, PagesType DEF IInv, TypeOK
  <1>. USE DEF IInv
  <1>1. CASE MallocFails
    <2>1. /\ pc = "grow" /\ pc' = "done" /\ rc' = "out_of_resources" /\ lost' = (buf # 0)
          /\ UNCHANGED <<file, pos, n_blocks, i, buf, newb, held, pages, size>>
      BY <1>1 DEF MallocFails
    <2>2. newb = 0 /\ pages = Pages(buf) + Pages(newb)
      BY <2>1 DEF BufferInv, PagesInv
    <2>3. pages = Pages(buf)
      BY <1>a, <2>2
    <2>4. buf = 0 => pages = 0
      BY <1>a, <2>3
    <2>5. PagesInv'
      BY <2>1, <2>3, <2>4 DEF PagesInv
    <2>. QED BY <2>1, <2>5 DEF TypeOK, BufferInv, ContentsInv
  <1>2. CASE Malloc
    <2>1. /\ pc = "grow" /\ pc' = "copy" /\ newb' = Capacity * 2
          /\ pages' = pages + Pages(Capacity * 2)
          /\ UNCHANGED <<file, pos, n_blocks, i, buf, held, lost, rc, size>>
      BY <1>0, <1>2 DEF Malloc
    <2>2. pages = Pages(buf)
      BY <1>a, <2>1 DEF BufferInv, PagesInv
    <2>3. PagesInv'
      BY <2>1, <2>2 DEF PagesInv
    <2>4. pages' \in Nat
      BY <1>a, <2>1, <2>2
    <2>. QED BY <1>0, <2>1, <2>3, <2>4 DEF TypeOK, BufferInv, ContentsInv, Capacity, Read
  <1>3. CASE Replace
    <2>1. /\ pc = "copy" /\ pc' = "read" /\ buf' = newb /\ newb' = 0
          /\ n_blocks' = n_blocks * 2
          /\ UNCHANGED <<file, pos, i, lost, rc, size>>
      BY <1>3 DEF Replace
    <2>2. Capacity' = Capacity * 2 /\ Read' = Read
      BY <1>0, <2>1 DEF Capacity, Read
    <2>3. held' = Read
      <3>1. held = Read
        BY <2>1 DEF ContentsInv
      <3>2. CASE buf = 0
        BY <1>3, <2>1, <3>2 DEF Replace, BufferInv, Read, TypeOK
      <3>3. CASE buf # 0
        BY <1>0, <1>3, <2>1, <3>1, <3>3 DEF Replace, BufferInv, Smaller, TypeOK
      <3>. QED BY <3>2, <3>3
    <2>4. pages' = Pages(buf') /\ pages' \in Nat
      BY <1>0, <1>a, <1>3, <2>1 DEF Replace, BufferInv, PagesInv
    <2>5. TypeOK'
      BY <1>0, <2>1, <2>3, <2>4 DEF TypeOK
    <2>6. BufferInv'
      BY <2>1, <2>2, <1>0 DEF BufferInv, TypeOK
    <2>7. PagesInv'
      <3>1. Pages(newb') = 0
        BY <1>a, <2>1
      <3>2. pages' = Pages(buf') + Pages(newb')
        BY <2>4, <2>5, <3>1 DEF TypeOK
      <3>. QED BY <2>1, <3>2 DEF PagesInv
    <2>8. ContentsInv'
      BY <2>1, <2>2, <2>3 DEF ContentsInv, TypeOK
    <2>. QED BY <2>5, <2>6, <2>7, <2>8
  <1>4. CASE ReadBlock
    <2>1. /\ pc = "read" /\ pc' = "read" /\ i < n_blocks /\ i' = i + 1
          /\ pos' = pos + Bs /\ Bs <= file - pos
          /\ UNCHANGED <<file, n_blocks, buf, newb, pages, lost, rc, size>>
      BY <1>4 DEF ReadBlock, MoreBlocks, Available, Smaller, TypeOK
    <2>2. Capacity' = Capacity /\ Read' = Read + Bs
      BY <1>0, <2>1 DEF Capacity, Read
    <2>3. held' = Read'
      BY <1>4, <2>1, <2>2 DEF ReadBlock, Store, ContentsInv, Read
    <2>4. PagesInv'
      BY <2>1 DEF PagesInv
    <2>. QED BY <1>0, <2>1, <2>2, <2>3, <2>4 DEF TypeOK, BufferInv, ContentsInv
  <1>5. CASE ReadLast
    <2>1. /\ pc = "read" /\ pc' = "done" /\ i < n_blocks
          /\ Available = file - pos /\ Available < Bs /\ Available \in Nat
          /\ pos' = pos + Available
          /\ size' = Read + Available /\ rc' = "success"
          /\ UNCHANGED <<file, n_blocks, i, buf, newb, pages, lost>>
      BY <1>0, <1>5 DEF ReadLast, MoreBlocks, Available, Smaller, TypeOK
    <2>2. held = Read /\ pos = Read /\ buf = Capacity
      BY <2>1 DEF ContentsInv, BufferInv
    <2>3. held' = Read + Available
      BY <1>5, <2>1, <2>2 DEF ReadLast, Store, Read
    <2>4. file = Read + Available /\ size' <= buf
      BY <1>0, <2>1, <2>2 DEF TypeOK
    <2>5. PagesInv'
      <3>1. newb = 0
        BY <2>1 DEF BufferInv
      <3>. QED BY <1>a, <2>1, <3>1 DEF PagesInv
    <2>. QED BY <1>0, <2>1, <2>2, <2>3, <2>4, <2>5 DEF TypeOK, BufferInv, ContentsInv
  <1>6. CASE ReadFails
    <2>1. pages' = 0
      BY <1>0, <1>a, <1>6 DEF ReadFails, BufferInv, PagesInv
    <2>. QED BY <1>0, <1>6, <2>1 DEF ReadFails, TypeOK, BufferInv, ContentsInv, PagesInv
  <1>7. CASE BufferFull
    BY <1>0, <1>7 DEF BufferFull, MoreBlocks, TypeOK, BufferInv, ContentsInv, PagesInv,
       Capacity, Read
  <1>8. CASE UNCHANGED vars
    BY <1>8 DEF vars, TypeOK, BufferInv, ContentsInv, PagesInv, Capacity, Read
  <1>. QED BY <1>1, <1>2, <1>3, <1>4, <1>5, <1>6, <1>7, <1>8 DEF Next

THEOREM Invariant == Spec => []IInv
  BY InitInv, NextInv, PTL DEF Spec

\* The sizes, the buffer and the result keep their types in any read.
THEOREM TypeCorrect == Spec => []TypeOK
  BY Invariant, PTL DEF IInv

\* No block and no copy is written beyond the pages allocated for it.
THEOREM BlocksInside == Spec => []WritesInside
  <1>1. IInv => WritesInside
    <2>. SUFFICES ASSUME IInv PROVE WritesInside
      OBVIOUS
    <2>. QED BY Products DEF IInv, BufferInv, WritesInside, MoreBlocks, Read, TypeOK
  <1>. QED BY <1>1, Invariant, PTL

\* What fwup_read_file returns with success is the file: its size and bytes.
THEOREM FileIsWhole == Spec => []WholeFile
  <1>1. IInv => WholeFile
    BY DEF IInv, ContentsInv, WholeFile
  <1>. QED BY <1>1, Invariant, PTL

\* Pages are freed by the size they were allocated with; only the buffer a
\* failing replacement leaves behind is not freed on an error.
THEOREM PagesBalance == Spec => []PagesFreed
  <1>1. IInv => PagesFreed
    BY DEF IInv, PagesInv, PagesFreed
  <1>. QED BY <1>1, Invariant, PTL

\* A caller cannot tell fwup_read_file from a read in one step.
THEOREM RefinesWholeRead == Spec => ImplementsWholeRead
  <1>1. Init => Whole!Init
    BY DEF Init, Whole!Init, Whole!Nothing
  <1>2. IInv /\ IInv' /\ [Next]_vars => [Whole!Read]_(Whole!vars)
    <2>. SUFFICES ASSUME IInv, IInv', [Next]_vars PROVE [Whole!Read]_(Whole!vars)
      OBVIOUS
    <2>1. CASE MallocFails
      <3>1. rc = "none" /\ rc' = "out_of_resources" /\ UNCHANGED file
        BY <2>1 DEF MallocFails, IInv, ContentsInv
      <3>. QED BY <3>1 DEF Whole!Read
    <2>2. CASE ReadLast
      <3>1. rc = "none" /\ rc' = "success" /\ UNCHANGED file
        BY <2>2 DEF ReadLast, IInv, ContentsInv
      <3>2. size' = file' /\ held' = file'
        BY <3>1 DEF IInv, ContentsInv
      <3>. QED BY <3>1, <3>2 DEF Whole!Read
    <2>3. CASE ReadFails
      <3>1. rc = "none" /\ rc' = "error" /\ UNCHANGED file
        BY <2>3 DEF ReadFails, IInv, ContentsInv
      <3>. QED BY <3>1 DEF Whole!Read
    <2>4. CASE Malloc \/ Replace \/ ReadBlock \/ BufferFull
      <3>1. rc = "none" /\ UNCHANGED <<file, rc>>
        BY <2>4 DEF Malloc, Replace, ReadBlock, BufferFull, IInv, ContentsInv
      <3>. QED BY <3>1 DEF Whole!vars
    <2>5. CASE UNCHANGED vars
      BY <2>5 DEF vars, Whole!vars
    <2>. QED BY <2>1, <2>2, <2>3, <2>4, <2>5 DEF Next
  <1>. QED BY <1>1, <1>2, Invariant, PTL DEF Spec, ImplementsWholeRead, Whole!Spec

\* The steps left at most: a block is read from what is left of the file, and
\* between two blocks the buffer is replaced at most once, because the new one
\* is never full.
StepsLeft ==
    5 * (file - pos) +
      CASE pc = "read" /\ ~MoreBlocks -> 4
        [] pc = "grow" -> 3
        [] pc = "copy" -> 2
        [] pc = "read" /\ MoreBlocks -> 1
        [] pc = "done" -> 0

\* The loop of fwup_read_file, which has no condition, makes less than five
\* steps for each byte of the file: every step leaves fewer to be made.
THEOREM LoopIsBounded ==
    Spec => /\ [](StepsLeft \in 0..5 * file + 4)
            /\ [][StepsLeft' < StepsLeft]_vars
  <1>1. ASSUME TypeOK PROVE StepsLeft \in 0..5 * file + 4
    BY <1>1 DEF StepsLeft, TypeOK
  <1>2. ASSUME IInv, Next PROVE StepsLeft' < StepsLeft
    <2>1. /\ file \in Nat /\ pos \in 0..file /\ n_blocks \in Nat /\ i \in Nat /\ Bs > 0
          /\ n_blocks > 0 /\ file' = file
      BY <1>2 DEF IInv, TypeOK, Next, MallocFails, Malloc, Replace, ReadBlock, ReadLast, ReadFails,
                  BufferFull
    <2>2. CASE MallocFails \/ Malloc \/ ReadFails
      BY <2>1, <2>2 DEF MallocFails, Malloc, ReadFails, StepsLeft
    <2>3. CASE Replace
      <3>1. pc = "copy" /\ pc' = "read" /\ pos' = pos /\ i <= n_blocks /\ i' = i
            /\ n_blocks' = n_blocks * 2
        BY <1>2, <2>1, <2>3 DEF Replace, IInv, BufferInv
      <3>2. MoreBlocks'
        BY <2>1, <3>1 DEF MoreBlocks
      <3>. QED BY <2>1, <3>1, <3>2 DEF StepsLeft
    <2>4. CASE ReadBlock
      <3>1. pc = "read" /\ pc' = "read" /\ MoreBlocks /\ pos' = pos + Bs
        BY <2>4 DEF ReadBlock
      <3>2. 5 * (file' - pos') + 4 < 5 * (file - pos) + 1
        BY <2>1, <3>1
      <3>3. StepsLeft' <= 5 * (file' - pos') + 4 /\ StepsLeft = 5 * (file - pos) + 1
        BY <2>1, <3>1 DEF StepsLeft
      <3>. QED BY <2>1, <3>1, <3>2, <3>3 DEF StepsLeft
    <2>5. CASE ReadLast
      <3>1. /\ pc = "read" /\ pc' = "done" /\ MoreBlocks
            /\ pos' = pos + Available /\ Available \in Nat
        BY <2>1, <2>5 DEF ReadLast, Available, Smaller
      <3>. QED BY <2>1, <3>1 DEF StepsLeft
    <2>6. CASE BufferFull
      BY <2>1, <2>6 DEF BufferFull, StepsLeft
    <2>. QED BY <1>2, <2>2, <2>3, <2>4, <2>5, <2>6 DEF Next
  <1>3. IInv => StepsLeft \in 0..5 * file + 4
    BY <1>1 DEF IInv
  <1>4. IInv /\ [Next]_vars => [StepsLeft' < StepsLeft]_vars
    BY <1>2
  <1>. QED BY <1>3, <1>4, Invariant, PTL DEF Spec
==============================================================================
