-------------------------- MODULE BootMemory_proofs --------------------------
(***************************************************************************)
(* Proofs about BootMemory, for any number of variables and any size of    *)
(* the table: nothing is freed twice or while it is needed, and what a     *)
(* return leaves behind is known.                                          *)
(***************************************************************************)
EXTENDS BootMemory, SequenceTheorems, TLAPS

Reading == {"update", "info", "name", "entry"}
Step1   == {"start", "populate", "next"} \cup Reading
Adding  == {"search", "match", "filename", "volume", "file", "read", "check"}
Later   == {"mark", "apply", "reset"}

\* The table holds variables that were read before the one at hand.
TableInv ==
    /\ pc \in Step1 => n <= NumVars /\ loaded = {} /\ (\A u \in Range(updates) : u <= n)
    /\ pc \in Reading => n \in Names /\ (\A u \in Range(updates) : u < n)
                       /\ Len(updates) < MaxUpdates
    /\ pc = "entry" => Entry(n) \subseteq cleanup
    /\ pc = "name" => {Of("update", n), Of("info", n)} \subseteq cleanup
    /\ pc = "info" => Of("update", n) \in cleanup

\* The capsules are those of updates in the table.
BuildInv ==
    /\ pc \in {"capsules", "cbd", "open"} \cup Adding \cup Later => updates # <<>>
    /\ pc \in {"open"} \cup Adding \cup Later => Only("cbd_data") \in heap
    /\ pc \in Adding => n \in 1..Len(updates)
    /\ pc = "open" => n > 0
    /\ loaded \subseteq Range(updates)
    /\ loaded # {} /\ pc # "returned" /\ "capsules" \notin null_written
           => Only("capsules") \in cleanup
    /\ pc \in Later => loaded # {}

\* What no cleanup attribute ever owns.
FreeInv ==
    /\ \A o \in cleanup : o # Only("cbd_data") /\ \A u : o # Of("fh", u) /\ o # Of("fbuf", u)
    /\ \A u \in loaded : Of("fbuf", u) \in heap
    /\ pc = "check" => Of("fbuf", Update) \in heap

\* What nobody owns.
OwnInv ==
    /\ heap \subseteq cleanup \cup Unowned
    /\ pc = "returned" => cleanup = {}

IInv == TypeOK /\ FreedOnce /\ TableLive /\ TableInv /\ BuildInv /\ FreeInv /\ OwnInv

------------------------------------------------------------------------------

LEMMA OfFacts ==
    /\ \A k1, k2, u1, u2 : Of(k1, u1) = Of(k2, u2) <=> k1 = k2 /\ u1 = u2
    /\ \A k : Only(k) = Of(k, 0)
  BY DEF Of, Only

LEMMA ObjectFacts ==
    /\ \A k \in Once : Only(k) \in Objects
    /\ \A k \in Each, u \in Names : Of(k, u) \in Objects
  BY DEF Of, Only, Objects

LEMMA RangeFacts ==
    ASSUME TypeOK
    PROVE  /\ Range(updates) \subseteq Names
           /\ \A p \in 1..Len(updates) : updates[p] \in Range(updates)
           /\ Range(updates) = {} <=> updates = <<>>
           /\ \A m \in Names : Range(Append(updates, m)) = Range(updates) \cup {m}
  <1>1. DOMAIN updates = 1..Len(updates) /\ Len(updates) \in Nat
    BY DEF TypeOK
  <1>2. Range(updates) = {updates[p] : p \in 1..Len(updates)}
    BY <1>1, Zenon DEF Range
  <1>3. \A p \in 1..Len(updates) : updates[p] \in Names
    BY ElementOfSeq DEF TypeOK
  <1>4. updates = <<>> <=> Len(updates) = 0
    BY EmptySeq DEF TypeOK
  <1>5. ASSUME NEW m \in Names
        PROVE  Range(Append(updates, m)) = Range(updates) \cup {m}
    <2>1. /\ DOMAIN Append(updates, m) = 1..Len(updates) + 1
          /\ \A p \in 1..Len(updates) : Append(updates, m)[p] = updates[p]
          /\ Append(updates, m)[Len(updates) + 1] = m
      BY AppendProperties DEF TypeOK
    <2>2. Range(Append(updates, m)) = {Append(updates, m)[p] : p \in 1..Len(updates) + 1}
      BY <2>1, Zenon DEF Range
    <2>3. \A p : p \in 1..Len(updates) + 1 <=> p \in 1..Len(updates) \/ p = Len(updates) + 1
      BY <1>1
    <2>4. ASSUME NEW x \in Range(Append(updates, m)) PROVE x \in Range(updates) \cup {m}
      <3>1. PICK p \in 1..Len(updates) + 1 : x = Append(updates, m)[p]
        BY <2>2, <2>4
      <3>. QED BY <3>1, <1>2, <2>1, <2>3
    <2>5. ASSUME NEW x \in Range(updates) PROVE x \in Range(Append(updates, m))
      <3>1. PICK p \in 1..Len(updates) : x = updates[p]
        BY <1>2, <2>5
      <3>. QED BY <3>1, <2>1, <2>2, <2>3
    <2>6. m \in Range(Append(updates, m))
      BY <1>1, <2>1, <2>2
    <2>. QED BY <2>4, <2>5, <2>6
  <1>6. Range(updates) = {} <=> updates = <<>>
    <2>1. CASE Len(updates) = 0
      BY <2>1, <1>2, <1>4
    <2>2. CASE Len(updates) # 0
      <3>1. 1 \in 1..Len(updates)
        BY <2>2, <1>1
      <3>. QED BY <3>1, <2>2, <1>2, <1>4
    <2>. QED BY <2>1, <2>2
  <1>7. Range(updates) \subseteq Names
    BY <1>2, <1>3
  <1>8. \A p \in 1..Len(updates) : updates[p] \in Range(updates)
    BY <1>2
  <1>. QED BY <1>5, <1>6, <1>7, <1>8

LEMMA InitInv == ASSUME Init PROVE IInv
  <1>1. Range(updates) = {}
    BY DEF Init, Range
  <1>2. TypeOK
    <2>1. updates \in Seq(Names) /\ Len(updates) = 0
      BY EmptySeq DEF Init
    <2>2. Len(updates) <= MaxUpdates
      BY <2>1, SizesAssumption
    <2>. QED BY <2>1, <2>2 DEF Init, TypeOK, Places
  <1>3. FreedOnce /\ TableLive /\ FreeInv /\ OwnInv
    BY <1>1 DEF Init, FreedOnce, TableLive, FreeInv, OwnInv
  <1>4. TableInv /\ BuildInv
    BY <1>1, SizesAssumption DEF Init, TableInv, BuildInv, Step1, Reading, Adding, Later
  <1>. QED BY <1>2, <1>3, <1>4 DEF IInv

\* The kinds an update in the table accounts for.
Loose == {"update", "info", "name", "strings", "root", "fh", "fbuf", "handles"}

LEMMA UnownedIs ==
    /\ \A u \in Range(updates) : Entry(u) \cup Leaked(u) \subseteq Unowned
    /\ \A o \in Unowned : \E u \in Range(updates) : o \in Entry(u) \cup Leaked(u)
  <1>1. ASSUME NEW u \in Range(updates) PROVE Entry(u) \cup Leaked(u) \subseteq Unowned
    <2>. DEFINE S == {Entry(v) \cup Leaked(v) : v \in Range(updates)}
    <2>1. Entry(u) \cup Leaked(u) \in S
      OBVIOUS
    <2>. HIDE DEF S
    <2>2. UNION S \subseteq Unowned
      BY DEF S, Unowned
    <2>. QED BY <2>1, <2>2
  <1>2. ASSUME NEW o \in Unowned
        PROVE  \E u \in Range(updates) : o \in Entry(u) \cup Leaked(u)
    BY DEF Unowned
  <1>. QED BY <1>1, <1>2

LEMMA UnownedFacts ==
    /\ \A u \in Range(updates), k \in Loose : Of(k, u) \in Unowned
    /\ \A u \in Range(updates) : Only("cbd_data") \in Unowned
  BY UnownedIs DEF Entry, Leaked, Loose

LEMMA UnownedSame == ASSUME UNCHANGED updates PROVE Unowned' = Unowned
  BY DEF Unowned

LEMMA ReturnInv == ASSUME IInv, Return PROVE IInv'
  <1>1. Unowned' = Unowned
    BY UnownedSame DEF Return
  <1>. QED BY <1>1 DEF Return, IInv, TypeOK, FreedOnce, TableLive, TableInv, BuildInv,
                       FreeInv, OwnInv, Step1, Reading, Adding, Later, Places

LEMMA UnownedGrows ==
    ASSUME NEW m \in Names, TypeOK, updates' = Append(updates, m)
    PROVE  Unowned \subseteq Unowned' /\ Entry(m) \subseteq Unowned'
  <1>1. Range(updates') = Range(updates) \cup {m}
    BY RangeFacts
  <1>. DEFINE S == {Entry(u) \cup Leaked(u) : u \in Range(updates)}
  <1>2. S \subseteq S' /\ Entry(m) \cup Leaked(m) \in S'
    BY <1>1 DEF Entry, Leaked
  <1>3. Unowned = UNION S /\ Unowned' = UNION S'
    BY DEF Unowned, Entry, Leaked
  <1>. HIDE DEF S
  <1>. QED BY <1>2, <1>3

LEMMA NameFacts ==
    /\ \A m \in Names : m \in Nat /\ 0 < m /\ m <= NumVars
    /\ \A m \in Nat : m < NumVars => m + 1 \in Names
  BY SizesAssumption DEF Names

LEMMA UpdateFacts ==
    ASSUME IInv, pc \in Adding \/ (pc = "open" /\ n <= Len(updates))
    PROVE  Update \in Range(updates) /\ Update \in Names
  <1>1. TypeOK /\ n \in 1..Len(updates)
    BY DEF IInv, BuildInv, TypeOK
  <1>. QED BY <1>1, RangeFacts DEF Update

------------------------------------------------------------------------------
(* Every step but a return preserves each part of the invariant. *)

\* Only objects of this boot are allocated.
LEMMA HeapStep ==
    ASSUME IInv, Next, ~Return
    PROVE  heap' \subseteq Objects
  <1>. USE DEF IInv, TypeOK, TableInv, Once, Each, Adding, Reading, Own, Hold, Leave,
           Goto, Ignore, Entry, Temporaries, TakeInfo, StealUpdate, OwnName, ReadIn
  <1>1. TypeOK
    BY DEF IInv
  <1>2. CASE Populate
    BY <1>1, <1>2, ObjectFacts, UpdateFacts
       DEF Populate, NewUpdates, NewVariableName, NextVariable, GetNextFails,
           NewUpdate, ReadInfo, CopyName, AddUpdate, NotArmed, EndOfVariables
  <1>3. CASE Build
    BY <1>1, <1>3, ObjectFacts, UpdateFacts
       DEF Build, NewCapsules, NewCbdData, Locate, Search, Match, NewFilename,
           OpenVolume, OpenFile, ReadFile, CheckCapsule, EndOfUpdates
  <1>4. CASE SetStatuses \/ ApplyCapsules \/ ResetSystem
    BY <1>1, <1>4, ObjectFacts, UpdateFacts
       DEF SetStatuses, ApplyCapsules, ResetSystem
  <1>. QED BY <1>2, <1>3, <1>4 DEF Next

\* The table does not grow beyond its size.
LEMMA TableStep ==
    ASSUME IInv, Next, ~Return, ~AddUpdate
    PROVE  updates' \in Seq(Names) /\ Len(updates') <= MaxUpdates /\ n' \in Nat
  <1>. USE DEF IInv, TypeOK, TableInv, Goto, Ignore, Reading
  <1>1. TypeOK
    BY DEF IInv
  <1>2. CASE Populate
    BY <1>1, <1>2, NameFacts, SizesAssumption
       DEF Populate, NewUpdates, NewVariableName, NextVariable, GetNextFails,
           NewUpdate, ReadInfo, CopyName, NotArmed, EndOfVariables
  <1>3. CASE Build
    BY <1>1, <1>3, NameFacts, SizesAssumption
       DEF Build, NewCapsules, NewCbdData, Locate, Search, Match, NewFilename,
           OpenVolume, OpenFile, ReadFile, CheckCapsule, EndOfUpdates
  <1>4. CASE SetStatuses \/ ApplyCapsules \/ ResetSystem
    BY <1>1, <1>4, NameFacts, SizesAssumption
       DEF SetStatuses, ApplyCapsules, ResetSystem
  <1>. QED BY <1>2, <1>3, <1>4 DEF Next

LEMMA AddUpdateStep ==
    ASSUME IInv, AddUpdate
    PROVE  /\ updates' \in Seq(Names) /\ Len(updates') <= MaxUpdates /\ n' \in Nat
           /\ OwnInv'
  <1>1. /\ TypeOK /\ n \in Names /\ Len(updates) < MaxUpdates
        /\ updates' = Append(updates, n)
    BY DEF AddUpdate, IInv, TableInv, Reading
  <1>2. updates' \in Seq(Names) /\ Len(updates') = Len(updates) + 1
    BY <1>1, AppendProperties DEF TypeOK
  <1>3. Len(updates) \in Nat
    BY LenProperties, <1>1 DEF TypeOK
  <1>4. n' \in Nat
    BY <1>1 DEF AddUpdate, TypeOK
  <1>5. Unowned \subseteq Unowned' /\ Entry(n) \subseteq Unowned'
    BY <1>1, UnownedGrows
  <1>6. OwnInv'
    BY <1>5 DEF AddUpdate, StealUpdate, OwnInv, IInv
  <1>. QED BY <1>1, <1>2, <1>3, <1>4, <1>6, SizesAssumption

\* What is loaded are variables.
LEMMA RestStep ==
    ASSUME IInv, Next, ~Return
    PROVE  loaded' \subseteq Names /\ null_written' \subseteq {"capsules", "filename"}
  <1>. USE DEF IInv, TypeOK, Goto, Ignore, Adding
  <1>1. TypeOK
    BY DEF IInv
  <1>2. CASE Populate
    BY <1>1, <1>2, UpdateFacts
       DEF Populate, NewUpdates, NewVariableName, NextVariable, GetNextFails,
           NewUpdate, ReadInfo, CopyName, AddUpdate, NotArmed, EndOfVariables
  <1>3. CASE Build
    BY <1>1, <1>3, UpdateFacts
       DEF Build, NewCapsules, NewCbdData, Locate, Search, Match, NewFilename,
           OpenVolume, OpenFile, ReadFile, CheckCapsule, EndOfUpdates
  <1>4. CASE SetStatuses \/ ApplyCapsules \/ ResetSystem
    BY <1>1, <1>4, UpdateFacts
       DEF SetStatuses, ApplyCapsules, ResetSystem
  <1>. QED BY <1>2, <1>3, <1>4 DEF Next

\* Every step leads to a place of the program.
LEMMA PcStep ==
    ASSUME IInv, Next, ~Return
    PROVE  pc' \in Places
  <1>. USE DEF IInv, TypeOK, Goto, Ignore, Places
  <1>1. TypeOK
    BY DEF IInv
  <1>2. CASE Populate
    BY <1>1, <1>2
       DEF Populate, NewUpdates, NewVariableName, NextVariable, GetNextFails,
           NewUpdate, ReadInfo, CopyName, AddUpdate, NotArmed, EndOfVariables
  <1>3. CASE Build
    BY <1>1, <1>3
       DEF Build, NewCapsules, NewCbdData, Locate, Search, Match, NewFilename,
           OpenVolume, OpenFile, ReadFile, CheckCapsule, EndOfUpdates
  <1>4. CASE SetStatuses \/ ApplyCapsules \/ ResetSystem
    BY <1>1, <1>4
       DEF SetStatuses, ApplyCapsules, ResetSystem
  <1>. QED BY <1>2, <1>3, <1>4 DEF Next

\* What an open scope owns is allocated.
LEMMA FreedOnceStep ==
    ASSUME IInv, Next, ~Return
    PROVE  FreedOnce'
  <1>. USE DEF FreedOnce, FreeInv, IInv, TypeOK, TableInv, BuildInv, Own, Hold, Leave,
           Goto, Ignore, Entry, Temporaries, TakeInfo, StealUpdate, OwnName, ReadIn,
           Step1, Reading, Adding, Later
  <1>1. TypeOK
    BY DEF IInv
  <1>2. CASE Populate
    BY <1>1, <1>2, OfFacts
       DEF Populate, NewUpdates, NewVariableName, NextVariable, GetNextFails,
           NewUpdate, ReadInfo, CopyName, AddUpdate, NotArmed, EndOfVariables
  <1>3. CASE Build
    BY <1>1, <1>3, OfFacts
       DEF Build, NewCapsules, NewCbdData, Locate, Search, Match, NewFilename,
           OpenVolume, OpenFile, ReadFile, CheckCapsule, EndOfUpdates
  <1>4. CASE SetStatuses \/ ApplyCapsules \/ ResetSystem
    BY <1>1, <1>4, OfFacts
       DEF SetStatuses, ApplyCapsules, ResetSystem
  <1>. QED BY <1>2, <1>3, <1>4 DEF Next

\* Nothing frees an entry of the table.
LEMMA TableLiveStep ==
    ASSUME IInv, Next, ~Return
    PROVE  TableLive'
  <1>. USE DEF TableLive, FreedOnce, FreeInv, IInv, TypeOK, TableInv, BuildInv, Own,
           Hold, Leave, Goto, Ignore, Entry, Temporaries, TakeInfo, StealUpdate,
           OwnName, ReadIn, Step1, Reading, Adding, Later
  <1>1. TypeOK
    BY DEF IInv
  <1>2. CASE Populate
    <2>1. CASE NewUpdates
      BY <1>1, <2>1, OfFacts, RangeFacts DEF NewUpdates
    <2>2. CASE NewVariableName
      BY <1>1, <2>2, OfFacts, RangeFacts DEF NewVariableName
    <2>3. CASE NextVariable
      BY <1>1, <2>3, OfFacts, RangeFacts DEF NextVariable
    <2>4. CASE GetNextFails
      BY <1>1, <2>4, OfFacts, RangeFacts DEF GetNextFails
    <2>5. CASE NewUpdate
      BY <1>1, <2>5, OfFacts, RangeFacts DEF NewUpdate
    <2>6. CASE ReadInfo
      BY <1>1, <2>6, OfFacts, RangeFacts DEF ReadInfo
    <2>7. CASE CopyName
      BY <1>1, <2>7, OfFacts, RangeFacts DEF CopyName
    <2>8. CASE AddUpdate
      BY <1>1, <2>8, OfFacts, RangeFacts DEF AddUpdate
    <2>9. CASE NotArmed
      BY <1>1, <2>9, OfFacts, RangeFacts DEF NotArmed
    <2>10. CASE EndOfVariables
      BY <1>1, <2>10, OfFacts, RangeFacts DEF EndOfVariables
    <2>. QED BY <1>2, <2>1, <2>2, <2>3, <2>4, <2>5, <2>6, <2>7, <2>8, <2>9, <2>10 DEF Populate
  <1>3. CASE Build
    BY <1>1, <1>3, OfFacts, RangeFacts
       DEF Build, NewCapsules, NewCbdData, Locate, Search, Match, NewFilename,
           OpenVolume, OpenFile, ReadFile, CheckCapsule, EndOfUpdates
  <1>4. CASE SetStatuses \/ ApplyCapsules \/ ResetSystem
    BY <1>1, <1>4, OfFacts, RangeFacts
       DEF SetStatuses, ApplyCapsules, ResetSystem
  <1>. QED BY <1>2, <1>3, <1>4 DEF Next

\* The variable at hand is not in the table yet.
LEMMA TableInvStep ==
    ASSUME IInv, Next, ~Return
    PROVE  TableInv'
  <1>. USE DEF Room, IInv, TypeOK, TableInv, BuildInv, Own, Hold, Leave, Goto, Ignore,
           Entry, Temporaries, TakeInfo, StealUpdate, OwnName, ReadIn, Step1, Reading,
           Adding, Later
  <1>1. TypeOK
    BY DEF IInv
  <1>2. CASE Populate
    <2>1. CASE NewUpdates
      BY <1>1, <2>1, OfFacts, RangeFacts, NameFacts, SizesAssumption DEF NewUpdates
    <2>2. CASE NewVariableName
      BY <1>1, <2>2, OfFacts, RangeFacts, NameFacts, SizesAssumption DEF NewVariableName
    <2>3. CASE NextVariable
      BY <1>1, <2>3, OfFacts, RangeFacts, NameFacts, SizesAssumption DEF NextVariable
    <2>4. CASE GetNextFails
      BY <1>1, <2>4, OfFacts, RangeFacts, NameFacts, SizesAssumption DEF GetNextFails
    <2>5. CASE NewUpdate
      BY <1>1, <2>5, OfFacts, RangeFacts, NameFacts, SizesAssumption DEF NewUpdate
    <2>6. CASE ReadInfo
      BY <1>1, <2>6, OfFacts, RangeFacts, NameFacts, SizesAssumption DEF ReadInfo
    <2>7. CASE CopyName
      BY <1>1, <2>7, OfFacts, RangeFacts, NameFacts, SizesAssumption DEF CopyName
    <2>8. CASE AddUpdate
      BY <1>1, <2>8, OfFacts, RangeFacts, NameFacts, SizesAssumption DEF AddUpdate
    <2>9. CASE NotArmed
      BY <1>1, <2>9, OfFacts, RangeFacts, NameFacts, SizesAssumption DEF NotArmed
    <2>10. CASE EndOfVariables
      BY <1>1, <2>10, OfFacts, RangeFacts, NameFacts, SizesAssumption DEF EndOfVariables
    <2>. QED BY <1>2, <2>1, <2>2, <2>3, <2>4, <2>5, <2>6, <2>7, <2>8, <2>9, <2>10 DEF Populate
  <1>3. CASE Build
    BY <1>1, <1>3, OfFacts, RangeFacts, NameFacts, SizesAssumption
       DEF Build, NewCapsules, NewCbdData, Locate, Search, Match, NewFilename,
           OpenVolume, OpenFile, ReadFile, CheckCapsule, EndOfUpdates
  <1>4. CASE SetStatuses \/ ApplyCapsules \/ ResetSystem
    BY <1>1, <1>4, OfFacts, RangeFacts, NameFacts, SizesAssumption
       DEF SetStatuses, ApplyCapsules, ResetSystem
  <1>. QED BY <1>2, <1>3, <1>4 DEF Next

\* Capsules are of updates, and there is an array for them.
LEMMA BuildInvStep ==
    ASSUME IInv, Next, ~Return, ~CheckCapsule
    PROVE  BuildInv'
  <1>. USE DEF FreedOnce, FreeInv, IInv, TypeOK, TableInv, BuildInv, Own, Hold, Leave,
           Goto, Ignore, Entry, Temporaries, TakeInfo, StealUpdate, OwnName, ReadIn,
           Step1, Reading, Adding, Later
  <1>1. TypeOK
    BY DEF IInv
  <1>2. CASE Populate
    BY <1>1, <1>2, OfFacts, RangeFacts, UpdateFacts
       DEF Populate, NewUpdates, NewVariableName, NextVariable, GetNextFails,
           NewUpdate, ReadInfo, CopyName, AddUpdate, NotArmed, EndOfVariables
  <1>3. CASE Build
    <2>1. CASE NewCapsules
      BY <1>1, <2>1, OfFacts, RangeFacts, UpdateFacts DEF NewCapsules
    <2>2. CASE NewCbdData
      BY <1>1, <2>2, OfFacts, RangeFacts, UpdateFacts DEF NewCbdData
    <2>3. CASE Locate
      BY <1>1, <2>3, OfFacts, RangeFacts, UpdateFacts DEF Locate
    <2>4. CASE Search
      BY <1>1, <2>4, OfFacts, RangeFacts, UpdateFacts DEF Search
    <2>5. CASE Match
      BY <1>1, <2>5, OfFacts, RangeFacts, UpdateFacts DEF Match
    <2>6. CASE NewFilename
      BY <1>1, <2>6, OfFacts, RangeFacts, UpdateFacts DEF NewFilename
    <2>7. CASE OpenVolume
      BY <1>1, <2>7, OfFacts, RangeFacts, UpdateFacts DEF OpenVolume
    <2>8. CASE OpenFile
      BY <1>1, <2>8, OfFacts, RangeFacts, UpdateFacts DEF OpenFile
    <2>9. CASE ReadFile
      BY <1>1, <2>9, OfFacts, RangeFacts, UpdateFacts DEF ReadFile
    <2>10. CASE EndOfUpdates
      BY <1>1, <2>10, OfFacts, RangeFacts, UpdateFacts DEF EndOfUpdates
    <2>. QED BY <1>3, <2>1, <2>2, <2>3, <2>4, <2>5, <2>6, <2>7, <2>8, <2>9, <2>10 DEF Build
  <1>4. CASE SetStatuses \/ ApplyCapsules \/ ResetSystem
    BY <1>1, <1>4, OfFacts, RangeFacts, UpdateFacts
       DEF SetStatuses, ApplyCapsules, ResetSystem
  <1>. QED BY <1>2, <1>3, <1>4 DEF Next

\* No scope owns a file or its buffer.
LEMMA FreeInvStep ==
    ASSUME IInv, Next, ~Return, ~CheckCapsule
    PROVE  FreeInv'
  <1>. USE DEF FreeInv, FreedOnce, Update, IInv, TypeOK, TableInv, BuildInv, Own,
           Hold, Leave, Goto, Ignore, Entry, Temporaries, TakeInfo, StealUpdate,
           OwnName, ReadIn, Step1, Reading, Adding, Later
  <1>1. TypeOK
    BY DEF IInv
  <1>2. CASE Populate
    BY <1>1, <1>2, OfFacts
       DEF Populate, NewUpdates, NewVariableName, NextVariable, GetNextFails,
           NewUpdate, ReadInfo, CopyName, AddUpdate, NotArmed, EndOfVariables
  <1>3. CASE Build
    BY <1>1, <1>3, OfFacts
       DEF Build, NewCapsules, NewCbdData, Locate, Search, Match, NewFilename,
           OpenVolume, OpenFile, ReadFile, EndOfUpdates
  <1>4. CASE SetStatuses \/ ApplyCapsules \/ ResetSystem
    BY <1>1, <1>4, OfFacts
       DEF SetStatuses, ApplyCapsules, ResetSystem
  <1>. QED BY <1>2, <1>3, <1>4 DEF Next

LEMMA CheckCapsuleStep == ASSUME IInv, CheckCapsule PROVE BuildInv' /\ FreeInv'
  <1>1. /\ TypeOK /\ pc = "check" /\ pc' = "open"
        /\ UNCHANGED <<updates, cleanup>> /\ heap \subseteq heap' /\ n' = n + 1
        /\ loaded' \subseteq loaded \cup {Update}
    BY DEF CheckCapsule, Hold, IInv
  <1>2. FreeInv'
    BY <1>1 DEF FreeInv, IInv
  <1>3. ASSUME loaded' # {}, "capsules" \notin null_written'
        PROVE  Only("capsules") \in cleanup
    <2>1. CASE UNCHANGED <<loaded, null_written>>
      BY <1>1, <1>3, <2>1 DEF IInv, BuildInv
    <2>2. CASE null_written' = IF Only("capsules") \in heap
                               THEN null_written ELSE null_written \cup {"capsules"}
      <3>1. Only("capsules") \in heap
        BY <1>3, <2>2
      <3>2. ASSUME NEW u PROVE Only("capsules") \notin Entry(u) \cup Leaked(u)
        BY OfFacts DEF Entry, Leaked
      <3>. QED BY <3>1, <3>2, UnownedIs DEF IInv, OwnInv
    <2>. QED BY <2>1, <2>2 DEF CheckCapsule
  <1>4. /\ updates # <<>> /\ n \in 1..Len(updates)
        /\ Only("cbd_data") \in heap /\ loaded \subseteq Range(updates)
    BY <1>1 DEF IInv, BuildInv, Adding
  <1>5. loaded' \subseteq Range(updates)
    BY <1>1, <1>4, UpdateFacts DEF Adding
  <1>6. BuildInv'
    BY <1>1, <1>3, <1>4, <1>5 DEF BuildInv, Adding, Later
  <1>. QED BY <1>2, <1>6

\* What loses its owner is accounted for.
LEMMA OwnInvStep ==
    ASSUME IInv, Next, ~Return, ~AddUpdate
    PROVE  OwnInv'
  <1>. USE DEF OwnInv, Loose, FreedOnce, IInv, TypeOK, TableInv, BuildInv, Own, Hold,
           Leave, Goto, Ignore, Entry, Temporaries, TakeInfo, StealUpdate, OwnName,
           ReadIn, Step1, Reading, Adding, Later
  <1>1. TypeOK
    BY DEF IInv
  <1>2. CASE Populate
    BY <1>1, <1>2, OfFacts, RangeFacts, UnownedFacts, UnownedSame, UpdateFacts
       DEF Populate, NewUpdates, NewVariableName, NextVariable, GetNextFails,
           NewUpdate, ReadInfo, CopyName, NotArmed, EndOfVariables
  <1>3. CASE Build
    BY <1>1, <1>3, OfFacts, RangeFacts, UnownedFacts, UnownedSame, UpdateFacts
       DEF Build, NewCapsules, NewCbdData, Locate, Search, Match, NewFilename,
           OpenVolume, OpenFile, ReadFile, CheckCapsule, EndOfUpdates
  <1>4. CASE SetStatuses \/ ApplyCapsules \/ ResetSystem
    BY <1>1, <1>4, OfFacts, RangeFacts, UnownedFacts, UnownedSame, UpdateFacts
       DEF SetStatuses, ApplyCapsules, ResetSystem
  <1>. QED BY <1>2, <1>3, <1>4 DEF Next

------------------------------------------------------------------------------

LEMMA NextInv == ASSUME IInv, Next PROVE IInv'
  <1>1. CASE Return
    BY <1>1, ReturnInv
  <1>2. CASE ~Return
    <2>1. FreedOnce' /\ TableLive' /\ TableInv'
      BY <1>2, FreedOnceStep, TableLiveStep, TableInvStep
    <2>2. BuildInv' /\ FreeInv' /\ OwnInv'
      BY <1>2, BuildInvStep, FreeInvStep, CheckCapsuleStep, OwnInvStep, AddUpdateStep
    <2>3. TypeOK'
      <3>1. updates' \in Seq(Names) /\ Len(updates') <= MaxUpdates /\ n' \in Nat
        BY <1>2, TableStep, AddUpdateStep
      <3>2. heap' \subseteq Objects /\ cleanup' \subseteq Objects
        BY <1>2, <2>1, HeapStep DEF FreedOnce
      <3>. QED BY <1>2, <3>1, <3>2, RestStep, PcStep DEF TypeOK, Places
    <2>. QED BY <2>1, <2>2, <2>3 DEF IInv
  <1>. QED BY <1>1, <1>2

LEMMA StutterInv == ASSUME IInv, UNCHANGED vars PROVE IInv'
  BY DEF vars, IInv, TypeOK, FreedOnce, TableLive, TableInv, BuildInv, FreeInv,
         OwnInv, Unowned, Update

\* The invariant that the theorems below follow from.
THEOREM Invariant == Spec => []IInv
  <1>1. Init => IInv
    BY InitInv
  <1>2. IInv /\ [Next]_vars => IInv'
    BY NextInv, StutterInv
  <1>. QED BY <1>1, <1>2, PTL DEF Spec

\* The table never has more entries than updates[] has places
\* (fwupdate.c:163).
THEOREM TypeCorrect == Spec => []TypeOK
  <1>1. IInv => TypeOK
    BY DEF IInv
  <1>. QED BY <1>1, Invariant, PTL

\* No cleanup attribute frees what was freed, whatever fails (fwup-cleanups.h,
\* fwupdate.c:112 and 181).
THEOREM NothingFreedTwice == Spec => []FreedOnce
  <1>1. IInv => FreedOnce
    BY DEF IInv
  <1>. QED BY <1>1, Invariant, PTL

\* The entries stay for steps 2 and 3 (fwupdate.c:181).
THEOREM TableStaysLive == Spec => []TableLive
  <1>1. IInv => TableLive
    BY DEF IInv
  <1>. QED BY <1>1, Invariant, PTL

\* The firmware finds the capsules where it was told, until the reset
\* (fwupdate.c:456 and 636).
THEOREM CapsulesStayLive == Spec => []HandedOverLive
  <1>1. IInv => HandedOverLive
    <2>1. ASSUME IInv PROVE \A u \in loaded : Of("fbuf", u) \in heap \ cleanup
      BY <2>1 DEF IInv, FreeInv
    <2>2. ASSUME IInv, pc \in Later
          PROVE  /\ Only("cbd_data") \in heap
                 /\ "capsules" \notin null_written => Only("capsules") \in heap
      BY <2>2 DEF IInv, BuildInv, FreedOnce, Later
    <2>. QED BY <2>1, <2>2 DEF HandedOverLive, Later
  <1>. QED BY <1>1, Invariant, PTL

\* Nothing but the memory of the updates is left behind (fwupdate.c:602 to 640).
THEOREM ReturnsClean == Spec => []ReturnLeaves
  <1>1. IInv => ReturnLeaves
    BY DEF IInv, OwnInv, ReturnLeaves
  <1>. QED BY <1>1, Invariant, PTL
==============================================================================
