--------------------------- MODULE Fwupdate_proofs ---------------------------
(***************************************************************************)
(* The safety of Fwupdate for every number of variables, size of the       *)
(* table, and number of writes, failures and losses of power.              *)
(***************************************************************************)
EXTENDS Fwupdate, SequenceTheorems, FiniteSetTheorems, TLAPS

Later == {"mark", "query", "update", "reset"}

\* What is in memory while the program does not run, enumerates or builds.
MemoryInv ==
    /\ pc = "idle" => Cleared
    /\ pc \in {"idle", "next", "seen"} => capsules = <<>> /\ i = 1
    /\ pc = "build" => i <= Len(updates) + 1 /\ Len(capsules) < i
    /\ pc \in Later => capsules # <<>>

\* The table follows the order of the enumeration, so no update is in it
\* twice and the variable just found is not in it yet.
TableInv ==
    /\ Len(updates) <= MaxUpdates
    /\ \A p, q \in 1..Len(updates) : p < q => updates[p] < updates[q]
    /\ \A p \in 1..Len(updates) : updates[p] <= variable_name
    /\ pc = "seen" /\ got = "success" =>
          /\ variable_name \in Names \ Huge
          /\ \A p \in 1..Len(updates) : updates[p] < variable_name

\* The capsules are those of some of the updates, in the same order.
CapsulesInv ==
    /\ Len(capsules) <= Len(updates)
    /\ \A p, q \in 1..Len(capsules) : p < q => capsules[p] < capsules[q]
    /\ \A p \in 1..Len(capsules) : \E q \in 1..Len(updates) :
          capsules[p] = updates[q] /\ (pc = "build" => q < i)

DescriptorsInv ==
    /\ \A p \in 1..Len(capsules) : cbd_data[p] = capsules[p]
    /\ pc \in Later => cbd_data[Len(capsules) + 1] = Terminator

\* Every update is armed until it is marked.
MarkInv ==
    /\ pc \in {"next", "seen", "build"} =>
          \A p \in 1..Len(updates) : nvram[updates[p]] = "armed"
    /\ pc = "mark" => \A p \in 1..Len(updates) :
          nvram[updates[p]] = IF p < i THEN "attempted" ELSE "armed"
    /\ pc = "mark" => i <= Len(updates) + 1
    /\ pc \in {"query", "update", "reset"} =>
          \A p \in 1..Len(updates) : nvram[updates[p]] = "attempted"

\* Nothing that may still be delivered was delivered before.
SentInv ==
    /\ \A n \in Names : sent[n] <= 1
    /\ \A n \in Names : nvram[n] = "armed" => sent[n] = 0

PendingInv ==
    pc \in {"query", "update", "mark"} =>
        \A p \in 1..Len(updates) : sent[updates[p]] = 0

IInv ==
    /\ TypeOK
    /\ MemoryInv
    /\ TableInv
    /\ CapsulesInv
    /\ DescriptorsInv
    /\ MarkInv
    /\ SentInv
    /\ PendingInv

------------------------------------------------------------------------------
(* Type correctness *)

USE NumVarsAssumption, NamesAssumption, MaxUpdatesAssumption,
    WritableAssumption, BoundsAssumption

LEMMA ReturnType ==
    ASSUME TypeOK, Return, nvram' \in [Names -> Contents],
           sent' \in [Names -> Nat], writes' \in 0..MaxWrites,
           failures' \in 0..MaxFailures
    PROVE  TypeOK'
  BY EmptySeq DEF TypeOK, Return, PCs, ResetTypes

LEMMA FailsType == ASSUME TypeOK, Fails PROVE failures' \in 0..MaxFailures
  BY DEF TypeOK, Fails

\* What is overwritten in a block descriptor array keeps its type and length.
Descriptor == Updates \cup {Terminator, Garbage}

LEMMA CbdWrite ==
    ASSUME NEW S, NEW s \in Seq(S), NEW p, NEW e \in S
    PROVE  /\ [s EXCEPT ![p] = e] \in Seq(S)
           /\ Len([s EXCEPT ![p] = e]) = Len(s)
           /\ \A q \in 1..Len(s) :
                [s EXCEPT ![p] = e][q] = IF q = p THEN e ELSE s[q]
  <1>1. PICK n \in Nat : s \in [1..n -> S] /\ n = Len(s)
    OBVIOUS
  <1>2. [s EXCEPT ![p] = e] \in [1..n -> S]
    BY <1>1
  <1>. QED BY <1>1, <1>2

LEMMA CopiesType ==
    ASSUME TypeOK, NEW n PROVE Copies(n) \in Nat
  <1>1. IsFiniteSet(1..Len(capsules))
    BY FS_Interval DEF TypeOK
  <1>2. IsFiniteSet({p \in 1..Len(capsules) : capsules[p] = n})
    BY <1>1, FS_Subset
  <1>. QED BY <1>2, FS_CardinalityType DEF Copies

LEMMA PopulateType == ASSUME TypeOK, TableInv, PopulateTable PROVE TypeOK'
  <1>1. CASE GetNextVariableName
    BY <1>1, FailsType DEF GetNextVariableName, TypeOK, Names, Remaining, PCs
  <1>2. CASE TooSmall
    BY <1>2 DEF TooSmall, Continue, TypeOK, PCs
  <1>3. CASE GetNextFails
    BY <1>3, ReturnType DEF GetNextFails, TypeOK
  <1>4. CASE SkipVariable
    BY <1>4 DEF SkipVariable, Continue, TypeOK, PCs
  <1>5. CASE IgnoreUpdate
    BY <1>5 DEF IgnoreUpdate, Continue, TypeOK, PCs
  <1>6. CASE PopulateArmed
    <2>1. variable_name \in Updates
      BY <1>6 DEF PopulateArmed, Populating, TableInv, Updates
    <2>2. updates' \in Seq(Updates)
      BY <1>6, <2>1, AppendProperties DEF PopulateArmed, TypeOK
    <2>. QED BY <1>6, <2>2 DEF PopulateArmed, Populating, Continue, TypeOK, PCs
  <1>7. CASE PopulateNotArmed
    BY <1>7 DEF PopulateNotArmed, Populating, Continue, TypeOK, PCs
  <1>8. CASE PopulateOutOfMemory
    BY <1>8, ReturnType, FailsType DEF PopulateOutOfMemory, TypeOK
  <1>9. CASE PopulateFails
    <2>1. nvram' \in [Names -> Contents]
      BY <1>9 DEF PopulateFails, DeleteVariable, TypeOK, Contents
    <2>. QED BY <1>9, <2>1, ReturnType, FailsType DEF PopulateFails, TypeOK
  <1>10. CASE EndOfVariables
    <2>1. CASE Return
      BY <1>10, <2>1, ReturnType, FailsType DEF EndOfVariables, TypeOK
    <2>2. CASE pc' = "build"
      <3>1. /\ NewDescriptors \in Seq(Updates \cup {Terminator, Garbage})
            /\ Len(NewDescriptors) = Len(updates) + 1
        BY DEF NewDescriptors, TypeOK
      <3>2. UNCHANGED <<nvram, sent, got, variable_name, updates, i, capsules,
                        reset_type, rc, writes, failures>>
            /\ cbd_data' = NewDescriptors
        BY <1>10, <2>2 DEF EndOfVariables, Return
      <3>. QED BY <2>2, <3>1, <3>2 DEF TypeOK, PCs
    <2>. QED BY <1>10, <2>1, <2>2 DEF EndOfVariables
  <1>. QED BY <1>1, <1>2, <1>3, <1>4, <1>5, <1>6, <1>7, <1>8, <1>9, <1>10
           DEF PopulateTable

LEMMA ApplyType == ASSUME TypeOK, Apply PROVE TypeOK'
  <1>1. CASE AddCapsule
    <2>1. updates[i] \in Updates
      BY <1>1, ElementOfSeq DEF AddCapsule, TypeOK
    <2>2. capsules' \in Seq(Updates)
      BY <1>1, <2>1, AppendProperties DEF AddCapsule, TypeOK
    <2>3. cbd_data \in Seq(Descriptor) /\ updates[i] \in Descriptor
      BY <2>1 DEF TypeOK, Descriptor
    <2>4. cbd_data' = [cbd_data EXCEPT ![Len(capsules) + 1] = updates[i]]
      BY <1>1 DEF AddCapsule
    <2>5. cbd_data' \in Seq(Descriptor) /\ Len(cbd_data') = Len(cbd_data)
      <3>1. \A e \in Descriptor : \A p :
               /\ [cbd_data EXCEPT ![p] = e] \in Seq(Descriptor)
               /\ Len([cbd_data EXCEPT ![p] = e]) = Len(cbd_data)
        BY <2>3, CbdWrite
      <3>. QED BY <2>3, <2>4, <3>1
    <2>. QED BY <1>1, <2>2, <2>5 DEF AddCapsule, TypeOK, Descriptor
  <1>2. CASE AddCapsuleFails
    BY <1>2, FailsType DEF AddCapsuleFails, TypeOK
  <1>3. CASE EndOfBuild
    <2>1. CASE Return
      BY <1>3, <2>1, ReturnType DEF EndOfBuild, TypeOK
    <2>2. CASE pc' = "mark"
      <3>1. /\ cbd_data' = SetTerminator(cbd_data, Len(capsules))
            /\ i' = 1
            /\ UNCHANGED <<nvram, sent, got, variable_name, updates, capsules,
                           reset_type, rc, writes, failures>>
        BY <1>3, <2>2 DEF EndOfBuild, Return
      <3>2. cbd_data \in Seq(Descriptor) /\ Terminator \in Descriptor
        BY DEF TypeOK, Descriptor
      <3>3. cbd_data' \in Seq(Descriptor) /\ Len(cbd_data') = Len(cbd_data)
        <4>1. \A p : /\ [cbd_data EXCEPT ![p] = Terminator] \in Seq(Descriptor)
                     /\ Len([cbd_data EXCEPT ![p] = Terminator]) = Len(cbd_data)
          BY <3>2, CbdWrite
        <4>2. cbd_data' = [cbd_data EXCEPT ![Len(capsules) + 1] = Terminator]
          BY <3>1 DEF SetTerminator
        <4>. QED BY <4>1, <4>2
      <3>4. Len(cbd_data') = Len(updates') + 1
        BY <1>3, <3>1, <3>3 DEF EndOfBuild, TypeOK
      <3>. QED BY <2>2, <3>1, <3>3, <3>4 DEF TypeOK, PCs, Descriptor
    <2>. QED BY <1>3, <2>1, <2>2 DEF EndOfBuild
  <1>4. CASE SetStatus
    <2>1. CASE Return
      BY <1>4, <2>1, ReturnType, FailsType DEF SetStatus, TypeOK, Return
    <2>2. CASE ~Return
      <3>1. /\ nvram' = [nvram EXCEPT ![updates[i]] = "attempted"]
            /\ i' = i + 1
            /\ UNCHANGED <<sent, pc, got, variable_name, updates, capsules,
                           cbd_data, reset_type, rc, writes, failures>>
        BY <1>4, <2>2 DEF SetStatus
      <3>2. nvram' \in [Names -> Contents]
        BY <3>1 DEF TypeOK, Contents
      <3>. QED BY <3>1, <3>2 DEF TypeOK
    <2>. QED BY <2>1, <2>2
  <1>5. CASE EndOfStatuses
    BY <1>5 DEF EndOfStatuses, TypeOK, PCs
  <1>6. CASE QueryCapsuleCapabilities
    BY <1>6, FailsType DEF QueryCapsuleCapabilities, TypeOK, PCs, ResetTypes
  <1>7. CASE UpdateCapsule
    <2>1. \A n \in Names : Copies(n) \in Nat
      BY CopiesType
    <2>2. sent' \in [Names -> Nat]
      BY <1>7, <2>1 DEF UpdateCapsule, TypeOK
    <2>3. CASE Return
      BY <1>7, <2>2, <2>3, ReturnType, FailsType DEF UpdateCapsule, TypeOK
    <2>4. CASE ~Return
      BY <1>7, <2>2, <2>4, FailsType DEF UpdateCapsule, TypeOK, PCs
    <2>. QED BY <2>3, <2>4
  <1>8. CASE ResetSystem
    BY <1>8, ReturnType DEF ResetSystem, TypeOK
  <1>9. CASE AddCapsuleFaults
    BY <1>9, ReturnType, FailsType DEF AddCapsuleFaults, TypeOK
  <1>. QED BY <1>1, <1>2, <1>3, <1>4, <1>5, <1>6, <1>7, <1>8, <1>9 DEF Apply

------------------------------------------------------------------------------
(* The inductive invariant *)

LEMMA Ranges ==
    ASSUME TypeOK
    PROVE  /\ Range(updates) = {updates[p] : p \in 1..Len(updates)}
           /\ Range(capsules) = {capsules[p] : p \in 1..Len(capsules)}
  <1>1. DOMAIN updates = 1..Len(updates) /\ DOMAIN capsules = 1..Len(capsules)
    BY DEF TypeOK
  <1>. QED BY <1>1, Zenon DEF Range

LEMMA UpdatesAreNames ==
    ASSUME TypeOK
    PROVE  /\ \A p \in 1..Len(updates) : updates[p] \in Names /\ updates[p] \in Nat
           /\ \A p \in 1..Len(capsules) : capsules[p] \in Names /\ capsules[p] \in Nat
  <1>1. updates \in Seq(Updates) /\ capsules \in Seq(Updates)
    BY DEF TypeOK
  <1>2. /\ \A p \in 1..Len(updates) : updates[p] \in Updates
        /\ \A p \in 1..Len(capsules) : capsules[p] \in Updates
    BY <1>1, ElementOfSeq
  <1>. QED BY <1>2 DEF Updates, Names

\* Between runs only the variables and their deliveries matter.
LEMMA ReturnInv ==
    ASSUME TypeOK', SentInv', Return
    PROVE  IInv'
  BY EmptySeq DEF IInv, TypeOK, Return, MemoryInv, Cleared, TableInv, CapsulesInv,
     DescriptorsInv, MarkInv, PendingInv, Later

LEMMA InitInv == Init => IInv
  <1>. SUFFICES ASSUME Init PROVE IInv
    OBVIOUS
  <1>1. TypeOK
    BY EmptySeq DEF Init, Cleared, TypeOK, PCs, ResetTypes
  <1>. QED BY <1>1, EmptySeq DEF Init, Cleared, IInv, TypeOK, MemoryInv, TableInv,
              CapsulesInv, DescriptorsInv, MarkInv, PendingInv, SentInv, Later

\* A step that touches neither the variables nor their deliveries.
LEMMA SentKept ==
    ASSUME SentInv, UNCHANGED <<nvram, sent>> PROVE SentInv'
  BY DEF SentInv

\* The enumeration goes on with the table as it is.
LEMMA ContinueInv ==
    ASSUME IInv, TypeOK', pc = "seen", Continue, UNCHANGED updates
    PROVE  IInv'
  BY DEF IInv, Continue, MemoryInv, TableInv, CapsulesInv, DescriptorsInv,
         MarkInv, PendingInv, SentInv, Later

LEMMA PopulateInv == ASSUME IInv, PopulateTable PROVE IInv'
  <1>0. TypeOK'
    BY PopulateType DEF IInv
  <1>1. CASE GetNextVariableName
    <2>1. TableInv'
      <3>1. CASE got' = "success"
        <4>1. PICK n \in Names :
                 /\ n > variable_name /\ n \notin Huge
                 /\ variable_name' = n
                 /\ UNCHANGED <<updates, nvram>>
          BY <1>1, <3>1 DEF GetNextVariableName, Remaining
        <4>2. \A p \in 1..Len(updates) : updates[p] \in Nat
          BY UpdatesAreNames DEF IInv
        <4>3. variable_name \in Nat /\ n \in Nat
          BY DEF IInv, TypeOK, Names
        <4>4. \A p \in 1..Len(updates) : updates[p] < n
          BY <4>1, <4>2, <4>3 DEF IInv, TableInv
        <4>. QED BY <4>1, <4>2, <4>3, <4>4 DEF IInv, TableInv
      <3>2. CASE got' # "success"
        BY <1>1, <3>2 DEF GetNextVariableName, IInv, TableInv
      <3>. QED BY <3>1, <3>2
    <2>. QED BY <1>0, <1>1, <2>1
             DEF GetNextVariableName, IInv, MemoryInv, CapsulesInv,
                 DescriptorsInv, MarkInv, PendingInv, SentInv, Later
  <1>2. CASE TooSmall
    BY <1>0, <1>2, ContinueInv DEF TooSmall
  <1>3. CASE GetNextFails
    BY <1>0, <1>3, SentKept, ReturnInv DEF GetNextFails, IInv
  <1>4. CASE SkipVariable
    BY <1>0, <1>4, ContinueInv DEF SkipVariable
  <1>5. CASE IgnoreUpdate
    BY <1>0, <1>5, ContinueInv DEF IgnoreUpdate
  <1>6. CASE PopulateArmed
    <2>1. /\ Len(updates') = Len(updates) + 1
          /\ \A p \in 1..Len(updates) : updates'[p] = updates[p]
          /\ updates'[Len(updates) + 1] = variable_name
      BY <1>6, AppendProperties
         DEF PopulateArmed, Populating, IInv, TypeOK, TableInv, Updates
    <2>. QED BY <1>0, <1>6, <2>1
             DEF PopulateArmed, Populating, TableFull, Continue, IInv, TypeOK,
                 MemoryInv, TableInv, CapsulesInv, DescriptorsInv, MarkInv,
                 PendingInv, SentInv, Later
  <1>7. CASE PopulateNotArmed
    BY <1>0, <1>7, ContinueInv DEF PopulateNotArmed, Populating
  <1>8. CASE PopulateOutOfMemory
    BY <1>0, <1>8, SentKept, ReturnInv DEF PopulateOutOfMemory, IInv
  <1>9. CASE PopulateFails
    <2>1. SentInv'
      BY <1>9 DEF PopulateFails, DeleteVariable, IInv, SentInv, TypeOK
    <2>. QED BY <1>0, <1>9, <2>1, ReturnInv DEF PopulateFails
  <1>10. CASE EndOfVariables
    <2>1. CASE Return
      BY <1>0, <1>10, <2>1, SentKept, ReturnInv DEF EndOfVariables, IInv
    <2>2. CASE ~Return
      BY <1>0, <1>10, <2>2
         DEF EndOfVariables, IInv, TypeOK, MemoryInv, TableInv, CapsulesInv,
             DescriptorsInv, MarkInv, PendingInv, SentInv, Later
    <2>. QED BY <2>1, <2>2
  <1>. QED BY <1>1, <1>2, <1>3, <1>4, <1>5, <1>6, <1>7, <1>8, <1>9, <1>10
           DEF PopulateTable

\* The capsule appended comes from a later update than the others.
LEMMA AddCapsuleInv == ASSUME IInv, AddCapsule PROVE IInv'
  <1>0. TypeOK'
    BY ApplyType DEF IInv, Apply
  <1>. DEFINE n == Len(capsules)
  <1>1. /\ pc = "build" /\ i \in 1..Len(updates)
        /\ UNCHANGED <<nvram, sent, pc, updates, variable_name, got>>
        /\ i' = i + 1
        /\ capsules' = Append(capsules, updates[i])
        /\ cbd_data' = [cbd_data EXCEPT ![n + 1] = updates[i]]
    BY DEF AddCapsule, IInv, TypeOK
  <1>2. /\ n \in Nat /\ n < i
        /\ capsules \in Seq(Updates) /\ updates[i] \in Updates
        /\ cbd_data \in Seq(Descriptor) /\ updates[i] \in Descriptor
        /\ Len(cbd_data) = Len(updates) + 1
    BY <1>1, ElementOfSeq DEF IInv, TypeOK, MemoryInv, Descriptor
  <1>3. /\ Len(capsules') = n + 1
        /\ \A p \in 1..n : capsules'[p] = capsules[p]
        /\ capsules'[n + 1] = updates[i]
    BY <1>1, <1>2, AppendProperties
  <1>4. \A p \in 1..n : capsules[p] < updates[i]
    BY <1>1 DEF IInv, CapsulesInv, TableInv
  <1>5. MemoryInv'
    BY <1>1, <1>2, <1>3 DEF IInv, TypeOK, MemoryInv, Later
  <1>6. CapsulesInv'
    <2>1. \A p, q \in 1..n + 1 : p < q => capsules'[p] < capsules'[q]
      <3>. SUFFICES ASSUME NEW p \in 1..n + 1, NEW q \in 1..n + 1, p < q
                    PROVE  capsules'[p] < capsules'[q]
        OBVIOUS
      <3>1. CASE q = n + 1
        BY <1>2, <1>3, <1>4, <3>1
      <3>2. CASE q \in 1..n
        BY <1>2, <1>3, <3>2 DEF IInv, CapsulesInv
      <3>. QED BY <1>2, <3>1, <3>2
    <2>2. \A p \in 1..n + 1 : \E q \in 1..Len(updates) :
             capsules'[p] = updates[q] /\ q < i + 1
      BY <1>1, <1>2, <1>3 DEF IInv, CapsulesInv, TypeOK
    <2>. QED BY <1>1, <1>2, <1>3, <2>1, <2>2 DEF CapsulesInv
  <1>7. DescriptorsInv'
    <2>1. \A q \in 1..Len(cbd_data) :
             cbd_data'[q] = IF q = n + 1 THEN updates[i] ELSE cbd_data[q]
      <3>1. \A e \in Descriptor : \A p : \A q \in 1..Len(cbd_data) :
               [cbd_data EXCEPT ![p] = e][q] = IF q = p THEN e ELSE cbd_data[q]
        BY <1>2, CbdWrite
      <3>. QED BY <1>1, <1>2, <3>1
    <2>. QED BY <1>1, <1>2, <1>3, <2>1 DEF IInv, DescriptorsInv, Later
  <1>. QED BY <1>0, <1>1, <1>5, <1>6, <1>7
           DEF IInv, TableInv, MarkInv, SentInv, PendingInv

LEMMA EndOfBuildInv == ASSUME IInv, EndOfBuild PROVE IInv'
  <1>0. TypeOK'
    BY ApplyType DEF IInv, Apply
  <1>1. CASE Return
    BY <1>0, <1>1, SentKept, ReturnInv DEF EndOfBuild, IInv
  <1>2. CASE ~Return
    <2>1. /\ pc = "build" /\ pc' = "mark" /\ i' = 1 /\ capsules # <<>>
          /\ cbd_data' = [cbd_data EXCEPT ![Len(capsules) + 1] = Terminator]
          /\ UNCHANGED <<nvram, sent, updates, variable_name, got, capsules>>
      BY <1>2 DEF EndOfBuild, SetTerminator
    <2>2. /\ Len(capsules) \in Nat /\ Len(updates) \in Nat
          /\ Len(capsules) <= Len(updates)
          /\ cbd_data \in Seq(Descriptor) /\ Terminator \in Descriptor
          /\ Len(cbd_data) = Len(updates) + 1
      BY <2>1 DEF IInv, TypeOK, CapsulesInv, Descriptor
    <2>3. DescriptorsInv'
      <3>1. \A e \in Descriptor : \A p : \A q \in 1..Len(cbd_data) :
               [cbd_data EXCEPT ![p] = e][q] = IF q = p THEN e ELSE cbd_data[q]
        BY <2>2, CbdWrite
      <3>. QED BY <2>1, <2>2, <3>1 DEF IInv, DescriptorsInv, Later
    <2>4. CapsulesInv'
      BY <2>1 DEF IInv, CapsulesInv
    <2>5. MarkInv' /\ PendingInv' /\ SentInv'
      <3>1. \A p \in 1..Len(updates) : updates[p] \in Names
        BY UpdatesAreNames DEF IInv
      <3>. QED BY <2>1, <2>2, <3>1 DEF IInv, MarkInv, PendingInv, SentInv
    <2>. QED BY <1>0, <2>1, <2>3, <2>4, <2>5 DEF IInv, MemoryInv, TableInv, Later
  <1>. QED BY <1>1, <1>2

\* Marking an update leaves the others as they are: none is in the table twice.
LEMMA SetStatusInv == ASSUME IInv, SetStatus PROVE IInv'
  <1>0. TypeOK'
    BY ApplyType DEF IInv, Apply
  <1>1. CASE Return
    BY <1>0, <1>1, SentKept, ReturnInv DEF SetStatus, Return, IInv
  <1>2. CASE ~Return
    <2>1. /\ pc = "mark" /\ pc' = "mark" /\ i \in 1..Len(updates) /\ i' = i + 1
          /\ nvram' = [nvram EXCEPT ![updates[i]] = "attempted"]
          /\ UNCHANGED <<sent, updates, variable_name, got, capsules, cbd_data>>
      BY <1>2 DEF SetStatus, IInv, TypeOK
    <2>2. \A p \in 1..Len(updates) : updates[p] \in Names /\ updates[p] \in Nat
      BY UpdatesAreNames DEF IInv
    <2>3. \A p \in 1..Len(updates) : p # i => updates[p] # updates[i]
      BY <2>1, <2>2 DEF IInv, TypeOK, TableInv
    <2>4. MarkInv'
      BY <2>1, <2>2, <2>3 DEF IInv, TypeOK, MarkInv
    <2>5. SentInv' /\ PendingInv'
      BY <2>1, <2>2 DEF IInv, TypeOK, SentInv, PendingInv
    <2>6. CapsulesInv' /\ DescriptorsInv' /\ TableInv' /\ MemoryInv'
      BY <2>1 DEF IInv, CapsulesInv, DescriptorsInv, TableInv, MemoryInv, Later
    <2>. QED BY <1>0, <2>4, <2>5, <2>6 DEF IInv
  <1>. QED BY <1>1, <1>2

\* One call carries each of its capsules once.
LEMMA CopiesBound ==
    ASSUME IInv, NEW n
    PROVE  /\ Copies(n) \in {0, 1}
           /\ Copies(n) # 0 => n \in Range(capsules)
           /\ n \in Range(capsules) => Copies(n) = 1
  <1>. DEFINE At == {p \in 1..Len(capsules) : capsules[p] = n}
  <1>. HIDE DEF At
  <1>a. Copies(n) = Cardinality(At)
    BY DEF At, Copies
  <1>b. n \in Range(capsules) <=> At # {}
    BY Ranges DEF At, IInv
  <1>1. CASE At = {}
    BY <1>1, <1>a, <1>b, FS_EmptySet
  <1>2. CASE At # {}
    <2>1. PICK p \in At : TRUE
      BY <1>2
    <2>2. \A q \in At : q = p
      <3>1. \A q \in 1..Len(capsules) : capsules[q] \in Nat
        BY UpdatesAreNames DEF IInv
      <3>. QED BY <2>1, <3>1 DEF At, IInv, TypeOK, CapsulesInv
    <2>3. At = {p}
      BY <2>1, <2>2
    <2>4. Cardinality(At) = 1
      BY <2>3, FS_Singleton
    <2>. QED BY <2>4, <1>2, <1>a, <1>b
  <1>. QED BY <1>1, <1>2

\* What a call delivers was spent in the same run and never delivered before.
LEMMA ReadyToSend ==
    ASSUME IInv, pc = "update"
    PROVE  \A n \in Range(capsules) :
              n \in Names /\ nvram[n] = "attempted" /\ sent[n] = 0
  <1>1. \A p \in 1..Len(capsules) : \E q \in 1..Len(updates) :
           capsules[p] = updates[q]
    BY DEF IInv, CapsulesInv
  <1>2. \A q \in 1..Len(updates) : /\ nvram[updates[q]] = "attempted"
                                  /\ sent[updates[q]] = 0
                                  /\ updates[q] \in Names
    BY UpdatesAreNames DEF IInv, MarkInv, PendingInv
  <1>. QED BY <1>1, <1>2, Ranges DEF IInv

LEMMA UpdateCapsuleInv == ASSUME IInv, UpdateCapsule PROVE IInv'
  <1>0. TypeOK'
    BY ApplyType DEF IInv, Apply
  <1>1. \A n \in Range(capsules) : n \in Names /\ nvram[n] = "attempted" /\ sent[n] = 0
    BY ReadyToSend DEF UpdateCapsule
  <1>2. SentInv'
    <2>. SUFFICES ASSUME NEW n \in Names
                  PROVE  sent'[n] <= 1 /\ (nvram'[n] = "armed" => sent'[n] = 0)
      BY DEF SentInv
    <2>1. sent'[n] = sent[n] + Copies(n) /\ nvram' = nvram
      BY DEF UpdateCapsule
    <2>2. sent[n] \in Nat /\ sent[n] <= 1 /\ (nvram[n] = "armed" => sent[n] = 0)
      BY DEF IInv, TypeOK, SentInv
    <2>3. CASE n \in Range(capsules)
      BY <1>1, <2>1, <2>2, <2>3, CopiesBound
    <2>4. CASE n \notin Range(capsules)
      <3>1. Copies(n) = 0
        BY <2>4, CopiesBound
      <3>. QED BY <2>1, <2>2, <3>1
    <2>. QED BY <2>3, <2>4
  <1>3. CASE Return
    BY <1>0, <1>2, <1>3, ReturnInv
  <1>4. CASE ~Return
    <2>1. /\ pc = "update" /\ pc' = "reset"
          /\ UNCHANGED <<nvram, got, variable_name, updates, i, capsules, cbd_data>>
      BY <1>4 DEF UpdateCapsule
    <2>. QED BY <1>0, <1>2, <2>1 DEF IInv, MemoryInv, TableInv, CapsulesInv,
       DescriptorsInv, MarkInv, PendingInv, Later
  <1>. QED BY <1>3, <1>4

LEMMA ApplyInv == ASSUME IInv, Apply PROVE IInv'
  <1>0. TypeOK'
    BY ApplyType DEF IInv
  <1>1. CASE AddCapsule
    BY <1>1, AddCapsuleInv
  <1>2. CASE AddCapsuleFails
    BY <1>0, <1>2 DEF AddCapsuleFails, IInv, TypeOK, MemoryInv, TableInv,
       CapsulesInv, DescriptorsInv, MarkInv, SentInv, PendingInv, Later
  <1>3. CASE EndOfBuild
    BY <1>3, EndOfBuildInv
  <1>4. CASE SetStatus
    BY <1>4, SetStatusInv
  <1>5. CASE EndOfStatuses
    BY <1>0, <1>5 DEF EndOfStatuses, IInv, TypeOK, MemoryInv, TableInv,
       CapsulesInv, DescriptorsInv, MarkInv, SentInv, PendingInv, Later
  <1>6. CASE QueryCapsuleCapabilities
    BY <1>0, <1>6 DEF QueryCapsuleCapabilities, IInv, MemoryInv, TableInv,
       CapsulesInv, DescriptorsInv, MarkInv, SentInv, PendingInv, Later
  <1>7. CASE UpdateCapsule
    BY <1>7, UpdateCapsuleInv
  <1>8. CASE ResetSystem
    BY <1>0, <1>8, SentKept, ReturnInv DEF ResetSystem, IInv
  <1>9. CASE AddCapsuleFaults
    BY <1>0, <1>9, SentKept, ReturnInv DEF AddCapsuleFaults, IInv
  <1>. QED BY <1>1, <1>2, <1>3, <1>4, <1>5, <1>6, <1>7, <1>8, <1>9 DEF Apply

LEMMA EnvironmentInv ==
    ASSUME IInv, EfiMain \/ Crash \/ \E n \in Updates : WriteVariable(n)
    PROVE  IInv'
  <1>1. CASE EfiMain
    BY <1>1, FailsType DEF EfiMain, IInv, TypeOK, MemoryInv, Cleared, TableInv,
       CapsulesInv, DescriptorsInv, MarkInv, SentInv, PendingInv, Later, PCs
  <1>2. CASE Crash
    <2>1. TypeOK'
      BY <1>2, ReturnType, FailsType DEF Crash, IInv, TypeOK
    <2>. QED BY <1>2, <2>1, SentKept, ReturnInv DEF Crash, IInv
  <1>3. ASSUME NEW n \in Updates, WriteVariable(n)
        PROVE  IInv'
    <2>1. TypeOK'
      <3>1. /\ nvram' \in [Names -> Contents] /\ sent' \in [Names -> Nat]
            /\ writes' \in 0..MaxWrites
        <4>1. PICK c \in Writable : nvram' = [nvram EXCEPT ![n] = c]
          BY <1>3 DEF WriteVariable
        <4>2. c \in Contents
          BY <4>1
        <4>3. nvram' \in [Names -> Contents]
          BY <4>1, <4>2 DEF IInv, TypeOK
        <4>4. sent' \in [Names -> Nat]
          BY <1>3 DEF WriteVariable, IInv, TypeOK
        <4>5. writes' \in 0..MaxWrites
          BY <1>3 DEF WriteVariable, IInv, TypeOK
        <4>. QED BY <4>3, <4>4, <4>5
      <3>. QED BY <1>3, <3>1 DEF WriteVariable, locals, IInv, TypeOK
    <2>2. SentInv'
      <3>1. /\ n \in Names
            /\ \A m \in Names : m # n => nvram'[m] = nvram[m] /\ sent'[m] = sent[m]
            /\ sent'[n] = 0
        BY <1>3 DEF WriteVariable, Updates, IInv, TypeOK
      <3>. QED BY <3>1 DEF IInv, SentInv
    <2>. QED BY <1>3, <2>1, <2>2 DEF WriteVariable, locals, IInv, TypeOK, MemoryInv,
             Cleared, TableInv, CapsulesInv, DescriptorsInv, MarkInv, PendingInv, Later
  <1>. QED BY <1>1, <1>2, <1>3

LEMMA NextInv == IInv /\ [Next]_vars => IInv'
  <1>. SUFFICES ASSUME IInv, [Next]_vars PROVE IInv'
    OBVIOUS
  <1>1. CASE EfiMain \/ Crash \/ \E n \in Updates : WriteVariable(n)
    BY <1>1, EnvironmentInv
  <1>2. CASE Program
    BY <1>2, PopulateInv, ApplyInv DEF Program
  <1>3. CASE UNCHANGED vars
    BY <1>3 DEF vars, locals, IInv, TypeOK, MemoryInv, Cleared, TableInv,
       CapsulesInv, DescriptorsInv, MarkInv, SentInv, PendingInv, Later
  <1>. QED BY <1>1, <1>2, <1>3 DEF Next

THEOREM Invariant == Spec => []IInv
  BY InitInv, NextInv, PTL DEF Spec

------------------------------------------------------------------------------
(* The properties *)

\* efi_main and the functions it calls keep every variable in its type, and
\* allocate one block descriptor more than there are updates.
THEOREM TypeCorrect == Spec => []TypeOK
  BY Invariant, PTL DEF IInv

\* Over any number of boots, failures and losses of power, UpdateCapsule
\* carries the capsule of a request at most once (steps 3 and 4 of efi_main).
THEOREM DeliveredAtMostOnce == Spec => []AtMostOnce
  <1>1. IInv => AtMostOnce
    BY DEF IInv, SentInv, AtMostOnce
  <1>. QED BY <1>1, Invariant, PTL

\* When the capsules are applied no update of the table is armed any more.
THEOREM SpentFirst == Spec => []SpentBeforeSent
  <1>1. IInv => SpentBeforeSent
    BY Ranges DEF IInv, MarkInv, SpentBeforeSent
  <1>. QED BY <1>1, Invariant, PTL

\* The descriptors UpdateCapsule is given are those of its capsules, and the
\* terminator follows the last one, whichever capsules were ignored.
THEOREM DescriptorsCorrect == Spec => []DescriptorsMatch
  <1>1. IInv => DescriptorsMatch
    <2>. SUFFICES ASSUME IInv, pc \in Later
                  PROVE  /\ capsules # <<>>
                         /\ Len(capsules) + 1 \in 1..Len(cbd_data)
                         /\ \A p \in 1..Len(capsules) : cbd_data[p] = capsules[p]
                         /\ cbd_data[Len(capsules) + 1] = Terminator
      BY DEF DescriptorsMatch, Later
    <2>1. Len(capsules) \in Nat /\ Len(updates) \in Nat
      BY DEF IInv, TypeOK
    <2>2. Len(cbd_data) = Len(updates) + 1 /\ Len(capsules) <= Len(updates)
      BY DEF IInv, TypeOK, CapsulesInv, Later
    <2>3. capsules # <<>>
      BY DEF IInv, MemoryInv
    <2>. QED BY <2>1, <2>2, <2>3 DEF IInv, DescriptorsInv
  <1>. QED BY <1>1, Invariant, PTL

\* While a name is stored that does not fit the buffer, the cursor stays before
\* it, and the end of the enumeration is never reached.
HugeInv ==
    \A h \in Huge : nvram[h] # "absent" =>
        variable_name < h /\ got # "not_found" /\ pc \in {"idle", "next", "seen"}

\* One name that does not fit the buffer keeps the program from acting on any
\* request, in every boot, until the operating system removes it.
THEOREM HugeHolds == Spec => []HugeNameHoldsAll
  <1>. Huge \subseteq 1..NumVars
    BY DEF Updates, Names
  <1>1. Init => HugeInv
    BY DEF Init, Cleared, HugeInv
  <1>2. IInv /\ HugeInv /\ [Next]_vars => HugeInv'
    <2>. SUFFICES ASSUME IInv, HugeInv, Next, NEW h \in Huge, nvram'[h] # "absent"
                  PROVE  variable_name' < h /\ got' # "not_found"
                         /\ pc' \in {"idle", "next", "seen"}
      BY DEF HugeInv, vars, locals
    <2>1. CASE Return
      BY <2>1 DEF Return
    <2>2. CASE GetNextVariableName
      <3>1. h \in Remaining
        BY <2>2 DEF GetNextVariableName, HugeInv, Remaining, Stored, Names
      <3>. QED BY <2>2, <3>1 DEF GetNextVariableName, HugeInv, Remaining, Names
    <2>3. CASE EfiMain \/ \E n \in Updates : WriteVariable(n)
      BY <2>3 DEF EfiMain, WriteVariable, locals, IInv, MemoryInv, Cleared
    <2>4. CASE SetStatus /\ ~Return
      <3>1. pc = "mark" /\ i \in 1..Len(updates)
            /\ nvram' = [nvram EXCEPT ![updates[i]] = "attempted"]
        BY <2>4 DEF SetStatus, IInv, TypeOK
      <3>2. nvram[updates[i]] # "absent"
        BY <3>1 DEF IInv, MarkInv
      <3>3. nvram[h] # "absent"
        BY <3>1, <3>2 DEF IInv, TypeOK, Names
      <3>. QED BY <3>1, <3>3 DEF HugeInv
    <2>5. CASE ~Return /\ ~GetNextVariableName /\ ~EfiMain /\ ~SetStatus
               /\ ~\E n \in Updates : WriteVariable(n)
      BY <2>5 DEF HugeInv, Next, Program, PopulateTable, Apply, Crash,
           TooSmall, GetNextFails, SkipVariable, IgnoreUpdate,
           PopulateArmed, PopulateNotArmed, PopulateOutOfMemory, PopulateFails,
           EndOfVariables, Continue, AddCapsule, AddCapsuleFails,
           AddCapsuleFaults, EndOfBuild, EndOfStatuses,
           QueryCapsuleCapabilities, UpdateCapsule, ResetSystem
    <2>. QED BY <2>1, <2>2, <2>3, <2>4, <2>5
  <1>3. HugeInv => HugeNameHoldsAll
    BY DEF HugeInv, HugeNameHoldsAll
  <1>. QED BY <1>1, <1>2, <1>3, Invariant, PTL DEF Spec

\* No array of efi_main is written beyond its end.
THEOREM MemorySafe == Spec => []InBounds
  <1>1. IInv => InBounds
    BY DEF IInv, MemoryInv, TableInv, CapsulesInv, InBounds
  <1>. QED BY <1>1, Invariant, PTL

\* No failure destroys a request: the program spends it, with a capsule at
\* hand, or leaves it as it is.
THEOREM RequestsSurvive == Spec => OnlySpends
  <1>. DEFINE Kept == pc # "idle" =>
         \A n \in Names : nvram'[n] # nvram[n] =>
            \/ nvram[n] = "armed" /\ nvram'[n] = "attempted" /\ capsules # <<>>
            \/ nvram[n] = "malformed" /\ nvram'[n] = "absent"
  <1>1. IInv /\ [Next]_vars => [Kept]_vars
    <2>. SUFFICES ASSUME IInv, Next, pc # "idle" PROVE Kept
      OBVIOUS
    <2>1. CASE SetStatus
      <3>1. CASE UNCHANGED nvram
        BY <3>1
      <3>2. CASE ~UNCHANGED nvram
        <4>1. /\ pc = "mark" /\ i \in 1..Len(updates)
              /\ nvram' = [nvram EXCEPT ![updates[i]] = "attempted"]
          BY <2>1, <3>2 DEF SetStatus, IInv, TypeOK
        <4>2. nvram[updates[i]] = "armed" /\ capsules # <<>>
          BY <4>1 DEF IInv, MarkInv, MemoryInv, Later
        <4>. QED BY <4>1, <4>2 DEF IInv, TypeOK
      <3>. QED BY <3>1, <3>2
    <2>2. CASE ~SetStatus
      <3>1. UNCHANGED nvram
        BY <2>2 DEF Next, Program, PopulateTable, Apply, EfiMain, Crash,
           WriteVariable, GetNextVariableName, TooSmall, GetNextFails,
           SkipVariable, IgnoreUpdate, PopulateArmed, PopulateNotArmed,
           PopulateOutOfMemory, PopulateFails, DeleteVariable, AttributesProbe,
           EndOfVariables, Continue, AddCapsule, AddCapsuleFails,
           AddCapsuleFaults, EndOfBuild,
           EndOfStatuses, QueryCapsuleCapabilities, UpdateCapsule, ResetSystem
      <3>. QED BY <3>1
    <2>. QED BY <2>1, <2>2
  <1>. QED BY <1>1, Invariant, PTL DEF Spec, OnlySpends

------------------------------------------------------------------------------
(* Fwupdate implements UpdateLifecycle *)

Life == [n \in Names |-> Stage(n)]

LEMMA StageCases ==
    ASSUME IInv, NEW n \in Names
    PROVE  /\ nvram[n] = "armed" => Stage(n) = "armed"
           /\ nvram[n] \in {"absent", "malformed"} => Stage(n) = "none"
           /\ nvram[n] = "attempted" =>
                Stage(n) = IF sent[n] = 1 THEN "sent"
                           ELSE IF n \in Range(capsules) THEN "staged" ELSE "lost"
           /\ nvram[n] \in {"armed", "absent", "malformed", "attempted"}
  <1>1. nvram[n] \in {"armed", "absent", "malformed", "attempted"}
    BY DEF IInv, TypeOK, Contents
  <1>2. sent[n] \in {0, 1} /\ (nvram[n] = "armed" => sent[n] = 0)
    BY DEF IInv, TypeOK, SentInv
  <1>. QED BY <1>1, <1>2 DEF Stage

\* A capsule that was not called for yet is in no stage but armed or staged.
LEMMA StagedAre ==
    ASSUME IInv
    PROVE  /\ capsules = <<>> => Lifecycle!Staged = {}
           /\ pc = "update" => Lifecycle!Staged = Range(capsules)
  <1>1. Lifecycle!Staged = {n \in Names : Stage(n) = "staged"}
    BY DEF Lifecycle!Staged
  <1>2. ASSUME capsules = <<>> PROVE Lifecycle!Staged = {}
    <2>1. Range(capsules) = {}
      BY <1>2 DEF Range
    <2>. QED BY <1>1, <2>1, StageCases
  <1>3. ASSUME pc = "update" PROVE Lifecycle!Staged = Range(capsules)
    BY <1>1, <1>3, StageCases, ReadyToSend
  <1>. QED BY <1>2, <1>3

LEMMA RangeAppend ==
    ASSUME NEW S, NEW s \in Seq(S), NEW e \in S
    PROVE  Range(Append(s, e)) = Range(s) \cup {e}
  <1>1. /\ DOMAIN s = 1..Len(s) /\ Len(s) \in Nat
        /\ DOMAIN Append(s, e) = 1..Len(s) + 1
    OBVIOUS
  <1>2. /\ \A p \in 1..Len(s) : Append(s, e)[p] = s[p]
        /\ Append(s, e)[Len(s) + 1] = e
    BY AppendProperties
  <1>3. 1..Len(s) + 1 = 1..Len(s) \cup {Len(s) + 1}
    BY <1>1
  <1>4. \A x : x \in Range(Append(s, e)) <=>
               (\E p \in 1..Len(s) : Append(s, e)[p] = x) \/ Append(s, e)[Len(s) + 1] = x
    BY <1>1, <1>3 DEF Range
  <1>5. \A x : x \in Range(s) <=> \E p \in 1..Len(s) : s[p] = x
    BY <1>1 DEF Range
  <1>. QED BY <1>2, <1>4, <1>5

\* No stage changes while the variables, the deliveries and the capsules of
\* spent updates stay as they are.
LEMMA LifeKept ==
    ASSUME IInv, IInv', UNCHANGED <<nvram, sent>>,
           \A n \in Names : nvram[n] = "attempted" =>
                (n \in Range(capsules) <=> n \in Range(capsules'))
    PROVE  UNCHANGED Life
  <1>1. ASSUME NEW n \in Names PROVE Stage(n)' = Stage(n)
    BY DEF Stage
  <1>. QED BY <1>1 DEF Life

\* A run that ends takes with it what it has not delivered.
LEMMA LifeReturn ==
    ASSUME IInv, IInv', UNCHANGED <<nvram, sent>>, Return
    PROVE  [Lifecycle!Next]_Life
  <1>1. Range(capsules') = {}
    BY DEF Return, Range
  <1>2. \A n \in Names :
           Stage(n)' = IF Stage(n) = "staged" THEN "lost" ELSE Stage(n)
    <2>. SUFFICES ASSUME NEW n \in Names
                  PROVE  Stage(n)' = IF Stage(n) = "staged" THEN "lost" ELSE Stage(n)
      OBVIOUS
    <2>1. CASE nvram[n] = "attempted"
      BY <1>1, <2>1, StageCases DEF Stage, IInv, TypeOK, SentInv
    <2>2. CASE nvram[n] # "attempted"
      <3>1. Stage(n)' = Stage(n)
        BY <2>2 DEF Stage, IInv, TypeOK, Contents
      <3>. QED BY <2>2, <3>1, StageCases
    <2>. QED BY <2>1, <2>2
  <1>3. Life' = Lifecycle!Retire("lost")
    BY <1>2 DEF Life, Lifecycle!Retire, Lifecycle!Staged
  <1>4. CASE Lifecycle!Staged = {}
    <2>1. \A n \in Names : Stage(n)' = Stage(n)
      BY <1>2, <1>4 DEF Lifecycle!Staged, Life
    <2>. QED BY <2>1 DEF Life
  <1>5. CASE Lifecycle!Staged # {}
    BY <1>3, <1>5 DEF Lifecycle!Next, Lifecycle!Abandon, Life
  <1>. QED BY <1>4, <1>5

\* Marking an update spends it.
LEMMA LifeSpent ==
    ASSUME IInv, SetStatus, ~Return
    PROVE  [Lifecycle!Next]_Life
  <1>1. /\ pc = "mark" /\ i \in 1..Len(updates)
        /\ nvram' = [nvram EXCEPT ![updates[i]] = "attempted"]
        /\ UNCHANGED <<sent, capsules>>
    BY DEF SetStatus, IInv, TypeOK
  <1>2. PICK u \in Names : u = updates[i]
    BY <1>1, UpdatesAreNames DEF IInv
  <1>3. nvram[u] = "armed" /\ sent[u] = 0
    BY <1>1, <1>2 DEF IInv, MarkInv, PendingInv
  <1>4. Stage(u) = "armed"
    BY <1>3, StageCases
  <1>5. Stage(u)' \in {"staged", "lost"}
    <2>1. nvram'[u] = "attempted" /\ sent'[u] = 0
      BY <1>1, <1>2, <1>3 DEF IInv, TypeOK
    <2>. QED BY <2>1 DEF Stage
  <1>6. \A n \in Names : n # u => Stage(n)' = Stage(n)
    BY <1>1, <1>2 DEF Stage, IInv, TypeOK
  <1>7. Life' = [Life EXCEPT ![u] = Stage(u)']
    BY <1>6 DEF Life
  <1>8. Lifecycle!Spend(u)
    BY <1>4, <1>5, <1>7 DEF Life, Lifecycle!Spend
  <1>. QED BY <1>8 DEF Lifecycle!Next

\* The call delivers what is staged, whether or not it returns.
LEMMA LifeDelivered ==
    ASSUME IInv, UpdateCapsule
    PROVE  [Lifecycle!Next]_Life
  <1>1. Lifecycle!Staged = Range(capsules)
    BY StagedAre DEF UpdateCapsule
  <1>2. Lifecycle!Staged # {}
    <2>1. 1 \in 1..Len(capsules)
      BY DEF UpdateCapsule, IInv, TypeOK, MemoryInv, Later
    <2>. QED BY <1>1, <2>1, Ranges DEF IInv
  <1>3. ASSUME NEW n \in Names
        PROVE  Stage(n)' = IF n \in Lifecycle!Staged THEN "sent" ELSE Stage(n)
    <2>1. nvram' = nvram /\ sent'[n] = sent[n] + Copies(n)
      BY DEF UpdateCapsule
    <2>2. CASE n \in Range(capsules)
      <3>1. nvram'[n] = "attempted" /\ sent'[n] = 1
        BY <2>1, <2>2, ReadyToSend, CopiesBound DEF UpdateCapsule
      <3>. QED BY <1>1, <2>2, <3>1 DEF Stage
    <2>3. CASE n \notin Range(capsules)
      <3>1. Copies(n) = 0 /\ sent[n] \in {0, 1}
        BY <2>3, CopiesBound DEF IInv, TypeOK, SentInv
      <3>2. sent'[n] = sent[n]
        BY <2>1, <3>1
      <3>3. n \notin Range(capsules')
        BY <2>3 DEF UpdateCapsule, Return, Range
      <3>4. Stage(n)' = Stage(n)
        BY <2>1, <2>3, <3>2, <3>3 DEF Stage
      <3>. QED BY <1>1, <2>3, <3>4
    <2>. QED BY <2>2, <2>3
  <1>4. Life' = Lifecycle!Retire("sent")
    BY <1>3 DEF Life, Lifecycle!Retire
  <1>. QED BY <1>2, <1>4 DEF Life, Lifecycle!Next, Lifecycle!Deliver

\* The operating system writes a variable while nothing is staged.
LEMMA LifeWritten ==
    ASSUME IInv, NEW n \in Updates, WriteVariable(n)
    PROVE  [Lifecycle!Next]_Life
  <1>1. PICK c \in Writable : nvram' = [nvram EXCEPT ![n] = c]
    BY DEF WriteVariable
  <1>2. n \in Names /\ c \in {"armed", "absent", "malformed"}
    BY DEF Updates, Contents
  <1>3. nvram'[n] = c /\ sent'[n] = 0 /\ capsules' = capsules
    BY <1>1, <1>2 DEF WriteVariable, locals, IInv, TypeOK
  <1>4. Stage(n)' \in {"none", "armed"}
    BY <1>2, <1>3 DEF Stage
  <1>5. \A m \in Names : m # n => Stage(m)' = Stage(m)
    BY <1>1, <1>3 DEF WriteVariable, IInv, TypeOK, Stage
  <1>6. Life' = [Life EXCEPT ![n] = Stage(n)']
    BY <1>5 DEF Life
  <1>7. Lifecycle!Write(n)
    BY <1>4, <1>6 DEF Life, Lifecycle!Write
  <1>. QED BY <1>2, <1>7 DEF Lifecycle!Next

\* Every other step leaves the variables and the deliveries alone, and drops
\* or takes up capsules of armed updates only, or ends the run.
LEMMA LifeOther ==
    ASSUME IInv, IInv', Next, ~UpdateCapsule, ~(SetStatus /\ ~Return),
           ~\E n \in Updates : WriteVariable(n)
    PROVE  [Lifecycle!Next]_Life
  <1>1. UNCHANGED <<nvram, sent>>
    BY DEF Next, Program, PopulateTable, Apply, EfiMain, Crash, SetStatus,
           GetNextVariableName, TooSmall, GetNextFails,
           SkipVariable, IgnoreUpdate, PopulateArmed, PopulateNotArmed,
           PopulateOutOfMemory, PopulateFails, DeleteVariable, AttributesProbe,
           EndOfVariables, Continue, AddCapsule, AddCapsuleFails,
           AddCapsuleFaults, EndOfBuild,
           EndOfStatuses, QueryCapsuleCapabilities, ResetSystem, Return
  <1>2. CASE Return
    BY <1>1, <1>2, LifeReturn
  <1>3. CASE AddCapsule
    <2>1. \A n \in Names : nvram[n] = "attempted" =>
             (n \in Range(capsules) <=> n \in Range(capsules'))
      <3>1. nvram[updates[i]] = "armed"
        BY <1>3 DEF AddCapsule, IInv, TypeOK, MarkInv
      <3>2. Range(capsules') = Range(capsules) \cup {updates[i]}
        BY <1>3, RangeAppend DEF AddCapsule, IInv, TypeOK
      <3>. QED BY <3>1, <3>2
    <2>. QED BY <1>1, <2>1, LifeKept
  <1>4. CASE ~Return /\ ~AddCapsule
    <2>1. UNCHANGED capsules
      BY <1>4 DEF Next, Program, PopulateTable, Apply, EfiMain, Crash, SetStatus,
           GetNextVariableName, TooSmall, GetNextFails,
           SkipVariable, IgnoreUpdate, PopulateArmed, PopulateNotArmed,
           PopulateOutOfMemory, PopulateFails,
           EndOfVariables, Continue, AddCapsuleFails,
           AddCapsuleFaults, EndOfBuild,
           EndOfStatuses, QueryCapsuleCapabilities, ResetSystem
    <2>. QED BY <1>1, <2>1, LifeKept
  <1>. QED BY <1>2, <1>3, <1>4

\* Requests are spent one by one; what a run has spent and loaded is delivered
\* by one call in that run, or never: fwupd's updater, whatever fails and
\* whenever power is lost, is an UpdateLifecycle.
THEOREM Refinement == Spec => ImplementsLifecycle
  <1>1. Init => Lifecycle!Init
    <2>. SUFFICES ASSUME Init PROVE Life \in [Names -> Lifecycle!Stages \ {"staged", "sent"}]
      BY DEF Life, Lifecycle!Init
    <2>1. ASSUME NEW n \in Names PROVE Stage(n) \in Lifecycle!Stages \ {"staged", "sent"}
      <3>1. Range(capsules) = {} /\ sent[n] = 0
        BY DEF Init, Cleared, Range
      <3>. QED BY <3>1, InitInv, StageCases DEF Lifecycle!Stages
    <2>. QED BY <2>1 DEF Life
  <1>2. IInv /\ IInv' /\ [Next]_vars => [Lifecycle!Next]_Life
    <2>. SUFFICES ASSUME IInv, IInv', [Next]_vars PROVE [Lifecycle!Next]_Life
      OBVIOUS
    <2>1. CASE UpdateCapsule
      BY <2>1, LifeDelivered
    <2>2. CASE SetStatus /\ ~Return
      BY <2>2, LifeSpent
    <2>3. CASE \E n \in Updates : WriteVariable(n)
      BY <2>3, LifeWritten
    <2>4. CASE UNCHANGED vars
      BY <2>4, LifeKept DEF vars, locals
    <2>. QED BY <2>1, <2>2, <2>3, <2>4, LifeOther
  <1>. QED BY <1>1, <1>2, Invariant, PTL DEF Spec, ImplementsLifecycle, Lifecycle!Spec, Life

------------------------------------------------------------------------------
(* What a run looks at *)

\* The enumeration has decided about variable n: it went past it, or it is
\* over.
Passed(n) ==
    CASE pc = "idle" -> FALSE
      [] pc = "next" -> n <= variable_name
      [] pc = "seen" -> IF got = "success" THEN n < variable_name
                        ELSE got = "not_found" \/ n <= variable_name
      [] OTHER -> TRUE

OverlookedInv ==
    \A n \in Updates :
        nvram[n] = "armed" /\ Passed(n) /\ n \notin Range(updates) => FullBefore(n)

\* The enumeration goes past a variable that is in the table, not armed, or
\* met when the table was full.
LEMMA OverlookedContinue ==
    ASSUME IInv, OverlookedInv, pc = "seen", got # "not_found", Continue,
           UNCHANGED updates,
           \/ got # "success"
           \/ variable_name \in Skipped
           \/ TableFull
           \/ nvram[variable_name] # "armed"
    PROVE  OverlookedInv'
  <1>. SUFFICES ASSUME NEW n \in Updates, nvram[n] = "armed",
                       n <= variable_name, n \notin Range(updates)
                PROVE  FullBefore(n)
    BY DEF OverlookedInv, Continue, Passed, FullBefore
  <1>1. n \in Nat /\ variable_name \in Nat /\ n \notin Skipped
    BY DEF Updates, Names, IInv, TypeOK
  <1>2. CASE Passed(n)
    BY <1>2 DEF OverlookedInv
  <1>3. CASE ~Passed(n)
    <2>1. got = "success" /\ n = variable_name
      BY <1>1, <1>3 DEF Passed
    <2>2. Len(updates) = MaxUpdates
      BY <1>1, <2>1 DEF TableFull, IInv, TypeOK, TableInv
    <2>. QED BY <2>1, <2>2 DEF FullBefore, IInv, TableInv
  <1>. QED BY <1>2, <1>3

LEMMA OverlookedReturn == ASSUME Return PROVE OverlookedInv'
  BY DEF OverlookedInv, Return, Passed

LEMMA OverlookedNext == IInv /\ OverlookedInv /\ [Next]_vars => OverlookedInv'
  <1>. SUFFICES ASSUME IInv, OverlookedInv, [Next]_vars PROVE OverlookedInv'
    OBVIOUS
  <1>0. CASE UNCHANGED vars
    BY <1>0 DEF vars, locals, OverlookedInv, Passed, FullBefore
  <1>1. CASE Return
    BY <1>1, OverlookedReturn
  <1>2. CASE GetNextVariableName
    <2>. SUFFICES ASSUME NEW n \in Updates, nvram[n] = "armed", Passed(n)',
                         n \notin Range(updates)
                  PROVE  FullBefore(n)
      BY <1>2 DEF OverlookedInv, GetNextVariableName, FullBefore
    <2>1. n \in Names /\ n \in Nat /\ variable_name \in Nat
      BY DEF Updates, Names, IInv, TypeOK
    <2>2. n > variable_name => n \in Remaining
      BY <2>1 DEF Remaining, Stored
    <2>3. n <= variable_name
      BY <1>2, <2>1, <2>2 DEF GetNextVariableName, Passed, Remaining, Names
    <2>. QED BY <1>2, <2>3 DEF GetNextVariableName, OverlookedInv, Passed
  <1>3. CASE PopulateArmed
    <2>. SUFFICES ASSUME NEW n \in Updates, nvram[n] = "armed", n <= variable_name,
                         n \notin Range(updates')
                  PROVE  FALSE
      BY <1>3 DEF PopulateArmed, Continue, OverlookedInv, Passed
    <2>1. Range(updates') = Range(updates) \cup {variable_name}
      <3>1. updates \in Seq(Names) /\ variable_name \in Names
        <4>1. /\ updates \in Seq(Updates)
              /\ variable_name \in Names
          BY <1>3 DEF PopulateArmed, Populating, IInv, TypeOK, TableInv
        <4>. QED BY <4>1 DEF Updates
      <3>. QED BY <1>3, <3>1, RangeAppend DEF PopulateArmed
    <2>2. Passed(n)
      BY <1>3, <2>1 DEF PopulateArmed, Populating, Passed, IInv, TypeOK, Updates, Names
    <2>. QED BY <1>3, <2>1, <2>2
             DEF PopulateArmed, Populating, TableFull, OverlookedInv, FullBefore,
                 IInv, TypeOK
  <1>4. CASE TooSmall \/ SkipVariable \/ IgnoreUpdate \/ PopulateNotArmed
    BY <1>4, OverlookedContinue
       DEF TooSmall, SkipVariable, IgnoreUpdate, PopulateNotArmed, Populating
  <1>5. CASE EfiMain \/ \E n \in Updates : WriteVariable(n)
    <2>1. CASE EfiMain
      <3>1. variable_name' = 0 /\ pc' \in {"next", "idle"}
        BY <2>1 DEF EfiMain, IInv, MemoryInv, Cleared
      <3>2. \A n \in Updates : ~Passed(n)'
        BY <3>1 DEF Passed, Updates, Names
      <3>. QED BY <3>2 DEF OverlookedInv
    <2>2. CASE \E n \in Updates : WriteVariable(n)
      BY <2>2 DEF WriteVariable, locals, OverlookedInv, Passed
    <2>. QED BY <1>5, <2>1, <2>2
  <1>6. CASE EndOfVariables /\ ~Return
    <2>1. /\ pc = "seen" /\ got = "not_found" /\ pc' = "build"
          /\ UNCHANGED <<nvram, updates>>
      BY <1>6 DEF EndOfVariables
    <2>2. \A n \in Updates : Passed(n)
      BY <2>1 DEF Passed
    <2>. QED BY <2>1, <2>2 DEF OverlookedInv, FullBefore
  <1>7. CASE SetStatus /\ ~Return
    <2>1. /\ pc = "mark" /\ pc' = "mark" /\ UNCHANGED updates
          /\ nvram' = [nvram EXCEPT ![updates[i]] = "attempted"]
      BY <1>7 DEF SetStatus
    <2>2. \A n \in Updates : Passed(n) /\ (nvram'[n] = "armed" => nvram[n] = "armed")
      BY <2>1 DEF Passed, IInv, TypeOK, Updates
    <2>. QED BY <2>1, <2>2 DEF OverlookedInv, FullBefore
  <1>8. CASE Apply /\ ~Return /\ ~SetStatus
    <2>1. /\ pc \in {"build"} \cup Later
          /\ pc' \in {"build"} \cup Later
          /\ UNCHANGED <<nvram, updates>>
      BY <1>8 DEF Apply, AddCapsule, AddCapsuleFails, AddCapsuleFaults, EndOfBuild,
           EndOfStatuses, QueryCapsuleCapabilities, UpdateCapsule, ResetSystem, Later
    <2>2. \A n \in Updates : Passed(n)
      BY <2>1 DEF Passed, Later
    <2>. QED BY <2>1, <2>2 DEF OverlookedInv, FullBefore
  <1>. QED BY <1>0, <1>1, <1>2, <1>3, <1>4, <1>5, <1>6, <1>7, <1>8
           DEF Next, Program, PopulateTable, Crash, GetNextFails,
               PopulateOutOfMemory, PopulateFails, Apply

\* A run that gets past the enumeration has taken up every armed request, but
\* for those it met when updates[] was full of requests the firmware enumerates
\* before them (fwup_populate_update_table); a request that is left armed waits
\* behind others, it is not lost.
THEOREM NoRequestOverlooked == Spec => []NoneOverlooked
  <1>1. Init => OverlookedInv
    BY DEF Init, Cleared, OverlookedInv, Passed
  <1>2. OverlookedInv => NoneOverlooked
    BY DEF OverlookedInv, NoneOverlooked, Passed, Later
  <1>. QED BY <1>1, <1>2, OverlookedNext, Invariant, PTL DEF Spec

------------------------------------------------------------------------------
(* The steps a run has left *)

\* Two steps for each variable after the cursor, two for each entry of the
\* table, and those of the calls that follow.
StepsLeft ==
    CASE pc = "next" -> 7 + 2 * MaxUpdates + 2 * (NumVars - variable_name)
      [] pc = "seen" -> 6 + 2 * MaxUpdates + 2 * (NumVars - variable_name)
                        + (IF got = "success" THEN 2 ELSE 0)
      [] pc = "build" -> 6 + 2 * Len(updates) - i
      [] pc = "mark" -> 5 + Len(updates) - i
      [] pc = "query" -> 3
      [] pc = "update" -> 2
      [] pc = "reset" -> 1
      [] pc = "idle" -> 0

MostSteps == 7 + 2 * MaxUpdates + 2 * NumVars

LEMMA StepsLeftIs ==
    /\ pc = "next" => StepsLeft = 7 + 2 * MaxUpdates + 2 * (NumVars - variable_name)
    /\ pc = "seen" => StepsLeft = 6 + 2 * MaxUpdates + 2 * (NumVars - variable_name)
                                  + (IF got = "success" THEN 2 ELSE 0)
    /\ pc = "build" => StepsLeft = 6 + 2 * Len(updates) - i
    /\ pc = "mark" => StepsLeft = 5 + Len(updates) - i
    /\ pc = "query" => StepsLeft = 3
    /\ pc = "update" => StepsLeft = 2
    /\ pc = "reset" => StepsLeft = 1
    /\ pc = "idle" => StepsLeft = 0
  BY DEF StepsLeft

LEMMA StepsLeftBounded ==
    IInv => /\ StepsLeft \in 0..MostSteps
            /\ pc # "idle" => StepsLeft > 0
  <1>. SUFFICES ASSUME IInv
                PROVE  StepsLeft \in 0..MostSteps /\ (pc # "idle" => StepsLeft > 0)
    OBVIOUS
  <1>1. /\ pc \in PCs /\ variable_name \in 0..NumVars /\ i \in Nat \ {0}
        /\ Len(updates) \in 0..MaxUpdates
        /\ pc = "build" => i <= Len(updates) + 1
        /\ pc = "mark" => i <= Len(updates) + 1
    BY DEF IInv, TypeOK, TableInv, MemoryInv, MarkInv
  <1>2. pc = "seen" /\ got = "success" => variable_name >= 1
    BY DEF IInv, TableInv, Names
  <1>3. CASE pc = "next"
    BY <1>1, <1>3, StepsLeftIs DEF MostSteps
  <1>4. CASE pc = "seen"
    <2>1. CASE got = "success"
      BY <1>1, <1>2, <1>4, <2>1, StepsLeftIs DEF MostSteps
    <2>2. CASE got # "success"
      BY <1>1, <1>4, <2>2, StepsLeftIs DEF MostSteps
    <2>. QED BY <2>1, <2>2
  <1>5. CASE pc = "build" \/ pc = "mark"
    BY <1>1, <1>5, StepsLeftIs DEF MostSteps
  <1>6. CASE pc \in {"query", "update", "reset", "idle"}
    BY <1>6, StepsLeftIs DEF MostSteps
  <1>. QED BY <1>1, <1>3, <1>4, <1>5, <1>6 DEF PCs

LEMMA Descent ==
    ASSUME IInv, Program, got # "too_small" PROVE StepsLeft' < StepsLeft
  <1>1. /\ pc \in PCs /\ variable_name \in 0..NumVars /\ i \in Nat \ {0}
        /\ Len(updates) \in 0..MaxUpdates
        /\ pc = "build" => i <= Len(updates) + 1
        /\ pc = "mark" => i <= Len(updates) + 1
    BY DEF IInv, TypeOK, TableInv, MemoryInv, MarkInv
  <1>2. CASE Return
    <2>1. StepsLeft' = 0
      BY <1>2 DEF Return, StepsLeft
    <2>2. pc # "idle"
      BY DEF Program, PopulateTable, Apply, GetNextVariableName, TooSmall,
           GetNextFails, SkipVariable, IgnoreUpdate, Populating, PopulateArmed,
           PopulateNotArmed, PopulateOutOfMemory, PopulateFails, EndOfVariables,
           AddCapsule, AddCapsuleFails, AddCapsuleFaults, EndOfBuild, SetStatus,
           EndOfStatuses, QueryCapsuleCapabilities, UpdateCapsule, ResetSystem
    <2>3. StepsLeft > 0
      BY <2>2, StepsLeftBounded
    <2>. QED BY <2>1, <2>3
  <1>3. CASE GetNextVariableName
    <2>1. pc = "next" /\ pc' = "seen"
      BY <1>3 DEF GetNextVariableName
    <2>2. \/ got' = "success" /\ variable_name' \in Names /\ variable_name' > variable_name
          \/ got' # "success" /\ variable_name' = variable_name
      BY <1>3 DEF GetNextVariableName, Remaining
    <2>. QED BY <1>1, <2>1, <2>2 DEF StepsLeft, Names
  <1>4. CASE SkipVariable \/ IgnoreUpdate \/ PopulateArmed \/ PopulateNotArmed
    <2>1. pc = "seen" /\ got = "success" /\ pc' = "next" /\ UNCHANGED variable_name
      BY <1>4 DEF SkipVariable, IgnoreUpdate, PopulateArmed, PopulateNotArmed,
              Populating, Continue
    <2>. QED BY <1>1, <2>1 DEF StepsLeft
  <1>5. CASE EndOfVariables /\ ~Return
    <2>1. /\ pc = "seen" /\ got = "not_found" /\ pc' = "build"
          /\ UNCHANGED <<updates, i>>
      BY <1>5 DEF EndOfVariables
    <2>. QED BY <1>1, <2>1 DEF StepsLeft
  <1>6. CASE (AddCapsule \/ AddCapsuleFails) /\ ~Return
    <2>1. /\ pc = "build" /\ pc' = "build" /\ i' = i + 1 /\ UNCHANGED updates
      BY <1>6 DEF AddCapsule, AddCapsuleFails
    <2>. QED BY <1>1, <2>1 DEF StepsLeft
  <1>7. CASE EndOfBuild /\ ~Return
    <2>1. /\ pc = "build" /\ i > Len(updates)
          /\ pc' = "mark" /\ i' = 1 /\ UNCHANGED updates
      BY <1>7 DEF EndOfBuild
    <2>. QED BY <1>1, <2>1 DEF StepsLeft
  <1>8. CASE SetStatus /\ ~Return
    <2>1. pc = "mark" /\ pc' = "mark" /\ i' = i + 1 /\ UNCHANGED updates
      BY <1>8 DEF SetStatus
    <2>. QED BY <1>1, <2>1 DEF StepsLeft
  <1>9. CASE EndOfStatuses
    BY <1>1, <1>9 DEF EndOfStatuses, StepsLeft
  <1>10. CASE QueryCapsuleCapabilities
    BY <1>10 DEF QueryCapsuleCapabilities, StepsLeft
  <1>11. CASE UpdateCapsule /\ ~Return
    BY <1>11 DEF UpdateCapsule, StepsLeft
  <1>12. ~TooSmall
    BY DEF TooSmall
  <1>. QED BY <1>2, <1>3, <1>4, <1>5, <1>6, <1>7, <1>8, <1>9, <1>10, <1>11, <1>12
           DEF Program, PopulateTable, Apply, GetNextFails, PopulateOutOfMemory,
               PopulateFails, AddCapsuleFaults, ResetSystem

\* A run takes at most MostSteps steps, however many calls fail, except that
\* it may ask again and again for a name that does not fit the buffer ("ignore
\* any huge names"): every other step of efi_main comes nearer to its end.
THEOREM RunIsBounded ==
    Spec => /\ [](StepsLeft \in 0..MostSteps)
            /\ [][Program /\ got # "too_small" => StepsLeft' < StepsLeft]_vars
  <1>1. IInv /\ [Next]_vars => [Program /\ got # "too_small" => StepsLeft' < StepsLeft]_vars
    BY Descent
  <1>. QED BY <1>1, StepsLeftBounded, Invariant, PTL DEF Spec
==============================================================================
