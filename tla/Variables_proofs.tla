-------------------------- MODULE Variables_proofs --------------------------
(***************************************************************************)
(* Proofs about Variables: that what the program holds is the variable it  *)
(* read, that each buffer has one owner, and that what it writes back is   *)
(* the variable with its status changed.                                   *)
(***************************************************************************)
EXTENDS Variables, TLAPS

\* Nothing is held before the data is read, and nothing outlives it but the
\* copy that waits for step 3.
HoldsInv ==
    /\ buf = "pool" => pc = "read"
    /\ pc = "read" => (buf = "NULL" <=> stored = Absent)
    /\ info # Absent => pc \in {"check", "mark", "idle"}
    /\ pc = "malloc" => stored # Absent /\ size = stored.size
    /\ pc = "read" /\ stored # Absent => size = stored.size
    /\ pc \in {"check", "mark"} => stored # Absent
    /\ pc = "mark" => stored.data = "armed"
    /\ pc # "idle" => deleted = "none"

IInv == TypeOK /\ ReadsWhole /\ BuffersBalance /\ DeleteTells /\ HoldsInv

LEMMA AbsentValue == Absent \in Values
  BY BoundsAssumption DEF Absent, Values, Data

\* A variable that exists has attributes, and data unless its size is 0.
LEMMA ValueFacts ==
    ASSUME NEW v \in Values
    PROVE  /\ v = [size |-> v.size, attrs |-> v.attrs, data |-> v.data]
           /\ v.size \in 0..MaxSize /\ v.attrs \in SUBSET Attributes /\ v.data \in Data
           /\ v.attrs = {} => v = Absent
           /\ v.size = 0 <=> v.data = "none"
  BY DEF Values, Absent, Data

LEMMA InitInv == Init => IInv
  BY BoundsAssumption DEF Init, Cleared, IInv, TypeOK, ReadsWhole, BuffersBalance,
     DeleteTells, HoldsInv, Absent, Data

\* What SetVariable makes of the copy, and of a deletion.
LEMMA SetFacts ==
    ASSUME NEW v \in Values, v = stored
    PROVE  /\ v.data = "armed" => /\ Attempted(v) \in Values
                                  /\ AfterSet(Attempted(v)) = Attempted(v)
           /\ v.size = 0 => AfterSet(v) = Absent
  <1>1. v.data = "armed" => v.size # 0 /\ v.attrs # {}
    BY DEF Values
  <1>2. v.data = "armed" => Attempted(v) \in Values
    BY <1>1 DEF Values, Attempted, Data
  <1>3. /\ Attempted(v).size = v.size /\ Attempted(v).attrs = v.attrs
    BY DEF Attempted
  <1>. QED BY <1>1, <1>2, <1>3 DEF AfterSet

LEMMA NextInv == ASSUME IInv, [Next]_vars PROVE IInv'
  <1>. USE DEF IInv, TypeOK, ReadsWhole, BuffersBalance, DeleteTells, HoldsInv
  <1>0. /\ stored = [size |-> stored.size, attrs |-> stored.attrs, data |-> stored.data]
        /\ stored.size \in 0..MaxSize /\ stored.attrs \in SUBSET Attributes
        /\ stored.data \in Data
        /\ stored.attrs = {} => stored = Absent
        /\ stored.size = 0 <=> stored.data = "none"
    BY ValueFacts
  <1>1. CASE Boot
    BY <1>1, BoundsAssumption DEF Boot, Absent, Data
  <1>2. CASE AskSize
    <2>1. stored.size > 0 => stored # Absent
      BY DEF Absent
    <2>. QED BY <1>0, <1>2, <2>1, BoundsAssumption DEF AskSize, Fails
  <1>3. CASE Malloc
    <2>1. buf = "NULL" /\ info = Absent /\ live = 0
      BY <1>3 DEF Malloc
    <2>2. BuffersBalance'
      BY <1>3, <2>1 DEF Malloc
    <2>3. live' \in Nat /\ failures' \in 0..MaxFailures
      BY <1>3, BoundsAssumption DEF Malloc, Fails
    <2>. QED BY <1>3, <2>1, <2>2, <2>3 DEF Malloc
  <1>4. CASE Read
    <2>1. CASE stored # Absent /\ pc' = "check"
      <3>1. info' = stored
        BY <1>0, <1>4, <2>1 DEF Read, AnsweredAttributes
      <3>2. info = Absent /\ live = 1
        BY <1>0, <1>4, <2>1 DEF Read
      <3>. QED BY <1>0, <1>4, <2>1, <3>1, <3>2 DEF Read, AnsweredAttributes
    <2>2. CASE pc' = "delete"
      BY <1>4, <2>2, BoundsAssumption DEF Read, FreeBuffer, Fails
    <2>. QED BY <1>4, <2>1, <2>2 DEF Read
  <1>5. CASE Check
    BY <1>0, <1>5, BoundsAssumption DEF Check, FreeInfo, Fails, Absent, Data, Attempted
  <1>6. CASE Mark
    <2>1. stored' \in {stored, Attempted(stored)} /\ Attempted(stored) \in Values
      BY <1>6, SetFacts DEF Mark, Marking
    <2>. QED BY <1>0, <1>6, <2>1, BoundsAssumption DEF Mark, Fails, locals
  <1>7. CASE DeleteVariable
    <2>1. stored' \in {stored, Absent} /\ (deleted' = "success" => stored' = Absent)
      BY <1>7, SetFacts DEF DeleteVariable
    <2>2. deleted' \in {"success", "error"}
      BY <1>7 DEF DeleteVariable
    <2>. QED BY <1>7, <2>1, <2>2, AbsentValue, BoundsAssumption DEF DeleteVariable, Fails
  <1>8. CASE Crash
    BY <1>8, BoundsAssumption DEF Crash, Fails, Absent, Data
  <1>9. CASE WriteVariable
    BY <1>9, BoundsAssumption DEF WriteVariable
  <1>10. CASE UNCHANGED vars
    BY <1>10 DEF vars, locals
  <1>. QED BY <1>1, <1>2, <1>3, <1>4, <1>5, <1>6, <1>7, <1>8, <1>9, <1>10 DEF Next

THEOREM Invariant == Spec => []IInv
  BY InitInv, NextInv, PTL DEF Spec

\* Every variable keeps its type: no buffer is freed that was not allocated.
THEOREM TypeCorrect == Spec => []TypeOK
  BY Invariant, PTL DEF IInv

\* The copy the program works on has the size, the attributes and the data of
\* the variable, whatever the first answer left in attrs.
THEOREM ReadsWholeVariable == Spec => []ReadsWhole
  BY Invariant, PTL DEF IInv

\* Each buffer is freed once or handed over once.
THEOREM BuffersOwned == Spec => []BuffersBalance
  BY Invariant, PTL DEF IInv

\* fwup_delete_variable never reports a success it did not have.
THEOREM DeletionHonest == Spec => []DeleteTells
  BY Invariant, PTL DEF IInv

\* A boot only marks the variable, or deletes one without data.
THEOREM WritesBackOnly == Spec => WritesBack
  <1>1. IInv /\ [Next]_vars =>
          [pc # "idle" /\ stored' # stored =>
             \/ stored.data = "armed" /\ stored' = Attempted(stored)
             \/ stored.size = 0 /\ stored' = Absent]_vars
    <2>. SUFFICES ASSUME IInv, Next, pc # "idle", stored' # stored
                  PROVE  \/ stored.data = "armed" /\ stored' = Attempted(stored)
                         \/ stored.size = 0 /\ stored' = Absent
      OBVIOUS
    <2>1. Mark \/ DeleteVariable
      BY DEF Next, Boot, AskSize, Malloc, Read, Check, Crash, WriteVariable
    <2>2. stored \in Values
      BY DEF IInv, TypeOK
    <2>. QED BY <2>1, <2>2, SetFacts
             DEF IInv, ReadsWhole, HoldsInv, Mark, Marking, DeleteVariable
  <1>. QED BY <1>1, Invariant, PTL DEF Spec, WritesBack
==============================================================================
