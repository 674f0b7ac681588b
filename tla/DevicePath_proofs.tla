-------------------------- MODULE DevicePath_proofs --------------------------
(***************************************************************************)
(* The memory safety of the walks over a device path, for every content    *)
(* and size of the state variable.                                         *)
(***************************************************************************)
EXTENDS DevicePath, TLAPS

\* While fwup_dp_size walks: the nodes read so far follow one another up to
\* the cursor, and none of them ends the path.
WalkInv ==
    pc = "size" =>
        /\ dp = ret /\ ret + limit = Area /\ limit >= 0
        /\ count = 0 /\ file_dp = 0 /\ h = 0
        /\ \A d \in DOMAIN node :
              /\ node[d].kind # "end"
              /\ node[d].length >= Header
              /\ node[d].index < walked
              /\ d < dp
              /\ \/ d + node[d].length = dp /\ node[d].index + 1 = walked
                 \/ /\ d + node[d].length \in DOMAIN node
                    /\ node[d + node[d].length].index = node[d].index + 1
        /\ IF walked = 0 THEN dp = 0 /\ DOMAIN node = {}
                         ELSE 0 \in DOMAIN node /\ node[0].index = 0

\* No two nodes have the same index.
IndexInv ==
    pc = "done" \/ \A c, d \in DOMAIN node : node[c].index = node[d].index => c = d

\* In an accepted path every node is followed by another, up to the end node.
PathInv ==
    Accepted =>
        /\ ret = Area /\ limit = 0
        /\ 0 \in DOMAIN node /\ node[0].index = 0
        /\ \A d \in DOMAIN node :
              /\ node[d].length >= Header
              /\ d + node[d].length <= Area
              /\ node[d].index < walked
              /\ node[d].kind = "end" => node[d].index + 1 = walked
              /\ node[d].kind # "end" =>
                    /\ d + node[d].length \in DOMAIN node
                    /\ node[d + node[d].length].index = node[d].index + 1

\* Where the later walks are, by the number of nodes behind them.
CursorInv ==
    /\ pc = "populate" => /\ DOMAIN node = {} /\ dp = 0 /\ limit = 0 /\ ret = 0
                          /\ walked = 0 /\ count = 0 /\ h = 0 /\ file_dp = 0
    /\ pc = "locate" => count = 0 /\ file_dp = 0
    /\ pc = "search" => /\ dp \in DOMAIN node /\ node[dp].index = count
                        /\ file_dp = 0
    /\ pc = "match" => /\ dp \in DOMAIN node /\ node[dp].index = count
                       /\ file_dp = 0 /\ node[dp].kind = "file"
    /\ pc = "advance" => /\ dp \in DOMAIN node /\ node[dp].kind = "file"
                         /\ file_dp \in DOMAIN node
                         /\ node[file_dp].index + count = node[dp].index
    /\ pc \in {"check", "open"} => file_dp \in DOMAIN node
    /\ pc = "open" => ~BadName

IInv == TypeOK /\ HeadersInside /\ WalkInv /\ IndexInv /\ PathInv /\ CursorInv

USE SizesAssumption

LEMMA InitInv == Init => IInv
  BY DEF Init, IInv, TypeOK, HeadersInside, WalkInv, IndexInv, PathInv, CursorInv,
         Accepted, Nodes, Kinds, Area, BadName

\* A step that ends the run and reads nothing.
LEMMA FinishInv ==
    ASSUME IInv, NEW status \in {"invalid", "no_handles", "unsupported", "error", "success"},
           Finish(status),
           UNCHANGED <<info_size, node, limit, ret, walked, count, h, file_dp>>,
           dp' \in Nat
    PROVE  IInv'
  BY DEF IInv, Finish, TypeOK, HeadersInside, WalkInv, IndexInv, PathInv, CursorInv,
         Accepted, Area

LEMMA HeaderRead ==
    ASSUME IInv, pc = "size", HeaderFits, NEW n \in Headers, Remember(n),
           UNCHANGED info_size
    PROVE  /\ DOMAIN node' = DOMAIN node \cup {dp}
           /\ dp \notin DOMAIN node
           /\ \A d \in DOMAIN node : node'[d] = node[d]
           /\ node'[dp] = [length |-> n.length, kind |-> n.kind, index |-> walked]
           /\ node' \in [DOMAIN node' -> Nodes] /\ DOMAIN node' \subseteq Nat
           /\ HeadersInside'
  <1>1. /\ dp \in Nat /\ DOMAIN node \subseteq Nat
        /\ node \in [DOMAIN node -> Nodes] /\ walked \in Nat
    BY DEF IInv, TypeOK
  <1>2. dp \notin DOMAIN node
    BY <1>1 DEF IInv, WalkInv
  <1>3. /\ DOMAIN node' = DOMAIN node \cup {dp}
        /\ \A d \in DOMAIN node : node'[d] = node[d]
        /\ node'[dp] = [length |-> n.length, kind |-> n.kind, index |-> walked]
    BY <1>2 DEF Remember
  <1>4. [length |-> n.length, kind |-> n.kind, index |-> walked] \in Nodes
    BY <1>1 DEF Headers, Nodes
  <1>5. node' \in [DOMAIN node' -> Nodes]
    BY <1>1, <1>2, <1>4 DEF Remember
  <1>6. HeadersInside'
    <2>1. dp + Header <= Area
      BY DEF IInv, WalkInv, HeaderFits, TypeOK, Area, Header
    <2>. QED BY <1>1, <1>3, <2>1 DEF IInv, HeadersInside, Area
  <1>. QED BY <1>1, <1>2, <1>3, <1>5, <1>6

LEMMA BadNodeInv == ASSUME IInv, BadNode PROVE IInv'
  <1>1. PICK n \in Headers : Remember(n)
    BY DEF BadNode
  <1>2. /\ node' \in [DOMAIN node' -> Nodes] /\ DOMAIN node' \subseteq Nat
        /\ HeadersInside'
    BY <1>1, HeaderRead DEF BadNode
  <1>. QED BY <1>2 DEF BadNode, Finish, IInv, TypeOK, WalkInv, IndexInv, PathInv,
           CursorInv, Accepted

LEMMA NextNodeInv == ASSUME IInv, NextNode PROVE IInv'
  <1>1. PICK n \in Headers :
           /\ ~TooShort(n) /\ n.kind # "end"
           /\ Remember(n)
           /\ limit' = limit - n.length
           /\ ret' = ret + n.length
           /\ walked' = walked + 1
           /\ dp' = dp + n.length
    BY DEF NextNode
  <1>2. /\ pc = "size" /\ pc' = "size" /\ HeaderFits
        /\ UNCHANGED <<info_size, count, h, file_dp, rc>>
    BY DEF NextNode
  <1>3. /\ DOMAIN node' = DOMAIN node \cup {dp}
        /\ dp \notin DOMAIN node
        /\ \A d \in DOMAIN node : node'[d] = node[d]
        /\ node'[dp] = [length |-> n.length, kind |-> n.kind, index |-> walked]
        /\ node' \in [DOMAIN node' -> Nodes] /\ DOMAIN node' \subseteq Nat
        /\ HeadersInside'
    BY <1>1, <1>2, HeaderRead
  <1>4. n.length \in Nat /\ n.length >= Header /\ n.length <= limit
    BY <1>1, <1>2 DEF TooShort, Headers, IInv, TypeOK, Header
  <1>5. TypeOK'
    BY <1>1, <1>2, <1>3, <1>4 DEF IInv, TypeOK, Accepted
  <1>6. WalkInv'
    <2>1. /\ dp = ret /\ ret + limit = Area /\ limit >= 0
          /\ count = 0 /\ file_dp = 0 /\ h = 0
          /\ dp \in Nat /\ ret \in Nat /\ limit \in Int /\ walked \in Nat
      BY <1>2 DEF IInv, TypeOK, WalkInv
    <2>2. /\ dp' = ret' /\ ret' + limit' = Area /\ limit' >= 0
          /\ dp' = dp + n.length /\ dp' > dp /\ walked' = walked + 1
      BY <1>1, <1>4, <2>1 DEF Header
    <2>3. ASSUME NEW d \in DOMAIN node'
          PROVE  /\ node'[d].kind # "end"
                 /\ node'[d].length >= Header
                 /\ node'[d].index < walked'
                 /\ d < dp'
                 /\ \/ d + node'[d].length = dp' /\ node'[d].index + 1 = walked'
                    \/ /\ d + node'[d].length \in DOMAIN node'
                       /\ node'[d + node'[d].length].index = node'[d].index + 1
      <3>1. CASE d = dp
        BY <1>1, <1>3, <1>4, <2>1, <2>2, <3>1
      <3>2. CASE d \in DOMAIN node
        <4>1. /\ node'[d] = node[d] /\ d \in Nat
              /\ node[d].index \in Nat /\ node[d].length \in Nat
              /\ node[d].kind # "end" /\ node[d].length >= Header
              /\ node[d].index < walked /\ d < dp
          BY <1>2, <1>3, <3>2 DEF IInv, TypeOK, WalkInv, Nodes
        <4>2. CASE d + node[d].length = dp /\ node[d].index + 1 = walked
          BY <1>3, <1>4, <2>1, <2>2, <4>1, <4>2
        <4>3. CASE /\ d + node[d].length \in DOMAIN node
                   /\ node[d + node[d].length].index = node[d].index + 1
          BY <1>3, <1>4, <2>1, <2>2, <4>1, <4>3
        <4>. QED BY <1>2, <3>2, <4>2, <4>3 DEF IInv, WalkInv
      <3>. QED BY <1>3, <3>1, <3>2
    <2>4. 0 \in DOMAIN node' /\ node'[0].index = 0
      BY <1>2, <1>3, <2>1 DEF IInv, WalkInv
    <2>. QED BY <1>2, <2>1, <2>2, <2>3, <2>4 DEF WalkInv, Area
  <1>7. IndexInv'
    BY <1>1, <1>2, <1>3 DEF IInv, TypeOK, WalkInv, IndexInv
  <1>. QED BY <1>2, <1>3, <1>5, <1>6, <1>7 DEF IInv, PathInv, CursorInv, Accepted

LEMMA EndNodeInv == ASSUME IInv, EndNode PROVE IInv'
  <1>1. PICK n \in Headers :
           /\ ~TooShort(n) /\ n.kind = "end"
           /\ Remember(n)
           /\ limit' = limit - n.length
           /\ ret' = ret + n.length
           /\ walked' = walked + 1
           /\ IF Fills(ret + n.length)
                THEN pc' = "locate" /\ UNCHANGED rc
                ELSE Finish("invalid")
    BY DEF EndNode
  <1>2. /\ pc = "size" /\ HeaderFits
        /\ UNCHANGED <<info_size, dp, count, h, file_dp>>
    BY DEF EndNode
  <1>3. /\ DOMAIN node' = DOMAIN node \cup {dp}
        /\ dp \notin DOMAIN node
        /\ \A d \in DOMAIN node : node'[d] = node[d]
        /\ node'[dp] = [length |-> n.length, kind |-> n.kind, index |-> walked]
        /\ node' \in [DOMAIN node' -> Nodes] /\ DOMAIN node' \subseteq Nat
        /\ HeadersInside'
    BY <1>1, <1>2, HeaderRead
  <1>4. n.length \in Nat /\ n.length >= Header /\ n.length <= limit
    BY <1>1, <1>2 DEF TooShort, Headers, IInv, TypeOK, Header
  <1>5. TypeOK'
    BY <1>1, <1>2, <1>3, <1>4 DEF IInv, TypeOK, Accepted, Finish
  <1>6. IndexInv'
    BY <1>1, <1>2, <1>3 DEF IInv, TypeOK, WalkInv, IndexInv, Finish
  <1>7. PathInv'
    <2>. SUFFICES ASSUME pc' = "locate" PROVE PathInv'
      BY <1>1 DEF PathInv, Accepted, Finish
    <2>1. ret' = Area
      BY <1>1 DEF Fills, Finish
    <2>2. /\ dp = ret /\ ret + limit = Area /\ limit >= 0
          /\ dp \in Nat /\ ret \in Nat /\ limit \in Int /\ walked \in Nat
      BY <1>2 DEF IInv, TypeOK, WalkInv
    <2>3. limit' = 0 /\ dp + n.length = Area
      BY <1>1, <1>4, <2>1, <2>2 DEF Area
    <2>4. ASSUME NEW d \in DOMAIN node'
          PROVE  /\ node'[d].length >= Header
                 /\ d + node'[d].length <= Area
                 /\ node'[d].index < walked'
                 /\ node'[d].kind = "end" => node'[d].index + 1 = walked'
                 /\ node'[d].kind # "end" =>
                       /\ d + node'[d].length \in DOMAIN node'
                       /\ node'[d + node'[d].length].index = node'[d].index + 1
      <3>1. CASE d = dp
        BY <1>1, <1>3, <1>4, <2>2, <2>3, <3>1
      <3>2. CASE d \in DOMAIN node
        <4>1. /\ node'[d] = node[d] /\ d \in Nat
              /\ node[d].index \in Nat /\ node[d].length \in Nat
              /\ node[d].kind # "end" /\ node[d].length >= Header
              /\ node[d].index < walked /\ d < dp
          BY <1>2, <1>3, <3>2 DEF IInv, TypeOK, WalkInv, Nodes
        <4>2. CASE d + node[d].length = dp /\ node[d].index + 1 = walked
          BY <1>1, <1>3, <1>4, <2>2, <2>3, <4>1, <4>2
        <4>3. CASE /\ d + node[d].length \in DOMAIN node
                   /\ node[d + node[d].length].index = node[d].index + 1
          <5>1. d + node[d].length < dp
            BY <1>2, <4>3 DEF IInv, WalkInv
          <5>. QED BY <1>1, <1>3, <1>4, <2>2, <2>3, <4>1, <4>3, <5>1
        <4>. QED BY <1>2, <3>2, <4>2, <4>3 DEF IInv, WalkInv
      <3>. QED BY <1>3, <3>1, <3>2
    <2>5. 0 \in DOMAIN node' /\ node'[0].index = 0
      BY <1>2, <1>3, <2>2 DEF IInv, WalkInv
    <2>. QED BY <1>2, <2>1, <2>3, <2>4, <2>5 DEF PathInv, Area
  <1>8. CursorInv' /\ WalkInv'
    BY <1>1, <1>2 DEF IInv, WalkInv, CursorInv, Finish
  <1>. QED BY <1>3, <1>5, <1>6, <1>7, <1>8 DEF IInv

LEMMA PopulateInv == ASSUME IInv, Populate PROVE IInv'
  <1>1. CASE SizeRejected
    BY <1>1, FinishInv DEF SizeRejected, IInv, TypeOK
  <1>2. CASE SizeAccepted
    BY <1>2 DEF SizeAccepted, TooSmall, IInv, TypeOK, HeadersInside, WalkInv, IndexInv,
       PathInv, CursorInv, Accepted, Area, InfoSize, Header
  <1>3. CASE OutOfBytes
    BY <1>3, FinishInv DEF OutOfBytes, IInv, TypeOK
  <1>4. CASE BadNode
    BY <1>4, BadNodeInv
  <1>5. CASE NextNode
    BY <1>5, NextNodeInv
  <1>6. CASE EndNode
    BY <1>6, EndNodeInv
  <1>. QED BY <1>1, <1>2, <1>3, <1>4, <1>5, <1>6 DEF Populate

\* A step that moves the cursors and leaves the path alone.
LEMMA PathKept ==
    ASSUME IInv, Accepted, Accepted',
           UNCHANGED <<info_size, node, limit, ret, walked>>
    PROVE  HeadersInside' /\ WalkInv' /\ IndexInv' /\ PathInv'
  BY DEF IInv, HeadersInside, WalkInv, IndexInv, PathInv, Accepted, Area

LEMMA SearchInv == ASSUME IInv, Search PROVE IInv'
  <1>1. CASE SearchNode
    <2>1. /\ dp \in DOMAIN node /\ node[dp].kind # "end" /\ node[dp].index = count
      BY <1>1 DEF SearchNode, IInv, CursorInv
    <2>2. /\ dp' \in DOMAIN node /\ node[dp'].index = count'
      BY <1>1, <2>1 DEF SearchNode, IInv, PathInv, Accepted
    <2>3. DOMAIN node \subseteq Nat
      BY DEF IInv, TypeOK
    <2>4. TypeOK'
      BY <1>1, <2>2, <2>3 DEF SearchNode, IInv, TypeOK, Accepted
    <2>5. CursorInv'
      BY <1>1, <2>2 DEF SearchNode, IInv, CursorInv
    <2>. QED BY <1>1, <2>4, <2>5, PathKept DEF SearchNode, IInv, Accepted
  <1>2. CASE SearchEnd
    BY <1>2, FinishInv DEF SearchEnd, IInv, TypeOK
  <1>3. CASE SearchFile
    BY <1>3, PathKept DEF SearchFile, IInv, TypeOK, CursorInv, Accepted
  <1>4. CASE NoMatch
    BY <1>4, PathKept DEF NoMatch, IInv, TypeOK, CursorInv, Accepted
  <1>5. CASE Match
    <2>1. CursorInv'
      BY <1>5 DEF Match, IInv, TypeOK, CursorInv, PathInv, Accepted
    <2>. QED BY <1>5, <2>1, PathKept DEF Match, IInv, TypeOK, Accepted
  <1>6. CASE NoneMatches
    BY <1>6, FinishInv DEF NoneMatches, IInv, TypeOK
  <1>7. CASE Advance
    <2>1. /\ pc = "advance" /\ file_dp \in DOMAIN node /\ dp \in DOMAIN node
          /\ node[file_dp].index + count = node[dp].index /\ node[dp].kind = "file"
      BY <1>7 DEF Advance, IInv, CursorInv
    <2>2. CASE count > 0
      <3>1. node[file_dp].index + 1 < walked
        BY <2>1, <2>2 DEF IInv, TypeOK, PathInv, Accepted, Nodes
      <3>2. node[file_dp].kind # "end"
        BY <2>1, <3>1 DEF IInv, TypeOK, PathInv, Accepted, Nodes
      <3>3. /\ file_dp' \in DOMAIN node
            /\ node[file_dp'].index = node[file_dp].index + 1
            /\ count' = count - 1
        BY <1>7, <2>1, <2>2, <3>2 DEF Advance, IInv, PathInv, Accepted
      <3>4. UNCHANGED <<pc, info_size, node, dp, limit, ret, walked, h, rc>>
        BY <1>7, <2>2 DEF Advance
      <3>5. node[file_dp].index \in Nat /\ node[dp].index \in Nat /\ DOMAIN node \subseteq Nat
        BY <2>1 DEF IInv, TypeOK, Nodes
      <3>6. TypeOK'
        BY <2>2, <3>3, <3>4, <3>5 DEF IInv, TypeOK, Accepted
      <3>7. CursorInv'
        BY <2>1, <2>2, <3>3, <3>4, <3>5 DEF IInv, TypeOK, CursorInv
      <3>. QED BY <2>1, <3>4, <3>6, <3>7, PathKept DEF IInv, Accepted
    <2>3. CASE ~(count > 0)
      BY <1>7, <2>1, <2>3, PathKept DEF Advance, IInv, TypeOK, CursorInv, Accepted
    <2>. QED BY <2>2, <2>3
  <1>. QED BY <1>1, <1>2, <1>3, <1>4, <1>5, <1>6, <1>7 DEF Search

LEMMA OpenFileInv == ASSUME IInv, OpenFile PROVE IInv'
  <1>1. CASE LocateDevicePath
    BY <1>1, PathKept DEF LocateDevicePath, IInv, TypeOK, CursorInv, Accepted
  <1>2. CASE StartSearch
    <2>1. CASE pc' = "search"
      BY <1>2, <2>1, PathKept
         DEF StartSearch, Finish, IInv, TypeOK, CursorInv, PathInv, Accepted
    <2>2. CASE Finish("no_handles")
      BY <1>2, <2>2, FinishInv DEF StartSearch, Finish, IInv, TypeOK
    <2>. QED BY <1>2, <2>1, <2>2 DEF StartSearch
  <1>3. CASE NotAFile
    BY <1>3, FinishInv DEF NotAFile, IInv, TypeOK
  <1>4. CASE NameRejected
    BY <1>4, FinishInv DEF NameRejected, IInv, TypeOK
  <1>5. CASE CopyName
    BY <1>5, PathKept DEF CopyName, IInv, TypeOK, CursorInv, Accepted, BadName, NameSize
  <1>6. CASE Open
    BY <1>6, FinishInv DEF Open, IInv, TypeOK
  <1>. QED BY <1>1, <1>2, <1>3, <1>4, <1>5, <1>6 DEF OpenFile

LEMMA NextInv == IInv /\ [Next]_vars => IInv'
  <1>. SUFFICES ASSUME IInv, [Next]_vars PROVE IInv'
    OBVIOUS
  <1>1. CASE Next
    BY <1>1, PopulateInv, SearchInv, OpenFileInv DEF Next
  <1>2. CASE UNCHANGED vars
    BY <1>2 DEF vars, IInv, TypeOK, HeadersInside, WalkInv, IndexInv, PathInv,
       CursorInv, Accepted, Area, BadName, NameSize
  <1>. QED BY <1>1, <1>2

THEOREM Invariant == Spec => []IInv
  BY InitInv, NextInv, PTL DEF Spec

\* Every variable of the parsers keeps its type, whatever bytes are parsed.
THEOREM TypeCorrect == Spec => []TypeOK
  BY Invariant, PTL DEF IInv

\* fwup_dp_size reads no header beyond the bytes of the variable.
THEOREM HeaderReadsInside == Spec => []HeadersInside
  BY Invariant, PTL DEF IInv

\* What fwup_dp_size accepts is a path whose nodes lie inside the variable.
THEOREM AcceptedNodesInside == Spec => []NodesInside
  <1>1. IInv => NodesInside
    BY DEF IInv, PathInv, NodesInside
  <1>. QED BY <1>1, Invariant, PTL

\* fwup_search_file and fwup_open_file, which check no limit, reach nothing
\* that was not validated.
THEOREM LaterWalksSafe == Spec => []WalksValidated
  <1>1. IInv => WalksValidated
    BY DEF IInv, PathInv, CursorInv, WalksValidated, Accepted
  <1>. QED BY <1>1, Invariant, PTL

\* Counting nodes in the copy and then in the original finds the same node,
\* and the name taken from it has a legal size.
THEOREM SearchCorrect == Spec => []SearchFindsFile
  <1>1. IInv => SearchFindsFile
    <2>. SUFFICES ASSUME IInv PROVE SearchFindsFile
      OBVIOUS
    <2>1. pc = "advance" /\ count = 0 => file_dp = dp /\ node[dp].kind = "file"
      BY DEF IInv, TypeOK, IndexInv, CursorInv, Nodes, Accepted
    <2>2. pc = "open" => NameSize % 2 = 0 /\ NameSize \in 8..MaxPath
      BY DEF IInv, TypeOK, CursorInv, BadName, NameSize, Nodes, Header
    <2>. QED BY <2>1, <2>2 DEF SearchFindsFile
  <1>. QED BY <1>1, Invariant, PTL

\* An accepted path fills the rest of the variable to the last byte.
THEOREM AcceptedPathFills == Spec => []PathFills
  <1>1. IInv => PathFills
    BY DEF IInv, PathInv, PathFills
  <1>. QED BY <1>1, Invariant, PTL

\* The steps left at most: one for each node that may be ahead of a walk, and
\* one for each handle.
StepsLeft ==
    CASE pc = "populate" -> 8 + NumHandles + 2 * info_size
      [] pc = "size"     -> 7 + NumHandles + 2 * (walked + limit)
      [] pc = "locate"   -> 6 + NumHandles + 2 * walked
      [] pc = "search"   -> 5 + NumHandles + 2 * walked - count
      [] pc = "match"    -> 4 + NumHandles - h + count
      [] pc = "advance"  -> 3 + count
      [] pc = "check"    -> 2
      [] pc = "open"     -> 1
      [] pc = "done"     -> 0

LEMMA StepsLeftIs ==
    /\ pc = "populate" => StepsLeft = 8 + NumHandles + 2 * info_size
    /\ pc = "size"     => StepsLeft = 7 + NumHandles + 2 * (walked + limit)
    /\ pc = "locate"   => StepsLeft = 6 + NumHandles + 2 * walked
    /\ pc = "search"   => StepsLeft = 5 + NumHandles + 2 * walked - count
    /\ pc = "match"    => StepsLeft = 4 + NumHandles - h + count
    /\ pc = "advance"  => StepsLeft = 3 + count
    /\ pc = "check"    => StepsLeft = 2
    /\ pc = "open"     => StepsLeft = 1
    /\ pc = "done"     => StepsLeft = 0
  BY DEF StepsLeft

\* Where a walk is, it has counted fewer nodes than there are.
LEMMA CountBound ==
    ASSUME IInv, pc \in {"search", "match"}
    PROVE  count < walked
  <1>1. dp \in DOMAIN node /\ node[dp].index = count
    BY DEF IInv, CursorInv
  <1>. QED BY <1>1 DEF IInv, PathInv, Accepted

\* The nodes that were walked take up four bytes each.
WalkedInv ==
    /\ pc = "populate" => walked = 0
    /\ pc = "size" => 4 * walked + limit <= info_size
    /\ Accepted => 4 * walked <= info_size

LEMMA WalkedInit == Init => WalkedInv
  BY DEF Init, WalkedInv, Accepted

LEMMA WalkedNext == IInv /\ WalkedInv /\ [Next]_vars => WalkedInv'
  <1>. SUFFICES ASSUME IInv, WalkedInv, [Next]_vars PROVE WalkedInv'
    OBVIOUS
  <1>1. /\ info_size \in Nat /\ walked \in Nat /\ limit \in Int
        /\ pc = "size" => limit >= 0
    BY DEF IInv, TypeOK, WalkInv
  <1>2. CASE SizeAccepted
    BY <1>1, <1>2 DEF SizeAccepted, WalkedInv, Accepted, Area
  <1>3. CASE NextNode \/ EndNode
    <2>1. PICK n \in Headers : ~TooShort(n) /\ limit' = limit - n.length /\ walked' = walked + 1
      BY <1>3 DEF NextNode, EndNode
    <2>2. n.length \in Nat /\ n.length >= 4
      BY <2>1 DEF Headers, TooShort, Header
    <2>3. pc = "size" /\ info_size' = info_size /\ pc' \in {"size", "locate", "done"}
          /\ limit' \in Int /\ (pc' = "locate" => limit' >= 0)
      BY <1>1, <1>3, <2>1, <2>2 DEF NextNode, EndNode, Finish, TooShort
    <2>. QED BY <1>1, <2>1, <2>2, <2>3 DEF WalkedInv, Accepted
  <1>4. CASE Search \/ OpenFile \/ SizeRejected \/ OutOfBytes \/ BadNode \/ UNCHANGED vars
    <2>1. UNCHANGED <<info_size, walked, limit>>
      BY <1>4 DEF Search, OpenFile, SizeRejected, OutOfBytes, BadNode, SearchNode, SearchEnd, SearchFile,
                  NoMatch, Match, NoneMatches, Advance, LocateDevicePath, StartSearch, NotAFile,
                  NameRejected, CopyName, Open, vars
    <2>2. \/ pc' = pc
          \/ pc' = "done"
          \/ Accepted /\ Accepted'
      BY <1>4 DEF Search, OpenFile, SizeRejected, OutOfBytes, BadNode, SearchNode, SearchEnd, SearchFile,
                  NoMatch, Match, NoneMatches, Advance, LocateDevicePath, StartSearch, NotAFile,
                  NameRejected, CopyName, Open, vars, Finish, Accepted
    <2>. QED BY <2>1, <2>2 DEF WalkedInv, Accepted
  <1>. QED BY <1>2, <1>3, <1>4 DEF Next, Populate

LEMMA CountsType ==
    ASSUME IInv
    PROVE  /\ info_size \in Nat /\ walked \in Nat /\ limit \in Int /\ count \in Nat
           /\ h \in 0..NumHandles /\ NumHandles \in Nat
           /\ pc = "size" => limit >= 0
           /\ pc \in {"populate", "size", "locate", "search", "match", "advance", "check", "open",
                      "done"}
  BY DEF IInv, TypeOK, Accepted, WalkInv

LEMMA StepsLeftBound ==
    ASSUME IInv, WalkedInv
    PROVE  StepsLeft \in 0..8 + NumHandles + 2 * info_size
  <1>1. CASE pc = "populate"
    BY <1>1, CountsType, StepsLeftIs
  <1>2. CASE pc = "size"
    <2>1. limit >= 0 /\ 4 * walked + limit <= info_size
      BY <1>2, CountsType DEF WalkedInv
    <2>. QED BY <1>2, <2>1, CountsType, StepsLeftIs
  <1>3. CASE pc = "locate"
    <2>1. 4 * walked <= info_size
      BY <1>3 DEF WalkedInv, Accepted
    <2>. QED BY <1>3, <2>1, CountsType, StepsLeftIs
  <1>4. CASE pc = "search" \/ pc = "match"
    <2>1. 4 * walked <= info_size /\ count < walked
      BY <1>4, CountBound DEF WalkedInv, Accepted
    <2>2. CASE pc = "search"
      BY <2>1, <2>2, CountsType, StepsLeftIs
    <2>3. CASE pc = "match"
      BY <2>1, <2>3, CountsType, StepsLeftIs
    <2>. QED BY <1>4, <2>2, <2>3
  <1>5. CASE pc = "advance"
    <2>1. 4 * walked <= info_size
      BY <1>5 DEF WalkedInv, Accepted
    <2>2. count <= walked
      <3>1. /\ dp \in DOMAIN node /\ file_dp \in DOMAIN node
            /\ node[file_dp].index + count = node[dp].index
        BY <1>5 DEF IInv, CursorInv
      <3>2. node[dp].index < walked /\ node[dp].index \in Nat /\ node[file_dp].index \in Nat
        BY <1>5, <3>1 DEF IInv, TypeOK, PathInv, Accepted, Nodes
      <3>. QED BY <3>1, <3>2, CountsType
    <2>. QED BY <1>5, <2>1, <2>2, CountsType, StepsLeftIs
  <1>6. CASE pc \in {"check", "open", "done"}
    BY <1>6, CountsType, StepsLeftIs
  <1>. QED BY <1>1, <1>2, <1>3, <1>4, <1>5, <1>6, CountsType

\* A step that ends the run leaves no more to be made.
LEMMA FinishEnds ==
    ASSUME IInv, WalkedInv, pc # "done", pc' = "done"
    PROVE  StepsLeft > 0 /\ StepsLeft' = 0
  <1>1. StepsLeft' = 0
    BY DEF StepsLeft
  <1>2. CASE pc = "size" \/ pc = "populate" \/ pc = "locate"
    BY <1>1, <1>2, CountsType, StepsLeftIs
  <1>3. CASE pc = "search" \/ pc = "match"
    BY <1>1, <1>3, CountBound, CountsType, StepsLeftIs
  <1>4. CASE pc \in {"advance", "check", "open"}
    BY <1>1, <1>4, CountsType, StepsLeftIs
  <1>. QED BY <1>1, <1>2, <1>3, <1>4, CountsType

\* fwup_dp_size, fwup_search_file and fwup_open_file, whose loops have no
\* bound of their own, make at most two steps for each byte of the variable
\* and one for each handle: every step leaves fewer to be made.
THEOREM WalksAreBounded ==
    Spec => /\ [](StepsLeft \in 0..8 + NumHandles + 2 * info_size)
            /\ [][StepsLeft' < StepsLeft]_vars
  <1>1. ASSUME IInv, WalkedInv, Next PROVE StepsLeft' < StepsLeft
    <2>1. CASE pc' = "done"
      <3>1. pc # "done"
        BY <1>1 DEF Next, Populate, Search, OpenFile, SizeRejected, SizeAccepted, OutOfBytes,
           BadNode, NextNode, EndNode, SearchNode, SearchEnd, SearchFile, NoMatch, Match,
           NoneMatches, Advance, LocateDevicePath, StartSearch, NotAFile, NameRejected, CopyName,
           Open
      <3>. QED BY <1>1, <2>1, <3>1, FinishEnds
    <2>2. CASE SizeAccepted
      <3>1. StepsLeft = 8 + NumHandles + 2 * info_size /\ walked = 0
        BY <1>1, <2>2, StepsLeftIs DEF SizeAccepted, WalkedInv
      <3>2. StepsLeft' = 7 + NumHandles + 2 * (walked + limit') /\ limit' = info_size - DpOffset
        BY <2>2 DEF SizeAccepted, StepsLeft, Area
      <3>. QED BY <1>1, <3>1, <3>2, CountsType
    <2>3. CASE NextNode \/ (EndNode /\ pc' # "done")
      <3>1. PICK n \in Headers : ~TooShort(n) /\ limit' = limit - n.length /\ walked' = walked + 1
        BY <2>3 DEF NextNode, EndNode
      <3>2. n.length \in Nat /\ n.length >= 4 /\ n.length <= limit
        BY <1>1, <3>1, CountsType DEF Headers, TooShort, Header
      <3>3. pc = "size" /\ (pc' = "size" \/ pc' = "locate")
        BY <2>3 DEF NextNode, EndNode, Finish
      <3>4. StepsLeft = 7 + NumHandles + 2 * (walked + limit)
        BY <3>3, StepsLeftIs
      <3>5. \/ StepsLeft' = 7 + NumHandles + 2 * (walked' + limit')
            \/ StepsLeft' = 6 + NumHandles + 2 * walked'
        BY <3>3 DEF StepsLeft
      <3>. QED BY <1>1, <3>1, <3>2, <3>4, <3>5, CountsType
    <2>4. CASE SearchNode
      <3>1. pc = "search" /\ pc' = "search" /\ walked' = walked /\ count' = count + 1
        BY <2>4 DEF SearchNode
      <3>2. StepsLeft' = 5 + NumHandles + 2 * walked - (count + 1)
        BY <3>1 DEF StepsLeft
      <3>. QED BY <1>1, <3>1, <3>2, CountsType, StepsLeftIs
    <2>5. CASE SearchFile
      <3>1. pc = "search" /\ pc' = "match" /\ h' = h /\ count' = count
        BY <2>5 DEF SearchFile
      <3>2. StepsLeft' = 4 + NumHandles - h + count
        BY <3>1 DEF StepsLeft
      <3>3. count < walked
        BY <1>1, <3>1, CountBound
      <3>. QED BY <1>1, <3>1, <3>2, <3>3, CountsType, StepsLeftIs
    <2>6. CASE NoMatch \/ Match
      <3>1. /\ pc = "match" /\ h < NumHandles /\ count' = count
            /\ \/ pc' = "match" /\ h' = h + 1
               \/ pc' = "advance"
        BY <2>6 DEF NoMatch, Match
      <3>2. StepsLeft' = 4 + NumHandles - (h + 1) + count \/ StepsLeft' = 3 + count
        BY <3>1 DEF StepsLeft
      <3>. QED BY <1>1, <3>1, <3>2, CountsType, StepsLeftIs
    <2>7. CASE Advance
      <3>1. /\ pc = "advance"
            /\ \/ pc' = "advance" /\ count' = count - 1
               \/ pc' = "check"
        BY <2>7 DEF Advance
      <3>2. StepsLeft' = 3 + (count - 1) \/ StepsLeft' = 2
        BY <3>1 DEF StepsLeft
      <3>. QED BY <1>1, <3>1, <3>2, CountsType, StepsLeftIs
    <2>8. CASE LocateDevicePath \/ (StartSearch /\ pc' # "done")
      <3>1. /\ pc = "locate" /\ count = 0
            /\ \/ pc' = "check"
               \/ pc' = "search" /\ walked' = walked /\ count' = count
        BY <1>1, <2>8 DEF LocateDevicePath, StartSearch, Finish, IInv, CursorInv
      <3>2. StepsLeft' = 2 \/ StepsLeft' = 5 + NumHandles + 2 * walked - count
        BY <3>1 DEF StepsLeft
      <3>. QED BY <1>1, <3>1, <3>2, CountsType, StepsLeftIs
    <2>9. CASE CopyName
      BY <2>9 DEF CopyName, StepsLeft
    <2>10. CASE SizeRejected \/ OutOfBytes \/ BadNode \/ SearchEnd \/ NoneMatches
                \/ NotAFile \/ NameRejected \/ Open
      <3>1. pc' = "done"
        BY <2>10 DEF SizeRejected, OutOfBytes, BadNode, SearchEnd, NoneMatches, NotAFile,
           NameRejected, Open, Finish
      <3>. QED BY <2>1, <3>1
    <2>. QED BY <1>1, <2>1, <2>2, <2>3, <2>4, <2>5, <2>6, <2>7, <2>8, <2>9, <2>10
             DEF Next, Populate, Search, OpenFile
  <1>2. IInv /\ WalkedInv /\ [Next]_vars => [StepsLeft' < StepsLeft]_vars
    BY <1>1
  <1>. QED BY <1>2, StepsLeftBound, WalkedInit, WalkedNext, Invariant, PTL DEF Spec
==============================================================================
