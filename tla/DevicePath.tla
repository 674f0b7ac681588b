------------------------------ MODULE DevicePath ------------------------------
(***************************************************************************)
(* The device path of one update: fwup_populate_update_info and            *)
(* fwup_dp_size accept or reject the bytes of a state variable, and        *)
(* fwup_open_file and fwup_search_file later walk the accepted path with   *)
(* no bound of their own.  The bytes are unknown: the header of a node is  *)
(* chosen when it is first read, and remembered.                           *)
(***************************************************************************)
EXTENDS Integers

CONSTANTS
    MaxInfoSize,   \* largest state variable
    MaxLength,     \* largest length a node header can hold (65535)
    NumHandles,    \* handles with a simple file system
    DpOffset,      \* EFI_FIELD_OFFSET(FWUP_UPDATE_INFO, dp)
    MaxPath        \* devpath_max_size * sizeof(CHAR16)

Header == 4                     \* sizeof(EFI_DEVICE_PATH)
InfoSize == DpOffset + Header   \* sizeof(FWUP_UPDATE_INFO)

ASSUME SizesAssumption ==
    /\ MaxInfoSize \in Nat /\ MaxLength \in Nat /\ NumHandles \in Nat
    /\ DpOffset \in Nat /\ MaxPath \in Nat

\* end: the node ends the whole path; file: a media file path node.
Kinds == {"end", "file", "other"}

Headers == [length : 0..MaxLength, kind : Kinds]

\* A header that was read, and how many were read before it (a number the
\* program does not keep: it lets the properties speak of the same node).
Nodes == [length : 0..MaxLength, kind : Kinds, index : Nat]

VARIABLES
    pc,
    info_size,   \* size of the variable's data
    node,        \* the headers read so far, by their offset in the path
    dp,          \* the walk's cursor, an offset in the path
    limit,       \* fwup_dp_size: bytes left
    ret,         \* fwup_dp_size: bytes walked
    walked,      \* fwup_dp_size: nodes walked (auxiliary)
    count,       \* fwup_search_file: nodes before the file path node
    h,           \* fwup_search_file: handles compared
    file_dp,     \* fwup_open_file: where the rest of the path starts
    rc           \* what the functions return

vars == <<pc, info_size, node, dp, limit, ret, walked, count, h, file_dp, rc>>

\* Bytes of the variable from info->dp on.
Area == info_size - DpOffset

Init ==
    /\ pc = "populate"
    /\ info_size \in 0..MaxInfoSize
    /\ node = [d \in {} |-> {}]
    /\ dp = 0 /\ limit = 0 /\ ret = 0 /\ walked = 0
    /\ count = 0 /\ h = 0 /\ file_dp = 0
    /\ rc = "none"

Finish(status) == pc' = "done" /\ rc' = status

------------------------------------------------------------------------------
(* fwup_populate_update_info and fwup_dp_size *)

\* Too small for the structure, or for a path that is more than one header.
TooSmall == info_size < InfoSize \/ info_size - Header <= InfoSize

SizeRejected ==
    /\ pc = "populate" /\ TooSmall
    /\ Finish("invalid")
    /\ UNCHANGED <<info_size, node, dp, limit, ret, walked, count, h, file_dp>>

SizeAccepted ==
    /\ pc = "populate" /\ ~TooSmall
    /\ pc' = "size" /\ limit' = Area
    /\ UNCHANGED <<info_size, node, dp, ret, walked, count, h, file_dp, rc>>

\* Mutant of HeaderFits: a header may end beyond the variable.
BytesLeft == limit > 0

HeaderFits == limit >= Header

\* Mutant of TooShort: a node may be shorter than its header.
TooLongOnly(n) == n.length > limit

\* nodelen < 4 || nodelen > limit
TooShort(n) == n.length < Header \/ n.length > limit

OutOfBytes ==
    /\ pc = "size" /\ ~HeaderFits
    /\ Finish("invalid")
    /\ UNCHANGED <<info_size, node, dp, limit, ret, walked, count, h, file_dp>>

\* The header at the cursor holds any length and any type.
Remember(n) ==
    node' = [d \in DOMAIN node \cup {dp} |->
               IF d = dp THEN [length |-> n.length, kind |-> n.kind, index |-> walked]
                         ELSE node[d]]

BadNode ==
    /\ pc = "size" /\ HeaderFits
    /\ \E n \in Headers : TooShort(n) /\ Remember(n)
    /\ Finish("invalid")
    /\ UNCHANGED <<info_size, dp, limit, ret, walked, count, h, file_dp>>

NextNode ==
    /\ pc = "size" /\ HeaderFits
    /\ \E n \in Headers :
          /\ ~TooShort(n) /\ n.kind # "end"
          /\ Remember(n)
          /\ limit' = limit - n.length
          /\ ret' = ret + n.length
          /\ walked' = walked + 1
          /\ dp' = dp + n.length
    /\ UNCHANGED <<pc, info_size, count, h, file_dp, rc>>

\* Mutant of Fills: bytes behind the end node are accepted.
FitsOnly(size) == size <= Area

\* is == sz: the path is the whole rest of the variable.
Fills(size) == size = Area

\* fwup_dp_size returns ret at the end node; its caller compares.
EndNode ==
    /\ pc = "size" /\ HeaderFits
    /\ \E n \in Headers :
          /\ ~TooShort(n) /\ n.kind = "end"
          /\ Remember(n)
          /\ limit' = limit - n.length
          /\ ret' = ret + n.length
          /\ walked' = walked + 1
          /\ IF Fills(ret + n.length)
               THEN pc' = "locate" /\ UNCHANGED rc
               ELSE Finish("invalid")
    /\ UNCHANGED <<info_size, dp, count, h, file_dp>>

------------------------------------------------------------------------------
(* fwup_open_file and fwup_search_file, on an accepted path *)

\* The firmware's LocateDevicePath finds the device that matches the longest
\* prefix of the path and moves file_dp to the node behind it.
LocateDevicePath ==
    /\ pc = "locate"
    /\ \E d \in DOMAIN node : file_dp' = d
    /\ pc' = "check"
    /\ UNCHANGED <<info_size, node, dp, limit, ret, walked, count, h, rc>>

\* No device matches: fwup_search_file copies the path and walks the copy,
\* unless there are no handles or no memory.
StartSearch ==
    /\ pc = "locate"
    /\ \/ pc' = "search" /\ dp' = 0 /\ UNCHANGED rc
       \/ Finish("no_handles") /\ UNCHANGED dp
    /\ UNCHANGED <<info_size, node, limit, ret, walked, count, h, file_dp>>

\* Mutant of SearchNode: the end of the path does not stop the walk.
SearchPastEnd ==
    /\ pc = "search" /\ node[dp].kind # "file"
    /\ dp' = dp + node[dp].length /\ count' = count + 1
    /\ UNCHANGED <<pc, info_size, node, limit, ret, walked, h, file_dp, rc>>

SearchNode ==
    /\ pc = "search" /\ node[dp].kind = "other"
    /\ dp' = dp + node[dp].length /\ count' = count + 1
    /\ UNCHANGED <<pc, info_size, node, limit, ret, walked, h, file_dp, rc>>

SearchEnd ==
    /\ pc = "search" /\ node[dp].kind = "end"
    /\ Finish("invalid")
    /\ UNCHANGED <<info_size, node, dp, limit, ret, walked, count, h, file_dp>>

\* The copy is cut off at the file path node.
SearchFile ==
    /\ pc = "search" /\ node[dp].kind = "file"
    /\ pc' = "match"
    /\ UNCHANGED <<info_size, node, dp, limit, ret, walked, count, h, file_dp, rc>>

\* One round of the loop over the handles: a handle has no device path, or no
\* suffix of its path matches the copy.
NoMatch ==
    /\ pc = "match" /\ h < NumHandles
    /\ h' = h + 1
    /\ UNCHANGED <<pc, info_size, node, dp, limit, ret, walked, count, file_dp, rc>>

Match ==
    /\ pc = "match" /\ h < NumHandles
    /\ pc' = "advance"
    /\ UNCHANGED <<info_size, node, dp, limit, ret, walked, count, h, file_dp, rc>>

NoneMatches ==
    /\ pc = "match" /\ h = NumHandles
    /\ Finish("unsupported")
    /\ UNCHANGED <<info_size, node, dp, limit, ret, walked, count, h, file_dp>>

\* Mutant of Advance: the counter of the loop does not move.
AdvanceStuck ==
    /\ pc = "advance"
    /\ IF count > 0 THEN UNCHANGED vars
                     ELSE /\ pc' = "check"
                          /\ UNCHANGED <<info_size, node, dp, limit, ret, walked,
                                         count, h, file_dp, rc>>

\* for (j = 0; j < count; j++): count runs down to the file path node.
Advance ==
    /\ pc = "advance"
    /\ IF count > 0
         THEN /\ file_dp' = file_dp + node[file_dp].length
              /\ count' = count - 1
              /\ UNCHANGED pc
         ELSE /\ pc' = "check"
              /\ UNCHANGED <<file_dp, count>>
    /\ UNCHANGED <<info_size, node, dp, limit, ret, walked, h, rc>>

NotAFile ==
    /\ pc = "check" /\ node[file_dp].kind # "file"
    /\ Finish("unsupported")
    /\ UNCHANGED <<info_size, node, dp, limit, ret, walked, count, h, file_dp>>

\* The file name's size, from the node's length.
NameSize == node[file_dp].length - Header

\* Mutant of BadName: no upper limit, and an odd size is accepted.
ShortName == NameSize <= 6

BadName == NameSize <= 6 \/ NameSize % 2 # 0 \/ NameSize > MaxPath

NameRejected ==
    /\ pc = "check" /\ node[file_dp].kind = "file" /\ BadName
    /\ Finish("invalid")
    /\ UNCHANGED <<info_size, node, dp, limit, ret, walked, count, h, file_dp>>

\* The name is copied; then HandleProtocol, OpenVolume and Open, each of
\* which may fail.
CopyName ==
    /\ pc = "check" /\ node[file_dp].kind = "file" /\ ~BadName
    /\ pc' = "open"
    /\ UNCHANGED <<info_size, node, dp, limit, ret, walked, count, h, file_dp, rc>>

Open ==
    /\ pc = "open"
    /\ Finish("success") \/ Finish("error")
    /\ UNCHANGED <<info_size, node, dp, limit, ret, walked, count, h, file_dp>>

Populate == SizeRejected \/ SizeAccepted \/ OutOfBytes \/ BadNode \/ NextNode \/ EndNode

Search == \/ SearchNode \/ SearchEnd \/ SearchFile
          \/ NoMatch \/ Match \/ NoneMatches \/ Advance

OpenFile == LocateDevicePath \/ StartSearch \/ NotAFile \/ NameRejected
            \/ CopyName \/ Open

Next == Populate \/ Search \/ OpenFile

Spec == Init /\ [][Next]_vars
FairSpec == Spec /\ WF_vars(Next)

------------------------------------------------------------------------------
(* Properties *)

Accepted == pc \in {"locate", "search", "match", "advance", "check", "open"}

TypeOK ==
    /\ pc \in {"populate", "size", "done"} \/ Accepted
    /\ info_size \in 0..MaxInfoSize
    /\ DOMAIN node \subseteq Nat
    /\ node \in [DOMAIN node -> Nodes]
    /\ dp \in Nat /\ limit \in Int /\ ret \in Nat /\ walked \in Nat
    /\ count \in Nat /\ h \in 0..NumHandles /\ file_dp \in Nat
    /\ rc \in {"none", "invalid", "no_handles", "unsupported", "error", "success"}

\* fwup_dp_size reads a header only inside the variable's data.
HeadersInside == \A d \in DOMAIN node : d + Header <= Area

\* The nodes of an accepted path lie inside the variable's data, so the file
\* name fwup_open_file copies does too, and sz -= 4 does not wrap.
NodesInside ==
    Accepted => \A d \in DOMAIN node : /\ node[d].length >= Header
                                       /\ d + node[d].length <= Area

\* The walks over an accepted path, which have no limit, only reach headers
\* that fwup_dp_size has validated.
WalksValidated ==
    /\ pc = "search" => dp \in DOMAIN node
    /\ pc \in {"match", "advance", "check", "open"} => file_dp \in DOMAIN node

\* The node fwup_search_file leaves in file_dp is the file path node its walk
\* over the copy stopped at; the name taken from it is a whole number of
\* characters that fits MaxPath.
SearchFindsFile ==
    /\ pc = "advance" /\ count = 0 => file_dp = dp /\ node[dp].kind = "file"
    /\ pc = "open" => NameSize % 2 = 0 /\ NameSize \in 8..MaxPath

\* Only a path that is exactly the rest of the variable is accepted.
PathFills == Accepted => ret = Area /\ limit = 0

\* The walks end, whatever the bytes.
Ends == <>(pc = "done")
==============================================================================
