----------------------------- MODULE CapsuleFile -----------------------------
(***************************************************************************)
(* fwup_add_update_capsule: one capsule file is opened and read, its       *)
(* header is validated, its flags are completed, a capsule with the boot   *)
(* graphics gets the display's mode and a new checksum, and the block      *)
(* descriptor is filled in.  The header of the file is unknown: it is      *)
(* chosen when the file is read.  Sizes wrap as the program's types do.    *)
(***************************************************************************)
EXTENDS Integers, FiniteSets

CONSTANTS
    CapsuleHeader,   \* sizeof(EFI_CAPSULE_HEADER)
    UxHeader,        \* sizeof(UX_CAPSULE_HEADER)
    Byte,            \* values of a UINT8
    Uint32,          \* values of a UINT32
    Uintn,           \* values of a UINTN: those of a UINT32, or more
    MaxFile,         \* largest file
    NumHandles,      \* handles of the graphics output protocol
    Modes,           \* numbers of a display's mode
    InfoFlags,       \* flags an update info may ask for
    AddedFlags       \* flags the build adds to the ones of the update info:
                     \* PERSIST_ACROSS_RESET and INITIATE_RESET, or none

Flags == {"persist", "initiate", "other"}

ASSUME WidthsAssumption ==
    /\ Byte \in Nat \ {0} /\ Uint32 \in Nat \ {0} /\ Uintn \in Nat /\ Uint32 <= Uintn
ASSUME SizesAssumption ==
    /\ CapsuleHeader \in Nat /\ UxHeader \in Nat /\ NumHandles \in Nat
    /\ MaxFile \in Nat /\ MaxFile < Uintn
    /\ CapsuleHeader + UxHeader < Uint32
ASSUME DataAssumption ==
    Modes \subseteq 0..Byte - 1 /\ InfoFlags \subseteq Flags /\ AddedFlags \subseteq Flags

\* The capsule header in the buffer.
Headers == [HeaderSize : 0..Uint32 - 1, CapsuleImageSize : 0..Uint32 - 1,
            Flags : SUBSET Flags]

\* The UX_CAPSULE_HEADER behind it; rest is the sum of its other bytes.
Payloads == [mode : Modes, checksum : 0..Byte - 1, rest : 0..Byte - 1]

VARIABLES
    pc,
    ux,         \* whether the update's guid is ux_capsule_guid
    info_flags, \* update->info->capsule_flags
    fh,         \* the file handle: none, open, closed
    fsize,
    capsule,    \* the header in fbuf
    came,       \* the flags the file came with (auxiliary)
    payload,    \* what follows it, when there is room for it
    i,          \* fwup_get_gop_mode: handles tried
    shown,      \* the mode of the display that was found (auxiliary)
    cbd_out,    \* Length of the descriptor, 0 as long as it is not set
    rc

vars == <<pc, ux, info_flags, fh, fsize, capsule, came, payload, i, shown, cbd_out, rc>>

Init ==
    /\ pc = "open"
    /\ ux \in BOOLEAN
    /\ info_flags \in SUBSET InfoFlags
    /\ fh = "none" /\ fsize = 0
    /\ capsule \in [HeaderSize : {0}, CapsuleImageSize : {0}, Flags : {{}}]
    /\ came = {}
    /\ payload \in Payloads
    /\ i = 0 /\ shown \in Modes /\ cbd_out = 0
    /\ rc = "none"

Finish(status) == pc' = "done" /\ rc' = status

------------------------------------------------------------------------------

OpenFails ==
    /\ pc = "open"
    /\ Finish("open_error")
    /\ UNCHANGED <<ux, info_flags, fh, fsize, capsule, came, payload, i, shown, cbd_out>>

OpenFile ==
    /\ pc = "open"
    /\ pc' = "read" /\ fh' = "open"
    /\ UNCHANGED <<ux, info_flags, fsize, capsule, came, payload, i, shown, cbd_out, rc>>

\* The handle stays open.
ReadFails ==
    /\ pc = "read"
    /\ Finish("read_error")
    /\ UNCHANGED <<ux, info_flags, fh, fsize, capsule, came, payload, i, shown, cbd_out>>

\* The file is in memory and is closed.
ReadAndClose ==
    /\ pc = "read"
    /\ \E size \in 0..MaxFile, header \in Headers :
          /\ size < CapsuleHeader => header = capsule
          /\ fsize' = size /\ capsule' = header /\ came' = header.Flags
    /\ pc' = "validate" /\ fh' = "closed"
    /\ UNCHANGED <<ux, info_flags, payload, i, shown, cbd_out, rc>>

\* Mutant of SizeValid: the image may be longer than the file.
SizeValidLoose ==
    /\ fsize >= CapsuleHeader
    /\ capsule.CapsuleImageSize >= CapsuleHeader

\* fwup_validate_capsule_size
ImageFits == capsule.CapsuleImageSize >= CapsuleHeader /\ capsule.CapsuleImageSize <= fsize

\* fsize is checked before the header is read.
SizeValid == fsize >= CapsuleHeader /\ ImageFits

Reject ==
    /\ pc = "validate" /\ ~SizeValid
    /\ Finish("invalid")
    /\ UNCHANGED <<ux, info_flags, fh, fsize, capsule, came, payload, i, shown, cbd_out>>

NeedsFlags == ~ux /\ capsule.Flags = {}

\* Mutant of CompletedFlags: the build's flags only if the update info asks
\* for none.
WantedFlags == IF info_flags = {} THEN AddedFlags ELSE info_flags

CompletedFlags == info_flags \cup AddedFlags

CompleteFlags ==
    /\ pc = "validate" /\ SizeValid
    /\ capsule' = IF NeedsFlags
                    THEN [capsule EXCEPT !.Flags = @ \cup CompletedFlags]
                    ELSE capsule
    /\ pc' = IF ux THEN "ux" ELSE "descriptor"
    /\ UNCHANGED <<ux, info_flags, fh, fsize, came, payload, i, shown, cbd_out, rc>>

------------------------------------------------------------------------------
(* fwup_check_gop_for_ux_capsule and fwup_get_gop_mode *)

\* Mutant of UxFits: that the header fits the image is not checked.
UxFitsLoose ==
    /\ capsule.HeaderSize >= CapsuleHeader
    /\ (capsule.CapsuleImageSize - capsule.HeaderSize) % Uint32 >= UxHeader
    /\ (capsule.HeaderSize + UxHeader) % Uintn <= fsize

UxFits ==
    /\ capsule.HeaderSize >= CapsuleHeader
    /\ capsule.CapsuleImageSize >= capsule.HeaderSize
    /\ (capsule.CapsuleImageSize - capsule.HeaderSize) % Uint32 >= UxHeader
    /\ (capsule.HeaderSize + UxHeader) % Uintn <= fsize

UxRejected ==
    /\ pc = "ux" /\ ~UxFits
    /\ Finish("unsupported")
    /\ UNCHANGED <<ux, info_flags, fh, fsize, capsule, came, payload, i, shown, cbd_out>>

\* LibLocateHandle fails.
NoHandles ==
    /\ pc = "ux" /\ UxFits
    /\ Finish("unsupported")
    /\ UNCHANGED <<ux, info_flags, fh, fsize, capsule, came, payload, i, shown, cbd_out>>

UxAccepted ==
    /\ pc = "ux" /\ UxFits
    /\ pc' = "gop"
    /\ UNCHANGED <<ux, info_flags, fh, fsize, capsule, came, payload, i, shown, cbd_out, rc>>

\* OpenProtocol fails on a handle.
HandleFails ==
    /\ pc = "gop" /\ i < NumHandles
    /\ i' = i + 1
    /\ UNCHANGED <<pc, ux, info_flags, fh, fsize, capsule, came, payload, shown, cbd_out, rc>>

NoMode ==
    /\ pc = "gop" /\ i = NumHandles
    /\ Finish("unsupported")
    /\ UNCHANGED <<ux, info_flags, fh, fsize, capsule, came, payload, i, shown, cbd_out>>

\* The mode goes straight into the payload.
GetMode ==
    /\ pc = "gop" /\ i < NumHandles
    /\ \E m \in Modes : shown' = m /\ payload' = [payload EXCEPT !.mode = m]
    /\ pc' = "checksum"
    /\ UNCHANGED <<ux, info_flags, fh, fsize, capsule, came, i, cbd_out, rc>>

ByteSum(p) == (p.rest + p.mode + p.checksum) % Byte

\* Mutant of Checksum: the old checksum is summed too.
StaleChecksum(p) == ByteSum(p)

Checksum(p) == ByteSum([p EXCEPT !.checksum = 0])

UpdateChecksum ==
    /\ pc = "checksum"
    /\ payload' = [payload EXCEPT !.checksum = Checksum(payload)]
    /\ pc' = "descriptor"
    /\ UNCHANGED <<ux, info_flags, fh, fsize, capsule, came, i, shown, cbd_out, rc>>

------------------------------------------------------------------------------

SetDescriptor ==
    /\ pc = "descriptor"
    /\ cbd_out' = fsize
    /\ Finish("success")
    /\ UNCHANGED <<ux, info_flags, fh, fsize, capsule, came, payload, i, shown>>

CheckGop == UxRejected \/ NoHandles \/ UxAccepted \/ HandleFails \/ NoMode
            \/ GetMode \/ UpdateChecksum

Next == OpenFails \/ OpenFile \/ ReadFails \/ ReadAndClose \/ Reject
        \/ CompleteFlags \/ CheckGop \/ SetDescriptor

Spec == Init /\ [][Next]_vars

------------------------------------------------------------------------------
(* Properties *)

TypeOK ==
    /\ pc \in {"open", "read", "validate", "ux", "gop", "checksum", "descriptor", "done"}
    /\ ux \in BOOLEAN /\ info_flags \subseteq Flags
    /\ fh \in {"none", "open", "closed"}
    /\ fsize \in 0..MaxFile
    /\ capsule \in Headers /\ came \subseteq Flags /\ payload \in Payloads
    /\ i \in 0..NumHandles /\ shown \in Modes
    /\ cbd_out \in 0..MaxFile
    /\ rc \in {"none", "open_error", "read_error", "invalid", "unsupported", "success"}

\* The mode and the checksum are written behind the capsule header and inside
\* both the image and the file, although the sizes compared may wrap.
PayloadInside ==
    pc \in {"gop", "checksum"} =>
        /\ capsule.HeaderSize >= CapsuleHeader
        /\ capsule.HeaderSize + UxHeader <= capsule.CapsuleImageSize
        /\ capsule.HeaderSize + UxHeader <= fsize

\* The descriptor the firmware gets spans the whole image its header claims.
DescriptorCovers ==
    rc = "success" => /\ cbd_out = fsize
                      /\ capsule.CapsuleImageSize \in CapsuleHeader..cbd_out

\* The boot graphics' payload leaves with the mode of the display and with a
\* checksum that is the sum of its other bytes, whatever checksum it came with.
ChecksumFresh ==
    rc = "success" /\ ux => /\ payload.mode = shown
                            /\ payload.checksum = (payload.rest + shown) % Byte

\* A capsule that came with flags, and the graphics, are handed over with the
\* flags they came with; one that came without asks for all that its update
\* info and the build want, to persist over the reset and to initiate it.
FlagsComplete ==
    rc = "success" =>
        IF ux \/ came # {} THEN capsule.Flags = came
                           ELSE info_flags \cup AddedFlags \subseteq capsule.Flags
==============================================================================
