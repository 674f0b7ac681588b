-------------------------- MODULE CapsuleFile_proofs --------------------------
(***************************************************************************)
(* fwup_add_update_capsule is correct for every width of its types, every  *)
(* size of its structures, and every file.                                 *)
(***************************************************************************)
EXTENDS CapsuleFile, TLAPS

USE WidthsAssumption, SizesAssumption, DataAssumption

Bytes == 0..Byte - 1

HeaderInv ==
    pc \in {"ux", "gop", "checksum", "descriptor"} \/ rc = "success" =>
        capsule.CapsuleImageSize >= CapsuleHeader /\ capsule.CapsuleImageSize <= fsize

UxInv ==
    /\ pc \in {"ux", "gop", "checksum"} => ux
    /\ pc \in {"checksum"} => payload.mode = shown

DoneInv ==
    /\ pc # "done" => rc = "none"
    /\ rc = "success" => cbd_out = fsize

\* What is true of the payload and of the flags once they are final.
FinalInv ==
    pc = "descriptor" \/ rc = "success" =>
        /\ ux => /\ payload.mode = shown
                 /\ payload.checksum = (payload.rest + shown) % Byte
        /\ IF ux \/ came # {} THEN capsule.Flags = came
                              ELSE info_flags \cup AddedFlags \subseteq capsule.Flags

\* Nothing but the completion changes the flags the file came with.
CameInv ==
    pc \in {"open", "read", "validate"} \/ ux => capsule.Flags = came

IInv == CameInv /\ TypeOK /\ HeaderInv /\ UxInv /\ DoneInv /\ PayloadInside /\ FinalInv

\* A number that fits a type does not change when it is stored in it.
LEMMA NoWrap == \A x \in Nat, n \in Nat : x < n => x % n = x
  OBVIOUS

LEMMA ByteRange == \A x \in Nat : x % Byte \in Bytes
  BY DEF Bytes

\* The comparisons of fwup_check_gop_for_ux_capsule mean what they say: no
\* difference and no sum in them wraps by the time it is looked at.
LEMMA UxFitsExactly ==
    ASSUME TypeOK, UxFits
    PROVE  /\ capsule.HeaderSize >= CapsuleHeader
           /\ capsule.HeaderSize + UxHeader <= capsule.CapsuleImageSize
           /\ capsule.HeaderSize + UxHeader <= fsize
  <1> DEFINE hs == capsule.HeaderSize
             im == capsule.CapsuleImageSize
  <1>1. hs \in 0..Uint32 - 1 /\ im \in 0..Uint32 - 1
    BY DEF TypeOK, Headers
  <1>2. /\ hs >= CapsuleHeader /\ im >= hs
        /\ (im - hs) % Uint32 >= UxHeader /\ (hs + UxHeader) % Uintn <= fsize
    BY DEF UxFits
  <1> HIDE DEF hs, im
  <1>3. im - hs \in Nat /\ im - hs < Uint32
    BY <1>1, <1>2
  <1>4. (im - hs) % Uint32 = im - hs
    BY <1>3, NoWrap
  <1>5. hs + UxHeader <= im
    BY <1>1, <1>2, <1>4
  <1>6. hs + UxHeader \in Nat /\ hs + UxHeader < Uintn
    BY <1>1, <1>5
  <1>7. (hs + UxHeader) % Uintn = hs + UxHeader
    BY <1>6, NoWrap
  <1>8. hs + UxHeader <= fsize
    BY <1>2, <1>7
  <1>. QED BY <1>2, <1>5, <1>8 DEF hs, im

LEMMA ChecksumIsSum ==
    ASSUME TypeOK
    PROVE  /\ Checksum(payload) = (payload.rest + payload.mode) % Byte
           /\ Checksum(payload) \in Bytes
  <1>1. payload.rest \in Nat /\ payload.mode \in Nat
    <2>1. payload \in Payloads
      BY DEF TypeOK
    <2>2. payload.rest \in 0..Byte - 1 /\ payload.mode \in Modes
      BY <2>1 DEF Payloads
    <2>3. \A m \in Modes : m \in Nat
      OBVIOUS
    <2>4. payload.rest \in Nat
      BY <2>2
    <2>5. payload.mode \in Nat
      BY <2>2, <2>3, Zenon
    <2>. QED BY <2>4, <2>5
  <1>2. Checksum(payload) = (payload.rest + payload.mode + 0) % Byte
    BY DEF TypeOK, Payloads, Checksum, ByteSum
  <1>3. payload.rest + payload.mode + 0 = payload.rest + payload.mode
    BY <1>1
  <1>. QED BY <1>1, <1>2, <1>3, ByteRange

LEMMA InitInv == Init => IInv
  <1>. SUFFICES ASSUME Init PROVE IInv
    OBVIOUS
  <1>1. capsule \in Headers
    BY DEF Init, Headers
  <1>2. TypeOK
    BY <1>1 DEF Init, TypeOK
  <1>. QED BY <1>2 DEF Init, IInv, CameInv, HeaderInv, UxInv, DoneInv, PayloadInside, FinalInv

LEMMA NextInv == IInv /\ [Next]_vars => IInv'
  <1>. SUFFICES ASSUME IInv, [Next]_vars PROVE IInv'
    OBVIOUS
  <1>. USE DEF IInv
  <1>1. CASE OpenFails
    BY <1>1 DEF OpenFails, Finish, TypeOK, CameInv, HeaderInv, UxInv, DoneInv, PayloadInside, FinalInv
  <1>2. CASE OpenFile
    BY <1>2 DEF OpenFile, TypeOK, CameInv, HeaderInv, UxInv, DoneInv, PayloadInside, FinalInv
  <1>3. CASE ReadFails
    BY <1>3 DEF ReadFails, Finish, TypeOK, CameInv, HeaderInv, UxInv, DoneInv, PayloadInside, FinalInv
  <1>4. CASE ReadAndClose
    <2>1. PICK size \in 0..MaxFile, header \in Headers :
             fsize' = size /\ capsule' = header /\ came' = header.Flags
      BY <1>4 DEF ReadAndClose
    <2>2. header.Flags \subseteq Flags
      BY DEF Headers
    <2>3. TypeOK'
      BY <1>4, <2>1, <2>2 DEF ReadAndClose, TypeOK
    <2>4. CameInv'
      BY <2>1 DEF CameInv
    <2>. QED BY <1>4, <2>3, <2>4
             DEF ReadAndClose, HeaderInv, UxInv, DoneInv, PayloadInside, FinalInv
  <1>5. CASE Reject
    BY <1>5 DEF Reject, Finish, TypeOK, CameInv, HeaderInv, UxInv, DoneInv, PayloadInside, FinalInv
  <1>6. CASE CompleteFlags
    <2>1. /\ pc = "validate" /\ SizeValid /\ pc' = IF ux THEN "ux" ELSE "descriptor"
          /\ UNCHANGED <<ux, info_flags, fh, fsize, came, payload, i, shown, cbd_out, rc>>
      BY <1>6 DEF CompleteFlags
    <2>2. /\ capsule' \in Headers
          /\ capsule'.CapsuleImageSize = capsule.CapsuleImageSize
          /\ capsule'.HeaderSize = capsule.HeaderSize
      BY <1>6 DEF CompleteFlags, CompletedFlags, TypeOK, Headers
    <2>3. /\ ux => capsule'.Flags = came
          /\ came # {} => capsule'.Flags = came
          /\ ~ux /\ came = {} => info_flags \cup AddedFlags \subseteq capsule'.Flags
      BY <1>6 DEF CompleteFlags, NeedsFlags, CompletedFlags, CameInv, TypeOK, Headers
    <2>4. TypeOK'
      BY <2>1, <2>2 DEF TypeOK
    <2>5. CameInv' /\ HeaderInv' /\ UxInv' /\ DoneInv' /\ PayloadInside'
      BY <2>1, <2>2, <2>3 DEF CameInv, HeaderInv, UxInv, DoneInv, PayloadInside, SizeValid, ImageFits
    <2>6. FinalInv'
      BY <2>1, <2>3 DEF FinalInv, DoneInv
    <2>. QED BY <2>4, <2>5, <2>6
  <1>7. CASE UxRejected
    BY <1>7 DEF UxRejected, Finish, TypeOK, CameInv, HeaderInv, UxInv, DoneInv, PayloadInside, FinalInv
  <1>8. CASE NoHandles
    BY <1>8 DEF NoHandles, Finish, TypeOK, CameInv, HeaderInv, UxInv, DoneInv, PayloadInside, FinalInv
  <1>9. CASE UxAccepted
    <2>1. PayloadInside'
      BY <1>9, UxFitsExactly DEF UxAccepted, PayloadInside
    <2>. QED BY <1>9, <2>1 DEF UxAccepted, TypeOK, CameInv, HeaderInv, UxInv, DoneInv, FinalInv
  <1>10. CASE HandleFails
    BY <1>10 DEF HandleFails, TypeOK, CameInv, HeaderInv, UxInv, DoneInv, PayloadInside, FinalInv
  <1>11. CASE NoMode
    BY <1>11 DEF NoMode, Finish, TypeOK, CameInv, HeaderInv, UxInv, DoneInv, PayloadInside, FinalInv
  <1>12. CASE GetMode
    <2>1. /\ pc = "gop" /\ pc' = "checksum"
          /\ UNCHANGED <<ux, info_flags, fh, fsize, capsule, came, i, cbd_out, rc>>
      BY <1>12 DEF GetMode
    <2>2. payload' \in Payloads /\ shown' \in Modes /\ payload'.mode = shown'
      BY <1>12 DEF GetMode, TypeOK, Payloads
    <2>. QED BY <2>1, <2>2 DEF TypeOK, CameInv, HeaderInv, UxInv, DoneInv, PayloadInside, FinalInv
  <1>13. CASE UpdateChecksum
    <2>1. /\ pc = "checksum" /\ pc' = "descriptor"
          /\ UNCHANGED <<ux, info_flags, fh, fsize, capsule, came, i, shown, cbd_out, rc>>
      BY <1>13 DEF UpdateChecksum
    <2>2. ux /\ payload.mode = shown /\ rc = "none"
      BY <2>1 DEF UxInv, DoneInv
    <2>3. /\ payload' \in Payloads
          /\ payload'.mode = payload.mode /\ payload'.rest = payload.rest
          /\ payload'.checksum = Checksum(payload)
      BY <1>13, ChecksumIsSum DEF UpdateChecksum, TypeOK, Payloads, Bytes
    <2>4. payload'.checksum = (payload'.rest + shown') % Byte
      BY <2>1, <2>2, <2>3, ChecksumIsSum
    <2>5. FinalInv'
      BY <2>1, <2>2, <2>3, <2>4 DEF FinalInv, CameInv
    <2>. QED BY <2>1, <2>2, <2>3, <2>5 DEF TypeOK, CameInv, HeaderInv, UxInv, DoneInv, PayloadInside
  <1>14. CASE SetDescriptor
    BY <1>14 DEF SetDescriptor, Finish, TypeOK, CameInv, HeaderInv, UxInv, DoneInv, PayloadInside, FinalInv
  <1>15. CASE UNCHANGED vars
    BY <1>15 DEF vars, TypeOK, CameInv, HeaderInv, UxInv, DoneInv, PayloadInside, FinalInv
  <1>. QED BY <1>1, <1>2, <1>3, <1>4, <1>5, <1>6, <1>7, <1>8, <1>9, <1>10, <1>11, <1>12,
              <1>13, <1>14, <1>15 DEF Next, CheckGop

THEOREM Invariant == Spec => []IInv
  BY InitInv, NextInv, PTL DEF Spec

\* The header, the payload and the sizes keep the widths of their types.
THEOREM TypeCorrect == Spec => []TypeOK
  BY Invariant, PTL DEF IInv

\* fwup_get_gop_mode and the checksum write inside the buffer and the image,
\* and behind the capsule header, whatever width the sizes are computed in.
THEOREM PayloadIsInside == Spec => []PayloadInside
  BY Invariant, PTL DEF IInv

\* The image a capsule header claims is spanned by its block descriptor.
THEOREM DescriptorSpansImage == Spec => []DescriptorCovers
  <1>1. IInv => DescriptorCovers
    BY DEF IInv, TypeOK, Headers, HeaderInv, DoneInv, DescriptorCovers
  <1>. QED BY <1>1, Invariant, PTL

\* The graphics leave with the display's mode and the sum of their bytes.
THEOREM ChecksumIsFresh == Spec => []ChecksumFresh
  <1>1. IInv => ChecksumFresh
    BY DEF IInv, FinalInv, ChecksumFresh
  <1>. QED BY <1>1, Invariant, PTL

\* A capsule keeps the flags it came with; one that came with none, and is not
\* the graphics, leaves with those of its update info and of the build.
THEOREM FlagsAreComplete == Spec => []FlagsComplete
  <1>1. IInv => FlagsComplete
    BY DEF IInv, FinalInv, FlagsComplete
  <1>. QED BY <1>1, Invariant, PTL
==============================================================================
