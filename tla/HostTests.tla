------------------------------- MODULE HostTests -------------------------------
(***************************************************************************)
(* The programs that run the parsers on a build host over mock firmware:   *)
(* fwup-selftest, whose main runs its tests in order and aborts at the     *)
(* first assertion that fails, and the two fuzz targets, each called again *)
(* and again with any input.  The code under test is that of the models of *)
(* the program; the sizes are the real ones, and Uint16 values stand for   *)
(* the 2^32 of a UINT32, which no comparison in the tests tells apart.     *)
(***************************************************************************)
EXTENDS Integers, Sequences, FiniteSets, SequencesExt

CONSTANTS
    FuzzNodes,     \* most nodes of a fuzzed device path
    FuzzLengths,   \* lengths of its nodes
    FuzzInfoSizes, \* sizes of a fuzzed variable
    FuzzFileSizes, \* sizes of a fuzzed capsule file
    FuzzFields     \* what its header's HeaderSize and CapsuleImageSize hold

Uint16 == 65536
CapsuleHeader == 28        \* sizeof(EFI_CAPSULE_HEADER)
UxHeader == 16             \* sizeof(UX_CAPSULE_HEADER)
UpdateInfo == 56           \* sizeof(FWUP_UPDATE_INFO)
DpOffset == 52             \* of its dp

ASSUME FuzzAssumption ==
    /\ FuzzNodes \in Nat /\ FuzzLengths \subseteq 0..Uint16 - 1
    /\ FuzzInfoSizes \subseteq Nat /\ FuzzFields \subseteq 0..Uint16 - 1
    /\ FuzzFileSizes \subseteq 0..Uint16 - 1

VARIABLES
    program,   \* fwup-selftest, fwup-fuzz-capsule or fwup-fuzz-update-info
    pc,
    test,      \* the test or the fuzzed input that is running
    result,    \* what the code under test returned
    tests_run, tests_passed

vars == <<program, pc, test, result, tests_run, tests_passed>>

------------------------------------------------------------------------------
(* The code under test, from the models of the program *)

Path(info_size, limit) == INSTANCE DevicePath WITH
    MaxInfoSize <- 0, MaxLength <- Uint16 - 1, NumHandles <- 0, MaxPath <- 0,
    node <- <<>>, dp <- 0, ret <- 0, walked <- 0, count <- 0, h <- 0,
    file_dp <- 0, rc <- ""

File(capsule, fsize) == INSTANCE CapsuleFile WITH
    Byte <- 256, Uint32 <- Uint16, Uintn <- Uint16, MaxFile <- 0, NumHandles <- 0,
    Modes <- {}, InfoFlags <- {}, AddedFlags <- {}, ux <- TRUE, info_flags <- {},
    fh <- "", came <- {}, payload <- <<>>, i <- 0, shown <- 0, cbd_out <- 0, rc <- ""

Run == INSTANCE Fwupdate WITH
    NumVars <- 0, Skipped <- {}, Huge <- {}, Broken <- {}, MaxUpdates <- 1,
    Writable <- {}, MaxWrites <- 0, WarningMayFault <- FALSE, MaxFailures <- 0,
    nvram <- <<>>, sent <- <<>>, got <- "", variable_name <- 0, updates <- <<>>,
    i <- 0, capsules <- <<>>, cbd_data <- <<>>, reset_type <- "", rc <- "",
    writes <- 0, failures <- 0

\* A node of a device path; behind the nodes of a path all bytes are zero.
Node(length) == [length |-> length, end |-> FALSE]
End == [length |-> 4, end |-> TRUE]

\* One round of the loop of fwup_dp_size; ret is -1 when the loop breaks.
Round(s, n) ==
    IF s.done THEN s
    ELSE IF ~Path(0, s.limit)!HeaderFits \/ Path(0, s.limit)!TooShort(n)
      THEN [limit |-> s.limit, ret |-> -1, done |-> TRUE]
    ELSE [limit |-> s.limit - n.length, ret |-> s.ret + n.length, done |-> n.end]

\* The loop after its n-th round; behind the path there are zero bytes.
Rounds(path, limit) ==
    LET s[n \in 0..Len(path) + 1] ==
          IF n = 0 THEN [limit |-> limit, ret |-> 0, done |-> FALSE]
                   ELSE Round(s[n - 1], Append(path, Node(0))[n])
    IN s

fwup_dp_size(path, limit) == Rounds(path, limit)[Len(path) + 1].ret

\* mock_get_variable and fuzz_get_variable; size -1 for no buffer.
mock_get_variable(var, size) ==
    IF var.status # "EFI_SUCCESS" THEN var.status
    ELSE IF size < var.size THEN "EFI_BUFFER_TOO_SMALL"
    ELSE "EFI_SUCCESS"

\* What a function that has no other outputs returns.
Returned(rc) == [rc |-> rc]

\* The outputs of fwup_get_variable as the caller set them.
NotRead(rc) == [rc |-> rc, buf |-> <<>>, size |-> 0, attrs |-> {}]

\* The host's malloc does not fail, and the mocks answer the same twice.  buf
\* is what the buffer holds, <<>> for no buffer.
fwup_get_variable(var) ==
    LET first == mock_get_variable(var, -1)
        rc == IF first = "EFI_BUFFER_TOO_SMALL" THEN mock_get_variable(var, var.size) ELSE first
    IN IF rc = "EFI_SUCCESS"
         THEN [rc |-> rc, buf |-> <<var.data>>, size |-> var.size, attrs |-> var.attrs]
         ELSE NotRead(rc)

Deleted(rc, set_called) == [rc |-> rc, set_called |-> set_called]

fwup_delete_variable(var) ==
    CASE mock_get_variable(var, -1) = "EFI_SUCCESS"   -> Deleted("EFI_SUCCESS", TRUE)
      [] mock_get_variable(var, -1) = "EFI_NOT_FOUND" -> Deleted("EFI_SUCCESS", FALSE)
      [] OTHER -> Deleted(mock_get_variable(var, -1), FALSE)

\* The outputs as the caller cleared them; info and name tell whether they are
\* there.
Rejected(rc) == [rc |-> rc, info |-> FALSE, name |-> FALSE, size |-> 0]

\* Mutant of Accepted: the size stored is that of the path.
AcceptedPath(got) ==
    [rc |-> "EFI_SUCCESS", info |-> TRUE, name |-> TRUE, size |-> got.size - DpOffset]

Accepted(got) == [rc |-> "EFI_SUCCESS", info |-> TRUE, name |-> TRUE, size |-> got.size]

fwup_populate_update_info(var) ==
    LET got == fwup_get_variable(var)
    IN IF got.rc # "EFI_SUCCESS" THEN Rejected(got.rc)
       ELSE IF \/ Path(got.size, 0)!TooSmall
               \/ ~Path(got.size, 0)!Fills(fwup_dp_size(got.buf[1], got.size - DpOffset))
         THEN Rejected("EFI_INVALID_PARAMETER")
       ELSE Accepted(got)

\* LibLocateHandle finds no display.
fwup_check_gop_for_ux_capsule(capsule, fsize) ==
    IF File(capsule, fsize)!UxFits THEN "EFI_UNSUPPORTED" ELSE "EFI_INVALID_PARAMETER"

fwup_update_ux_capsule_checksum(payload) ==
    [payload EXCEPT !.checksum = File(<<>>, 0)!Checksum(payload)]

fwup_validate_capsule_size(capsule, fsize) ==
    IF File(capsule, fsize)!ImageFits THEN "EFI_SUCCESS" ELSE "EFI_INVALID_PARAMETER"

------------------------------------------------------------------------------
(* The tests: each an input and, for the outputs that main asserts anything *)
(* of, the values that it allows                                            *)

Errors == {"EFI_INVALID_PARAMETER", "EFI_OUT_OF_RESOURCES", "EFI_NOT_FOUND",
           "EFI_UNSUPPORTED", "EFI_BUFFER_TOO_SMALL"}

DpSize(path, limit, size) ==
    [group |-> "dp_size", path |-> path, limit |-> limit,
     expect |-> [rc |-> {size}]]

DpSizeTests == <<
    DpSize(<<End>>, 100, 4),
    DpSize(<<Node(8), Node(6), End>>, 100, 18),
    DpSize(<<End>>, 3, -1),
    DpSize(<<Node(8), End>>, 6, -1),
    DpSize(<<End>>, 4, 4),
    DpSize(<<End>>, 0, -1),
    DpSize(<<Node(0), End>>, 100, -1)>>

\* rest: the sum of the payload's bytes but the mode and the checksum.
Payload(rest, mode) == [rest |-> rest, mode |-> mode, checksum |-> 0]

\* times: calls in a row, one or two.
Checksum(payload, times, sum) ==
    [group |-> "checksum", payload |-> payload, times |-> times,
     expect |-> [rc |-> {sum % 256}]]

ChecksumTests == <<
    Checksum(Payload(0, 0), 1, 0),
    Checksum(Payload(1 + 2 + 100 + 200, 3), 1, 1 + 2 + 3 + 100 + 200),
    Checksum(Payload(5 + 10 + 20, 42), 2, 5 + 42 + 10 + 20)>>

Gop(header, image, fsize, expect) ==
    [group |-> "gop", fsize |-> fsize, expect |-> expect,
     capsule |-> [HeaderSize |-> header, CapsuleImageSize |-> image]]

GopRc(header, image, fsize, rc) == Gop(header, image, fsize, [rc |-> {rc}])

Least == CapsuleHeader + UxHeader

GopTests == <<
    GopRc(CapsuleHeader - 1, 256, 256, "EFI_INVALID_PARAMETER"),
    GopRc(CapsuleHeader, CapsuleHeader - 1, 256, "EFI_INVALID_PARAMETER"),
    GopRc(CapsuleHeader, Least - 1, 256, "EFI_INVALID_PARAMETER"),
    GopRc(CapsuleHeader, Least, Least - 1, "EFI_INVALID_PARAMETER"),
    GopRc(CapsuleHeader, Least, Least, "EFI_UNSUPPORTED"),
    GopRc(CapsuleHeader + 1, Least, Least, "EFI_INVALID_PARAMETER")>>

\* mock_init: no variable.
mock_init == [status |-> "EFI_NOT_FOUND", size |-> 0, attrs |-> {}, data |-> <<>>]

\* data: the nodes from dp on, or the bytes where no path is read.
Var(size, attrs, data) ==
    [status |-> "EFI_SUCCESS", size |-> size, attrs |-> attrs, data |-> data]

Populate(var, expect) == [group |-> "populate", var |-> var, expect |-> expect]

Fails == [rc |-> Errors]
Nonvolatile == {"EFI_VARIABLE_NON_VOLATILE", "EFI_VARIABLE_BOOTSERVICE_ACCESS"}

PopulateTests == <<
    Populate(Var(UpdateInfo - 1, {}, <<>>), Fails),
    Populate(Var(UpdateInfo, {}, <<>>), Fails),
    Populate(Var(UpdateInfo + 8, Nonvolatile,
                 <<Node(UpdateInfo + 8 - DpOffset - 4), End>>),
             [rc |-> {"EFI_SUCCESS"}, info |-> {TRUE}, name |-> {TRUE},
              size |-> {UpdateInfo + 8}]),
    Populate(Var(DpOffset + 8, {}, <<End>>), Fails),
    Populate(mock_init, [rc |-> {"EFI_NOT_FOUND"}])>>

ImageSize(image, fsize, expect) ==
    [group |-> "image", fsize |-> fsize, expect |-> expect,
     capsule |-> [HeaderSize |-> 0, CapsuleImageSize |-> image]]

ImageSizeTests == <<
    ImageSize(64 + 1, 64, Fails),
    ImageSize(CapsuleHeader - 1, 128, Fails),
    ImageSize(CapsuleHeader, CapsuleHeader - 1, Fails),
    ImageSize(128, 128, [rc |-> {"EFI_SUCCESS"}])>>

Delete(status, expect) ==
    [group |-> "delete", var |-> [mock_init EXCEPT !.status = status], expect |-> expect]

DeleteTests == <<
    Delete("EFI_BUFFER_TOO_SMALL", [rc |-> {"EFI_BUFFER_TOO_SMALL"}, set_called |-> {FALSE}]),
    Delete("EFI_NOT_FOUND", [rc |-> {"EFI_SUCCESS"}]),
    Delete("EFI_UNSUPPORTED", [rc |-> {"EFI_UNSUPPORTED"}])>>

Get(var, expect) == [group |-> "get", var |-> var, expect |-> expect]

GetTests == <<
    Get(Var(4, {"EFI_VARIABLE_NON_VOLATILE"}, <<1, 2, 3, 4>>),
        [rc |-> {"EFI_SUCCESS"}, size |-> {4}, attrs |-> {{"EFI_VARIABLE_NON_VOLATILE"}},
         buf |-> {<<<<1, 2, 3, 4>>>>}]),
    Get(mock_init, [rc |-> {"EFI_NOT_FOUND"}, buf |-> {<<>>}])>>

\* Four descriptors and room for the terminator; two capsules loaded.
CbdTests == <<[group |-> "cbd", cbd |-> <<100, 200, 999, 0, 0>>, n |-> 2,
               expect |-> [rc |-> {<<100, 200, Run!Terminator, 0, 0>>}]]>>

Tests == DpSizeTests \o ChecksumTests \o GopTests \o PopulateTests
         \o ImageSizeTests \o DeleteTests \o GetTests \o CbdTests

------------------------------------------------------------------------------

Call(t) ==
    CASE t.group = "dp_size"  -> Returned(fwup_dp_size(t.path, t.limit))
      [] t.group = "checksum" ->
           LET once == fwup_update_ux_capsule_checksum(t.payload)
           IN Returned(IF t.times = 1 THEN once.checksum
                                      ELSE fwup_update_ux_capsule_checksum(once).checksum)
      [] t.group = "gop"      -> Returned(fwup_check_gop_for_ux_capsule(t.capsule, t.fsize))
      [] t.group = "populate" -> fwup_populate_update_info(t.var)
      [] t.group = "image"    -> Returned(fwup_validate_capsule_size(t.capsule, t.fsize))
      [] t.group = "delete"   -> fwup_delete_variable(t.var)
      [] t.group = "get"      -> fwup_get_variable(t.var)
      [] t.group = "cbd"      -> Returned(Run!SetTerminator(t.cbd, t.n))

\* What a test asserts of the outputs.
Asserted(t, outputs) == \A out \in DOMAIN t.expect : outputs[out] \in t.expect[out]

Nothing == Returned("")

Init ==
    /\ program \in {"selftest", "fuzz-capsule", "fuzz-update-info"}
    /\ pc = "main" /\ test = <<>> /\ result = Nothing
    /\ tests_run = 0 /\ tests_passed = 0

NextTest ==
    /\ program = "selftest" /\ pc = "main" /\ tests_run < Len(Tests)
    /\ pc' = "test" /\ test' = Tests[tests_run + 1]
    /\ tests_run' = tests_run + 1
    /\ UNCHANGED <<program, result, tests_passed>>

\* A capsule smaller than its header is not tried; nothing is asserted of what
\* the fuzz targets get.
FuzzCapsule ==
    /\ program = "fuzz-capsule" /\ pc = "main"
    /\ \E header, image \in FuzzFields, fsize \in FuzzFileSizes :
          /\ fsize >= CapsuleHeader
          /\ test' = Gop(header, image, fsize, <<>>)
    /\ pc' = "test"
    /\ UNCHANGED <<program, result, tests_run, tests_passed>>

FuzzUpdateInfo ==
    /\ program = "fuzz-update-info" /\ pc = "main"
    /\ \E size \in FuzzInfoSizes :
       \E path \in SeqOf([length : FuzzLengths, end : BOOLEAN], FuzzNodes) :
          test' = Populate(Var(size, Nonvolatile, path), <<>>)
    /\ pc' = "test"
    /\ UNCHANGED <<program, result, tests_run, tests_passed>>

RunTest ==
    /\ pc = "test"
    /\ result' = Call(test)
    /\ pc' = "assert"
    /\ UNCHANGED <<program, test, tests_run, tests_passed>>

\* assert aborts the program when it fails.
Passes ==
    /\ pc = "assert" /\ Asserted(test, result)
    /\ pc' = "main" /\ test' = <<>> /\ result' = Nothing
    /\ tests_passed' = tests_passed + (IF program = "selftest" THEN 1 ELSE 0)
    /\ UNCHANGED <<program, tests_run>>

Next == NextTest \/ FuzzCapsule \/ FuzzUpdateInfo \/ RunTest \/ Passes

Spec == Init /\ [][Next]_vars

------------------------------------------------------------------------------
(* Properties *)

\* What the repository's tests assert of the program holds of its models: the
\* return values, and where main asserts them the outputs, the calls of
\* SetVariable and the contents read (fwup-selftest.c).
AssertionsHold == program = "selftest" /\ pc = "assert" => Asserted(test, result)

\* The sizes of the nodes of a path up to its n-th.
Sizes(path) ==
    LET sum[n \in 0..Len(path)] == IF n = 0 THEN 0 ELSE sum[n - 1] + path[n].length
    IN sum

\* The nodes of the path up to its n-th are the whole rest of the variable,
\* with the first end node at their end, and none is shorter than a header.
WholePath(var, n) ==
    /\ {k \in 1..n : var.data[k].end} = {n}
    /\ \A k \in 1..n : var.data[k].length >= 4
    /\ Sizes(var.data)[n] = var.size - DpOffset

\* A fuzzed variable is accepted if and only if it holds a whole path.  A
\* fuzzed capsule gets as far as the search for a display if and only if the
\* graphics' header lies behind its own and inside the image and the file:
\* fwup_validate_capsule_size, which the program calls before, is not needed.
FuzzVerdicts ==
    /\ program = "fuzz-update-info" /\ pc = "assert" =>
          (result.rc = "EFI_SUCCESS" <=>
             /\ test.var.size > UpdateInfo + 4
             /\ \E n \in DOMAIN test.var.data : WholePath(test.var, n))
    /\ program = "fuzz-capsule" /\ pc = "assert" =>
          (result.rc = "EFI_UNSUPPORTED" <=>
             /\ test.capsule.HeaderSize >= CapsuleHeader
             /\ test.capsule.HeaderSize + UxHeader <= test.capsule.CapsuleImageSize
             /\ test.capsule.HeaderSize + UxHeader <= test.fsize)
==============================================================================
