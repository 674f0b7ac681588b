------------------------------- MODULE WholeRead -------------------------------
(***************************************************************************)
(* What the caller of fwup_read_file relies on: the call reads a file in   *)
(* one step, and returns all of it or an error, with nothing.              *)
(***************************************************************************)
EXTENDS Naturals

CONSTANT MaxFile   \* largest file

VARIABLES
    file,      \* the size of the file
    rc,        \* the status, "none" before the return
    returned   \* what the caller gets: the size, and how much of the buffer
               \* holds the file's bytes

vars == <<file, rc, returned>>

Nothing == [size |-> 0, held |-> 0]

Init == file \in 0..MaxFile /\ rc = "none" /\ returned = Nothing

Read ==
    /\ rc = "none"
    /\ \/ rc' = "success" /\ returned' = [size |-> file, held |-> file]
       \/ rc' \in {"error", "out_of_resources"} /\ UNCHANGED returned
    /\ UNCHANGED file

Spec == Init /\ [][Read]_vars
==============================================================================
