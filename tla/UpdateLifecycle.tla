--------------------------- MODULE UpdateLifecycle ---------------------------
(***************************************************************************)
(* What the updater promises about one firmware update, seen from outside: *)
(* it is armed by the operating system, spent by the updater before        *)
(* anything is handed to the firmware, and delivered at most once, in the  *)
(* same run that spent it.  Program memory, loops and failures are         *)
(* invisible here; Fwupdate implements this specification.                 *)
(***************************************************************************)

CONSTANT Names     \* the update state variables

VARIABLE life      \* the stage of each update

(***************************************************************************)
(* none    no well-formed request is stored under the name                 *)
(* armed   a request is stored and the updater still has to act on it      *)
(* staged  the request was spent and its capsule is ready for delivery     *)
(* sent    the capsule was handed to the firmware                          *)
(* lost    the request is spent and its capsule will never be delivered    *)
(***************************************************************************)
Stages == {"none", "armed", "staged", "sent", "lost"}

Init == life \in [Names -> Stages \ {"staged", "sent"}]

\* The operating system arms, replaces or withdraws a request.
Write(n) == \E s \in {"none", "armed"} : life' = [life EXCEPT ![n] = s]

\* A request stops being armed, with its capsule ready or not.
Spend(n) ==
    /\ life[n] = "armed"
    /\ \E s \in {"staged", "lost"} : life' = [life EXCEPT ![n] = s]

Staged == {n \in Names : life[n] = "staged"}

Retire(stage) == [n \in Names |-> IF n \in Staged THEN stage ELSE life[n]]

\* One call of the firmware delivers everything that is staged.
Deliver == Staged # {} /\ life' = Retire("sent")

\* The run ends, by an error or a loss of power, with capsules undelivered.
Abandon == Staged # {} /\ life' = Retire("lost")

Next == \/ \E n \in Names : Write(n) \/ Spend(n)
        \/ Deliver
        \/ Abandon

Spec == Init /\ [][Next]_life
==============================================================================
