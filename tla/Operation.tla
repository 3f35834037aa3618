------------------------------ MODULE Operation ------------------------------
(***************************************************************************)
(* What an asynchronous operation promises its user.  It is pending until  *)
(* its callback has run, which happens once; after that it is freed.  An   *)
(* operation with a timeout does call back.  If a timeout or a user ended  *)
(* it, the library may still use it after it was freed, and then nothing   *)
(* is promised any more; without that it never does.                       *)
(***************************************************************************)
CONSTANT HasTimeout   \* the operation was created with timeout > 0

VARIABLES
  state,         \* "pending", "reported", "freed" or "misused"
  ended          \* a timeout fired or a user cancelled

vars == <<state, ended>>

Init == state = "pending" /\ ended = FALSE

End == ended' = TRUE /\ UNCHANGED state

Report == state = "pending" /\ state' = "reported" /\ UNCHANGED ended

Free == state = "reported" /\ state' = "freed" /\ UNCHANGED ended

Misuse == state = "freed" /\ ended /\ state' = "misused" /\ UNCHANGED ended

Next == End \/ Report \/ Free \/ Misuse

Spec == Init /\ [][Next]_vars /\ WF_vars(Free) /\ (HasTimeout => WF_vars(Report))
=============================================================================
