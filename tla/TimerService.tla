---------------------------- MODULE TimerService ----------------------------
(***************************************************************************)
(* What timeout.c promises its callers, without the tree, the poll thread  *)
(* or the monitor: a timer is armed once with a deadline; from then on     *)
(* either its procedure is called, never before the deadline, or one       *)
(* cancellation wins, never both; an armed timer whose deadline has passed *)
(* does not stay armed for ever.                                           *)
(***************************************************************************)
EXTENDS Integers

CONSTANTS
  Timers,      \* the xf_timeout_t nodes
  Timeouts,    \* the intervals a caller may ask for, in ticks
  MaxTime      \* the last tick of the clock: bounds the model

VARIABLES
  now,         \* xf_ticks()
  status,      \* "idle", "armed", "fired" or "cancelled", for each timer
  deadline     \* the tick a timer is set for; 0 until it is armed

vars == <<now, status, deadline>>

Init ==
  /\ now = 0
  /\ status = [t \in Timers |-> "idle"]
  /\ deadline = [t \in Timers |-> 0]

\* The deadline counts from the moment the caller read the clock, which may
\* be some ticks before the timer is in place.
Arm(t) ==
  /\ status[t] = "idle"
  /\ \E read \in 0..now, d \in Timeouts :
       deadline' = [deadline EXCEPT ![t] = read + d]
  /\ status' = [status EXCEPT ![t] = "armed"]
  /\ UNCHANGED now

Fire(t) ==
  /\ status[t] = "armed"
  /\ deadline[t] <= now
  /\ status' = [status EXCEPT ![t] = "fired"]
  /\ UNCHANGED <<now, deadline>>

CancelArmed(t) ==
  /\ status[t] = "armed"
  /\ status' = [status EXCEPT ![t] = "cancelled"]
  /\ UNCHANGED <<now, deadline>>

Tick ==
  /\ now < MaxTime
  /\ now' = now + 1
  /\ UNCHANGED <<status, deadline>>

Next ==
  \/ \E t \in Timers : Arm(t) \/ Fire(t) \/ CancelArmed(t)
  \/ Tick

SafeSpec == Init /\ [][Next]_vars

Spec == SafeSpec /\ \A t \in Timers : WF_vars(Fire(t))
=============================================================================
