------------------------------ MODULE WorkerPool ------------------------------
(***************************************************************************)
(* The worker threads of io_completion_port.c.  Every registration of a    *)
(* handle compares the number of workers with the limit, without a lock,   *)
(* and starts the ones that are missing or posts an exit packet for each   *)
(* one too many.  A worker counts itself when it begins to run, serves the *)
(* packets of the port, and leaves on an exit packet if there are still    *)
(* too many.  g_exited is never set and is left out.                       *)
(***************************************************************************)
EXTENDS Integers, FiniteSets, FiniteSetsExt

CONSTANTS
  Registrars,        \* threads that may be in xf_io_completion_port_register
  Limits,            \* the values g_max_workers takes
  MaxRegistrations,  \* bounds the model
  MaxPackets         \* bounds the model

ASSUME WorkerPoolAssumption ==
  /\ Limits \subseteq Nat \ {0} /\ Limits # {}
  /\ MaxRegistrations \in Nat /\ MaxPackets \in Nat

VARIABLES
  limit,         \* g_max_workers
  current,       \* g_current_workers
  starting,      \* workers started that have not counted themselves yet
  busy,          \* workers inside a completion routine
  exits,         \* exit packets in the port
  packets,       \* completion packets in the port
  pc,            \* where each registrar is in prepare_thread
  i,             \* its loop variable
  registrations, \* history: registrations so far
  arrived,       \* history: completion packets so far
  granted,       \* history: a registration has succeeded
  limits,        \* history: the limits so far
  hasty          \* history: prepare_thread ran on a count that was changing

work == <<busy, packets, arrived>>
history == <<registrations, granted, limits, hasty>>
vars == <<limit, current, starting, exits, pc, i, work, history>>

Init ==
  /\ limit \in Limits
  /\ current = 0 /\ starting = 0 /\ busy = 0
  /\ exits = 0 /\ packets = 0 /\ arrived = 0
  /\ pc = [r \in Registrars |-> "out"]
  /\ i = [r \in Registrars |-> 0]
  /\ registrations = 0 /\ granted = FALSE /\ limits = {limit} /\ hasty = FALSE

Goto(r, place) == pc' = [pc EXCEPT ![r] = place]

-----------------------------------------------------------------------------
(* Registration *)

\* prepare_thread, called by xf_io_completion_port_register, reads the count and
\* the limit while workers change the count.
Register(r) ==
  /\ pc[r] = "out"
  /\ registrations < MaxRegistrations
  /\ registrations' = registrations + 1
  /\ hasty' = (hasty \/ starting > 0 \/ \E o \in Registrars : pc[o] # "out")
  /\ Goto(r, IF current < limit THEN "grow" ELSE "compare")
  /\ UNCHANGED <<limit, current, starting, exits, i, work, granted, limits>>

\* The second comparison reads them again.
Compare(r) ==
  /\ pc[r] = "compare"
  /\ IF current > limit
     THEN Goto(r, "shrink") /\ UNCHANGED granted
     ELSE Goto(r, "out") /\ granted' = TRUE
  /\ UNCHANGED <<limit, current, starting, exits, i, work, registrations, limits, hasty>>

\* Variants of this module's definitions, named after the slip they make, are
\* not part of the specification: each shows that a property can fail.
BeginLoopFromDifference(r) ==
  /\ pc[r] \in {"grow", "shrink"}
  /\ i' = [i EXCEPT ![r] = IF pc[r] = "grow" THEN current - limit ELSE limit]
  /\ Goto(r, IF pc[r] = "grow" THEN "starting" ELSE "posting")
  /\ UNCHANGED <<limit, current, starting, exits, work, history>>

\* The loop starts from the count, or the limit, as it is by then.
BeginLoop(r) ==
  /\ pc[r] \in {"grow", "shrink"}
  /\ i' = [i EXCEPT ![r] = IF pc[r] = "grow" THEN current ELSE limit]
  /\ Goto(r, IF pc[r] = "grow" THEN "starting" ELSE "posting")
  /\ UNCHANGED <<limit, current, starting, exits, work, history>>

StartWorker(r) ==
  /\ pc[r] = "starting" /\ i[r] < limit
  /\ \/ /\ starting' = starting + 1
        /\ i' = [i EXCEPT ![r] = @ + 1]
        /\ UNCHANGED pc
     \/ Goto(r, "out") /\ UNCHANGED <<starting, i>>   \* no thread: an error
  /\ UNCHANGED <<limit, current, exits, work, history>>

PostExit(r) ==
  /\ pc[r] = "posting" /\ i[r] < current
  /\ exits' = exits + 1
  /\ i' = [i EXCEPT ![r] = @ + 1]
  /\ UNCHANGED <<limit, current, starting, pc, work, history>>

EndLoop(r) ==
  /\ \/ pc[r] = "starting" /\ i[r] >= limit
     \/ pc[r] = "posting" /\ i[r] >= current
  /\ granted' = TRUE
  /\ Goto(r, "out")
  /\ UNCHANGED <<limit, current, starting, exits, i, work, registrations, limits, hasty>>

\* xf_io_set_max_workers starts and stops nobody.
SetMaxWorkers(n) ==
  /\ n # limit
  /\ limit' = n
  /\ limits' = limits \union {n}
  /\ UNCHANGED <<current, starting, exits, pc, i, work, registrations, granted, hasty>>

-----------------------------------------------------------------------------
(* Workers *)

WorkerBegins ==
  /\ starting > 0
  /\ starting' = starting - 1
  /\ current' = current + 1
  /\ UNCHANGED <<limit, exits, pc, i, work, history>>

WorkerObeysExit ==
  /\ current > busy /\ exits > 0
  /\ exits' = exits - 1
  /\ current' = current - 1
  /\ UNCHANGED <<limit, starting, pc, i, work, history>>

\* An exit packet counts only if there are still too many workers.
WorkerTakesExit ==
  /\ current > busy /\ exits > 0
  /\ exits' = exits - 1
  /\ current' = IF current > limit THEN current - 1 ELSE current
  /\ UNCHANGED <<limit, starting, pc, i, work, history>>

WorkerTakesPacket ==
  /\ current > busy /\ packets > 0
  /\ packets' = packets - 1
  /\ busy' = busy + 1
  /\ UNCHANGED <<limit, current, starting, exits, pc, i, arrived, history>>

WorkerReturns ==
  /\ busy > 0
  /\ busy' = busy - 1
  /\ UNCHANGED <<limit, current, starting, exits, pc, i, packets, arrived, history>>

\* Calls on a registered handle complete.
PacketArrives ==
  /\ granted /\ arrived < MaxPackets
  /\ arrived' = arrived + 1
  /\ packets' = packets + 1
  /\ UNCHANGED <<limit, current, starting, exits, pc, i, busy, history>>

-----------------------------------------------------------------------------

Work == WorkerBegins \/ WorkerTakesExit \/ WorkerTakesPacket \/ WorkerReturns

Next ==
  \/ \E r \in Registrars :
       Register(r) \/ Compare(r) \/ BeginLoop(r) \/ StartWorker(r) \/ PostExit(r) \/ EndLoop(r)
  \/ \E n \in Limits : SetMaxWorkers(n)
  \/ Work
  \/ PacketArrives

SafeSpec == Init /\ [][Next]_vars

\* Threads that were started run, and idle workers fetch packets.
Spec == SafeSpec /\ WF_vars(WorkerBegins) /\ WF_vars(WorkerTakesPacket) /\ WF_vars(WorkerReturns)

-----------------------------------------------------------------------------
(* Properties *)

\* Every variable has a value of its kind; the completion routines run on
\* workers that are counted.
TypeOK ==
  /\ limit \in Limits /\ limits \subseteq Limits
  /\ current \in Nat /\ starting \in Nat /\ exits \in Nat /\ packets \in Nat
  /\ busy \in 0..current
  /\ pc \in [Registrars -> {"out", "compare", "grow", "shrink", "starting", "posting"}]
  /\ i \in [Registrars -> Nat]
  /\ registrations \in 0..MaxRegistrations /\ arrived \in 0..MaxPackets
  /\ granted \in BOOLEAN /\ hasty \in BOOLEAN

\* Once a registration has succeeded there are workers for its handle, running
\* or about to: exit packets posted by several registrations for the same
\* surplus never stop more workers than the lowest limit allows.
NeverTooFew == granted => starting + current >= Min(limits)

\* There are more workers than any limit allowed only if a registration ran
\* while another did or while workers were starting: prepare_thread does not
\* see these.
TooManyOnlyIfHasty == ~hasty => starting + current <= Max(limits)

\* Completion packets are fetched in the end, however many workers are told to
\* stop.
PacketsAreServed == (packets > 0) ~> (packets = 0)
===============================================================================
