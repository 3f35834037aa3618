------------------------------- MODULE Timeout -------------------------------
(***************************************************************************)
(* The timer service of timeout.c and the poll thread of poll.c that       *)
(* drives it.  Callers on any thread schedule and cancel timers; the one   *)
(* poll thread sleeps on the monitor until the earliest deadline, then     *)
(* removes due timers one by one and calls their procedures with the       *)
(* monitor released.                                                       *)
(*                                                                         *)
(* The search tree of avltree.h is the set `tree' of the nodes linked in   *)
(* it (module AvlTree checks that it is an ordered set).  A caller's       *)
(* critical section never blocks, so it is one atomic step, enabled while  *)
(* the poll thread does not hold the monitor.                              *)
(***************************************************************************)
EXTENDS Integers

CONSTANTS
  Timers,       \* the xf_timeout_t nodes, each embedded in one xf_async_t
  Timeouts,     \* the timeout arguments callers pass, in ticks
  IdleTimeout,  \* the longest sleep: 300 * 1000 in the code
  MaxTime,      \* the last tick of the clock: bounds the model
  NoTimer       \* the NULL node

ASSUME TimeoutAssumption ==
  /\ Timeouts \subseteq Nat \ {0}   \* async.c schedules only if timeout > 0
  /\ IdleTimeout \in Nat \ {0}
  /\ MaxTime \in Nat
  /\ NoTimer \notin Timers

VARIABLES
  now,          \* xf_ticks()
  seq,          \* the next timer id
  key,          \* the key of each node: its timestamp and its id
  tree,         \* the nodes in the tree
  client,       \* where the owner of each node is in xf_timeout_schedule
  pc,           \* where the poll thread is
  ticks,        \* the clock as the poll thread read it for this pass
  current,      \* the node whose procedure the poll thread is calling
  wakeAt,       \* when the poll thread's sleep times out
  signalled,    \* the sleeping poll thread has been notified
  calls,        \* history: how often each timer's procedure was called
  wins          \* history: how many cancellations of it returned true

pollVars == <<pc, ticks, current, wakeAt>>
vars == <<now, seq, key, tree, client, pollVars, signalled, calls, wins>>

ClientStates == {"new", "stamped", "scheduled"}
PollStates == {"start", "scan", "waiting", "begin", "process", "calling"}

\* The monitor of poll.c is free: the poll thread has yet to start, sleeps on
\* the condition variable (which releases it) or is calling a procedure.
MonitorFree == pc \in {"start", "waiting", "calling"}

\* xf_timeout_compare(a, b) < 0
KeyLess(a, b) ==
  \/ a.timestamp < b.timestamp
  \/ a.timestamp = b.timestamp /\ a.id < b.id

\* m is the node get_min returns for the set of nodes S.
IsMin(m, S) == m \in S /\ \A n \in S \ {m} : KeyLess(key[m], key[n])

\* WakeConditionVariable: it wakes a sleeper and leaves nothing behind.
Notify == signalled' = (signalled \/ pc = "waiting")

Init ==
  /\ now = 0
  /\ seq = 0
  /\ key = [t \in Timers |-> [timestamp |-> 0, id |-> 0]]
  /\ tree = {}
  /\ client = [t \in Timers |-> "new"]
  /\ pc = "start"
  /\ ticks = 0
  /\ current = NoTimer
  /\ wakeAt = 0
  /\ signalled = FALSE
  /\ calls = [t \in Timers |-> 0]
  /\ wins = [t \in Timers |-> 0]

-----------------------------------------------------------------------------
(* Callers *)

\* Variants of this module's definitions, named after the slip they make, are
\* not part of the specification: each shows that a property can fail.
ScheduleStampBackwards(t) ==
  /\ client[t] = "new"
  /\ \E d \in Timeouts :
       /\ now + d <= MaxTime
       /\ key' = [key EXCEPT ![t].timestamp = now - d]
  /\ client' = [client EXCEPT ![t] = "stamped"]
  /\ UNCHANGED <<now, seq, tree, pollVars, signalled, calls, wins>>

\* The part of xf_timeout_schedule before the monitor is entered: the
\* timestamp is computed from a clock that moves on before the insertion.
\* MaxTime bounds the deadlines, so that the clock reaches every one of them.
ScheduleStamp(t) ==
  /\ client[t] = "new"
  /\ \E d \in Timeouts :
       /\ now + d <= MaxTime
       /\ key' = [key EXCEPT ![t].timestamp = now + d]
  /\ client' = [client EXCEPT ![t] = "stamped"]
  /\ UNCHANGED <<now, seq, tree, pollVars, signalled, calls, wins>>

ScheduleInsertWakesIfEmpty(t) ==
  /\ client[t] = "stamped"
  /\ MonitorFree
  /\ key' = [key EXCEPT ![t].id = seq]
  /\ seq' = seq + 1
  /\ tree' = tree \union {t}
  /\ IF tree = {} THEN Notify ELSE UNCHANGED signalled
  /\ client' = [client EXCEPT ![t] = "scheduled"]
  /\ UNCHANGED <<now, pollVars, calls, wins>>

ScheduleInsertKeepsSeq(t) ==
  /\ client[t] = "stamped"
  /\ MonitorFree
  /\ key' = [key EXCEPT ![t].id = seq]
  /\ tree' = tree \union {t}
  /\ IF \A n \in tree : KeyLess(key'[t], key[n]) THEN Notify ELSE UNCHANGED signalled
  /\ client' = [client EXCEPT ![t] = "scheduled"]
  /\ UNCHANGED <<now, seq, pollVars, calls, wins>>

\* Its critical section: take an id, link the node, and wake the poll thread
\* if the node is now the earliest one.
ScheduleInsert(t) ==
  /\ client[t] = "stamped"
  /\ MonitorFree
  /\ key' = [key EXCEPT ![t].id = seq]
  /\ seq' = seq + 1
  /\ tree' = tree \union {t}
  /\ IF \A n \in tree : KeyLess(key'[t], key[n]) THEN Notify ELSE UNCHANGED signalled
  /\ client' = [client EXCEPT ![t] = "scheduled"]
  /\ UNCHANGED <<now, pollVars, calls, wins>>

CancelWithoutMonitor(t) ==
  /\ client[t] # "stamped"
  /\ LET hit == {n \in tree : key[n] = key[t]} IN
       /\ tree' = tree \ hit
       /\ wins' = [wins EXCEPT ![t] = IF hit # {} THEN @ + 1 ELSE @]
  /\ UNCHANGED <<now, seq, key, client, pollVars, signalled, calls>>

\* xf_timeout_cancel looks the node up by its key, whatever state the timer is
\* in: never scheduled (its key is all zero), waiting, called or cancelled.
\* It may run on any thread, the poll thread's callbacks included.
Cancel(t) ==
  /\ client[t] # "stamped"
  /\ MonitorFree
  /\ LET hit == {n \in tree : key[n] = key[t]} IN
       /\ tree' = tree \ hit
       /\ wins' = [wins EXCEPT ![t] = IF hit # {} THEN @ + 1 ELSE @]
  /\ UNCHANGED <<now, seq, key, client, pollVars, signalled, calls>>

-----------------------------------------------------------------------------
(* The poll thread *)

PollStart ==
  /\ pc = "start"
  /\ pc' = "scan"
  /\ UNCHANGED <<now, seq, key, tree, client, ticks, current, wakeAt,
                 signalled, calls, wins>>

\* Sleeping releases the monitor in the same step as the decision to sleep.
Sleep(timeout) ==
  /\ pc' = "waiting"
  /\ wakeAt' = now + (IF timeout < IdleTimeout THEN timeout ELSE IdleTimeout)
  /\ signalled' = FALSE
  /\ UNCHANGED <<ticks, current>>

\* One turn of xf_poll_loop: how long until the earliest deadline?
PollScan ==
  /\ pc = "scan"
  /\ \/ tree = {} /\ Sleep(IdleTimeout)
     \/ \E m \in tree :
          /\ IsMin(m, tree)
          /\ LET timeout == key[m].timestamp - now IN
               \/ timeout > 0 /\ Sleep(timeout)
               \/ /\ timeout <= 0
                  /\ pc' = "begin"
                  /\ UNCHANGED <<ticks, current, wakeAt, signalled>>
  /\ UNCHANGED <<now, seq, key, tree, client, calls, wins>>

PollWakeOnlyIfNotified ==
  /\ pc = "waiting"
  /\ signalled
  /\ pc' = "scan"
  /\ signalled' = FALSE
  /\ UNCHANGED <<now, seq, key, tree, client, ticks, current, wakeAt,
                 calls, wins>>

\* The sleep ends: notified or timed out.
PollWake ==
  /\ pc = "waiting"
  /\ signalled \/ now >= wakeAt
  /\ pc' = "scan"
  /\ signalled' = FALSE
  /\ UNCHANGED <<now, seq, key, tree, client, ticks, current, wakeAt,
                 calls, wins>>

\* A condition variable may also wake its sleeper for no reason.
PollWakeSpurious ==
  /\ pc = "waiting"
  /\ pc' = "scan"
  /\ signalled' = FALSE
  /\ UNCHANGED <<now, seq, key, tree, client, ticks, current, wakeAt,
                 calls, wins>>

\* XF_POLLING_PROCESS reads the clock once for the whole pass.
PollBegin ==
  /\ pc = "begin"
  /\ ticks' = now
  /\ pc' = "process"
  /\ UNCHANGED <<now, seq, key, tree, client, current, wakeAt, signalled,
                 calls, wins>>

PollPopWithoutRemoving ==
  /\ pc = "process"
  /\ \E m \in tree :
       /\ IsMin(m, tree)
       /\ key[m].timestamp <= ticks
       /\ current' = m
       /\ calls' = [calls EXCEPT ![m] = @ + 1]
  /\ pc' = "calling"
  /\ UNCHANGED <<now, seq, key, tree, client, ticks, wakeAt, signalled, wins>>

PollPopOneTickEarly ==
  /\ pc = "process"
  /\ \E m \in tree :
       /\ IsMin(m, tree)
       /\ key[m].timestamp <= ticks + 1
       /\ tree' = tree \ {m}
       /\ current' = m
       /\ calls' = [calls EXCEPT ![m] = @ + 1]
  /\ pc' = "calling"
  /\ UNCHANGED <<now, seq, key, client, ticks, wakeAt, signalled, wins>>

\* Take the earliest node out of the tree if it is due, leave the monitor and
\* call its procedure.
PollPop ==
  /\ pc = "process"
  /\ \E m \in tree :
       /\ IsMin(m, tree)
       /\ key[m].timestamp <= ticks
       /\ tree' = tree \ {m}
       /\ current' = m
       /\ calls' = [calls EXCEPT ![m] = @ + 1]
  /\ pc' = "calling"
  /\ UNCHANGED <<now, seq, key, client, ticks, wakeAt, signalled, wins>>

\* The procedure returns and the poll thread enters the monitor again.
PollReturn ==
  /\ pc = "calling"
  /\ pc' = "process"
  /\ current' = NoTimer
  /\ UNCHANGED <<now, seq, key, tree, client, ticks, wakeAt, signalled,
                 calls, wins>>

\* Nothing in the tree is due any more: the pass ends with the monitor held.
PollEndPass ==
  /\ pc = "process"
  /\ \A n \in tree : key[n].timestamp > ticks
  /\ pc' = "scan"
  /\ UNCHANGED <<now, seq, key, tree, client, ticks, current, wakeAt,
                 signalled, calls, wins>>

Tick ==
  /\ now < MaxTime
  /\ now' = now + 1
  /\ UNCHANGED <<seq, key, tree, client, pollVars, signalled, calls, wins>>

-----------------------------------------------------------------------------

Poll ==
  \/ PollStart \/ PollScan \/ PollWake \/ PollBegin
  \/ PollPop \/ PollReturn \/ PollEndPass

Next ==
  \/ \E t \in Timers : ScheduleStamp(t) \/ ScheduleInsert(t) \/ Cancel(t)
  \/ Poll \/ PollWakeSpurious
  \/ Tick

SafeSpec == Init /\ [][Next]_vars

\* The poll thread runs for as long as the process does and procedures return;
\* the clock advances.  Callers owe nothing.
Fairness == WF_vars(Poll) /\ WF_vars(Tick)

Spec == SafeSpec /\ Fairness

-----------------------------------------------------------------------------
(* Properties *)

Keys == [timestamp : Nat, id : Nat]

\* Every variable has a value of its kind.
TypeOK ==
  /\ now \in Nat /\ seq \in Nat /\ ticks \in Nat /\ wakeAt \in Nat
  /\ key \in [Timers -> Keys]
  /\ tree \in SUBSET Timers
  /\ client \in [Timers -> ClientStates]
  /\ pc \in PollStates
  /\ current \in Timers \union {NoTimer}
  /\ signalled \in BOOLEAN
  /\ calls \in [Timers -> Nat]
  /\ wins \in [Timers -> Nat]

\* The poll thread never sleeps past a deadline: unless it has been notified
\* already, its sleep ends no later than the earliest timer in the tree is
\* due, whatever was scheduled or cancelled while it slept (the wakeup of
\* xf_timeout_schedule against the timeout xf_poll_loop computed before).
NoOversleep ==
  pc = "waiting" /\ ~signalled =>
    \A t \in tree : wakeAt <= key[t].timestamp

\* A procedure is never called before its deadline, whatever the clock read
\* at the start of the pass.
NeverEarly ==
  pc = "calling" => key[current].timestamp <= now

\* Once a timer is scheduled, exactly one party owns it: the tree, the one
\* call of its procedure, or the one cancellation that returned true.  async.c
\* counts a reference on the strength of this.
Owners(t) == (IF t \in tree THEN 1 ELSE 0) + calls[t] + wins[t]

ExactlyOneOwner ==
  \A t \in Timers : Owners(t) = IF client[t] = "scheduled" THEN 1 ELSE 0

\* xf_timeout_cancel searches by key: a timer that may be cancelled shares its
\* key with no other node in the tree, even if it was never scheduled and its
\* key is all zero.
CancelHitsOnlyItself ==
  \A t \in Timers : \A n \in tree \ {t} :
    client[t] # "stamped" => key[t] # key[n]

\* When xf_poll_loop decides to run a processing pass, the pass has work: no
\* cancellation can empty it, as the monitor stays held in between.
NoEmptyPass ==
  pc = "begin" => \E t \in tree : key[t].timestamp <= now

\* The timer service of TimerService, seen in this module's state.
Status(t) ==
  IF client[t] # "scheduled" THEN "idle"
  ELSE IF t \in tree THEN "armed"
  ELSE IF calls[t] > 0 THEN "fired"
  ELSE "cancelled"

Deadline(t) == IF client[t] = "scheduled" THEN key[t].timestamp ELSE 0

TS == INSTANCE TimerService
        WITH status <- [t \in Timers |-> Status(t)],
             deadline <- [t \in Timers |-> Deadline(t)]

\* Every step of the tree, the monitor and the poll thread is a step of the
\* promised service or invisible to it.
ImplementsTimerSafety == TS!SafeSpec

\* It is the promised service, in which a due timer does not stay armed.
ImplementsTimerService == TS!Spec
=============================================================================
