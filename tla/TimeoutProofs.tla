---------------------------- MODULE TimeoutProofs ----------------------------
(***************************************************************************)
(* Proofs about module Timeout, for every set of timers, every set of      *)
(* intervals, every idle timeout and every bound of the clock.             *)
(***************************************************************************)
EXTENDS Timeout, TLAPS

\* The inductive invariant, in parts.  A timer that was never scheduled has
\* the zero key, one that was has the key its deadline and its turn gave it.
KeysAreGiven ==
  \A t \in Timers :
    /\ client[t] = "new" => key[t] = [timestamp |-> 0, id |-> 0]
    /\ client[t] # "new" =>
         \E read \in Nat, d \in Timeouts :
           read <= now /\ key[t].timestamp = read + d
    /\ client[t] = "scheduled" => key[t].id < seq

\* No two scheduled timers have the same id.
IdsAreUnique ==
  \A s, t \in Timers :
    client[s] = "scheduled" /\ client[t] = "scheduled" /\ s # t =>
      key[s].id # key[t].id

\* Only scheduled timers are in the tree.
TreeIsScheduled == \A t \in tree : client[t] = "scheduled"

\* The clock the poll thread read for the pass is not ahead of the clock, and
\* the timer it calls was due by then.
PassIsDue ==
  /\ pc \in {"process", "calling"} => ticks <= now
  /\ pc = "calling" =>
       /\ current \in Timers
       /\ client[current] = "scheduled"
       /\ key[current].timestamp <= ticks

IInv ==
  /\ TypeOK
  /\ KeysAreGiven
  /\ IdsAreUnique
  /\ TreeIsScheduled
  /\ ExactlyOneOwner
  /\ PassIsDue
  /\ NoOversleep
  /\ NoEmptyPass

-----------------------------------------------------------------------------
(* Lemmas about keys *)

\* A node get_min returns is due no later than any other node.
LEMMA MinIsEarliest ==
  ASSUME TypeOK, NEW m, IsMin(m, tree), NEW n \in tree
  PROVE  key[m].timestamp <= key[n].timestamp
<1>1. CASE n = m
  BY <1>1 DEF TypeOK, Keys
<1>2. CASE n # m
  BY <1>2 DEF TypeOK, Keys, IsMin, KeyLess
<1> QED BY <1>1, <1>2

\* A search by key finds no timer but the one whose key it is.
LEMMA KeyFindsOwner ==
  ASSUME TypeOK, KeysAreGiven, IdsAreUnique, TreeIsScheduled,
         NEW t \in Timers, client[t] # "stamped",
         NEW n \in tree, key[n] = key[t]
  PROVE  n = t
<1>1. n \in Timers /\ client[n] = "scheduled"
  BY DEF TypeOK, TreeIsScheduled
<1>2. CASE client[t] = "new"
  <2>1. key[n].timestamp = 0
    BY <1>2 DEF KeysAreGiven
  <2>2. PICK read \in Nat, d \in Timeouts : key[n].timestamp = read + d
    BY <1>1 DEF KeysAreGiven
  <2> QED BY <2>1, <2>2, TimeoutAssumption
<1>3. CASE client[t] = "scheduled"
  BY <1>1, <1>3 DEF IdsAreUnique
<1> QED BY <1>2, <1>3 DEF TypeOK, ClientStates

-----------------------------------------------------------------------------
(* Inductiveness *)

\* The inductive invariant holds at the start.
LEMMA InitEstablishes == Init => IInv
<1> SUFFICES ASSUME Init PROVE IInv
  OBVIOUS
<1> USE DEF Init
<1>1. TypeOK
  BY DEF TypeOK, Keys, ClientStates, PollStates
<1>2. KeysAreGiven /\ IdsAreUnique /\ TreeIsScheduled
  BY DEF KeysAreGiven, IdsAreUnique, TreeIsScheduled
<1>3. ExactlyOneOwner
  <2> SUFFICES ASSUME NEW t \in Timers
               PROVE  Owners(t) = IF client[t] = "scheduled" THEN 1 ELSE 0
    BY DEF ExactlyOneOwner
  <2>1. calls[t] = 0 /\ wins[t] = 0 /\ t \notin tree /\ client[t] = "new"
    OBVIOUS
  <2> QED BY <2>1 DEF Owners
<1>4. PassIsDue /\ NoOversleep /\ NoEmptyPass
  BY DEF PassIsDue, NoOversleep, NoEmptyPass
<1> QED BY <1>1, <1>2, <1>3, <1>4 DEF IInv

\* Reading the clock for a new timer, outside the monitor, disturbs nothing that
\* is said of the timers in the tree.
LEMMA StampPreserves ==
  ASSUME IInv, NEW t \in Timers, ScheduleStamp(t)
  PROVE  IInv'
<1> USE DEF IInv, ScheduleStamp, pollVars
<1>0. PICK d \in Timeouts : key' = [key EXCEPT ![t].timestamp = now + d]
  OBVIOUS
<1>1. d \in Nat
  BY TimeoutAssumption
<1>2. TypeOK'
  BY <1>0, <1>1 DEF TypeOK, Keys, ClientStates
<1>3. KeysAreGiven'
  BY <1>0, <1>1 DEF TypeOK, Keys, KeysAreGiven
<1>4. \A n \in Timers : n # t => key'[n] = key[n] /\ client'[n] = client[n]
  BY <1>0 DEF TypeOK
<1>5. t \notin tree /\ client'[t] = "stamped"
  BY DEF TypeOK, TreeIsScheduled
<1>6. IdsAreUnique'
  BY <1>4, <1>5 DEF IdsAreUnique
<1>7. TreeIsScheduled' /\ ExactlyOneOwner'
  BY <1>4, <1>5 DEF TypeOK, TreeIsScheduled, ExactlyOneOwner, Owners
<1>8. PassIsDue' /\ NoOversleep' /\ NoEmptyPass'
  BY <1>4, <1>5 DEF TypeOK, PassIsDue, NoOversleep, NoEmptyPass
<1> QED BY <1>2, <1>3, <1>6, <1>7, <1>8

\* Linking a node under the monitor: its id is new, so its key is its own, and
\* a sleeping poll thread is notified if the node is now the earliest.
LEMMA InsertPreserves ==
  ASSUME IInv, NEW t \in Timers, ScheduleInsert(t)
  PROVE  IInv'
<1> USE DEF IInv, ScheduleInsert, pollVars
<1>0. signalled' \in BOOLEAN
  BY ZenonT(30) DEF TypeOK, Notify
<1>1. TypeOK'
  BY <1>0 DEF TypeOK, Keys, ClientStates
<1>2. \A n \in Timers : n # t => key'[n] = key[n] /\ client'[n] = client[n]
  BY DEF TypeOK
<1>3. /\ t \notin tree /\ client'[t] = "scheduled"
      /\ key'[t].id = seq /\ key'[t].timestamp = key[t].timestamp
  BY DEF TypeOK, Keys, TreeIsScheduled
<1>4. KeysAreGiven'
  BY <1>2, <1>3 DEF TypeOK, Keys, KeysAreGiven
<1>5. IdsAreUnique'
  BY <1>2, <1>3 DEF TypeOK, Keys, KeysAreGiven, IdsAreUnique
<1>6. TreeIsScheduled' /\ ExactlyOneOwner'
  BY <1>2, <1>3 DEF TypeOK, TreeIsScheduled, ExactlyOneOwner, Owners
<1>7. PassIsDue' /\ NoEmptyPass'
  BY <1>2, <1>3 DEF TypeOK, PassIsDue, NoEmptyPass, MonitorFree
<1>8. NoOversleep'
  <2> SUFFICES ASSUME pc = "waiting", ~signalled', NEW n \in tree \union {t}
               PROVE  wakeAt <= key'[n].timestamp
    BY DEF NoOversleep
  <2>1. ~signalled
    BY DEF Notify, TypeOK
  <2>2. CASE n \in tree
    BY <1>2, <1>3, <2>1, <2>2 DEF NoOversleep, TypeOK
  <2>3. CASE n = t
    <3>1. PICK e \in tree : ~KeyLess(key'[t], key[e])
      BY DEF Notify
    <3>2. wakeAt <= key[e].timestamp
      BY <2>1 DEF NoOversleep
    <3>3. key[e].timestamp <= key'[t].timestamp
      BY <1>1, <3>1 DEF KeyLess, TypeOK, Keys
    <3> QED BY <1>1, <2>3, <3>2, <3>3 DEF TypeOK, Keys
  <2> QED BY <2>2, <2>3
<1> QED BY <1>1, <1>4, <1>5, <1>6, <1>7, <1>8

\* What a cancellation takes out of the tree: its own node, if it is there.
LEMMA CancelTakesOwn ==
  ASSUME IInv, NEW t \in Timers, Cancel(t)
  PROVE  /\ tree' = tree \ {t}
         /\ wins' = [wins EXCEPT ![t] = IF t \in tree THEN @ + 1 ELSE @]
<1> DEFINE hit == {n \in tree : key[n] = key[t]}
<1>1. \A n \in hit : n = t
  BY KeyFindsOwner DEF IInv, Cancel
<1>2. t \in tree <=> hit # {}
  BY <1>1
<1>3. tree' = tree \ hit /\ wins' = [wins EXCEPT ![t] = IF hit # {} THEN @ + 1 ELSE @]
  BY DEF Cancel
<1> QED BY <1>1, <1>2, <1>3

\* A cancellation takes at most one node out and never makes a sleep too long.
LEMMA CancelPreserves ==
  ASSUME IInv, NEW t \in Timers, Cancel(t)
  PROVE  IInv'
<1> USE DEF IInv
<1>0. UNCHANGED <<now, seq, key, client, pc, ticks, current, wakeAt, signalled, calls>>
  BY DEF Cancel, pollVars
<1>1. tree' = tree \ {t}
  BY CancelTakesOwn
<1>2. wins' = [wins EXCEPT ![t] = IF t \in tree THEN @ + 1 ELSE @]
  BY CancelTakesOwn
<1>3. TypeOK'
  BY <1>0, <1>1, <1>2 DEF TypeOK
<1>4. KeysAreGiven' /\ IdsAreUnique' /\ TreeIsScheduled' /\ PassIsDue' /\ NoOversleep'
  BY <1>0, <1>1 DEF KeysAreGiven, IdsAreUnique, TreeIsScheduled, PassIsDue, NoOversleep
<1>5. ExactlyOneOwner'
  <2> SUFFICES ASSUME NEW s \in Timers
               PROVE  Owners(s)' = IF client[s] = "scheduled" THEN 1 ELSE 0
    BY <1>0 DEF ExactlyOneOwner
  <2>1. Owners(s)' = Owners(s)
    BY <1>0, <1>1, <1>2 DEF Owners, TypeOK
  <2> QED BY <2>1 DEF ExactlyOneOwner
<1>6. NoEmptyPass'
  BY <1>0 DEF NoEmptyPass, Cancel, MonitorFree
<1> QED BY <1>3, <1>4, <1>5, <1>6

\* Steps of the poll thread that touch no timer keep what is said of timers.
LEMMA PollKeepsTimers ==
  ASSUME IInv, UNCHANGED <<now, seq, key, tree, client, calls, wins>>
  PROVE  KeysAreGiven' /\ IdsAreUnique' /\ TreeIsScheduled' /\ ExactlyOneOwner'
BY DEF IInv, KeysAreGiven, IdsAreUnique, TreeIsScheduled, ExactlyOneOwner, Owners

\* The decision to sleep or to run a pass, taken with the monitor held: a sleep
\* ends by the earliest deadline, a pass has a timer that is due.
LEMMA ScanPreserves ==
  ASSUME IInv, PollScan
  PROVE  IInv'
<1> USE DEF IInv
<1>1. UNCHANGED <<now, seq, key, tree, client, calls, wins>> /\ pc = "scan"
  BY DEF PollScan
<1>2. CASE tree = {} /\ Sleep(IdleTimeout)
  <2>0. wakeAt' \in Nat
    BY <1>2, TimeoutAssumption DEF Sleep, TypeOK
  <2>1. TypeOK'
    BY <1>1, <1>2, <2>0 DEF Sleep, TypeOK, PollStates
  <2>2. PassIsDue' /\ NoOversleep' /\ NoEmptyPass'
    BY <1>1, <1>2 DEF Sleep, PassIsDue, NoOversleep, NoEmptyPass
  <2> QED BY <1>1, <2>1, <2>2, PollKeepsTimers
<1>3. ASSUME NEW m \in tree, IsMin(m, tree),
             key[m].timestamp - now > 0, Sleep(key[m].timestamp - now)
      PROVE  IInv'
  <2>1. key[m].timestamp \in Nat /\ now \in Nat
    BY DEF TypeOK, Keys
  <2>2. wakeAt' \in Nat /\ wakeAt' <= key[m].timestamp
    BY <1>3, <2>1, TimeoutAssumption DEF Sleep
  <2>3. TypeOK'
    BY <1>1, <1>3, <2>2 DEF Sleep, TypeOK, PollStates
  <2>4. NoOversleep'
    BY <1>1, <1>3, <2>1, <2>2, MinIsEarliest DEF NoOversleep, TypeOK, Keys
  <2>5. PassIsDue' /\ NoEmptyPass'
    BY <1>3 DEF Sleep, PassIsDue, NoEmptyPass
  <2> QED BY <1>1, <2>3, <2>4, <2>5, PollKeepsTimers
<1>4. ASSUME NEW m \in tree, IsMin(m, tree), key[m].timestamp - now <= 0,
             pc' = "begin", UNCHANGED <<ticks, current, wakeAt, signalled>>
      PROVE  IInv'
  <2>1. TypeOK'
    BY <1>1, <1>4 DEF TypeOK, PollStates
  <2>2. NoEmptyPass'
    BY <1>1, <1>4 DEF NoEmptyPass, TypeOK, Keys
  <2>3. PassIsDue' /\ NoOversleep'
    BY <1>4 DEF PassIsDue, NoOversleep
  <2> QED BY <1>1, <2>1, <2>2, <2>3, PollKeepsTimers
<1> QED BY <1>2, <1>3, <1>4 DEF PollScan

\* Taking a due node out of the tree hands it to the one call of its procedure.
LEMMA PopPreserves ==
  ASSUME IInv, PollPop
  PROVE  IInv'
<1> USE DEF IInv
<1>0. UNCHANGED <<now, seq, key, client, ticks, wakeAt, signalled, wins>>
      /\ pc = "process" /\ pc' = "calling"
  BY DEF PollPop
<1>1. PICK m \in tree : /\ key[m].timestamp <= ticks
                        /\ tree' = tree \ {m}
                        /\ current' = m
                        /\ calls' = [calls EXCEPT ![m] = @ + 1]
  BY DEF PollPop
<1>2. m \in Timers /\ client[m] = "scheduled"
  BY DEF TypeOK, TreeIsScheduled
<1>3. TypeOK'
  BY <1>0, <1>1, <1>2 DEF TypeOK, PollStates
<1>4. KeysAreGiven' /\ IdsAreUnique' /\ TreeIsScheduled'
  BY <1>0, <1>1 DEF KeysAreGiven, IdsAreUnique, TreeIsScheduled
<1>5. ExactlyOneOwner'
  <2> SUFFICES ASSUME NEW s \in Timers
               PROVE  Owners(s)' = IF client[s] = "scheduled" THEN 1 ELSE 0
    BY <1>0 DEF ExactlyOneOwner
  <2>1. Owners(s)' = Owners(s)
    BY <1>0, <1>1, <1>2 DEF Owners, TypeOK
  <2> QED BY <2>1 DEF ExactlyOneOwner
<1>6. PassIsDue' /\ NoOversleep' /\ NoEmptyPass'
  BY <1>0, <1>1, <1>2 DEF PassIsDue, NoOversleep, NoEmptyPass
<1> QED BY <1>3, <1>4, <1>5, <1>6

\* The remaining steps of the poll thread change nothing but its own state.
LEMMA PollPreserves ==
  ASSUME IInv, PollStart \/ PollWake \/ PollWakeSpurious \/ PollBegin
               \/ PollReturn \/ PollEndPass
  PROVE  IInv'
<1> USE DEF IInv
<1>1. UNCHANGED <<now, seq, key, tree, client, calls, wins>>
  BY DEF PollStart, PollWake, PollWakeSpurious, PollBegin, PollReturn, PollEndPass
<1>2. TypeOK'
  BY <1>1 DEF TypeOK, PollStates, PollStart, PollWake, PollWakeSpurious,
              PollBegin, PollReturn, PollEndPass
<1>3. PassIsDue' /\ NoOversleep' /\ NoEmptyPass'
  BY <1>1 DEF TypeOK, PassIsDue, NoOversleep, NoEmptyPass, PollStart, PollWake,
              PollWakeSpurious, PollBegin, PollReturn, PollEndPass
<1> QED BY <1>1, <1>2, <1>3, PollKeepsTimers

\* Time passes: what is due stays due.
LEMMA TickPreserves ==
  ASSUME IInv, Tick
  PROVE  IInv'
<1> USE DEF IInv, Tick, pollVars
<1>1. TypeOK' /\ now <= now'
  BY DEF TypeOK
<1>2. KeysAreGiven'
  <2> SUFFICES ASSUME NEW t \in Timers, client[t] # "new"
               PROVE  \E read \in Nat, d \in Timeouts :
                        read <= now' /\ key[t].timestamp = read + d
    BY DEF KeysAreGiven
  <2>1. PICK read \in Nat, d \in Timeouts :
               read <= now /\ key[t].timestamp = read + d
    BY DEF KeysAreGiven
  <2>2. read <= now'
    BY <2>1 DEF TypeOK
  <2> QED BY <2>1, <2>2
<1>3. IdsAreUnique' /\ TreeIsScheduled' /\ ExactlyOneOwner' /\ NoOversleep'
  BY DEF IdsAreUnique, TreeIsScheduled, ExactlyOneOwner, Owners, NoOversleep
<1>4. PassIsDue'
  BY DEF PassIsDue, TypeOK
<1>5. NoEmptyPass'
  BY DEF NoEmptyPass, TypeOK, Keys
<1> QED BY <1>1, <1>2, <1>3, <1>4, <1>5

\* Every step keeps the inductive invariant: one case for each action.
LEMMA NextPreserves == IInv /\ [Next]_vars => IInv'
<1> SUFFICES ASSUME IInv, [Next]_vars PROVE IInv'
  OBVIOUS
<1>1. ASSUME NEW t \in Timers, ScheduleStamp(t) PROVE IInv'
  BY <1>1, StampPreserves
<1>2. ASSUME NEW t \in Timers, ScheduleInsert(t) PROVE IInv'
  BY <1>2, InsertPreserves
<1>3. ASSUME NEW t \in Timers, Cancel(t) PROVE IInv'
  BY <1>3, CancelPreserves
<1>4. CASE PollScan
  BY <1>4, ScanPreserves
<1>5. CASE PollPop
  BY <1>5, PopPreserves
<1>6. CASE PollStart \/ PollWake \/ PollWakeSpurious \/ PollBegin
           \/ PollReturn \/ PollEndPass
  BY <1>6, PollPreserves
<1>7. CASE Tick
  BY <1>7, TickPreserves
<1>8. CASE UNCHANGED vars
  BY <1>8 DEF vars, pollVars, IInv, TypeOK, KeysAreGiven, IdsAreUnique,
              TreeIsScheduled, ExactlyOneOwner, Owners, PassIsDue, NoOversleep,
              NoEmptyPass
<1> QED BY <1>1, <1>2, <1>3, <1>4, <1>5, <1>6, <1>7, <1>8 DEF Next, Poll

\* The inductive invariant holds in every reachable state.
LEMMA Invariance == SafeSpec => []IInv
BY InitEstablishes, NextPreserves, PTL DEF SafeSpec

-----------------------------------------------------------------------------
(* Safety *)

\* Every variable keeps its type.
THEOREM TypeCorrect == SafeSpec => []TypeOK
<1>1. IInv => TypeOK
  BY DEF IInv
<1> QED BY <1>1, Invariance, PTL

\* The poll thread never sleeps past a deadline, in whatever order timers are
\* scheduled and cancelled while it goes to sleep (xf_poll_loop against
\* xf_timeout_schedule).
THEOREM NeverOversleeps == SafeSpec => []NoOversleep
<1>1. IInv => NoOversleep
  BY DEF IInv
<1> QED BY <1>1, Invariance, PTL

\* No procedure is called before its deadline (the processing pass of
\* xf_timeout_poll_procedure).
THEOREM NeverFiresEarly == SafeSpec => []NeverEarly
<1>1. IInv => NeverEarly
  <2> SUFFICES ASSUME IInv, pc = "calling"
               PROVE  key[current].timestamp <= now
    BY DEF NeverEarly
  <2>1. /\ ticks <= now /\ key[current].timestamp <= ticks
        /\ key[current].timestamp \in Nat /\ ticks \in Nat /\ now \in Nat
    BY DEF IInv, PassIsDue, TypeOK, Keys
  <2> QED BY <2>1
<1> QED BY <1>1, Invariance, PTL

\* A scheduled timer is in the tree, called once or cancelled with success
\* once, and only one of these: what async.c counts a reference on.
THEOREM OneOwner == SafeSpec => []ExactlyOneOwner
<1>1. IInv => ExactlyOneOwner
  BY DEF IInv
<1> QED BY <1>1, Invariance, PTL

\* xf_timeout_cancel never takes another timer's node out of the tree.
THEOREM CancelIsPrecise == SafeSpec => []CancelHitsOnlyItself
<1>1. IInv => CancelHitsOnlyItself
  <2> SUFFICES ASSUME IInv, NEW t \in Timers, NEW n \in tree \ {t},
                      client[t] # "stamped", key[t] = key[n]
               PROVE  FALSE
    BY DEF CancelHitsOnlyItself
  <2> QED BY KeyFindsOwner DEF IInv
<1> QED BY <1>1, Invariance, PTL

\* xf_poll_loop runs a processing pass only if it has a timer to call.
THEOREM PassesHaveWork == SafeSpec => []NoEmptyPass
<1>1. IInv => NoEmptyPass
  BY DEF IInv
<1> QED BY <1>1, Invariance, PTL

-----------------------------------------------------------------------------
(* Refinement: the module implements TimerService *)

\* What a timer that is in the tree looks like to its user, and what it looks
\* like once it is out.
LEMMA ArmedStatus ==
  ASSUME IInv, NEW t \in tree
  PROVE  /\ t \in Timers /\ client[t] = "scheduled"
         /\ Status(t) = "armed" /\ Deadline(t) = key[t].timestamp
         /\ calls[t] = 0 /\ wins[t] = 0
<1>1. t \in Timers /\ client[t] = "scheduled"
  BY DEF IInv, TypeOK, TreeIsScheduled
<1>2. 1 + calls[t] + wins[t] = 1 /\ calls[t] \in Nat /\ wins[t] \in Nat
  BY <1>1 DEF IInv, TypeOK, ExactlyOneOwner, Owners
<1> QED BY <1>1, <1>2 DEF Status, Deadline

\* A step that leaves the tree, the clients, the keys of scheduled timers and
\* the calls alone is invisible to the users.
LEMMA Invisible ==
  ASSUME UNCHANGED <<now, tree, calls>>,
         \A t \in Timers : client'[t] = "scheduled" <=> client[t] = "scheduled",
         \A t \in Timers : client[t] = "scheduled" => key'[t] = key[t]
  PROVE  UNCHANGED TS!vars
<1>1. \A t \in Timers : Status(t)' = Status(t) /\ Deadline(t)' = Deadline(t)
  BY DEF Status, Deadline
<1> QED BY <1>1 DEF TS!vars

\* Every timer but t looks the same to the users.
Others(t) ==
  \A s \in Timers \ {t} : Status(s)' = Status(s) /\ Deadline(s)' = Deadline(s)

\* The insertion under the monitor is the moment the service arms the timer.
LEMMA InsertArms ==
  ASSUME IInv, NEW t \in Timers, ScheduleInsert(t)
  PROVE  TS!Arm(t)
<1> USE DEF ScheduleInsert, pollVars
<1>1. /\ client[t] = "stamped" /\ client'[t] = "scheduled" /\ t \in tree'
      /\ key'[t].timestamp = key[t].timestamp /\ UNCHANGED <<now, calls>>
  BY DEF IInv, TypeOK, Keys
<1>2. \A s \in Timers \ {t} : /\ client'[s] = client[s] /\ key'[s] = key[s]
                              /\ s \in tree' <=> s \in tree
  BY DEF IInv, TypeOK
<1>3. Others(t)
  BY <1>1, <1>2 DEF Others, Status, Deadline
<1>4. Status(t) = "idle" /\ Status(t)' = "armed"
  BY <1>1 DEF Status
<1>5. Deadline(t)' = key[t].timestamp
  BY <1>1 DEF Deadline
<1>6. PICK read \in Nat, d \in Timeouts :
             read <= now /\ key[t].timestamp = read + d
  BY <1>1 DEF IInv, KeysAreGiven
<1>7. read \in 0..now
  BY <1>6 DEF IInv, TypeOK
<1>8. [s \in Timers |-> Status(s)]'
        = [[s \in Timers |-> Status(s)] EXCEPT ![t] = "armed"]
  BY <1>3, <1>4 DEF Others
<1>9. [s \in Timers |-> Deadline(s)]'
        = [[s \in Timers |-> Deadline(s)] EXCEPT ![t] = read + d]
  BY <1>3, <1>5, <1>6 DEF Others
<1> QED BY <1>1, <1>4, <1>6, <1>7, <1>8, <1>9 DEF TS!Arm

\* A cancellation that finds its node is the service's, any other is invisible.
LEMMA CancelCancels ==
  ASSUME IInv, NEW t \in Timers, Cancel(t)
  PROVE  TS!CancelArmed(t) \/ UNCHANGED TS!vars
<1>1. UNCHANGED <<now, key, client, calls>>
  BY DEF Cancel
<1>2. tree' = tree \ {t}
  BY CancelTakesOwn
<1>3. CASE t \notin tree
  BY <1>1, <1>2, <1>3, Invisible
<1>4. CASE t \in tree
  <2>1. Status(t) = "armed" /\ client[t] = "scheduled" /\ calls[t] = 0
    BY <1>4, ArmedStatus
  <2>2. Status(t)' = "cancelled"
    BY <1>1, <1>2, <2>1 DEF Status
  <2>3. \A s \in Timers : Deadline(s)' = Deadline(s)
    BY <1>1 DEF Deadline
  <2>4. Others(t)
    BY <1>1, <1>2 DEF Others, Status, Deadline
  <2>5. [s \in Timers |-> Status(s)]'
          = [[s \in Timers |-> Status(s)] EXCEPT ![t] = "cancelled"]
    BY <2>2, <2>4 DEF Others
  <2> QED BY <1>1, <2>1, <2>3, <2>5 DEF TS!CancelArmed
<1> QED BY <1>3, <1>4

\* Taking a due node out of the tree is the moment the service fires the timer.
LEMMA PopFires ==
  ASSUME IInv, PollPop
  PROVE  \E t \in Timers : TS!Fire(t)
<1>1. PICK m \in tree : /\ key[m].timestamp <= ticks
                        /\ tree' = tree \ {m}
                        /\ calls' = [calls EXCEPT ![m] = @ + 1]
  BY DEF PollPop
<1>2. UNCHANGED <<now, key, client>> /\ pc = "process"
  BY DEF PollPop
<1>3. /\ m \in Timers /\ client[m] = "scheduled" /\ calls[m] = 0
      /\ Status(m) = "armed" /\ Deadline(m) = key[m].timestamp
  BY ArmedStatus
<1>4. Deadline(m) <= now
  BY <1>1, <1>2, <1>3 DEF IInv, PassIsDue, TypeOK, Keys
<1>5. calls'[m] = 1 /\ m \notin tree'
  BY <1>1, <1>3 DEF IInv, TypeOK
<1>6. Status(m)' = "fired"
  BY <1>2, <1>3, <1>5 DEF Status
<1>7. Others(m) /\ Deadline(m)' = Deadline(m)
  BY <1>1, <1>2 DEF Others, Status, Deadline, IInv, TypeOK
<1>8. [s \in Timers |-> Status(s)]'
        = [[s \in Timers |-> Status(s)] EXCEPT ![m] = "fired"]
  BY <1>6, <1>7 DEF Others
<1>9. [s \in Timers |-> Deadline(s)]' = [s \in Timers |-> Deadline(s)]
  BY <1>7 DEF Others
<1> QED BY <1>2, <1>3, <1>4, <1>8, <1>9 DEF TS!Fire

\* Every step of the timer module is a step of the service or a stutter.
LEMMA StepRefines ==
  ASSUME IInv, [Next]_vars
  PROVE  [TS!Next]_(TS!vars)
<1>1. ASSUME NEW t \in Timers, ScheduleStamp(t) PROVE UNCHANGED TS!vars
  <2>1. UNCHANGED <<now, tree, calls>>
    BY <1>1 DEF ScheduleStamp
  <2>2. \A s \in Timers : client'[s] = "scheduled" <=> client[s] = "scheduled"
    BY <1>1 DEF ScheduleStamp, IInv, TypeOK
  <2>3. \A s \in Timers : client[s] = "scheduled" => key'[s] = key[s]
    BY <1>1 DEF ScheduleStamp, IInv, TypeOK
  <2> QED BY <2>1, <2>2, <2>3, Invisible
<1>2. ASSUME NEW t \in Timers, ScheduleInsert(t) PROVE TS!Next
  BY <1>2, InsertArms DEF TS!Next
<1>3. ASSUME NEW t \in Timers, Cancel(t) PROVE TS!Next \/ UNCHANGED TS!vars
  BY <1>3, CancelCancels DEF TS!Next
<1>4. CASE PollPop
  BY <1>4, PopFires DEF TS!Next
<1>5. CASE PollScan \/ PollStart \/ PollWake \/ PollWakeSpurious \/ PollBegin
           \/ PollReturn \/ PollEndPass
  <2>1. UNCHANGED <<now, tree, calls, client, key>>
    BY <1>5 DEF PollScan, PollStart, PollWake, PollWakeSpurious, PollBegin,
                PollReturn, PollEndPass
  <2> QED BY <2>1, Invisible
<1>6. CASE Tick
  <2>1. \A t \in Timers : Status(t)' = Status(t) /\ Deadline(t)' = Deadline(t)
    BY <1>6 DEF Tick, Status, Deadline
  <2> QED BY <1>6, <2>1 DEF Tick, TS!Next, TS!Tick
<1>7. CASE UNCHANGED vars
  BY <1>7, Invisible DEF vars
<1> QED BY <1>1, <1>2, <1>3, <1>4, <1>5, <1>6, <1>7 DEF Next, Poll

\* The tree, the monitor and the poll thread together are the timer service
\* that TimerService promises to the callers of timeout.h (safety).
THEOREM Refinement == SafeSpec => ImplementsTimerSafety
<1>1. Init => TS!Init
  BY DEF Init, TS!Init, Status, Deadline
<1> QED BY <1>1, StepRefines, Invariance, PTL
           DEF SafeSpec, ImplementsTimerSafety, TS!SafeSpec
=============================================================================
