--------------------------- MODULE SslStreamProofs ----------------------------
(***************************************************************************)
(* Proofs about module SslStream, in three parts.                          *)
(* The locks.  A thread that owns the lock of an operation that is not     *)
(* cancelled is about to execute a frame of that operation, so that it     *)
(* does not wait for another lock (LockIsOnTop).                           *)
(* The work.  Of the user's operation and of each of its children the      *)
(* count of references is exact and one callback is owed (LifeInv); of one *)
(* child at most the callback has not run, and until Root is cancelled     *)
(* that child comes before any report of Root (OneAfterAnother).  A child  *)
(* whose call is pending owes its callback (ChildInv): so Root is reported *)
(* after the kernel has done with it.                                      *)
(* Who comes too late.  As long as nobody has cancelled the user's         *)
(* operation the frames on each stack follow one another in order (Rule),  *)
(* an operation is destroyed once, when nobody holds it (GoneAtLast), and  *)
(* one thread at most reports Root (RootReported).  So an operation that   *)
(* was freed is used in two places only (LateUsesAreKnown).                *)
(***************************************************************************)
EXTENDS SslStream, AsyncProofs

-----------------------------------------------------------------------------
(* The locks of a stream *)

\* What a thread executes inside the monitor of a.
InMonitor(a) ==
  {f \in FrameType : f.op \in {"recv", "submit", "disconnectex", "unlock"} /\ f.async = a}

Locks(locks) == locks \in [Asyncs -> [owner : Threads \union {None}, depth : Int]]

StreamTypes ==
  /\ stack \in Stacks
  /\ Locks(lock)
  /\ canceled \in [Asyncs -> BOOLEAN]
  /\ child \in [Asyncs -> Asyncs \union {None}]

\* As long as a is not cancelled, only the owner of its lock is inside, with
\* nothing else to do first, and has entered once.
LockIsOnTop(a) ==
  ~canceled[a] =>
    /\ \A th \in Threads : \A k \in DOMAIN stack[th] :
         stack[th][k] \in InMonitor(a) => k = 1 /\ lock[a].owner = th
    /\ IF lock[a].owner = None THEN lock[a].depth = 0
       ELSE /\ lock[a].depth = 1 /\ stack[lock[a].owner] # << >>
            /\ Head(stack[lock[a].owner]) \in InMonitor(a)

StreamInv ==
  /\ StreamTypes /\ CancellersRest
  /\ \A a \in Asyncs : LockIsOnTop(a)

\* What a call leaves of the stacks.
LEMMA CallShifts ==
  ASSUME stack \in Stacks, NEW th \in Threads, stack[th] # << >>, NEW q \in Seq(FrameType),
         Call(th, q)
  PROVE  /\ stack' \in Stacks
         /\ \A t \in Threads \ {th} : stack'[t] = stack[t]
         /\ Len(q) > 0 => stack'[th] # << >> /\ Head(stack'[th]) = q[1]
         /\ \A k \in DOMAIN stack'[th] :
              \/ k \in DOMAIN q /\ stack'[th][k] = q[k]
              \/ \E i \in DOMAIN stack[th] \ {1} : stack'[th][k] = stack[th][i]
<1>1. /\ stack[th] \in Seq(FrameType) /\ stack'[th] = q \o Tail(stack[th])
      /\ \A t \in Threads \ {th} : stack'[t] = stack[t]
  BY DEF Call, Stacks
<1>2. stack' \in Stacks
  <2>1. q \o Tail(stack[th]) \in Seq(FrameType)
    BY <1>1
  <2> QED BY <2>1 DEF Call, Stacks
<1> DEFINE s == stack[th]
           n == stack'[th]
<1>3. /\ Len(n) = Len(q) + Len(s) - 1 /\ Len(q) \in Nat /\ Len(s) \in Nat /\ Len(s) >= 1
      /\ DOMAIN n = 1..Len(n) /\ DOMAIN q = 1..Len(q) /\ DOMAIN s = 1..Len(s)
  BY <1>1
<1>4. ASSUME NEW k \in DOMAIN n
      PROVE  \/ k \in DOMAIN q /\ n[k] = q[k]
             \/ \E i \in DOMAIN s \ {1} : n[k] = s[i]
  <2>1. CASE k <= Len(q)
    BY <1>1, <1>3, <2>1
  <2>2. CASE ~(k <= Len(q))
    <3>1. n[k] = s[k - Len(q) + 1] /\ k - Len(q) + 1 \in DOMAIN s \ {1}
      BY <1>1, <1>3, <2>2, SMTT(30)
    <3> QED BY <3>1
  <2> QED BY <2>1, <2>2
<1>5. Len(q) > 0 => n # << >> /\ Head(n) = q[1]
  BY <1>1, <1>3
<1> QED BY <1>1, <1>2, <1>4, <1>5

\* The types of the other variables after a step, and what may not be undone.
StreamTyped ==
  /\ Locks(lock')
  /\ canceled' \in [Asyncs -> BOOLEAN]
  /\ child' \in [Asyncs -> Asyncs \union {None}]
  /\ \A a \in Asyncs : canceled[a] => canceled'[a]

\* A call that has nothing to do with the monitor of a.
LEMMA AsideFrom ==
  ASSUME StreamInv, NEW th \in Threads, stack[th] # << >>, NEW q \in Seq(FrameType),
         Call(th, q), NEW a \in Asyncs, canceled[a] => canceled'[a],
         ~canceled'[a] => /\ Head(stack[th]) \notin InMonitor(a)
                          /\ lock'[a] = lock[a]
                          /\ \A k \in DOMAIN q : q[k] \notin InMonitor(a)
  PROVE  LockIsOnTop(a)'
<1> SUFFICES ASSUME ~canceled'[a]
             PROVE  LockIsOnTop(a)'
  BY DEF LockIsOnTop
<1>1. /\ Head(stack[th]) \notin InMonitor(a) /\ lock'[a] = lock[a] /\ ~canceled[a]
      /\ \A k \in DOMAIN q : q[k] \notin InMonitor(a)
  OBVIOUS
<1>2. stack \in Stacks /\ LockIsOnTop(a)
  BY DEF StreamInv, StreamTypes
<1>3. stack[th] \in Seq(FrameType) /\ Head(stack[th]) = stack[th][1]
  BY <1>2 DEF Stacks
<1>4. /\ \A t \in Threads \ {th} : stack'[t] = stack[t]
      /\ \A k \in DOMAIN stack'[th] :
           \/ k \in DOMAIN q /\ stack'[th][k] = q[k]
           \/ \E i \in DOMAIN stack[th] \ {1} : stack'[th][k] = stack[th][i]
  BY <1>2, CallShifts
<1>5. \A k \in DOMAIN stack'[th] : stack'[th][k] \notin InMonitor(a)
  BY <1>1, <1>2, <1>4 DEF LockIsOnTop
<1>6. lock[a].owner # th \/ lock[a].owner = None
  BY <1>1, <1>2 DEF LockIsOnTop
<1>7. lock[a].owner \in Threads \union {None}
  BY DEF StreamInv, StreamTypes, Locks
<1>8. \A t \in Threads : \A k \in DOMAIN stack'[t] :
        stack'[t][k] \in InMonitor(a) => k = 1 /\ lock'[a].owner = t
  BY <1>1, <1>2, <1>4, <1>5 DEF LockIsOnTop
<1>9. lock[a].owner # None => stack'[lock[a].owner] = stack[lock[a].owner]
  BY <1>4, <1>6, <1>7
<1> QED BY <1>1, <1>2, <1>8, <1>9 DEF LockIsOnTop

\* A thread enters the monitor of a, which is not cancelled.
LEMMA EntersMonitor ==
  ASSUME StreamInv, NEW th \in Threads, stack[th] # << >>, NEW a \in Asyncs,
         Head(stack[th]) \notin InMonitor(a), NEW f \in InMonitor(a), Call(th, <<f>>),
         CanEnter(th, a), Enter(th, a), ~canceled[a]
  PROVE  LockIsOnTop(a)'
<1>1. stack \in Stacks /\ LockIsOnTop(a) /\ f \in FrameType
  BY DEF StreamInv, StreamTypes, InMonitor
<1>2. lock[a].owner = None /\ lock[a].depth = 0
  BY <1>1 DEF LockIsOnTop, CanEnter
<1>3. lock'[a] = [owner |-> th, depth |-> 1]
  BY <1>2 DEF Enter, StreamInv, StreamTypes, Locks
<1> DEFINE q == <<f>>
<1>4. q \in Seq(FrameType) /\ Len(q) = 1 /\ DOMAIN q = {1} /\ q[1] = f /\ Call(th, q)
  BY <1>1
<1> HIDE DEF q
<1>5. /\ \A t \in Threads \ {th} : stack'[t] = stack[t]
      /\ stack'[th] # << >> /\ Head(stack'[th]) = f
      /\ \A k \in DOMAIN stack'[th] :
           k = 1 \/ \E i \in DOMAIN stack[th] \ {1} : stack'[th][k] = stack[th][i]
  BY <1>1, <1>4, CallShifts
<1>6. \A t \in Threads : \A k \in DOMAIN stack[t] : stack[t][k] \notin InMonitor(a)
  BY <1>1, <1>2, AsyncAssumption DEF LockIsOnTop
<1>7. \A t \in Threads : \A k \in DOMAIN stack'[t] :
        stack'[t][k] \in InMonitor(a) => k = 1 /\ lock'[a].owner = t
  BY <1>3, <1>5, <1>6
<1> QED BY <1>3, <1>5, <1>7, AsyncAssumption DEF LockIsOnTop

\* A thread that is inside the monitor of a is its owner, and goes on to leave it.
LEMMA StaysInMonitor ==
  ASSUME StreamInv, NEW th \in Threads, stack[th] # << >>, NEW a \in Asyncs,
         Head(stack[th]) \in InMonitor(a), NEW q \in Seq(FrameType), Len(q) > 0,
         q[1] \in InMonitor(a), \A k \in DOMAIN q \ {1} : q[k] \notin InMonitor(a), Call(th, q),
         UNCHANGED <<lock, canceled>>
  PROVE  LockIsOnTop(a)'
<1> SUFFICES ASSUME ~canceled[a]
             PROVE  LockIsOnTop(a)'
  BY DEF LockIsOnTop
<1>1. stack \in Stacks /\ LockIsOnTop(a)
  BY DEF StreamInv, StreamTypes
<1>2. stack[th] \in Seq(FrameType) /\ Head(stack[th]) = stack[th][1] /\ 1 \in DOMAIN stack[th]
  BY <1>1 DEF Stacks
<1>3. lock[a].owner = th
  BY <1>1, <1>2 DEF LockIsOnTop
<1>4. /\ \A t \in Threads \ {th} : stack'[t] = stack[t]
      /\ stack'[th] # << >> /\ Head(stack'[th]) = q[1]
      /\ \A k \in DOMAIN stack'[th] :
           \/ k \in DOMAIN q /\ stack'[th][k] = q[k]
           \/ \E i \in DOMAIN stack[th] \ {1} : stack'[th][k] = stack[th][i]
  BY <1>1, CallShifts
<1>5. \A t \in Threads : \A k \in DOMAIN stack'[t] :
        stack'[t][k] \in InMonitor(a) => k = 1 /\ lock[a].owner = t
  BY <1>1, <1>3, <1>4 DEF LockIsOnTop
<1> QED BY <1>1, <1>3, <1>4, <1>5, AsyncAssumption DEF LockIsOnTop

\* It leaves.
LEMMA LeavesMonitor ==
  ASSUME StreamInv, NEW th \in Threads, stack[th] # << >>, NEW a \in Asyncs,
         Head(stack[th]) \in InMonitor(a), Call(th, << >>), Leave(a), UNCHANGED canceled
  PROVE  LockIsOnTop(a)'
<1> SUFFICES ASSUME ~canceled[a]
             PROVE  LockIsOnTop(a)'
  BY DEF LockIsOnTop
<1>1. stack \in Stacks /\ LockIsOnTop(a)
  BY DEF StreamInv, StreamTypes
<1>2. stack[th] \in Seq(FrameType) /\ Head(stack[th]) = stack[th][1] /\ 1 \in DOMAIN stack[th]
  BY <1>1 DEF Stacks
<1>3. lock[a].owner = th /\ lock[a].depth = 1
  BY <1>1, <1>2, AsyncAssumption DEF LockIsOnTop
<1>4. lock'[a] = [owner |-> None, depth |-> 0]
  BY <1>3 DEF Leave, StreamInv, StreamTypes, Locks
<1> DEFINE q == << >>
<1>5. q \in Seq(FrameType) /\ DOMAIN q = {} /\ Call(th, q)
  OBVIOUS
<1> HIDE DEF q
<1>6. /\ \A t \in Threads \ {th} : stack'[t] = stack[t]
      /\ \A k \in DOMAIN stack'[th] :
           \E i \in DOMAIN stack[th] \ {1} : stack'[th][k] = stack[th][i]
  <2>1. /\ \A t \in Threads \ {th} : stack'[t] = stack[t]
        /\ \A k \in DOMAIN stack'[th] :
             \/ k \in DOMAIN q /\ stack'[th][k] = q[k]
             \/ \E i \in DOMAIN stack[th] \ {1} : stack'[th][k] = stack[th][i]
    BY <1>1, <1>5, CallShifts
  <2> QED BY ONLY <2>1, <1>5
<1>7. \A t \in Threads : \A k \in DOMAIN stack'[t] : stack'[t][k] \notin InMonitor(a)
  <2>1. \A t \in Threads : \A k \in DOMAIN stack[t] :
          stack[t][k] \in InMonitor(a) => k = 1 /\ t = th
    BY <1>1, <1>3 DEF LockIsOnTop
  <2>2. \A k \in DOMAIN stack'[th] : stack'[th][k] \notin InMonitor(a)
    BY <1>6, <2>1
  <2>3. \A t \in Threads \ {th} : \A k \in DOMAIN stack'[t] : stack'[t][k] \notin InMonitor(a)
    BY <1>6, <2>1
  <2> QED BY <2>2, <2>3
<1> QED BY <1>4, <1>7 DEF LockIsOnTop

\* Entering and leaving change one lock.
LEMMA OneLockChanges ==
  ASSUME Locks(lock), NEW a \in Asyncs, NEW th \in Threads, Enter(th, a) \/ Leave(a)
  PROVE  Locks(lock') /\ \A b \in Asyncs \ {a} : lock'[b] = lock[b]
<1> DEFINE LockType == [owner : Threads \union {None}, depth : Int]
           entered == [owner |-> th, depth |-> lock[a].depth + 1]
           left == [owner |-> lock[a].owner, depth |-> lock[a].depth - 1]
           free == [owner |-> None, depth |-> 0]
<1>1. lock[a] \in LockType
  BY DEF Locks
<1>2. entered \in LockType /\ left \in LockType /\ free \in LockType
  <2>1. lock[a].depth \in Int
    BY <1>1
  <2> QED BY <1>1, <2>1
<1>3. \E l \in {entered, left, free} : lock' = [lock EXCEPT ![a] = l]
  <2>1. CASE Enter(th, a)
    BY <2>1 DEF Enter, Locks
  <2>2. CASE Leave(a)
    <3>1. CASE lock[a].depth = 1
      BY <2>2, <3>1 DEF Leave, Locks
    <3>2. CASE lock[a].depth # 1
      BY <2>2, <3>2 DEF Leave, Locks
    <3> QED BY <3>1, <3>2
  <2> QED BY <2>1, <2>2
<1> HIDE DEF entered, left, free
<1> QED BY <1>2, <1>3 DEF Locks

LEMMA AtTop ==
  ASSUME StreamInv, NEW th \in Threads, NEW op, NEW a, At(th, op, a)
  PROVE  /\ stack[th] # << >>
         /\ Head(stack[th]) \in FrameType
         /\ Head(stack[th]).op = op /\ Head(stack[th]).async = a
BY DEF StreamInv, StreamTypes, Stacks, At

\* What a call must show.
LEMMA CallPreserves ==
  ASSUME StreamInv, NEW th \in Threads, stack[th] # << >>, NEW q \in Seq(FrameType),
         Call(th, q), StreamTyped, UNCHANGED asked, \A a \in Asyncs : LockIsOnTop(a)'
  PROVE  StreamInv'
<1>1. stack' \in Stacks /\ \A t \in Threads \ {th} : stack'[t] = stack[t]
  BY CallShifts DEF StreamInv, StreamTypes
<1>2. CancellersRest'
  <2>1. th \notin Cancellers \ asked
    BY DEF StreamInv, CancellersRest
  <2>2. CancellersRest /\ Cancellers \subseteq Threads
    BY DEF StreamInv, Threads
  <2> QED BY <1>1, <2>1, <2>2 DEF CancellersRest
<1>3. StreamTypes'
  BY <1>1 DEF StreamTypes, StreamTyped
<1> QED BY <1>2, <1>3 DEF StreamInv

MonitorOps == {"recv", "submit", "disconnectex", "unlock"}

\* A call outside all monitors.
LEMMA OutsideCall ==
  ASSUME StreamInv, NEW th \in Threads, NEW op, op \notin MonitorOps, NEW a, At(th, op, a),
         NEW q \in Seq(FrameType), Call(th, q), \A k \in DOMAIN q : q[k].op \notin MonitorOps,
         StreamTyped, UNCHANGED <<lock, asked>>
  PROVE  StreamInv'
<1>1. stack[th] # << >> /\ Head(stack[th]).op = op
  BY AtTop
<1>2. ASSUME NEW b \in Asyncs
      PROVE  LockIsOnTop(b)'
  <2>1. /\ Head(stack[th]) \notin InMonitor(b) /\ lock'[b] = lock[b]
        /\ \A k \in DOMAIN q : q[k] \notin InMonitor(b)
    BY <1>1 DEF InMonitor, MonitorOps
  <2>2. canceled[b] => canceled'[b]
    BY DEF StreamTyped
  <2> QED BY <1>1, <2>1, <2>2, AsideFrom
<1> QED BY <1>1, <1>2, CallPreserves

\* With no frame, one, two or three.
LEMMA OutsideCalls ==
  ASSUME StreamInv, NEW th \in Threads, NEW op, op \notin MonitorOps, NEW a, At(th, op, a),
         StreamTyped, UNCHANGED <<lock, asked>>,
         NEW f \in FrameType, NEW g \in FrameType, NEW h \in FrameType,
         f.op \notin MonitorOps, g.op \notin MonitorOps, h.op \notin MonitorOps,
         \/ Call(th, << >>) \/ Call(th, <<f>>) \/ Call(th, <<f, g>>) \/ Call(th, <<f, g, h>>)
  PROVE  StreamInv'
<1>1. PICK q \in {<< >>, <<f>>, <<f, g>>, <<f, g, h>>} : Call(th, q)
  OBVIOUS
<1>2. q \in Seq(FrameType) /\ \A k \in DOMAIN q : q[k].op \notin MonitorOps
  <2>1. CASE q = << >>
    BY <2>1
  <2>2. CASE q = <<f>>
    BY <2>2
  <2>3. CASE q = <<f, g>>
    BY <2>3
  <2>4. CASE q = <<f, g, h>>
    BY <2>4
  <2> QED BY <2>1, <2>2, <2>3, <2>4
<1> QED BY <1>1, <1>2, OutsideCall

\* xf_async_enter
LEMMA StreamEnter ==
  ASSUME StreamInv, NEW th \in Threads, NEW op, op \notin MonitorOps, NEW a \in Asyncs,
         At(th, op, a), NEW next \in MonitorOps, AsyncEnter(th, a, next),
         UNCHANGED <<canceled, child, asked>>
  PROVE  StreamInv'
<1>1. /\ stack[th] # << >> /\ Head(stack[th]).op = op
      /\ \A b \in Asyncs : Head(stack[th]) \notin InMonitor(b)
  BY AtTop DEF InMonitor, MonitorOps
<1>2. CanEnter(th, a) /\ Enter(th, a)
  BY DEF AsyncEnter
<1>3. StreamTyped /\ \A b \in Asyncs \ {a} : lock'[b] = lock[b]
  BY <1>2 DEF StreamTyped, StreamInv, StreamTypes, Locks, Enter
<1>4. CASE canceled[a]
  <2> DEFINE q == <<Frame("notify", a), Frame("unlock", a)>>
  <2>1. Call(th, q)
    BY <1>4 DEF AsyncEnter
  <2>2. q \in Seq(FrameType) /\ \A k \in DOMAIN q : q[k].async = a
    BY DEF Frame, FrameType, Operations
  <2> HIDE DEF q
  <2>3. ASSUME NEW b \in Asyncs
        PROVE  LockIsOnTop(b)'
    <3>1. ~canceled'[b] => lock'[b] = lock[b] /\ \A k \in DOMAIN q : q[k] \notin InMonitor(b)
      BY <1>3, <1>4, <2>2 DEF InMonitor
    <3> QED BY <1>1, <2>1, <2>2, <3>1, AsideFrom
  <2> QED BY <1>1, <1>3, <2>1, <2>2, <2>3, CallPreserves
<1>5. CASE ~canceled[a]
  <2> DEFINE f == Frame(next, a)
             q == <<f>>
  <2>1. Call(th, <<f>>)
    BY <1>5 DEF AsyncEnter
  <2>2. f \in InMonitor(a) /\ f \in FrameType /\ f.async = a
    BY DEF Frame, FrameType, Operations, MonitorOps, InMonitor
  <2> HIDE DEF f
  <2>3. q \in Seq(FrameType) /\ \A k \in DOMAIN q : q[k].async = a
    BY <2>2
  <2>4. LockIsOnTop(a)'
    BY <1>1, <1>2, <1>5, <2>1, <2>2, EntersMonitor
  <2> HIDE DEF q
  <2>5. ASSUME NEW b \in Asyncs \ {a}
        PROVE  LockIsOnTop(b)'
    <3>1. lock'[b] = lock[b] /\ \A k \in DOMAIN q : q[k] \notin InMonitor(b)
      BY <1>3, <2>3 DEF InMonitor
    <3> QED BY <1>1, <2>1, <2>3, <3>1, AsideFrom DEF q
  <2> QED BY <1>1, <1>3, <2>1, <2>3, <2>4, <2>5, CallPreserves DEF q
<1> QED BY <1>4, <1>5

\* The overlapped call has started, or failed.
LEMMA StreamSubmit ==
  ASSUME StreamInv, NEW th \in Threads, NEW op \in MonitorOps, NEW a \in Asyncs,
         At(th, op, a), Submit(th, a, AsyncLeave(a)), UNCHANGED <<lock, canceled, child, asked>>
  PROVE  StreamInv'
<1>1. stack[th] # << >> /\ Head(stack[th]) \in InMonitor(a) /\ Head(stack[th]).async = a
  BY AtTop DEF InMonitor, MonitorOps
<1>2. StreamTyped
  BY DEF StreamTyped, StreamInv, StreamTypes
<1> DEFINE u == Frame("unlock", a)
           r == Frame("release", a)
           n == Frame("notify", a)
<1>3. PICK q \in {<<u, r>>, <<u, r, n>>} : Call(th, q)
  BY Triples DEF Submit, AsyncLeave
<1>4. /\ u \in FrameType /\ r \in FrameType /\ n \in FrameType
      /\ u.async = a /\ r.async = a /\ n.async = a
      /\ u \in InMonitor(a) /\ r \notin InMonitor(a) /\ n \notin InMonitor(a)
  BY DEF Frame, FrameType, Operations, InMonitor
<1> HIDE DEF u, r, n
<1>5. /\ q \in Seq(FrameType) /\ Len(q) > 0 /\ q[1] \in InMonitor(a)
      /\ \A k \in DOMAIN q \ {1} : q[k] \notin InMonitor(a)
      /\ \A k \in DOMAIN q : q[k].async = a
  <2>1. CASE q = <<u, r>>
    BY <1>4, <2>1
  <2>2. CASE q = <<u, r, n>>
    BY <1>4, <2>2
  <2> QED BY <2>1, <2>2
<1>6. LockIsOnTop(a)'
  BY <1>1, <1>3, <1>5, StaysInMonitor
<1>7. ASSUME NEW b \in Asyncs \ {a}
      PROVE  LockIsOnTop(b)'
  <2>1. Head(stack[th]) \notin InMonitor(b) /\ \A k \in DOMAIN q : q[k] \notin InMonitor(b)
    BY <1>1, <1>5 DEF InMonitor
  <2> QED BY <1>1, <1>3, <1>5, <2>1, AsideFrom
<1> QED BY <1>1, <1>2, <1>3, <1>5, <1>6, <1>7, CallPreserves

\* A monitor is left.
LEMMA StreamUnlock ==
  ASSUME StreamInv, NEW th \in Threads, NEW a \in Asyncs, Unlock(th, a)
  PROVE  StreamInv'
<1>1. /\ At(th, "unlock", a) /\ Leave(a) /\ Call(th, << >>)
      /\ UNCHANGED <<canceled, child, asked>>
  BY DEF Unlock, Return, rest
<1>2. stack[th] # << >> /\ Head(stack[th]) \in InMonitor(a) /\ Head(stack[th]).async = a
  BY <1>1, AtTop DEF InMonitor
<1>3. StreamTyped /\ \A b \in Asyncs \ {a} : lock'[b] = lock[b]
  <2>1. Locks(lock') /\ \A b \in Asyncs \ {a} : lock'[b] = lock[b]
    BY <1>1, OneLockChanges DEF StreamInv, StreamTypes
  <2> QED BY <1>1, <2>1 DEF StreamTyped, StreamInv, StreamTypes
<1>4. LockIsOnTop(a)'
  BY <1>1, <1>2, LeavesMonitor
<1> DEFINE q == << >>
<1>5. q \in Seq(FrameType) /\ DOMAIN q = {} /\ Call(th, q)
  BY <1>1
<1> HIDE DEF q
<1>6. ASSUME NEW b \in Asyncs \ {a}
      PROVE  LockIsOnTop(b)'
  <2>1. Head(stack[th]) \notin InMonitor(b) /\ lock'[b] = lock[b]
    BY <1>2, <1>3 DEF InMonitor
  <2> QED BY <1>1, <1>2, <1>5, <2>1, AsideFrom
<1> QED BY <1>1, <1>2, <1>3, <1>4, <1>5, <1>6, CallPreserves

\* _cancel locks a cancelled operation, if it locks one.
LEMMA StreamCancel ==
  ASSUME StreamInv, NEW th \in Threads, NEW a \in Asyncs, Cancel(th, a)
  PROVE  StreamInv'
<1>1. /\ At(th, "_cancel", a)
      /\ canceled' = [canceled EXCEPT ![a] = TRUE]
      /\ UNCHANGED <<child, asked>>
  BY DEF Cancel
<1>2. /\ stack[th] # << >> /\ \A b \in Asyncs : Head(stack[th]) \notin InMonitor(b)
  BY <1>1, AtTop DEF InMonitor
<1>3. PICK f \in FrameType, g \in FrameType : 
        /\ \E q \in {<< >>, <<f>>, <<f, g>>} : Call(th, q)
        /\ f.op \notin MonitorOps /\ g.async = a
        /\ lock' = lock \/ Enter(th, a)
  <2> DEFINE n == Frame("notify", a)
             u == Frame("unlock", a)
             c == Frame("cancel", child[a])
  <2>1. n \in FrameType /\ n.op \notin MonitorOps /\ u \in FrameType /\ u.async = a
    BY DEF Frame, FrameType, Operations, MonitorOps
  <2>2. CASE CancelChild(th, a)
    <3>1. Call(th, <<c, u>>) /\ Enter(th, a) /\ child[a] # None
      BY <2>2 DEF CancelChild
    <3>2. c \in FrameType /\ c.op \notin MonitorOps
      BY <3>1 DEF StreamInv, StreamTypes, Frame, FrameType, Operations, MonitorOps
    <3> HIDE DEF c, u
    <3> QED BY <2>1, <3>1, <3>2
  <2>3. CASE CancelCall(th, a)
    <3>1. Call(th, << >>) /\ lock' = lock
      BY <2>3 DEF CancelCall, Return
    <3> HIDE DEF n, u
    <3> QED BY <2>1, <3>1
  <2>4. CASE CancelDirectly(th, a)
    <3>1. Call(th, <<n>>) /\ lock' = lock
      BY <2>4 DEF CancelDirectly
    <3> HIDE DEF n, u
    <3> QED BY <2>1, <3>1
  <2> QED BY <2>2, <2>3, <2>4 DEF Cancel
<1>4. PICK q \in {<< >>, <<f>>, <<f, g>>} : Call(th, q)
  BY <1>3
<1>5. StreamTyped /\ \A b \in Asyncs \ {a} : lock'[b] = lock[b]
  <2>1. Locks(lock') /\ \A b \in Asyncs \ {a} : lock'[b] = lock[b]
    BY <1>3, OneLockChanges DEF StreamInv, StreamTypes
  <2> QED BY <1>1, <2>1 DEF StreamTyped, StreamInv, StreamTypes
<1>6. q \in Seq(FrameType) /\ \A k \in DOMAIN q : q[k].op \notin MonitorOps \/ q[k].async = a
  <2>1. CASE q = << >>
    BY <2>1
  <2>2. CASE q = <<f>>
    BY <1>3, <2>2
  <2>3. CASE q = <<f, g>>
    BY <1>3, <2>3
  <2> QED BY <2>1, <2>2, <2>3
<1>7. ASSUME NEW b \in Asyncs
      PROVE  LockIsOnTop(b)'
  <2>1. canceled[b] => canceled'[b]
    BY <1>5 DEF StreamTyped
  <2>2. ~canceled'[b] => b # a
    BY <1>1 DEF StreamInv, StreamTypes
  <2>3. ~canceled'[b] => lock'[b] = lock[b] /\ \A k \in DOMAIN q : q[k] \notin InMonitor(b)
    BY <1>5, <1>6, <2>2 DEF InMonitor, MonitorOps
  <2> QED BY <1>2, <1>4, <1>6, <2>1, <2>3, AsideFrom
<1> QED BY <1>1, <1>2, <1>4, <1>5, <1>6, <1>7, CallPreserves

-----------------------------------------------------------------------------
(* The steps outside all monitors *)

LEMMA StreamFrames ==
  ASSUME NEW op \in Operations \ MonitorOps, NEW a \in Asyncs
  PROVE  /\ Frame(op, a) \in FrameType /\ Frame(op, a).op \notin MonitorOps
         /\ Success(op, a) \in FrameType /\ Success(op, a).op \notin MonitorOps
         /\ \A th : Head(stack[th]) \in FrameType =>
              Carry(th, op, a) \in FrameType /\ Carry(th, op, a).op \notin MonitorOps
BY DEF Frame, Success, Carry, FrameType

\* Frames that a step outside pushes.
Harmless == {f \in FrameType : f.op \notin MonitorOps}

\* A step that calls them, with no effect on locks and cancellations.
LEMMA HarmlessCalls ==
  ASSUME StreamInv, NEW th \in Threads, NEW op, op \notin MonitorOps, NEW a \in Asyncs,
         At(th, op, a),
         \/ Call(th, << >>)
         \/ \E f \in Harmless : Call(th, <<f>>)
         \/ \E f, g \in Harmless : Call(th, <<f, g>>)
         \/ \E f, g, h \in Harmless : Call(th, <<f, g, h>>),
         child' \in [Asyncs -> Asyncs \union {None}], UNCHANGED <<lock, canceled, asked>>
  PROVE  StreamInv'
<1>1. StreamTyped
  BY DEF StreamTyped, StreamInv, StreamTypes
<1>2. PICK x \in Harmless : TRUE
  BY StreamFrames DEF Harmless, Operations, MonitorOps
<1>3. \E f, g, h \in Harmless :
        Call(th, << >>) \/ Call(th, <<f>>) \/ Call(th, <<f, g>>) \/ Call(th, <<f, g, h>>)
  BY <1>2
<1> QED BY <1>1, <1>3, OutsideCalls DEF Harmless

LEMMA HarmlessFrames ==
  ASSUME NEW op \in Operations \ MonitorOps, NEW a \in Asyncs
  PROVE  /\ Frame(op, a) \in Harmless /\ Success(op, a) \in Harmless
         /\ \A th : Head(stack[th]) \in FrameType => Carry(th, op, a) \in Harmless
BY StreamFrames DEF Harmless

\* Creation and release.
LEMMA StreamLife ==
  ASSUME StreamInv, NEW th \in Threads, NEW a \in Asyncs,
         New(th, a) \/ AddTimerRef(th, a) \/ Schedule(th, a) \/ Release(th, a) \/ Destroy(th, a)
  PROVE  StreamInv'
<1>1. child \in [Asyncs -> Asyncs \union {None}]
  BY DEF StreamInv, StreamTypes
<1>2. /\ Frame("add_timer_ref", a) \in Harmless /\ Frame("schedule", a) \in Harmless
      /\ Frame("destroy", a) \in Harmless
  BY HarmlessFrames DEF Operations, MonitorOps
<1>3. PICK op \in {"new", "add_timer_ref", "schedule", "release", "destroy"} : At(th, op, a)
  BY DEF New, AddTimerRef, Schedule, Release, Destroy
<1>4. Call(th, << >>) \/ \E f \in Harmless : Call(th, <<f>>)
  BY <1>2 DEF New, AddTimerRef, Schedule, Release, Destroy, Return
<1>5. child' \in [Asyncs -> Asyncs \union {None}]
  BY <1>1 DEF New, AddTimerRef, Schedule, Release, Destroy
<1>6. UNCHANGED <<lock, canceled, asked>>
  BY DEF New, AddTimerRef, Schedule, Release, Destroy, rest
<1>7. op \notin MonitorOps
  BY <1>3 DEF MonitorOps
<1> QED BY <1>3, <1>4, <1>5, <1>6, <1>7, HarmlessCalls

\* Completion and cancellation.
LEMMA StreamNotify ==
  ASSUME StreamInv, NEW th \in Threads, NEW a \in Asyncs,
         Notify(th, a) \/ AsyncNotify(th, a) \/ Callback(th, a) \/ AsyncCancel(th, a)
  PROVE  StreamInv'
<1>1. PICK op \in {"notify", "async_notify", "callback", "cancel"} : At(th, op, a)
  BY DEF Notify, AsyncNotify, Callback, CallbackThen, AsyncCancel
<1>2. Head(stack[th]) \in FrameType
  BY <1>1, AtTop
<1> DEFINE r == Frame("release", a)
           c == Frame("_cancel", a)
           n == Carry(th, "async_notify", a)
           b == Carry(th, "callback", a)
<1>3. r \in Harmless /\ c \in Harmless /\ n \in Harmless /\ b \in Harmless
  BY <1>2, HarmlessFrames DEF Operations, MonitorOps
<1>4. \/ Call(th, << >>)
      \/ \E f \in Harmless : Call(th, <<f>>)
      \/ \E f, g \in Harmless : Call(th, <<f, g>>)
  <2>1. CASE Notify(th, a)
    <3>1. Call(th, IF timer[a] = "armed" THEN <<r>> \o <<n>> ELSE <<n>>)
      BY <2>1 DEF Notify, CancelTimerThen
    <3> HIDE DEF r, n, b, c
    <3>2. Call(th, <<r, n>>) \/ Call(th, <<n>>)
      BY <3>1, Tuples
    <3> QED BY <1>3, <3>2
  <2>2. CASE AsyncCancel(th, a)
    <3>1. Call(th, IF timer[a] = "armed" THEN <<r>> \o <<c>> ELSE <<c>>)
      BY <2>2 DEF AsyncCancel, CancelTimerThen
    <3> HIDE DEF r, n, b, c
    <3>2. Call(th, <<r, c>>) \/ Call(th, <<c>>)
      BY <3>1, Tuples
    <3> QED BY <1>3, <3>2
  <2>3. CASE AsyncNotify(th, a)
    <3>1. Call(th, << >>) \/ Call(th, <<b, r>>)
      BY <2>3 DEF AsyncNotify
    <3> HIDE DEF r, n, b, c
    <3> QED BY <1>3, <3>1
  <2>4. CASE Callback(th, a)
    BY <2>4 DEF Callback, CallbackThen
  <2> QED BY <2>1, <2>2, <2>3, <2>4
<1>5. UNCHANGED <<lock, canceled, child, asked>>
  BY DEF Notify, AsyncNotify, Callback, CallbackThen, AsyncCancel, rest, operation
<1>6. child' \in [Asyncs -> Asyncs \union {None}] /\ op \notin MonitorOps
  BY <1>1, <1>5 DEF StreamInv, StreamTypes, MonitorOps
<1> QED BY <1>1, <1>4, <1>5, <1>6, HarmlessCalls

\* What prepares a call, or makes one that needs no lock.
LEMMA StreamPrepares ==
  ASSUME StreamInv, Ops \subseteq {"ssl_receive", "ssl_send"}, NEW th \in Threads, NEW a \in Asyncs,
         Start(th, a) \/ Send(th, a) \/ Accept(th, a) \/ AcceptEx(th, a)
  PROVE  StreamInv'
<1>1. PICK op \in {"start", "send", "accept", "acceptex"} : At(th, op, a)
  BY DEF Start, Send, Accept, AcceptEx
<1> DEFINE n == Frame("notify", a)
           s == Frame("send_enter", a)
           e == Frame("acceptex", a)
<1>2. n \in Harmless /\ s \in Harmless /\ e \in Harmless
  BY HarmlessFrames DEF Operations, MonitorOps
<1>3. \A o \in Ops : Frame(o, a) \in Harmless
  BY HarmlessFrames DEF Operations, MonitorOps
<1>4. Call(th, << >>) \/ \E f \in Harmless : Call(th, <<f>>)
  <2>1. CASE Start(th, a)
    BY <1>3, <2>1 DEF Start
  <2>2. CASE Send(th, a)
    BY <1>2, <2>2 DEF Send
  <2>3. CASE Accept(th, a)
    BY <1>2, <2>3 DEF Accept
  <2>4. CASE AcceptEx(th, a)
    <3>1. Call(th, << >>) \/ Call(th, << >> \o <<n>>)
      BY <2>4 DEF AcceptEx, Submit
    <3>2. << >> \o <<n>> = <<n>>
      OBVIOUS
    <3> HIDE DEF n
    <3> QED BY <1>2, <3>1, <3>2
  <2> QED BY <2>1, <2>2, <2>3, <2>4
<1>5. UNCHANGED <<lock, canceled, child, asked>>
  BY DEF Start, Send, Accept, AcceptEx, rest, operation
<1>6. child' \in [Asyncs -> Asyncs \union {None}] /\ op \notin MonitorOps
  BY <1>1, <1>5 DEF StreamInv, StreamTypes, MonitorOps
<1> QED BY <1>1, <1>4, <1>5, <1>6, HarmlessCalls

\* What is called with the lock, or asks for it.
LEMMA StreamCalls ==
  ASSUME StreamInv, NEW th \in Threads, NEW a \in Asyncs,
         \/ Receive(th, a) \/ SendEnter(th, a) \/ Disconnect(th, a)
         \/ Recv(th, a) \/ SubmitSend(th, a) \/ DisconnectEx(th, a)
  PROVE  StreamInv'
<1>1. CASE Receive(th, a)
  <2>1. /\ At(th, "receive", a) /\ AsyncEnter(th, a, "recv")
        /\ UNCHANGED <<canceled, child, asked>>
    BY <1>1 DEF Receive, rest
  <2>2. "receive" \notin MonitorOps /\ "recv" \in MonitorOps
    BY DEF MonitorOps
  <2> QED BY <2>1, <2>2, StreamEnter
<1>2. CASE SendEnter(th, a)
  <2>1. /\ At(th, "send_enter", a) /\ AsyncEnter(th, a, "submit")
        /\ UNCHANGED <<canceled, child, asked>>
    BY <1>2 DEF SendEnter, rest
  <2>2. "send_enter" \notin MonitorOps /\ "submit" \in MonitorOps
    BY DEF MonitorOps
  <2> QED BY <2>1, <2>2, StreamEnter
<1>3. CASE Disconnect(th, a)
  <2>1. /\ At(th, "disconnect", a)
        /\ \/ AsyncEnter(th, a, "disconnectex")
           \/ Call(th, <<Frame("notify", a)>>) /\ UNCHANGED lock
        /\ UNCHANGED <<canceled, child, asked>>
    BY <1>3 DEF Disconnect, rest
  <2>2. "disconnect" \notin MonitorOps /\ "disconnectex" \in MonitorOps
    BY DEF MonitorOps
  <2>3. CASE AsyncEnter(th, a, "disconnectex")
    BY <2>1, <2>2, <2>3, StreamEnter
  <2>4. CASE Call(th, <<Frame("notify", a)>>) /\ UNCHANGED lock
    <3>1. Frame("notify", a) \in Harmless
      BY HarmlessFrames DEF Operations, MonitorOps
    <3>2. child' \in [Asyncs -> Asyncs \union {None}]
      BY <2>1 DEF StreamInv, StreamTypes
    <3> QED BY <2>1, <2>2, <2>4, <3>1, <3>2, HarmlessCalls
  <2> QED BY <2>1, <2>3, <2>4
<1>4. CASE Recv(th, a)
  <2>1. /\ At(th, "recv", a) /\ Submit(th, a, AsyncLeave(a))
        /\ UNCHANGED <<lock, canceled, child, asked>> /\ "recv" \in MonitorOps
    BY <1>4 DEF Recv, rest, MonitorOps
  <2> QED BY <2>1, StreamSubmit
<1>5. CASE SubmitSend(th, a)
  <2>1. /\ At(th, "submit", a) /\ Submit(th, a, AsyncLeave(a))
        /\ UNCHANGED <<lock, canceled, child, asked>> /\ "submit" \in MonitorOps
    BY <1>5 DEF SubmitSend, rest, operation, MonitorOps
  <2> QED BY <2>1, StreamSubmit
<1>6. CASE DisconnectEx(th, a)
  <2>1. /\ At(th, "disconnectex", a) /\ Submit(th, a, AsyncLeave(a))
        /\ UNCHANGED <<lock, canceled, child, asked>> /\ "disconnectex" \in MonitorOps
    BY <1>6 DEF DisconnectEx, rest, MonitorOps
  <2> QED BY <2>1, StreamSubmit
<1> QED BY <1>1, <1>2, <1>3, <1>4, <1>5, <1>6

\* A child is started.
LEMMA ChildStarts ==
  ASSUME Unborn # {}, NEW op \in Operations \ MonitorOps
  PROVE  \E f, g \in Harmless : StartChild(op) = <<f, g>>
<1> DEFINE c == CHOOSE new \in Unborn : TRUE
           f == Frame("new", c)
           g == Frame(op, c)
<1>1. c \in Asyncs
  <2>1. c \in Unborn
    OBVIOUS
  <2> QED BY <2>1 DEF Unborn, Asyncs
<1>2. StartChild(op) = <<f, g>>
  BY DEF StartChild
<1> HIDE DEF c
<1>3. f \in Harmless /\ g \in Harmless
  BY <1>1, HarmlessFrames DEF Operations, MonitorOps
<1> QED BY <1>2, <1>3

\* The calls and callbacks of SslStream.
LEMMA StreamOwnSteps ==
  ASSUME StreamInv, NEW th \in Threads,
         SslReceive(th) \/ SslSend(th) \/ \E c \in Children : ChildCallback(th, c)
  PROVE  StreamInv'
<1>1. PICK a \in Asyncs, op \in {"ssl_receive", "ssl_send", "callback"} : At(th, op, a)
  BY DEF SslReceive, SslSend, ChildCallback, ChildFails, Received, Sent, CallbackThen, Asyncs
<1> DEFINE n == Frame("notify", Root)
           y == Success("notify", Root)
<1>2. n \in Harmless /\ y \in Harmless
  BY HarmlessFrames DEF Operations, MonitorOps, Asyncs
<1>3. /\ Unborn # {} => \E f, g \in Harmless : StartChild("receive") = <<f, g>>
      /\ Unborn # {} => \E f, g \in Harmless : StartChild("send") = <<f, g>>
  BY ChildStarts DEF Operations, MonitorOps
<1>4. \/ Call(th, << >>)
      \/ \E f \in Harmless : Call(th, <<f>>)
      \/ \E f, g \in Harmless : Call(th, <<f, g>>)
  <2>1. CASE SslReceive(th) \/ SslSend(th)
    BY <1>2, <1>3, <2>1 DEF SslReceive, SslSend
  <2>2. ASSUME NEW c \in Children, ChildCallback(th, c)
        PROVE  \/ \E f \in Harmless : Call(th, <<f>>)
               \/ \E f, g \in Harmless : Call(th, <<f, g>>)
    BY <1>2, <1>3, <2>2 DEF ChildCallback, ChildFails, Received, Sent, CallbackThen
  <2> QED BY <2>1, <2>2
<1>5. UNCHANGED <<lock, canceled, child, asked>>
  BY DEF SslReceive, SslSend, ChildCallback, ChildFails, Received, Sent, CallbackThen,
         StreamUnchanged, rest, operation
<1>6. child' \in [Asyncs -> Asyncs \union {None}] /\ op \notin MonitorOps
  BY <1>1, <1>5 DEF StreamInv, StreamTypes, MonitorOps
<1> QED BY <1>1, <1>4, <1>5, <1>6, HarmlessCalls

-----------------------------------------------------------------------------
(* Threads that begin, and the specification *)

\* A thread that had nothing to do begins.
LEMMA StreamBegins ==
  ASSUME StreamInv, NEW th \in Threads, stack[th] = << >>, NEW q \in Seq(FrameType),
         \A k \in DOMAIN q : q[k] \in Harmless, stack' = [stack EXCEPT ![th] = q],
         asked \subseteq asked', th \notin Cancellers \ asked',
         UNCHANGED <<lock, canceled, child>>
  PROVE  StreamInv'
<1>1. /\ stack \in Stacks /\ stack' \in Stacks /\ stack'[th] = q
      /\ \A t \in Threads \ {th} : stack'[t] = stack[t]
  BY DEF StreamInv, StreamTypes, Stacks
<1>2. StreamTypes'
  BY <1>1 DEF StreamInv, StreamTypes, Locks
<1>3. CancellersRest'
  <2>1. Cancellers \subseteq Threads
    BY DEF Threads
  <2> QED BY <1>1, <2>1 DEF StreamInv, CancellersRest
<1>4. ASSUME NEW a \in Asyncs, ~canceled[a]
      PROVE  LockIsOnTop(a)'
  <2>1. LockIsOnTop(a)
    BY DEF StreamInv
  <2>2. \A k \in DOMAIN stack'[th] : stack'[th][k] \notin InMonitor(a)
    BY <1>1 DEF Harmless, InMonitor, MonitorOps
  <2>3. \A t \in Threads : \A k \in DOMAIN stack'[t] :
          stack'[t][k] \in InMonitor(a) => k = 1 /\ lock[a].owner = t
    BY <1>1, <1>4, <2>1, <2>2 DEF LockIsOnTop
  <2>4. lock[a].owner # None => lock[a].owner # th /\ lock[a].owner \in Threads
    BY <1>4, <2>1 DEF LockIsOnTop, StreamInv, StreamTypes, Locks
  <2>5. lock[a].owner # None => stack'[lock[a].owner] = stack[lock[a].owner]
    BY <1>1, <2>4
  <2> QED BY <1>4, <2>1, <2>3, <2>5 DEF LockIsOnTop
<1>5. \A a \in Asyncs : LockIsOnTop(a)'
  BY <1>4 DEF LockIsOnTop
<1> QED BY <1>2, <1>3, <1>5 DEF StreamInv

LEMMA StreamBeginnings ==
  ASSUME StreamInv,
         \/ \E th \in Workers : \E a \in Asyncs : Dequeue(th, a)
         \/ \E a \in Asyncs : TimeoutFires(a)
         \/ \E th \in Cancellers : Ask(th)
  PROVE  StreamInv'
<1>1. ASSUME NEW th \in Workers, NEW a \in Asyncs, Dequeue(th, a)
      PROVE  StreamInv'
  <2>1. th \in Threads /\ th \notin Cancellers
    BY AsyncAssumption DEF Threads
  <2>2. PICK f \in Harmless : stack' = [stack EXCEPT ![th] = <<f>>]
    <3>1. Frame("notify", a) \in Harmless /\ Success("notify", a) \in Harmless
      BY HarmlessFrames DEF Operations, MonitorOps
    <3> QED BY <1>1, <3>1 DEF Dequeue
  <2>3. <<f>> \in Seq(FrameType) /\ \A k \in DOMAIN <<f>> : <<f>>[k] \in Harmless
    BY DEF Harmless
  <2>4. stack[th] = << >> /\ UNCHANGED <<lock, canceled, child, asked>>
    BY <1>1 DEF Dequeue, operation, rest
  <2> QED BY <2>1, <2>2, <2>3, <2>4, StreamBegins
<1>2. ASSUME NEW a \in Asyncs, TimeoutFires(a)
      PROVE  StreamInv'
  <2>1. Poller \in Threads /\ Poller \notin Cancellers
    BY AsyncAssumption DEF Threads
  <2> DEFINE f == Frame("_cancel", a)
             g == Frame("release", a)
  <2>2. f \in Harmless /\ g \in Harmless
    BY HarmlessFrames DEF Operations, MonitorOps
  <2>3. /\ stack[Poller] = << >> /\ stack' = [stack EXCEPT ![Poller] = <<f, g>>]
        /\ UNCHANGED <<lock, canceled, child, asked>>
    BY <1>2 DEF TimeoutFires, rest
  <2> HIDE DEF f, g
  <2>4. <<f, g>> \in Seq(FrameType) /\ \A k \in DOMAIN <<f, g>> : <<f, g>>[k] \in Harmless
    BY <2>2 DEF Harmless
  <2> QED BY <2>1, <2>3, <2>4, StreamBegins
<1>3. ASSUME NEW th \in Cancellers, Ask(th)
      PROVE  StreamInv'
  <2>1. th \in Threads /\ Root \in Asyncs
    BY DEF Threads, Asyncs
  <2> DEFINE f == Frame("cancel", Root)
  <2>2. f \in Harmless
    BY <2>1, HarmlessFrames DEF Operations, MonitorOps
  <2>3. /\ stack' = [stack EXCEPT ![th] = <<f>>] /\ th \notin asked /\ asked' = asked \union {th}
        /\ UNCHANGED <<lock, canceled, child>>
    BY <1>3 DEF Ask, operation
  <2>4. stack[th] = << >>
    BY <2>3 DEF StreamInv, CancellersRest
  <2> HIDE DEF f
  <2>5. <<f>> \in Seq(FrameType) /\ \A k \in DOMAIN <<f>> : <<f>>[k] \in Harmless
    BY <2>2 DEF Harmless
  <2> QED BY <2>1, <2>3, <2>4, <2>5, StreamBegins
<1> QED BY <1>1, <1>2, <1>3

LEMMA StreamNextPreserves ==
  ASSUME StreamInv, Ops \subseteq {"ssl_receive", "ssl_send"}, [StreamNext]_vars
  PROVE  StreamInv'
<1>1. ASSUME UNCHANGED <<stack, lock, canceled, child, asked>>
      PROVE  StreamInv'
  BY <1>1 DEF StreamInv, StreamTypes, Locks, CancellersRest, LockIsOnTop
<1>2. ASSUME NEW th \in Threads, NEW a \in Asyncs, Execute(th, a)
      PROVE  StreamInv'
  BY <1>2, StreamLife, StreamNotify, StreamPrepares, StreamCalls, StreamUnlock, StreamCancel
     DEF Execute
<1>3. ASSUME NEW th \in Threads, StreamStep(th)
      PROVE  StreamInv'
  <2>1. CASE UseAfterFree(th)
    BY <1>1, <2>1 DEF UseAfterFree, operation
  <2> QED BY <1>2, <1>3, <2>1, StreamOwnSteps DEF StreamStep, Step
<1>4. ASSUME NEW a \in Asyncs, IoEnds(a)
      PROVE  StreamInv'
  BY <1>1, <1>4 DEF IoEnds, operation, rest
<1>5. CASE UNCHANGED vars
  BY <1>1, <1>5 DEF vars, operation
<1> QED BY <1>3, <1>4, <1>5, StreamBeginnings DEF StreamNext

LEMMA StreamBeginsWell ==
  ASSUME Init
  PROVE  StreamInv
<1> DEFINE f == Frame("new", Root)
           g == Frame("start", Root)
<1>1. f \in Harmless /\ g \in Harmless
  BY HarmlessFrames DEF Operations, MonitorOps, Asyncs
<1>2. stack = [th \in Threads |-> IF th = Issuer THEN <<f, g>> ELSE << >>]
  BY DEF Init
<1> HIDE DEF f, g
<1>3. <<f, g>> \in Seq(FrameType) /\ \A k \in DOMAIN <<f, g>> : <<f, g>>[k] \in Harmless
  BY <1>1 DEF Harmless
<1>4. stack \in Stacks /\ \A th \in Threads : \A k \in DOMAIN stack[th] : stack[th][k] \in Harmless
  <2>1. << >> \in Seq(FrameType) /\ DOMAIN << >> = {}
    OBVIOUS
  <2> QED BY <1>2, <1>3, <2>1 DEF Stacks
<1>5. StreamTypes
  BY <1>4 DEF StreamTypes, Locks, Init, NoneYet
<1>6. CancellersRest
  <2>1. Issuer \notin Cancellers /\ Cancellers \subseteq Threads
    BY AsyncAssumption DEF Threads
  <2> QED BY <1>2, <2>1 DEF CancellersRest
<1>7. \A a \in Asyncs : LockIsOnTop(a)
  <2>1. \A a \in Asyncs : lock[a].owner = None /\ lock[a].depth = 0
    BY DEF Init, NoneYet
  <2> QED BY <1>4, <2>1 DEF LockIsOnTop, Harmless, InMonitor, MonitorOps
<1> QED BY <1>5, <1>6, <1>7 DEF StreamInv

\* Two threads can wait for each other's lock, of a stream and of its child,
\* only if the child is cancelled: completions and timeouts never close the cycle.
THEOREM StreamsLockInOrder ==
  ASSUME Ops \subseteq {"ssl_receive", "ssl_send"}
  PROVE  StreamSafeSpec => []LockCycleOnlyInEnter
<1>1. Init => StreamInv
  BY StreamBeginsWell
<1>2. StreamInv /\ [StreamNext]_vars => StreamInv'
  BY StreamNextPreserves
<1>3. StreamInv => LockCycleOnlyInEnter
  <2> SUFFICES ASSUME StreamInv, NEW th \in Threads, NEW owner \in Threads, NEW c \in Children,
                      WaitsFor(th, Root, owner), lock[c].owner = th, ~canceled[c]
               PROVE  FALSE
    BY DEF LockCycleOnlyInEnter
  <2>1. c \in Asyncs /\ c # Root /\ th # None
    BY AsyncAssumption DEF Asyncs
  <2>2. Head(stack[th]) \in InMonitor(c)
    BY <2>1 DEF StreamInv, LockIsOnTop
  <2>3. Head(stack[th]).async = Root
    BY DEF WaitsFor
  <2> QED BY <2>1, <2>2, <2>3 DEF InMonitor
<1> QED BY <1>1, <1>2, <1>3, PTL DEF StreamSafeSpec

-----------------------------------------------------------------------------
(* The operations of a stream, one by one *)

\* The frames that a stream has.
StreamFrame(f) ==
  \/ /\ f.async \in {Root} \union Children
     /\ f.op \in {"new", "add_timer_ref", "schedule", "notify", "async_notify", "callback",
                  "cancel", "_cancel", "release", "destroy", "unlock"}
  \/ f.async = Root /\ f.op \in {"start", "ssl_receive", "ssl_send"}
  \/ f.async \in Children /\ f.op \in {"receive", "send", "send_enter", "recv", "submit"}

\* A thread that calls back owns the reference that it releases after that.
WellFormed(s) ==
  \A k \in DOMAIN s :
    /\ StreamFrame(s[k])
    /\ s[k].op = "callback" =>
         k < Len(s) /\ s[k + 1].op = "release" /\ s[k + 1].async = s[k].async

LifeTypes ==
  /\ Finite(stack)
  /\ life \in [Asyncs -> {"none", "live", "freed"}]
  /\ ref \in [Asyncs -> Int]
  /\ called \in [Asyncs -> BOOLEAN]
  /\ handle \in [Asyncs -> BOOLEAN]
  /\ timer \in [Asyncs -> {"idle", "armed", "gone"}]
  /\ io \in [Asyncs -> {"none", "pending", "queued", "done"}]
  /\ completed \in [Asyncs -> Int]

\* Frames that wait for an operation to be created.
Waiting == {"receive", "send", "start"}

Later == Operations \ ({"new"} \union Waiting)

Timing == {"add_timer_ref", "schedule"}

\* Before it is created nothing has happened to an operation.
NothingBefore(a) ==
  life[a] = "none" =>
    /\ ~called[a] /\ ~canceled[a] /\ timer[a] = "idle" /\ io[a] = "none" /\ child[Root] # a
    /\ Frames(Later, a) = 0
    /\ Frames(Waiting, a) <= Frames({"new"}, a)

BornOnce(a) == Frames({"new"}, a) + One(life[a] # "none") <= 1

TimedOnce(a) == Frames(Timing, a) + One(timer[a] # "idle") <= 1

RefExact(a) ==
  life[a] = "live" =>
    ref[a] = One(~called[a]) + One(timer[a] = "armed") + Frames(Holding, a)

CallsBack(a) == Frames({"callback"}, a) + completed[a] = One(called[a])

FreedLast(a) ==
  Frames({"destroy"}, a) > 0 \/ life[a] = "freed" => called[a] /\ Frames({"callback"}, a) = 0

LifeInv(a) ==
  /\ NothingBefore(a) /\ BornOnce(a) /\ TimedOnce(a)
  /\ RefExact(a) /\ CallsBack(a) /\ FreedLast(a)

\* The call of a child is in one hand, and so is the report that it has ended,
\* until a cancellation reports by itself.
Carrying == {"receive", "send", "send_enter", "recv", "submit", "notify", "async_notify"}

EndsByItself(c) ==
  ~canceled[c] =>
    Frames(Carrying, c) + One(io[c] \in {"pending", "queued"}) + One(called[c]) <= 1

\* A pending call can be aborted, and was not.
AbortsCall(c) ==
  /\ io[c] = "pending" => ~canceled[c] /\ handle[c]
  /\ Frames({"send_enter", "submit"}, c) > 0 => handle[c] \/ canceled[c]
  /\ Frames({"recv", "submit"}, c) > 0 => ~canceled[c]

\* The user's operation is created first.
BornInside(c) == life[c] # "none" \/ Frames({"new"}, c) > 0 => life[Root] # "none"

ChildInv(c) == EndsByItself(c) /\ AbortsCall(c) /\ BornInside(c)

\* The callback of c has not run yet.
Owing(c) == Frames({"new", "callback"}, c) + One(life[c] # "none" /\ ~called[c])

Opens == {"start", "ssl_receive", "ssl_send"}

Reports == {"notify", "async_notify", "callback"}

\* One child after another, and then Root is reported, unless it is cancelled.
OneAfterAnother ==
  /\ Frames(Opens, Root) <= 1
  /\ \A c \in Children : Owing(c) + Frames(Opens, Root) <= 1
  /\ \A c, d \in Children : c # d /\ Owing(c) > 0 => Owing(d) = 0
  /\ ~canceled[Root] /\ (Frames(Reports, Root) > 0 \/ completed[Root] > 0) =>
       Frames(Opens, Root) = 0 /\ \A c \in Children : Owing(c) = 0

Linked == \A a \in Asyncs : child[a] # None => a = Root /\ child[a] \in Children

\* Only children make calls, and the other operations are none of the stream's.
CallsAreNested ==
  /\ \A a \in Asyncs \ Children : io[a] = "none"
  /\ \A a \in Others : life[a] = "none"

WorkInv ==
  /\ StreamInv /\ LifeTypes /\ Linked /\ CallsAreNested
  /\ \A th \in Threads : WellFormed(stack[th])
  /\ \A a \in Asyncs : LifeInv(a)
  /\ \A c \in Children : ChildInv(c)
  /\ OneAfterAnother

-----------------------------------------------------------------------------
(* What a step does to the frames *)

\* One frame of a, whose operation is o, becomes others, whose operations are x,
\* y and z.  "-" stands for none.
Moves(a, o, x, y, z) ==
  /\ stack' \in Stacks /\ Finite(stack')
  /\ \A ops : "-" \notin ops =>
       Frames(ops, a)' = Frames(ops, a) - One(o \in ops)
                           + One(x \in ops) + One(y \in ops) + One(z \in ops)
  /\ \A b \in Asyncs \ {a} : \A ops : Frames(ops, b)' = Frames(ops, b)

LEMMA AtWork ==
  ASSUME WorkInv, NEW th \in Threads, NEW o, NEW a, At(th, o, a)
  PROVE  /\ stack \in Stacks /\ Finite(stack) /\ stack[th] # << >> /\ stale = {}
         /\ Head(stack[th]) \in FrameType /\ StreamFrame(Head(stack[th]))
         /\ Head(stack[th]).op = o /\ Head(stack[th]).async = a
         /\ a \in {Root} \union Children /\ a \in Asyncs
         /\ \A ops, b : Frames(ops, b) \in Nat
         /\ \A ops : o \in ops => Frames(ops, a) >= 1
<1>1. stack \in Stacks /\ Finite(stack)
  BY DEF WorkInv, StreamInv, StreamTypes, LifeTypes
<1>2. /\ stack[th] # << >> /\ stale = {}
      /\ Head(stack[th]).op = o /\ Head(stack[th]).async = a
  BY DEF At
<1>3. /\ stack[th] \in Seq(FrameType) /\ Head(stack[th]) \in FrameType
      /\ Head(stack[th]) = stack[th][1] /\ 1 \in DOMAIN stack[th]
  BY <1>1, <1>2 DEF Stacks
<1>4. StreamFrame(Head(stack[th]))
  BY <1>3 DEF WorkInv, WellFormed
<1>5. a \in {Root} \union Children /\ a \in Asyncs
  BY <1>2, <1>4 DEF StreamFrame, Asyncs
<1>6. \A ops, b : Frames(ops, b) \in Nat
  BY <1>1, FramesType
<1>7. \A ops : o \in ops => Frames(ops, a) # 0
  BY <1>1, <1>2, <1>3, NoFrames DEF IsOf
<1> QED BY <1>1, <1>2, <1>3, <1>4, <1>5, <1>6, <1>7

LEMMA Moves0 ==
  ASSUME WorkInv, NEW th \in Threads, NEW o, NEW a, At(th, o, a), Call(th, << >>)
  PROVE  Moves(a, o, "-", "-", "-")
<1>1. /\ stack \in Stacks /\ Finite(stack) /\ stack[th] # << >>
      /\ Head(stack[th]).op = o /\ Head(stack[th]).async = a /\ \A ops, b : Frames(ops, b) \in Nat
  BY AtWork
<1> DEFINE h == Head(stack[th])
<1>2. /\ stack' \in Stacks /\ Finite(stack')
      /\ \A ops, b : Frames(ops, b)' = Frames(ops, b) - One(IsOf(h, ops, b))
  BY <1>1, Calls0
<1>3. h.op = o /\ h.async = a
  BY <1>1
<1> HIDE DEF h
<1>4. \A ops, b : One(IsOf(h, ops, b)) = IF b = a THEN One(o \in ops) ELSE 0
  BY <1>3 DEF IsOf, One
<1>5. \A ops : "-" \notin ops => One("-" \in ops) = 0
  BY DEF One
<1>6. \A ops : One(o \in ops) \in Nat
  BY DEF One
<1> QED BY <1>1, <1>2, <1>4, <1>5, <1>6 DEF Moves

LEMMA Moves1 ==
  ASSUME WorkInv, NEW th \in Threads, NEW o, NEW a, At(th, o, a),
         NEW f \in FrameType, f.async = a, Call(th, <<f>>)
  PROVE  Moves(a, o, f.op, "-", "-")
<1>1. /\ stack \in Stacks /\ Finite(stack) /\ stack[th] # << >>
      /\ Head(stack[th]).op = o /\ Head(stack[th]).async = a /\ \A ops, b : Frames(ops, b) \in Nat
  BY AtWork
<1> DEFINE h == Head(stack[th])
<1>2. /\ stack' \in Stacks /\ Finite(stack')
      /\ \A ops, b : Frames(ops, b)' = Frames(ops, b) - One(IsOf(h, ops, b)) + One(IsOf(f, ops, b))
  BY <1>1, Calls1
<1>3. h.op = o /\ h.async = a
  BY <1>1
<1> HIDE DEF h
<1>4. \A ops, b : /\ One(IsOf(h, ops, b)) = IF b = a THEN One(o \in ops) ELSE 0
                  /\ One(IsOf(f, ops, b)) = IF b = a THEN One(f.op \in ops) ELSE 0
  BY <1>3 DEF IsOf, One
<1>5. \A ops : "-" \notin ops => One("-" \in ops) = 0
  BY DEF One
<1>6. \A ops : One(f.op \in ops) \in Nat /\ One(o \in ops) \in Nat
  BY DEF One
<1> QED BY <1>1, <1>2, <1>4, <1>5, <1>6 DEF Moves

LEMMA Moves2 ==
  ASSUME WorkInv, NEW th \in Threads, NEW o, NEW a, At(th, o, a),
         NEW f \in FrameType, f.async = a, NEW g \in FrameType, g.async = a, Call(th, <<f, g>>)
  PROVE  Moves(a, o, f.op, g.op, "-")
<1>1. /\ stack \in Stacks /\ Finite(stack) /\ stack[th] # << >>
      /\ Head(stack[th]).op = o /\ Head(stack[th]).async = a /\ \A ops, b : Frames(ops, b) \in Nat
  BY AtWork
<1> DEFINE h == Head(stack[th])
<1>2. /\ stack' \in Stacks /\ Finite(stack')
      /\ \A ops, b : Frames(ops, b)' = Frames(ops, b) - One(IsOf(h, ops, b))
                                         + One(IsOf(g, ops, b)) + One(IsOf(f, ops, b))
  BY <1>1, Calls2
<1>3. h.op = o /\ h.async = a
  BY <1>1
<1> HIDE DEF h
<1>4. \A ops, b : /\ One(IsOf(h, ops, b)) = IF b = a THEN One(o \in ops) ELSE 0
                  /\ One(IsOf(f, ops, b)) = IF b = a THEN One(f.op \in ops) ELSE 0
                  /\ One(IsOf(g, ops, b)) = IF b = a THEN One(g.op \in ops) ELSE 0
  BY <1>3 DEF IsOf, One
<1>5. \A ops : "-" \notin ops => One("-" \in ops) = 0
  BY DEF One
<1>6. \A ops : One(f.op \in ops) \in Nat /\ One(g.op \in ops) \in Nat /\ One(o \in ops) \in Nat
  BY DEF One
<1> QED BY <1>1, <1>2, <1>4, <1>5, <1>6 DEF Moves

LEMMA Moves3 ==
  ASSUME WorkInv, NEW th \in Threads, NEW o, NEW a, At(th, o, a),
         NEW f \in FrameType, f.async = a, NEW g \in FrameType, g.async = a,
         NEW i \in FrameType, i.async = a, Call(th, <<f, g, i>>)
  PROVE  Moves(a, o, f.op, g.op, i.op)
<1>1. /\ stack \in Stacks /\ Finite(stack) /\ stack[th] # << >>
      /\ Head(stack[th]).op = o /\ Head(stack[th]).async = a /\ \A ops, b : Frames(ops, b) \in Nat
  BY AtWork
<1> DEFINE h == Head(stack[th])
<1>2. /\ stack' \in Stacks /\ Finite(stack')
      /\ \A ops, b : Frames(ops, b)' = Frames(ops, b) - One(IsOf(h, ops, b))
                      + One(IsOf(i, ops, b)) + One(IsOf(g, ops, b)) + One(IsOf(f, ops, b))
  BY <1>1, Calls3
<1>3. h.op = o /\ h.async = a
  BY <1>1
<1> HIDE DEF h
<1>4. \A ops, b : /\ One(IsOf(h, ops, b)) = IF b = a THEN One(o \in ops) ELSE 0
                  /\ One(IsOf(f, ops, b)) = IF b = a THEN One(f.op \in ops) ELSE 0
                  /\ One(IsOf(g, ops, b)) = IF b = a THEN One(g.op \in ops) ELSE 0
                  /\ One(IsOf(i, ops, b)) = IF b = a THEN One(i.op \in ops) ELSE 0
  BY <1>3 DEF IsOf, One
<1>5. \A ops : /\ One(f.op \in ops) \in Nat /\ One(g.op \in ops) \in Nat
               /\ One(i.op \in ops) \in Nat /\ One(o \in ops) \in Nat
  BY DEF One
<1> QED BY <1>1, <1>2, <1>4, <1>5 DEF Moves

\* Stacks stay well formed if what is called is.
LEMMA StaysWellFormed ==
  ASSUME WorkInv, NEW th \in Threads, stack[th] # << >>, NEW q \in Seq(FrameType),
         Call(th, q), WellFormed(q)
  PROVE  \A t \in Threads : WellFormed(stack'[t])
<1>1. stack \in Stacks /\ \A t \in Threads : WellFormed(stack[t])
  BY DEF WorkInv, StreamInv, StreamTypes
<1>2. /\ stack[th] \in Seq(FrameType) /\ stack'[th] = q \o Tail(stack[th])
      /\ \A t \in Threads \ {th} : stack'[t] = stack[t]
  BY <1>1 DEF Call, Stacks
<1> DEFINE s == stack[th]
           n == stack'[th]
<1>3. /\ Len(n) = Len(q) + Len(s) - 1 /\ Len(q) \in Nat /\ Len(s) \in Nat /\ Len(s) >= 1
      /\ DOMAIN n = 1..Len(n) /\ DOMAIN q = 1..Len(q) /\ DOMAIN s = 1..Len(s)
      /\ \A k \in 1..Len(q) : n[k] = q[k]
      /\ \A k \in Len(q) + 1..Len(n) : n[k] = s[k - Len(q) + 1]
  BY <1>2
<1>4. WellFormed(s)
  BY <1>1
<1> HIDE DEF s, n
<1>5. ASSUME NEW k \in DOMAIN n
      PROVE  /\ StreamFrame(n[k])
             /\ n[k].op = "callback" =>
                  k < Len(n) /\ n[k + 1].op = "release" /\ n[k + 1].async = n[k].async
  <2>1. CASE k <= Len(q)
    <3>1. k \in DOMAIN q /\ n[k] = q[k]
      BY <1>3, <2>1
    <3>2. StreamFrame(q[k])
      BY <3>1 DEF WellFormed
    <3>3. ASSUME q[k].op = "callback"
          PROVE  k < Len(n) /\ n[k + 1].op = "release" /\ n[k + 1].async = n[k].async
      <4>1. k < Len(q) /\ q[k + 1].op = "release" /\ q[k + 1].async = q[k].async
        BY <3>1, <3>3 DEF WellFormed
      <4>2. k + 1 \in 1..Len(q) /\ k < Len(n)
        BY <1>3, <3>1, <4>1
      <4> QED BY <1>3, <3>1, <4>1, <4>2
    <3> QED BY <3>1, <3>2, <3>3
  <2>2. CASE ~(k <= Len(q))
    <3> DEFINE i == k - Len(q) + 1
    <3>1. i \in DOMAIN s /\ n[k] = s[i] /\ k \in Nat
      BY <1>3, <2>2
    <3>2. StreamFrame(s[i])
      BY <1>4, <3>1 DEF WellFormed
    <3>3. ASSUME s[i].op = "callback"
          PROVE  k < Len(n) /\ n[k + 1].op = "release" /\ n[k + 1].async = n[k].async
      <4>1. i < Len(s) /\ s[i + 1].op = "release" /\ s[i + 1].async = s[i].async
        BY <1>4, <3>1, <3>3 DEF WellFormed
      <4>2. k + 1 \in Len(q) + 1..Len(n) /\ k < Len(n) /\ (k + 1) - Len(q) + 1 = i + 1
        BY <1>3, <2>2, <3>1, <4>1
      <4>3. n[k + 1] = s[i + 1]
        BY <1>3, <4>2
      <4> QED BY <3>1, <4>1, <4>2, <4>3
    <3> QED BY <3>1, <3>2, <3>3
  <2> QED BY <2>1, <2>2
<1>6. WellFormed(n)
  BY <1>5 DEF WellFormed
<1> QED BY <1>1, <1>2, <1>6 DEF n

\* Nothing happens to an operation.
Untouched(b) ==
  /\ life'[b] = life[b] /\ ref'[b] = ref[b] /\ called'[b] = called[b]
  /\ timer'[b] = timer[b] /\ io'[b] = io[b] /\ handle'[b] = handle[b]
  /\ canceled'[b] = canceled[b] /\ completed'[b] = completed[b]
  /\ child'[Root] = b => child[Root] = b \/ life[b] # "none"

LEMMA UntouchedKeeps ==
  ASSUME NEW b, LifeInv(b), Untouched(b), \A ops : Frames(ops, b)' = Frames(ops, b)
  PROVE  LifeInv(b)'
<1>1. NothingBefore(b)'
  BY DEF LifeInv, NothingBefore, Untouched
<1>2. BornOnce(b)'
  BY DEF LifeInv, BornOnce, Untouched
<1>3. TimedOnce(b)'
  BY DEF LifeInv, TimedOnce, Untouched
<1>4. RefExact(b)'
  BY DEF LifeInv, RefExact, Untouched
<1>5. CallsBack(b)'
  BY DEF LifeInv, CallsBack, Untouched
<1>6. FreedLast(b)'
  BY DEF LifeInv, FreedLast, Untouched
<1> QED BY <1>1, <1>2, <1>3, <1>4, <1>5, <1>6 DEF LifeInv

\* The user's operation stays created.
RootStays == life[Root] # "none" => life'[Root] # "none"

LEMMA UntouchedChild ==
  ASSUME NEW b, ChildInv(b), Untouched(b), RootStays, \A ops : Frames(ops, b)' = Frames(ops, b)
  PROVE  ChildInv(b)' /\ Owing(b)' = Owing(b)
<1>1. EndsByItself(b)'
  BY DEF ChildInv, EndsByItself, Untouched
<1>2. AbortsCall(b)'
  BY DEF ChildInv, AbortsCall, Untouched
<1>3. BornInside(b)'
  BY DEF ChildInv, BornInside, Untouched, RootStays
<1>4. Owing(b)' = Owing(b)
  BY DEF Owing, Untouched
<1> QED BY <1>1, <1>2, <1>3, <1>4 DEF ChildInv

\* What each step shows of the operation a that it is about.
LifeTyped ==
  /\ life' \in [Asyncs -> {"none", "live", "freed"}]
  /\ ref' \in [Asyncs -> Int]
  /\ called' \in [Asyncs -> BOOLEAN]
  /\ handle' \in [Asyncs -> BOOLEAN]
  /\ timer' \in [Asyncs -> {"idle", "armed", "gone"}]
  /\ io' \in [Asyncs -> {"none", "pending", "queued", "done"}]
  /\ completed' \in [Asyncs -> Int]

\* The order of the children is kept by a step that starts none.
LEMMA OrderKept ==
  ASSUME WorkInv, \A c \in Children : Owing(c)' \in Nat /\ Owing(c)' <= Owing(c),
         Frames(Opens, Root)' \in Nat, Frames(Opens, Root)' <= Frames(Opens, Root),
         ~canceled'[Root] =>
           /\ ~canceled[Root]
           /\ Frames(Reports, Root)' > 0 \/ completed'[Root] > 0 =>
                Frames(Reports, Root) > 0 \/ completed[Root] > 0
  PROVE  OneAfterAnother'
<1>1. OneAfterAnother /\ Frames(Opens, Root) \in Nat /\ \A c \in Children : Owing(c) \in Nat
  <2>1. \A ops, b : Frames(ops, b) \in Nat
    BY FramesType DEF WorkInv, StreamInv, StreamTypes, LifeTypes
  <2> QED BY <2>1 DEF WorkInv, Owing, One
<1>2. \A c \in Children : Owing(c)' + Frames(Opens, Root)' <= 1
  BY <1>1 DEF OneAfterAnother
<1>3. \A c, d \in Children : c # d /\ Owing(c)' > 0 => Owing(d)' = 0
  BY <1>1 DEF OneAfterAnother
<1>4. ~canceled'[Root] /\ (Frames(Reports, Root)' > 0 \/ completed'[Root] > 0) =>
        Frames(Opens, Root)' = 0 /\ \A c \in Children : Owing(c)' = 0
  BY <1>1 DEF OneAfterAnother
<1> HIDE DEF Owing
<1>5. Frames(Opens, Root)' <= 1
  BY <1>1 DEF OneAfterAnother
<1> QED BY <1>2, <1>3, <1>4, <1>5 DEF OneAfterAnother

\* A step about some operations.
LEMMA SomeSteps ==
  ASSUME WorkInv, StreamInv', NEW T \in SUBSET Asyncs,
         stack' \in Stacks, Finite(stack'), \A th \in Threads : WellFormed(stack'[th]),
         \A b \in Asyncs \ T : Untouched(b) /\ \A ops : Frames(ops, b)' = Frames(ops, b),
         LifeTyped, Linked', CallsAreNested', RootStays,
         \A a \in T : LifeInv(a)' /\ (a \in Children => ChildInv(a)'), OneAfterAnother'
  PROVE  WorkInv'
<1>1. LifeTypes'
  BY DEF LifeTypes, LifeTyped
<1>2. ASSUME NEW b \in Asyncs
      PROVE  LifeInv(b)'
  <2>1. CASE b \in T
    BY <2>1
  <2>2. CASE b \notin T
    <3>1. LifeInv(b) /\ Untouched(b) /\ \A ops : Frames(ops, b)' = Frames(ops, b)
      BY <2>2 DEF WorkInv
    <3> QED BY <3>1, UntouchedKeeps
  <2> QED BY <2>1, <2>2
<1>3. ASSUME NEW c \in Children
      PROVE  ChildInv(c)'
  <2>1. CASE c \in T
    BY <2>1
  <2>2. CASE c \notin T
    <3>1. ChildInv(c) /\ Untouched(c) /\ \A ops : Frames(ops, c)' = Frames(ops, c)
      BY <2>2 DEF WorkInv, Asyncs
    <3> QED BY <3>1, UntouchedChild
  <2> QED BY <2>1, <2>2
<1> QED BY <1>1, <1>2, <1>3 DEF WorkInv

\* A step about a leaves everything else as it is ...
OthersKept(a) ==
  /\ LifeTyped /\ Linked' /\ CallsAreNested' /\ RootStays
  /\ \A b \in Asyncs \ {a} : Untouched(b)

\* ... and what it must show of a, if a is a child, and if a is the user's operation.
ChildKept(a) == a \in Children => ChildInv(a)' /\ Owing(a)' <= Owing(a)

RootKept(a) ==
  a = Root =>
    /\ Frames(Opens, a)' <= Frames(Opens, a)
    /\ ~canceled'[a] =>
         /\ ~canceled[a]
         /\ Frames(Reports, a)' > 0 \/ completed'[a] > 0 =>
              Frames(Reports, a) > 0 \/ completed[a] > 0

\* A step about one operation.
LEMMA OneSteps ==
  ASSUME WorkInv, StreamInv', NEW a \in Asyncs, NEW o, NEW x, NEW y, NEW z, Moves(a, o, x, y, z),
         \A th \in Threads : WellFormed(stack'[th]), OthersKept(a), LifeInv(a)', ChildKept(a),
         RootKept(a)
  PROVE  WorkInv'
<1>1. /\ Finite(stack') /\ stack' \in Stacks
      /\ \A b \in Asyncs \ {a} : Untouched(b) /\ \A ops : Frames(ops, b)' = Frames(ops, b)
  BY DEF Moves, OthersKept
<1>2. /\ \A ops, b : Frames(ops, b)' \in Nat
      /\ \A ops, b : Frames(ops, b) \in Nat
  <2>1. \A ops, b : Frames(ops, b)' \in Nat
    BY <1>1, SlotsFinite DEF Frames
  <2> QED BY <2>1, FramesType DEF WorkInv, StreamInv, StreamTypes, LifeTypes
<1>3. ASSUME NEW c \in Children
      PROVE  Owing(c)' \in Nat /\ Owing(c)' <= Owing(c)
  <2>1. Owing(c)' \in Nat /\ Owing(c) \in Nat
    BY <1>2 DEF Owing, One
  <2>2. CASE c = a
    <3> HIDE DEF Owing
    <3> QED BY <2>1, <2>2 DEF ChildKept
  <2>3. CASE c # a
    <3>1. /\ ChildInv(c) /\ Untouched(c) /\ RootStays
          /\ \A ops : Frames(ops, c)' = Frames(ops, c)
      BY <1>1, <2>3 DEF WorkInv, Asyncs, OthersKept
    <3>2. Owing(c)' = Owing(c)
      BY <3>1, UntouchedChild
    <3> HIDE DEF Owing
    <3> QED BY <2>1, <3>2
  <2> QED BY <2>2, <2>3
<1>4. /\ Frames(Opens, Root)' <= Frames(Opens, Root)
      /\ ~canceled'[Root] =>
           /\ ~canceled[Root]
           /\ Frames(Reports, Root)' > 0 \/ completed'[Root] > 0 =>
                Frames(Reports, Root) > 0 \/ completed[Root] > 0
  <2>1. CASE a = Root
    BY <2>1 DEF RootKept
  <2>2. CASE a # Root
    <3>1. /\ Root \in Asyncs \ {a} /\ Untouched(Root)
          /\ \A ops : Frames(ops, Root)' = Frames(ops, Root)
      BY <1>1, <2>2 DEF Asyncs
    <3> QED BY <1>2, <3>1 DEF Untouched
  <2> QED BY <2>1, <2>2
<1>5. OneAfterAnother'
  <2> HIDE DEF Owing
  <2> QED BY <1>2, <1>3, <1>4, OrderKept
<1> DEFINE T == {a}
<1>6. /\ T \in SUBSET Asyncs
      /\ \A b \in T : LifeInv(b)' /\ (b \in Children => ChildInv(b)')
      /\ \A b \in Asyncs \ T : Untouched(b) /\ \A ops : Frames(ops, b)' = Frames(ops, b)
  BY <1>1 DEF ChildKept
<1> HIDE DEF T
<1> QED BY <1>1, <1>5, <1>6, SomeSteps DEF OthersKept

-----------------------------------------------------------------------------
(* The steps of one thread *)

\* A frame of a stream's operation a that executes op.
Does(f, op, a) == f \in FrameType /\ f.op = op /\ f.async = a /\ StreamFrame(f)

\* What the invariant says of one operation.
Working(a) ==
  /\ LifeInv(a) /\ Linked /\ CallsAreNested /\ LifeTypes /\ canceled \in [Asyncs -> BOOLEAN]
  /\ a \in Children => ChildInv(a)
  /\ \A ops, b : Frames(ops, b) \in Nat

\* A step in which a frame of a that executes o becomes frames that execute
\* x, y and z.
Worked(a, o, x, y, z) ==
  /\ Moves(a, o, x, y, z) /\ \A t \in Threads : WellFormed(stack'[t])
  /\ Working(a)

LEMMA Works ==
  ASSUME WorkInv, NEW a \in Asyncs
  PROVE  Working(a)
BY FramesType DEF WorkInv, Working, StreamInv, StreamTypes, LifeTypes

LEMMA WellFormedNone == WellFormed(<< >>)
BY DEF WellFormed

LEMMA WellFormedOne ==
  ASSUME NEW f, StreamFrame(f), f.op # "callback"
  PROVE  WellFormed(<<f>>)
BY DEF WellFormed

LEMMA WellFormedTwo ==
  ASSUME NEW f, NEW g, StreamFrame(f), StreamFrame(g), g.op # "callback",
         f.op = "callback" => g.op = "release" /\ g.async = f.async
  PROVE  WellFormed(<<f, g>>)
<1> DEFINE s == <<f, g>>
<1>1. s[1] = f /\ s[2] = g /\ Len(s) = 2 /\ DOMAIN s = {1, 2}
  OBVIOUS
<1> HIDE DEF s
<1>2. WellFormed(s)
  BY <1>1 DEF WellFormed
<1> QED BY <1>2 DEF s

\* It returns.
LEMMA Work0 ==
  ASSUME WorkInv, NEW th \in Threads, NEW o, NEW a, At(th, o, a), Call(th, << >>)
  PROVE  Worked(a, o, "-", "-", "-") /\ \A ops : o \in ops => Frames(ops, a) >= 1
<1>1. Moves(a, o, "-", "-", "-")
  BY Moves0
<1>2. stack[th] # << >> /\ a \in Asyncs /\ \A ops : o \in ops => Frames(ops, a) >= 1
  BY AtWork
<1> DEFINE q == << >>
<1>3. q \in Seq(FrameType) /\ WellFormed(q) /\ Call(th, q)
  BY WellFormedNone
<1> HIDE DEF q
<1>4. \A t \in Threads : WellFormed(stack'[t])
  BY <1>2, <1>3, StaysWellFormed
<1> QED BY <1>1, <1>2, <1>4, Works DEF Worked

\* It goes on with x.
LEMMA Work1 ==
  ASSUME WorkInv, NEW th \in Threads, NEW o, NEW a, At(th, o, a),
         NEW x, x # "callback", NEW f, Does(f, x, a), Call(th, <<f>>)
  PROVE  Worked(a, o, x, "-", "-") /\ \A ops : o \in ops => Frames(ops, a) >= 1
<1>1. Moves(a, o, x, "-", "-")
  BY Moves1 DEF Does
<1>2. stack[th] # << >> /\ a \in Asyncs /\ \A ops : o \in ops => Frames(ops, a) >= 1
  BY AtWork
<1> DEFINE q == <<f>>
<1>3. q \in Seq(FrameType) /\ WellFormed(q) /\ Call(th, q)
  BY WellFormedOne DEF Does
<1> HIDE DEF q
<1>4. \A t \in Threads : WellFormed(stack'[t])
  BY <1>2, <1>3, StaysWellFormed
<1> QED BY <1>1, <1>2, <1>4, Works DEF Worked

\* With x and then y.
LEMMA Work2 ==
  ASSUME WorkInv, NEW th \in Threads, NEW o, NEW a, At(th, o, a),
         NEW x, NEW f, Does(f, x, a), NEW y, NEW g, Does(g, y, a), Call(th, <<f, g>>),
         y # "callback", x = "callback" => y = "release"
  PROVE  Worked(a, o, x, y, "-") /\ \A ops : o \in ops => Frames(ops, a) >= 1
<1>1. Moves(a, o, x, y, "-")
  BY Moves2 DEF Does
<1>2. stack[th] # << >> /\ a \in Asyncs /\ \A ops : o \in ops => Frames(ops, a) >= 1
  BY AtWork
<1>3. WellFormed(<<f, g>>)
  BY WellFormedTwo DEF Does
<1> DEFINE q == <<f, g>>
<1>4. q \in Seq(FrameType) /\ WellFormed(q) /\ Call(th, q)
  BY <1>3 DEF Does
<1> HIDE DEF q
<1>5. \A t \in Threads : WellFormed(stack'[t])
  BY <1>2, <1>4, StaysWellFormed
<1> QED BY <1>1, <1>2, <1>5, Works DEF Worked

\* With x, y and z, as a call that fails.
LEMMA Work3 ==
  ASSUME WorkInv, NEW th \in Threads, NEW o, NEW a, At(th, o, a),
         NEW x, NEW f, Does(f, x, a), NEW y, NEW g, Does(g, y, a), NEW z, NEW h, Does(h, z, a),
         Call(th, <<f, g, h>>), x # "callback", y # "callback", z # "callback"
  PROVE  Worked(a, o, x, y, z) /\ \A ops : o \in ops => Frames(ops, a) >= 1
<1>1. Moves(a, o, x, y, z)
  BY Moves3 DEF Does
<1>2. stack[th] # << >> /\ a \in Asyncs /\ \A ops : o \in ops => Frames(ops, a) >= 1
  BY AtWork
<1> DEFINE q == <<f, g, h>>
<1>3. /\ q[1] = f /\ q[2] = g /\ q[3] = h /\ DOMAIN q = {1, 2, 3}
      /\ q \in Seq(FrameType) /\ Call(th, q)
  BY DEF Does
<1> HIDE DEF q
<1>4. WellFormed(q)
  BY <1>3 DEF WellFormed, Does
<1>5. \A t \in Threads : WellFormed(stack'[t])
  BY <1>2, <1>3, <1>4, StaysWellFormed
<1> QED BY <1>1, <1>2, <1>5, Works DEF Worked

\* A thread that had nothing to do begins with x.
LEMMA Work1Begins ==
  ASSUME WorkInv, NEW th \in Threads, stack[th] = << >>, NEW a \in Asyncs,
         NEW x, x # "callback", NEW f, Does(f, x, a), stack' = [stack EXCEPT ![th] = <<f>>]
  PROVE  Worked(a, "-", x, "-", "-")
<1>1. stack \in Stacks /\ Finite(stack) /\ f \in FrameType /\ \A ops, b : Frames(ops, b) \in Nat
  BY FramesType DEF WorkInv, StreamInv, StreamTypes, LifeTypes, Does
<1>2. /\ stack' \in Stacks /\ Finite(stack')
      /\ \A ops, b : Frames(ops, b)' = Frames(ops, b) + One(IsOf(f, ops, b))
  BY <1>1, Begins1
<1>3. \A ops, b : One(IsOf(f, ops, b)) = IF b = a THEN One(x \in ops) ELSE 0
  BY DEF IsOf, One, Does
<1>4. \A ops : "-" \notin ops => One("-" \in ops) = 0
  BY DEF One
<1>5. \A ops : One(x \in ops) \in Nat
  BY DEF One
<1>6. Moves(a, "-", x, "-", "-")
  BY <1>1, <1>2, <1>3, <1>4, <1>5 DEF Moves
<1>7. WellFormed(<<f>>)
  BY WellFormedOne DEF Does
<1>8. \A t \in Threads : WellFormed(stack'[t])
  BY <1>1, <1>7 DEF WorkInv, Stacks
<1> QED BY <1>6, <1>8, Works DEF Worked

\* With x and y.
LEMMA Work2Begins ==
  ASSUME WorkInv, NEW th \in Threads, stack[th] = << >>, NEW a \in Asyncs,
         NEW x, x # "callback", NEW f, Does(f, x, a), NEW y, y # "callback", NEW g, Does(g, y, a),
         stack' = [stack EXCEPT ![th] = <<f, g>>]
  PROVE  Worked(a, "-", x, y, "-")
<1>1. /\ stack \in Stacks /\ Finite(stack) /\ f \in FrameType /\ g \in FrameType
      /\ \A ops, b : Frames(ops, b) \in Nat
  BY FramesType DEF WorkInv, StreamInv, StreamTypes, LifeTypes, Does
<1>2. /\ stack' \in Stacks /\ Finite(stack')
      /\ \A ops, b : Frames(ops, b)' = Frames(ops, b) + One(IsOf(g, ops, b)) + One(IsOf(f, ops, b))
  BY <1>1, Begins2
<1>3. \A ops, b : /\ One(IsOf(f, ops, b)) = IF b = a THEN One(x \in ops) ELSE 0
                  /\ One(IsOf(g, ops, b)) = IF b = a THEN One(y \in ops) ELSE 0
  BY DEF IsOf, One, Does
<1>4. \A ops : "-" \notin ops => One("-" \in ops) = 0
  BY DEF One
<1>5. \A ops : One(x \in ops) \in Nat /\ One(y \in ops) \in Nat
  BY DEF One
<1>6. Moves(a, "-", x, y, "-")
  BY <1>1, <1>2, <1>3, <1>4, <1>5 DEF Moves
<1>7. WellFormed(<<f, g>>)
  BY WellFormedTwo DEF Does
<1>8. \A t \in Threads : WellFormed(stack'[t])
  BY <1>1, <1>7 DEF WorkInv, Stacks
<1> QED BY <1>6, <1>8, Works DEF Worked

\* Fewer kinds of frames, fewer frames.
LEMMA FewerFrames ==
  ASSUME WorkInv, NEW A, NEW B, A \subseteq B, NEW a
  PROVE  Frames(A, a) <= Frames(B, a) /\ Frames(A, a) \in Nat
<1>1. stack \in Stacks /\ Finite(stack)
  BY DEF WorkInv, StreamInv, StreamTypes, LifeTypes
<1>2. IsFiniteSet(Slots(stack, B, a)) /\ Slots(stack, A, a) \subseteq Slots(stack, B, a)
  <2>1. Kind(A, a) \subseteq Kind(B, a)
    BY DEF Kind, IsOf
  <2>2. Spots(stack, Kind(A, a)) \subseteq Spots(stack, Kind(B, a))
    BY <2>1 DEF Spots
  <2> QED BY <1>1, <2>2, SlotsFinite, SlotsAreSpots
<1> QED BY <1>1, <1>2, FS_Subset, SlotsFinite DEF Frames

\* Frames of the operations of a stream.
LEMMA DoesOp ==
  ASSUME NEW a \in {Root} \union Children,
         NEW op \in {"new", "add_timer_ref", "schedule", "notify", "async_notify", "callback",
                     "cancel", "_cancel", "release", "destroy", "unlock"}
  PROVE  /\ Does(Frame(op, a), op, a) /\ Does(Success(op, a), op, a)
         /\ \A th \in Threads : Head(stack[th]) \in FrameType => Does(Carry(th, op, a), op, a)
<1>1. op \in Operations /\ a \in Asyncs
  BY DEF Operations, Asyncs
<1>2. \A f : f.op = op /\ f.async = a => StreamFrame(f)
  BY DEF StreamFrame
<1>3. \A f \in FrameType : f.op = op /\ f.async = a => Does(f, op, a)
  BY <1>2 DEF Does
<1> QED BY <1>1, <1>3, NewFrames, CarriedFrames

LEMMA DoesCall ==
  ASSUME NEW c \in Children, NEW op \in {"receive", "send", "send_enter", "recv", "submit"}
  PROVE  Does(Frame(op, c), op, c)
<1>1. op \in Operations /\ c \in Asyncs
  BY DEF Operations, Asyncs
<1>2. \A f : f.op = op /\ f.async = c => StreamFrame(f)
  BY DEF StreamFrame
<1> QED BY <1>1, <1>2, NewFrames DEF Does

\* A frame is executed on an operation that is there.
LEMMA Lives ==
  ASSUME WorkInv, NEW th \in Threads, NEW op, NEW a, At(th, op, a), op # "new", op \notin Outside
  PROVE  life[a] = "live" /\ a \in {Root} \union Children
<1>1. Head(stack[th]).op = op /\ Head(stack[th]).async = a /\ a \in {Root} \union Children
  BY AtWork
<1>2. a \in Uses(Head(stack[th]))
  <2>1. CASE op = "destroy"
    <3>1. Uses(Head(stack[th])) = {a, Parent(a)} \ {None} /\ a # None
      BY <1>1, <2>1, AsyncAssumption DEF Uses, Outside, Asyncs
    <3> QED BY <3>1
  <2>2. CASE op # "destroy"
    BY <1>1, <2>2 DEF Uses
  <2> QED BY <2>1, <2>2
<1> QED BY <1>1, <1>2 DEF At

\* A thread that calls back holds a reference, besides those that others give up.
LEMMA CallerHolds ==
  ASSUME WorkInv, NEW th \in Threads, NEW a, At(th, "release", a), Frames({"callback"}, a) # 0
  PROVE  Frames(Holding, a) >= 2
<1>1. /\ stack \in Stacks /\ Finite(stack) /\ stack[th] # << >>
      /\ Head(stack[th]).op = "release" /\ Head(stack[th]).async = a
  BY AtWork
<1>2. PICK t \in Threads : \E k \in DOMAIN stack[t] : IsOf(stack[t][k], {"callback"}, a)
  BY <1>1, NoFrames
<1> PICK k \in DOMAIN stack[t] : IsOf(stack[t][k], {"callback"}, a)
  BY <1>2
<1>3. k < Len(stack[t]) /\ stack[t][k + 1].op = "release" /\ stack[t][k + 1].async = a
  BY <1>2 DEF WorkInv, WellFormed, IsOf
<1>4. /\ stack[th] \in Seq(FrameType) /\ stack[t] \in Seq(FrameType)
      /\ Len(stack[th]) \in Nat /\ Len(stack[th]) >= 1 /\ stack[th][1] = Head(stack[th])
      /\ Len(stack[t]) \in Nat /\ k \in Nat /\ k >= 1
  BY <1>1, <1>2 DEF Stacks
<1> DEFINE x == <<th, Len(stack[th])>>
           y == <<t, Len(stack[t]) - k>>
           S == Slots(stack, Holding, a)
<1>5. x \in S
  <2>1. Len(stack[th]) \in 1..Len(stack[th]) /\ Len(stack[th]) + 1 - Len(stack[th]) = 1
    BY <1>4
  <2>2. IsOf(stack[th][1], Holding, a)
    BY <1>1, <1>4 DEF IsOf, Holding
  <2> QED BY <1>1, <2>1, <2>2, InSlots
<1>6. y \in S
  <2>1. Len(stack[t]) - k \in 1..Len(stack[t]) /\ Len(stack[t]) + 1 - (Len(stack[t]) - k) = k + 1
    BY <1>3, <1>4
  <2>2. IsOf(stack[t][k + 1], Holding, a)
    BY <1>3 DEF IsOf, Holding
  <2> QED BY <1>1, <2>1, <2>2, InSlots
<1>7. x # y
  <2>1. Len(stack[t]) - k # Len(stack[t])
    BY <1>4
  <2> QED BY <2>1
<1>8. IsFiniteSet(S) /\ Frames(Holding, a) = Cardinality(S)
  BY <1>1, SlotsFinite DEF Frames
<1> HIDE DEF x, y, S
<1>9. IsFiniteSet({x}) /\ Cardinality({x}) = 1
  BY FS_Singleton
<1>10. Cardinality({x} \union {y}) = 2
  <2>1. y \notin {x}
    BY <1>7
  <2>2. Cardinality({x} \union {y}) = Cardinality({x}) + 1
    BY <1>9, <2>1, FS_AddElement
  <2> QED BY <1>9, <2>2
<1>11. {x} \union {y} \in SUBSET S
  BY <1>5, <1>6
<1>12. Cardinality({x} \union {y}) <= Cardinality(S)
  BY <1>8, <1>11, FS_Subset
<1> QED BY <1>8, <1>10, <1>12, FS_CardinalityType

-----------------------------------------------------------------------------
(* The steps of one thread about one operation *)

LEMMA AddTimerRefKeepsWork ==
  ASSUME WorkInv, StreamInv', NEW th \in Threads, NEW a \in Asyncs,
         AddTimerRef(th, a)
  PROVE  WorkInv'
<1>1. /\ At(th, "add_timer_ref", a) /\ Call(th, <<Frame("schedule", a)>>)
      /\ ref' = [ref EXCEPT ![a] = @ + 1]
      /\ UNCHANGED <<life, called, handle, timer, io, canceled, completed, child>>
  BY DEF AddTimerRef, request, rest, history
<1>2. life[a] = "live" /\ a \in {Root} \union Children
  BY <1>1, Lives DEF Outside
<1>3. /\ Worked(a, "add_timer_ref", "schedule", "-", "-")
      /\ \A ops : "add_timer_ref" \in ops => Frames(ops, a) >= 1
  <2>1. Does(Frame("schedule", a), "schedule", a)
    BY <1>2, DoesOp, DoesCall
  <2> QED BY <1>1, <2>1, Work1
<1>4. /\ life'[a] = life[a] /\ ref'[a] = ref[a] + 1 /\ called'[a] = called[a] /\ handle'[a] = handle[a]
      /\ timer'[a] = timer[a] /\ io'[a] = io[a]
      /\ canceled'[a] = canceled[a] /\ completed'[a] = completed[a]
      /\ ref[a] \in Int /\ completed[a] \in Int
  BY <1>1, <1>3 DEF Worked, Working, LifeTypes
<1>5. OthersKept(a)
  <2>1. LifeTyped
    BY <1>1, <1>3 DEF Worked, Working, LifeTyped, LifeTypes
  <2>2. Linked' /\ CallsAreNested'
    BY <1>1, <1>2, <1>3 DEF Worked, Working, LifeTypes, Linked, CallsAreNested
  <2>3. \A b \in Asyncs \ {a} : Untouched(b)
    BY <1>1, <1>3 DEF Worked, Working, LifeTypes, Untouched
  <2>4. RootStays
    BY <1>1, <1>3 DEF Worked, Working, LifeTypes, RootStays
  <2> QED BY <2>1, <2>2, <2>3, <2>4 DEF OthersKept
<1>6. LifeInv(a)'
  <2>1. NothingBefore(a)'
    BY <1>2, <1>4 DEF NothingBefore
  <2>2. BornOnce(a)'
    BY <1>2, <1>3, <1>4 DEF Worked, Working, LifeInv, BornOnce, Moves, One
  <2>3. TimedOnce(a)'
    BY <1>2, <1>3, <1>4 DEF Worked, Working, LifeInv, TimedOnce, Timing, Moves, One
  <2>4. RefExact(a)'
    <3>1. Frames(Holding, a)' = Frames(Holding, a) + 1 /\ Frames(Holding, a) \in Nat
      BY <1>3 DEF Worked, Working, Moves, Holding, One
    <3>2. RefExact(a)
      BY <1>3 DEF Worked, Working, LifeInv
    <3> QED BY <1>2, <1>3, <1>4, <3>1, <3>2 DEF RefExact, One
  <2>5. CallsBack(a)'
    BY <1>2, <1>3, <1>4 DEF Worked, Working, LifeInv, CallsBack, Moves, One
  <2>6. FreedLast(a)'
    BY <1>2, <1>3, <1>4 DEF Worked, Working, LifeInv, FreedLast, Moves, One
  <2> QED BY <2>1, <2>2, <2>3, <2>4, <2>5, <2>6 DEF LifeInv
<1>7. ChildKept(a)
  <2> SUFFICES ASSUME a \in Children
               PROVE  ChildInv(a)' /\ Owing(a)' <= Owing(a)
    BY DEF ChildKept
  <2>1. EndsByItself(a)'
    BY <1>2, <1>3, <1>4 DEF Worked, Working, ChildInv, EndsByItself, Carrying, Moves, One
  <2>2. AbortsCall(a)'
    BY <1>2, <1>3, <1>4 DEF Worked, Working, ChildInv, AbortsCall, Moves, One
  <2>3. BornInside(a)'
    BY <1>2, <1>3, <1>4, <1>5
       DEF Worked, Working, ChildInv, BornInside, OthersKept, RootStays, Moves, One
  <2>4. Owing(a)' <= Owing(a)
    BY <1>2, <1>3, <1>4 DEF Worked, Working, Owing, Moves, One
  <2> QED BY <2>1, <2>2, <2>3, <2>4 DEF ChildInv
<1>8. RootKept(a)
  BY <1>2, <1>3, <1>4 DEF RootKept, Worked, Working, Opens, Reports, Moves, One
<1> QED BY <1>3, <1>5, <1>6, <1>7, <1>8, OneSteps DEF Worked

LEMMA ScheduleKeepsWork ==
  ASSUME WorkInv, StreamInv', NEW th \in Threads, NEW a \in Asyncs,
         Schedule(th, a)
  PROVE  WorkInv'
<1>1. /\ At(th, "schedule", a) /\ Call(th, << >>)
      /\ timer' = [timer EXCEPT ![a] = "armed"]
      /\ UNCHANGED <<life, ref, called, handle, io, canceled, completed, child>>
  BY DEF Schedule, Return, request, rest, history
<1>2. life[a] = "live" /\ a \in {Root} \union Children
  BY <1>1, Lives DEF Outside
<1>3. Worked(a, "schedule", "-", "-", "-") /\ \A ops : "schedule" \in ops => Frames(ops, a) >= 1
  BY <1>1, Work0
<1>4. /\ life'[a] = life[a] /\ ref'[a] = ref[a] /\ called'[a] = called[a] /\ handle'[a] = handle[a]
      /\ timer'[a] = "armed" /\ io'[a] = io[a]
      /\ canceled'[a] = canceled[a] /\ completed'[a] = completed[a]
      /\ ref[a] \in Int /\ completed[a] \in Int
  BY <1>1, <1>3 DEF Worked, Working, LifeTypes
<1>5. OthersKept(a)
  <2>1. LifeTyped
    BY <1>1, <1>3 DEF Worked, Working, LifeTyped, LifeTypes
  <2>2. Linked' /\ CallsAreNested'
    BY <1>1, <1>2, <1>3 DEF Worked, Working, LifeTypes, Linked, CallsAreNested
  <2>3. \A b \in Asyncs \ {a} : Untouched(b)
    BY <1>1, <1>3 DEF Worked, Working, LifeTypes, Untouched
  <2>4. RootStays
    BY <1>1, <1>3 DEF Worked, Working, LifeTypes, RootStays
  <2> QED BY <2>1, <2>2, <2>3, <2>4 DEF OthersKept
<1>6. LifeInv(a)'
  <2>1. NothingBefore(a)'
    BY <1>2, <1>4 DEF NothingBefore
  <2>2. BornOnce(a)'
    BY <1>2, <1>3, <1>4 DEF Worked, Working, LifeInv, BornOnce, Moves, One
  <2>3. TimedOnce(a)'
    BY <1>2, <1>3, <1>4 DEF Worked, Working, LifeInv, TimedOnce, Timing, Moves, One
  <2>4. RefExact(a)'
    <3>1. Frames(Holding, a)' = Frames(Holding, a) - 1 /\ Frames(Holding, a) \in Nat
      BY <1>3 DEF Worked, Working, Moves, Holding, One
    <3>2. RefExact(a)
      BY <1>3 DEF Worked, Working, LifeInv
    <3> QED BY <1>2, <1>3, <1>4, <3>1, <3>2
       DEF TimedOnce, Timing, Worked, Working, LifeInv, RefExact, One
  <2>5. CallsBack(a)'
    BY <1>2, <1>3, <1>4 DEF Worked, Working, LifeInv, CallsBack, Moves, One
  <2>6. FreedLast(a)'
    BY <1>2, <1>3, <1>4 DEF Worked, Working, LifeInv, FreedLast, Moves, One
  <2> QED BY <2>1, <2>2, <2>3, <2>4, <2>5, <2>6 DEF LifeInv
<1>7. ChildKept(a)
  <2> SUFFICES ASSUME a \in Children
               PROVE  ChildInv(a)' /\ Owing(a)' <= Owing(a)
    BY DEF ChildKept
  <2>1. EndsByItself(a)'
    BY <1>2, <1>3, <1>4 DEF Worked, Working, ChildInv, EndsByItself, Carrying, Moves, One
  <2>2. AbortsCall(a)'
    BY <1>2, <1>3, <1>4 DEF Worked, Working, ChildInv, AbortsCall, Moves, One
  <2>3. BornInside(a)'
    BY <1>2, <1>3, <1>4, <1>5
       DEF Worked, Working, ChildInv, BornInside, OthersKept, RootStays, Moves, One
  <2>4. Owing(a)' <= Owing(a)
    BY <1>2, <1>3, <1>4 DEF Worked, Working, Owing, Moves, One
  <2> QED BY <2>1, <2>2, <2>3, <2>4 DEF ChildInv
<1>8. RootKept(a)
  BY <1>2, <1>3, <1>4 DEF RootKept, Worked, Working, Opens, Reports, Moves, One
<1> QED BY <1>3, <1>5, <1>6, <1>7, <1>8, OneSteps DEF Worked

LEMMA UnlockKeepsWork ==
  ASSUME WorkInv, StreamInv', NEW th \in Threads, NEW a \in Asyncs,
         Unlock(th, a)
  PROVE  WorkInv'
<1>1. /\ At(th, "unlock", a) /\ Call(th, << >>)
      /\ UNCHANGED <<life, ref, called, handle, timer, io, canceled, completed, child>>
  BY DEF Unlock, Return, request, rest, history
<1>2. life[a] = "live" /\ a \in {Root} \union Children
  BY <1>1, Lives DEF Outside
<1>3. Worked(a, "unlock", "-", "-", "-") /\ \A ops : "unlock" \in ops => Frames(ops, a) >= 1
  BY <1>1, Work0
<1>4. /\ life'[a] = life[a] /\ ref'[a] = ref[a] /\ called'[a] = called[a] /\ handle'[a] = handle[a]
      /\ timer'[a] = timer[a] /\ io'[a] = io[a]
      /\ canceled'[a] = canceled[a] /\ completed'[a] = completed[a]
      /\ ref[a] \in Int /\ completed[a] \in Int
  BY <1>1, <1>3 DEF Worked, Working, LifeTypes
<1>5. OthersKept(a)
  <2>1. LifeTyped
    BY <1>1, <1>3 DEF Worked, Working, LifeTyped, LifeTypes
  <2>2. Linked' /\ CallsAreNested'
    BY <1>1, <1>2, <1>3 DEF Worked, Working, LifeTypes, Linked, CallsAreNested
  <2>3. \A b \in Asyncs \ {a} : Untouched(b)
    BY <1>1, <1>3 DEF Worked, Working, LifeTypes, Untouched
  <2>4. RootStays
    BY <1>1, <1>3 DEF Worked, Working, LifeTypes, RootStays
  <2> QED BY <2>1, <2>2, <2>3, <2>4 DEF OthersKept
<1>6. LifeInv(a)'
  <2>1. NothingBefore(a)'
    BY <1>2, <1>4 DEF NothingBefore
  <2>2. BornOnce(a)'
    BY <1>2, <1>3, <1>4 DEF Worked, Working, LifeInv, BornOnce, Moves, One
  <2>3. TimedOnce(a)'
    BY <1>2, <1>3, <1>4 DEF Worked, Working, LifeInv, TimedOnce, Timing, Moves, One
  <2>4. RefExact(a)'
    <3>1. Frames(Holding, a)' = Frames(Holding, a) /\ Frames(Holding, a) \in Nat
      BY <1>3 DEF Worked, Working, Moves, Holding, One
    <3>2. RefExact(a)
      BY <1>3 DEF Worked, Working, LifeInv
    <3> QED BY <1>2, <1>3, <1>4, <3>1, <3>2 DEF RefExact, One
  <2>5. CallsBack(a)'
    BY <1>2, <1>3, <1>4 DEF Worked, Working, LifeInv, CallsBack, Moves, One
  <2>6. FreedLast(a)'
    BY <1>2, <1>3, <1>4 DEF Worked, Working, LifeInv, FreedLast, Moves, One
  <2> QED BY <2>1, <2>2, <2>3, <2>4, <2>5, <2>6 DEF LifeInv
<1>7. ChildKept(a)
  <2> SUFFICES ASSUME a \in Children
               PROVE  ChildInv(a)' /\ Owing(a)' <= Owing(a)
    BY DEF ChildKept
  <2>1. EndsByItself(a)'
    BY <1>2, <1>3, <1>4 DEF Worked, Working, ChildInv, EndsByItself, Carrying, Moves, One
  <2>2. AbortsCall(a)'
    BY <1>2, <1>3, <1>4 DEF Worked, Working, ChildInv, AbortsCall, Moves, One
  <2>3. BornInside(a)'
    BY <1>2, <1>3, <1>4, <1>5
       DEF Worked, Working, ChildInv, BornInside, OthersKept, RootStays, Moves, One
  <2>4. Owing(a)' <= Owing(a)
    BY <1>2, <1>3, <1>4 DEF Worked, Working, Owing, Moves, One
  <2> QED BY <2>1, <2>2, <2>3, <2>4 DEF ChildInv
<1>8. RootKept(a)
  BY <1>2, <1>3, <1>4 DEF RootKept, Worked, Working, Opens, Reports, Moves, One
<1> QED BY <1>3, <1>5, <1>6, <1>7, <1>8, OneSteps DEF Worked

LEMMA SendKeepsWork ==
  ASSUME WorkInv, StreamInv', NEW th \in Threads, NEW a \in Asyncs,
         Send(th, a), a \in Children
  PROVE  WorkInv'
<1>1. /\ At(th, "send", a) /\ Call(th, <<Frame("send_enter", a)>>)
      /\ handle' = [handle EXCEPT ![a] = TRUE]
      /\ UNCHANGED <<life, ref, called, timer, io, canceled, completed, child>>
  BY DEF Send, SetRequest, rest, history
<1>2. life[a] = "live" /\ a \in {Root} \union Children
  BY <1>1, Lives DEF Outside
<1>3. Worked(a, "send", "send_enter", "-", "-") /\ \A ops : "send" \in ops => Frames(ops, a) >= 1
  <2>1. Does(Frame("send_enter", a), "send_enter", a)
    BY <1>2, DoesOp, DoesCall
  <2> QED BY <1>1, <2>1, Work1
<1>4. /\ life'[a] = life[a] /\ ref'[a] = ref[a] /\ called'[a] = called[a] /\ handle'[a] = TRUE
      /\ timer'[a] = timer[a] /\ io'[a] = io[a]
      /\ canceled'[a] = canceled[a] /\ completed'[a] = completed[a]
      /\ ref[a] \in Int /\ completed[a] \in Int
  BY <1>1, <1>3 DEF Worked, Working, LifeTypes
<1>5. OthersKept(a)
  <2>1. LifeTyped
    BY <1>1, <1>3 DEF Worked, Working, LifeTyped, LifeTypes
  <2>2. Linked' /\ CallsAreNested'
    BY <1>1, <1>2, <1>3 DEF Worked, Working, LifeTypes, Linked, CallsAreNested
  <2>3. \A b \in Asyncs \ {a} : Untouched(b)
    BY <1>1, <1>3 DEF Worked, Working, LifeTypes, Untouched
  <2>4. RootStays
    BY <1>1, <1>3 DEF Worked, Working, LifeTypes, RootStays
  <2> QED BY <2>1, <2>2, <2>3, <2>4 DEF OthersKept
<1>6. LifeInv(a)'
  <2>1. NothingBefore(a)'
    BY <1>2, <1>4 DEF NothingBefore
  <2>2. BornOnce(a)'
    BY <1>2, <1>3, <1>4 DEF Worked, Working, LifeInv, BornOnce, Moves, One
  <2>3. TimedOnce(a)'
    BY <1>2, <1>3, <1>4 DEF Worked, Working, LifeInv, TimedOnce, Timing, Moves, One
  <2>4. RefExact(a)'
    <3>1. Frames(Holding, a)' = Frames(Holding, a) /\ Frames(Holding, a) \in Nat
      BY <1>3 DEF Worked, Working, Moves, Holding, One
    <3>2. RefExact(a)
      BY <1>3 DEF Worked, Working, LifeInv
    <3> QED BY <1>2, <1>3, <1>4, <3>1, <3>2 DEF RefExact, One
  <2>5. CallsBack(a)'
    BY <1>2, <1>3, <1>4 DEF Worked, Working, LifeInv, CallsBack, Moves, One
  <2>6. FreedLast(a)'
    BY <1>2, <1>3, <1>4 DEF Worked, Working, LifeInv, FreedLast, Moves, One
  <2> QED BY <2>1, <2>2, <2>3, <2>4, <2>5, <2>6 DEF LifeInv
<1>7. ChildKept(a)
  <2> SUFFICES ASSUME a \in Children
               PROVE  ChildInv(a)' /\ Owing(a)' <= Owing(a)
    BY DEF ChildKept
  <2>1. EndsByItself(a)'
    BY <1>2, <1>3, <1>4 DEF Worked, Working, ChildInv, EndsByItself, Carrying, Moves, One
  <2>2. AbortsCall(a)'
    BY <1>2, <1>3, <1>4 DEF Worked, Working, ChildInv, AbortsCall, Moves, One
  <2>3. BornInside(a)'
    BY <1>2, <1>3, <1>4, <1>5
       DEF Worked, Working, ChildInv, BornInside, OthersKept, RootStays, Moves, One
  <2>4. Owing(a)' <= Owing(a)
    BY <1>2, <1>3, <1>4 DEF Worked, Working, Owing, Moves, One
  <2> QED BY <2>1, <2>2, <2>3, <2>4 DEF ChildInv
<1>8. RootKept(a)
  BY AsyncAssumption DEF RootKept
<1> QED BY <1>3, <1>5, <1>6, <1>7, <1>8, OneSteps DEF Worked

LEMMA DestroyKeepsWork ==
  ASSUME WorkInv, StreamInv', NEW th \in Threads, NEW a \in Asyncs,
         Destroy(th, a)
  PROVE  WorkInv'
<1>1. /\ At(th, "destroy", a) /\ Call(th, << >>)
      /\ timer' = [timer EXCEPT ![a] = IF @ = "armed" THEN "gone" ELSE @]
      /\ child' = [p \in Asyncs |-> IF p = Parent(a) THEN None ELSE child[p]]
      /\ life' = [life EXCEPT ![a] = "freed"]
      /\ UNCHANGED <<ref, called, handle, io, canceled, completed>>
  BY DEF Destroy, Return, request, rest, history
<1>2. life[a] = "live" /\ a \in {Root} \union Children
  BY <1>1, Lives DEF Outside
<1>3. Worked(a, "destroy", "-", "-", "-") /\ \A ops : "destroy" \in ops => Frames(ops, a) >= 1
  BY <1>1, Work0
<1>4. /\ life'[a] = "freed" /\ ref'[a] = ref[a] /\ called'[a] = called[a] /\ handle'[a] = handle[a]
      /\ timer'[a] = (IF timer[a] = "armed" THEN "gone" ELSE timer[a]) /\ io'[a] = io[a]
      /\ canceled'[a] = canceled[a] /\ completed'[a] = completed[a]
      /\ ref[a] \in Int /\ completed[a] \in Int
  BY <1>1, <1>3 DEF Worked, Working, LifeTypes
<1>5. OthersKept(a)
  <2>1. LifeTyped
    BY <1>1, <1>3 DEF Worked, Working, LifeTyped, LifeTypes
  <2>2. Linked' /\ CallsAreNested'
    BY <1>1, <1>2, <1>3, AsyncAssumption
       DEF Asyncs, Worked, Working, LifeTypes, Linked, CallsAreNested
  <2>3. \A b \in Asyncs \ {a} : Untouched(b)
    BY <1>1, <1>3, AsyncAssumption DEF Asyncs, Worked, Working, LifeTypes, Untouched
  <2>4. RootStays
    BY <1>1, <1>3 DEF Asyncs, Worked, Working, LifeTypes, RootStays
  <2> QED BY <2>1, <2>2, <2>3, <2>4 DEF OthersKept
<1>6. LifeInv(a)'
  <2>1. NothingBefore(a)'
    BY <1>2, <1>4 DEF NothingBefore
  <2>2. BornOnce(a)'
    BY <1>2, <1>3, <1>4 DEF Worked, Working, LifeInv, BornOnce, Moves, One
  <2>3. TimedOnce(a)'
    BY <1>2, <1>3, <1>4 DEF Worked, Working, LifeInv, TimedOnce, Timing, Moves, One
  <2>4. RefExact(a)'
    <3>1. Frames(Holding, a)' = Frames(Holding, a) /\ Frames(Holding, a) \in Nat
      BY <1>3 DEF Worked, Working, Moves, Holding, One
    <3>2. RefExact(a)
      BY <1>3 DEF Worked, Working, LifeInv
    <3> QED BY <1>2, <1>3, <1>4, <3>1, <3>2 DEF RefExact, One
  <2>5. CallsBack(a)'
    BY <1>2, <1>3, <1>4 DEF Worked, Working, LifeInv, CallsBack, Moves, One
  <2>6. FreedLast(a)'
    BY <1>2, <1>3, <1>4 DEF Worked, Working, LifeInv, FreedLast, Moves, One
  <2> QED BY <2>1, <2>2, <2>3, <2>4, <2>5, <2>6 DEF LifeInv
<1>7. ChildKept(a)
  <2> SUFFICES ASSUME a \in Children
               PROVE  ChildInv(a)' /\ Owing(a)' <= Owing(a)
    BY DEF ChildKept
  <2>1. EndsByItself(a)'
    BY <1>2, <1>3, <1>4 DEF Worked, Working, ChildInv, EndsByItself, Carrying, Moves, One
  <2>2. AbortsCall(a)'
    BY <1>2, <1>3, <1>4 DEF Worked, Working, ChildInv, AbortsCall, Moves, One
  <2>3. BornInside(a)'
    BY <1>2, <1>3, <1>4, <1>5
       DEF Worked, Working, ChildInv, BornInside, OthersKept, RootStays, Moves, One
  <2>4. Owing(a)' <= Owing(a)
    BY <1>2, <1>3, <1>4 DEF Worked, Working, Owing, Moves, One
  <2> QED BY <2>1, <2>2, <2>3, <2>4 DEF ChildInv
<1>8. RootKept(a)
  BY <1>2, <1>3, <1>4 DEF RootKept, Worked, Working, Opens, Reports, Moves, One
<1> QED BY <1>3, <1>5, <1>6, <1>7, <1>8, OneSteps DEF Worked

LEMMA CallbackKeepsWork ==
  ASSUME WorkInv, StreamInv', NEW th \in Threads, NEW a \in Asyncs,
         Callback(th, a)
  PROVE  WorkInv'
<1>1. /\ At(th, "callback", a) /\ Call(th, << >>)
      /\ completed' = [completed EXCEPT ![a] = @ + 1]
      /\ UNCHANGED <<life, ref, called, handle, timer, io, canceled, child>>
  BY DEF Callback, CallbackThen, operation, request
<1>2. life[a] = "live" /\ a \in {Root} \union Children
  BY <1>1, Lives DEF Outside
<1>3. Worked(a, "callback", "-", "-", "-") /\ \A ops : "callback" \in ops => Frames(ops, a) >= 1
  BY <1>1, Work0
<1>4. /\ life'[a] = life[a] /\ ref'[a] = ref[a] /\ called'[a] = called[a] /\ handle'[a] = handle[a]
      /\ timer'[a] = timer[a] /\ io'[a] = io[a]
      /\ canceled'[a] = canceled[a] /\ completed'[a] = completed[a] + 1
      /\ ref[a] \in Int /\ completed[a] \in Int
  BY <1>1, <1>3 DEF Worked, Working, LifeTypes
<1>5. OthersKept(a)
  <2>1. LifeTyped
    BY <1>1, <1>3 DEF Worked, Working, LifeTyped, LifeTypes
  <2>2. Linked' /\ CallsAreNested'
    BY <1>1, <1>2, <1>3 DEF Worked, Working, LifeTypes, Linked, CallsAreNested
  <2>3. \A b \in Asyncs \ {a} : Untouched(b)
    BY <1>1, <1>3 DEF Worked, Working, LifeTypes, Untouched
  <2>4. RootStays
    BY <1>1, <1>3 DEF Worked, Working, LifeTypes, RootStays
  <2> QED BY <2>1, <2>2, <2>3, <2>4 DEF OthersKept
<1>6. LifeInv(a)'
  <2>1. NothingBefore(a)'
    BY <1>2, <1>4 DEF NothingBefore
  <2>2. BornOnce(a)'
    BY <1>2, <1>3, <1>4 DEF Worked, Working, LifeInv, BornOnce, Moves, One
  <2>3. TimedOnce(a)'
    BY <1>2, <1>3, <1>4 DEF Worked, Working, LifeInv, TimedOnce, Timing, Moves, One
  <2>4. RefExact(a)'
    <3>1. Frames(Holding, a)' = Frames(Holding, a) /\ Frames(Holding, a) \in Nat
      BY <1>3 DEF Worked, Working, Moves, Holding, One
    <3>2. RefExact(a)
      BY <1>3 DEF Worked, Working, LifeInv
    <3> QED BY <1>2, <1>3, <1>4, <3>1, <3>2 DEF RefExact, One
  <2>5. CallsBack(a)'
    BY <1>2, <1>3, <1>4 DEF Worked, Working, LifeInv, CallsBack, Moves, One
  <2>6. FreedLast(a)'
    BY <1>2, <1>3, <1>4 DEF Worked, Working, LifeInv, FreedLast, Moves, One
  <2> QED BY <2>1, <2>2, <2>3, <2>4, <2>5, <2>6 DEF LifeInv
<1>7. ChildKept(a)
  <2> SUFFICES ASSUME a \in Children
               PROVE  ChildInv(a)' /\ Owing(a)' <= Owing(a)
    BY DEF ChildKept
  <2>1. EndsByItself(a)'
    BY <1>2, <1>3, <1>4 DEF Worked, Working, ChildInv, EndsByItself, Carrying, Moves, One
  <2>2. AbortsCall(a)'
    BY <1>2, <1>3, <1>4 DEF Worked, Working, ChildInv, AbortsCall, Moves, One
  <2>3. BornInside(a)'
    BY <1>2, <1>3, <1>4, <1>5
       DEF Worked, Working, ChildInv, BornInside, OthersKept, RootStays, Moves, One
  <2>4. Owing(a)' <= Owing(a)
    BY <1>2, <1>3, <1>4 DEF Worked, Working, Owing, Moves, One
  <2> QED BY <2>1, <2>2, <2>3, <2>4 DEF ChildInv
<1>8. RootKept(a)
  BY <1>2, <1>3, <1>4 DEF RootKept, Worked, Working, Opens, Reports, Moves, One
<1> QED BY <1>3, <1>5, <1>6, <1>7, <1>8, OneSteps DEF Worked

\* It was cancelled before.
LEMMA ReceiveTooLateKeepsWork ==
  ASSUME WorkInv, StreamInv', NEW th \in Threads, NEW a \in Asyncs,
         Receive(th, a), a \in Children, canceled[a]
  PROVE  WorkInv'
<1>1. /\ At(th, "receive", a) /\ Call(th, <<Frame("notify", a), Frame("unlock", a)>>) /\ canceled[a]
      /\ UNCHANGED <<life, ref, called, handle, timer, io, canceled, completed, child>>
  BY DEF Receive, AsyncEnter, request, rest, history
<1>2. life[a] = "live" /\ a \in {Root} \union Children
  BY <1>1, Lives DEF Outside
<1>3. /\ Worked(a, "receive", "notify", "unlock", "-")
      /\ \A ops : "receive" \in ops => Frames(ops, a) >= 1
  <2>1. Does(Frame("notify", a), "notify", a) /\ Does(Frame("unlock", a), "unlock", a)
    BY <1>2, DoesOp, DoesCall
  <2> QED BY <1>1, <2>1, Work2
<1>4. /\ life'[a] = life[a] /\ ref'[a] = ref[a] /\ called'[a] = called[a] /\ handle'[a] = handle[a]
      /\ timer'[a] = timer[a] /\ io'[a] = io[a]
      /\ canceled'[a] = canceled[a] /\ completed'[a] = completed[a]
      /\ ref[a] \in Int /\ completed[a] \in Int
  BY <1>1, <1>3 DEF Worked, Working, LifeTypes
<1>5. OthersKept(a)
  <2>1. LifeTyped
    BY <1>1, <1>3 DEF Worked, Working, LifeTyped, LifeTypes
  <2>2. Linked' /\ CallsAreNested'
    BY <1>1, <1>2, <1>3 DEF Worked, Working, LifeTypes, Linked, CallsAreNested
  <2>3. \A b \in Asyncs \ {a} : Untouched(b)
    BY <1>1, <1>3 DEF Worked, Working, LifeTypes, Untouched
  <2>4. RootStays
    BY <1>1, <1>3 DEF Worked, Working, LifeTypes, RootStays
  <2> QED BY <2>1, <2>2, <2>3, <2>4 DEF OthersKept
<1>6. LifeInv(a)'
  <2>1. NothingBefore(a)'
    BY <1>2, <1>4 DEF NothingBefore
  <2>2. BornOnce(a)'
    BY <1>2, <1>3, <1>4 DEF Worked, Working, LifeInv, BornOnce, Moves, One
  <2>3. TimedOnce(a)'
    BY <1>2, <1>3, <1>4 DEF Worked, Working, LifeInv, TimedOnce, Timing, Moves, One
  <2>4. RefExact(a)'
    <3>1. Frames(Holding, a)' = Frames(Holding, a) /\ Frames(Holding, a) \in Nat
      BY <1>3 DEF Worked, Working, Moves, Holding, One
    <3>2. RefExact(a)
      BY <1>3 DEF Worked, Working, LifeInv
    <3> QED BY <1>2, <1>3, <1>4, <3>1, <3>2 DEF RefExact, One
  <2>5. CallsBack(a)'
    BY <1>2, <1>3, <1>4 DEF Worked, Working, LifeInv, CallsBack, Moves, One
  <2>6. FreedLast(a)'
    BY <1>2, <1>3, <1>4 DEF Worked, Working, LifeInv, FreedLast, Moves, One
  <2> QED BY <2>1, <2>2, <2>3, <2>4, <2>5, <2>6 DEF LifeInv
<1>7. ChildKept(a)
  <2> SUFFICES ASSUME a \in Children
               PROVE  ChildInv(a)' /\ Owing(a)' <= Owing(a)
    BY DEF ChildKept
  <2>1. EndsByItself(a)'
    BY <1>2, <1>3, <1>4 DEF Worked, Working, ChildInv, EndsByItself, Carrying, Moves, One
  <2>2. AbortsCall(a)'
    BY <1>2, <1>3, <1>4 DEF Worked, Working, ChildInv, AbortsCall, Moves, One
  <2>3. BornInside(a)'
    BY <1>2, <1>3, <1>4, <1>5
       DEF Worked, Working, ChildInv, BornInside, OthersKept, RootStays, Moves, One
  <2>4. Owing(a)' <= Owing(a)
    BY <1>2, <1>3, <1>4 DEF Worked, Working, Owing, Moves, One
  <2> QED BY <2>1, <2>2, <2>3, <2>4 DEF ChildInv
<1>8. RootKept(a)
  BY AsyncAssumption DEF RootKept
<1> QED BY <1>3, <1>5, <1>6, <1>7, <1>8, OneSteps DEF Worked

LEMMA ReceiveKeepsWork ==
  ASSUME WorkInv, StreamInv', NEW th \in Threads, NEW a \in Asyncs,
         Receive(th, a), a \in Children, ~canceled[a]
  PROVE  WorkInv'
<1>1. /\ At(th, "receive", a) /\ Call(th, <<Frame("recv", a)>>) /\ ~canceled[a]
      /\ ref' = [ref EXCEPT ![a] = @ + 1]
      /\ UNCHANGED <<life, called, handle, timer, io, canceled, completed, child>>
  BY DEF Receive, AsyncEnter, request, rest, history
<1>2. life[a] = "live" /\ a \in {Root} \union Children
  BY <1>1, Lives DEF Outside
<1>3. Worked(a, "receive", "recv", "-", "-") /\ \A ops : "receive" \in ops => Frames(ops, a) >= 1
  <2>1. Does(Frame("recv", a), "recv", a)
    BY <1>2, DoesOp, DoesCall
  <2> QED BY <1>1, <2>1, Work1
<1>4. /\ life'[a] = life[a] /\ ref'[a] = ref[a] + 1 /\ called'[a] = called[a] /\ handle'[a] = handle[a]
      /\ timer'[a] = timer[a] /\ io'[a] = io[a]
      /\ canceled'[a] = canceled[a] /\ completed'[a] = completed[a]
      /\ ref[a] \in Int /\ completed[a] \in Int
  BY <1>1, <1>3 DEF Worked, Working, LifeTypes
<1>5. OthersKept(a)
  <2>1. LifeTyped
    BY <1>1, <1>3 DEF Worked, Working, LifeTyped, LifeTypes
  <2>2. Linked' /\ CallsAreNested'
    BY <1>1, <1>2, <1>3 DEF Worked, Working, LifeTypes, Linked, CallsAreNested
  <2>3. \A b \in Asyncs \ {a} : Untouched(b)
    BY <1>1, <1>3 DEF Worked, Working, LifeTypes, Untouched
  <2>4. RootStays
    BY <1>1, <1>3 DEF Worked, Working, LifeTypes, RootStays
  <2> QED BY <2>1, <2>2, <2>3, <2>4 DEF OthersKept
<1>6. LifeInv(a)'
  <2>1. NothingBefore(a)'
    BY <1>2, <1>4 DEF NothingBefore
  <2>2. BornOnce(a)'
    BY <1>2, <1>3, <1>4 DEF Worked, Working, LifeInv, BornOnce, Moves, One
  <2>3. TimedOnce(a)'
    BY <1>2, <1>3, <1>4 DEF Worked, Working, LifeInv, TimedOnce, Timing, Moves, One
  <2>4. RefExact(a)'
    <3>1. Frames(Holding, a)' = Frames(Holding, a) + 1 /\ Frames(Holding, a) \in Nat
      BY <1>3 DEF Worked, Working, Moves, Holding, One
    <3>2. RefExact(a)
      BY <1>3 DEF Worked, Working, LifeInv
    <3> QED BY <1>2, <1>3, <1>4, <3>1, <3>2 DEF RefExact, One
  <2>5. CallsBack(a)'
    BY <1>2, <1>3, <1>4 DEF Worked, Working, LifeInv, CallsBack, Moves, One
  <2>6. FreedLast(a)'
    BY <1>2, <1>3, <1>4 DEF Worked, Working, LifeInv, FreedLast, Moves, One
  <2> QED BY <2>1, <2>2, <2>3, <2>4, <2>5, <2>6 DEF LifeInv
<1>7. ChildKept(a)
  <2> SUFFICES ASSUME a \in Children
               PROVE  ChildInv(a)' /\ Owing(a)' <= Owing(a)
    BY DEF ChildKept
  <2>1. EndsByItself(a)'
    BY <1>2, <1>3, <1>4 DEF Worked, Working, ChildInv, EndsByItself, Carrying, Moves, One
  <2>2. AbortsCall(a)'
    BY <1>2, <1>3, <1>4 DEF Worked, Working, ChildInv, AbortsCall, Moves, One
  <2>3. BornInside(a)'
    BY <1>2, <1>3, <1>4, <1>5
       DEF Worked, Working, ChildInv, BornInside, OthersKept, RootStays, Moves, One
  <2>4. Owing(a)' <= Owing(a)
    BY <1>2, <1>3, <1>4 DEF Worked, Working, Owing, Moves, One
  <2> QED BY <2>1, <2>2, <2>3, <2>4 DEF ChildInv
<1>8. RootKept(a)
  BY AsyncAssumption DEF RootKept
<1> QED BY <1>3, <1>5, <1>6, <1>7, <1>8, OneSteps DEF Worked

LEMMA SendEnterTooLateKeepsWork ==
  ASSUME WorkInv, StreamInv', NEW th \in Threads, NEW a \in Asyncs,
         SendEnter(th, a), a \in Children, canceled[a]
  PROVE  WorkInv'
<1>1. /\ At(th, "send_enter", a) /\ Call(th, <<Frame("notify", a), Frame("unlock", a)>>) /\ canceled[a]
      /\ UNCHANGED <<life, ref, called, handle, timer, io, canceled, completed, child>>
  BY DEF SendEnter, AsyncEnter, request, rest, history
<1>2. life[a] = "live" /\ a \in {Root} \union Children
  BY <1>1, Lives DEF Outside
<1>3. /\ Worked(a, "send_enter", "notify", "unlock", "-")
      /\ \A ops : "send_enter" \in ops => Frames(ops, a) >= 1
  <2>1. Does(Frame("notify", a), "notify", a) /\ Does(Frame("unlock", a), "unlock", a)
    BY <1>2, DoesOp, DoesCall
  <2> QED BY <1>1, <2>1, Work2
<1>4. /\ life'[a] = life[a] /\ ref'[a] = ref[a] /\ called'[a] = called[a] /\ handle'[a] = handle[a]
      /\ timer'[a] = timer[a] /\ io'[a] = io[a]
      /\ canceled'[a] = canceled[a] /\ completed'[a] = completed[a]
      /\ ref[a] \in Int /\ completed[a] \in Int
  BY <1>1, <1>3 DEF Worked, Working, LifeTypes
<1>5. OthersKept(a)
  <2>1. LifeTyped
    BY <1>1, <1>3 DEF Worked, Working, LifeTyped, LifeTypes
  <2>2. Linked' /\ CallsAreNested'
    BY <1>1, <1>2, <1>3 DEF Worked, Working, LifeTypes, Linked, CallsAreNested
  <2>3. \A b \in Asyncs \ {a} : Untouched(b)
    BY <1>1, <1>3 DEF Worked, Working, LifeTypes, Untouched
  <2>4. RootStays
    BY <1>1, <1>3 DEF Worked, Working, LifeTypes, RootStays
  <2> QED BY <2>1, <2>2, <2>3, <2>4 DEF OthersKept
<1>6. LifeInv(a)'
  <2>1. NothingBefore(a)'
    BY <1>2, <1>4 DEF NothingBefore
  <2>2. BornOnce(a)'
    BY <1>2, <1>3, <1>4 DEF Worked, Working, LifeInv, BornOnce, Moves, One
  <2>3. TimedOnce(a)'
    BY <1>2, <1>3, <1>4 DEF Worked, Working, LifeInv, TimedOnce, Timing, Moves, One
  <2>4. RefExact(a)'
    <3>1. Frames(Holding, a)' = Frames(Holding, a) /\ Frames(Holding, a) \in Nat
      BY <1>3 DEF Worked, Working, Moves, Holding, One
    <3>2. RefExact(a)
      BY <1>3 DEF Worked, Working, LifeInv
    <3> QED BY <1>2, <1>3, <1>4, <3>1, <3>2 DEF RefExact, One
  <2>5. CallsBack(a)'
    BY <1>2, <1>3, <1>4 DEF Worked, Working, LifeInv, CallsBack, Moves, One
  <2>6. FreedLast(a)'
    BY <1>2, <1>3, <1>4 DEF Worked, Working, LifeInv, FreedLast, Moves, One
  <2> QED BY <2>1, <2>2, <2>3, <2>4, <2>5, <2>6 DEF LifeInv
<1>7. ChildKept(a)
  <2> SUFFICES ASSUME a \in Children
               PROVE  ChildInv(a)' /\ Owing(a)' <= Owing(a)
    BY DEF ChildKept
  <2>1. EndsByItself(a)'
    BY <1>2, <1>3, <1>4 DEF Worked, Working, ChildInv, EndsByItself, Carrying, Moves, One
  <2>2. AbortsCall(a)'
    BY <1>2, <1>3, <1>4 DEF Worked, Working, ChildInv, AbortsCall, Moves, One
  <2>3. BornInside(a)'
    BY <1>2, <1>3, <1>4, <1>5
       DEF Worked, Working, ChildInv, BornInside, OthersKept, RootStays, Moves, One
  <2>4. Owing(a)' <= Owing(a)
    BY <1>2, <1>3, <1>4 DEF Worked, Working, Owing, Moves, One
  <2> QED BY <2>1, <2>2, <2>3, <2>4 DEF ChildInv
<1>8. RootKept(a)
  BY AsyncAssumption DEF RootKept
<1> QED BY <1>3, <1>5, <1>6, <1>7, <1>8, OneSteps DEF Worked

LEMMA SendEnterKeepsWork ==
  ASSUME WorkInv, StreamInv', NEW th \in Threads, NEW a \in Asyncs,
         SendEnter(th, a), a \in Children, ~canceled[a]
  PROVE  WorkInv'
<1>1. /\ At(th, "send_enter", a) /\ Call(th, <<Frame("submit", a)>>) /\ ~canceled[a]
      /\ ref' = [ref EXCEPT ![a] = @ + 1]
      /\ UNCHANGED <<life, called, handle, timer, io, canceled, completed, child>>
  BY DEF SendEnter, AsyncEnter, request, rest, history
<1>2. life[a] = "live" /\ a \in {Root} \union Children
  BY <1>1, Lives DEF Outside
<1>3. /\ Worked(a, "send_enter", "submit", "-", "-")
      /\ \A ops : "send_enter" \in ops => Frames(ops, a) >= 1
  <2>1. Does(Frame("submit", a), "submit", a)
    BY <1>2, DoesOp, DoesCall
  <2> QED BY <1>1, <2>1, Work1
<1>4. /\ life'[a] = life[a] /\ ref'[a] = ref[a] + 1 /\ called'[a] = called[a] /\ handle'[a] = handle[a]
      /\ timer'[a] = timer[a] /\ io'[a] = io[a]
      /\ canceled'[a] = canceled[a] /\ completed'[a] = completed[a]
      /\ ref[a] \in Int /\ completed[a] \in Int
  BY <1>1, <1>3 DEF Worked, Working, LifeTypes
<1>5. OthersKept(a)
  <2>1. LifeTyped
    BY <1>1, <1>3 DEF Worked, Working, LifeTyped, LifeTypes
  <2>2. Linked' /\ CallsAreNested'
    BY <1>1, <1>2, <1>3 DEF Worked, Working, LifeTypes, Linked, CallsAreNested
  <2>3. \A b \in Asyncs \ {a} : Untouched(b)
    BY <1>1, <1>3 DEF Worked, Working, LifeTypes, Untouched
  <2>4. RootStays
    BY <1>1, <1>3 DEF Worked, Working, LifeTypes, RootStays
  <2> QED BY <2>1, <2>2, <2>3, <2>4 DEF OthersKept
<1>6. LifeInv(a)'
  <2>1. NothingBefore(a)'
    BY <1>2, <1>4 DEF NothingBefore
  <2>2. BornOnce(a)'
    BY <1>2, <1>3, <1>4 DEF Worked, Working, LifeInv, BornOnce, Moves, One
  <2>3. TimedOnce(a)'
    BY <1>2, <1>3, <1>4 DEF Worked, Working, LifeInv, TimedOnce, Timing, Moves, One
  <2>4. RefExact(a)'
    <3>1. Frames(Holding, a)' = Frames(Holding, a) + 1 /\ Frames(Holding, a) \in Nat
      BY <1>3 DEF Worked, Working, Moves, Holding, One
    <3>2. RefExact(a)
      BY <1>3 DEF Worked, Working, LifeInv
    <3> QED BY <1>2, <1>3, <1>4, <3>1, <3>2 DEF RefExact, One
  <2>5. CallsBack(a)'
    BY <1>2, <1>3, <1>4 DEF Worked, Working, LifeInv, CallsBack, Moves, One
  <2>6. FreedLast(a)'
    BY <1>2, <1>3, <1>4 DEF Worked, Working, LifeInv, FreedLast, Moves, One
  <2> QED BY <2>1, <2>2, <2>3, <2>4, <2>5, <2>6 DEF LifeInv
<1>7. ChildKept(a)
  <2> SUFFICES ASSUME a \in Children
               PROVE  ChildInv(a)' /\ Owing(a)' <= Owing(a)
    BY DEF ChildKept
  <2>1. EndsByItself(a)'
    BY <1>2, <1>3, <1>4 DEF Worked, Working, ChildInv, EndsByItself, Carrying, Moves, One
  <2>2. AbortsCall(a)'
    BY <1>2, <1>3, <1>4 DEF Worked, Working, ChildInv, AbortsCall, Moves, One
  <2>3. BornInside(a)'
    BY <1>2, <1>3, <1>4, <1>5
       DEF Worked, Working, ChildInv, BornInside, OthersKept, RootStays, Moves, One
  <2>4. Owing(a)' <= Owing(a)
    BY <1>2, <1>3, <1>4 DEF Worked, Working, Owing, Moves, One
  <2> QED BY <2>1, <2>2, <2>3, <2>4 DEF ChildInv
<1>8. RootKept(a)
  BY AsyncAssumption DEF RootKept
<1> QED BY <1>3, <1>5, <1>6, <1>7, <1>8, OneSteps DEF Worked

\* The call starts.
LEMMA RecvStartsKeepsWork ==
  ASSUME WorkInv, StreamInv', NEW th \in Threads, NEW a \in Asyncs,
         Recv(th, a), a \in Children, Call(th, AsyncLeave(a)),
         io' = [io EXCEPT ![a] = "pending"]
  PROVE  WorkInv'
<1>1. /\ At(th, "recv", a) /\ Call(th, <<Frame("unlock", a), Frame("release", a)>>)
      /\ io' = [io EXCEPT ![a] = "pending"]
      /\ handle' = [handle EXCEPT ![a] = TRUE]
      /\ UNCHANGED <<life, ref, called, timer, canceled, completed, child>>
  BY DEF Recv, SetRequest, Submit, operation, request, rest, history, AsyncLeave
<1>2. life[a] = "live" /\ a \in {Root} \union Children
  BY <1>1, Lives DEF Outside
<1>3. Worked(a, "recv", "unlock", "release", "-") /\ \A ops : "recv" \in ops => Frames(ops, a) >= 1
  <2>1. Does(Frame("unlock", a), "unlock", a) /\ Does(Frame("release", a), "release", a)
    BY <1>2, DoesOp, DoesCall
  <2> QED BY <1>1, <2>1, Work2
<1>4. /\ life'[a] = life[a] /\ ref'[a] = ref[a] /\ called'[a] = called[a] /\ handle'[a] = TRUE
      /\ timer'[a] = timer[a] /\ io'[a] = "pending"
      /\ canceled'[a] = canceled[a] /\ completed'[a] = completed[a]
      /\ ref[a] \in Int /\ completed[a] \in Int
  BY <1>1, <1>3 DEF Worked, Working, LifeTypes
<1>5. OthersKept(a)
  <2>1. LifeTyped
    BY <1>1, <1>3 DEF Worked, Working, LifeTyped, LifeTypes
  <2>2. Linked' /\ CallsAreNested'
    BY <1>1, <1>2, <1>3 DEF Worked, Working, LifeTypes, Linked, CallsAreNested
  <2>3. \A b \in Asyncs \ {a} : Untouched(b)
    BY <1>1, <1>3 DEF Worked, Working, LifeTypes, Untouched
  <2>4. RootStays
    BY <1>1, <1>3 DEF Worked, Working, LifeTypes, RootStays
  <2> QED BY <2>1, <2>2, <2>3, <2>4 DEF OthersKept
<1>6. LifeInv(a)'
  <2>1. NothingBefore(a)'
    BY <1>2, <1>4 DEF NothingBefore
  <2>2. BornOnce(a)'
    BY <1>2, <1>3, <1>4 DEF Worked, Working, LifeInv, BornOnce, Moves, One
  <2>3. TimedOnce(a)'
    BY <1>2, <1>3, <1>4 DEF Worked, Working, LifeInv, TimedOnce, Timing, Moves, One
  <2>4. RefExact(a)'
    <3>1. Frames(Holding, a)' = Frames(Holding, a) /\ Frames(Holding, a) \in Nat
      BY <1>3 DEF Worked, Working, Moves, Holding, One
    <3>2. RefExact(a)
      BY <1>3 DEF Worked, Working, LifeInv
    <3> QED BY <1>2, <1>3, <1>4, <3>1, <3>2 DEF RefExact, One
  <2>5. CallsBack(a)'
    BY <1>2, <1>3, <1>4 DEF Worked, Working, LifeInv, CallsBack, Moves, One
  <2>6. FreedLast(a)'
    BY <1>2, <1>3, <1>4 DEF Worked, Working, LifeInv, FreedLast, Moves, One
  <2> QED BY <2>1, <2>2, <2>3, <2>4, <2>5, <2>6 DEF LifeInv
<1>7. ChildKept(a)
  <2> SUFFICES ASSUME a \in Children
               PROVE  ChildInv(a)' /\ Owing(a)' <= Owing(a)
    BY DEF ChildKept
  <2>1. EndsByItself(a)'
    BY <1>2, <1>3, <1>4 DEF Worked, Working, ChildInv, EndsByItself, Carrying, Moves, One
  <2>2. AbortsCall(a)'
    BY <1>2, <1>3, <1>4 DEF Worked, Working, ChildInv, AbortsCall, Moves, One
  <2>3. BornInside(a)'
    BY <1>2, <1>3, <1>4, <1>5
       DEF Worked, Working, ChildInv, BornInside, OthersKept, RootStays, Moves, One
  <2>4. Owing(a)' <= Owing(a)
    BY <1>2, <1>3, <1>4 DEF Worked, Working, Owing, Moves, One
  <2> QED BY <2>1, <2>2, <2>3, <2>4 DEF ChildInv
<1>8. RootKept(a)
  BY AsyncAssumption DEF RootKept
<1> QED BY <1>3, <1>5, <1>6, <1>7, <1>8, OneSteps DEF Worked

\* It does not.
LEMMA RecvFailsKeepsWork ==
  ASSUME WorkInv, StreamInv', NEW th \in Threads, NEW a \in Asyncs,
         Recv(th, a), a \in Children, UNCHANGED io, Call(th, AsyncLeave(a) \o <<Frame("notify", a)>>)
  PROVE  WorkInv'
<1>1. /\ At(th, "recv", a) /\ Call(th, AsyncLeave(a) \o <<Frame("notify", a)>>)
      /\ handle' = [handle EXCEPT ![a] = TRUE]
      /\ UNCHANGED <<life, ref, called, timer, io, canceled, completed, child>>
  BY DEF Recv, SetRequest, Submit, operation, request, rest, history
<1>2. life[a] = "live" /\ a \in {Root} \union Children
  BY <1>1, Lives DEF Outside
<1>3. /\ Worked(a, "recv", "unlock", "release", "notify")
      /\ \A ops : "recv" \in ops => Frames(ops, a) >= 1
  <2>1. /\ Does(Frame("unlock", a), "unlock", a) /\ Does(Frame("release", a), "release", a)
        /\ Does(Frame("notify", a), "notify", a)
    BY <1>2, DoesOp
  <2>2. Call(th, <<Frame("unlock", a), Frame("release", a), Frame("notify", a)>>)
    BY <1>1, Triples DEF AsyncLeave
  <2> QED BY <1>1, <2>1, <2>2, Work3
<1>4. /\ life'[a] = life[a] /\ ref'[a] = ref[a] /\ called'[a] = called[a] /\ handle'[a] = TRUE
      /\ timer'[a] = timer[a] /\ io'[a] = io[a]
      /\ canceled'[a] = canceled[a] /\ completed'[a] = completed[a]
      /\ ref[a] \in Int /\ completed[a] \in Int
  BY <1>1, <1>3 DEF Worked, Working, LifeTypes
<1>5. OthersKept(a)
  <2>1. LifeTyped
    BY <1>1, <1>3 DEF Worked, Working, LifeTyped, LifeTypes
  <2>2. Linked' /\ CallsAreNested'
    BY <1>1, <1>2, <1>3 DEF Worked, Working, LifeTypes, Linked, CallsAreNested
  <2>3. \A b \in Asyncs \ {a} : Untouched(b)
    BY <1>1, <1>3 DEF Worked, Working, LifeTypes, Untouched
  <2>4. RootStays
    BY <1>1, <1>3 DEF Worked, Working, LifeTypes, RootStays
  <2> QED BY <2>1, <2>2, <2>3, <2>4 DEF OthersKept
<1>6. LifeInv(a)'
  <2>1. NothingBefore(a)'
    BY <1>2, <1>4 DEF NothingBefore
  <2>2. BornOnce(a)'
    BY <1>2, <1>3, <1>4 DEF Worked, Working, LifeInv, BornOnce, Moves, One
  <2>3. TimedOnce(a)'
    BY <1>2, <1>3, <1>4 DEF Worked, Working, LifeInv, TimedOnce, Timing, Moves, One
  <2>4. RefExact(a)'
    <3>1. Frames(Holding, a)' = Frames(Holding, a) /\ Frames(Holding, a) \in Nat
      BY <1>3 DEF Worked, Working, Moves, Holding, One
    <3>2. RefExact(a)
      BY <1>3 DEF Worked, Working, LifeInv
    <3> QED BY <1>2, <1>3, <1>4, <3>1, <3>2 DEF RefExact, One
  <2>5. CallsBack(a)'
    BY <1>2, <1>3, <1>4 DEF Worked, Working, LifeInv, CallsBack, Moves, One
  <2>6. FreedLast(a)'
    BY <1>2, <1>3, <1>4 DEF Worked, Working, LifeInv, FreedLast, Moves, One
  <2> QED BY <2>1, <2>2, <2>3, <2>4, <2>5, <2>6 DEF LifeInv
<1>7. ChildKept(a)
  <2> SUFFICES ASSUME a \in Children
               PROVE  ChildInv(a)' /\ Owing(a)' <= Owing(a)
    BY DEF ChildKept
  <2>1. EndsByItself(a)'
    BY <1>2, <1>3, <1>4 DEF Worked, Working, ChildInv, EndsByItself, Carrying, Moves, One
  <2>2. AbortsCall(a)'
    BY <1>2, <1>3, <1>4 DEF Worked, Working, ChildInv, AbortsCall, Moves, One
  <2>3. BornInside(a)'
    BY <1>2, <1>3, <1>4, <1>5
       DEF Worked, Working, ChildInv, BornInside, OthersKept, RootStays, Moves, One
  <2>4. Owing(a)' <= Owing(a)
    BY <1>2, <1>3, <1>4 DEF Worked, Working, Owing, Moves, One
  <2> QED BY <2>1, <2>2, <2>3, <2>4 DEF ChildInv
<1>8. RootKept(a)
  BY AsyncAssumption DEF RootKept
<1> QED BY <1>3, <1>5, <1>6, <1>7, <1>8, OneSteps DEF Worked

LEMMA SubmitSendStartsKeepsWork ==
  ASSUME WorkInv, StreamInv', NEW th \in Threads, NEW a \in Asyncs,
         SubmitSend(th, a), a \in Children, Call(th, AsyncLeave(a)),
         io' = [io EXCEPT ![a] = "pending"]
  PROVE  WorkInv'
<1>1. /\ At(th, "submit", a) /\ Call(th, <<Frame("unlock", a), Frame("release", a)>>)
      /\ io' = [io EXCEPT ![a] = "pending"]
      /\ UNCHANGED <<life, ref, called, handle, timer, canceled, completed, child>>
  BY DEF SubmitSend, SetRequest, Submit, operation, request, rest, history, AsyncLeave
<1>2. life[a] = "live" /\ a \in {Root} \union Children
  BY <1>1, Lives DEF Outside
<1>3. /\ Worked(a, "submit", "unlock", "release", "-")
      /\ \A ops : "submit" \in ops => Frames(ops, a) >= 1
  <2>1. Does(Frame("unlock", a), "unlock", a) /\ Does(Frame("release", a), "release", a)
    BY <1>2, DoesOp, DoesCall
  <2> QED BY <1>1, <2>1, Work2
<1>4. /\ life'[a] = life[a] /\ ref'[a] = ref[a] /\ called'[a] = called[a] /\ handle'[a] = handle[a]
      /\ timer'[a] = timer[a] /\ io'[a] = "pending"
      /\ canceled'[a] = canceled[a] /\ completed'[a] = completed[a]
      /\ ref[a] \in Int /\ completed[a] \in Int
  BY <1>1, <1>3 DEF Worked, Working, LifeTypes
<1>5. OthersKept(a)
  <2>1. LifeTyped
    BY <1>1, <1>3 DEF Worked, Working, LifeTyped, LifeTypes
  <2>2. Linked' /\ CallsAreNested'
    BY <1>1, <1>2, <1>3 DEF Worked, Working, LifeTypes, Linked, CallsAreNested
  <2>3. \A b \in Asyncs \ {a} : Untouched(b)
    BY <1>1, <1>3 DEF Worked, Working, LifeTypes, Untouched
  <2>4. RootStays
    BY <1>1, <1>3 DEF Worked, Working, LifeTypes, RootStays
  <2> QED BY <2>1, <2>2, <2>3, <2>4 DEF OthersKept
<1>6. LifeInv(a)'
  <2>1. NothingBefore(a)'
    BY <1>2, <1>4 DEF NothingBefore
  <2>2. BornOnce(a)'
    BY <1>2, <1>3, <1>4 DEF Worked, Working, LifeInv, BornOnce, Moves, One
  <2>3. TimedOnce(a)'
    BY <1>2, <1>3, <1>4 DEF Worked, Working, LifeInv, TimedOnce, Timing, Moves, One
  <2>4. RefExact(a)'
    <3>1. Frames(Holding, a)' = Frames(Holding, a) /\ Frames(Holding, a) \in Nat
      BY <1>3 DEF Worked, Working, Moves, Holding, One
    <3>2. RefExact(a)
      BY <1>3 DEF Worked, Working, LifeInv
    <3> QED BY <1>2, <1>3, <1>4, <3>1, <3>2 DEF RefExact, One
  <2>5. CallsBack(a)'
    BY <1>2, <1>3, <1>4 DEF Worked, Working, LifeInv, CallsBack, Moves, One
  <2>6. FreedLast(a)'
    BY <1>2, <1>3, <1>4 DEF Worked, Working, LifeInv, FreedLast, Moves, One
  <2> QED BY <2>1, <2>2, <2>3, <2>4, <2>5, <2>6 DEF LifeInv
<1>7. ChildKept(a)
  <2> SUFFICES ASSUME a \in Children
               PROVE  ChildInv(a)' /\ Owing(a)' <= Owing(a)
    BY DEF ChildKept
  <2>1. EndsByItself(a)'
    BY <1>2, <1>3, <1>4 DEF Worked, Working, ChildInv, EndsByItself, Carrying, Moves, One
  <2>2. AbortsCall(a)'
    BY <1>2, <1>3, <1>4 DEF Worked, Working, ChildInv, AbortsCall, Moves, One
  <2>3. BornInside(a)'
    BY <1>2, <1>3, <1>4, <1>5
       DEF Worked, Working, ChildInv, BornInside, OthersKept, RootStays, Moves, One
  <2>4. Owing(a)' <= Owing(a)
    BY <1>2, <1>3, <1>4 DEF Worked, Working, Owing, Moves, One
  <2> QED BY <2>1, <2>2, <2>3, <2>4 DEF ChildInv
<1>8. RootKept(a)
  BY AsyncAssumption DEF RootKept
<1> QED BY <1>3, <1>5, <1>6, <1>7, <1>8, OneSteps DEF Worked

LEMMA SubmitSendFailsKeepsWork ==
  ASSUME WorkInv, StreamInv', NEW th \in Threads, NEW a \in Asyncs,
         SubmitSend(th, a), a \in Children, UNCHANGED io, Call(th, AsyncLeave(a) \o <<Frame("notify", a)>>)
  PROVE  WorkInv'
<1>1. /\ At(th, "submit", a) /\ Call(th, AsyncLeave(a) \o <<Frame("notify", a)>>)
      /\ UNCHANGED <<life, ref, called, handle, timer, io, canceled, completed, child>>
  BY DEF SubmitSend, SetRequest, Submit, operation, request, rest, history
<1>2. life[a] = "live" /\ a \in {Root} \union Children
  BY <1>1, Lives DEF Outside
<1>3. /\ Worked(a, "submit", "unlock", "release", "notify")
      /\ \A ops : "submit" \in ops => Frames(ops, a) >= 1
  <2>1. /\ Does(Frame("unlock", a), "unlock", a) /\ Does(Frame("release", a), "release", a)
        /\ Does(Frame("notify", a), "notify", a)
    BY <1>2, DoesOp
  <2>2. Call(th, <<Frame("unlock", a), Frame("release", a), Frame("notify", a)>>)
    BY <1>1, Triples DEF AsyncLeave
  <2> QED BY <1>1, <2>1, <2>2, Work3
<1>4. /\ life'[a] = life[a] /\ ref'[a] = ref[a] /\ called'[a] = called[a] /\ handle'[a] = handle[a]
      /\ timer'[a] = timer[a] /\ io'[a] = io[a]
      /\ canceled'[a] = canceled[a] /\ completed'[a] = completed[a]
      /\ ref[a] \in Int /\ completed[a] \in Int
  BY <1>1, <1>3 DEF Worked, Working, LifeTypes
<1>5. OthersKept(a)
  <2>1. LifeTyped
    BY <1>1, <1>3 DEF Worked, Working, LifeTyped, LifeTypes
  <2>2. Linked' /\ CallsAreNested'
    BY <1>1, <1>2, <1>3 DEF Worked, Working, LifeTypes, Linked, CallsAreNested
  <2>3. \A b \in Asyncs \ {a} : Untouched(b)
    BY <1>1, <1>3 DEF Worked, Working, LifeTypes, Untouched
  <2>4. RootStays
    BY <1>1, <1>3 DEF Worked, Working, LifeTypes, RootStays
  <2> QED BY <2>1, <2>2, <2>3, <2>4 DEF OthersKept
<1>6. LifeInv(a)'
  <2>1. NothingBefore(a)'
    BY <1>2, <1>4 DEF NothingBefore
  <2>2. BornOnce(a)'
    BY <1>2, <1>3, <1>4 DEF Worked, Working, LifeInv, BornOnce, Moves, One
  <2>3. TimedOnce(a)'
    BY <1>2, <1>3, <1>4 DEF Worked, Working, LifeInv, TimedOnce, Timing, Moves, One
  <2>4. RefExact(a)'
    <3>1. Frames(Holding, a)' = Frames(Holding, a) /\ Frames(Holding, a) \in Nat
      BY <1>3 DEF Worked, Working, Moves, Holding, One
    <3>2. RefExact(a)
      BY <1>3 DEF Worked, Working, LifeInv
    <3> QED BY <1>2, <1>3, <1>4, <3>1, <3>2 DEF RefExact, One
  <2>5. CallsBack(a)'
    BY <1>2, <1>3, <1>4 DEF Worked, Working, LifeInv, CallsBack, Moves, One
  <2>6. FreedLast(a)'
    BY <1>2, <1>3, <1>4 DEF Worked, Working, LifeInv, FreedLast, Moves, One
  <2> QED BY <2>1, <2>2, <2>3, <2>4, <2>5, <2>6 DEF LifeInv
<1>7. ChildKept(a)
  <2> SUFFICES ASSUME a \in Children
               PROVE  ChildInv(a)' /\ Owing(a)' <= Owing(a)
    BY DEF ChildKept
  <2>1. EndsByItself(a)'
    BY <1>2, <1>3, <1>4 DEF Worked, Working, ChildInv, EndsByItself, Carrying, Moves, One
  <2>2. AbortsCall(a)'
    BY <1>2, <1>3, <1>4 DEF Worked, Working, ChildInv, AbortsCall, Moves, One
  <2>3. BornInside(a)'
    BY <1>2, <1>3, <1>4, <1>5
       DEF Worked, Working, ChildInv, BornInside, OthersKept, RootStays, Moves, One
  <2>4. Owing(a)' <= Owing(a)
    BY <1>2, <1>3, <1>4 DEF Worked, Working, Owing, Moves, One
  <2> QED BY <2>1, <2>2, <2>3, <2>4 DEF ChildInv
<1>8. RootKept(a)
  BY AsyncAssumption DEF RootKept
<1> QED BY <1>3, <1>5, <1>6, <1>7, <1>8, OneSteps DEF Worked

\* It takes the timer out of the tree.
LEMMA NotifyTakesTimerKeepsWork ==
  ASSUME WorkInv, StreamInv', NEW th \in Threads, NEW a \in Asyncs,
         Notify(th, a), timer[a] = "armed"
  PROVE  WorkInv'
<1>1. /\ At(th, "notify", a) /\ Call(th, <<Frame("release", a)>> \o <<Carry(th, "async_notify", a)>>)
      /\ timer[a] = "armed"
      /\ timer' = [timer EXCEPT ![a] = "gone"]
      /\ UNCHANGED <<life, ref, called, handle, io, canceled, completed, child>>
  BY DEF Notify, CancelTimerThen, request, rest, history
<1>2. life[a] = "live" /\ a \in {Root} \union Children
  BY <1>1, Lives DEF Outside
<1>3. /\ Worked(a, "notify", "release", "async_notify", "-")
      /\ \A ops : "notify" \in ops => Frames(ops, a) >= 1
  <2>1. Head(stack[th]) \in FrameType
    BY <1>1, AtWork
  <2>2. Does(Frame("release", a), "release", a) /\ Does(Carry(th, "async_notify", a), "async_notify", a)
    BY <1>2, <2>1, DoesOp
  <2>3. Call(th, <<Frame("release", a), Carry(th, "async_notify", a)>>)
    BY <1>1, Tuples
  <2> QED BY <1>1, <2>2, <2>3, Work2
<1>4. /\ life'[a] = life[a] /\ ref'[a] = ref[a] /\ called'[a] = called[a] /\ handle'[a] = handle[a]
      /\ timer'[a] = "gone" /\ io'[a] = io[a]
      /\ canceled'[a] = canceled[a] /\ completed'[a] = completed[a]
      /\ ref[a] \in Int /\ completed[a] \in Int
  BY <1>1, <1>3 DEF Worked, Working, LifeTypes
<1>5. OthersKept(a)
  <2>1. LifeTyped
    BY <1>1, <1>3 DEF Worked, Working, LifeTyped, LifeTypes
  <2>2. Linked' /\ CallsAreNested'
    BY <1>1, <1>2, <1>3 DEF Worked, Working, LifeTypes, Linked, CallsAreNested
  <2>3. \A b \in Asyncs \ {a} : Untouched(b)
    BY <1>1, <1>3 DEF Worked, Working, LifeTypes, Untouched
  <2>4. RootStays
    BY <1>1, <1>3 DEF Worked, Working, LifeTypes, RootStays
  <2> QED BY <2>1, <2>2, <2>3, <2>4 DEF OthersKept
<1>6. LifeInv(a)'
  <2>1. NothingBefore(a)'
    BY <1>2, <1>4 DEF NothingBefore
  <2>2. BornOnce(a)'
    BY <1>2, <1>3, <1>4 DEF Worked, Working, LifeInv, BornOnce, Moves, One
  <2>3. TimedOnce(a)'
    BY <1>2, <1>3, <1>4 DEF Worked, Working, LifeInv, TimedOnce, Timing, Moves, One
  <2>4. RefExact(a)'
    <3>1. Frames(Holding, a)' = Frames(Holding, a) + 1 /\ Frames(Holding, a) \in Nat
      BY <1>3 DEF Worked, Working, Moves, Holding, One
    <3>2. RefExact(a)
      BY <1>3 DEF Worked, Working, LifeInv
    <3> QED BY <1>2, <1>3, <1>4, <3>1, <3>2 DEF RefExact, One
  <2>5. CallsBack(a)'
    BY <1>2, <1>3, <1>4 DEF Worked, Working, LifeInv, CallsBack, Moves, One
  <2>6. FreedLast(a)'
    BY <1>2, <1>3, <1>4 DEF Worked, Working, LifeInv, FreedLast, Moves, One
  <2> QED BY <2>1, <2>2, <2>3, <2>4, <2>5, <2>6 DEF LifeInv
<1>7. ChildKept(a)
  <2> SUFFICES ASSUME a \in Children
               PROVE  ChildInv(a)' /\ Owing(a)' <= Owing(a)
    BY DEF ChildKept
  <2>1. EndsByItself(a)'
    BY <1>2, <1>3, <1>4 DEF Worked, Working, ChildInv, EndsByItself, Carrying, Moves, One
  <2>2. AbortsCall(a)'
    BY <1>2, <1>3, <1>4 DEF Worked, Working, ChildInv, AbortsCall, Moves, One
  <2>3. BornInside(a)'
    BY <1>2, <1>3, <1>4, <1>5
       DEF Worked, Working, ChildInv, BornInside, OthersKept, RootStays, Moves, One
  <2>4. Owing(a)' <= Owing(a)
    BY <1>2, <1>3, <1>4 DEF Worked, Working, Owing, Moves, One
  <2> QED BY <2>1, <2>2, <2>3, <2>4 DEF ChildInv
<1>8. RootKept(a)
  BY <1>2, <1>3, <1>4 DEF RootKept, Worked, Working, Opens, Reports, Moves, One
<1> QED BY <1>3, <1>5, <1>6, <1>7, <1>8, OneSteps DEF Worked

LEMMA NotifyKeepsWork ==
  ASSUME WorkInv, StreamInv', NEW th \in Threads, NEW a \in Asyncs,
         Notify(th, a), timer[a] # "armed"
  PROVE  WorkInv'
<1>1. /\ At(th, "notify", a) /\ Call(th, <<Carry(th, "async_notify", a)>>)
      /\ timer[a] # "armed"
      /\ timer' = [timer EXCEPT ![a] = timer[a]]
      /\ UNCHANGED <<life, ref, called, handle, io, canceled, completed, child>>
  BY DEF Notify, CancelTimerThen, request, rest, history
<1>2. life[a] = "live" /\ a \in {Root} \union Children
  BY <1>1, Lives DEF Outside
<1>3. /\ Worked(a, "notify", "async_notify", "-", "-")
      /\ \A ops : "notify" \in ops => Frames(ops, a) >= 1
  <2>1. Head(stack[th]) \in FrameType
    BY <1>1, AtWork
  <2>2. Does(Frame("release", a), "release", a) /\ Does(Carry(th, "async_notify", a), "async_notify", a)
    BY <1>2, <2>1, DoesOp
  <2> QED BY <1>1, <2>2, Work1
<1>4. /\ life'[a] = life[a] /\ ref'[a] = ref[a] /\ called'[a] = called[a] /\ handle'[a] = handle[a]
      /\ timer'[a] = timer[a] /\ io'[a] = io[a]
      /\ canceled'[a] = canceled[a] /\ completed'[a] = completed[a]
      /\ ref[a] \in Int /\ completed[a] \in Int
  BY <1>1, <1>3 DEF Worked, Working, LifeTypes
<1>5. OthersKept(a)
  <2>1. LifeTyped
    BY <1>1, <1>3 DEF Worked, Working, LifeTyped, LifeTypes
  <2>2. Linked' /\ CallsAreNested'
    BY <1>1, <1>2, <1>3 DEF Worked, Working, LifeTypes, Linked, CallsAreNested
  <2>3. \A b \in Asyncs \ {a} : Untouched(b)
    BY <1>1, <1>3 DEF Worked, Working, LifeTypes, Untouched
  <2>4. RootStays
    BY <1>1, <1>3 DEF Worked, Working, LifeTypes, RootStays
  <2> QED BY <2>1, <2>2, <2>3, <2>4 DEF OthersKept
<1>6. LifeInv(a)'
  <2>1. NothingBefore(a)'
    BY <1>2, <1>4 DEF NothingBefore
  <2>2. BornOnce(a)'
    BY <1>2, <1>3, <1>4 DEF Worked, Working, LifeInv, BornOnce, Moves, One
  <2>3. TimedOnce(a)'
    BY <1>2, <1>3, <1>4 DEF Worked, Working, LifeInv, TimedOnce, Timing, Moves, One
  <2>4. RefExact(a)'
    <3>1. Frames(Holding, a)' = Frames(Holding, a) /\ Frames(Holding, a) \in Nat
      BY <1>3 DEF Worked, Working, Moves, Holding, One
    <3>2. RefExact(a)
      BY <1>3 DEF Worked, Working, LifeInv
    <3> QED BY <1>2, <1>3, <1>4, <3>1, <3>2 DEF RefExact, One
  <2>5. CallsBack(a)'
    BY <1>2, <1>3, <1>4 DEF Worked, Working, LifeInv, CallsBack, Moves, One
  <2>6. FreedLast(a)'
    BY <1>2, <1>3, <1>4 DEF Worked, Working, LifeInv, FreedLast, Moves, One
  <2> QED BY <2>1, <2>2, <2>3, <2>4, <2>5, <2>6 DEF LifeInv
<1>7. ChildKept(a)
  <2> SUFFICES ASSUME a \in Children
               PROVE  ChildInv(a)' /\ Owing(a)' <= Owing(a)
    BY DEF ChildKept
  <2>1. EndsByItself(a)'
    BY <1>2, <1>3, <1>4 DEF Worked, Working, ChildInv, EndsByItself, Carrying, Moves, One
  <2>2. AbortsCall(a)'
    BY <1>2, <1>3, <1>4 DEF Worked, Working, ChildInv, AbortsCall, Moves, One
  <2>3. BornInside(a)'
    BY <1>2, <1>3, <1>4, <1>5
       DEF Worked, Working, ChildInv, BornInside, OthersKept, RootStays, Moves, One
  <2>4. Owing(a)' <= Owing(a)
    BY <1>2, <1>3, <1>4 DEF Worked, Working, Owing, Moves, One
  <2> QED BY <2>1, <2>2, <2>3, <2>4 DEF ChildInv
<1>8. RootKept(a)
  BY <1>2, <1>3, <1>4 DEF RootKept, Worked, Working, Opens, Reports, Moves, One
<1> QED BY <1>3, <1>5, <1>6, <1>7, <1>8, OneSteps DEF Worked

LEMMA AsyncCancelTakesTimerKeepsWork ==
  ASSUME WorkInv, StreamInv', NEW th \in Threads, NEW a \in Asyncs,
         AsyncCancel(th, a), timer[a] = "armed"
  PROVE  WorkInv'
<1>1. /\ At(th, "cancel", a) /\ Call(th, <<Frame("release", a)>> \o <<Frame("_cancel", a)>>)
      /\ timer[a] = "armed"
      /\ timer' = [timer EXCEPT ![a] = "gone"]
      /\ UNCHANGED <<life, ref, called, handle, io, canceled, completed, child>>
  BY DEF AsyncCancel, CancelTimerThen, request, rest, history
<1>2. life[a] = "live" /\ a \in {Root} \union Children
  BY <1>1, Lives DEF Outside
<1>3. /\ Worked(a, "cancel", "release", "_cancel", "-")
      /\ \A ops : "cancel" \in ops => Frames(ops, a) >= 1
  <2>1. Head(stack[th]) \in FrameType
    BY <1>1, AtWork
  <2>2. Does(Frame("release", a), "release", a) /\ Does(Frame("_cancel", a), "_cancel", a)
    BY <1>2, <2>1, DoesOp
  <2>3. Call(th, <<Frame("release", a), Frame("_cancel", a)>>)
    BY <1>1, Tuples
  <2> QED BY <1>1, <2>2, <2>3, Work2
<1>4. /\ life'[a] = life[a] /\ ref'[a] = ref[a] /\ called'[a] = called[a] /\ handle'[a] = handle[a]
      /\ timer'[a] = "gone" /\ io'[a] = io[a]
      /\ canceled'[a] = canceled[a] /\ completed'[a] = completed[a]
      /\ ref[a] \in Int /\ completed[a] \in Int
  BY <1>1, <1>3 DEF Worked, Working, LifeTypes
<1>5. OthersKept(a)
  <2>1. LifeTyped
    BY <1>1, <1>3 DEF Worked, Working, LifeTyped, LifeTypes
  <2>2. Linked' /\ CallsAreNested'
    BY <1>1, <1>2, <1>3 DEF Worked, Working, LifeTypes, Linked, CallsAreNested
  <2>3. \A b \in Asyncs \ {a} : Untouched(b)
    BY <1>1, <1>3 DEF Worked, Working, LifeTypes, Untouched
  <2>4. RootStays
    BY <1>1, <1>3 DEF Worked, Working, LifeTypes, RootStays
  <2> QED BY <2>1, <2>2, <2>3, <2>4 DEF OthersKept
<1>6. LifeInv(a)'
  <2>1. NothingBefore(a)'
    BY <1>2, <1>4 DEF NothingBefore
  <2>2. BornOnce(a)'
    BY <1>2, <1>3, <1>4 DEF Worked, Working, LifeInv, BornOnce, Moves, One
  <2>3. TimedOnce(a)'
    BY <1>2, <1>3, <1>4 DEF Worked, Working, LifeInv, TimedOnce, Timing, Moves, One
  <2>4. RefExact(a)'
    <3>1. Frames(Holding, a)' = Frames(Holding, a) + 1 /\ Frames(Holding, a) \in Nat
      BY <1>3 DEF Worked, Working, Moves, Holding, One
    <3>2. RefExact(a)
      BY <1>3 DEF Worked, Working, LifeInv
    <3> QED BY <1>2, <1>3, <1>4, <3>1, <3>2 DEF RefExact, One
  <2>5. CallsBack(a)'
    BY <1>2, <1>3, <1>4 DEF Worked, Working, LifeInv, CallsBack, Moves, One
  <2>6. FreedLast(a)'
    BY <1>2, <1>3, <1>4 DEF Worked, Working, LifeInv, FreedLast, Moves, One
  <2> QED BY <2>1, <2>2, <2>3, <2>4, <2>5, <2>6 DEF LifeInv
<1>7. ChildKept(a)
  <2> SUFFICES ASSUME a \in Children
               PROVE  ChildInv(a)' /\ Owing(a)' <= Owing(a)
    BY DEF ChildKept
  <2>1. EndsByItself(a)'
    BY <1>2, <1>3, <1>4 DEF Worked, Working, ChildInv, EndsByItself, Carrying, Moves, One
  <2>2. AbortsCall(a)'
    BY <1>2, <1>3, <1>4 DEF Worked, Working, ChildInv, AbortsCall, Moves, One
  <2>3. BornInside(a)'
    BY <1>2, <1>3, <1>4, <1>5
       DEF Worked, Working, ChildInv, BornInside, OthersKept, RootStays, Moves, One
  <2>4. Owing(a)' <= Owing(a)
    BY <1>2, <1>3, <1>4 DEF Worked, Working, Owing, Moves, One
  <2> QED BY <2>1, <2>2, <2>3, <2>4 DEF ChildInv
<1>8. RootKept(a)
  BY <1>2, <1>3, <1>4 DEF RootKept, Worked, Working, Opens, Reports, Moves, One
<1> QED BY <1>3, <1>5, <1>6, <1>7, <1>8, OneSteps DEF Worked

LEMMA AsyncCancelKeepsWork ==
  ASSUME WorkInv, StreamInv', NEW th \in Threads, NEW a \in Asyncs,
         AsyncCancel(th, a), timer[a] # "armed"
  PROVE  WorkInv'
<1>1. /\ At(th, "cancel", a) /\ Call(th, <<Frame("_cancel", a)>>)
      /\ timer[a] # "armed"
      /\ timer' = [timer EXCEPT ![a] = timer[a]]
      /\ UNCHANGED <<life, ref, called, handle, io, canceled, completed, child>>
  BY DEF AsyncCancel, CancelTimerThen, request, rest, history
<1>2. life[a] = "live" /\ a \in {Root} \union Children
  BY <1>1, Lives DEF Outside
<1>3. Worked(a, "cancel", "_cancel", "-", "-") /\ \A ops : "cancel" \in ops => Frames(ops, a) >= 1
  <2>1. Head(stack[th]) \in FrameType
    BY <1>1, AtWork
  <2>2. Does(Frame("release", a), "release", a) /\ Does(Frame("_cancel", a), "_cancel", a)
    BY <1>2, <2>1, DoesOp
  <2> QED BY <1>1, <2>2, Work1
<1>4. /\ life'[a] = life[a] /\ ref'[a] = ref[a] /\ called'[a] = called[a] /\ handle'[a] = handle[a]
      /\ timer'[a] = timer[a] /\ io'[a] = io[a]
      /\ canceled'[a] = canceled[a] /\ completed'[a] = completed[a]
      /\ ref[a] \in Int /\ completed[a] \in Int
  BY <1>1, <1>3 DEF Worked, Working, LifeTypes
<1>5. OthersKept(a)
  <2>1. LifeTyped
    BY <1>1, <1>3 DEF Worked, Working, LifeTyped, LifeTypes
  <2>2. Linked' /\ CallsAreNested'
    BY <1>1, <1>2, <1>3 DEF Worked, Working, LifeTypes, Linked, CallsAreNested
  <2>3. \A b \in Asyncs \ {a} : Untouched(b)
    BY <1>1, <1>3 DEF Worked, Working, LifeTypes, Untouched
  <2>4. RootStays
    BY <1>1, <1>3 DEF Worked, Working, LifeTypes, RootStays
  <2> QED BY <2>1, <2>2, <2>3, <2>4 DEF OthersKept
<1>6. LifeInv(a)'
  <2>1. NothingBefore(a)'
    BY <1>2, <1>4 DEF NothingBefore
  <2>2. BornOnce(a)'
    BY <1>2, <1>3, <1>4 DEF Worked, Working, LifeInv, BornOnce, Moves, One
  <2>3. TimedOnce(a)'
    BY <1>2, <1>3, <1>4 DEF Worked, Working, LifeInv, TimedOnce, Timing, Moves, One
  <2>4. RefExact(a)'
    <3>1. Frames(Holding, a)' = Frames(Holding, a) /\ Frames(Holding, a) \in Nat
      BY <1>3 DEF Worked, Working, Moves, Holding, One
    <3>2. RefExact(a)
      BY <1>3 DEF Worked, Working, LifeInv
    <3> QED BY <1>2, <1>3, <1>4, <3>1, <3>2 DEF RefExact, One
  <2>5. CallsBack(a)'
    BY <1>2, <1>3, <1>4 DEF Worked, Working, LifeInv, CallsBack, Moves, One
  <2>6. FreedLast(a)'
    BY <1>2, <1>3, <1>4 DEF Worked, Working, LifeInv, FreedLast, Moves, One
  <2> QED BY <2>1, <2>2, <2>3, <2>4, <2>5, <2>6 DEF LifeInv
<1>7. ChildKept(a)
  <2> SUFFICES ASSUME a \in Children
               PROVE  ChildInv(a)' /\ Owing(a)' <= Owing(a)
    BY DEF ChildKept
  <2>1. EndsByItself(a)'
    BY <1>2, <1>3, <1>4 DEF Worked, Working, ChildInv, EndsByItself, Carrying, Moves, One
  <2>2. AbortsCall(a)'
    BY <1>2, <1>3, <1>4 DEF Worked, Working, ChildInv, AbortsCall, Moves, One
  <2>3. BornInside(a)'
    BY <1>2, <1>3, <1>4, <1>5
       DEF Worked, Working, ChildInv, BornInside, OthersKept, RootStays, Moves, One
  <2>4. Owing(a)' <= Owing(a)
    BY <1>2, <1>3, <1>4 DEF Worked, Working, Owing, Moves, One
  <2> QED BY <2>1, <2>2, <2>3, <2>4 DEF ChildInv
<1>8. RootKept(a)
  BY <1>2, <1>3, <1>4 DEF RootKept, Worked, Working, Opens, Reports, Moves, One
<1> QED BY <1>3, <1>5, <1>6, <1>7, <1>8, OneSteps DEF Worked

\* Another thread has called back, or will.
LEMMA AsyncNotifyAgainKeepsWork ==
  ASSUME WorkInv, StreamInv', NEW th \in Threads, NEW a \in Asyncs,
         AsyncNotify(th, a), called[a]
  PROVE  WorkInv'
<1>1. /\ At(th, "async_notify", a) /\ Call(th, << >>) /\ called[a]
      /\ called' = [called EXCEPT ![a] = TRUE]
      /\ UNCHANGED <<life, ref, handle, timer, io, canceled, completed, child>>
  BY DEF AsyncNotify, request, rest, history
<1>2. life[a] = "live" /\ a \in {Root} \union Children
  BY <1>1, Lives DEF Outside
<1>3. /\ Worked(a, "async_notify", "-", "-", "-")
      /\ \A ops : "async_notify" \in ops => Frames(ops, a) >= 1
  BY <1>1, Work0
<1>4. /\ life'[a] = life[a] /\ ref'[a] = ref[a] /\ called'[a] = TRUE /\ handle'[a] = handle[a]
      /\ timer'[a] = timer[a] /\ io'[a] = io[a]
      /\ canceled'[a] = canceled[a] /\ completed'[a] = completed[a]
      /\ ref[a] \in Int /\ completed[a] \in Int
  BY <1>1, <1>3 DEF Worked, Working, LifeTypes
<1>5. OthersKept(a)
  <2>1. LifeTyped
    BY <1>1, <1>3 DEF Worked, Working, LifeTyped, LifeTypes
  <2>2. Linked' /\ CallsAreNested'
    BY <1>1, <1>2, <1>3 DEF Worked, Working, LifeTypes, Linked, CallsAreNested
  <2>3. \A b \in Asyncs \ {a} : Untouched(b)
    BY <1>1, <1>3 DEF Worked, Working, LifeTypes, Untouched
  <2>4. RootStays
    BY <1>1, <1>3 DEF Worked, Working, LifeTypes, RootStays
  <2> QED BY <2>1, <2>2, <2>3, <2>4 DEF OthersKept
<1>6. LifeInv(a)'
  <2>1. NothingBefore(a)'
    BY <1>2, <1>4 DEF NothingBefore
  <2>2. BornOnce(a)'
    BY <1>2, <1>3, <1>4 DEF Worked, Working, LifeInv, BornOnce, Moves, One
  <2>3. TimedOnce(a)'
    BY <1>2, <1>3, <1>4 DEF Worked, Working, LifeInv, TimedOnce, Timing, Moves, One
  <2>4. RefExact(a)'
    <3>1. Frames(Holding, a)' = Frames(Holding, a) /\ Frames(Holding, a) \in Nat
      BY <1>3 DEF Worked, Working, Moves, Holding, One
    <3>2. RefExact(a)
      BY <1>3 DEF Worked, Working, LifeInv
    <3> QED BY <1>2, <1>3, <1>4, <3>1, <3>2 DEF RefExact, One
  <2>5. CallsBack(a)'
    BY <1>2, <1>3, <1>4 DEF Worked, Working, LifeInv, CallsBack, Moves, One
  <2>6. FreedLast(a)'
    BY <1>2, <1>3, <1>4 DEF Worked, Working, LifeInv, FreedLast, Moves, One
  <2> QED BY <2>1, <2>2, <2>3, <2>4, <2>5, <2>6 DEF LifeInv
<1>7. ChildKept(a)
  <2> SUFFICES ASSUME a \in Children
               PROVE  ChildInv(a)' /\ Owing(a)' <= Owing(a)
    BY DEF ChildKept
  <2>1. EndsByItself(a)'
    BY <1>2, <1>3, <1>4 DEF Worked, Working, ChildInv, EndsByItself, Carrying, Moves, One
  <2>2. AbortsCall(a)'
    BY <1>2, <1>3, <1>4 DEF Worked, Working, ChildInv, AbortsCall, Moves, One
  <2>3. BornInside(a)'
    BY <1>2, <1>3, <1>4, <1>5
       DEF Worked, Working, ChildInv, BornInside, OthersKept, RootStays, Moves, One
  <2>4. Owing(a)' <= Owing(a)
    BY <1>2, <1>3, <1>4 DEF Worked, Working, Owing, Moves, One
  <2> QED BY <2>1, <2>2, <2>3, <2>4 DEF ChildInv
<1>8. RootKept(a)
  BY <1>2, <1>3, <1>4 DEF RootKept, Worked, Working, Opens, Reports, Moves, One
<1> QED BY <1>3, <1>5, <1>6, <1>7, <1>8, OneSteps DEF Worked

\* This one will.
LEMMA AsyncNotifyKeepsWork ==
  ASSUME WorkInv, StreamInv', NEW th \in Threads, NEW a \in Asyncs,
         AsyncNotify(th, a), ~called[a]
  PROVE  WorkInv'
<1>1. /\ At(th, "async_notify", a) /\ Call(th, <<Carry(th, "callback", a), Frame("release", a)>>)
      /\ ~called[a] /\ called' = [called EXCEPT ![a] = TRUE]
      /\ UNCHANGED <<life, ref, handle, timer, io, canceled, completed, child>>
  BY DEF AsyncNotify, request, rest, history
<1>2. life[a] = "live" /\ a \in {Root} \union Children
  BY <1>1, Lives DEF Outside
<1>3. /\ Worked(a, "async_notify", "callback", "release", "-")
      /\ \A ops : "async_notify" \in ops => Frames(ops, a) >= 1
  <2>1. Head(stack[th]) \in FrameType
    BY <1>1, AtWork
  <2>2. Does(Carry(th, "callback", a), "callback", a) /\ Does(Frame("release", a), "release", a)
    BY <1>2, <2>1, DoesOp
  <2> QED BY <1>1, <2>2, Work2
<1>4. /\ life'[a] = life[a] /\ ref'[a] = ref[a] /\ called'[a] = TRUE /\ handle'[a] = handle[a]
      /\ timer'[a] = timer[a] /\ io'[a] = io[a]
      /\ canceled'[a] = canceled[a] /\ completed'[a] = completed[a]
      /\ ref[a] \in Int /\ completed[a] \in Int
  BY <1>1, <1>3 DEF Worked, Working, LifeTypes
<1>5. OthersKept(a)
  <2>1. LifeTyped
    BY <1>1, <1>3 DEF Worked, Working, LifeTyped, LifeTypes
  <2>2. Linked' /\ CallsAreNested'
    BY <1>1, <1>2, <1>3 DEF Worked, Working, LifeTypes, Linked, CallsAreNested
  <2>3. \A b \in Asyncs \ {a} : Untouched(b)
    BY <1>1, <1>3 DEF Worked, Working, LifeTypes, Untouched
  <2>4. RootStays
    BY <1>1, <1>3 DEF Worked, Working, LifeTypes, RootStays
  <2> QED BY <2>1, <2>2, <2>3, <2>4 DEF OthersKept
<1>6. LifeInv(a)'
  <2>1. NothingBefore(a)'
    BY <1>2, <1>4 DEF NothingBefore
  <2>2. BornOnce(a)'
    BY <1>2, <1>3, <1>4 DEF Worked, Working, LifeInv, BornOnce, Moves, One
  <2>3. TimedOnce(a)'
    BY <1>2, <1>3, <1>4 DEF Worked, Working, LifeInv, TimedOnce, Timing, Moves, One
  <2>4. RefExact(a)'
    <3>1. Frames(Holding, a)' = Frames(Holding, a) + 1 /\ Frames(Holding, a) \in Nat
      BY <1>3 DEF Worked, Working, Moves, Holding, One
    <3>2. RefExact(a)
      BY <1>3 DEF Worked, Working, LifeInv
    <3> QED BY <1>2, <1>3, <1>4, <3>1, <3>2 DEF RefExact, One
  <2>5. CallsBack(a)'
    BY <1>2, <1>3, <1>4 DEF Worked, Working, LifeInv, CallsBack, Moves, One
  <2>6. FreedLast(a)'
    BY <1>2, <1>3, <1>4 DEF Worked, Working, LifeInv, FreedLast, Moves, One
  <2> QED BY <2>1, <2>2, <2>3, <2>4, <2>5, <2>6 DEF LifeInv
<1>7. ChildKept(a)
  <2> SUFFICES ASSUME a \in Children
               PROVE  ChildInv(a)' /\ Owing(a)' <= Owing(a)
    BY DEF ChildKept
  <2>1. EndsByItself(a)'
    BY <1>2, <1>3, <1>4 DEF Worked, Working, ChildInv, EndsByItself, Carrying, Moves, One
  <2>2. AbortsCall(a)'
    BY <1>2, <1>3, <1>4 DEF Worked, Working, ChildInv, AbortsCall, Moves, One
  <2>3. BornInside(a)'
    BY <1>2, <1>3, <1>4, <1>5
       DEF Worked, Working, ChildInv, BornInside, OthersKept, RootStays, Moves, One
  <2>4. Owing(a)' <= Owing(a)
    BY <1>2, <1>3, <1>4 DEF Worked, Working, Owing, Moves, One
  <2> QED BY <2>1, <2>2, <2>3, <2>4 DEF ChildInv
<1>8. RootKept(a)
  BY <1>2, <1>3, <1>4 DEF RootKept, Worked, Working, Opens, Reports, Moves, One
<1> QED BY <1>3, <1>5, <1>6, <1>7, <1>8, OneSteps DEF Worked

\* A reference remains.
LEMMA ReleaseKeepsWork ==
  ASSUME WorkInv, StreamInv', NEW th \in Threads, NEW a \in Asyncs,
         Release(th, a), ref[a] > 1
  PROVE  WorkInv'
<1>1. /\ At(th, "release", a) /\ Call(th, << >>)
      /\ ref' = [ref EXCEPT ![a] = @ - 1]
      /\ UNCHANGED <<life, called, handle, timer, io, canceled, completed, child>>
  BY DEF Release, request, rest, history
<1>2. life[a] = "live" /\ a \in {Root} \union Children
  BY <1>1, Lives DEF Outside
<1>3. Worked(a, "release", "-", "-", "-") /\ \A ops : "release" \in ops => Frames(ops, a) >= 1
  BY <1>1, Work0
<1>4. /\ life'[a] = life[a] /\ ref'[a] = ref[a] - 1 /\ called'[a] = called[a] /\ handle'[a] = handle[a]
      /\ timer'[a] = timer[a] /\ io'[a] = io[a]
      /\ canceled'[a] = canceled[a] /\ completed'[a] = completed[a]
      /\ ref[a] \in Int /\ completed[a] \in Int
  BY <1>1, <1>3 DEF Worked, Working, LifeTypes
<1>5. OthersKept(a)
  <2>1. LifeTyped
    BY <1>1, <1>3 DEF Worked, Working, LifeTyped, LifeTypes
  <2>2. Linked' /\ CallsAreNested'
    BY <1>1, <1>2, <1>3 DEF Worked, Working, LifeTypes, Linked, CallsAreNested
  <2>3. \A b \in Asyncs \ {a} : Untouched(b)
    BY <1>1, <1>3 DEF Worked, Working, LifeTypes, Untouched
  <2>4. RootStays
    BY <1>1, <1>3 DEF Worked, Working, LifeTypes, RootStays
  <2> QED BY <2>1, <2>2, <2>3, <2>4 DEF OthersKept
<1>6. LifeInv(a)'
  <2>1. NothingBefore(a)'
    BY <1>2, <1>4 DEF NothingBefore
  <2>2. BornOnce(a)'
    BY <1>2, <1>3, <1>4 DEF Worked, Working, LifeInv, BornOnce, Moves, One
  <2>3. TimedOnce(a)'
    BY <1>2, <1>3, <1>4 DEF Worked, Working, LifeInv, TimedOnce, Timing, Moves, One
  <2>4. RefExact(a)'
    <3>1. Frames(Holding, a)' = Frames(Holding, a) - 1 /\ Frames(Holding, a) \in Nat
      BY <1>3 DEF Worked, Working, Moves, Holding, One
    <3>2. RefExact(a)
      BY <1>3 DEF Worked, Working, LifeInv
    <3> QED BY <1>2, <1>3, <1>4, <3>1, <3>2 DEF RefExact, One
  <2>5. CallsBack(a)'
    BY <1>2, <1>3, <1>4 DEF Worked, Working, LifeInv, CallsBack, Moves, One
  <2>6. FreedLast(a)'
    BY <1>2, <1>3, <1>4 DEF Worked, Working, LifeInv, FreedLast, Moves, One
  <2> QED BY <2>1, <2>2, <2>3, <2>4, <2>5, <2>6 DEF LifeInv
<1>7. ChildKept(a)
  <2> SUFFICES ASSUME a \in Children
               PROVE  ChildInv(a)' /\ Owing(a)' <= Owing(a)
    BY DEF ChildKept
  <2>1. EndsByItself(a)'
    BY <1>2, <1>3, <1>4 DEF Worked, Working, ChildInv, EndsByItself, Carrying, Moves, One
  <2>2. AbortsCall(a)'
    BY <1>2, <1>3, <1>4 DEF Worked, Working, ChildInv, AbortsCall, Moves, One
  <2>3. BornInside(a)'
    BY <1>2, <1>3, <1>4, <1>5
       DEF Worked, Working, ChildInv, BornInside, OthersKept, RootStays, Moves, One
  <2>4. Owing(a)' <= Owing(a)
    BY <1>2, <1>3, <1>4 DEF Worked, Working, Owing, Moves, One
  <2> QED BY <2>1, <2>2, <2>3, <2>4 DEF ChildInv
<1>8. RootKept(a)
  BY <1>2, <1>3, <1>4 DEF RootKept, Worked, Working, Opens, Reports, Moves, One
<1> QED BY <1>3, <1>5, <1>6, <1>7, <1>8, OneSteps DEF Worked

\* It was the last one: nobody will use the operation.
LEMMA LastReleaseKeepsWork ==
  ASSUME WorkInv, StreamInv', NEW th \in Threads, NEW a \in Asyncs,
         Release(th, a), ~(ref[a] > 1)
  PROVE  WorkInv'
<1>1. /\ At(th, "release", a) /\ Call(th, <<Frame("destroy", a)>>) /\ ~(ref[a] > 1)
      /\ ref' = [ref EXCEPT ![a] = @ - 1]
      /\ UNCHANGED <<life, called, handle, timer, io, canceled, completed, child>>
  BY DEF Release, request, rest, history
<1>2. life[a] = "live" /\ a \in {Root} \union Children
  BY <1>1, Lives DEF Outside
<1>3. Worked(a, "release", "destroy", "-", "-") /\ \A ops : "release" \in ops => Frames(ops, a) >= 1
  <2>1. Does(Frame("destroy", a), "destroy", a)
    BY <1>2, DoesOp, DoesCall
  <2> QED BY <1>1, <2>1, Work1
<1>4. /\ life'[a] = life[a] /\ ref'[a] = ref[a] - 1 /\ called'[a] = called[a] /\ handle'[a] = handle[a]
      /\ timer'[a] = timer[a] /\ io'[a] = io[a]
      /\ canceled'[a] = canceled[a] /\ completed'[a] = completed[a]
      /\ ref[a] \in Int /\ completed[a] \in Int
  BY <1>1, <1>3 DEF Worked, Working, LifeTypes
<1>5. called[a] /\ Frames({"callback"}, a) = 0
  <2>1. ref[a] = One(~called[a]) + One(timer[a] = "armed") + Frames(Holding, a)
    BY <1>2, <1>3 DEF Worked, Working, LifeInv, RefExact
  <2>2. Frames(Holding, a) >= 1 /\ Frames(Holding, a) \in Nat
    BY <1>3 DEF Holding, Worked, Working
  <2>3. called[a] /\ Frames(Holding, a) <= 1
    BY <1>1, <1>4, <2>1, <2>2 DEF One
  <2> QED BY <1>1, <2>2, <2>3, CallerHolds
<1>6. OthersKept(a)
  <2>1. LifeTyped
    BY <1>1, <1>3 DEF Worked, Working, LifeTyped, LifeTypes
  <2>2. Linked' /\ CallsAreNested'
    BY <1>1, <1>2, <1>3 DEF Worked, Working, LifeTypes, Linked, CallsAreNested
  <2>3. \A b \in Asyncs \ {a} : Untouched(b)
    BY <1>1, <1>3 DEF Worked, Working, LifeTypes, Untouched
  <2>4. RootStays
    BY <1>1, <1>3 DEF Worked, Working, LifeTypes, RootStays
  <2> QED BY <2>1, <2>2, <2>3, <2>4 DEF OthersKept
<1>7. LifeInv(a)'
  <2>1. NothingBefore(a)'
    BY <1>2, <1>4 DEF NothingBefore
  <2>2. BornOnce(a)'
    BY <1>2, <1>3, <1>4 DEF Worked, Working, LifeInv, BornOnce, Moves, One
  <2>3. TimedOnce(a)'
    BY <1>2, <1>3, <1>4 DEF Worked, Working, LifeInv, TimedOnce, Timing, Moves, One
  <2>4. RefExact(a)'
    <3>1. Frames(Holding, a)' = Frames(Holding, a) - 1 /\ Frames(Holding, a) \in Nat
      BY <1>3 DEF Worked, Working, Moves, Holding, One
    <3>2. RefExact(a)
      BY <1>3 DEF Worked, Working, LifeInv
    <3> QED BY <1>2, <1>3, <1>4, <3>1, <3>2 DEF RefExact, One
  <2>5. CallsBack(a)'
    BY <1>2, <1>3, <1>4 DEF Worked, Working, LifeInv, CallsBack, Moves, One
  <2>6. FreedLast(a)'
    BY <1>2, <1>3, <1>4, <1>5 DEF Worked, Working, LifeInv, FreedLast, Moves, One
  <2> QED BY <2>1, <2>2, <2>3, <2>4, <2>5, <2>6 DEF LifeInv
<1>8. ChildKept(a)
  <2> SUFFICES ASSUME a \in Children
               PROVE  ChildInv(a)' /\ Owing(a)' <= Owing(a)
    BY DEF ChildKept
  <2>1. EndsByItself(a)'
    BY <1>2, <1>3, <1>4 DEF Worked, Working, ChildInv, EndsByItself, Carrying, Moves, One
  <2>2. AbortsCall(a)'
    BY <1>2, <1>3, <1>4 DEF Worked, Working, ChildInv, AbortsCall, Moves, One
  <2>3. BornInside(a)'
    BY <1>2, <1>3, <1>4, <1>6
       DEF Worked, Working, ChildInv, BornInside, OthersKept, RootStays, Moves, One
  <2>4. Owing(a)' <= Owing(a)
    BY <1>2, <1>3, <1>4 DEF Worked, Working, Owing, Moves, One
  <2> QED BY <2>1, <2>2, <2>3, <2>4 DEF ChildInv
<1>9. RootKept(a)
  BY <1>2, <1>3, <1>4 DEF RootKept, Worked, Working, Opens, Reports, Moves, One
<1> QED BY <1>3, <1>6, <1>7, <1>8, <1>9, OneSteps DEF Worked

\* CancelIoEx finds the call.
LEMMA CancelCallKeepsWork ==
  ASSUME WorkInv, StreamInv', NEW th \in Threads, NEW a \in Asyncs,
         Cancel(th, a), CancelCall(th, a)
  PROVE  WorkInv'
<1>1. /\ At(th, "_cancel", a) /\ Call(th, << >>) /\ io[a] = "pending"
      /\ canceled' = [canceled EXCEPT ![a] = TRUE]
      /\ io' = [io EXCEPT ![a] = "queued"]
      /\ handle' = [handle EXCEPT ![a] = FALSE]
      /\ UNCHANGED <<life, ref, called, timer, completed, child>>
  BY DEF Cancel, CancelCall, Return
<1>2. life[a] = "live" /\ a \in {Root} \union Children
  BY <1>1, Lives DEF Outside
<1>3. Worked(a, "_cancel", "-", "-", "-") /\ \A ops : "_cancel" \in ops => Frames(ops, a) >= 1
  BY <1>1, Work0
<1>4. /\ life'[a] = life[a] /\ ref'[a] = ref[a] /\ called'[a] = called[a] /\ handle'[a] = FALSE
      /\ timer'[a] = timer[a] /\ io'[a] = "queued"
      /\ canceled'[a] = TRUE /\ completed'[a] = completed[a]
      /\ ref[a] \in Int /\ completed[a] \in Int
  BY <1>1, <1>3 DEF Worked, Working, LifeTypes
<1>5. a \in Children /\ Frames({"recv", "submit"}, a) = 0
  <2>1. a \in Children
    BY <1>1, <1>3 DEF Worked, Working, CallsAreNested
  <2>2. ~canceled[a] /\ Frames(Carrying, a) <= 0 /\ Frames(Carrying, a) \in Nat
    BY <1>1, <1>3, <2>1 DEF Worked, Working, ChildInv, EndsByItself, AbortsCall, One
  <2>3. Frames({"recv", "submit"}, a) <= Frames(Carrying, a) /\ Frames({"recv", "submit"}, a) \in Nat
    BY FewerFrames DEF Carrying
  <2> QED BY <2>1, <2>2, <2>3
<1>6. OthersKept(a)
  <2>1. LifeTyped
    BY <1>1, <1>3 DEF Worked, Working, LifeTyped, LifeTypes
  <2>2. Linked' /\ CallsAreNested'
    BY <1>1, <1>2, <1>3, <1>5 DEF Worked, Working, LifeTypes, Linked, CallsAreNested
  <2>3. \A b \in Asyncs \ {a} : Untouched(b)
    BY <1>1, <1>3, <1>5 DEF Worked, Working, LifeTypes, Untouched
  <2>4. RootStays
    BY <1>1, <1>3 DEF Worked, Working, LifeTypes, RootStays
  <2> QED BY <2>1, <2>2, <2>3, <2>4 DEF OthersKept
<1>7. LifeInv(a)'
  <2>1. NothingBefore(a)'
    BY <1>2, <1>4 DEF NothingBefore
  <2>2. BornOnce(a)'
    BY <1>2, <1>3, <1>4 DEF Worked, Working, LifeInv, BornOnce, Moves, One
  <2>3. TimedOnce(a)'
    BY <1>2, <1>3, <1>4 DEF Worked, Working, LifeInv, TimedOnce, Timing, Moves, One
  <2>4. RefExact(a)'
    <3>1. Frames(Holding, a)' = Frames(Holding, a) /\ Frames(Holding, a) \in Nat
      BY <1>3 DEF Worked, Working, Moves, Holding, One
    <3>2. RefExact(a)
      BY <1>3 DEF Worked, Working, LifeInv
    <3> QED BY <1>2, <1>3, <1>4, <3>1, <3>2 DEF RefExact, One
  <2>5. CallsBack(a)'
    BY <1>2, <1>3, <1>4 DEF Worked, Working, LifeInv, CallsBack, Moves, One
  <2>6. FreedLast(a)'
    BY <1>2, <1>3, <1>4 DEF Worked, Working, LifeInv, FreedLast, Moves, One
  <2> QED BY <2>1, <2>2, <2>3, <2>4, <2>5, <2>6 DEF LifeInv
<1>8. ChildKept(a)
  <2> SUFFICES ASSUME a \in Children
               PROVE  ChildInv(a)' /\ Owing(a)' <= Owing(a)
    BY DEF ChildKept
  <2>1. EndsByItself(a)'
    BY <1>2, <1>3, <1>4 DEF Worked, Working, ChildInv, EndsByItself, Carrying, Moves, One
  <2>2. AbortsCall(a)'
    BY <1>2, <1>3, <1>4, <1>5 DEF Worked, Working, ChildInv, AbortsCall, Moves, One
  <2>3. BornInside(a)'
    BY <1>2, <1>3, <1>4, <1>6
       DEF Worked, Working, ChildInv, BornInside, OthersKept, RootStays, Moves, One
  <2>4. Owing(a)' <= Owing(a)
    BY <1>2, <1>3, <1>4 DEF Worked, Working, Owing, Moves, One
  <2> QED BY <2>1, <2>2, <2>3, <2>4 DEF ChildInv
<1>9. RootKept(a)
  BY <1>2, <1>3, <1>4 DEF RootKept, Worked, Working, Opens, Reports, Moves, One
<1> QED BY <1>3, <1>6, <1>7, <1>8, <1>9, OneSteps DEF Worked

\* It finds nothing.
LEMMA CancelDirectlyKeepsWork ==
  ASSUME WorkInv, StreamInv', NEW th \in Threads, NEW a \in Asyncs,
         Cancel(th, a), CancelDirectly(th, a)
  PROVE  WorkInv'
<1>1. /\ At(th, "_cancel", a) /\ Call(th, <<Frame("notify", a)>>) /\ ~(handle[a] /\ io[a] = "pending")
      /\ CanEnter(th, a) /\ canceled' = [canceled EXCEPT ![a] = TRUE]
      /\ UNCHANGED <<life, ref, called, handle, timer, io, completed, child>>
  BY DEF Cancel, CancelDirectly
<1>2. life[a] = "live" /\ a \in {Root} \union Children
  BY <1>1, Lives DEF Outside
<1>3. Worked(a, "_cancel", "notify", "-", "-") /\ \A ops : "_cancel" \in ops => Frames(ops, a) >= 1
  <2>1. Does(Frame("notify", a), "notify", a)
    BY <1>2, DoesOp, DoesCall
  <2> QED BY <1>1, <2>1, Work1
<1>4. /\ life'[a] = life[a] /\ ref'[a] = ref[a] /\ called'[a] = called[a] /\ handle'[a] = handle[a]
      /\ timer'[a] = timer[a] /\ io'[a] = io[a]
      /\ canceled'[a] = TRUE /\ completed'[a] = completed[a]
      /\ ref[a] \in Int /\ completed[a] \in Int
  BY <1>1, <1>3 DEF Worked, Working, LifeTypes
<1>5. a \in Children => Frames({"recv", "submit"}, a) = 0
  <2> SUFFICES ASSUME a \in Children, ~canceled[a]
               PROVE  Frames({"recv", "submit"}, a) = 0
    BY <1>3 DEF Worked, Working, ChildInv, AbortsCall
  <2>1. stack \in Stacks /\ Finite(stack) /\ LockIsOnTop(a) /\ stack[th] # << >>
        /\ Head(stack[th]).op = "_cancel"
    BY <1>1, AtWork DEF WorkInv, StreamInv
  <2>2. lock[a].owner = None
    BY <1>1, <2>1 DEF LockIsOnTop, CanEnter, InMonitor
  <2>3. \A t \in Threads : \A k \in DOMAIN stack[t] : stack[t][k] \in FrameType
    BY <2>1 DEF Stacks
  <2>4. \A t \in Threads : \A k \in DOMAIN stack[t] : ~IsOf(stack[t][k], {"recv", "submit"}, a)
    BY <2>1, <2>2, <2>3, AsyncAssumption DEF LockIsOnTop, InMonitor, IsOf
  <2> QED BY <2>1, <2>4, NoFrames
<1>6. OthersKept(a)
  <2>1. LifeTyped
    BY <1>1, <1>3 DEF Worked, Working, LifeTyped, LifeTypes
  <2>2. Linked' /\ CallsAreNested'
    BY <1>1, <1>2, <1>3 DEF Worked, Working, LifeTypes, Linked, CallsAreNested
  <2>3. \A b \in Asyncs \ {a} : Untouched(b)
    BY <1>1, <1>3 DEF Worked, Working, LifeTypes, Untouched
  <2>4. RootStays
    BY <1>1, <1>3 DEF Worked, Working, LifeTypes, RootStays
  <2> QED BY <2>1, <2>2, <2>3, <2>4 DEF OthersKept
<1>7. LifeInv(a)'
  <2>1. NothingBefore(a)'
    BY <1>2, <1>4 DEF NothingBefore
  <2>2. BornOnce(a)'
    BY <1>2, <1>3, <1>4 DEF Worked, Working, LifeInv, BornOnce, Moves, One
  <2>3. TimedOnce(a)'
    BY <1>2, <1>3, <1>4 DEF Worked, Working, LifeInv, TimedOnce, Timing, Moves, One
  <2>4. RefExact(a)'
    <3>1. Frames(Holding, a)' = Frames(Holding, a) /\ Frames(Holding, a) \in Nat
      BY <1>3 DEF Worked, Working, Moves, Holding, One
    <3>2. RefExact(a)
      BY <1>3 DEF Worked, Working, LifeInv
    <3> QED BY <1>2, <1>3, <1>4, <3>1, <3>2 DEF RefExact, One
  <2>5. CallsBack(a)'
    BY <1>2, <1>3, <1>4 DEF Worked, Working, LifeInv, CallsBack, Moves, One
  <2>6. FreedLast(a)'
    BY <1>2, <1>3, <1>4 DEF Worked, Working, LifeInv, FreedLast, Moves, One
  <2> QED BY <2>1, <2>2, <2>3, <2>4, <2>5, <2>6 DEF LifeInv
<1>8. ChildKept(a)
  <2> SUFFICES ASSUME a \in Children
               PROVE  ChildInv(a)' /\ Owing(a)' <= Owing(a)
    BY DEF ChildKept
  <2>1. EndsByItself(a)'
    BY <1>2, <1>3, <1>4 DEF Worked, Working, ChildInv, EndsByItself, Carrying, Moves, One
  <2>2. AbortsCall(a)'
    BY <1>2, <1>3, <1>4, <1>1, <1>5 DEF Worked, Working, ChildInv, AbortsCall, Moves, One
  <2>3. BornInside(a)'
    BY <1>2, <1>3, <1>4, <1>6
       DEF Worked, Working, ChildInv, BornInside, OthersKept, RootStays, Moves, One
  <2>4. Owing(a)' <= Owing(a)
    BY <1>2, <1>3, <1>4 DEF Worked, Working, Owing, Moves, One
  <2> QED BY <2>1, <2>2, <2>3, <2>4 DEF ChildInv
<1>9. RootKept(a)
  BY <1>2, <1>3, <1>4 DEF RootKept, Worked, Working, Opens, Reports, Moves, One
<1> QED BY <1>3, <1>6, <1>7, <1>8, <1>9, OneSteps DEF Worked

-----------------------------------------------------------------------------
(* An operation is created *)

\* It will have a timer.
LEMMA NewTimedKeepsWork ==
  ASSUME WorkInv, StreamInv', NEW th \in Threads, NEW a \in Asyncs,
         New(th, a), a \in Timed
  PROVE  WorkInv'
<1>1. /\ At(th, "new", a) /\ Call(th, <<Frame("add_timer_ref", a)>>)
      /\ life' = [life EXCEPT ![a] = "live"]
      /\ ref' = [ref EXCEPT ![a] = 1]
      /\ child' = [p \in Asyncs |-> IF p = Parent(a) THEN a ELSE child[p]]
      /\ UNCHANGED <<called, handle, timer, io, canceled, completed>>
  BY DEF New, request, rest, history
<1>2. a \in {Root} \union Children
  BY <1>1, AtWork
<1>3. Worked(a, "new", "add_timer_ref", "-", "-") /\ \A ops : "new" \in ops => Frames(ops, a) >= 1
  <2>1. Does(Frame("add_timer_ref", a), "add_timer_ref", a)
    BY <1>2, DoesOp, DoesCall
  <2> QED BY <1>1, <2>1, Work1
<1>4. /\ life'[a] = "live" /\ ref'[a] = 1 /\ called'[a] = called[a] /\ handle'[a] = handle[a]
      /\ timer'[a] = timer[a] /\ io'[a] = io[a]
      /\ canceled'[a] = canceled[a] /\ completed'[a] = completed[a]
      /\ ref[a] \in Int /\ completed[a] \in Int
  BY <1>1, <1>3 DEF Worked, Working, LifeTypes
<1>5. /\ life[a] = "none" /\ ~called[a] /\ timer[a] = "idle" /\ completed[a] = 0
      /\ Frames(Later, a) = 0 /\ Frames({"new"}, a) = 1
  <2>1. life[a] = "none" /\ Frames({"new"}, a) = 1
    BY <1>3 DEF Worked, Working, LifeInv, BornOnce, One
  <2>2. NothingBefore(a)
    BY <1>3 DEF Worked, Working, LifeInv
  <2>3. ~called[a] /\ timer[a] = "idle" /\ Frames(Later, a) = 0
    BY <2>1, <2>2 DEF NothingBefore
  <2>4. Frames({"callback"}, a) <= Frames(Later, a) /\ Frames({"callback"}, a) \in Nat
    BY FewerFrames DEF Later, Operations, Waiting
  <2>5. Frames({"callback"}, a) + completed[a] = 0 /\ completed[a] \in Int
    BY <1>3, <2>3 DEF Worked, Working, LifeInv, CallsBack, One, LifeTypes
  <2> QED BY <2>1, <2>3, <2>4, <2>5
<1>6. /\ Frames(Holding, a) = 0 /\ Frames(Timing, a) = 0
       /\ Frames({"callback"}, a) = 0 /\ Frames({"destroy"}, a) = 0
  <2>1. Holding \subseteq Later /\ Timing \subseteq Later /\ {"callback"} \subseteq Later /\ {"destroy"} \subseteq Later
    BY DEF Holding, Timing, Later, Operations, Waiting
  <2> QED BY <1>5, <2>1, FewerFrames
<1>7. OthersKept(a)
  <2>1. LifeTyped
    BY <1>1, <1>3 DEF Worked, Working, LifeTyped, LifeTypes
  <2>2. Linked' /\ CallsAreNested'
    BY <1>1, <1>2, <1>3, <1>5, AsyncAssumption
       DEF Parent, Asyncs, Worked, Working, LifeTypes, Linked, CallsAreNested
  <2>3. \A b \in Asyncs \ {a} : Untouched(b)
    BY <1>1, <1>3, <1>5, AsyncAssumption DEF Parent, Asyncs, Worked, Working, LifeTypes, Untouched
  <2>4. RootStays
    BY <1>1, <1>3 DEF Parent, Asyncs, Worked, Working, LifeTypes, RootStays
  <2> QED BY <2>1, <2>2, <2>3, <2>4 DEF OthersKept
<1>8. LifeInv(a)'
  <2>1. NothingBefore(a)'
    BY <1>2, <1>3, <1>4 DEF Worked, Working, LifeInv, NothingBefore, Moves, One
  <2>2. BornOnce(a)'
    BY <1>2, <1>3, <1>4, <1>5, <1>6 DEF Worked, Working, LifeInv, BornOnce, Moves, One
  <2>3. TimedOnce(a)'
    BY <1>2, <1>3, <1>4, <1>5, <1>6 DEF Worked, Working, LifeInv, TimedOnce, Timing, Moves, One
  <2>4. RefExact(a)'
    <3>1. Frames(Holding, a)' = Frames(Holding, a) /\ Frames(Holding, a) \in Nat
      BY <1>3 DEF Worked, Working, Moves, Holding, One
    <3>2. RefExact(a)
      BY <1>3 DEF Worked, Working, LifeInv
    <3> QED BY <1>2, <1>3, <1>4, <3>1, <3>2, <1>5, <1>6 DEF RefExact, One
  <2>5. CallsBack(a)'
    BY <1>2, <1>3, <1>4, <1>5, <1>6 DEF Worked, Working, LifeInv, CallsBack, Moves, One
  <2>6. FreedLast(a)'
    BY <1>2, <1>3, <1>4, <1>5, <1>6 DEF Worked, Working, LifeInv, FreedLast, Moves, One
  <2> QED BY <2>1, <2>2, <2>3, <2>4, <2>5, <2>6 DEF LifeInv
<1>9. ChildKept(a)
  <2> SUFFICES ASSUME a \in Children
               PROVE  ChildInv(a)' /\ Owing(a)' <= Owing(a)
    BY DEF ChildKept
  <2>1. EndsByItself(a)'
    BY <1>2, <1>3, <1>4, <1>5 DEF Worked, Working, ChildInv, EndsByItself, Carrying, Moves, One
  <2>2. AbortsCall(a)'
    BY <1>2, <1>3, <1>4 DEF Worked, Working, ChildInv, AbortsCall, Moves, One
  <2>3. BornInside(a)'
    BY <1>2, <1>3, <1>4, <1>7
       DEF Worked, Working, ChildInv, BornInside, OthersKept, RootStays, Moves, One
  <2>4. Owing(a)' <= Owing(a)
    BY <1>2, <1>3, <1>4, <1>5 DEF Worked, Working, Owing, Moves, One
  <2> QED BY <2>1, <2>2, <2>3, <2>4 DEF ChildInv
<1>10. RootKept(a)
  BY <1>2, <1>3, <1>4 DEF RootKept, Worked, Working, Opens, Reports, Moves, One
<1> QED BY <1>3, <1>7, <1>8, <1>9, <1>10, OneSteps DEF Worked

\* It has none.
LEMMA NewKeepsWork ==
  ASSUME WorkInv, StreamInv', NEW th \in Threads, NEW a \in Asyncs,
         New(th, a), a \notin Timed
  PROVE  WorkInv'
<1>1. /\ At(th, "new", a) /\ Call(th, << >>)
      /\ life' = [life EXCEPT ![a] = "live"]
      /\ ref' = [ref EXCEPT ![a] = 1]
      /\ child' = [p \in Asyncs |-> IF p = Parent(a) THEN a ELSE child[p]]
      /\ UNCHANGED <<called, handle, timer, io, canceled, completed>>
  BY DEF New, request, rest, history
<1>2. a \in {Root} \union Children
  BY <1>1, AtWork
<1>3. Worked(a, "new", "-", "-", "-") /\ \A ops : "new" \in ops => Frames(ops, a) >= 1
  BY <1>1, Work0
<1>4. /\ life'[a] = "live" /\ ref'[a] = 1 /\ called'[a] = called[a] /\ handle'[a] = handle[a]
      /\ timer'[a] = timer[a] /\ io'[a] = io[a]
      /\ canceled'[a] = canceled[a] /\ completed'[a] = completed[a]
      /\ ref[a] \in Int /\ completed[a] \in Int
  BY <1>1, <1>3 DEF Worked, Working, LifeTypes
<1>5. /\ life[a] = "none" /\ ~called[a] /\ timer[a] = "idle" /\ completed[a] = 0
      /\ Frames(Later, a) = 0 /\ Frames({"new"}, a) = 1
  <2>1. life[a] = "none" /\ Frames({"new"}, a) = 1
    BY <1>3 DEF Worked, Working, LifeInv, BornOnce, One
  <2>2. NothingBefore(a)
    BY <1>3 DEF Worked, Working, LifeInv
  <2>3. ~called[a] /\ timer[a] = "idle" /\ Frames(Later, a) = 0
    BY <2>1, <2>2 DEF NothingBefore
  <2>4. Frames({"callback"}, a) <= Frames(Later, a) /\ Frames({"callback"}, a) \in Nat
    BY FewerFrames DEF Later, Operations, Waiting
  <2>5. Frames({"callback"}, a) + completed[a] = 0 /\ completed[a] \in Int
    BY <1>3, <2>3 DEF Worked, Working, LifeInv, CallsBack, One, LifeTypes
  <2> QED BY <2>1, <2>3, <2>4, <2>5
<1>6. /\ Frames(Holding, a) = 0 /\ Frames(Timing, a) = 0
       /\ Frames({"callback"}, a) = 0 /\ Frames({"destroy"}, a) = 0
  <2>1. Holding \subseteq Later /\ Timing \subseteq Later /\ {"callback"} \subseteq Later /\ {"destroy"} \subseteq Later
    BY DEF Holding, Timing, Later, Operations, Waiting
  <2> QED BY <1>5, <2>1, FewerFrames
<1>7. OthersKept(a)
  <2>1. LifeTyped
    BY <1>1, <1>3 DEF Worked, Working, LifeTyped, LifeTypes
  <2>2. Linked' /\ CallsAreNested'
    BY <1>1, <1>2, <1>3, <1>5, AsyncAssumption
       DEF Parent, Asyncs, Worked, Working, LifeTypes, Linked, CallsAreNested
  <2>3. \A b \in Asyncs \ {a} : Untouched(b)
    BY <1>1, <1>3, <1>5, AsyncAssumption DEF Parent, Asyncs, Worked, Working, LifeTypes, Untouched
  <2>4. RootStays
    BY <1>1, <1>3 DEF Parent, Asyncs, Worked, Working, LifeTypes, RootStays
  <2> QED BY <2>1, <2>2, <2>3, <2>4 DEF OthersKept
<1>8. LifeInv(a)'
  <2>1. NothingBefore(a)'
    BY <1>2, <1>3, <1>4 DEF Worked, Working, LifeInv, NothingBefore, Moves, One
  <2>2. BornOnce(a)'
    BY <1>2, <1>3, <1>4, <1>5, <1>6 DEF Worked, Working, LifeInv, BornOnce, Moves, One
  <2>3. TimedOnce(a)'
    BY <1>2, <1>3, <1>4, <1>5, <1>6 DEF Worked, Working, LifeInv, TimedOnce, Timing, Moves, One
  <2>4. RefExact(a)'
    <3>1. Frames(Holding, a)' = Frames(Holding, a) /\ Frames(Holding, a) \in Nat
      BY <1>3 DEF Worked, Working, Moves, Holding, One
    <3>2. RefExact(a)
      BY <1>3 DEF Worked, Working, LifeInv
    <3> QED BY <1>2, <1>3, <1>4, <3>1, <3>2, <1>5, <1>6 DEF RefExact, One
  <2>5. CallsBack(a)'
    BY <1>2, <1>3, <1>4, <1>5, <1>6 DEF Worked, Working, LifeInv, CallsBack, Moves, One
  <2>6. FreedLast(a)'
    BY <1>2, <1>3, <1>4, <1>5, <1>6 DEF Worked, Working, LifeInv, FreedLast, Moves, One
  <2> QED BY <2>1, <2>2, <2>3, <2>4, <2>5, <2>6 DEF LifeInv
<1>9. ChildKept(a)
  <2> SUFFICES ASSUME a \in Children
               PROVE  ChildInv(a)' /\ Owing(a)' <= Owing(a)
    BY DEF ChildKept
  <2>1. EndsByItself(a)'
    BY <1>2, <1>3, <1>4, <1>5 DEF Worked, Working, ChildInv, EndsByItself, Carrying, Moves, One
  <2>2. AbortsCall(a)'
    BY <1>2, <1>3, <1>4 DEF Worked, Working, ChildInv, AbortsCall, Moves, One
  <2>3. BornInside(a)'
    BY <1>2, <1>3, <1>4, <1>7
       DEF Worked, Working, ChildInv, BornInside, OthersKept, RootStays, Moves, One
  <2>4. Owing(a)' <= Owing(a)
    BY <1>2, <1>3, <1>4, <1>5 DEF Worked, Working, Owing, Moves, One
  <2> QED BY <2>1, <2>2, <2>3, <2>4 DEF ChildInv
<1>10. RootKept(a)
  BY <1>2, <1>3, <1>4 DEF RootKept, Worked, Working, Opens, Reports, Moves, One
<1> QED BY <1>3, <1>7, <1>8, <1>9, <1>10, OneSteps DEF Worked

-----------------------------------------------------------------------------
(* A thread begins, or the kernel ends a call *)

LEMMA IoEndsKeepsWork ==
  ASSUME WorkInv, StreamInv', NEW a \in Asyncs,
         IoEnds(a)
  PROVE  WorkInv'
<1>1. /\ io[a] = "pending" /\ stack' = stack
      /\ io' = [io EXCEPT ![a] = "queued"]
      /\ UNCHANGED <<life, ref, called, handle, timer, canceled, completed, child>>
  BY DEF IoEnds, operation, request, rest, history
<1>2. a \in Children /\ life[a] # "none"
  <2>1. Working(a)
    BY Works
  <2> QED BY <1>1, <2>1 DEF Working, CallsAreNested, LifeInv, NothingBefore
<1>3. Worked(a, "-", "-", "-", "-")
  <2>1. /\ stack' \in Stacks /\ Finite(stack') /\ \A t \in Threads : WellFormed(stack'[t])
        /\ \A ops, b : Frames(ops, b)' = Frames(ops, b) /\ Frames(ops, b) \in Nat
    BY <1>1, FramesType DEF WorkInv, StreamInv, StreamTypes, LifeTypes, Frames
  <2>2. \A ops : "-" \notin ops => One("-" \in ops) = 0
    BY DEF One
  <2> QED BY <2>1, <2>2, Works DEF Worked, Moves
<1>4. /\ life'[a] = life[a] /\ ref'[a] = ref[a] /\ called'[a] = called[a] /\ handle'[a] = handle[a]
      /\ timer'[a] = timer[a] /\ io'[a] = "queued"
      /\ canceled'[a] = canceled[a] /\ completed'[a] = completed[a]
      /\ ref[a] \in Int /\ completed[a] \in Int
  BY <1>1, <1>3 DEF Worked, Working, LifeTypes
<1>5. OthersKept(a)
  <2>1. LifeTyped
    BY <1>1, <1>3 DEF Worked, Working, LifeTyped, LifeTypes
  <2>2. Linked' /\ CallsAreNested'
    BY <1>1, <1>2, <1>3 DEF Worked, Working, LifeTypes, Linked, CallsAreNested
  <2>3. \A b \in Asyncs \ {a} : Untouched(b)
    BY <1>1, <1>3 DEF Worked, Working, LifeTypes, Untouched
  <2>4. RootStays
    BY <1>1, <1>3 DEF Worked, Working, LifeTypes, RootStays
  <2> QED BY <2>1, <2>2, <2>3, <2>4 DEF OthersKept
<1>6. LifeInv(a)'
  <2>1. NothingBefore(a)'
    BY <1>2, <1>3, <1>4 DEF Worked, Working, LifeInv, NothingBefore, Moves, One
  <2>2. BornOnce(a)'
    BY <1>2, <1>3, <1>4 DEF Worked, Working, LifeInv, BornOnce, Moves, One
  <2>3. TimedOnce(a)'
    BY <1>2, <1>3, <1>4 DEF Worked, Working, LifeInv, TimedOnce, Timing, Moves, One
  <2>4. RefExact(a)'
    <3>1. Frames(Holding, a)' = Frames(Holding, a) /\ Frames(Holding, a) \in Nat
      BY <1>3 DEF Worked, Working, Moves, Holding, One
    <3>2. RefExact(a)
      BY <1>3 DEF Worked, Working, LifeInv
    <3> QED BY <1>2, <1>3, <1>4, <3>1, <3>2 DEF RefExact, One
  <2>5. CallsBack(a)'
    BY <1>2, <1>3, <1>4 DEF Worked, Working, LifeInv, CallsBack, Moves, One
  <2>6. FreedLast(a)'
    BY <1>2, <1>3, <1>4 DEF Worked, Working, LifeInv, FreedLast, Moves, One
  <2> QED BY <2>1, <2>2, <2>3, <2>4, <2>5, <2>6 DEF LifeInv
<1>7. ChildKept(a)
  <2> SUFFICES ASSUME a \in Children
               PROVE  ChildInv(a)' /\ Owing(a)' <= Owing(a)
    BY DEF ChildKept
  <2>1. EndsByItself(a)'
    BY <1>2, <1>3, <1>4, <1>1 DEF Worked, Working, ChildInv, EndsByItself, Carrying, Moves, One
  <2>2. AbortsCall(a)'
    BY <1>2, <1>3, <1>4, <1>1 DEF Worked, Working, ChildInv, AbortsCall, Moves, One
  <2>3. BornInside(a)'
    BY <1>2, <1>3, <1>4, <1>5
       DEF Worked, Working, ChildInv, BornInside, OthersKept, RootStays, Moves, One
  <2>4. Owing(a)' <= Owing(a)
    BY <1>2, <1>3, <1>4 DEF Worked, Working, Owing, Moves, One
  <2> QED BY <2>1, <2>2, <2>3, <2>4 DEF ChildInv
<1>8. RootKept(a)
  BY <1>2, AsyncAssumption DEF RootKept
<1> QED BY <1>3, <1>5, <1>6, <1>7, <1>8, OneSteps DEF Worked

\* The packet of a call that failed, or of one that succeeded.
LEMMA DequeueFailureKeepsWork ==
  ASSUME WorkInv, StreamInv', NEW th \in Threads, NEW a \in Asyncs,
         Dequeue(th, a), stack' = [stack EXCEPT ![th] = <<Frame("notify", a)>>]
  PROVE  WorkInv'
<1>1. /\ stack[th] = << >> /\ io[a] = "queued"
      /\ stack' = [stack EXCEPT ![th] = <<Frame("notify", a)>>]
      /\ io' = [io EXCEPT ![a] = "done"]
      /\ UNCHANGED <<life, ref, called, handle, timer, canceled, completed, child>>
  BY DEF Dequeue, operation, request, rest, history
<1>2. a \in Children /\ life[a] # "none"
  <2>1. Working(a)
    BY Works
  <2> QED BY <1>1, <2>1 DEF Working, CallsAreNested, LifeInv, NothingBefore
<1>3. Worked(a, "-", "notify", "-", "-")
  <2>1. Does(Frame("notify", a), "notify", a)
    BY <1>2, DoesOp
  <2> QED BY <1>1, <2>1, Work1Begins
<1>4. /\ life'[a] = life[a] /\ ref'[a] = ref[a] /\ called'[a] = called[a] /\ handle'[a] = handle[a]
      /\ timer'[a] = timer[a] /\ io'[a] = "done"
      /\ canceled'[a] = canceled[a] /\ completed'[a] = completed[a]
      /\ ref[a] \in Int /\ completed[a] \in Int
  BY <1>1, <1>3 DEF Worked, Working, LifeTypes
<1>5. OthersKept(a)
  <2>1. LifeTyped
    BY <1>1, <1>3 DEF Worked, Working, LifeTyped, LifeTypes
  <2>2. Linked' /\ CallsAreNested'
    BY <1>1, <1>2, <1>3 DEF Worked, Working, LifeTypes, Linked, CallsAreNested
  <2>3. \A b \in Asyncs \ {a} : Untouched(b)
    BY <1>1, <1>3 DEF Worked, Working, LifeTypes, Untouched
  <2>4. RootStays
    BY <1>1, <1>3 DEF Worked, Working, LifeTypes, RootStays
  <2> QED BY <2>1, <2>2, <2>3, <2>4 DEF OthersKept
<1>6. LifeInv(a)'
  <2>1. NothingBefore(a)'
    BY <1>2, <1>3, <1>4 DEF Worked, Working, LifeInv, NothingBefore, Moves, One
  <2>2. BornOnce(a)'
    BY <1>2, <1>3, <1>4 DEF Worked, Working, LifeInv, BornOnce, Moves, One
  <2>3. TimedOnce(a)'
    BY <1>2, <1>3, <1>4 DEF Worked, Working, LifeInv, TimedOnce, Timing, Moves, One
  <2>4. RefExact(a)'
    <3>1. Frames(Holding, a)' = Frames(Holding, a) /\ Frames(Holding, a) \in Nat
      BY <1>3 DEF Worked, Working, Moves, Holding, One
    <3>2. RefExact(a)
      BY <1>3 DEF Worked, Working, LifeInv
    <3> QED BY <1>2, <1>3, <1>4, <3>1, <3>2 DEF RefExact, One
  <2>5. CallsBack(a)'
    BY <1>2, <1>3, <1>4 DEF Worked, Working, LifeInv, CallsBack, Moves, One
  <2>6. FreedLast(a)'
    BY <1>2, <1>3, <1>4 DEF Worked, Working, LifeInv, FreedLast, Moves, One
  <2> QED BY <2>1, <2>2, <2>3, <2>4, <2>5, <2>6 DEF LifeInv
<1>7. ChildKept(a)
  <2> SUFFICES ASSUME a \in Children
               PROVE  ChildInv(a)' /\ Owing(a)' <= Owing(a)
    BY DEF ChildKept
  <2>1. EndsByItself(a)'
    BY <1>2, <1>3, <1>4, <1>1 DEF Worked, Working, ChildInv, EndsByItself, Carrying, Moves, One
  <2>2. AbortsCall(a)'
    BY <1>2, <1>3, <1>4, <1>1 DEF Worked, Working, ChildInv, AbortsCall, Moves, One
  <2>3. BornInside(a)'
    BY <1>2, <1>3, <1>4, <1>5
       DEF Worked, Working, ChildInv, BornInside, OthersKept, RootStays, Moves, One
  <2>4. Owing(a)' <= Owing(a)
    BY <1>2, <1>3, <1>4 DEF Worked, Working, Owing, Moves, One
  <2> QED BY <2>1, <2>2, <2>3, <2>4 DEF ChildInv
<1>8. RootKept(a)
  BY <1>2, AsyncAssumption DEF RootKept
<1> QED BY <1>3, <1>5, <1>6, <1>7, <1>8, OneSteps DEF Worked

LEMMA DequeueSuccessKeepsWork ==
  ASSUME WorkInv, StreamInv', NEW th \in Threads, NEW a \in Asyncs,
         Dequeue(th, a), stack' = [stack EXCEPT ![th] = <<Success("notify", a)>>]
  PROVE  WorkInv'
<1>1. /\ stack[th] = << >> /\ io[a] = "queued"
      /\ stack' = [stack EXCEPT ![th] = <<Success("notify", a)>>]
      /\ io' = [io EXCEPT ![a] = "done"]
      /\ UNCHANGED <<life, ref, called, handle, timer, canceled, completed, child>>
  BY DEF Dequeue, operation, request, rest, history
<1>2. a \in Children /\ life[a] # "none"
  <2>1. Working(a)
    BY Works
  <2> QED BY <1>1, <2>1 DEF Working, CallsAreNested, LifeInv, NothingBefore
<1>3. Worked(a, "-", "notify", "-", "-")
  <2>1. Does(Success("notify", a), "notify", a)
    BY <1>2, DoesOp
  <2> QED BY <1>1, <2>1, Work1Begins
<1>4. /\ life'[a] = life[a] /\ ref'[a] = ref[a] /\ called'[a] = called[a] /\ handle'[a] = handle[a]
      /\ timer'[a] = timer[a] /\ io'[a] = "done"
      /\ canceled'[a] = canceled[a] /\ completed'[a] = completed[a]
      /\ ref[a] \in Int /\ completed[a] \in Int
  BY <1>1, <1>3 DEF Worked, Working, LifeTypes
<1>5. OthersKept(a)
  <2>1. LifeTyped
    BY <1>1, <1>3 DEF Worked, Working, LifeTyped, LifeTypes
  <2>2. Linked' /\ CallsAreNested'
    BY <1>1, <1>2, <1>3 DEF Worked, Working, LifeTypes, Linked, CallsAreNested
  <2>3. \A b \in Asyncs \ {a} : Untouched(b)
    BY <1>1, <1>3 DEF Worked, Working, LifeTypes, Untouched
  <2>4. RootStays
    BY <1>1, <1>3 DEF Worked, Working, LifeTypes, RootStays
  <2> QED BY <2>1, <2>2, <2>3, <2>4 DEF OthersKept
<1>6. LifeInv(a)'
  <2>1. NothingBefore(a)'
    BY <1>2, <1>3, <1>4 DEF Worked, Working, LifeInv, NothingBefore, Moves, One
  <2>2. BornOnce(a)'
    BY <1>2, <1>3, <1>4 DEF Worked, Working, LifeInv, BornOnce, Moves, One
  <2>3. TimedOnce(a)'
    BY <1>2, <1>3, <1>4 DEF Worked, Working, LifeInv, TimedOnce, Timing, Moves, One
  <2>4. RefExact(a)'
    <3>1. Frames(Holding, a)' = Frames(Holding, a) /\ Frames(Holding, a) \in Nat
      BY <1>3 DEF Worked, Working, Moves, Holding, One
    <3>2. RefExact(a)
      BY <1>3 DEF Worked, Working, LifeInv
    <3> QED BY <1>2, <1>3, <1>4, <3>1, <3>2 DEF RefExact, One
  <2>5. CallsBack(a)'
    BY <1>2, <1>3, <1>4 DEF Worked, Working, LifeInv, CallsBack, Moves, One
  <2>6. FreedLast(a)'
    BY <1>2, <1>3, <1>4 DEF Worked, Working, LifeInv, FreedLast, Moves, One
  <2> QED BY <2>1, <2>2, <2>3, <2>4, <2>5, <2>6 DEF LifeInv
<1>7. ChildKept(a)
  <2> SUFFICES ASSUME a \in Children
               PROVE  ChildInv(a)' /\ Owing(a)' <= Owing(a)
    BY DEF ChildKept
  <2>1. EndsByItself(a)'
    BY <1>2, <1>3, <1>4, <1>1 DEF Worked, Working, ChildInv, EndsByItself, Carrying, Moves, One
  <2>2. AbortsCall(a)'
    BY <1>2, <1>3, <1>4, <1>1 DEF Worked, Working, ChildInv, AbortsCall, Moves, One
  <2>3. BornInside(a)'
    BY <1>2, <1>3, <1>4, <1>5
       DEF Worked, Working, ChildInv, BornInside, OthersKept, RootStays, Moves, One
  <2>4. Owing(a)' <= Owing(a)
    BY <1>2, <1>3, <1>4 DEF Worked, Working, Owing, Moves, One
  <2> QED BY <2>1, <2>2, <2>3, <2>4 DEF ChildInv
<1>8. RootKept(a)
  BY <1>2, AsyncAssumption DEF RootKept
<1> QED BY <1>3, <1>5, <1>6, <1>7, <1>8, OneSteps DEF Worked

\* The poll thread.
LEMMA TimeoutFiresKeepsWork ==
  ASSUME WorkInv, StreamInv', NEW a \in Asyncs,
         TimeoutFires(a)
  PROVE  WorkInv'
<1>1. /\ stack[Poller] = << >> /\ timer[a] = "armed"
      /\ stack' = [stack EXCEPT ![Poller] = <<Frame("_cancel", a), Frame("release", a)>>]
      /\ timer' = [timer EXCEPT ![a] = "gone"]
      /\ UNCHANGED <<life, ref, called, handle, io, canceled, completed, child>>
  BY DEF TimeoutFires, request, rest, history
<1>2. a \in {Root} \union Children /\ life[a] # "none" /\ timer[a] = "armed"
  <2>1. Working(a)
    BY Works
  <2> QED BY <1>1, <2>1 DEF Working, CallsAreNested, LifeInv, NothingBefore, Asyncs
<1>3. Worked(a, "-", "_cancel", "release", "-")
  <2>1. Does(Frame("_cancel", a), "_cancel", a) /\ Does(Frame("release", a), "release", a)
    BY <1>2, DoesOp
  <2>2. Poller \in Threads
    BY DEF Threads
  <2> QED BY <1>1, <2>1, <2>2, Work2Begins
<1>4. /\ life'[a] = life[a] /\ ref'[a] = ref[a] /\ called'[a] = called[a] /\ handle'[a] = handle[a]
      /\ timer'[a] = "gone" /\ io'[a] = io[a]
      /\ canceled'[a] = canceled[a] /\ completed'[a] = completed[a]
      /\ ref[a] \in Int /\ completed[a] \in Int
  BY <1>1, <1>3 DEF Worked, Working, LifeTypes
<1>5. OthersKept(a)
  <2>1. LifeTyped
    BY <1>1, <1>3 DEF Worked, Working, LifeTyped, LifeTypes
  <2>2. Linked' /\ CallsAreNested'
    BY <1>1, <1>2, <1>3 DEF Worked, Working, LifeTypes, Linked, CallsAreNested
  <2>3. \A b \in Asyncs \ {a} : Untouched(b)
    BY <1>1, <1>3 DEF Worked, Working, LifeTypes, Untouched
  <2>4. RootStays
    BY <1>1, <1>3 DEF Worked, Working, LifeTypes, RootStays
  <2> QED BY <2>1, <2>2, <2>3, <2>4 DEF OthersKept
<1>6. LifeInv(a)'
  <2>1. NothingBefore(a)'
    BY <1>2, <1>3, <1>4 DEF Worked, Working, LifeInv, NothingBefore, Moves, One
  <2>2. BornOnce(a)'
    BY <1>2, <1>3, <1>4 DEF Worked, Working, LifeInv, BornOnce, Moves, One
  <2>3. TimedOnce(a)'
    BY <1>2, <1>3, <1>4 DEF Worked, Working, LifeInv, TimedOnce, Timing, Moves, One
  <2>4. RefExact(a)'
    <3>1. Frames(Holding, a)' = Frames(Holding, a) + 1 /\ Frames(Holding, a) \in Nat
      BY <1>3 DEF Worked, Working, Moves, Holding, One
    <3>2. RefExact(a)
      BY <1>3 DEF Worked, Working, LifeInv
    <3> QED BY <1>2, <1>3, <1>4, <3>1, <3>2 DEF RefExact, One
  <2>5. CallsBack(a)'
    BY <1>2, <1>3, <1>4 DEF Worked, Working, LifeInv, CallsBack, Moves, One
  <2>6. FreedLast(a)'
    BY <1>2, <1>3, <1>4 DEF Worked, Working, LifeInv, FreedLast, Moves, One
  <2> QED BY <2>1, <2>2, <2>3, <2>4, <2>5, <2>6 DEF LifeInv
<1>7. ChildKept(a)
  <2> SUFFICES ASSUME a \in Children
               PROVE  ChildInv(a)' /\ Owing(a)' <= Owing(a)
    BY DEF ChildKept
  <2>1. EndsByItself(a)'
    BY <1>2, <1>3, <1>4 DEF Worked, Working, ChildInv, EndsByItself, Carrying, Moves, One
  <2>2. AbortsCall(a)'
    BY <1>2, <1>3, <1>4 DEF Worked, Working, ChildInv, AbortsCall, Moves, One
  <2>3. BornInside(a)'
    BY <1>2, <1>3, <1>4, <1>5
       DEF Worked, Working, ChildInv, BornInside, OthersKept, RootStays, Moves, One
  <2>4. Owing(a)' <= Owing(a)
    BY <1>2, <1>3, <1>4 DEF Worked, Working, Owing, Moves, One
  <2> QED BY <2>1, <2>2, <2>3, <2>4 DEF ChildInv
<1>8. RootKept(a)
  BY <1>2, <1>3, <1>4 DEF RootKept, Worked, Working, Opens, Reports, Moves, One
<1> QED BY <1>3, <1>5, <1>6, <1>7, <1>8, OneSteps DEF Worked

\* A user.
LEMMA AskKeepsWork ==
  ASSUME WorkInv, StreamInv', NEW th \in Threads, NEW a \in Asyncs,
         th \in Cancellers, Ask(th), a = Root
  PROVE  WorkInv'
<1>1. /\ th \notin asked /\ life[a] = "live"
      /\ stack' = [stack EXCEPT ![th] = <<Frame("cancel", a)>>]
      /\ UNCHANGED <<life, ref, called, handle, timer, io, canceled, completed, child>>
  BY DEF Ask, operation, request, history
<1>2. life[a] = "live"
  BY <1>1
<1>3. Worked(a, "-", "cancel", "-", "-")
  <2>1. Does(Frame("cancel", a), "cancel", a)
    BY DoesOp
  <2>2. stack[th] = << >>
    BY <1>1 DEF WorkInv, StreamInv, CancellersRest
  <2> QED BY <1>1, <2>1, <2>2, Work1Begins
<1>4. /\ life'[a] = life[a] /\ ref'[a] = ref[a] /\ called'[a] = called[a] /\ handle'[a] = handle[a]
      /\ timer'[a] = timer[a] /\ io'[a] = io[a]
      /\ canceled'[a] = canceled[a] /\ completed'[a] = completed[a]
      /\ ref[a] \in Int /\ completed[a] \in Int
  BY <1>1, <1>3 DEF Worked, Working, LifeTypes
<1>5. OthersKept(a)
  <2>1. LifeTyped
    BY <1>1, <1>3 DEF Worked, Working, LifeTyped, LifeTypes
  <2>2. Linked' /\ CallsAreNested'
    BY <1>1, <1>2, <1>3 DEF Worked, Working, LifeTypes, Linked, CallsAreNested
  <2>3. \A b \in Asyncs \ {a} : Untouched(b)
    BY <1>1, <1>3 DEF Worked, Working, LifeTypes, Untouched
  <2>4. RootStays
    BY <1>1, <1>3 DEF Worked, Working, LifeTypes, RootStays
  <2> QED BY <2>1, <2>2, <2>3, <2>4 DEF OthersKept
<1>6. LifeInv(a)'
  <2>1. NothingBefore(a)'
    BY <1>2, <1>3, <1>4 DEF Worked, Working, LifeInv, NothingBefore, Moves, One
  <2>2. BornOnce(a)'
    BY <1>2, <1>3, <1>4 DEF Worked, Working, LifeInv, BornOnce, Moves, One
  <2>3. TimedOnce(a)'
    BY <1>2, <1>3, <1>4 DEF Worked, Working, LifeInv, TimedOnce, Timing, Moves, One
  <2>4. RefExact(a)'
    <3>1. Frames(Holding, a)' = Frames(Holding, a) /\ Frames(Holding, a) \in Nat
      BY <1>3 DEF Worked, Working, Moves, Holding, One
    <3>2. RefExact(a)
      BY <1>3 DEF Worked, Working, LifeInv
    <3> QED BY <1>2, <1>3, <1>4, <3>1, <3>2 DEF RefExact, One
  <2>5. CallsBack(a)'
    BY <1>2, <1>3, <1>4 DEF Worked, Working, LifeInv, CallsBack, Moves, One
  <2>6. FreedLast(a)'
    BY <1>2, <1>3, <1>4 DEF Worked, Working, LifeInv, FreedLast, Moves, One
  <2> QED BY <2>1, <2>2, <2>3, <2>4, <2>5, <2>6 DEF LifeInv
<1>7. ChildKept(a)
  <2> SUFFICES ASSUME a \in Children
               PROVE  ChildInv(a)' /\ Owing(a)' <= Owing(a)
    BY DEF ChildKept
  <2>1. EndsByItself(a)'
    BY <1>2, <1>3, <1>4 DEF Worked, Working, ChildInv, EndsByItself, Carrying, Moves, One
  <2>2. AbortsCall(a)'
    BY <1>2, <1>3, <1>4 DEF Worked, Working, ChildInv, AbortsCall, Moves, One
  <2>3. BornInside(a)'
    BY <1>2, <1>3, <1>4, <1>5
       DEF Worked, Working, ChildInv, BornInside, OthersKept, RootStays, Moves, One
  <2>4. Owing(a)' <= Owing(a)
    BY <1>2, <1>3, <1>4 DEF Worked, Working, Owing, Moves, One
  <2> QED BY <2>1, <2>2, <2>3, <2>4 DEF ChildInv
<1>8. RootKept(a)
  BY <1>2, <1>3, <1>4 DEF RootKept, Worked, Working, Opens, Reports, Moves, One
<1> QED BY <1>3, <1>5, <1>6, <1>7, <1>8, OneSteps DEF Worked

\* The issuer makes the user's call.
LEMMA StartsReceiveKeepsWork ==
  ASSUME WorkInv, StreamInv', NEW th \in Threads, NEW a \in Asyncs,
         Start(th, a), a = Root, Call(th, <<Frame("ssl_receive", a)>>)
  PROVE  WorkInv'
<1>1. /\ At(th, "start", a) /\ Call(th, <<Frame("ssl_receive", a)>>)
      /\ UNCHANGED <<life, ref, called, handle, timer, io, canceled, completed, child>>
  BY DEF Start, operation, request, rest, history
<1>2. life[a] = "live" /\ a \in {Root} \union Children
  BY <1>1, Lives DEF Outside
<1>3. Worked(a, "start", "ssl_receive", "-", "-") /\ \A ops : "start" \in ops => Frames(ops, a) >= 1
  <2>1. Does(Frame("ssl_receive", a), "ssl_receive", a)
    BY NewFrames DEF Does, StreamFrame, Operations
  <2> QED BY <1>1, <2>1, Work1
<1>4. /\ life'[a] = life[a] /\ ref'[a] = ref[a] /\ called'[a] = called[a] /\ handle'[a] = handle[a]
      /\ timer'[a] = timer[a] /\ io'[a] = io[a]
      /\ canceled'[a] = canceled[a] /\ completed'[a] = completed[a]
      /\ ref[a] \in Int /\ completed[a] \in Int
  BY <1>1, <1>3 DEF Worked, Working, LifeTypes
<1>5. OthersKept(a)
  <2>1. LifeTyped
    BY <1>1, <1>3 DEF Worked, Working, LifeTyped, LifeTypes
  <2>2. Linked' /\ CallsAreNested'
    BY <1>1, <1>2, <1>3 DEF Worked, Working, LifeTypes, Linked, CallsAreNested
  <2>3. \A b \in Asyncs \ {a} : Untouched(b)
    BY <1>1, <1>3 DEF Worked, Working, LifeTypes, Untouched
  <2>4. RootStays
    BY <1>1, <1>3 DEF Worked, Working, LifeTypes, RootStays
  <2> QED BY <2>1, <2>2, <2>3, <2>4 DEF OthersKept
<1>6. LifeInv(a)'
  <2>1. NothingBefore(a)'
    BY <1>2, <1>4 DEF NothingBefore
  <2>2. BornOnce(a)'
    BY <1>2, <1>3, <1>4 DEF Worked, Working, LifeInv, BornOnce, Moves, One
  <2>3. TimedOnce(a)'
    BY <1>2, <1>3, <1>4 DEF Worked, Working, LifeInv, TimedOnce, Timing, Moves, One
  <2>4. RefExact(a)'
    <3>1. Frames(Holding, a)' = Frames(Holding, a) /\ Frames(Holding, a) \in Nat
      BY <1>3 DEF Worked, Working, Moves, Holding, One
    <3>2. RefExact(a)
      BY <1>3 DEF Worked, Working, LifeInv
    <3> QED BY <1>2, <1>3, <1>4, <3>1, <3>2 DEF RefExact, One
  <2>5. CallsBack(a)'
    BY <1>2, <1>3, <1>4 DEF Worked, Working, LifeInv, CallsBack, Moves, One
  <2>6. FreedLast(a)'
    BY <1>2, <1>3, <1>4 DEF Worked, Working, LifeInv, FreedLast, Moves, One
  <2> QED BY <2>1, <2>2, <2>3, <2>4, <2>5, <2>6 DEF LifeInv
<1>7. ChildKept(a)
  BY AsyncAssumption DEF ChildKept
<1>8. RootKept(a)
  BY <1>2, <1>3, <1>4 DEF RootKept, Worked, Working, Opens, Reports, Moves, One
<1> QED BY <1>3, <1>5, <1>6, <1>7, <1>8, OneSteps DEF Worked

LEMMA StartsSendKeepsWork ==
  ASSUME WorkInv, StreamInv', NEW th \in Threads, NEW a \in Asyncs,
         Start(th, a), a = Root, Call(th, <<Frame("ssl_send", a)>>)
  PROVE  WorkInv'
<1>1. /\ At(th, "start", a) /\ Call(th, <<Frame("ssl_send", a)>>)
      /\ UNCHANGED <<life, ref, called, handle, timer, io, canceled, completed, child>>
  BY DEF Start, operation, request, rest, history
<1>2. life[a] = "live" /\ a \in {Root} \union Children
  BY <1>1, Lives DEF Outside
<1>3. Worked(a, "start", "ssl_send", "-", "-") /\ \A ops : "start" \in ops => Frames(ops, a) >= 1
  <2>1. Does(Frame("ssl_send", a), "ssl_send", a)
    BY NewFrames DEF Does, StreamFrame, Operations
  <2> QED BY <1>1, <2>1, Work1
<1>4. /\ life'[a] = life[a] /\ ref'[a] = ref[a] /\ called'[a] = called[a] /\ handle'[a] = handle[a]
      /\ timer'[a] = timer[a] /\ io'[a] = io[a]
      /\ canceled'[a] = canceled[a] /\ completed'[a] = completed[a]
      /\ ref[a] \in Int /\ completed[a] \in Int
  BY <1>1, <1>3 DEF Worked, Working, LifeTypes
<1>5. OthersKept(a)
  <2>1. LifeTyped
    BY <1>1, <1>3 DEF Worked, Working, LifeTyped, LifeTypes
  <2>2. Linked' /\ CallsAreNested'
    BY <1>1, <1>2, <1>3 DEF Worked, Working, LifeTypes, Linked, CallsAreNested
  <2>3. \A b \in Asyncs \ {a} : Untouched(b)
    BY <1>1, <1>3 DEF Worked, Working, LifeTypes, Untouched
  <2>4. RootStays
    BY <1>1, <1>3 DEF Worked, Working, LifeTypes, RootStays
  <2> QED BY <2>1, <2>2, <2>3, <2>4 DEF OthersKept
<1>6. LifeInv(a)'
  <2>1. NothingBefore(a)'
    BY <1>2, <1>4 DEF NothingBefore
  <2>2. BornOnce(a)'
    BY <1>2, <1>3, <1>4 DEF Worked, Working, LifeInv, BornOnce, Moves, One
  <2>3. TimedOnce(a)'
    BY <1>2, <1>3, <1>4 DEF Worked, Working, LifeInv, TimedOnce, Timing, Moves, One
  <2>4. RefExact(a)'
    <3>1. Frames(Holding, a)' = Frames(Holding, a) /\ Frames(Holding, a) \in Nat
      BY <1>3 DEF Worked, Working, Moves, Holding, One
    <3>2. RefExact(a)
      BY <1>3 DEF Worked, Working, LifeInv
    <3> QED BY <1>2, <1>3, <1>4, <3>1, <3>2 DEF RefExact, One
  <2>5. CallsBack(a)'
    BY <1>2, <1>3, <1>4 DEF Worked, Working, LifeInv, CallsBack, Moves, One
  <2>6. FreedLast(a)'
    BY <1>2, <1>3, <1>4 DEF Worked, Working, LifeInv, FreedLast, Moves, One
  <2> QED BY <2>1, <2>2, <2>3, <2>4, <2>5, <2>6 DEF LifeInv
<1>7. ChildKept(a)
  BY AsyncAssumption DEF ChildKept
<1>8. RootKept(a)
  BY <1>2, <1>3, <1>4 DEF RootKept, Worked, Working, Opens, Reports, Moves, One
<1> QED BY <1>3, <1>5, <1>6, <1>7, <1>8, OneSteps DEF Worked

-----------------------------------------------------------------------------
(* Steps of one operation about another *)

\* A frame of a that executes o becomes one that executes z, and b gets two frames
\* that execute x and y.
Passed(a, o, z, b, x, y) ==
  /\ stack' \in Stacks /\ Finite(stack') /\ \A t \in Threads : WellFormed(stack'[t])
  /\ \A ops : "-" \notin ops =>
       /\ Frames(ops, a)' = Frames(ops, a) - One(o \in ops) + One(z \in ops)
       /\ Frames(ops, b)' = Frames(ops, b) + One(x \in ops) + One(y \in ops)
  /\ \A d \in Asyncs \ {a, b} : \A ops : Frames(ops, d)' = Frames(ops, d)
  /\ Working(a) /\ Working(b)
  /\ \A ops : o \in ops => Frames(ops, a) >= 1

\* a is done, and b gets x.
LEMMA Pass1 ==
  ASSUME WorkInv, NEW th \in Threads, NEW o, NEW a, At(th, o, a), NEW b \in Asyncs \ {a},
         NEW x, x # "callback", NEW f, Does(f, x, b), Call(th, <<f>>)
  PROVE  Passed(a, o, "-", b, x, "-")
<1>1. /\ stack \in Stacks /\ Finite(stack) /\ stack[th] # << >> /\ a \in Asyncs
      /\ Head(stack[th]).op = o /\ Head(stack[th]).async = a /\ \A ops, d : Frames(ops, d) \in Nat
      /\ \A ops : o \in ops => Frames(ops, a) >= 1
  BY AtWork
<1> DEFINE h == Head(stack[th])
           q == <<f>>
<1>2. /\ stack' \in Stacks /\ Finite(stack')
      /\ \A ops, d : Frames(ops, d)' = Frames(ops, d) - One(IsOf(h, ops, d)) + One(IsOf(f, ops, d))
  BY <1>1, Calls1 DEF Does
<1>3. h.op = o /\ h.async = a
  BY <1>1
<1>4. q \in Seq(FrameType) /\ WellFormed(q) /\ Call(th, q)
  BY WellFormedOne DEF Does
<1> HIDE DEF h, q
<1>5. \A ops, d : /\ One(IsOf(h, ops, d)) = IF d = a THEN One(o \in ops) ELSE 0
                  /\ One(IsOf(f, ops, d)) = IF d = b THEN One(x \in ops) ELSE 0
  BY <1>3 DEF IsOf, One, Does
<1>6. \A ops : "-" \notin ops => One("-" \in ops) = 0
  BY DEF One
<1>7. \A ops : One(o \in ops) \in Nat /\ One(x \in ops) \in Nat
  BY DEF One
<1>8. \A t \in Threads : WellFormed(stack'[t])
  BY <1>1, <1>4, StaysWellFormed
<1>9. Working(a) /\ Working(b)
  BY <1>1, Works
<1> QED BY <1>1, <1>2, <1>5, <1>6, <1>7, <1>8, <1>9 DEF Passed

\* a is done, and b gets x and y.
LEMMA Pass2 ==
  ASSUME WorkInv, NEW th \in Threads, NEW o, NEW a, At(th, o, a), NEW b \in Asyncs \ {a},
         NEW x, x # "callback", NEW f, Does(f, x, b), NEW y, y # "callback", NEW g, Does(g, y, b),
         Call(th, <<f, g>>)
  PROVE  Passed(a, o, "-", b, x, y)
<1>1. /\ stack \in Stacks /\ Finite(stack) /\ stack[th] # << >> /\ a \in Asyncs
      /\ Head(stack[th]).op = o /\ Head(stack[th]).async = a /\ \A ops, d : Frames(ops, d) \in Nat
      /\ \A ops : o \in ops => Frames(ops, a) >= 1
  BY AtWork
<1> DEFINE h == Head(stack[th])
           q == <<f, g>>
<1>2. /\ stack' \in Stacks /\ Finite(stack')
      /\ \A ops, d : Frames(ops, d)' = Frames(ops, d) - One(IsOf(h, ops, d))
                                         + One(IsOf(g, ops, d)) + One(IsOf(f, ops, d))
  BY <1>1, Calls2 DEF Does
<1>3. h.op = o /\ h.async = a
  BY <1>1
<1>4. q \in Seq(FrameType) /\ WellFormed(q) /\ Call(th, q)
  <2>1. WellFormed(<<f, g>>)
    BY WellFormedTwo DEF Does
  <2> QED BY <2>1 DEF Does
<1> HIDE DEF h, q
<1>5. \A ops, d : /\ One(IsOf(h, ops, d)) = IF d = a THEN One(o \in ops) ELSE 0
                  /\ One(IsOf(f, ops, d)) = IF d = b THEN One(x \in ops) ELSE 0
                  /\ One(IsOf(g, ops, d)) = IF d = b THEN One(y \in ops) ELSE 0
  BY <1>3 DEF IsOf, One, Does
<1>6. \A ops : "-" \notin ops => One("-" \in ops) = 0
  BY DEF One
<1>7. \A ops : One(o \in ops) \in Nat /\ One(x \in ops) \in Nat /\ One(y \in ops) \in Nat
  BY DEF One
<1>8. \A t \in Threads : WellFormed(stack'[t])
  BY <1>1, <1>4, StaysWellFormed
<1>9. Working(a) /\ Working(b)
  BY <1>1, Works
<1> QED BY <1>1, <1>2, <1>5, <1>6, <1>7, <1>8, <1>9 DEF Passed

\* b gets x, and then a goes on with z.
LEMMA PassBack ==
  ASSUME WorkInv, NEW th \in Threads, NEW o, NEW a, At(th, o, a), NEW b \in Asyncs \ {a},
         NEW x, x # "callback", NEW f, Does(f, x, b), NEW z, z # "callback", NEW g, Does(g, z, a),
         Call(th, <<f, g>>)
  PROVE  Passed(a, o, z, b, x, "-")
<1>1. /\ stack \in Stacks /\ Finite(stack) /\ stack[th] # << >> /\ a \in Asyncs
      /\ Head(stack[th]).op = o /\ Head(stack[th]).async = a /\ \A ops, d : Frames(ops, d) \in Nat
      /\ \A ops : o \in ops => Frames(ops, a) >= 1
  BY AtWork
<1> DEFINE h == Head(stack[th])
           q == <<f, g>>
<1>2. /\ stack' \in Stacks /\ Finite(stack')
      /\ \A ops, d : Frames(ops, d)' = Frames(ops, d) - One(IsOf(h, ops, d))
                                         + One(IsOf(g, ops, d)) + One(IsOf(f, ops, d))
  BY <1>1, Calls2 DEF Does
<1>3. h.op = o /\ h.async = a
  BY <1>1
<1>4. q \in Seq(FrameType) /\ WellFormed(q) /\ Call(th, q)
  <2>1. WellFormed(<<f, g>>)
    BY WellFormedTwo DEF Does
  <2> QED BY <2>1 DEF Does
<1> HIDE DEF h, q
<1>5. \A ops, d : /\ One(IsOf(h, ops, d)) = IF d = a THEN One(o \in ops) ELSE 0
                  /\ One(IsOf(f, ops, d)) = IF d = b THEN One(x \in ops) ELSE 0
                  /\ One(IsOf(g, ops, d)) = IF d = a THEN One(z \in ops) ELSE 0
  BY <1>3 DEF IsOf, One, Does
<1>6. \A ops : "-" \notin ops => One("-" \in ops) = 0
  BY DEF One
<1>7. \A ops : One(o \in ops) \in Nat /\ One(x \in ops) \in Nat /\ One(z \in ops) \in Nat
  BY DEF One
<1>8. \A t \in Threads : WellFormed(stack'[t])
  BY <1>1, <1>4, StaysWellFormed
<1>9. Working(a) /\ Working(b)
  BY <1>1, Works
<1> QED BY <1>1, <1>2, <1>5, <1>6, <1>7, <1>8, <1>9 DEF Passed

\* What such a step leaves as it is.
LEMMA PassedSteps ==
  ASSUME WorkInv, StreamInv', NEW a \in Asyncs, NEW b \in Asyncs \ {a}, NEW o, NEW z, NEW x, NEW y,
         Passed(a, o, z, b, x, y), LifeTyped, Linked', CallsAreNested', RootStays,
         \A d \in Asyncs \ {a, b} : Untouched(d),
         LifeInv(a)', a \in Children => ChildInv(a)', LifeInv(b)', b \in Children => ChildInv(b)',
         OneAfterAnother'
  PROVE  WorkInv'
<1> DEFINE T == {a, b}
<1>1. /\ T \in SUBSET Asyncs
      /\ \A d \in T : LifeInv(d)' /\ (d \in Children => ChildInv(d)')
      /\ \A d \in Asyncs \ T : Untouched(d) /\ \A ops : Frames(ops, d)' = Frames(ops, d)
  BY DEF Passed
<1>2. stack' \in Stacks /\ Finite(stack') /\ \A th \in Threads : WellFormed(stack'[th])
  BY DEF Passed
<1> HIDE DEF T
<1> QED BY <1>1, <1>2, SomeSteps

\* Frames that do not matter for the life of an operation.
LEMMA GainsQuietly ==
  ASSUME NEW b, LifeInv(b), Untouched(b), life[b] # "none",
         \A ops \in {{"new"}, Timing, Holding, {"callback"}, {"destroy"}} :
           Frames(ops, b)' = Frames(ops, b)
  PROVE  LifeInv(b)'
<1>1. /\ Frames({"new"}, b)' = Frames({"new"}, b)
      /\ Frames(Timing, b)' = Frames(Timing, b) /\ Frames(Holding, b)' = Frames(Holding, b)
      /\ Frames({"callback"}, b)' = Frames({"callback"}, b)
      /\ Frames({"destroy"}, b)' = Frames({"destroy"}, b)
  OBVIOUS
<1>2. NothingBefore(b)'
  BY DEF NothingBefore, Untouched
<1>3. BornOnce(b)'
  BY <1>1 DEF LifeInv, BornOnce, Untouched
<1>4. TimedOnce(b)'
  BY <1>1 DEF LifeInv, TimedOnce, Untouched
<1>5. RefExact(b)'
  BY <1>1 DEF LifeInv, RefExact, Untouched
<1>6. CallsBack(b)'
  BY <1>1 DEF LifeInv, CallsBack, Untouched
<1>7. FreedLast(b)'
  BY <1>1 DEF LifeInv, FreedLast, Untouched
<1> QED BY <1>2, <1>3, <1>4, <1>5, <1>6, <1>7 DEF LifeInv

\* Nothing but the state of the frames, and how often a was called back, changes.
OnlyCallsBack(a) ==
  /\ completed' = [completed EXCEPT ![a] = @ + 1]
  /\ UNCHANGED <<life, ref, called, handle, timer, io, canceled, child>>

LEMMA OnlyCallsBackKeeps ==
  ASSUME WorkInv, NEW a \in Asyncs, OnlyCallsBack(a)
  PROVE  /\ LifeTyped /\ Linked' /\ CallsAreNested' /\ RootStays
         /\ \A d \in Asyncs \ {a} : Untouched(d)
<1>1. LifeTypes /\ Linked /\ CallsAreNested /\ completed[a] \in Int
  BY DEF WorkInv, LifeTypes
<1>2. LifeTyped
  BY <1>1 DEF LifeTypes, LifeTyped, OnlyCallsBack
<1>3. Linked' /\ CallsAreNested' /\ RootStays
  BY <1>1 DEF Linked, CallsAreNested, RootStays, OnlyCallsBack
<1>4. \A d \in Asyncs \ {a} : Untouched(d)
  BY <1>1 DEF Untouched, LifeTypes, OnlyCallsBack
<1> QED BY <1>2, <1>3, <1>4

\* The callback of a child.
LEMMA ChildCallsBack ==
  ASSUME WorkInv, NEW c \in Children, NEW b \in Asyncs \ {c}, NEW x, NEW y, OnlyCallsBack(c),
         Passed(c, "callback", "-", b, x, y), life[c] = "live"
  PROVE  /\ LifeInv(c)' /\ ChildInv(c)' /\ Owing(c)' = 0 /\ life[Root] # "none"
         /\ Frames(Opens, Root) = 0 /\ \A d \in Children \ {c} : Owing(d) = 0
         /\ Owing(c) = 1
<1>1. /\ Working(c) /\ c \in Asyncs /\ Frames({"callback"}, c) >= 1
      /\ Frames({"new", "callback"}, c) >= 1
  BY DEF Passed, Asyncs
<1>2. /\ completed'[c] = completed[c] + 1 /\ completed[c] \in Int
      /\ UNCHANGED <<life, ref, called, handle, timer, io, canceled, child>>
  BY <1>1 DEF OnlyCallsBack, Working, LifeTypes
<1>3. \A ops : "-" \notin ops => Frames(ops, c)' = Frames(ops, c) - One("callback" \in ops)
  BY <1>1 DEF Passed, Working, One
<1>4. LifeInv(c)'
  <2>1. NothingBefore(c)'
    BY <1>2 DEF NothingBefore
  <2>2. BornOnce(c)'
    BY <1>1, <1>2, <1>3 DEF Working, LifeInv, BornOnce, One
  <2>3. TimedOnce(c)'
    BY <1>1, <1>2, <1>3 DEF Working, LifeInv, TimedOnce, Timing, One
  <2>4. RefExact(c)'
    <3>1. Frames(Holding, c)' = Frames(Holding, c) /\ Frames(Holding, c) \in Nat
      BY <1>1, <1>3 DEF Working, Holding, One
    <3> QED BY <1>1, <1>2, <3>1 DEF Working, LifeInv, RefExact
  <2>5. CallsBack(c)'
    BY <1>1, <1>2, <1>3 DEF Working, LifeInv, CallsBack, One
  <2>6. FreedLast(c)'
    BY <1>1, <1>2, <1>3 DEF Working, LifeInv, FreedLast, One
  <2> QED BY <2>1, <2>2, <2>3, <2>4, <2>5, <2>6 DEF LifeInv
<1>5. ChildInv(c)'
  <2>1. EndsByItself(c)'
    BY <1>1, <1>2, <1>3 DEF Working, ChildInv, EndsByItself, Carrying, One
  <2>2. AbortsCall(c)'
    BY <1>1, <1>2, <1>3 DEF Working, ChildInv, AbortsCall, One
  <2>3. BornInside(c)'
    BY <1>1, <1>2, <1>3 DEF Working, ChildInv, BornInside, One
  <2> QED BY <2>1, <2>2, <2>3 DEF ChildInv
<1>6. life[Root] # "none"
  BY <1>1 DEF Working, ChildInv, BornInside
<1>7. /\ Owing(c) = Frames({"new", "callback"}, c) + One(life[c] # "none" /\ ~called[c])
      /\ Owing(c)' = Owing(c) - 1
  BY <1>1, <1>2, <1>3 DEF Owing, Working, One
<1>8. \A d \in Children : Owing(d) \in Nat
  BY <1>1 DEF Owing, Working, One
<1>9. OneAfterAnother /\ Frames(Opens, Root) \in Nat
  BY <1>1 DEF WorkInv, Working
<1>10. Owing(c) >= 1
  BY <1>1, <1>7 DEF Working, One
<1> HIDE DEF Owing
<1>11. Owing(c) = 1 /\ Frames(Opens, Root) = 0 /\ \A d \in Children \ {c} : Owing(d) = 0
  <2>1. Owing(c) + Frames(Opens, Root) <= 1
    BY <1>9 DEF OneAfterAnother
  <2>2. \A d \in Children \ {c} : Owing(d) = 0
    BY <1>8, <1>9, <1>10 DEF OneAfterAnother
  <2> QED BY <1>8, <1>9, <1>10, <2>1, <2>2
<1> QED BY <1>4, <1>5, <1>6, <1>7, <1>11

\* It notifies the user's operation, once or twice.
LEMMA ChildReportsKeepsWork ==
  ASSUME WorkInv, StreamInv', NEW c \in Children, NEW y \in {"-", "notify"}, OnlyCallsBack(c),
         Passed(c, "callback", "-", Root, "notify", y), life[c] = "live"
  PROVE  WorkInv'
<1>1. c \in Asyncs /\ Root \in Asyncs \ {c}
  BY AsyncAssumption DEF Asyncs
<1>2. /\ LifeTyped /\ Linked' /\ CallsAreNested' /\ RootStays
      /\ \A d \in Asyncs \ {c} : Untouched(d)
  BY <1>1, OnlyCallsBackKeeps
<1>3. /\ LifeInv(c)' /\ ChildInv(c)' /\ Owing(c)' = 0 /\ life[Root] # "none"
      /\ Frames(Opens, Root) = 0 /\ \A d \in Children \ {c} : Owing(d) = 0
  BY <1>1, ChildCallsBack
<1>4. \A ops : "-" \notin ops /\ "notify" \notin ops => Frames(ops, Root)' = Frames(ops, Root)
  <2>1. \A ops, d : Frames(ops, d) \in Nat
    BY DEF Passed, Working
  <2> QED BY <2>1 DEF Passed, One
<1>5. LifeInv(Root)'
  <2>1. LifeInv(Root)
    BY <1>1 DEF WorkInv
  <2>2. \A ops \in {{"new"}, Timing, Holding, {"callback"}, {"destroy"}} :
          Frames(ops, Root)' = Frames(ops, Root)
    BY <1>4 DEF Timing, Holding
  <2> QED BY <1>1, <1>2, <1>3, <2>1, <2>2, GainsQuietly
<1>6. Frames(Opens, Root)' = 0
  BY <1>3, <1>4 DEF Opens
<1>7. \A d \in Children \ {c} : Owing(d)' = Owing(d)
  <2> SUFFICES ASSUME NEW d \in Children \ {c}
               PROVE  Owing(d)' = Owing(d)
    OBVIOUS
  <2>1. d \in Asyncs \ {c, Root}
    BY AsyncAssumption DEF Asyncs
  <2>2. ChildInv(d) /\ Untouched(d) /\ \A ops : Frames(ops, d)' = Frames(ops, d)
    BY <1>2, <2>1 DEF Passed, WorkInv
  <2> QED BY <1>2, <2>2, UntouchedChild
<1> HIDE DEF Owing
<1>8. \A d \in Children : Owing(d)' = 0
  BY <1>3, <1>7
<1>9. OneAfterAnother'
  BY <1>6, <1>8 DEF OneAfterAnother
<1> QED BY <1>1, <1>2, <1>3, <1>5, <1>9, AsyncAssumption, PassedSteps

\* Frames of kinds of which there are none are none.
LEMMA NoFramesOf ==
  ASSUME WorkInv, NEW A, NEW B, NEW C, C \subseteq A \union B, NEW a,
         Frames(A, a) = 0, Frames(B, a) = 0
  PROVE  Frames(C, a) = 0
<1>1. stack \in Stacks /\ Finite(stack)
  BY DEF WorkInv, StreamInv, StreamTypes, LifeTypes
<1>2. \A th \in Threads : \A k \in DOMAIN stack[th] :
        ~IsOf(stack[th][k], A, a) /\ ~IsOf(stack[th][k], B, a)
  BY <1>1, NoFrames
<1>3. \A th \in Threads : \A k \in DOMAIN stack[th] : ~IsOf(stack[th][k], C, a)
  BY <1>2 DEF IsOf
<1> QED BY <1>1, <1>3, NoFrames

\* A child is about to be created, and to make its call.
LEMMA ChildComesNext ==
  ASSUME WorkInv, NEW a \in Asyncs, NEW o, NEW d \in Children \ {a}, NEW x \in {"receive", "send"},
         Passed(a, o, "-", d, "new", x), Untouched(d), RootStays,
         life[d] = "none", Owing(d) = 0, life[Root] # "none", UNCHANGED child
  PROVE  LifeInv(d)' /\ ChildInv(d)' /\ Owing(d)' = 1
<1>1. /\ Working(d) /\ d \in Asyncs
      /\ \A ops, b : Frames(ops, b) \in Nat
  BY DEF Passed, Working, Asyncs
<1>2. \A ops : "-" \notin ops =>
        Frames(ops, d)' = Frames(ops, d) + One("new" \in ops) + One(x \in ops)
  BY <1>1 DEF Passed, One
<1>3. /\ ~called[d] /\ ~canceled[d] /\ timer[d] = "idle" /\ io[d] = "none" /\ child[Root] # d
      /\ Frames(Later, d) = 0 /\ Frames(Waiting, d) <= Frames({"new"}, d)
  BY <1>1 DEF Working, LifeInv, NothingBefore
<1>4. Frames({"new", "callback"}, d) = 0
  BY <1>1 DEF Owing, One
<1>5. Frames({"new"}, d) = 0 /\ Frames(Waiting, d) = 0
  <2>1. Frames({"new"}, d) <= Frames({"new", "callback"}, d)
    BY FewerFrames
  <2> QED BY <1>1, <1>3, <1>4, <2>1
<1>6. Frames(Carrying, d) = 0
  <2>1. Carrying \subseteq Later \union Waiting
    BY DEF Carrying, Later, Waiting, Operations
  <2> QED BY <1>3, <1>5, <2>1, NoFramesOf
<1>7. LifeInv(d)'
  <2>1. NothingBefore(d)'
    <3>1. Frames(Later, d)' = 0
      <4>1. "new" \notin Later /\ x \notin Later
        BY DEF Later, Waiting
      <4>2. "-" \notin Later
        BY DEF Later, Operations, Outside
      <4> QED BY <1>1, <1>2, <1>3, <4>1, <4>2 DEF One
    <3>2. Frames(Waiting, d)' = 1 /\ Frames({"new"}, d)' = 1
      BY <1>1, <1>2, <1>5 DEF Waiting, One
    <3> QED BY <1>3, <3>1, <3>2 DEF NothingBefore, Untouched
  <2>2. BornOnce(d)'
    BY <1>1, <1>2, <1>5 DEF BornOnce, Untouched, One
  <2>3. TimedOnce(d)'
    BY <1>1, <1>2 DEF Working, LifeInv, TimedOnce, Timing, Untouched, One
  <2>4. RefExact(d)'
    BY DEF RefExact, Untouched
  <2>5. CallsBack(d)'
    BY <1>1, <1>2 DEF Working, LifeInv, CallsBack, Untouched, One
  <2>6. FreedLast(d)'
    BY <1>1, <1>2 DEF Working, LifeInv, FreedLast, Untouched, One
  <2> QED BY <2>1, <2>2, <2>3, <2>4, <2>5, <2>6 DEF LifeInv
<1>8. ChildInv(d)'
  <2>1. EndsByItself(d)'
    <3>1. Frames(Carrying, d)' = 1
      BY <1>2, <1>6 DEF Carrying, One
    <3> QED BY <1>3, <3>1 DEF EndsByItself, Untouched, One
  <2>2. AbortsCall(d)'
    BY <1>1, <1>2 DEF Working, ChildInv, AbortsCall, Untouched, One
  <2>3. BornInside(d)'
    BY DEF BornInside, RootStays
  <2> QED BY <2>1, <2>2, <2>3 DEF ChildInv
<1>9. Owing(d)' = 1
  <2>1. Frames({"new", "callback"}, d)' = 1
    BY <1>2, <1>4 DEF One
  <2> QED BY <2>1 DEF Owing, Untouched, One
<1> QED BY <1>7, <1>8, <1>9

\* One child is about to be created, the others are done, and Root is not reported.
LEMMA OneComesNext ==
  ASSUME WorkInv, NEW d \in Children, Owing(d)' = 1,
         \A c \in Children \ {d} : Owing(c)' = 0, Frames(Opens, Root)' = 0,
         Frames(Reports, Root)' = Frames(Reports, Root), completed'[Root] = completed[Root],
         canceled'[Root] = canceled[Root],
         Frames(Opens, Root) > 0 \/ \E c \in Children : Owing(c) > 0
  PROVE  OneAfterAnother'
<1>1. OneAfterAnother
  BY DEF WorkInv
<1> HIDE DEF Owing
<1>2. \A c \in Children : Owing(c)' + Frames(Opens, Root)' <= 1
  OBVIOUS
<1>3. \A b, c \in Children : b # c /\ Owing(b)' > 0 => Owing(c)' = 0
  OBVIOUS
<1>4. ~(~canceled[Root] /\ (Frames(Reports, Root) > 0 \/ completed[Root] > 0))
  <2>1. ~canceled[Root] /\ (Frames(Reports, Root) > 0 \/ completed[Root] > 0) =>
          Frames(Opens, Root) = 0 /\ \A c \in Children : Owing(c) = 0
    BY <1>1 DEF OneAfterAnother
  <2>2. ~(Frames(Opens, Root) = 0 /\ \A c \in Children : Owing(c) = 0)
    OBVIOUS
  <2> QED BY <2>1, <2>2
<1> QED BY <1>2, <1>3, <1>4 DEF OneAfterAnother

\* The callback of a child starts the next one.
LEMMA NextChunkKeepsWork ==
  ASSUME WorkInv, StreamInv', NEW c \in Children, NEW d \in Children \ {c}, OnlyCallsBack(c),
         Passed(c, "callback", "-", d, "new", "send"), life[c] = "live", life[d] = "none"
  PROVE  WorkInv'
<1>1. c \in Asyncs /\ d \in Asyncs \ {c} /\ Root \in Asyncs \ {c, d}
  BY AsyncAssumption DEF Asyncs
<1>2. /\ LifeTyped /\ Linked' /\ CallsAreNested' /\ RootStays
      /\ \A b \in Asyncs \ {c} : Untouched(b)
  BY <1>1, OnlyCallsBackKeeps
<1>3. /\ LifeInv(c)' /\ ChildInv(c)' /\ Owing(c)' = 0 /\ life[Root] # "none"
      /\ Frames(Opens, Root) = 0 /\ \A b \in Children \ {c} : Owing(b) = 0
      /\ Owing(c) = 1
  BY <1>1, ChildCallsBack
<1>4. LifeInv(d)' /\ ChildInv(d)' /\ Owing(d)' = 1
  <2>1. Untouched(d) /\ UNCHANGED child /\ Owing(d) = 0
    BY <1>1, <1>2, <1>3 DEF OnlyCallsBack
  <2> HIDE DEF Owing
  <2> QED BY <1>1, <1>2, <1>3, <2>1, ChildComesNext
<1>5. \A b \in Children \ {c, d} : Owing(b)' = Owing(b)
  <2> SUFFICES ASSUME NEW b \in Children \ {c, d}
               PROVE  Owing(b)' = Owing(b)
    OBVIOUS
  <2>1. b \in Asyncs \ {c, d}
    BY DEF Asyncs
  <2>2. ChildInv(b) /\ Untouched(b) /\ \A ops : Frames(ops, b)' = Frames(ops, b)
    BY <1>2, <2>1 DEF Passed, WorkInv
  <2> QED BY <1>2, <2>2, UntouchedChild
<1>6. /\ \A ops : Frames(ops, Root)' = Frames(ops, Root)
      /\ completed'[Root] = completed[Root] /\ canceled'[Root] = canceled[Root]
  BY <1>1, <1>2 DEF Passed, Untouched
<1> HIDE DEF Owing
<1>7. OneAfterAnother'
  <2>1. \A b \in Children \ {d} : Owing(b)' = 0
    BY <1>3, <1>5
  <2>2. \E b \in Children : Owing(b) > 0
    BY <1>3
  <2> QED BY <1>3, <1>4, <1>6, <2>1, <2>2, OneComesNext
<1> QED BY <1>1, <1>2, <1>3, <1>4, <1>7, PassedSteps

-----------------------------------------------------------------------------
(* The user's call *)

\* It fails, or succeeds at once.
LEMMA CallEndsKeepsWork ==
  ASSUME WorkInv, StreamInv', NEW th \in Threads, NEW o \in {"ssl_receive", "ssl_send"},
         At(th, o, Root), NEW f, Does(f, "notify", Root), Call(th, <<f>>),
         UNCHANGED <<life, ref, called, handle, timer, io, canceled, completed, child>>
  PROVE  WorkInv'
<1>1. life[Root] = "live" /\ Root \in Asyncs
  BY Lives DEF Outside, Asyncs
<1>2. Worked(Root, o, "notify", "-", "-") /\ \A ops : o \in ops => Frames(ops, Root) >= 1
  BY Work1
<1>3. /\ LifeTyped /\ Linked' /\ CallsAreNested' /\ RootStays
      /\ \A b \in Asyncs : Untouched(b)
  BY <1>2 DEF Worked, Working, LifeTyped, LifeTypes, Linked, CallsAreNested, RootStays, Untouched
<1>4. \A ops : "-" \notin ops =>
        Frames(ops, Root)' = Frames(ops, Root) - One(o \in ops) + One("notify" \in ops)
  <2>1. \A ops : "-" \notin ops => One("-" \in ops) = 0
    BY DEF One
  <2>2. \A ops : One(o \in ops) \in Nat /\ One("notify" \in ops) \in Nat
    BY DEF One
  <2> QED BY <1>2, <2>1, <2>2 DEF Worked, Working, Moves
<1>5. \A ops : "-" \notin ops /\ "notify" \notin ops /\ o \notin ops =>
        Frames(ops, Root)' = Frames(ops, Root)
  <2>1. \A ops : Frames(ops, Root) \in Nat
    BY <1>2 DEF Worked, Working
  <2> QED BY <1>4, <2>1 DEF One
<1>6. LifeInv(Root)'
  <2>1. LifeInv(Root)
    BY <1>2 DEF Worked, Working
  <2>2. \A ops \in {{"new"}, Timing, Holding, {"callback"}, {"destroy"}} :
          Frames(ops, Root)' = Frames(ops, Root)
    BY <1>5 DEF Timing, Holding
  <2> QED BY <1>1, <1>3, <2>1, <2>2, GainsQuietly
<1>7. \A c \in Children : Owing(c)' = Owing(c) /\ Owing(c) \in Nat
  <2> SUFFICES ASSUME NEW c \in Children
               PROVE  Owing(c)' = Owing(c) /\ Owing(c) \in Nat
    OBVIOUS
  <2>1. c \in Asyncs \ {Root}
    BY AsyncAssumption DEF Asyncs
  <2>2. ChildInv(c) /\ Untouched(c) /\ \A ops : Frames(ops, c)' = Frames(ops, c)
    BY <1>2, <1>3, <2>1 DEF Worked, Moves, WorkInv
  <2>3. Owing(c) \in Nat
    BY <1>2 DEF Owing, Worked, Working, One
  <2> QED BY <1>3, <2>2, <2>3, UntouchedChild
<1>8. OneAfterAnother /\ Frames(Opens, Root) = 1 /\ Frames(Opens, Root)' = 0
  <2>1. OneAfterAnother
    BY DEF WorkInv
  <2>2. Frames(Opens, Root) = 1
    BY <1>2, <2>1 DEF OneAfterAnother, Opens, Worked, Working
  <2> QED BY <1>4, <2>1, <2>2 DEF Opens, One
<1> HIDE DEF Owing
<1>9. OneAfterAnother'
  <2>1. \A c \in Children : Owing(c)' = 0
    BY <1>7, <1>8 DEF OneAfterAnother
  <2> QED BY <1>8, <2>1 DEF OneAfterAnother
<1> DEFINE T == {Root}
<1>10. /\ T \in SUBSET Asyncs
       /\ \A a \in T : LifeInv(a)' /\ (a \in Children => ChildInv(a)')
       /\ \A b \in Asyncs \ T : Untouched(b) /\ \A ops : Frames(ops, b)' = Frames(ops, b)
  BY <1>1, <1>2, <1>3, <1>6, AsyncAssumption DEF Worked, Moves
<1>11. stack' \in Stacks /\ Finite(stack') /\ \A t \in Threads : WellFormed(stack'[t])
  BY <1>2 DEF Worked, Moves
<1> HIDE DEF T
<1> QED BY <1>3, <1>9, <1>10, <1>11, SomeSteps

\* It starts the first child.
LEMMA FirstChildKeepsWork ==
  ASSUME WorkInv, StreamInv', NEW o \in {"ssl_receive", "ssl_send"}, NEW x \in {"receive", "send"},
         NEW d \in Children, Passed(Root, o, "-", d, "new", x),
         life[Root] = "live", life[d] = "none",
         UNCHANGED <<life, ref, called, handle, timer, io, canceled, completed, child>>
  PROVE  WorkInv'
<1>1. Root \in Asyncs /\ d \in Asyncs \ {Root} /\ d \in Children \ {Root}
  BY AsyncAssumption DEF Asyncs
<1>2. /\ LifeTyped /\ Linked' /\ CallsAreNested' /\ RootStays
      /\ \A b \in Asyncs : Untouched(b)
  BY DEF Passed, Working, LifeTyped, LifeTypes, Linked, CallsAreNested, RootStays, Untouched
<1>3. \A ops : "-" \notin ops => Frames(ops, Root)' = Frames(ops, Root) - One(o \in ops)
  <2>1. \A ops, b : Frames(ops, b) \in Nat
    BY DEF Passed, Working
  <2>2. \A ops : "-" \notin ops => One("-" \in ops) = 0
    BY DEF One
  <2>3. \A ops : One(o \in ops) \in Nat
    BY DEF One
  <2> QED BY <2>1, <2>2, <2>3 DEF Passed
<1>4. \A ops : "-" \notin ops /\ o \notin ops => Frames(ops, Root)' = Frames(ops, Root)
  <2>1. \A ops : Frames(ops, Root) \in Nat
    BY DEF Passed, Working
  <2> QED BY <1>3, <2>1 DEF One
<1>5. LifeInv(Root)'
  <2>1. LifeInv(Root)
    BY DEF Passed, Working
  <2>2. \A ops \in {{"new"}, Timing, Holding, {"callback"}, {"destroy"}} :
          Frames(ops, Root)' = Frames(ops, Root)
    BY <1>4 DEF Timing, Holding
  <2> QED BY <1>2, <1>1, <2>1, <2>2, GainsQuietly
<1>6. \A c \in Children : Owing(c) \in Nat
  BY DEF Owing, Passed, Working, One
<1>7. OneAfterAnother /\ Frames(Opens, Root) = 1 /\ Frames(Opens, Root)' = 0
  <2>1. OneAfterAnother
    BY DEF WorkInv
  <2>2. Frames(Opens, Root) = 1
    BY <2>1 DEF OneAfterAnother, Opens, Passed, Working
  <2> QED BY <1>3, <2>1, <2>2 DEF Opens, One
<1>8. \A c \in Children : Owing(c) = 0
  <2> HIDE DEF Owing
  <2> QED BY <1>6, <1>7 DEF OneAfterAnother
<1>9. LifeInv(d)' /\ ChildInv(d)' /\ Owing(d)' = 1
  <2>1. Untouched(d) /\ Owing(d) = 0
    BY <1>1, <1>2, <1>8
  <2> HIDE DEF Owing
  <2> QED BY <1>1, <1>2, <2>1, ChildComesNext
<1>10. \A b \in Children \ {d} : Owing(b)' = Owing(b)
  <2> SUFFICES ASSUME NEW b \in Children \ {d}
               PROVE  Owing(b)' = Owing(b)
    OBVIOUS
  <2>1. b \in Asyncs \ {Root, d}
    BY AsyncAssumption DEF Asyncs
  <2>2. ChildInv(b) /\ Untouched(b) /\ \A ops : Frames(ops, b)' = Frames(ops, b)
    BY <1>2, <2>1 DEF Passed, WorkInv
  <2> QED BY <1>2, <2>2, UntouchedChild
<1>11. Frames(Reports, Root)' = Frames(Reports, Root)
  BY <1>4 DEF Reports
<1> HIDE DEF Owing
<1>12. OneAfterAnother'
  <2>1. \A b \in Children \ {d} : Owing(b)' = 0
    BY <1>8, <1>10
  <2> QED BY <1>7, <1>9, <1>11, <2>1, OneComesNext
<1> QED BY <1>1, <1>2, <1>5, <1>9, <1>12, AsyncAssumption, PassedSteps

-----------------------------------------------------------------------------
(* A cancellation goes on to the child *)

LEMMA CancelChildKeepsWork ==
  ASSUME WorkInv, StreamInv', NEW th \in Threads, NEW a \in Asyncs, Cancel(th, a), CancelChild(th, a)
  PROVE  WorkInv'
<1>1. /\ At(th, "_cancel", a) /\ Call(th, <<Frame("cancel", child[a]), Frame("unlock", a)>>)
      /\ child[a] # None /\ canceled' = [canceled EXCEPT ![a] = TRUE]
      /\ UNCHANGED <<life, ref, called, handle, timer, io, completed, child>>
  BY DEF Cancel, CancelChild
<1>2. Working(a) /\ a = Root /\ Root \in Asyncs
  <2>1. Working(a)
    BY Works
  <2> QED BY <1>1, <2>1 DEF Working, Linked, Asyncs
<1>3. PICK c \in Children : c = child[Root]
  BY <1>1, <1>2 DEF Working, Linked
<1>4. c \in Asyncs \ {Root} /\ Call(th, <<Frame("cancel", c), Frame("unlock", Root)>>)
  BY <1>1, <1>2, <1>3, AsyncAssumption DEF Asyncs
<1>5. life[Root] = "live"
  BY <1>1, <1>2, Lives DEF Outside
<1>6. Passed(Root, "_cancel", "unlock", c, "cancel", "-")
  <2>1. Does(Frame("cancel", c), "cancel", c) /\ Does(Frame("unlock", Root), "unlock", Root)
    BY DoesOp
  <2> QED BY <1>1, <1>2, <1>4, <2>1, PassBack
<1>7. /\ LifeTyped /\ Linked' /\ CallsAreNested' /\ RootStays
      /\ \A b \in Asyncs \ {Root} : Untouched(b)
      /\ canceled'[Root] = TRUE
  BY <1>1, <1>2 DEF Working, LifeTyped, LifeTypes, Linked, CallsAreNested, RootStays, Untouched
<1>8. \A ops : "-" \notin ops /\ "_cancel" \notin ops /\ "unlock" \notin ops /\ "cancel" \notin ops =>
        Frames(ops, Root)' = Frames(ops, Root) /\ Frames(ops, c)' = Frames(ops, c)
  <2>1. \A ops, b : Frames(ops, b) \in Nat
    BY <1>2 DEF Working
  <2> QED BY <1>6, <2>1 DEF Passed, One
<1>9. LifeInv(c)' /\ ChildInv(c)' /\ Owing(c)' = Owing(c)
  <2>1. LifeInv(c) /\ ChildInv(c) /\ Untouched(c)
    BY <1>4, <1>7 DEF WorkInv
  <2>2. life[c] # "none"
    BY <1>3, <2>1 DEF LifeInv, NothingBefore
  <2>3. \A ops \in {{"new"}, Timing, Holding, {"callback"}, {"destroy"}} :
          Frames(ops, c)' = Frames(ops, c)
    BY <1>8 DEF Timing, Holding
  <2>4. LifeInv(c)'
    BY <2>1, <2>2, <2>3, GainsQuietly
  <2>5. EndsByItself(c)'
    BY <1>8, <2>1 DEF ChildInv, EndsByItself, Carrying, Untouched
  <2>6. AbortsCall(c)'
    BY <1>8, <2>1 DEF ChildInv, AbortsCall, Untouched
  <2>7. BornInside(c)'
    BY <1>5, <1>7 DEF BornInside, RootStays
  <2>8. Owing(c)' = Owing(c)
    BY <1>8, <2>1 DEF Owing, Untouched
  <2> QED BY <2>4, <2>5, <2>6, <2>7, <2>8 DEF ChildInv
<1>10. LifeInv(Root)'
  <2>1. LifeInv(Root) /\ life'[Root] = life[Root] /\ ref'[Root] = ref[Root]
        /\ called'[Root] = called[Root] /\ timer'[Root] = timer[Root] /\ io'[Root] = io[Root]
        /\ completed'[Root] = completed[Root]
    BY <1>1, <1>2 DEF Working
  <2>2. /\ Frames({"new"}, Root)' = Frames({"new"}, Root)
        /\ Frames(Timing, Root)' = Frames(Timing, Root)
        /\ Frames(Holding, Root)' = Frames(Holding, Root)
        /\ Frames({"callback"}, Root)' = Frames({"callback"}, Root)
        /\ Frames({"destroy"}, Root)' = Frames({"destroy"}, Root)
    BY <1>8 DEF Timing, Holding
  <2>3. NothingBefore(Root)'
    BY <1>5, <2>1 DEF NothingBefore
  <2>4. BornOnce(Root)' /\ TimedOnce(Root)'
    BY <2>1, <2>2 DEF LifeInv, BornOnce, TimedOnce
  <2>5. RefExact(Root)'
    BY <2>1, <2>2 DEF LifeInv, RefExact
  <2>6. CallsBack(Root)' /\ FreedLast(Root)'
    BY <2>1, <2>2 DEF LifeInv, CallsBack, FreedLast
  <2> QED BY <2>3, <2>4, <2>5, <2>6 DEF LifeInv
<1>11. OneAfterAnother'
  <2>1. \A d \in Children : Owing(d)' = Owing(d) /\ Owing(d) \in Nat
    <3> SUFFICES ASSUME NEW d \in Children
                 PROVE  Owing(d)' = Owing(d) /\ Owing(d) \in Nat
      OBVIOUS
    <3>1. Owing(d) \in Nat
      BY <1>2 DEF Owing, Working, One
    <3>2. CASE d = c
      <4> HIDE DEF Owing
      <4> QED BY <1>9, <3>1, <3>2
    <3>3. CASE d # c
      <4>1. d \in Asyncs \ {c, Root}
        BY <3>3, AsyncAssumption DEF Asyncs
      <4>2. ChildInv(d) /\ Untouched(d) /\ \A ops : Frames(ops, d)' = Frames(ops, d)
        BY <1>6, <1>7, <4>1 DEF Passed, WorkInv
      <4> QED BY <1>7, <3>1, <4>2, UntouchedChild
    <3> QED BY <3>2, <3>3
  <2>2. Frames(Opens, Root)' = Frames(Opens, Root) /\ Frames(Opens, Root) \in Nat
    BY <1>2, <1>8 DEF Opens, Working
  <2> HIDE DEF Owing
  <2> QED BY <1>7, <2>1, <2>2, OrderKept
<1> QED BY <1>2, <1>4, <1>6, <1>7, <1>9, <1>10, <1>11, AsyncAssumption, PassedSteps


-----------------------------------------------------------------------------
(* The steps of a stream *)

\* Nothing changes but locks and what the history says.
LEMMA NothingKeepsWork ==
  ASSUME WorkInv, StreamInv',
         UNCHANGED <<stack, life, ref, called, handle, timer, io, canceled, completed, child>>
  PROVE  WorkInv'
<1>1. /\ LifeTypes' /\ Linked' /\ CallsAreNested'
      /\ \A th \in Threads : WellFormed(stack'[th])
  BY DEF WorkInv, LifeTypes, Linked, CallsAreNested
<1>2. /\ \A ops, b : Frames(ops, b)' = Frames(ops, b)
      /\ \A b : Untouched(b)
      /\ RootStays
  BY DEF Frames, Untouched, RootStays
<1>3. \A b \in Asyncs : LifeInv(b)'
  BY <1>2, UntouchedKeeps DEF WorkInv
<1>4. \A c \in Children : ChildInv(c)' /\ Owing(c)' = Owing(c)
  BY <1>2, UntouchedChild DEF WorkInv
<1>5. OneAfterAnother'
  <2>1. OneAfterAnother
    BY DEF WorkInv
  <2> HIDE DEF Owing
  <2> QED BY <1>2, <1>4, <2>1 DEF OneAfterAnother
<1> QED BY <1>1, <1>3, <1>4, <1>5 DEF WorkInv

LEMMA LifeKeepsWork ==
  ASSUME WorkInv, StreamInv', NEW th \in Threads, NEW a \in Asyncs,
         \/ New(th, a) \/ AddTimerRef(th, a) \/ Schedule(th, a)
         \/ Release(th, a) \/ Destroy(th, a) \/ Unlock(th, a)
  PROVE  WorkInv'
BY NewTimedKeepsWork, NewKeepsWork, AddTimerRefKeepsWork, ScheduleKeepsWork, ReleaseKeepsWork,
   LastReleaseKeepsWork, DestroyKeepsWork, UnlockKeepsWork

LEMMA NotificationsKeepWork ==
  ASSUME WorkInv, StreamInv', NEW th \in Threads, NEW a \in Asyncs,
         \/ Notify(th, a) \/ AsyncNotify(th, a) \/ Callback(th, a) \/ AsyncCancel(th, a)
         \/ Cancel(th, a)
  PROVE  WorkInv'
<1>1. CASE Notify(th, a) \/ AsyncNotify(th, a) \/ Callback(th, a) \/ AsyncCancel(th, a)
  BY <1>1, NotifyTakesTimerKeepsWork, NotifyKeepsWork, AsyncNotifyAgainKeepsWork,
     AsyncNotifyKeepsWork, CallbackKeepsWork, AsyncCancelTakesTimerKeepsWork, AsyncCancelKeepsWork
<1>2. CASE Cancel(th, a)
  <2>1. CancelChild(th, a) \/ CancelCall(th, a) \/ CancelDirectly(th, a)
    BY <1>2 DEF Cancel
  <2> QED BY <1>2, <2>1, CancelChildKeepsWork, CancelCallKeepsWork, CancelDirectlyKeepsWork
<1> QED BY <1>1, <1>2

\* The socket call of a child.
LEMMA SocketCallsKeepWork ==
  ASSUME WorkInv, StreamInv', NEW th \in Threads, NEW a \in Asyncs,
         \/ Receive(th, a) \/ Send(th, a) \/ SendEnter(th, a) \/ Recv(th, a) \/ SubmitSend(th, a)
  PROVE  WorkInv'
<1>1. a \in Children
  <2>1. PICK op \in {"receive", "send", "send_enter", "recv", "submit"} : At(th, op, a)
    BY DEF Receive, Send, SendEnter, Recv, SubmitSend
  <2>2. StreamFrame(Head(stack[th])) /\ Head(stack[th]).op = op /\ Head(stack[th]).async = a
    BY <2>1, AtWork
  <2> QED BY <2>2 DEF StreamFrame
<1>2. CASE Receive(th, a) \/ Send(th, a) \/ SendEnter(th, a)
  BY <1>1, <1>2, ReceiveTooLateKeepsWork, ReceiveKeepsWork, SendKeepsWork,
     SendEnterTooLateKeepsWork, SendEnterKeepsWork
<1>3. CASE Recv(th, a)
  <2>1. Submit(th, a, AsyncLeave(a))
    BY <1>3 DEF Recv
  <2> QED BY <1>1, <1>3, <2>1, RecvStartsKeepsWork, RecvFailsKeepsWork DEF Submit
<1>4. CASE SubmitSend(th, a)
  <2>1. Submit(th, a, AsyncLeave(a))
    BY <1>4 DEF SubmitSend
  <2> QED BY <1>1, <1>4, <2>1, SubmitSendStartsKeepsWork, SubmitSendFailsKeepsWork DEF Submit
<1> QED BY <1>2, <1>3, <1>4

LEMMA ExecuteKeepsWork ==
  ASSUME WorkInv, StreamInv', Ops \subseteq {"ssl_receive", "ssl_send"},
         NEW th \in Threads, NEW a \in Asyncs, Execute(th, a)
  PROVE  WorkInv'
<1>1. CASE Start(th, a)
  <2>1. a = Root
    <3>1. At(th, "start", a)
      BY <1>1 DEF Start
    <3>2. StreamFrame(Head(stack[th])) /\ Head(stack[th]).op = "start" /\ Head(stack[th]).async = a
      BY <3>1, AtWork
    <3> QED BY <3>2 DEF StreamFrame
  <2>2. Call(th, <<Frame("ssl_receive", a)>>) \/ Call(th, <<Frame("ssl_send", a)>>)
    BY <1>1 DEF Start
  <2> QED BY <1>1, <2>1, <2>2, StartsReceiveKeepsWork, StartsSendKeepsWork
<1>2. ~(Disconnect(th, a) \/ Accept(th, a) \/ DisconnectEx(th, a) \/ AcceptEx(th, a))
  <2> SUFFICES ASSUME NEW op \in {"disconnect", "accept", "disconnectex", "acceptex"},
                      At(th, op, a)
               PROVE  FALSE
    BY DEF Disconnect, Accept, DisconnectEx, AcceptEx
  <2>1. StreamFrame(Head(stack[th])) /\ Head(stack[th]).op = op
    BY AtWork
  <2> QED BY <2>1 DEF StreamFrame
<1> QED BY <1>1, <1>2, LifeKeepsWork, NotificationsKeepWork, SocketCallsKeepWork DEF Execute

\* What the issuer starts, and what a callback starts next, is a new child.
LEMMA ChildToStart ==
  ASSUME Unborn # {}, NEW op \in {"receive", "send"}
  PROVE  \E d \in Children : /\ life[d] = "none"
                             /\ StartChild(op) = <<Frame("new", d), Frame(op, d)>>
                             /\ Does(Frame("new", d), "new", d) /\ Does(Frame(op, d), op, d)
<1> DEFINE d == CHOOSE new \in Unborn : TRUE
<1>1. d \in Children /\ life[d] = "none"
  <2>1. d \in Unborn
    OBVIOUS
  <2> QED BY <2>1 DEF Unborn
<1>2. StartChild(op) = <<Frame("new", d), Frame(op, d)>>
  BY DEF StartChild
<1> HIDE DEF d
<1>3. Does(Frame("new", d), "new", d) /\ Does(Frame(op, d), op, d)
  BY <1>1, DoesOp, DoesCall
<1> QED BY <1>1, <1>2, <1>3

LEMMA RootNotified ==
  /\ Does(Frame("notify", Root), "notify", Root)
  /\ Does(Success("notify", Root), "notify", Root)
BY DoesOp

LEMMA UserCallsKeepWork ==
  ASSUME WorkInv, StreamInv', NEW th \in Threads, SslReceive(th) \/ SslSend(th)
  PROVE  WorkInv'
<1>1. PICK o \in {"ssl_receive", "ssl_send"}, x \in {"receive", "send"} :
        /\ At(th, o, Root)
        /\ \/ Call(th, <<Success("notify", Root)>>)
           \/ Call(th, <<Frame("notify", Root)>>)
           \/ Unborn # {} /\ Call(th, StartChild(x))
  BY DEF SslReceive, SslSend
<1>2. UNCHANGED <<life, ref, called, handle, timer, io, canceled, completed, child>>
  BY DEF SslReceive, SslSend, StreamUnchanged, operation, request, rest, history
<1>3. CASE Call(th, <<Success("notify", Root)>>) \/ Call(th, <<Frame("notify", Root)>>)
  BY <1>1, <1>2, <1>3, RootNotified, CallEndsKeepsWork
<1>4. CASE Unborn # {} /\ Call(th, StartChild(x))
  <2>1. PICK d \in Children : /\ life[d] = "none"
                              /\ StartChild(x) = <<Frame("new", d), Frame(x, d)>>
                              /\ Does(Frame("new", d), "new", d) /\ Does(Frame(x, d), x, d)
    BY <1>4, ChildToStart
  <2>2. life[Root] = "live"
    BY <1>1, Lives DEF Outside
  <2>3. d \in Asyncs \ {Root}
    BY AsyncAssumption DEF Asyncs
  <2>4. Passed(Root, o, "-", d, "new", x)
    BY <1>1, <1>4, <2>1, <2>3, Pass2
  <2> QED BY <1>2, <2>1, <2>2, <2>4, FirstChildKeepsWork
<1> QED BY <1>1, <1>3, <1>4

LEMMA ChildCallbacksKeepWork ==
  ASSUME WorkInv, StreamInv', NEW th \in Threads, NEW c \in Children, ChildCallback(th, c)
  PROVE  WorkInv'
<1> DEFINE n == Frame("notify", Root)
           y == Success("notify", Root)
<1>1. /\ At(th, "callback", c)
      /\ OnlyCallsBack(c)
      /\ \/ Call(th, <<n>>) \/ Call(th, <<y>>) \/ Call(th, <<y, y>>)
         \/ Unborn # {} /\ Call(th, StartChild("send"))
  BY DEF ChildCallback, ChildFails, Received, Sent, CallbackThen, OnlyCallsBack, operation, request
<1>2. Does(n, "notify", Root) /\ Does(y, "notify", Root)
  BY RootNotified
<1> HIDE DEF n, y
<1>3. life[c] = "live"
  BY <1>1, Lives DEF Outside
<1>4. Root \in Asyncs \ {c}
  BY AsyncAssumption DEF Asyncs
<1>5. CASE Call(th, <<n>>) \/ Call(th, <<y>>)
  <2>1. Passed(c, "callback", "-", Root, "notify", "-")
    BY <1>1, <1>2, <1>4, <1>5, Pass1
  <2> QED BY <1>1, <1>3, <2>1, ChildReportsKeepsWork
<1>6. CASE Call(th, <<y, y>>)
  <2>1. Passed(c, "callback", "-", Root, "notify", "notify")
    BY <1>1, <1>2, <1>4, <1>6, Pass2
  <2> QED BY <1>1, <1>3, <2>1, ChildReportsKeepsWork
<1>7. CASE Unborn # {} /\ Call(th, StartChild("send"))
  <2>1. PICK d \in Children : /\ life[d] = "none"
                              /\ StartChild("send") = <<Frame("new", d), Frame("send", d)>>
                              /\ Does(Frame("new", d), "new", d) /\ Does(Frame("send", d), "send", d)
    BY <1>7, ChildToStart
  <2>2. d \in Children \ {c} /\ d \in Asyncs \ {c}
    BY <1>3, <2>1 DEF Asyncs
  <2>3. Passed(c, "callback", "-", d, "new", "send")
    BY <1>1, <1>7, <2>1, <2>2, Pass2
  <2> QED BY <1>1, <1>3, <2>1, <2>2, <2>3, NextChunkKeepsWork
<1> QED BY <1>1, <1>5, <1>6, <1>7

LEMMA WorkNextPreserves ==
  ASSUME WorkInv, Ops \subseteq {"ssl_receive", "ssl_send"}, [StreamNext]_vars
  PROVE  WorkInv'
<1>1. StreamInv'
  BY StreamNextPreserves DEF WorkInv
<1>2. ASSUME NEW th \in Threads, StreamStep(th)
      PROVE  WorkInv'
  <2>1. CASE UseAfterFree(th)
    BY <1>1, <2>1, NothingKeepsWork DEF UseAfterFree, operation, request, history
  <2> QED BY <1>1, <1>2, <2>1, ExecuteKeepsWork, UserCallsKeepWork, ChildCallbacksKeepWork
          DEF StreamStep, Step
<1>3. ASSUME NEW a \in Asyncs, IoEnds(a) \/ TimeoutFires(a)
      PROVE  WorkInv'
  BY <1>1, <1>3, IoEndsKeepsWork, TimeoutFiresKeepsWork
<1>4. ASSUME NEW a \in Asyncs, NEW th \in Workers, Dequeue(th, a)
      PROVE  WorkInv'
  <2>1. th \in Threads
    BY DEF Threads
  <2>2. \/ stack' = [stack EXCEPT ![th] = <<Frame("notify", a)>>]
        \/ stack' = [stack EXCEPT ![th] = <<Success("notify", a)>>]
    BY <1>4 DEF Dequeue
  <2> QED BY <1>1, <1>4, <2>1, <2>2, DequeueFailureKeepsWork, DequeueSuccessKeepsWork
<1>5. ASSUME NEW th \in Cancellers, Ask(th)
      PROVE  WorkInv'
  <2>1. th \in Threads /\ Root \in Asyncs
    BY DEF Threads, Asyncs
  <2> QED BY <1>1, <1>5, <2>1, AskKeepsWork
<1>6. CASE UNCHANGED vars
  BY <1>1, <1>6, NothingKeepsWork DEF vars, operation, request, history
<1> QED BY <1>2, <1>3, <1>4, <1>5, <1>6 DEF StreamNext

\* At the start no thread calls back.
LEMMA FirstStacks ==
  ASSUME Init
  PROVE  \A th \in Threads : WellFormed(stack[th])
<1> DEFINE f == Frame("new", Root)
           g == Frame("start", Root)
<1>1. /\ f \in FrameType /\ f.op = "new" /\ f.async = Root
      /\ g \in FrameType /\ g.op = "start" /\ g.async = Root
  BY NewFrames DEF Operations, Asyncs
<1>2. \A th \in Threads : stack[th] = IF th = Issuer THEN <<f, g>> ELSE << >>
  BY DEF Init
<1>3. StreamFrame(f) /\ StreamFrame(g)
  BY <1>1 DEF StreamFrame
<1> HIDE DEF f, g
<1>4. WellFormed(<<f, g>>)
  BY <1>1, <1>3, WellFormedTwo
<1> QED BY <1>2, <1>4, WellFormedNone

LEMMA WorkBeginsWell ==
  ASSUME Init
  PROVE  WorkInv
<1>1. /\ stack \in Stacks /\ Finite(stack) /\ \A th \in Threads : WellFormed(stack[th])
      /\ \A ops : Frames(ops, Root) = One("start" \in ops) + One("new" \in ops)
      /\ \A b \in Asyncs \ {Root} : \A ops : Frames(ops, b) = 0
  BY FirstFrames, FirstStacks
<1>2. StreamInv /\ LifeTypes /\ Linked /\ CallsAreNested
  <2>1. StreamInv
    BY StreamBeginsWell
  <2>2. Others \subseteq Asyncs
    BY DEF Asyncs
  <2> QED BY <1>1, <2>1, <2>2 DEF LifeTypes, Linked, CallsAreNested, Init, NoneYet
<1>3. Root \in Asyncs /\ \A c \in Children : c \in Asyncs \ {Root}
  BY AsyncAssumption DEF Asyncs
<1>4. \A a \in Asyncs : /\ life[a] = "none" /\ ~called[a] /\ ~canceled[a] /\ timer[a] = "idle"
                        /\ io[a] = "none" /\ child[Root] # a /\ completed[a] = 0
  <2>1. \A a \in Asyncs : None # a
    BY AsyncAssumption DEF Asyncs
  <2> QED BY <1>3, <2>1 DEF Init, NoneYet
<1>5. LifeInv(Root)
  <2>1. /\ Frames({"new"}, Root) = 1 /\ Frames(Waiting, Root) = 1 /\ Frames(Later, Root) = 0
        /\ Frames(Timing, Root) = 0 /\ Frames({"callback"}, Root) = 0
        /\ Frames({"destroy"}, Root) = 0
    BY <1>1 DEF Waiting, Later, Timing, One
  <2> QED BY <1>3, <1>4, <2>1
          DEF LifeInv, NothingBefore, BornOnce, TimedOnce, RefExact, CallsBack, FreedLast, One
<1>6. ASSUME NEW a \in Asyncs \ {Root}
      PROVE  LifeInv(a)
  <2>1. \A ops : Frames(ops, a) = 0
    BY <1>1
  <2> QED BY <1>4, <2>1
          DEF LifeInv, NothingBefore, BornOnce, TimedOnce, RefExact, CallsBack, FreedLast, One
<1>7. ASSUME NEW c \in Children
      PROVE  ChildInv(c) /\ Owing(c) = 0
  <2>1. c \in Asyncs /\ \A ops : Frames(ops, c) = 0
    BY <1>1, <1>3
  <2> QED BY <1>4, <2>1 DEF ChildInv, EndsByItself, AbortsCall, BornInside, Owing, One
<1>8. OneAfterAnother
  <2>1. Frames(Opens, Root) = 1 /\ Frames(Reports, Root) = 0
    BY <1>1 DEF Opens, Reports, One
  <2> HIDE DEF Owing
  <2> QED BY <1>3, <1>4, <1>7, <2>1 DEF OneAfterAnother
<1> QED BY <1>1, <1>2, <1>5, <1>6, <1>7, <1>8 DEF WorkInv

LEMMA WorkInvariant ==
  ASSUME Ops \subseteq {"ssl_receive", "ssl_send"}
  PROVE  StreamSafeSpec => []WorkInv
<1>1. Init => WorkInv
  BY WorkBeginsWell
<1>2. WorkInv /\ [StreamNext]_vars => WorkInv'
  BY WorkNextPreserves
<1> QED BY <1>1, <1>2, PTL DEF StreamSafeSpec

-----------------------------------------------------------------------------
(* What a stream promises of its operations *)

\* Of a receive or send through an SSL socket, and of its children, the count of
\* references is exact at every moment.
THEOREM StreamReferencesAreExact ==
  ASSUME Ops \subseteq {"ssl_receive", "ssl_send"}
  PROVE  StreamSafeSpec => []RefCountExact
<1>1. WorkInv => RefCountExact
  BY DEF WorkInv, LifeInv, RefExact, RefCountExact
<1> QED BY <1>1, WorkInvariant, PTL

\* A receive or send through an SSL socket calls back once, however it ends, and
\* so does every operation nested in it, and none is freed before that.
THEOREM StreamCallsBackOnce ==
  ASSUME Ops \subseteq {"ssl_receive", "ssl_send"}
  PROVE  StreamSafeSpec => []OneCallback
<1>1. ASSUME WorkInv, NEW a \in Asyncs
      PROVE  completed[a] <= 1 /\ (life[a] = "freed" => completed[a] = 1)
  <2>1. Working(a)
    BY <1>1, Works
  <2>2. completed[a] \in Int /\ Frames({"callback"}, a) \in Nat
    BY <2>1 DEF Working, LifeTypes
  <2>3. Frames({"callback"}, a) + completed[a] = One(called[a])
    BY <2>1 DEF Working, LifeInv, CallsBack
  <2>4. life[a] = "freed" => called[a] /\ Frames({"callback"}, a) = 0
    BY <2>1 DEF Working, LifeInv, FreedLast
  <2> QED BY <2>2, <2>3, <2>4 DEF One
<1>2. WorkInv => OneCallback
  BY <1>1 DEF OneCallback
<1> QED BY <1>2, WorkInvariant, PTL

\* A stream operation is not reported while the kernel works for one of its
\* children, unless it was cancelled and the cancellation never reached the child.
THEOREM StreamWorkEndsFirst ==
  ASSUME Ops \subseteq {"ssl_receive", "ssl_send"}
  PROVE  StreamSafeSpec => []WorkEndsFirst
<1>1. ASSUME WorkInv, completed[Root] = 1, NEW c \in Children, io[c] = "pending"
      PROVE  canceled[Root] /\ ~canceled[c]
  <2>1. c \in Asyncs
    BY DEF Asyncs
  <2>2. Working(c) /\ LifeInv(c) /\ ChildInv(c)
    BY <1>1, <2>1, Works DEF Working
  <2>3. ~canceled[c]
    BY <1>1, <2>2 DEF ChildInv, AbortsCall
  <2>4. \A ops : Frames(ops, c) \in Nat
    BY <2>2 DEF Working
  <2>5. ~called[c]
    <3>1. Frames(Carrying, c) + One(io[c] \in {"pending", "queued"}) + One(called[c]) <= 1
      BY <2>2, <2>3 DEF ChildInv, EndsByItself
    <3> QED BY <1>1, <2>4, <3>1 DEF One
  <2>6. life[c] # "none"
    BY <1>1, <2>2 DEF LifeInv, NothingBefore
  <2>7. Owing(c) # 0
    BY <2>4, <2>5, <2>6 DEF Owing, One
  <2>8. OneAfterAnother
    BY <1>1 DEF WorkInv
  <2> HIDE DEF Owing
  <2> QED BY <1>1, <2>3, <2>7, <2>8 DEF OneAfterAnother
<1>2. WorkInv => WorkEndsFirst
  BY <1>1 DEF WorkEndsFirst
<1> QED BY <1>2, WorkInvariant, PTL

-----------------------------------------------------------------------------
(* Who comes too late *)

\* Nobody has cancelled the user's operation.
Calm == asked = {} /\ ~canceled[Root]

\* Frame k of stack s is about the operation that frame j is about.
Same(s, j, k) == j \in DOMAIN s /\ s[j].async = s[k].async

\* What comes after a frame on its stack, and before it.  A thread that leaves a
\* monitor, or that the timer has started, gives up a reference of its own after
\* that; a socket call waits until its operation is created and its timer is set.
Rule(s, k) ==
  /\ s[k].op # "cancel"
  /\ s[k].op \in {"unlock", "_cancel"} /\ ~canceled[s[k].async] =>
       Same(s, k + 1, k) /\ s[k + 1].op = "release"
  /\ s[k].op \in {"new"} \union Timing => Same(s, k + 1, k) /\ s[k + 1].op \in Waiting
  /\ s[k].op \in Waiting /\ life[s[k].async] = "none" =>
       Same(s, k - 1, k) /\ s[k - 1].op = "new"

InOrder(s) == \A k \in DOMAIN s : Rule(s, k)

StacksInOrder == \A th \in Threads : InOrder(stack[th])

\* Who destroys an operation had its last reference.
GoneAtLast(a) ==
  ~canceled[a] =>
    /\ Frames({"destroy"}, a) + One(life[a] = "freed") <= 1
    /\ Frames({"destroy"}, a) > 0 \/ life[a] = "freed" =>
         Frames(Holding, a) = 0 /\ timer[a] # "armed"

\* A second success that is notified after the first.
Again(f) == f.op = "notify" /\ f.ok

\* The frames of Root are the first n of a stack: it is about to start, or its timer
\* has fired, or one thread reports it.
Reported(s, m) ==
  \/ /\ ~called[Root]
     /\ \/ m = 1 /\ s[1].op \in {"notify", "async_notify"}
        \/ m = 2 /\ s[1].op = "release" /\ s[2].op = "async_notify"
  \/ /\ called[Root]
     /\ \/ m = 0
        \/ m = 1 /\ s[1].op \in {"release", "destroy"}
        \/ m = 2 /\ s[1].op = "callback" /\ s[2].op = "release"

Shape(s, n) ==
  \/ n = 0
  \/ n = 1 /\ s[1].op \in Opens
  \/ n = 2 /\ s[1].op \in {"new"} \union Timing /\ s[2].op = "start"
  \/ n = 2 /\ s[1].op = "_cancel" /\ s[2].op = "release"
  \/ n = 1 /\ s[1].op = "async_notify" /\ called[Root] /\ Frames({"_cancel"}, Root) > 0
  \/ Reported(s, n)
  \/ n > 0 /\ Again(s[n]) /\ Reported(s, n - 1)

RootPart(s) ==
  \E n \in 0..3 :
    n <= Len(s) /\ (\A k \in DOMAIN s : s[k].async = Root <=> k <= n) /\ Shape(s, n)

Reporter(th) ==
  stack[th] # << >> /\ Head(stack[th]).async = Root /\ Head(stack[th]).op # "_cancel"

RootReported ==
  /\ \A th \in Threads : RootPart(stack[th])
  /\ \A th, t \in Threads : Reporter(th) /\ Reporter(t) => th = t
  /\ called[Root] \/ Frames({"async_notify"}, Root) > 0 => timer[Root] # "armed"
  /\ life[Root] = "live" => ref[Root] >= 1 \/ Frames({"destroy"}, Root) > 0

CalmInv ==
  /\ StacksInOrder
  /\ \A a \in Asyncs : GoneAtLast(a)
  /\ RootReported

LateInv == Calm => CalmInv

-----------------------------------------------------------------------------
(* The order of frames *)

\* Nobody comes back, and nothing is forgotten.
Onward ==
  \A a \in Asyncs : /\ canceled[a] => canceled'[a]
                    /\ life[a] # "none" => life'[a] # "none"

\* The timer of an operation that h creates, or schedules, is set next.
Continues(h, q, k) ==
  /\ k = Len(q) /\ q[k].op \in Timing /\ q[k].async = h.async
  /\ h.op \in {"new"} \union Timing

LEMMA RestInOrder ==
  ASSUME NEW t \in Threads, stack[t] \in Seq(FrameType), stack'[t] = stack[t], InOrder(stack[t]),
         Onward
  PROVE  InOrder(stack[t])'
<1>1. \A k \in DOMAIN stack[t] : stack[t][k].async \in Asyncs
  <2>1. \A k \in DOMAIN stack[t] : stack[t][k] \in FrameType
    OBVIOUS
  <2> QED BY <2>1 DEF FrameType
<1> QED BY <1>1 DEF InOrder, Rule, Same, Onward

LEMMA StaysInOrder ==
  ASSUME WorkInv, NEW th \in Threads, stack[th] # << >>, \A t \in Threads : InOrder(stack[t]),
         NEW q \in Seq(FrameType), Call(th, q), Onward,
         Head(stack[th]).op = "new" => life'[Head(stack[th]).async] # "none",
         \A k \in DOMAIN q : Rule(q, k)' \/ Continues(Head(stack[th]), q, k)
  PROVE  \A t \in Threads : InOrder(stack[t])'
<1>1. stack \in Stacks
  BY DEF WorkInv, StreamInv, StreamTypes
<1>2. /\ stack[th] \in Seq(FrameType) /\ stack'[th] = q \o Tail(stack[th])
      /\ \A t \in Threads \ {th} : stack'[t] = stack[t] /\ stack[t] \in Seq(FrameType)
  BY <1>1 DEF Call, Stacks
<1> DEFINE s == stack[th]
           n == stack'[th]
<1>3. /\ Len(n) = Len(q) + Len(s) - 1 /\ Len(q) \in Nat /\ Len(s) \in Nat /\ Len(s) >= 1
      /\ DOMAIN n = 1..Len(n) /\ DOMAIN q = 1..Len(q) /\ DOMAIN s = 1..Len(s)
      /\ \A k \in 1..Len(q) : n[k] = q[k]
      /\ \A k \in Len(q) + 1..Len(n) : n[k] = s[k - Len(q) + 1]
  BY <1>2
<1>11. \A j \in Len(q) + 1..Len(n) : j \in DOMAIN n /\ n[j] = s[j - Len(q) + 1]
  BY <1>3
<1>4. InOrder(s) /\ Head(s) = s[1] /\ s \in Seq(FrameType)
  BY <1>2
<1>5. s[1].op = "new" => life'[s[1].async] # "none"
  BY <1>4
<1>6. \A k \in DOMAIN q : Rule(q, k)' \/ Continues(s[1], q, k)
  BY <1>4
<1>7. \A f \in FrameType : f.async \in Asyncs
  BY DEF FrameType
<1> HIDE DEF s, n
<1>8. ASSUME NEW k \in DOMAIN n
      PROVE  /\ n[k].op # "cancel"
             /\ n[k].op \in {"unlock", "_cancel"} /\ ~canceled'[n[k].async] =>
                  Same(n, k + 1, k) /\ n[k + 1].op = "release"
             /\ n[k].op \in {"new"} \union Timing => Same(n, k + 1, k) /\ n[k + 1].op \in Waiting
             /\ n[k].op \in Waiting /\ life'[n[k].async] = "none" =>
                  Same(n, k - 1, k) /\ n[k - 1].op = "new"
  <2>1. CASE k <= Len(q)
    <3>1. k \in DOMAIN q /\ n[k] = q[k]
      BY <1>3, <2>1
    <3>2. CASE Rule(q, k)'
      <4>1. \A j \in DOMAIN q : j \in DOMAIN n /\ n[j] = q[j]
        BY <1>3
      <4>2. /\ q[k].op # "cancel"
            /\ q[k].op \in {"unlock", "_cancel"} /\ ~canceled'[q[k].async] =>
                 Same(q, k + 1, k) /\ q[k + 1].op = "release"
            /\ q[k].op \in {"new"} \union Timing => Same(q, k + 1, k) /\ q[k + 1].op \in Waiting
            /\ q[k].op \in Waiting /\ life'[q[k].async] = "none" =>
                 Same(q, k - 1, k) /\ q[k - 1].op = "new"
        BY <3>2 DEF Rule, Same
      <4>3. /\ Same(q, k + 1, k) => Same(n, k + 1, k) /\ n[k + 1] = q[k + 1]
            /\ Same(q, k - 1, k) => Same(n, k - 1, k) /\ n[k - 1] = q[k - 1]
        BY <3>1, <4>1 DEF Same
      <4> HIDE DEF Same
      <4> QED BY <3>1, <4>2, <4>3
    <3>3. CASE Continues(s[1], q, k)
      <4>1. k = Len(q) /\ q[k].op \in Timing /\ q[k].async = s[1].async
        BY <3>3 DEF Continues
      <4>2. 2 \in DOMAIN s /\ s[2].async = s[1].async /\ s[2].op \in Waiting
        <5>1. 1 \in DOMAIN s /\ s[1].op \in {"new"} \union Timing
          BY <1>3, <3>3 DEF Continues
        <5> QED BY <1>4, <5>1 DEF InOrder, Rule, Same
      <4>3. k + 1 \in DOMAIN n /\ n[k + 1] = s[2]
        BY <1>3, <3>1, <4>1, <4>2
      <4> QED BY <3>1, <4>1, <4>2, <4>3 DEF Same, Timing, Waiting
    <3> QED BY <1>6, <3>1, <3>2, <3>3
  <2>2. CASE ~(k <= Len(q))
    <3> DEFINE i == k - Len(q) + 1
    <3>1. i \in DOMAIN s /\ n[k] = s[i] /\ i >= 2 /\ k \in Nat
      BY <1>3, <2>2
    <3>2. Rule(s, i) /\ s[i].async \in Asyncs
      BY <1>4, <1>7, <3>1 DEF InOrder
    <3>3. Same(s, i + 1, i) => Same(n, k + 1, k) /\ n[k + 1] = s[i + 1]
      <4> SUFFICES ASSUME i + 1 \in DOMAIN s
                   PROVE  k + 1 \in DOMAIN n /\ n[k + 1] = s[i + 1]
        BY <3>1 DEF Same
      <4>1. k + 1 \in Len(q) + 1..Len(n) /\ (k + 1) - Len(q) + 1 = i + 1
        BY <1>3, <2>2, <3>1
      <4>2. k + 1 \in DOMAIN n /\ n[k + 1] = s[(k + 1) - Len(q) + 1]
        BY <1>11, <4>1
      <4> QED BY <4>1, <4>2
    <3>4. i # 2 => (Same(s, i - 1, i) => Same(n, k - 1, k) /\ n[k - 1] = s[i - 1])
      <4> SUFFICES ASSUME i # 2
                   PROVE  k - 1 \in DOMAIN n /\ n[k - 1] = s[i - 1]
        BY <3>1 DEF Same
      <4>1. k - 1 \in Len(q) + 1..Len(n) /\ (k - 1) - Len(q) + 1 = i - 1
        BY <1>3, <2>2, <3>1
      <4>2. k - 1 \in DOMAIN n /\ n[k - 1] = s[(k - 1) - Len(q) + 1]
        BY <1>11, <4>1
      <4> QED BY <4>1, <4>2
    <3> HIDE DEF i
    <3>5. canceled[s[i].async] => canceled'[s[i].async]
      BY <3>2 DEF Onward
    <3>6. life'[s[i].async] = "none" => life[s[i].async] = "none"
      BY <3>2 DEF Onward
    <3>7. i = 2 /\ Same(s, i - 1, i) /\ s[i - 1].op = "new" => life'[s[i].async] # "none"
      BY <1>5 DEF Same
    <3> DEFINE f == s[i]
    <3>8. /\ f.op # "cancel"
          /\ f.op \in {"unlock", "_cancel"} /\ ~canceled[f.async] =>
               Same(s, i + 1, i) /\ s[i + 1].op = "release"
          /\ f.op \in {"new"} \union Timing => Same(s, i + 1, i) /\ s[i + 1].op \in Waiting
          /\ f.op \in Waiting /\ life[f.async] = "none" =>
               Same(s, i - 1, i) /\ s[i - 1].op = "new"
      BY <3>2 DEF Rule
    <3> HIDE DEF Same, f
    <3> QED BY <3>1, <3>3, <3>4, <3>5, <3>6, <3>7, <3>8 DEF f
  <2> QED BY <2>1, <2>2
<1>9. InOrder(stack[th])'
  BY <1>8 DEF InOrder, Rule, Same, n
<1>10. \A t \in Threads \ {th} : InOrder(stack[t])'
  BY <1>2, RestInOrder
<1> QED BY <1>9, <1>10

\* Frames that need nothing before them or after them.
Plain(f) == f.op \notin {"cancel", "unlock", "_cancel", "new"} \union Timing \union Waiting

LEMMA InOrderNone == InOrder(<< >>)'
BY DEF InOrder

LEMMA InOrderOne ==
  ASSUME NEW f, Plain(f)
  PROVE  InOrder(<<f>>)'
BY DEF InOrder, Rule, Plain

LEMMA InOrderTwo ==
  ASSUME NEW f, NEW g,
         \/ Plain(f)
         \/ f.op \in {"unlock", "_cancel"} /\ g.op = "release" /\ g.async = f.async,
         Plain(g) \/ (g.op = "unlock" /\ canceled'[g.async])
  PROVE  InOrder(<<f, g>>)'
<1> DEFINE s == <<f, g>>
<1>1. s[1] = f /\ s[2] = g /\ DOMAIN s = {1, 2}
  OBVIOUS
<1> HIDE DEF s
<1>2. InOrder(s)'
  BY <1>1 DEF InOrder, Rule, Same, Plain, Timing, Waiting
<1> QED BY <1>2 DEF s

LEMMA InOrderThree ==
  ASSUME NEW f, NEW g, NEW h, f.op = "unlock", g.op = "release", g.async = f.async, Plain(h)
  PROVE  InOrder(<<f, g, h>>)'
<1> DEFINE s == <<f, g, h>>
<1>1. s[1] = f /\ s[2] = g /\ s[3] = h /\ DOMAIN s = {1, 2, 3}
  OBVIOUS
<1> HIDE DEF s
<1>2. InOrder(s)'
  BY <1>1 DEF InOrder, Rule, Same, Plain, Timing, Waiting
<1> QED BY <1>2 DEF s

\* A new child, and its call.
LEMMA InOrderNew ==
  ASSUME NEW f, NEW g, f.op = "new", g.op \in Waiting, g.async = f.async
  PROVE  InOrder(<<f, g>>)'
<1> DEFINE s == <<f, g>>
<1>1. s[1] = f /\ s[2] = g /\ DOMAIN s = {1, 2}
  OBVIOUS
<1> HIDE DEF s
<1>2. InOrder(s)'
  BY <1>1 DEF InOrder, Rule, Same, Timing, Waiting
<1> QED BY <1>2 DEF s

LEMMA KeptInOrder ==
  ASSUME WorkInv, StacksInOrder, NEW th \in Threads, NEW o, o # "new", NEW a, At(th, o, a),
         NEW q \in Seq(FrameType), Call(th, q), InOrder(q)', Onward
  PROVE  StacksInOrder'
<1>1. stack[th] # << >> /\ Head(stack[th]).op = o
  BY AtWork
<1>2. \A k \in DOMAIN q : Rule(q, k)'
  BY DEF InOrder
<1> QED BY <1>1, <1>2, StaysInOrder DEF StacksInOrder

\* It returns, or goes on with one frame, with two or with three.
LEMMA Order0 ==
  ASSUME WorkInv, StacksInOrder, NEW th \in Threads, NEW o, o # "new", NEW a, At(th, o, a),
         Call(th, << >>), Onward
  PROVE  StacksInOrder'
<1> DEFINE q == << >>
<1>1. q \in Seq(FrameType) /\ InOrder(q)' /\ Call(th, q)
  BY InOrderNone
<1> HIDE DEF q
<1> QED BY <1>1, KeptInOrder

LEMMA Order1 ==
  ASSUME WorkInv, StacksInOrder, NEW th \in Threads, NEW o, o # "new", NEW a, At(th, o, a),
         NEW f \in FrameType, Call(th, <<f>>), Plain(f), Onward
  PROVE  StacksInOrder'
<1> DEFINE q == <<f>>
<1>1. q \in Seq(FrameType) /\ InOrder(q)' /\ Call(th, q)
  BY InOrderOne
<1> HIDE DEF q
<1> QED BY <1>1, KeptInOrder

LEMMA Order2 ==
  ASSUME WorkInv, StacksInOrder, NEW th \in Threads, NEW o, o # "new", NEW a, At(th, o, a),
         NEW f \in FrameType, NEW g \in FrameType, Call(th, <<f, g>>), InOrder(<<f, g>>)', Onward
  PROVE  StacksInOrder'
<1> DEFINE q == <<f, g>>
<1>1. q \in Seq(FrameType) /\ InOrder(q)' /\ Call(th, q)
  OBVIOUS
<1> HIDE DEF q
<1> QED BY <1>1, KeptInOrder

LEMMA Order3 ==
  ASSUME WorkInv, StacksInOrder, NEW th \in Threads, NEW o, o # "new", NEW a, At(th, o, a),
         NEW f \in FrameType, NEW g \in FrameType, NEW h \in FrameType, Call(th, <<f, g, h>>),
         InOrder(<<f, g, h>>)', Onward
  PROVE  StacksInOrder'
<1> DEFINE q == <<f, g, h>>
<1>1. q \in Seq(FrameType) /\ InOrder(q)' /\ Call(th, q)
  OBVIOUS
<1> HIDE DEF q
<1> QED BY <1>1, KeptInOrder

LEMMA SameOnward ==
  ASSUME UNCHANGED <<life, canceled>>
  PROVE  Onward
BY DEF Onward

\* Frames of the operations of a stream, and which of them are plain.
LEMMA StreamFrameTypes ==
  ASSUME WorkInv, NEW th \in Threads, NEW o, NEW a, At(th, o, a)
  PROVE  /\ a \in {Root} \union Children
         /\ \A op \in {"add_timer_ref", "schedule", "notify", "async_notify", "callback",
                       "_cancel", "release", "destroy", "unlock", "send_enter", "recv", "submit"} :
              /\ Frame(op, a) \in FrameType /\ Frame(op, a).op = op /\ Frame(op, a).async = a
              /\ Carry(th, op, a) \in FrameType /\ Carry(th, op, a).op = op
              /\ Carry(th, op, a).async = a
<1>1. a \in {Root} \union Children /\ a \in Asyncs /\ Head(stack[th]) \in FrameType
  BY AtWork
<1>2. {"add_timer_ref", "schedule", "notify", "async_notify", "callback", "_cancel", "release",
       "destroy", "unlock", "send_enter", "recv", "submit"} \subseteq Operations
  BY DEF Operations
<1> QED BY <1>1, <1>2, NewFrames, CarriedFrames

LEMMA PlainOps ==
  ASSUME NEW f, f.op \in {"notify", "async_notify", "callback", "release", "destroy",
                          "send_enter", "recv", "submit", "ssl_receive", "ssl_send"}
  PROVE  Plain(f)
BY DEF Plain, Timing, Waiting

\* The operation is created, and its timer is set.
LEMMA BirthsInOrder ==
  ASSUME WorkInv, StacksInOrder, NEW th \in Threads, NEW a \in Asyncs,
         New(th, a) \/ AddTimerRef(th, a)
  PROVE  StacksInOrder'
<1>1. PICK o \in {"new", "add_timer_ref"}, op \in {"add_timer_ref", "schedule"} :
        /\ At(th, o, a)
        /\ Call(th, <<Frame(op, a)>>) \/ Call(th, << >>)
        /\ o = "new" => life' = [life EXCEPT ![a] = "live"]
        /\ o # "new" => life' = life
        /\ canceled' = canceled
  BY DEF New, AddTimerRef
<1>2. /\ stack[th] # << >> /\ Head(stack[th]).op = o /\ Head(stack[th]).async = a
      /\ Frame(op, a) \in FrameType /\ Frame(op, a).op = op /\ Frame(op, a).async = a
      /\ At(th, o, a)
  BY <1>1, AtWork, StreamFrameTypes
<1>3. Onward /\ (o = "new" => life'[a] # "none")
  BY <1>1 DEF Onward, WorkInv, LifeTypes
<1>4. CASE Call(th, << >>)
  <2> DEFINE q == << >>
  <2>1. q \in Seq(FrameType) /\ InOrder(q)' /\ Call(th, q)
    BY <1>4, InOrderNone
  <2> HIDE DEF q
  <2>2. \A k \in DOMAIN q : Rule(q, k)'
    BY <2>1 DEF InOrder
  <2> QED BY <2>2, <1>2, <1>3, <2>1, StaysInOrder DEF StacksInOrder
<1>5. CASE Call(th, <<Frame(op, a)>>)
  <2> DEFINE q == <<Frame(op, a)>>
  <2>1. q \in Seq(FrameType) /\ Call(th, q) /\ DOMAIN q = {1} /\ Len(q) = 1 /\ q[1] = Frame(op, a)
    BY <1>2, <1>5
  <2> HIDE DEF q
  <2>2. \A k \in DOMAIN q : Continues(Head(stack[th]), q, k)
    BY <1>2, <2>1 DEF Continues, Timing
  <2> QED BY <1>2, <1>3, <2>1, <2>2, StaysInOrder DEF StacksInOrder
<1> QED BY <1>1, <1>4, <1>5

LEMMA EntersInOrder ==
  ASSUME WorkInv, StacksInOrder, NEW th \in Threads, NEW o \in {"receive", "send_enter"}, NEW a,
         At(th, o, a), NEW next \in {"recv", "submit"}, AsyncEnter(th, a, next),
         UNCHANGED <<life, canceled>>
  PROVE  StacksInOrder'
<1> DEFINE f == Frame("notify", a)
           g == Frame("unlock", a)
           h == Frame(next, a)
<1>1. /\ f \in FrameType /\ f.op = "notify"
      /\ g \in FrameType /\ g.op = "unlock" /\ g.async = a
      /\ h \in FrameType /\ h.op = next
  BY StreamFrameTypes
<1>2. IF canceled[a] THEN Call(th, <<f, g>>) ELSE Call(th, <<h>>)
  BY DEF AsyncEnter
<1> HIDE DEF f, g, h
<1>3. Onward /\ Plain(f) /\ Plain(h)
  BY <1>1, PlainOps, SameOnward
<1>4. CASE canceled[a]
  <2>1. InOrder(<<f, g>>)'
    BY <1>1, <1>3, <1>4, InOrderTwo
  <2> QED BY <1>1, <1>2, <1>3, <1>4, <2>1, Order2
<1>5. CASE ~canceled[a]
  BY <1>1, <1>2, <1>3, <1>5, Order1
<1> QED BY <1>4, <1>5

LEMMA SubmitsInOrder ==
  ASSUME WorkInv, StacksInOrder, NEW th \in Threads, NEW o \in {"recv", "submit"}, NEW a,
         At(th, o, a), Submit(th, a, AsyncLeave(a)), UNCHANGED <<life, canceled>>
  PROVE  StacksInOrder'
<1>1. PICK f \in FrameType, g \in FrameType, h \in FrameType :
        /\ f = Frame("unlock", a) /\ f.op = "unlock" /\ f.async = a
        /\ g = Frame("release", a) /\ g.op = "release" /\ g.async = a
        /\ h = Frame("notify", a) /\ h.op = "notify"
  BY StreamFrameTypes
<1>2. Call(th, <<f, g>>) \/ Call(th, <<f, g, h>>)
  <2>1. <<f, g>> \o <<h>> = <<f, g, h>>
    BY Triples
  <2> QED BY <1>1, <2>1 DEF Submit, AsyncLeave
<1>3. Onward /\ Plain(g) /\ Plain(h)
  BY <1>1, PlainOps, SameOnward
<1>4. InOrder(<<f, g>>)' /\ InOrder(<<f, g, h>>)'
  BY <1>1, <1>3, InOrderTwo, InOrderThree
<1> QED BY <1>1, <1>2, <1>3, <1>4, Order2, Order3

LEMMA SocketCallsInOrder ==
  ASSUME WorkInv, StacksInOrder, NEW th \in Threads, NEW a \in Asyncs,
         \/ Receive(th, a) \/ Send(th, a) \/ SendEnter(th, a) \/ Recv(th, a) \/ SubmitSend(th, a)
  PROVE  StacksInOrder'
<1>1. CASE Receive(th, a) \/ SendEnter(th, a)
  BY <1>1, EntersInOrder DEF Receive, SendEnter
<1>2. CASE Recv(th, a) \/ SubmitSend(th, a)
  BY <1>2, SubmitsInOrder DEF Recv, SubmitSend, operation
<1>3. CASE Send(th, a)
  <2>1. At(th, "send", a) /\ Call(th, <<Frame("send_enter", a)>>) /\ UNCHANGED <<life, canceled>>
    BY <1>3 DEF Send
  <2>2. Frame("send_enter", a) \in FrameType /\ Plain(Frame("send_enter", a))
    BY <2>1, StreamFrameTypes, PlainOps
  <2> QED BY <2>1, <2>2, Order1, SameOnward
<1> QED BY <1>1, <1>2, <1>3

LEMMA EndsInOrder ==
  ASSUME WorkInv, StacksInOrder, NEW th \in Threads, NEW a \in Asyncs,
         \/ Schedule(th, a) \/ Release(th, a) \/ Destroy(th, a) \/ Unlock(th, a)
         \/ Callback(th, a)
  PROVE  StacksInOrder'
<1>1. PICK o \in {"schedule", "release", "destroy", "unlock", "callback"} :
        /\ At(th, o, a)
        /\ Call(th, << >>) \/ Call(th, <<Frame("destroy", a)>>)
        /\ canceled' = canceled
        /\ life' = life \/ life' = [life EXCEPT ![a] = "freed"]
  BY DEF Schedule, Release, Destroy, Unlock, Callback, CallbackThen, Return, operation
<1>2. Onward
  BY <1>1 DEF Onward, WorkInv, LifeTypes
<1>3. Frame("destroy", a) \in FrameType /\ Plain(Frame("destroy", a))
  BY <1>1, StreamFrameTypes, PlainOps
<1> QED BY <1>1, <1>2, <1>3, Order0, Order1

LEMMA NotificationsInOrder ==
  ASSUME WorkInv, StacksInOrder, NEW th \in Threads, NEW a \in Asyncs,
         Notify(th, a) \/ AsyncNotify(th, a)
  PROVE  StacksInOrder'
<1>1. PICK o \in {"notify", "async_notify"} : At(th, o, a)
  BY DEF Notify, AsyncNotify
<1>2. PICK f \in FrameType, g \in FrameType, h \in FrameType :
        /\ f = Frame("release", a) /\ f.op = "release"
        /\ g = Carry(th, "async_notify", a) /\ g.op = "async_notify"
        /\ h = Carry(th, "callback", a) /\ h.op = "callback"
  BY <1>1, StreamFrameTypes
<1>3. \/ Call(th, <<f, g>>) \/ Call(th, <<g>>) \/ Call(th, << >>) \/ Call(th, <<h, f>>)
  <2>1. <<f>> \o <<g>> = <<f, g>>
    BY Tuples
  <2>2. CASE Notify(th, a)
    BY <1>2, <2>1, <2>2 DEF Notify, CancelTimerThen
  <2>3. CASE AsyncNotify(th, a)
    BY <1>2, <2>3 DEF AsyncNotify
  <2> QED BY <2>2, <2>3
<1>4. Onward /\ Plain(f) /\ Plain(g) /\ Plain(h)
  <2>1. UNCHANGED <<life, canceled>>
    BY DEF Notify, AsyncNotify
  <2> QED BY <1>2, <2>1, PlainOps, SameOnward
<1>5. InOrder(<<f, g>>)' /\ InOrder(<<h, f>>)'
  BY <1>4, InOrderTwo
<1> QED BY <1>1, <1>3, <1>4, <1>5, Order0, Order1, Order2

\* Until somebody cancels the user's operation nobody takes the way to a child.
LEMMA CancelsInOrder ==
  ASSUME WorkInv, StacksInOrder, Calm', NEW th \in Threads, NEW a \in Asyncs,
         AsyncCancel(th, a) \/ Cancel(th, a)
  PROVE  /\ Cancel(th, a) /\ a # Root /\ (CancelCall(th, a) \/ CancelDirectly(th, a))
         /\ StacksInOrder'
<1>1. Cancel(th, a)
  <2> SUFFICES ASSUME AsyncCancel(th, a)
               PROVE  FALSE
    OBVIOUS
  <2>1. At(th, "cancel", a)
    BY DEF AsyncCancel
  <2>2. stack \in Stacks /\ stack[th] # << >> /\ Head(stack[th]).op = "cancel"
    BY <2>1, AtWork
  <2>3. 1 \in DOMAIN stack[th] /\ stack[th][1].op = "cancel"
    BY <2>2 DEF Stacks
  <2> QED BY <2>3 DEF StacksInOrder, InOrder, Rule
<1>2. /\ At(th, "_cancel", a) /\ canceled' = [canceled EXCEPT ![a] = TRUE] /\ life' = life
  BY <1>1 DEF Cancel
<1>3. a # Root /\ Onward
  <2>1. canceled \in [Asyncs -> BOOLEAN]
    BY Works DEF Working
  <2> QED BY <1>2, <2>1 DEF Calm, Onward
<1>4. CancelCall(th, a) \/ CancelDirectly(th, a)
  BY <1>1, <1>3 DEF Cancel, CancelChild, WorkInv, Linked
<1>5. Call(th, << >>) \/ Call(th, <<Frame("notify", a)>>)
  BY <1>4 DEF CancelCall, CancelDirectly, Return
<1>6. Frame("notify", a) \in FrameType /\ Plain(Frame("notify", a))
  BY <1>2, StreamFrameTypes, PlainOps
<1> QED BY <1>1, <1>2, <1>3, <1>4, <1>5, <1>6, Order0, Order1

\* What the user's call, and the callbacks of the children, go on with.
CallsOn(o, f, g, th) ==
  \/ /\ f.op \in {"ssl_receive", "ssl_send"} /\ f.async = Root /\ o = "start"
     /\ Call(th, <<f>>)
  \/ /\ f.op = "notify" /\ f.async = Root /\ o # "start"
     /\ Call(th, <<f>>)
  \/ /\ f.op = "notify" /\ f.async = Root /\ f.ok /\ g = f /\ o = "callback"
     /\ Call(th, <<f, g>>)
  \/ /\ f.op = "new" /\ g.op \in {"receive", "send"} /\ g.async = f.async
     /\ f.async \in Children /\ o # "start"
     /\ Call(th, <<f, g>>)

LEMMA StreamCallShapes ==
  ASSUME WorkInv, Ops \subseteq {"ssl_receive", "ssl_send"}, NEW th \in Threads,
         \/ \E a \in Asyncs : Start(th, a)
         \/ SslReceive(th) \/ SslSend(th)
         \/ \E c \in Children : ChildCallback(th, c)
  PROVE  \E o \in {"start", "ssl_receive", "ssl_send", "callback"}, a \in Asyncs,
            f \in FrameType, g \in FrameType :
           /\ At(th, o, a) /\ (IF o = "callback" THEN a \in Children ELSE a = Root)
           /\ CallsOn(o, f, g, th)
           /\ UNCHANGED <<life, ref, canceled, called, timer>>
<1>1. PICK n \in FrameType, y \in FrameType, r \in FrameType, s \in FrameType :
        /\ n = Frame("notify", Root) /\ n.op = "notify" /\ n.async = Root
        /\ y = Success("notify", Root) /\ y.op = "notify" /\ y.async = Root /\ y.ok
        /\ r = Frame("ssl_receive", Root) /\ r.op = "ssl_receive" /\ r.async = Root
        /\ s = Frame("ssl_send", Root) /\ s.op = "ssl_send" /\ s.async = Root
  <2>1. Root \in Asyncs /\ {"notify", "ssl_receive", "ssl_send"} \subseteq Operations
    BY DEF Asyncs, Operations
  <2>2. Success("notify", Root).ok
    BY DEF Success, Frame
  <2> QED BY <2>1, <2>2, NewFrames
<1>2. Root \in Asyncs /\ Children \subseteq Asyncs
  BY DEF Asyncs
<1>3. PICK o \in {"start", "ssl_receive", "ssl_send", "callback"}, a \in Asyncs,
           x \in {"receive", "send"} :
        /\ At(th, o, a) /\ (IF o = "callback" THEN a \in Children ELSE a = Root)
        /\ \/ o # "start" /\ Call(th, <<n>>)
           \/ o # "start" /\ Call(th, <<y>>)
           \/ o = "callback" /\ Call(th, <<y, y>>)
           \/ o = "start" /\ Call(th, <<r>>)
           \/ o = "start" /\ Call(th, <<s>>)
           \/ o # "start" /\ Unborn # {} /\ Call(th, StartChild(x))
        /\ UNCHANGED <<life, ref, canceled, called, timer>>
  <2>1. ASSUME NEW a \in Asyncs, Start(th, a)
        PROVE  /\ At(th, "start", a) /\ a = Root /\ (Call(th, <<r>>) \/ Call(th, <<s>>))
               /\ UNCHANGED <<life, ref, canceled, called, timer>>
    <3>1. At(th, "start", a)
      BY <2>1 DEF Start
    <3>2. a = Root
      BY <3>1, AtWork DEF StreamFrame
    <3> QED BY <1>1, <2>1, <3>1, <3>2 DEF Start, operation
  <2>2. CASE \E a \in Asyncs : Start(th, a)
    BY <2>1, <2>2
  <2>3. CASE SslReceive(th) \/ SslSend(th)
    BY <1>1, <1>2, <2>3 DEF SslReceive, SslSend, StreamUnchanged, operation
  <2>4. CASE \E c \in Children : ChildCallback(th, c)
    BY <1>1, <1>2, <2>4 DEF ChildCallback, ChildFails, Received, Sent, CallbackThen, operation
  <2> QED BY <2>2, <2>3, <2>4
<1>4. \E f \in FrameType, g \in FrameType : CallsOn(o, f, g, th)
  <2>1. CASE Unborn # {} /\ Call(th, StartChild(x)) /\ o # "start"
    <3>1. PICK d \in Children, f \in FrameType, g \in FrameType :
            /\ StartChild(x) = <<f, g>>
            /\ f.op = "new" /\ f.async = d /\ g.op = x /\ g.async = d
      BY <2>1, ChildToStart DEF Does
    <3>2. CallsOn(o, f, g, th)
      BY <2>1, <3>1 DEF CallsOn
    <3> QED BY <3>2
  <2>2. CASE o # "start" /\ Call(th, <<n>>)
    BY <1>1, <2>2 DEF CallsOn
  <2>3. CASE o # "start" /\ Call(th, <<y>>)
    BY <1>1, <2>3 DEF CallsOn
  <2>4. CASE o = "callback" /\ Call(th, <<y, y>>)
    BY <1>1, <2>4 DEF CallsOn
  <2>5. CASE o = "start" /\ Call(th, <<r>>)
    BY <1>1, <2>5 DEF CallsOn
  <2>6. CASE o = "start" /\ Call(th, <<s>>)
    BY <1>1, <2>6 DEF CallsOn
  <2> QED BY <1>3, <2>1, <2>2, <2>3, <2>4, <2>5, <2>6
<1> QED BY <1>3, <1>4

LEMMA StreamCallsInOrder ==
  ASSUME WorkInv, StacksInOrder, Ops \subseteq {"ssl_receive", "ssl_send"}, NEW th \in Threads,
         \/ \E a \in Asyncs : Start(th, a)
         \/ SslReceive(th) \/ SslSend(th)
         \/ \E c \in Children : ChildCallback(th, c)
  PROVE  StacksInOrder'
<1>1. PICK o \in {"start", "ssl_receive", "ssl_send", "callback"}, a \in Asyncs,
           f \in FrameType, g \in FrameType :
        At(th, o, a) /\ CallsOn(o, f, g, th) /\ UNCHANGED <<life, canceled>>
  BY StreamCallShapes
<1>2. Onward
  BY <1>1, SameOnward
<1>3. ASSUME Call(th, <<f>>), f.op \in {"notify", "ssl_receive", "ssl_send"}
      PROVE  StacksInOrder'
  BY <1>1, <1>2, <1>3, PlainOps, Order1
<1>4. ASSUME Call(th, <<f, g>>), f.op = "notify", g = f
      PROVE  StacksInOrder'
  <2>1. InOrder(<<f, g>>)'
    BY <1>4, PlainOps, InOrderTwo
  <2> QED BY <1>1, <1>2, <1>4, <2>1, Order2
<1>5. ASSUME Call(th, <<f, g>>), f.op = "new", g.op \in {"receive", "send"}, g.async = f.async
      PROVE  StacksInOrder'
  <2>1. InOrder(<<f, g>>)'
    BY <1>5, InOrderNew DEF Waiting
  <2> QED BY <1>1, <1>2, <1>5, <2>1, Order2
<1> QED BY <1>1, <1>3, <1>4, <1>5 DEF CallsOn

\* A thread begins.
LEMMA BeginningsInOrder ==
  ASSUME WorkInv, StacksInOrder, NEW a \in Asyncs,
         TimeoutFires(a) \/ \E th \in Workers : Dequeue(th, a)
  PROVE  StacksInOrder'
<1>1. PICK n \in FrameType, y \in FrameType, f \in FrameType, g \in FrameType :
        /\ n = Frame("notify", a) /\ n.op = "notify"
        /\ y = Success("notify", a) /\ y.op = "notify"
        /\ f = Frame("_cancel", a) /\ f.op = "_cancel" /\ f.async = a
        /\ g = Frame("release", a) /\ g.op = "release" /\ g.async = a
  <2>1. {"notify", "_cancel", "release"} \subseteq Operations
    BY DEF Operations
  <2> QED BY <2>1, NewFrames
<1>2. PICK th \in Threads :
        /\ \/ stack' = [stack EXCEPT ![th] = <<f, g>>]
           \/ stack' = [stack EXCEPT ![th] = <<n>>]
           \/ stack' = [stack EXCEPT ![th] = <<y>>]
        /\ UNCHANGED <<life, canceled>>
  <2>1. Poller \in Threads /\ Workers \subseteq Threads
    BY DEF Threads
  <2> QED BY <1>1, <2>1 DEF TimeoutFires, Dequeue, operation
<1>3. InOrder(<<f, g>>)' /\ InOrder(<<n>>)' /\ InOrder(<<y>>)'
  BY <1>1, PlainOps, InOrderOne, InOrderTwo
<1>4. stack \in Stacks
  BY DEF WorkInv, StreamInv, StreamTypes
<1>5. ASSUME NEW q, InOrder(q)', stack' = [stack EXCEPT ![th] = q]
      PROVE  StacksInOrder'
  <2>1. stack'[th] = q /\ \A t \in Threads \ {th} : stack'[t] = stack[t] /\ stack[t] \in Seq(FrameType)
    BY <1>4, <1>5 DEF Stacks
  <2>2. Onward
    BY <1>2, SameOnward
  <2>3. InOrder(stack[th])'
    BY <1>5, <2>1 DEF InOrder, Rule, Same
  <2>4. \A t \in Threads \ {th} : InOrder(stack[t])'
    BY <2>1, <2>2, RestInOrder DEF StacksInOrder
  <2> QED BY <2>3, <2>4 DEF StacksInOrder
<1> QED BY <1>2, <1>3, <1>5

\* Nothing is called.
LEMMA SameStacksInOrder ==
  ASSUME WorkInv, StacksInOrder, UNCHANGED <<stack, life, canceled>>
  PROVE  StacksInOrder'
<1>1. \A t \in Threads : stack[t] \in Seq(FrameType) /\ stack'[t] = stack[t]
  BY DEF WorkInv, StreamInv, StreamTypes, Stacks
<1>2. Onward
  BY SameOnward
<1> QED BY <1>1, <1>2, RestInOrder DEF StacksInOrder

-----------------------------------------------------------------------------
(* Who destroys an operation *)

Gone == \A a \in Asyncs : GoneAtLast(a)

LEMMA GoneElsewhere ==
  ASSUME NEW b, GoneAtLast(b), canceled[b] => canceled'[b], life'[b] = life[b],
         timer'[b] = timer[b], \A ops : Frames(ops, b)' = Frames(ops, b)
  PROVE  GoneAtLast(b)'
BY DEF GoneAtLast

\* What is not cancelled and has not called back, or has a timer, is not gone, and is
\* destroyed by nobody.
LEMMA NotGone ==
  ASSUME NEW a, LifeInv(a), GoneAtLast(a), ~canceled[a], ~called[a] \/ timer[a] = "armed",
         Frames({"destroy"}, a) \in Nat
  PROVE  Frames({"destroy"}, a) = 0 /\ life[a] # "freed"
BY DEF LifeInv, FreedLast, GoneAtLast

\* A step about a that neither frees it nor takes its last reference.
LEMMA GoneByStep ==
  ASSUME WorkInv, Gone, NEW a \in Asyncs, Onward,
         \A b \in Asyncs \ {a} : /\ life'[b] = life[b] /\ timer'[b] = timer[b]
                                 /\ \A ops : Frames(ops, b)' = Frames(ops, b),
         life'[a] = life[a], Frames({"destroy"}, a)' = Frames({"destroy"}, a),
         \/ canceled'[a]
         \/ ~called[a] \/ timer[a] = "armed"
         \/ /\ timer'[a] = timer[a] \/ timer'[a] # "armed"
            /\ Frames(Holding, a)' = Frames(Holding, a)
  PROVE  Gone'
<1>1. \A b \in Asyncs \ {a} : GoneAtLast(b)'
  BY GoneElsewhere DEF Gone, Onward
<1>2. LifeInv(a) /\ GoneAtLast(a) /\ \A ops, b : Frames(ops, b) \in Nat
  BY Works DEF Gone, Working
<1>3. canceled[a] => canceled'[a]
  BY DEF Onward
<1>4. ASSUME canceled'[a]
      PROVE  GoneAtLast(a)'
  BY <1>4 DEF GoneAtLast
<1>5. ASSUME ~canceled'[a], ~called[a] \/ timer[a] = "armed"
      PROVE  GoneAtLast(a)'
  <2>1. Frames({"destroy"}, a) = 0 /\ life[a] # "freed"
    BY <1>2, <1>3, <1>5, NotGone
  <2>2. Frames({"destroy"}, a)' = 0 /\ life'[a] # "freed"
    BY <2>1
  <2> QED BY <2>2 DEF GoneAtLast, One
<1>6. ASSUME timer'[a] = timer[a] \/ timer'[a] # "armed",
             Frames(Holding, a)' = Frames(Holding, a)
      PROVE  GoneAtLast(a)'
  BY <1>2, <1>3, <1>6 DEF GoneAtLast
<1>7. GoneAtLast(a)'
  BY <1>4, <1>5, <1>6
<1> QED BY <1>1, <1>7 DEF Gone

\* The next frame on a stack.
LEMMA NextFrame ==
  ASSUME WorkInv, NEW th \in Threads, stack[th] # << >>, NEW a, NEW ops,
         2 \in DOMAIN stack[th], stack[th][2].op \in ops, stack[th][2].async = a
  PROVE  Frames(ops, a) >= 1
<1>1. stack \in Stacks /\ Finite(stack) /\ Frames(ops, a) \in Nat
  BY FramesType DEF WorkInv, StreamInv, StreamTypes, LifeTypes
<1>2. Frames(ops, a) # 0
  BY <1>1, NoFrames DEF IsOf
<1> QED BY <1>1, <1>2

LEMMA NotYetCalled ==
  ASSUME WorkInv, StacksInOrder, NEW th \in Threads,
         NEW o \in Timing \union {"receive", "send_enter"}, NEW a, At(th, o, a),
         ~canceled[a], Calm
  PROVE  ~called[a]
<1>1. /\ a \in {Root} \union Children /\ a \in Asyncs /\ stack \in Stacks /\ stack[th] # << >>
      /\ Head(stack[th]).op = o /\ Head(stack[th]).async = a /\ StreamFrame(Head(stack[th]))
      /\ \A ops, b : Frames(ops, b) \in Nat
      /\ \A ops : o \in ops => Frames(ops, a) >= 1
  BY AtWork
<1>2. CASE o \in {"receive", "send_enter"}
  <2>1. a \in Children /\ Frames(Carrying, a) >= 1
    BY <1>1, <1>2 DEF StreamFrame, Carrying
  <2> QED BY <1>1, <2>1 DEF WorkInv, ChildInv, EndsByItself, One
<1>3. CASE o \in Timing
  <2>1. /\ 2 \in DOMAIN stack[th] /\ stack[th][2].async = a /\ stack[th][2].op \in Waiting
        /\ StreamFrame(stack[th][2])
    <3>1. 1 \in DOMAIN stack[th] /\ stack[th][1] = Head(stack[th])
      BY <1>1 DEF Stacks
    <3>2. Rule(stack[th], 1) /\ WellFormed(stack[th])
      BY <3>1 DEF StacksInOrder, InOrder, WorkInv
    <3> QED BY <1>1, <1>3, <3>1, <3>2 DEF Rule, Same, WellFormed
  <2>2. CASE a \in Children
    <3>1. Frames(Carrying, a) >= 1
      BY <1>1, <2>1, <2>2, NextFrame, AsyncAssumption DEF StreamFrame, Waiting, Carrying
    <3> QED BY <1>1, <2>2, <3>1 DEF WorkInv, ChildInv, EndsByItself, One
  <2>3. CASE a = Root
    <3>1. Frames(Opens, Root) >= 1
      <4>1. stack[th][2].op = "start"
        BY <2>1, <2>3, AsyncAssumption DEF StreamFrame, Waiting
      <4> QED BY <1>1, <2>1, <2>3, <4>1, NextFrame DEF Opens
    <3>2. ~(Frames(Reports, Root) > 0 \/ completed[Root] > 0)
      BY <1>1, <2>3, <3>1 DEF WorkInv, OneAfterAnother
    <3>3. Frames({"callback"}, Root) <= Frames(Reports, Root)
      BY FewerFrames DEF Reports
    <3>4. Frames({"callback"}, Root) + completed[Root] = One(called[Root])
      BY <1>1, <2>3 DEF WorkInv, LifeInv, CallsBack
    <3> QED BY <1>1, <2>3, <3>2, <3>3, <3>4, Works DEF Working, LifeTypes, One
  <2> QED BY <1>1, <2>2, <2>3
<1> QED BY <1>2, <1>3

\* What a step does that destroys nothing.
LEMMA NoDestroyer ==
  ASSUME NEW a, NEW o, NEW x, NEW y, NEW z, Worked(a, o, x, y, z),
         o # "destroy", x # "destroy", y # "destroy", z # "destroy"
  PROVE  /\ Frames({"destroy"}, a)' = Frames({"destroy"}, a)
         /\ \A b \in Asyncs \ {a} : \A ops : Frames(ops, b)' = Frames(ops, b)
BY DEF Worked, Working, Moves, One

LEMMA NewKeepsGone ==
  ASSUME WorkInv, Gone, NEW th \in Threads, NEW a \in Asyncs, New(th, a)
  PROVE  Gone'
<1>1. /\ At(th, "new", a) /\ life' = [life EXCEPT ![a] = "live"] /\ UNCHANGED <<canceled, timer>>
      /\ Call(th, <<Frame("add_timer_ref", a)>>) \/ Call(th, << >>)
  BY DEF New
<1>2. /\ LifeInv(a) /\ a \in {Root} \union Children /\ \A ops, b : Frames(ops, b) \in Nat
      /\ Frames({"new"}, a) >= 1
  BY <1>1, AtWork, Works DEF Working
<1>3. Worked(a, "new", "add_timer_ref", "-", "-") \/ Worked(a, "new", "-", "-", "-")
  <2>1. Does(Frame("add_timer_ref", a), "add_timer_ref", a)
    BY <1>2, DoesOp
  <2> QED BY <1>1, <2>1, Work0, Work1
<1>4. /\ Frames({"destroy"}, a)' = Frames({"destroy"}, a)
      /\ \A b \in Asyncs \ {a} : \A ops : Frames(ops, b)' = Frames(ops, b)
  BY <1>3, NoDestroyer
<1>5. life[a] = "none" /\ life \in [Asyncs -> {"none", "live", "freed"}]
  BY <1>2 DEF LifeInv, BornOnce, One, WorkInv, LifeTypes
<1>6. Frames({"destroy"}, a) = 0
  <2>1. Frames({"destroy"}, a) <= Frames(Later, a)
    BY FewerFrames DEF Later, Operations, Waiting
  <2> QED BY <1>2, <1>5, <2>1 DEF LifeInv, NothingBefore
<1>7. GoneAtLast(a)'
  BY <1>1, <1>4, <1>5, <1>6 DEF GoneAtLast, One
<1>8. \A b \in Asyncs \ {a} : GoneAtLast(b)'
  BY <1>1, <1>4, <1>5, GoneElsewhere DEF Gone
<1> QED BY <1>7, <1>8 DEF Gone

LEMMA TimerKeepsGone ==
  ASSUME WorkInv, StacksInOrder, Gone, Calm, NEW th \in Threads, NEW a \in Asyncs,
         AddTimerRef(th, a) \/ Schedule(th, a)
  PROVE  Gone'
<1>1. PICK o \in Timing, x \in {"schedule", "-"} :
        /\ At(th, o, a) /\ UNCHANGED <<life, canceled>>
        /\ IF x = "-" THEN Call(th, << >>) ELSE Call(th, <<Frame("schedule", a)>>)
        /\ \A b \in Asyncs \ {a} : timer'[b] = timer[b]
  BY DEF AddTimerRef, Schedule, Return, Timing, WorkInv, LifeTypes
<1>2. Worked(a, o, x, "-", "-")
  <2>1. Does(Frame("schedule", a), "schedule", a)
    BY <1>1, AtWork, DoesOp
  <2> QED BY <1>1, <2>1, Work0, Work1
<1>3. /\ Frames({"destroy"}, a)' = Frames({"destroy"}, a)
      /\ \A b \in Asyncs \ {a} : \A ops : Frames(ops, b)' = Frames(ops, b)
  BY <1>2, NoDestroyer DEF Timing
<1>4. canceled'[a] \/ ~called[a]
  BY <1>1, NotYetCalled
<1> QED BY <1>1, <1>3, <1>4, SameOnward, GoneByStep

LEMMA EnterKeepsGone ==
  ASSUME WorkInv, StacksInOrder, Gone, Calm, NEW th \in Threads, NEW a \in Asyncs,
         NEW o \in {"receive", "send_enter"}, At(th, o, a), NEW next \in {"recv", "submit"},
         AsyncEnter(th, a, next), UNCHANGED <<life, canceled, timer>>
  PROVE  Gone'
<1>1. Worked(a, o, "notify", "unlock", "-") \/ Worked(a, o, next, "-", "-")
  <2>1. a \in {Root} \union Children /\ StreamFrame(Head(stack[th])) /\ Head(stack[th]).op = o
        /\ Head(stack[th]).async = a
    BY AtWork
  <2>2. /\ Does(Frame("notify", a), "notify", a) /\ Does(Frame("unlock", a), "unlock", a)
        /\ Does(Frame(next, a), next, a)
    BY <2>1, DoesOp, DoesCall DEF StreamFrame
  <2>3. Call(th, <<Frame("notify", a), Frame("unlock", a)>>) \/ Call(th, <<Frame(next, a)>>)
    BY DEF AsyncEnter
  <2> QED BY <2>2, <2>3, Work1, Work2
<1>2. /\ Frames({"destroy"}, a)' = Frames({"destroy"}, a)
      /\ \A b \in Asyncs \ {a} : \A ops : Frames(ops, b)' = Frames(ops, b)
  BY <1>1, NoDestroyer
<1>3. canceled'[a] \/ ~called[a]
  BY NotYetCalled
<1> QED BY <1>2, <1>3, SameOnward, GoneByStep

LEMMA SubmitKeepsGone ==
  ASSUME WorkInv, Gone, NEW th \in Threads, NEW a \in Asyncs,
         NEW o \in {"recv", "submit"}, At(th, o, a), Submit(th, a, AsyncLeave(a)),
         UNCHANGED <<life, canceled, timer>>
  PROVE  Gone'
<1>1. Worked(a, o, "unlock", "release", "-") \/ Worked(a, o, "unlock", "release", "notify")
  <2> DEFINE f == Frame("unlock", a)
             g == Frame("release", a)
             h == Frame("notify", a)
  <2>1. Does(f, "unlock", a) /\ Does(g, "release", a) /\ Does(h, "notify", a)
    BY AtWork, DoesOp
  <2>2. Call(th, <<f, g>>) \/ Call(th, <<f, g, h>>)
    <3>1. <<f, g>> \o <<h>> = <<f, g, h>>
      BY Triples
    <3> QED BY <3>1 DEF Submit, AsyncLeave
  <2> HIDE DEF f, g, h
  <2> QED BY <2>1, <2>2, Work2, Work3
<1>2. /\ Frames({"destroy"}, a)' = Frames({"destroy"}, a)
      /\ \A b \in Asyncs \ {a} : \A ops : Frames(ops, b)' = Frames(ops, b)
  BY <1>1, NoDestroyer
<1>3. Frames(Holding, a)' = Frames(Holding, a)
  BY <1>1 DEF Worked, Working, Moves, Holding, One
<1> QED BY <1>2, <1>3, SameOnward, GoneByStep

LEMMA SocketCallsKeepGone ==
  ASSUME WorkInv, StacksInOrder, Gone, Calm, NEW th \in Threads, NEW a \in Asyncs,
         \/ Receive(th, a) \/ Send(th, a) \/ SendEnter(th, a) \/ Recv(th, a) \/ SubmitSend(th, a)
  PROVE  Gone'
<1>1. CASE Receive(th, a) \/ SendEnter(th, a)
  BY <1>1, EnterKeepsGone DEF Receive, SendEnter
<1>2. CASE Recv(th, a) \/ SubmitSend(th, a)
  BY <1>2, SubmitKeepsGone DEF Recv, SubmitSend, operation
<1>3. CASE Send(th, a)
  <2>1. /\ At(th, "send", a) /\ Call(th, <<Frame("send_enter", a)>>)
        /\ UNCHANGED <<life, canceled, timer>>
    BY <1>3 DEF Send
  <2>2. Worked(a, "send", "send_enter", "-", "-")
    <3>1. Does(Frame("send_enter", a), "send_enter", a)
      BY <2>1, AtWork, DoesCall DEF StreamFrame
    <3> QED BY <2>1, <3>1, Work1
  <2>3. Frames(Holding, a)' = Frames(Holding, a)
    BY <2>2 DEF Worked, Working, Moves, Holding, One
  <2> QED BY <2>1, <2>2, <2>3, NoDestroyer, SameOnward, GoneByStep
<1> QED BY <1>1, <1>2, <1>3

LEMMA NotificationsKeepGone ==
  ASSUME WorkInv, Gone, NEW th \in Threads, NEW a \in Asyncs,
         Notify(th, a) \/ AsyncNotify(th, a) \/ Unlock(th, a) \/ Callback(th, a)
  PROVE  Gone'
<1>1. PICK o \in {"notify", "async_notify", "unlock", "callback"} : At(th, o, a)
  BY DEF Notify, AsyncNotify, Unlock, Callback, CallbackThen
<1>2. Onward /\ life'[a] = life[a]
  <2>1. UNCHANGED <<life, canceled>>
    BY DEF Notify, AsyncNotify, Unlock, Callback, CallbackThen, operation
  <2> QED BY <2>1, SameOnward
<1>3. PICK f \in FrameType, g \in FrameType, h \in FrameType :
        /\ f = Frame("release", a) /\ Does(f, "release", a)
        /\ g = Carry(th, "async_notify", a) /\ Does(g, "async_notify", a)
        /\ h = Carry(th, "callback", a) /\ Does(h, "callback", a)
  BY <1>1, AtWork, DoesOp DEF Does
<1>4. \/ /\ Call(th, <<f, g>>) /\ timer[a] = "armed" /\ o = "notify"
      \/ /\ Call(th, <<g>>) /\ o = "notify"
      \/ /\ Call(th, << >>) /\ o # "notify"
      \/ /\ Call(th, <<h, f>>) /\ ~called[a] /\ o = "async_notify"
  <2>1. <<f>> \o <<g>> = <<f, g>>
    BY Tuples
  <2>2. CASE Notify(th, a)
    BY <1>1, <1>3, <2>1, <2>2 DEF Notify, CancelTimerThen, At
  <2>3. CASE AsyncNotify(th, a)
    BY <1>1, <1>3, <2>3 DEF AsyncNotify, At
  <2>4. CASE Unlock(th, a) \/ Callback(th, a)
    BY <1>1, <2>4 DEF Unlock, Callback, CallbackThen, Return, At
  <2> QED BY <2>2, <2>3, <2>4
<1>5. \/ Worked(a, o, "release", "async_notify", "-") /\ timer[a] = "armed"
      \/ Worked(a, o, "async_notify", "-", "-") /\ o = "notify"
      \/ Worked(a, o, "-", "-", "-") /\ o # "notify"
      \/ Worked(a, o, "callback", "release", "-") /\ ~called[a]
  BY <1>1, <1>3, <1>4, Work0, Work1, Work2
<1>6. /\ Frames({"destroy"}, a)' = Frames({"destroy"}, a)
      /\ \A b \in Asyncs \ {a} : \A ops : Frames(ops, b)' = Frames(ops, b)
  BY <1>5, NoDestroyer
<1>7. \/ ~called[a] \/ timer[a] = "armed"
      \/ Frames(Holding, a)' = Frames(Holding, a)
  BY <1>5 DEF Worked, Working, Moves, Holding, One
<1>8. /\ timer'[a] = timer[a] \/ timer'[a] # "armed"
      /\ \A b \in Asyncs \ {a} : timer'[b] = timer[b]
      /\ \A b \in Asyncs \ {a} : life'[b] = life[b]
  BY DEF Notify, CancelTimerThen, AsyncNotify, Unlock, Callback, CallbackThen, operation,
         WorkInv, LifeTypes
<1> QED BY <1>2, <1>6, <1>7, <1>8, GoneByStep

LEMMA ReleaseKeepsGone ==
  ASSUME WorkInv, Gone, NEW th \in Threads, NEW a \in Asyncs, Release(th, a)
  PROVE  Gone'
<1>1. /\ At(th, "release", a) /\ UNCHANGED <<life, canceled, timer>>
      /\ IF ref[a] > 1 THEN Call(th, << >>) ELSE Call(th, <<Frame("destroy", a)>>)
  BY DEF Release
<1>2. life[a] = "live" /\ a \in {Root} \union Children /\ Frames(Holding, a) >= 1
  BY <1>1, AtWork, Lives DEF Outside, Holding
<1>3. IF ref[a] > 1 THEN Worked(a, "release", "-", "-", "-")
                    ELSE Worked(a, "release", "destroy", "-", "-")
  <2>1. Does(Frame("destroy", a), "destroy", a)
    BY <1>2, DoesOp
  <2> QED BY <1>1, <2>1, Work0, Work1
<1>4. /\ LifeInv(a) /\ GoneAtLast(a) /\ \A ops, b : Frames(ops, b) \in Nat
      /\ ref[a] \in Int
  BY Works DEF Gone, Working, LifeTypes
<1>5. \A b \in Asyncs \ {a} : GoneAtLast(b)'
  <2>1. \A b \in Asyncs \ {a} : \A ops : Frames(ops, b)' = Frames(ops, b)
    BY <1>3 DEF Worked, Moves
  <2> QED BY <1>1, <2>1, GoneElsewhere DEF Gone
<1>6. GoneAtLast(a)'
  <2> SUFFICES ASSUME ~canceled[a]
               PROVE  GoneAtLast(a)'
    BY <1>1 DEF GoneAtLast
  <2>1. Frames({"destroy"}, a) = 0
    BY <1>2, <1>4 DEF GoneAtLast
  <2>2. CASE ref[a] > 1
    <3>1. Frames({"destroy"}, a)' = 0
      BY <1>3, <1>4, <2>1, <2>2 DEF Worked, Moves, One
    <3> QED BY <1>1, <1>2, <3>1 DEF GoneAtLast, One
  <2>3. CASE ~(ref[a] > 1)
    <3>1. Frames({"destroy"}, a)' = 1 /\ Frames(Holding, a)' = Frames(Holding, a) - 1
      BY <1>3, <1>4, <2>1, <2>3 DEF Worked, Moves, Holding, One
    <3>2. ref[a] = One(~called[a]) + One(timer[a] = "armed") + Frames(Holding, a)
      BY <1>2, <1>4 DEF LifeInv, RefExact
    <3>3. Frames(Holding, a) = 1 /\ timer[a] # "armed"
      BY <1>2, <1>4, <2>3, <3>2 DEF One
    <3> QED BY <1>1, <1>2, <3>1, <3>3 DEF GoneAtLast, One
  <2> QED BY <2>2, <2>3
<1> QED BY <1>5, <1>6 DEF Gone

LEMMA DestroyKeepsGone ==
  ASSUME WorkInv, Gone, NEW th \in Threads, NEW a \in Asyncs, Destroy(th, a)
  PROVE  Gone'
<1>1. /\ At(th, "destroy", a) /\ Call(th, << >>) /\ UNCHANGED canceled
      /\ timer' = [timer EXCEPT ![a] = IF @ = "armed" THEN "gone" ELSE @]
      /\ life' = [life EXCEPT ![a] = "freed"]
  BY DEF Destroy, Return
<1>2. life[a] = "live" /\ Frames({"destroy"}, a) >= 1
  BY <1>1, AtWork, Lives DEF Outside
<1>3. Worked(a, "destroy", "-", "-", "-")
  BY <1>1, Work0
<1>4. /\ GoneAtLast(a) /\ \A ops, b : Frames(ops, b) \in Nat
      /\ life \in [Asyncs -> {"none", "live", "freed"}]
      /\ timer \in [Asyncs -> {"idle", "armed", "gone"}]
  BY Works DEF Gone, Working, LifeTypes
<1>5. \A b \in Asyncs \ {a} : GoneAtLast(b)'
  <2>1. \A b \in Asyncs \ {a} : \A ops : Frames(ops, b)' = Frames(ops, b)
    BY <1>3 DEF Worked, Moves
  <2> QED BY <1>1, <1>4, <2>1, GoneElsewhere DEF Gone
<1>6. GoneAtLast(a)'
  <2> SUFFICES ASSUME ~canceled[a]
               PROVE  GoneAtLast(a)'
    BY <1>1 DEF GoneAtLast
  <2>1. Frames({"destroy"}, a) = 1 /\ Frames(Holding, a) = 0
    BY <1>2, <1>4 DEF GoneAtLast, One
  <2>2. Frames({"destroy"}, a)' = 0 /\ Frames(Holding, a)' = 0
    BY <1>3, <2>1 DEF Worked, Moves, Holding, One
  <2>3. timer'[a] # "armed"
    BY <1>1, <1>4
  <2> QED BY <2>2, <2>3 DEF GoneAtLast, One
<1> QED BY <1>5, <1>6 DEF Gone

\* Until somebody cancels the user's operation only a timeout cancels, and a child.
LEMMA CancelKeepsGone ==
  ASSUME WorkInv, Gone, NEW th \in Threads, NEW a \in Asyncs, Cancel(th, a),
         CancelCall(th, a) \/ CancelDirectly(th, a)
  PROVE  Gone'
<1>1. /\ At(th, "_cancel", a) /\ canceled' = [canceled EXCEPT ![a] = TRUE]
      /\ UNCHANGED <<life, timer>>
      /\ Call(th, << >>) \/ Call(th, <<Frame("notify", a)>>)
  BY DEF Cancel, CancelCall, CancelDirectly, Return
<1>2. Worked(a, "_cancel", "-", "-", "-") \/ Worked(a, "_cancel", "notify", "-", "-")
  <2>1. Does(Frame("notify", a), "notify", a)
    BY <1>1, AtWork, DoesOp
  <2> QED BY <1>1, <2>1, Work0, Work1
<1>3. canceled'[a] /\ Onward
  BY <1>1, Works DEF Working, Onward
<1>4. /\ Frames({"destroy"}, a)' = Frames({"destroy"}, a)
      /\ \A b \in Asyncs \ {a} : \A ops : Frames(ops, b)' = Frames(ops, b)
  BY <1>2, NoDestroyer
<1> QED BY <1>1, <1>3, <1>4, GoneByStep

\* Nothing is held, given up or destroyed.
LEMMA SameGone ==
  ASSUME Gone, UNCHANGED <<life, canceled, timer>>,
         \A a \in Asyncs : /\ Frames({"destroy"}, a)' = Frames({"destroy"}, a)
                           /\ Frames(Holding, a)' = Frames(Holding, a)
  PROVE  Gone'
BY DEF Gone, GoneAtLast

LEMMA StreamCallsKeepGone ==
  ASSUME WorkInv, Gone, Ops \subseteq {"ssl_receive", "ssl_send"}, NEW th \in Threads,
         \/ \E a \in Asyncs : Start(th, a)
         \/ SslReceive(th) \/ SslSend(th)
         \/ \E c \in Children : ChildCallback(th, c)
  PROVE  Gone'
<1>1. PICK o \in {"start", "ssl_receive", "ssl_send", "callback"}, a \in Asyncs,
           f \in FrameType, g \in FrameType :
        At(th, o, a) /\ CallsOn(o, f, g, th) /\ UNCHANGED <<life, canceled, timer>>
  BY StreamCallShapes
<1>2. /\ f.op \in {"notify", "ssl_receive", "ssl_send", "new"}
      /\ Call(th, <<f>>) \/ (g.op \in {"notify", "receive", "send"} /\ Call(th, <<f, g>>))
  BY <1>1 DEF CallsOn
<1>3. /\ stack \in Stacks /\ Finite(stack) /\ stack[th] # << >> /\ Head(stack[th]).op = o
      /\ \A ops, b : Frames(ops, b) \in Nat
  BY <1>1, AtWork
<1>4. ASSUME NEW ops \in {{"destroy"}, Holding}, NEW b \in Asyncs
      PROVE  Frames(ops, b)' = Frames(ops, b)
  <2>1. ~IsOf(Head(stack[th]), ops, b) /\ ~IsOf(f, ops, b)
    BY <1>1, <1>2, <1>3 DEF IsOf, Holding
  <2>2. CASE Call(th, <<f>>)
    BY <1>3, <2>1, <2>2, Calls1 DEF One
  <2>3. CASE g.op \in {"notify", "receive", "send"} /\ Call(th, <<f, g>>)
    <3>1. ~IsOf(g, ops, b)
      BY <2>3 DEF IsOf, Holding
    <3> QED BY <1>3, <2>1, <2>3, <3>1, Calls2 DEF One
  <2> QED BY <1>2, <2>2, <2>3
<1> QED BY <1>1, <1>4, SameGone

LEMMA TimeoutKeepsGone ==
  ASSUME WorkInv, Gone, NEW a \in Asyncs, TimeoutFires(a)
  PROVE  Gone'
<1>1. /\ Poller \in Threads /\ stack[Poller] = << >> /\ timer[a] = "armed"
      /\ stack' = [stack EXCEPT ![Poller] = <<Frame("_cancel", a), Frame("release", a)>>]
      /\ UNCHANGED <<life, canceled>> /\ \A b \in Asyncs \ {a} : timer'[b] = timer[b]
  BY DEF TimeoutFires, Threads, WorkInv, LifeTypes
<1>2. a \in {Root} \union Children
  BY <1>1 DEF Asyncs, WorkInv, CallsAreNested, LifeInv, NothingBefore
<1>3. Worked(a, "-", "_cancel", "release", "-")
  <2>1. Does(Frame("_cancel", a), "_cancel", a) /\ Does(Frame("release", a), "release", a)
    BY <1>2, DoesOp
  <2> QED BY <1>1, <2>1, Work2Begins
<1>4. /\ Frames({"destroy"}, a)' = Frames({"destroy"}, a)
      /\ \A b \in Asyncs \ {a} : \A ops : Frames(ops, b)' = Frames(ops, b)
  BY <1>3, NoDestroyer
<1> QED BY <1>1, <1>4, SameOnward, GoneByStep

LEMMA DequeueKeepsGone ==
  ASSUME WorkInv, Gone, NEW a \in Asyncs, NEW th \in Workers, Dequeue(th, a)
  PROVE  Gone'
<1>1. /\ th \in Threads /\ stack[th] = << >> /\ io[a] = "queued"
      /\ \/ stack' = [stack EXCEPT ![th] = <<Frame("notify", a)>>]
         \/ stack' = [stack EXCEPT ![th] = <<Success("notify", a)>>]
      /\ UNCHANGED <<life, canceled, timer>>
  BY DEF Dequeue, Threads, operation
<1>2. a \in Children
  BY <1>1 DEF WorkInv, CallsAreNested
<1>3. Worked(a, "-", "notify", "-", "-")
  <2>1. Does(Frame("notify", a), "notify", a) /\ Does(Success("notify", a), "notify", a)
    BY <1>2, DoesOp
  <2> QED BY <1>1, <2>1, Work1Begins
<1>4. Frames(Holding, a)' = Frames(Holding, a)
  BY <1>3 DEF Worked, Working, Moves, Holding, One
<1> QED BY <1>1, <1>3, <1>4, NoDestroyer, SameOnward, GoneByStep

-----------------------------------------------------------------------------
(* Who reports Root *)

\* The first n frames of a stack are those of Root.
Firsts(s, n) ==
  n \in 0..3 /\ n <= Len(s) /\ \A k \in DOMAIN s : s[k].async = Root <=> k <= n

LEMMA RootPartIs ==
  ASSUME NEW s
  PROVE  RootPart(s) <=> \E n : Firsts(s, n) /\ Shape(s, n)
BY DEF RootPart, Firsts

\* A thread that is about to do something for Root.
LEMMA RootOnTop ==
  ASSUME WorkInv, RootReported, NEW th \in Threads, NEW o, At(th, o, Root)
  PROVE  \E n \in 1..3 : /\ Firsts(stack[th], n) /\ Shape(stack[th], n) /\ stack[th][1].op = o
                         /\ stack[th] \in Seq(FrameType) /\ Len(stack[th]) >= 1
<1>1. /\ stack[th] \in Seq(FrameType) /\ stack[th] # << >>
      /\ Head(stack[th]).op = o /\ Head(stack[th]).async = Root
  BY AtWork DEF Stacks
<1>2. /\ 1 \in DOMAIN stack[th] /\ stack[th][1] = Head(stack[th]) /\ Len(stack[th]) >= 1
      /\ Len(stack[th]) \in Nat
  BY <1>1
<1>3. PICK n : Firsts(stack[th], n) /\ Shape(stack[th], n)
  BY RootPartIs DEF RootReported
<1>4. n \in 0..3 /\ n >= 1
  BY <1>1, <1>2, <1>3 DEF Firsts
<1>5. n \in 1..3
  BY <1>4
<1> QED BY <1>1, <1>2, <1>3, <1>5

\* A thread that is about to do something else has nothing to do for Root.
LEMMA NoneOfRoot ==
  ASSUME WorkInv, RootReported, NEW th \in Threads, NEW o, NEW a, a # Root, At(th, o, a)
  PROVE  Firsts(stack[th], 0) /\ stack[th] \in Seq(FrameType) /\ Len(stack[th]) >= 1
<1>1. stack[th] \in Seq(FrameType) /\ stack[th] # << >> /\ Head(stack[th]).async = a
  BY AtWork DEF Stacks
<1>2. /\ 1 \in DOMAIN stack[th] /\ stack[th][1] = Head(stack[th]) /\ Len(stack[th]) >= 1
      /\ Len(stack[th]) \in Nat
  BY <1>1
<1>3. PICK n : Firsts(stack[th], n) /\ Shape(stack[th], n)
  BY RootPartIs DEF RootReported
<1>4. n \in 0..3 /\ ~(1 <= n)
  BY <1>1, <1>2, <1>3 DEF Firsts
<1>5. n = 0
  BY <1>4
<1> QED BY <1>1, <1>2, <1>3, <1>5

\* Of the frames of s, whose length is l, the first n are those of Root.
Begins(s, l, n) == n \in 0..3 /\ l \in Nat /\ n <= l /\ \A k \in 1..l : s[k].async = Root <=> k <= n

\* v is s with q instead of its first frame.
Replaces(v, lv, q, lq, s, ls) ==
  /\ ls >= 1 /\ lv = lq + ls - 1
  /\ \A k \in 1..lq : v[k] = q[k]
  /\ \A k \in lq + 1..lv : v[k] = s[k - lq + 1]

\* Where there were n frames of Root there are m when j have come.
Totals(j, lq, n, m) ==
  /\ n > 1 => j = lq
  /\ m \in 0..3
  /\ (n = 0 /\ m = j) \/ (n # 0 /\ m = j + n - 1)

\* The frames of Root after a call: those that are called, if they are Root's, and
\* those that were below the one on top.
LEMMA FirstsJoin ==
  ASSUME NEW s, NEW q, NEW v, NEW ls, NEW lq, NEW lv, NEW n, NEW j, NEW m,
         Begins(s, ls, n), Begins(q, lq, j), Replaces(v, lv, q, lq, s, ls), Totals(j, lq, n, m)
  PROVE  Begins(v, lv, m) /\ \A k \in 2..ls : v[k + lq - 1] = s[k]
<1>1. /\ n \in 0..3 /\ ls \in Nat /\ n <= ls /\ \A k \in 1..ls : s[k].async = Root <=> k <= n
      /\ j \in 0..3 /\ lq \in Nat /\ j <= lq /\ \A k \in 1..lq : q[k].async = Root <=> k <= j
      /\ ls >= 1 /\ lv = lq + ls - 1 /\ lv \in Nat /\ m \in 0..3
      /\ \A k \in 1..lq : v[k] = q[k]
      /\ \A k \in lq + 1..lv : v[k] = s[k - lq + 1]
  BY DEF Begins, Replaces, Totals
<1>2. (n = 0 /\ m = j) \/ (n = 1 /\ m = j) \/ (n > 1 /\ j = lq /\ m = j + n - 1)
  BY <1>1 DEF Totals
<1>3. ASSUME NEW k \in 1..lv
      PROVE  v[k].async = Root <=> k <= m
  <2>1. CASE k <= lq
    <3>1. k \in 1..lq
      BY <1>1, <2>1
    <3>2. v[k] = q[k] /\ (q[k].async = Root <=> k <= j)
      BY <1>1, <3>1
    <3>3. k <= j <=> k <= m
      BY <1>1, <1>2, <3>1
    <3> QED BY <3>2, <3>3
  <2>2. CASE ~(k <= lq)
    <3> DEFINE i == k - lq + 1
    <3>1. k \in lq + 1..lv /\ i \in 1..ls /\ i >= 2
      BY <1>1, <2>2
    <3>2. v[k] = s[i]
      BY <1>1, <3>1
    <3>3. i <= n <=> k <= m
      BY <1>1, <1>2, <2>2, <3>1
    <3> HIDE DEF i
    <3>4. s[i].async = Root <=> i <= n
      BY <1>1, <3>1
    <3> QED BY <3>2, <3>3, <3>4
  <2> QED BY <2>1, <2>2
<1>4. m <= lv
  BY <1>1, <1>2
<1>5. ASSUME NEW k \in 2..ls
      PROVE  v[k + lq - 1] = s[k]
  <2> DEFINE i == k + lq - 1
  <2>1. i \in lq + 1..lv /\ i - lq + 1 = k
    BY <1>1
  <2> HIDE DEF i
  <2>2. v[i] = s[i - lq + 1]
    BY <1>1, <2>1
  <2> QED BY <2>1, <2>2 DEF i
<1> QED BY <1>1, <1>3, <1>4, <1>5 DEF Begins

LEMMA FirstsAre ==
  ASSUME NEW s, NEW n, n \in 0..3, n <= Len(s), \A k \in DOMAIN s : s[k].async = Root <=> k <= n
  PROVE  Firsts(s, n)
BY Zenon DEF Firsts

LEMMA FirstsBegin ==
  ASSUME NEW s \in Seq(FrameType), NEW n
  PROVE  Firsts(s, n) <=> Begins(s, Len(s), n)
<1>1. DOMAIN s = 1..Len(s) /\ Len(s) \in Nat
  OBVIOUS
<1> QED BY <1>1 DEF Firsts, Begins

LEMMA CallReplaces ==
  ASSUME NEW th \in Threads, stack \in Stacks, Len(stack[th]) >= 1,
         NEW q \in Seq(FrameType), Call(th, q)
  PROVE  /\ stack'[th] \in Seq(FrameType)
         /\ Replaces(stack'[th], Len(stack'[th]), q, Len(q), stack[th], Len(stack[th]))
<1>1. stack[th] \in Seq(FrameType) /\ stack'[th] = q \o Tail(stack[th])
  BY DEF Stacks, Call
<1> DEFINE s == stack[th]
           v == stack'[th]
<1>2. /\ v \in Seq(FrameType) /\ Len(s) >= 1 /\ Len(v) = Len(q) + Len(s) - 1
      /\ \A k \in 1..Len(q) : v[k] = q[k]
      /\ \A k \in Len(q) + 1..Len(v) : v[k] = s[k - Len(q) + 1]
  BY <1>1
<1> QED BY <1>2 DEF Replaces

LEMMA FirstsAfter ==
  ASSUME NEW th \in Threads, stack \in Stacks, Len(stack[th]) >= 1,
         NEW n, Firsts(stack[th], n), NEW q \in Seq(FrameType), Call(th, q),
         NEW j, Firsts(q, j), NEW m, Totals(j, Len(q), n, m)
  PROVE  /\ Firsts(stack'[th], m) /\ stack'[th] \in Seq(FrameType)
         /\ \A k \in 1..Len(q) : stack'[th][k] = q[k]
         /\ \A k \in 2..Len(stack[th]) : stack'[th][k + Len(q) - 1] = stack[th][k]
<1>1. /\ stack[th] \in Seq(FrameType) /\ stack'[th] \in Seq(FrameType)
      /\ Replaces(stack'[th], Len(stack'[th]), q, Len(q), stack[th], Len(stack[th]))
  BY CallReplaces DEF Stacks
<1>2. Begins(stack[th], Len(stack[th]), n) /\ Begins(q, Len(q), j)
  BY <1>1, FirstsBegin
<1>3. /\ Begins(stack'[th], Len(stack'[th]), m)
      /\ \A k \in 2..Len(stack[th]) : stack'[th][k + Len(q) - 1] = stack[th][k]
  BY <1>1, <1>2, FirstsJoin
<1>4. \A k \in 1..Len(q) : stack'[th][k] = q[k]
  BY <1>1 DEF Replaces
<1> QED BY <1>1, <1>3, <1>4, FirstsBegin

\* Who reports Root has its work to do, or is reporting it.
LEMMA WhatReporters ==
  ASSUME WorkInv, RootReported, NEW t \in Threads, Reporter(t)
  PROVE  \/ Frames(Opens, Root) > 0
         \/ Frames(Reports, Root) > 0
         \/ called[Root]
<1>1. stack \in Stacks /\ Finite(stack) /\ \A ops : Frames(ops, Root) \in Nat
  BY FramesType DEF WorkInv, StreamInv, StreamTypes, LifeTypes
<1>2. /\ stack[t] \in Seq(FrameType) /\ stack[t] # << >> /\ Head(stack[t]).async = Root
      /\ Head(stack[t]).op # "_cancel"
  BY <1>1 DEF Reporter, Stacks
<1>3. 1 \in DOMAIN stack[t] /\ stack[t][1] = Head(stack[t]) /\ DOMAIN stack[t] = 1..Len(stack[t])
  BY <1>2
<1>4. PICK n : Firsts(stack[t], n) /\ Shape(stack[t], n)
  BY RootPartIs DEF RootReported
<1>5. /\ n \in 1..3 /\ \A k \in 1..n : k \in DOMAIN stack[t] /\ stack[t][k].async = Root
      /\ Len(stack[t]) \in Nat
  BY <1>2, <1>3, <1>4 DEF Firsts
<1>6. \A k \in 1..n : \A ops : stack[t][k].op \in ops => Frames(ops, Root) > 0
  <2> SUFFICES ASSUME NEW k \in 1..n, NEW ops, stack[t][k].op \in ops
               PROVE  Frames(ops, Root) > 0
    OBVIOUS
  <2>1. k \in DOMAIN stack[t] /\ IsOf(stack[t][k], ops, Root)
    BY <1>5 DEF IsOf
  <2>2. Frames(ops, Root) # 0
    BY <1>1, <2>1, NoFrames
  <2> QED BY <1>1, <2>2
<1>7. \E k \in 1..n : stack[t][k].op \in Opens \union Reports \/ called[Root]
  BY <1>2, <1>3, <1>4, <1>5 DEF Shape, Reported, Again, Opens, Reports
<1> QED BY <1>6, <1>7

\* A frame of Root returns, or goes on with one frame or with two.
LEMMA RootAfter0 ==
  ASSUME NEW th \in Threads, stack \in Stacks, Len(stack[th]) >= 1,
         NEW n \in 1..3, Firsts(stack[th], n), Call(th, << >>)
  PROVE  /\ Firsts(stack'[th], n - 1)
         /\ n >= 2 => stack'[th][1] = stack[th][2]
         /\ n = 3 => stack'[th][2] = stack[th][3]
<1> DEFINE q == << >>
<1>1. q \in Seq(FrameType) /\ Len(q) = 0 /\ DOMAIN q = {} /\ Call(th, q)
  OBVIOUS
<1> HIDE DEF q
<1>2. Firsts(q, 0) /\ Totals(0, Len(q), n, n - 1)
  BY <1>1 DEF Firsts, Totals
<1>3. /\ Firsts(stack'[th], n - 1)
      /\ \A k \in 2..Len(stack[th]) : stack'[th][k + Len(q) - 1] = stack[th][k]
  BY <1>1, <1>2, FirstsAfter
<1>4. n <= Len(stack[th]) /\ Len(stack[th]) \in Nat
  BY DEF Firsts, Stacks
<1>5. \A k \in 2..Len(stack[th]) : stack'[th][k - 1] = stack[th][k]
  BY <1>1, <1>3
<1>6. /\ n >= 2 => 2 \in 2..Len(stack[th]) /\ 2 - 1 = 1
      /\ n = 3 => 3 \in 2..Len(stack[th]) /\ 3 - 1 = 2
  BY <1>4
<1> QED BY <1>3, <1>5, <1>6

LEMMA RootAfter1 ==
  ASSUME NEW th \in Threads, stack \in Stacks, Len(stack[th]) >= 1,
         NEW n \in 1..3, Firsts(stack[th], n), NEW f \in FrameType, f.async = Root, Call(th, <<f>>)
  PROVE  /\ Firsts(stack'[th], n) /\ stack'[th][1] = f
         /\ n >= 2 => stack'[th][2] = stack[th][2]
         /\ n = 3 => stack'[th][3] = stack[th][3]
<1> DEFINE q == <<f>>
<1>1. q \in Seq(FrameType) /\ Len(q) = 1 /\ DOMAIN q = {1} /\ q[1] = f /\ Call(th, q)
  OBVIOUS
<1> HIDE DEF q
<1>2. Firsts(q, 1) /\ Totals(1, Len(q), n, n)
  BY <1>1 DEF Firsts, Totals
<1>4. /\ Firsts(stack'[th], n)
      /\ \A k \in 1..Len(q) : stack'[th][k] = q[k]
      /\ \A k \in 2..Len(stack[th]) : stack'[th][k + Len(q) - 1] = stack[th][k]
  BY <1>1, <1>2, FirstsAfter
<1>5. n <= Len(stack[th]) /\ Len(stack[th]) \in Nat
  BY DEF Firsts, Stacks
<1>6. \A k \in 2..Len(stack[th]) : stack'[th][k] = stack[th][k]
  BY <1>1, <1>4
<1> QED BY <1>1, <1>4, <1>5, <1>6

LEMMA RootAfter2 ==
  ASSUME NEW th \in Threads, stack \in Stacks, Len(stack[th]) >= 1,
         NEW n \in 1..2, Firsts(stack[th], n), NEW f \in FrameType, f.async = Root,
         NEW g \in FrameType, g.async = Root, Call(th, <<f, g>>)
  PROVE  /\ Firsts(stack'[th], n + 1) /\ stack'[th][1] = f /\ stack'[th][2] = g
         /\ n = 2 => stack'[th][3] = stack[th][2]
<1> DEFINE q == <<f, g>>
<1>1. /\ q \in Seq(FrameType) /\ Len(q) = 2 /\ DOMAIN q = {1, 2} /\ q[1] = f /\ q[2] = g
      /\ Call(th, q)
  OBVIOUS
<1> HIDE DEF q
<1>2. Firsts(q, 2) /\ Totals(2, Len(q), n, n + 1)
  BY <1>1 DEF Firsts, Totals
<1>4. /\ Firsts(stack'[th], n + 1)
      /\ \A k \in 1..Len(q) : stack'[th][k] = q[k]
      /\ \A k \in 2..Len(stack[th]) : stack'[th][k + Len(q) - 1] = stack[th][k]
  BY <1>1, <1>2, FirstsAfter
<1>5. n <= Len(stack[th]) /\ Len(stack[th]) \in Nat
  BY DEF Firsts, Stacks
<1>6. \A k \in 2..Len(stack[th]) : stack'[th][k + 1] = stack[th][k]
  BY <1>1, <1>4
<1> QED BY <1>1, <1>4, <1>5, <1>6

\* What thread th does about Root leaves the others as they are.
LEMMA OthersReport ==
  ASSUME RootReported, NEW th \in Threads, NEW t \in Threads, t # th, stack'[t] = stack[t],
         stack[t] \in Seq(FrameType), called'[Root] = called[Root] \/ Reporter(th),
         Frames({"_cancel"}, Root) > 0 => Frames({"_cancel"}, Root)' > 0
  PROVE  RootPart(stack[t])'
<1> DEFINE s == stack[t]
<1>1. PICK n : Firsts(s, n) /\ Shape(s, n)
  BY RootPartIs DEF RootReported
<1>2. Firsts(s, n)'
  BY <1>1 DEF Firsts
<1>3. CASE called'[Root] = called[Root]
  <2>1. Shape(s, n)'
    BY <1>1, <1>3 DEF Shape, Reported, Again
  <2> QED BY <1>2, <2>1, RootPartIs DEF RootPart, Firsts
<1>4. CASE Reporter(th)
  <2>1. ~Reporter(t)
    BY <1>4 DEF RootReported
  <2>2. n = 0 \/ (n >= 1 /\ n \in 1..3)
    BY <1>1 DEF Firsts
  <2>3. n >= 1 => s[1].op = "_cancel"
    <3> SUFFICES ASSUME n >= 1
                 PROVE  s[1].op = "_cancel"
      OBVIOUS
    <3>1. Len(s) >= 1 /\ 1 \in DOMAIN s /\ s # << >> /\ Head(s) = s[1]
      BY <1>1, <2>2 DEF Firsts
    <3>2. s[1].async = Root
      BY <1>1, <3>1 DEF Firsts
    <3> QED BY <2>1, <3>1, <3>2 DEF Reporter
  <2>4. n = 0 \/ (n = 2 /\ s[1].op = "_cancel" /\ s[2].op = "release")
    BY <1>1, <2>2, <2>3 DEF Shape, Reported, Again, Opens, Timing
  <2>5. Shape(s, n)'
    BY <2>4 DEF Shape
  <2> QED BY <1>2, <2>5 DEF RootPart, Firsts
<1> QED BY <1>3, <1>4

LEMMA ReportedByStep ==
  ASSUME WorkInv, RootReported, NEW th \in Threads,
         \A t \in Threads \ {th} : stack'[t] = stack[t],
         RootPart(stack[th])',
         called'[Root] = called[Root] \/ Reporter(th),
         Frames({"_cancel"}, Root) > 0 => Frames({"_cancel"}, Root)' > 0,
         Reporter(th)' => Reporter(th) \/ \A t \in Threads : ~Reporter(t),
         called'[Root] \/ Frames({"async_notify"}, Root)' > 0 => timer'[Root] # "armed",
         life'[Root] = "live" => ref'[Root] >= 1 \/ Frames({"destroy"}, Root)' > 0
  PROVE  RootReported'
<1>1. \A t \in Threads : stack[t] \in Seq(FrameType)
  BY DEF WorkInv, StreamInv, StreamTypes, Stacks
<1>2. \A t \in Threads : RootPart(stack[t])'
  <2> SUFFICES ASSUME NEW t \in Threads, t # th
               PROVE  RootPart(stack[t])'
    OBVIOUS
  <2> QED BY <1>1, OthersReport
<1>3. \A t \in Threads : t # th /\ Reporter(t)' => Reporter(t)
  BY DEF Reporter
<1>4. \A t, u \in Threads : Reporter(t)' /\ Reporter(u)' => t = u
  <2> SUFFICES ASSUME NEW t \in Threads, NEW u \in Threads, Reporter(t)', Reporter(u)'
               PROVE  t = u
    OBVIOUS
  <2> QED BY <1>3 DEF RootReported
<1> QED BY <1>2, <1>4 DEF RootReported

\* A step of a thread about something else, which calls nothing of Root's.
LEMMA ReportedAside ==
  ASSUME WorkInv, RootReported, NEW th \in Threads, NEW o, NEW a, a # Root, At(th, o, a),
         NEW q \in Seq(FrameType), Call(th, q), \A k \in DOMAIN q : q[k].async # Root,
         \A ops : Frames(ops, Root)' = Frames(ops, Root),
         life'[Root] = life[Root], ref'[Root] = ref[Root], called'[Root] = called[Root],
         timer'[Root] = timer[Root]
  PROVE  RootReported'
<1>1. stack \in Stacks
  BY DEF WorkInv, StreamInv, StreamTypes
<1>2. Firsts(stack[th], 0) /\ stack[th] \in Seq(FrameType) /\ Len(stack[th]) >= 1
  BY NoneOfRoot
<1>3. Firsts(q, 0) /\ Totals(0, Len(q), 0, 0)
  <2>1. DOMAIN q = 1..Len(q) /\ Len(q) \in Nat
    OBVIOUS
  <2>2. \A k \in DOMAIN q : q[k].async = Root <=> k <= 0
    BY <2>1
  <2> QED BY <2>1, <2>2, FirstsAre DEF Totals
<1>4. Firsts(stack'[th], 0) /\ stack'[th] \in Seq(FrameType)
  BY <1>1, <1>2, <1>3, FirstsAfter
<1>5. \A t \in Threads \ {th} : stack'[t] = stack[t]
  BY <1>1 DEF Call, Stacks
<1>6. RootPart(stack[th])'
  BY <1>4 DEF RootPart, Firsts, Shape
<1>7. ~Reporter(th)'
  <2> SUFFICES ASSUME stack'[th] # << >>, Head(stack'[th]).async = Root
               PROVE  FALSE
    BY DEF Reporter
  <2>1. 1 \in DOMAIN stack'[th] /\ Head(stack'[th]) = stack'[th][1]
    BY <1>4
  <2> QED BY <1>4, <2>1 DEF Firsts
<1> QED BY <1>5, <1>6, <1>7, ReportedByStep DEF RootReported

RootSame ==
  /\ life'[Root] = life[Root] /\ ref'[Root] = ref[Root]
  /\ called'[Root] = called[Root] /\ timer'[Root] = timer[Root]

\* It returns, or goes on with one frame, with two or with three, none of them Root's.
Elsewhere(th, f, g, h) ==
  /\ f.async # Root /\ g.async # Root /\ h.async # Root
  /\ Call(th, << >>) \/ Call(th, <<f>>) \/ Call(th, <<f, g>>) \/ Call(th, <<f, g, h>>)

LEMMA ReportedElsewhere ==
  ASSUME WorkInv, RootReported, NEW th \in Threads, NEW o, NEW a, a # Root, At(th, o, a),
         NEW f \in FrameType, NEW g \in FrameType, NEW h \in FrameType, Elsewhere(th, f, g, h),
         RootSame
  PROVE  RootReported'
<1>1. /\ stack \in Stacks /\ Finite(stack) /\ stack[th] # << >> /\ Head(stack[th]).async = a
      /\ \A ops, b : Frames(ops, b) \in Nat
  BY AtWork
<1>2. /\ \A ops : One(IsOf(Head(stack[th]), ops, Root)) = 0
      /\ \A ops : One(IsOf(f, ops, Root)) = 0
      /\ \A ops : One(IsOf(g, ops, Root)) = 0
      /\ \A ops : One(IsOf(h, ops, Root)) = 0
  BY <1>1 DEF Elsewhere, IsOf, One
<1>3. f.async # Root /\ g.async # Root /\ h.async # Root
  BY DEF Elsewhere
<1>4. CASE Call(th, << >>)
  <2>1. \A ops : Frames(ops, Root)' = Frames(ops, Root)
    BY <1>1, <1>2, <1>4, Calls0
  <2> DEFINE q == << >>
  <2>2. q \in Seq(FrameType) /\ Call(th, q) /\ \A k \in DOMAIN q : q[k].async # Root
    BY <1>4
  <2> HIDE DEF q
  <2> QED BY <2>1, <2>2, ReportedAside DEF RootSame
<1>5. CASE Call(th, <<f>>)
  <2>1. \A ops : Frames(ops, Root)' = Frames(ops, Root)
    BY <1>1, <1>2, <1>5, Calls1
  <2> DEFINE q == <<f>>
  <2>2. q \in Seq(FrameType) /\ Call(th, q) /\ \A k \in DOMAIN q : q[k].async # Root
    BY <1>3, <1>5
  <2> HIDE DEF q
  <2> QED BY <2>1, <2>2, ReportedAside DEF RootSame
<1>6. CASE Call(th, <<f, g>>)
  <2>1. \A ops : Frames(ops, Root)' = Frames(ops, Root)
    BY <1>1, <1>2, <1>6, Calls2
  <2> DEFINE q == <<f, g>>
  <2>2. q \in Seq(FrameType) /\ Call(th, q) /\ DOMAIN q = {1, 2} /\ q[1] = f /\ q[2] = g
    BY <1>6
  <2> HIDE DEF q
  <2>3. \A k \in DOMAIN q : q[k].async # Root
    BY <1>3, <2>2
  <2> QED BY <2>1, <2>2, <2>3, ReportedAside DEF RootSame
<1>7. CASE Call(th, <<f, g, h>>)
  <2>1. \A ops : Frames(ops, Root)' = Frames(ops, Root)
    BY <1>1, <1>2, <1>7, Calls3
  <2> DEFINE q == <<f, g, h>>
  <2>2. /\ q \in Seq(FrameType) /\ Call(th, q) /\ DOMAIN q = {1, 2, 3}
        /\ q[1] = f /\ q[2] = g /\ q[3] = h
    BY <1>7
  <2> HIDE DEF q
  <2>3. \A k \in DOMAIN q : q[k].async # Root
    BY <1>3, <2>2
  <2> QED BY <2>1, <2>2, <2>3, ReportedAside DEF RootSame
<1> QED BY <1>4, <1>5, <1>6, <1>7 DEF Elsewhere

\* A step about a child, whatever it calls of the child's.
LEMMA ChildStepReports ==
  ASSUME WorkInv, RootReported, NEW th \in Threads, NEW o, NEW a \in Asyncs, a # Root,
         At(th, o, a), RootSame,
         NEW x \in {"add_timer_ref", "schedule", "notify", "async_notify", "callback", "_cancel",
                    "release", "destroy", "unlock", "send_enter", "recv", "submit"},
         NEW y \in {"async_notify", "release", "unlock"},
         \/ Call(th, << >>)
         \/ Call(th, <<Frame(x, a)>>)
         \/ Call(th, <<Carry(th, x, a)>>)
         \/ Call(th, <<Frame(x, a), Frame(y, a)>>)
         \/ Call(th, <<Frame(x, a), Carry(th, y, a)>>)
         \/ Call(th, <<Carry(th, x, a), Frame(y, a)>>)
         \/ Call(th, <<Frame(x, a), Frame(y, a), Frame("notify", a)>>)
  PROVE  RootReported'
<1>1. PICK f \in FrameType, g \in FrameType, h \in FrameType, i \in FrameType, j \in FrameType :
        /\ f = Frame(x, a) /\ g = Carry(th, x, a) /\ h = Frame(y, a) /\ i = Carry(th, y, a)
        /\ j = Frame("notify", a)
        /\ f.async = a /\ g.async = a /\ h.async = a /\ i.async = a /\ j.async = a
  BY StreamFrameTypes
<1>2. \/ Elsewhere(th, f, h, j) \/ Elsewhere(th, g, h, j) \/ Elsewhere(th, f, i, j)
  BY <1>1 DEF Elsewhere
<1> QED BY <1>1, <1>2, ReportedElsewhere

LEMMA ChildLifeReports ==
  ASSUME WorkInv, RootReported, NEW th \in Threads, NEW a \in Asyncs, a # Root,
         \/ New(th, a) \/ AddTimerRef(th, a) \/ Schedule(th, a)
         \/ Release(th, a) \/ Destroy(th, a) \/ Unlock(th, a)
  PROVE  RootReported'
<1>1. RootSame
  BY DEF New, AddTimerRef, Schedule, Release, Destroy, Unlock, RootSame, WorkInv, LifeTypes, Asyncs
<1>2. CASE New(th, a) \/ AddTimerRef(th, a)
  <2>1. PICK o \in {"new", "add_timer_ref"}, x \in {"add_timer_ref", "schedule"} :
          At(th, o, a) /\ (Call(th, << >>) \/ Call(th, <<Frame(x, a)>>))
    BY <1>2 DEF New, AddTimerRef
  <2> QED BY <1>1, <2>1, ChildStepReports
<1>3. CASE Schedule(th, a) \/ Release(th, a) \/ Destroy(th, a) \/ Unlock(th, a)
  <2>1. PICK o \in {"schedule", "release", "destroy", "unlock"} :
          At(th, o, a) /\ (Call(th, << >>) \/ Call(th, <<Frame("destroy", a)>>))
    BY <1>3 DEF Schedule, Release, Destroy, Unlock, Return
  <2> QED BY <1>1, <2>1, ChildStepReports
<1> QED BY <1>2, <1>3

LEMMA ChildSocketCallsReport ==
  ASSUME WorkInv, RootReported, NEW th \in Threads, NEW a \in Asyncs, a # Root,
         \/ Receive(th, a) \/ Send(th, a) \/ SendEnter(th, a) \/ Recv(th, a) \/ SubmitSend(th, a)
  PROVE  RootReported'
<1>1. CASE Receive(th, a) \/ SendEnter(th, a)
  <2>1. RootSame
    BY <1>1 DEF Receive, SendEnter, AsyncEnter, RootSame, WorkInv, LifeTypes, Asyncs
  <2>2. PICK o \in {"receive", "send_enter"}, x \in {"recv", "submit"} :
          /\ At(th, o, a)
          /\ \/ Call(th, <<Frame(x, a)>>)
             \/ Call(th, <<Frame("notify", a), Frame("unlock", a)>>)
    BY <1>1 DEF Receive, SendEnter, AsyncEnter
  <2> QED BY <2>1, <2>2, ChildStepReports
<1>2. CASE Recv(th, a) \/ SubmitSend(th, a)
  <2>1. RootSame
    BY <1>2 DEF Recv, SubmitSend, operation, RootSame
  <2>2. PICK o \in {"recv", "submit"} :
          /\ At(th, o, a)
          /\ \/ Call(th, <<Frame("unlock", a), Frame("release", a)>>)
             \/ Call(th, <<Frame("unlock", a), Frame("release", a), Frame("notify", a)>>)
    <3>1. <<Frame("unlock", a), Frame("release", a)>> \o <<Frame("notify", a)>>
            = <<Frame("unlock", a), Frame("release", a), Frame("notify", a)>>
      BY Triples
    <3> QED BY <1>2, <3>1 DEF Recv, SubmitSend, Submit, AsyncLeave
  <2> QED BY <2>1, <2>2, ChildStepReports
<1>3. CASE Send(th, a)
  <2>1. RootSame /\ At(th, "send", a) /\ Call(th, <<Frame("send_enter", a)>>)
    BY <1>3 DEF Send, RootSame
  <2> QED BY <2>1, ChildStepReports
<1> QED BY <1>1, <1>2, <1>3

LEMMA ChildNotificationsReport ==
  ASSUME WorkInv, RootReported, NEW th \in Threads, NEW a \in Asyncs, a # Root,
         \/ Notify(th, a) \/ AsyncNotify(th, a)
         \/ Cancel(th, a) /\ (CancelCall(th, a) \/ CancelDirectly(th, a))
  PROVE  RootReported'
<1>1. CASE Notify(th, a)
  <2>1. RootSame /\ At(th, "notify", a)
    BY <1>1 DEF Notify, CancelTimerThen, RootSame, WorkInv, LifeTypes, Asyncs
  <2>2. \/ Call(th, <<Carry(th, "async_notify", a)>>)
        \/ Call(th, <<Frame("release", a), Carry(th, "async_notify", a)>>)
    <3>1. <<Frame("release", a)>> \o <<Carry(th, "async_notify", a)>>
            = <<Frame("release", a), Carry(th, "async_notify", a)>>
      BY Tuples
    <3> QED BY <1>1, <3>1 DEF Notify, CancelTimerThen
  <2> QED BY <2>1, <2>2, ChildStepReports
<1>2. CASE AsyncNotify(th, a)
  <2>1. /\ RootSame /\ At(th, "async_notify", a)
        /\ Call(th, << >>) \/ Call(th, <<Carry(th, "callback", a), Frame("release", a)>>)
    BY <1>2 DEF AsyncNotify, RootSame, WorkInv, LifeTypes, Asyncs
  <2> QED BY <2>1, ChildStepReports
<1>3. CASE Cancel(th, a) /\ (CancelCall(th, a) \/ CancelDirectly(th, a))
  <2>1. /\ RootSame /\ At(th, "_cancel", a)
        /\ Call(th, << >>) \/ Call(th, <<Frame("notify", a)>>)
    BY <1>3 DEF Cancel, CancelCall, CancelDirectly, Return, RootSame
  <2> QED BY <2>1, ChildStepReports
<1> QED BY <1>1, <1>2, <1>3

\* What the frame on top says of the others.
LEMMA ShapeByTop ==
  ASSUME NEW s, NEW n \in 1..3, Shape(s, n)
  PROVE  /\ s[1].op \in {"new"} \union Timing => n = 2 /\ s[2].op = "start"
         /\ s[1].op \in Opens => n = 1
         /\ s[1].op = "notify" => \/ ~called[Root] /\ (n = 1 \/ (n = 2 /\ Again(s[2])))
                                  \/ called[Root] /\ n = 1
         /\ s[1].op = "async_notify" => \/ ~called[Root] /\ (n = 1 \/ (n = 2 /\ Again(s[2])))
                                        \/ called[Root] /\ n = 1
         /\ s[1].op = "release" =>
              \/ ~called[Root] /\ s[2].op = "async_notify" /\ (n = 2 \/ (n = 3 /\ Again(s[3])))
              \/ called[Root] /\ (n = 1 \/ (n = 2 /\ Again(s[2])))
         /\ s[1].op = "destroy" => called[Root] /\ (n = 1 \/ (n = 2 /\ Again(s[2])))
         /\ s[1].op = "callback" =>
              called[Root] /\ s[2].op = "release" /\ (n = 2 \/ (n = 3 /\ Again(s[3])))
         /\ s[1].op = "_cancel" => n = 2 /\ s[2].op = "release"
         /\ s[1].op \in {"new", "_cancel", "release", "destroy"} \union Timing \union Opens
                          \union Reports
<1>1. \/ n = 1 /\ s[1].op \in Opens
      \/ n = 2 /\ s[1].op \in {"new"} \union Timing /\ s[2].op = "start"
      \/ n = 2 /\ s[1].op = "_cancel" /\ s[2].op = "release"
      \/ n = 1 /\ s[1].op = "async_notify" /\ called[Root]
      \/ Reported(s, n)
      \/ Again(s[n]) /\ Reported(s, n - 1)
  BY DEF Shape
<1>2. Reported(s, n) =>
        \/ ~called[Root] /\ n = 1 /\ s[1].op \in {"notify", "async_notify"}
        \/ ~called[Root] /\ n = 2 /\ s[1].op = "release" /\ s[2].op = "async_notify"
        \/ called[Root] /\ n = 1 /\ s[1].op \in {"release", "destroy"}
        \/ called[Root] /\ n = 2 /\ s[1].op = "callback" /\ s[2].op = "release"
  BY DEF Reported
<1>3. Again(s[n]) /\ Reported(s, n - 1) =>
        \/ ~called[Root] /\ n = 2 /\ s[1].op \in {"notify", "async_notify"} /\ Again(s[2])
        \/ ~called[Root] /\ n = 3 /\ s[1].op = "release" /\ s[2].op = "async_notify" /\ Again(s[3])
        \/ called[Root] /\ n = 1 /\ s[1].op = "notify"
        \/ called[Root] /\ n = 2 /\ s[1].op \in {"release", "destroy"} /\ Again(s[2])
        \/ called[Root] /\ n = 3 /\ s[1].op = "callback" /\ s[2].op = "release" /\ Again(s[3])
  <2> SUFFICES ASSUME Again(s[n]), Reported(s, n - 1)
               PROVE  \/ ~called[Root] /\ n = 2 /\ s[1].op \in {"notify", "async_notify"} /\ Again(s[2])
                      \/ ~called[Root] /\ n = 3 /\ s[1].op = "release" /\ s[2].op = "async_notify" /\ Again(s[3])
                      \/ called[Root] /\ n = 1 /\ s[1].op = "notify"
                      \/ called[Root] /\ n = 2 /\ s[1].op \in {"release", "destroy"} /\ Again(s[2])
                      \/ called[Root] /\ n = 3 /\ s[1].op = "callback" /\ s[2].op = "release" /\ Again(s[3])
    OBVIOUS
  <2>1. \/ ~called[Root] /\ n = 2 /\ s[1].op \in {"notify", "async_notify"}
        \/ ~called[Root] /\ n = 3 /\ s[1].op = "release" /\ s[2].op = "async_notify"
        \/ called[Root] /\ n = 1
        \/ called[Root] /\ n = 2 /\ s[1].op \in {"release", "destroy"}
        \/ called[Root] /\ n = 3 /\ s[1].op = "callback" /\ s[2].op = "release"
    BY DEF Reported
  <2>2. n = 1 => s[1].op = "notify"
    BY DEF Again
  <2> QED BY <2>1, <2>2
<1> HIDE DEF Again
<1> QED BY <1>1, <1>2, <1>3 DEF Opens, Timing, Reports

\* The step of a thread that has something to do for Root.
LEMMA ReportedByOwnStep ==
  ASSUME WorkInv, RootReported, NEW th \in Threads, NEW o, o # "_cancel", At(th, o, Root),
         NEW q, Call(th, q), RootPart(stack[th])',
         Frames({"_cancel"}, Root) > 0 => Frames({"_cancel"}, Root)' > 0,
         called'[Root] \/ Frames({"async_notify"}, Root)' > 0 => timer'[Root] # "armed",
         life'[Root] = "live" => ref'[Root] >= 1 \/ Frames({"destroy"}, Root)' > 0
  PROVE  RootReported'
<1>1. stack \in Stacks /\ Reporter(th)
  BY AtWork DEF Reporter
<1>2. \A t \in Threads \ {th} : stack'[t] = stack[t]
  BY <1>1 DEF Call, Stacks
<1> QED BY <1>1, <1>2, ReportedByStep

\* Before the work for Root begins nobody has reported it.
LEMMA NotReportedYet ==
  ASSUME WorkInv, ~canceled[Root],
         \/ Frames(Opens, Root) >= 1
         \/ \E c \in Children : Owing(c) >= 1
  PROVE  ~called[Root] /\ Frames(Reports, Root) = 0
<1>1. /\ Root \in Asyncs /\ \A ops, b : Frames(ops, b) \in Nat
      /\ completed[Root] \in Int /\ called[Root] \in BOOLEAN
      /\ CallsBack(Root)
  BY FramesType DEF Asyncs, WorkInv, StreamInv, StreamTypes, LifeTypes, LifeInv
<1>2. \A c \in Children : Owing(c) \in Int
  BY <1>1 DEF Owing, One
<1>3. ~(Frames(Reports, Root) > 0 \/ completed[Root] > 0)
  <2>1. /\ ~canceled[Root] /\ (Frames(Reports, Root) > 0 \/ completed[Root] > 0) =>
             Frames(Opens, Root) = 0 /\ \A c \in Children : Owing(c) = 0
    BY DEF WorkInv, OneAfterAnother
  <2> HIDE DEF Owing
  <2> QED BY <2>1
<1>4. Frames(Reports, Root) = 0
  BY <1>1, <1>3
<1>5. Frames({"callback"}, Root) <= Frames(Reports, Root)
  BY FewerFrames DEF Reports
<1> QED BY <1>1, <1>3, <1>4, <1>5 DEF CallsBack, One

LEMMA NobodyReportsYet ==
  ASSUME WorkInv, RootReported, ~canceled[Root], NEW c \in Children, Owing(c) >= 1
  PROVE  \A t \in Threads : ~Reporter(t)
<1>1. ~called[Root] /\ Frames(Reports, Root) = 0
  BY NotReportedYet
<1>2. Frames(Opens, Root) = 0
  <2>1. Frames(Opens, Root) \in Nat /\ Owing(c) \in Int
    BY FramesType DEF WorkInv, StreamInv, StreamTypes, LifeTypes, Owing, One
  <2>2. Owing(c) + Frames(Opens, Root) <= 1
    BY DEF WorkInv, OneAfterAnother
  <2> HIDE DEF Owing
  <2> QED BY <2>1, <2>2
<1> QED BY <1>1, <1>2, WhatReporters

\* Where the frames of Root stand now.
LEMMA RootPartNow ==
  ASSUME NEW th, NEW m, Firsts(stack'[th], m), Shape(stack[th], m)'
  PROVE  RootPart(stack[th])'
BY DEF RootPart, Firsts

LEMMA RootBirthReports ==
  ASSUME WorkInv, StacksInOrder, RootReported, Calm, NEW th \in Threads,
         New(th, Root) \/ AddTimerRef(th, Root) \/ Schedule(th, Root)
  PROVE  RootReported'
<1>1. PICK o \in {"new"} \union Timing, x \in Timing :
        /\ At(th, o, Root)
        /\ Call(th, << >>) \/ Call(th, <<Frame(x, Root)>>)
  BY DEF New, AddTimerRef, Schedule, Return, Timing
<1>2. PICK f \in FrameType : f = Frame(x, Root) /\ f.op = x /\ f.async = Root
  BY <1>1, StreamFrameTypes DEF Timing
<1>3. /\ stack \in Stacks /\ Root \in Asyncs /\ stack[th] # << >> /\ StreamFrame(f)
      /\ \A ops, b : Frames(ops, b) \in Nat
      /\ \A ops : o \in ops => Frames(ops, Root) >= 1
  <2>1. StreamFrame(f)
    BY <1>2 DEF StreamFrame, Timing
  <2> QED BY <1>1, <2>1, AtWork
<1>4. PICK n \in 1..3 : /\ Firsts(stack[th], n) /\ Shape(stack[th], n) /\ stack[th][1].op = o
                        /\ stack[th] \in Seq(FrameType) /\ Len(stack[th]) >= 1
  BY <1>1, RootOnTop
<1>5. n = 2 /\ stack[th][2].op = "start"
  BY <1>4, ShapeByTop
<1>6. RootPart(stack[th])'
  <2>1. CASE Call(th, << >>)
    <3>1. Firsts(stack'[th], 1) /\ stack'[th][1] = stack[th][2]
      BY <1>3, <1>4, <1>5, <2>1, RootAfter0
    <3>2. Shape(stack[th], 1)'
      BY <1>5, <3>1 DEF Shape, Opens
    <3> QED BY <3>1, <3>2, RootPartNow
  <2>2. CASE Call(th, <<f>>)
    <3>1. Firsts(stack'[th], 2) /\ stack'[th][1] = f /\ stack'[th][2] = stack[th][2]
      BY <1>2, <1>3, <1>4, <1>5, <2>2, RootAfter1
    <3>2. Shape(stack[th], 2)'
      BY <1>2, <1>5, <3>1 DEF Shape
    <3> QED BY <3>1, <3>2, RootPartNow
  <2> QED BY <1>1, <1>2, <2>1, <2>2
<1>7. /\ Frames({"_cancel"}, Root)' = Frames({"_cancel"}, Root)
      /\ Frames({"async_notify"}, Root)' = Frames({"async_notify"}, Root)
      /\ Frames({"destroy"}, Root)' = Frames({"destroy"}, Root)
  <2>1. Does(f, x, Root)
    BY <1>2, <1>3 DEF Does
  <2>2. Worked(Root, o, "-", "-", "-") \/ Worked(Root, o, x, "-", "-")
    BY <1>1, <1>2, <2>1, Work0, Work1 DEF Timing
  <2> QED BY <1>3, <2>2 DEF Worked, Moves, One, Timing
<1>8. ~called[Root] /\ Frames({"async_notify"}, Root) = 0
  <2>1. 2 \in DOMAIN stack[th] /\ stack[th][2].async = Root
    BY <1>4, <1>5 DEF Firsts
  <2>2. Frames(Opens, Root) >= 1
    BY <1>3, <1>5, <2>1, NextFrame DEF Opens
  <2>3. ~called[Root] /\ Frames(Reports, Root) = 0
    BY <2>2, NotReportedYet DEF Calm
  <2>4. Frames({"async_notify"}, Root) <= Frames(Reports, Root)
    BY FewerFrames DEF Reports
  <2> QED BY <1>3, <2>3, <2>4
<1>9. called' = called /\ ref \in [Asyncs -> Int]
  BY DEF New, AddTimerRef, Schedule, WorkInv, LifeTypes
<1>10. life'[Root] = "live" => ref'[Root] >= 1 \/ Frames({"destroy"}, Root)' > 0
  <2>1. CASE New(th, Root)
    BY <1>3, <1>9, <2>1 DEF New
  <2>2. CASE AddTimerRef(th, Root) \/ Schedule(th, Root)
    <3>1. /\ ref'[Root] >= ref[Root] /\ ref[Root] \in Int /\ ref'[Root] \in Int
          /\ life'[Root] = life[Root]
      BY <1>3, <1>9, <2>2 DEF AddTimerRef, Schedule
    <3>2. life[Root] = "live" => ref[Root] >= 1 \/ Frames({"destroy"}, Root) > 0
      BY DEF RootReported
    <3> QED BY <1>7, <3>1, <3>2
  <2> QED BY <2>1, <2>2
<1> QED BY <1>1, <1>3, <1>6, <1>7, <1>8, <1>9, <1>10, ReportedByOwnStep DEF Timing

\* The user's call.
LEMMA RootCallsReport ==
  ASSUME WorkInv, RootReported, Calm, NEW th \in Threads, NEW o \in Opens, At(th, o, Root),
         NEW f \in FrameType, NEW g \in FrameType, CallsOn(o, f, g, th),
         UNCHANGED <<life, ref, called, timer>>
  PROVE  RootReported'
<1>1. /\ stack \in Stacks /\ Finite(stack) /\ Root \in Asyncs /\ stack[th] # << >>
      /\ Head(stack[th]).op = o /\ \A ops, b : Frames(ops, b) \in Nat
      /\ Frames(Opens, Root) >= 1
  BY AtWork
<1>2. PICK n \in 1..3 : /\ Firsts(stack[th], n) /\ Shape(stack[th], n) /\ stack[th][1].op = o
                        /\ stack[th] \in Seq(FrameType) /\ Len(stack[th]) >= 1
  BY RootOnTop
<1>3. n = 1
  BY <1>2, ShapeByTop
<1>4. ~called[Root]
  BY <1>1, NotReportedYet DEF Calm
<1>5. PICK q \in Seq(FrameType) :
        /\ Call(th, q) /\ RootPart(stack[th])'
        /\ \A ops \in {{"_cancel"}, {"async_notify"}, {"destroy"}} :
             Frames(ops, Root)' = Frames(ops, Root)
  <2>1. CASE f.op \in {"ssl_receive", "ssl_send", "notify"} /\ f.async = Root /\ Call(th, <<f>>)
    <3>1. Firsts(stack'[th], 1) /\ stack'[th][1] = f
      BY <1>1, <1>2, <1>3, <2>1, RootAfter1
    <3>2. Shape(stack[th], 1)'
      BY <1>4, <2>1, <3>1 DEF Shape, Reported, Opens
    <3>3. ASSUME NEW ops \in {{"_cancel"}, {"async_notify"}, {"destroy"}}
          PROVE  Frames(ops, Root)' = Frames(ops, Root)
      <4>1. ~IsOf(Head(stack[th]), ops, Root) /\ ~IsOf(f, ops, Root)
        BY <1>1, <2>1 DEF IsOf, Opens
      <4> QED BY <1>1, <2>1, <4>1, Calls1 DEF One
    <3>4. <<f>> \in Seq(FrameType)
      OBVIOUS
    <3> QED BY <2>1, <3>1, <3>2, <3>3, <3>4, RootPartNow
  <2>2. CASE f.op = "new" /\ g.async = f.async /\ f.async \in Children /\ Call(th, <<f, g>>)
    <3>1. f.async # Root /\ g.async # Root
      BY <2>2, AsyncAssumption
    <3> DEFINE q == <<f, g>>
    <3>2. q \in Seq(FrameType) /\ Len(q) = 2 /\ DOMAIN q = {1, 2} /\ q[1] = f /\ q[2] = g
          /\ Call(th, q)
      BY <2>2
    <3> HIDE DEF q
    <3>3. Firsts(q, 0)
      <4>1. \A k \in DOMAIN q : q[k].async = Root <=> k <= 0
        BY <3>1, <3>2
      <4> QED BY <3>2, <4>1, FirstsAre
    <3>4. Totals(0, Len(q), n, 0)
      BY <1>3, <3>2 DEF Totals
    <3>5. Firsts(stack'[th], 0)
      BY <1>1, <1>2, <3>2, <3>3, <3>4, FirstsAfter
    <3>6. Shape(stack[th], 0)'
      BY DEF Shape
    <3>7. ASSUME NEW ops \in {{"_cancel"}, {"async_notify"}, {"destroy"}}
          PROVE  Frames(ops, Root)' = Frames(ops, Root)
      <4>1. ~IsOf(Head(stack[th]), ops, Root) /\ ~IsOf(f, ops, Root) /\ ~IsOf(g, ops, Root)
        BY <1>1, <3>1 DEF IsOf, Opens
      <4> QED BY <1>1, <2>2, <4>1, Calls2 DEF One
    <3> QED BY <3>2, <3>5, <3>6, <3>7, RootPartNow
  <2>3. \/ f.op \in {"ssl_receive", "ssl_send", "notify"} /\ f.async = Root /\ Call(th, <<f>>)
        \/ f.op = "new" /\ g.async = f.async /\ f.async \in Children /\ Call(th, <<f, g>>)
    BY DEF CallsOn, Opens
  <2> QED BY <2>1, <2>2, <2>3
<1>6. called'[Root] \/ Frames({"async_notify"}, Root)' > 0 => timer'[Root] # "armed"
  BY <1>5 DEF RootReported
<1>7. life'[Root] = "live" => ref'[Root] >= 1 \/ Frames({"destroy"}, Root)' > 0
  BY <1>5 DEF RootReported
<1>8. Frames({"_cancel"}, Root)' = Frames({"_cancel"}, Root) /\ o # "_cancel"
  BY <1>5 DEF Opens
<1> QED BY <1>5, <1>6, <1>7, <1>8, ReportedByOwnStep

\* The callback of a child.
LEMMA ChildCallbackReports ==
  ASSUME WorkInv, RootReported, Calm, NEW th \in Threads, NEW c \in Children, At(th, "callback", c),
         NEW f \in FrameType, NEW g \in FrameType, CallsOn("callback", f, g, th),
         UNCHANGED <<life, ref, called, timer>>
  PROVE  RootReported'
<1>1. /\ stack \in Stacks /\ Finite(stack) /\ Root \in Asyncs /\ stack[th] # << >>
      /\ Head(stack[th]).async = c /\ c # Root
      /\ \A ops, b : Frames(ops, b) \in Nat
      /\ Frames({"new", "callback"}, c) >= 1
  <2>1. c # Root /\ Root \in Asyncs
    BY AsyncAssumption DEF Asyncs
  <2> QED BY <2>1, AtWork
<1>2. Owing(c) >= 1
  BY <1>1 DEF Owing, One
<1>3. ~called[Root] /\ \A t \in Threads : ~Reporter(t)
  BY <1>2, NotReportedYet, NobodyReportsYet DEF Calm
<1>4. Firsts(stack[th], 0) /\ stack[th] \in Seq(FrameType) /\ Len(stack[th]) >= 1
  BY <1>1, NoneOfRoot
<1>5. \A t \in Threads \ {th} : stack'[t] = stack[t]
  BY <1>1 DEF CallsOn, Call, Stacks
<1>6. ASSUME NEW q \in Seq(FrameType), Call(th, q), NEW m \in 1..2, Len(q) = m, Firsts(q, m),
             q[1] = f, f.op = "notify", m = 2 => Again(q[2]),
             \A ops \in {{"_cancel"}, {"async_notify"}, {"destroy"}} :
               Frames(ops, Root)' = Frames(ops, Root)
      PROVE  RootReported'
  <2>1. Totals(m, Len(q), 0, m)
    BY <1>6 DEF Totals
  <2>2. /\ Firsts(stack'[th], m)
        /\ \A k \in 1..Len(q) : stack'[th][k] = q[k]
    BY <1>1, <1>4, <1>6, <2>1, FirstsAfter
  <2>3. stack'[th][1].op = "notify" /\ (m = 2 => Again(stack'[th][2]))
    BY <1>6, <2>2
  <2>4. Shape(stack[th], m)'
    BY <1>3, <2>3 DEF Shape, Reported, Again
  <2>5. RootPart(stack[th])'
    BY <2>2, <2>4, RootPartNow
  <2> QED BY <1>3, <1>5, <1>6, <2>5, ReportedByStep DEF RootReported
<1>7. \A ops \in {{"_cancel"}, {"async_notify"}, {"destroy"}} :
        ~IsOf(Head(stack[th]), ops, Root) /\ (f.op = "notify" => ~IsOf(f, ops, Root))
  BY <1>1 DEF IsOf
<1>8. CASE f.op = "notify" /\ f.async = Root /\ Call(th, <<f>>)
  <2> DEFINE q == <<f>>
  <2>1. q \in Seq(FrameType) /\ Len(q) = 1 /\ DOMAIN q = {1} /\ q[1] = f /\ Call(th, q)
    BY <1>8
  <2>2. \A ops \in {{"_cancel"}, {"async_notify"}, {"destroy"}} :
          Frames(ops, Root)' = Frames(ops, Root)
    <3> SUFFICES ASSUME NEW ops \in {{"_cancel"}, {"async_notify"}, {"destroy"}}
                 PROVE  Frames(ops, Root)' = Frames(ops, Root)
      OBVIOUS
    <3>1. ~IsOf(Head(stack[th]), ops, Root) /\ ~IsOf(f, ops, Root)
      BY <1>7, <1>8
    <3> QED BY <1>1, <1>8, <3>1, Calls1 DEF One
  <2> HIDE DEF q
  <2>3. Firsts(q, 1)
    BY <1>8, <2>1 DEF Firsts
  <2> QED BY <1>6, <1>8, <2>1, <2>2, <2>3
<1>9. CASE f.op = "notify" /\ f.async = Root /\ f.ok /\ g = f /\ Call(th, <<f, g>>)
  <2> DEFINE q == <<f, g>>
  <2>1. /\ q \in Seq(FrameType) /\ Len(q) = 2 /\ DOMAIN q = {1, 2} /\ q[1] = f /\ q[2] = g
        /\ Call(th, q)
    BY <1>9
  <2>2. \A ops \in {{"_cancel"}, {"async_notify"}, {"destroy"}} :
          Frames(ops, Root)' = Frames(ops, Root)
    <3> SUFFICES ASSUME NEW ops \in {{"_cancel"}, {"async_notify"}, {"destroy"}}
                 PROVE  Frames(ops, Root)' = Frames(ops, Root)
      OBVIOUS
    <3>1. ~IsOf(Head(stack[th]), ops, Root) /\ ~IsOf(f, ops, Root) /\ ~IsOf(g, ops, Root)
      BY <1>7, <1>9
    <3> QED BY <1>1, <1>9, <3>1, Calls2 DEF One
  <2> HIDE DEF q
  <2>3. Firsts(q, 2) /\ Again(q[2])
    BY <1>9, <2>1 DEF Firsts, Again
  <2> QED BY <1>6, <1>9, <2>1, <2>2, <2>3
<1>10. CASE f.op = "new" /\ g.async = f.async /\ f.async \in Children /\ Call(th, <<f, g>>)
  <2>1. Elsewhere(th, f, g, g)
    BY <1>10, AsyncAssumption DEF Elsewhere
  <2> QED BY <1>1, <2>1, ReportedElsewhere DEF RootSame
<1>11. \/ f.op = "notify" /\ f.async = Root /\ Call(th, <<f>>)
       \/ f.op = "notify" /\ f.async = Root /\ f.ok /\ g = f /\ Call(th, <<f, g>>)
       \/ f.op = "new" /\ g.async = f.async /\ f.async \in Children /\ Call(th, <<f, g>>)
  BY DEF CallsOn
<1> QED BY <1>8, <1>9, <1>10, <1>11

LEMMA StreamCallsReport ==
  ASSUME WorkInv, RootReported, Calm, Ops \subseteq {"ssl_receive", "ssl_send"},
         NEW th \in Threads,
         \/ \E a \in Asyncs : Start(th, a)
         \/ SslReceive(th) \/ SslSend(th)
         \/ \E c \in Children : ChildCallback(th, c)
  PROVE  RootReported'
<1>1. PICK o \in {"start", "ssl_receive", "ssl_send", "callback"}, a \in Asyncs,
           f \in FrameType, g \in FrameType :
        /\ At(th, o, a) /\ (IF o = "callback" THEN a \in Children ELSE a = Root)
        /\ CallsOn(o, f, g, th)
        /\ UNCHANGED <<life, ref, canceled, called, timer>>
  BY StreamCallShapes
<1>2. CASE o = "callback"
  BY <1>1, <1>2, ChildCallbackReports
<1>3. CASE o # "callback"
  <2>1. o \in Opens /\ a = Root
    BY <1>1, <1>3 DEF Opens
  <2> QED BY <1>1, <2>1, RootCallsReport
<1> QED BY <1>2, <1>3

\* Root is executed and there; what is said of its references.
LEMMA RootCounted ==
  ASSUME WorkInv, NEW th \in Threads, NEW o, At(th, o, Root), o # "new", o \notin Outside
  PROVE  /\ life[Root] = "live" /\ Root \in Asyncs /\ stack \in Stacks
         /\ ref[Root] = One(~called[Root]) + One(timer[Root] = "armed") + Frames(Holding, Root)
         /\ \A ops, b : Frames(ops, b) \in Nat
         /\ \A ops : o \in ops => Frames(ops, Root) >= 1
         /\ ref \in [Asyncs -> Int] /\ called \in [Asyncs -> BOOLEAN]
         /\ timer \in [Asyncs -> {"idle", "armed", "gone"}]
         /\ life \in [Asyncs -> {"none", "live", "freed"}]
<1>1. life[Root] = "live"
  BY Lives
<1>2. Root \in Asyncs /\ LifeInv(Root)
  BY DEF Asyncs, WorkInv
<1> QED BY <1>1, <1>2, AtWork DEF LifeInv, RefExact, WorkInv, LifeTypes

\* What a step of a thread about Root leaves, of what has been said before.
LEMMA RootCallbackReports ==
  ASSUME WorkInv, RootReported, NEW th \in Threads, Callback(th, Root)
  PROVE  RootReported'
<1>1. At(th, "callback", Root) /\ Call(th, << >>) /\ UNCHANGED <<life, ref, called, timer>>
  BY DEF Callback, CallbackThen, operation
<1>2. PICK n \in 1..3 : /\ Firsts(stack[th], n) /\ Shape(stack[th], n)
                        /\ stack[th][1].op = "callback"
                        /\ stack[th] \in Seq(FrameType) /\ Len(stack[th]) >= 1
  BY <1>1, RootOnTop
<1>3. called[Root] /\ stack[th][2].op = "release" /\ (n = 2 \/ (n = 3 /\ Again(stack[th][3])))
  BY <1>2, ShapeByTop DEF Reports
<1>4. stack \in Stacks /\ \A ops, b : Frames(ops, b) \in Nat
  BY <1>1, AtWork
<1>5. /\ Firsts(stack'[th], n - 1) /\ stack'[th][1] = stack[th][2]
      /\ n = 3 => stack'[th][2] = stack[th][3]
  BY <1>1, <1>2, <1>3, <1>4, RootAfter0
<1>6. Shape(stack[th], n - 1)'
  BY <1>1, <1>3, <1>5 DEF Shape, Reported, Again
<1>7. RootPart(stack[th])'
  BY <1>5, <1>6, RootPartNow
<1>8. /\ Frames({"_cancel"}, Root)' = Frames({"_cancel"}, Root)
      /\ Frames({"async_notify"}, Root)' = Frames({"async_notify"}, Root)
      /\ Frames({"destroy"}, Root)' = Frames({"destroy"}, Root)
  <2>1. Worked(Root, "callback", "-", "-", "-")
    BY <1>1, Work0
  <2> QED BY <1>4, <2>1 DEF Worked, Moves, One
<1>9. /\ called[Root] \/ Frames({"async_notify"}, Root) > 0 => timer[Root] # "armed"
      /\ life[Root] = "live" => ref[Root] >= 1 \/ Frames({"destroy"}, Root) > 0
  BY DEF RootReported
<1>10. "callback" # "_cancel"
  OBVIOUS
<1> QED BY <1>1, <1>7, <1>8, <1>9, <1>10, ReportedByOwnStep

LEMMA RootDestroyReports ==
  ASSUME WorkInv, RootReported, NEW th \in Threads, Destroy(th, Root)
  PROVE  RootReported'
<1>1. /\ At(th, "destroy", Root) /\ Call(th, << >>) /\ UNCHANGED <<ref, called>>
      /\ timer' = [timer EXCEPT ![Root] = IF @ = "armed" THEN "gone" ELSE @]
      /\ life' = [life EXCEPT ![Root] = "freed"]
  BY DEF Destroy, Return
<1>2. PICK n \in 1..3 : /\ Firsts(stack[th], n) /\ Shape(stack[th], n)
                        /\ stack[th][1].op = "destroy"
                        /\ stack[th] \in Seq(FrameType) /\ Len(stack[th]) >= 1
  BY <1>1, RootOnTop
<1>3. called[Root] /\ (n = 1 \/ (n = 2 /\ Again(stack[th][2])))
  BY <1>2, ShapeByTop
<1>4. /\ stack \in Stacks /\ Root \in Asyncs /\ \A ops, b : Frames(ops, b) \in Nat
      /\ timer \in [Asyncs -> {"idle", "armed", "gone"}]
      /\ life \in [Asyncs -> {"none", "live", "freed"}]
  BY <1>1, AtWork DEF WorkInv, LifeTypes
<1>5. Firsts(stack'[th], n - 1) /\ (n = 2 => stack'[th][1] = stack[th][2])
  BY <1>1, <1>2, <1>3, <1>4, RootAfter0
<1>6. Shape(stack[th], n - 1)'
  BY <1>1, <1>3, <1>5 DEF Shape, Reported, Again
<1>7. RootPart(stack[th])'
  BY <1>5, <1>6, RootPartNow
<1>8. Frames({"_cancel"}, Root)' = Frames({"_cancel"}, Root)
  <2>1. Worked(Root, "destroy", "-", "-", "-")
    BY <1>1, Work0
  <2> QED BY <1>4, <2>1 DEF Worked, Moves, One
<1>9. timer'[Root] # "armed" /\ life'[Root] = "freed"
  BY <1>1, <1>4
<1>10. "destroy" # "_cancel"
  OBVIOUS
<1> QED BY <1>1, <1>7, <1>8, <1>9, <1>10, ReportedByOwnStep

LEMMA RootReleaseReports ==
  ASSUME WorkInv, RootReported, NEW th \in Threads, Release(th, Root)
  PROVE  RootReported'
<1>1. /\ At(th, "release", Root) /\ UNCHANGED <<life, called, timer>>
      /\ ref' = [ref EXCEPT ![Root] = @ - 1]
      /\ IF ref[Root] > 1 THEN Call(th, << >>) ELSE Call(th, <<Frame("destroy", Root)>>)
  BY DEF Release
<1>2. PICK n \in 1..3 : /\ Firsts(stack[th], n) /\ Shape(stack[th], n)
                        /\ stack[th][1].op = "release"
                        /\ stack[th] \in Seq(FrameType) /\ Len(stack[th]) >= 1
  BY <1>1, RootOnTop
<1> DEFINE s == stack[th]
<1>3. \/ ~called[Root] /\ s[2].op = "async_notify" /\ (n = 2 \/ (n = 3 /\ Again(s[3])))
      \/ called[Root] /\ (n = 1 \/ (n = 2 /\ Again(s[2])))
  BY <1>2, ShapeByTop
<1>4. /\ stack \in Stacks /\ Root \in Asyncs /\ \A ops, b : Frames(ops, b) \in Nat
      /\ ref[Root] = One(~called[Root]) + One(timer[Root] = "armed") + Frames(Holding, Root)
      /\ Frames(Holding, Root) >= 1 /\ ref \in [Asyncs -> Int] /\ called[Root] \in BOOLEAN
  BY <1>1, RootCounted DEF Outside, Holding
<1>5. PICK f \in FrameType : f = Frame("destroy", Root) /\ f.op = "destroy" /\ f.async = Root
  BY <1>1, StreamFrameTypes
<1>6. Does(f, "destroy", Root)
  <2>1. Root \in {Root} \union Children
    OBVIOUS
  <2> QED BY <1>5, <2>1, DoesOp
<1>7. ~called[Root] => ref[Root] > 1
  BY <1>4 DEF One
<1>8. CASE ref[Root] > 1
  <2>1. Call(th, << >>)
    BY <1>1, <1>8
  <2>2. /\ Firsts(stack'[th], n - 1)
        /\ n >= 2 => stack'[th][1] = s[2]
        /\ n = 3 => stack'[th][2] = s[3]
    BY <1>2, <1>4, <2>1, RootAfter0
  <2>3. Shape(stack[th], n - 1)'
    BY <1>1, <1>3, <2>2 DEF Shape, Reported, Again
  <2>4. RootPart(stack[th])'
    BY <2>2, <2>3, RootPartNow
  <2>5. /\ Frames({"_cancel"}, Root)' = Frames({"_cancel"}, Root)
        /\ Frames({"async_notify"}, Root)' = Frames({"async_notify"}, Root)
    <3>1. Worked(Root, "release", "-", "-", "-")
      BY <1>1, <2>1, Work0
    <3> QED BY <1>4, <3>1 DEF Worked, Moves, One
  <2>6. ref'[Root] >= 1
    BY <1>1, <1>4, <1>8
  <2>7. called[Root] \/ Frames({"async_notify"}, Root) > 0 => timer[Root] # "armed"
    BY DEF RootReported
  <2>8. "release" # "_cancel"
    OBVIOUS
  <2> QED BY <1>1, <2>1, <2>4, <2>5, <2>6, <2>7, <2>8, ReportedByOwnStep
<1>9. CASE ~(ref[Root] > 1)
  <2>1. Call(th, <<f>>) /\ called[Root]
    BY <1>1, <1>5, <1>7, <1>9
  <2>2. Firsts(stack'[th], n) /\ stack'[th][1] = f /\ (n >= 2 => stack'[th][2] = s[2])
    BY <1>2, <1>4, <1>5, <2>1, RootAfter1
  <2>3. Shape(stack[th], n)'
    BY <1>1, <1>3, <1>5, <2>1, <2>2 DEF Shape, Reported, Again
  <2>4. RootPart(stack[th])'
    BY <2>2, <2>3, RootPartNow
  <2>5. /\ Frames({"_cancel"}, Root)' = Frames({"_cancel"}, Root)
        /\ Frames({"async_notify"}, Root)' = Frames({"async_notify"}, Root)
        /\ Frames({"destroy"}, Root)' = Frames({"destroy"}, Root) + 1
    <3>1. Worked(Root, "release", "destroy", "-", "-")
      BY <1>1, <1>6, <2>1, Work1
    <3> QED BY <1>4, <3>1 DEF Worked, Moves, One
  <2>6. Frames({"destroy"}, Root)' > 0
    BY <1>4, <2>5
  <2>7. called[Root] \/ Frames({"async_notify"}, Root) > 0 => timer[Root] # "armed"
    BY DEF RootReported
  <2>8. "release" # "_cancel"
    OBVIOUS
  <2> QED BY <1>1, <2>1, <2>4, <2>5, <2>6, <2>7, <2>8, ReportedByOwnStep
<1> QED BY <1>8, <1>9

\* Who notifies Root a second time has a thread to wait for that cancels it.
LEMMA CancellationIsDue ==
  ASSUME WorkInv, RootReported, NEW th \in Threads, At(th, "notify", Root), called[Root]
  PROVE  Frames({"_cancel"}, Root) > 0
<1>1. /\ stack \in Stacks /\ Finite(stack) /\ \A ops, b : Frames(ops, b) \in Nat
      /\ stack[th] # << >> /\ Head(stack[th]).op = "notify" /\ Head(stack[th]).async = Root
  BY AtWork
<1>2. /\ life[Root] = "live"
      /\ ref[Root] = One(~called[Root]) + One(timer[Root] = "armed") + Frames(Holding, Root)
  BY RootCounted DEF Outside
<1>3. timer[Root] # "armed" /\ (ref[Root] >= 1 \/ Frames({"destroy"}, Root) > 0)
  BY <1>2 DEF RootReported
<1>4. PICK ops \in {Holding, {"destroy"}} : Frames(ops, Root) # 0
  <2>1. One(~called[Root]) = 0 /\ One(timer[Root] = "armed") = 0
    BY <1>3 DEF One
  <2>2. Frames(Holding, Root) \in Nat /\ Frames({"destroy"}, Root) \in Nat
    BY <1>1
  <2>3. Frames(Holding, Root) # 0 \/ Frames({"destroy"}, Root) # 0
    BY <1>2, <1>3, <2>1, <2>2
  <2> QED BY <2>3
<1>5. PICK t \in Threads : \E k \in DOMAIN stack[t] : IsOf(stack[t][k], ops, Root)
  BY <1>1, <1>4, NoFrames
<1> PICK k \in DOMAIN stack[t] : IsOf(stack[t][k], ops, Root)
  BY <1>5
<1>6. PICK n : Firsts(stack[t], n) /\ Shape(stack[t], n)
  BY RootPartIs DEF RootReported
<1>7. /\ stack[t] \in Seq(FrameType) /\ stack[t] # << >> /\ DOMAIN stack[t] = 1..Len(stack[t])
      /\ Len(stack[t]) \in Nat /\ k <= n /\ k \in 1..n /\ n \in 1..3
      /\ 1 \in DOMAIN stack[t] /\ stack[t][1] = Head(stack[t])
  <2>1. stack[t] \in Seq(FrameType) /\ stack[t][k].async = Root
    BY <1>1, <1>5 DEF Stacks, IsOf
  <2>2. k <= n /\ n \in 0..3 /\ k \in 1..Len(stack[t])
    BY <1>6, <2>1 DEF Firsts
  <2> QED BY <2>1, <2>2
<1>8. Head(stack[t]).async = Root
  BY <1>6, <1>7 DEF Firsts
<1>9. Head(stack[t]).op = "_cancel"
  <2> SUFFICES ASSUME Head(stack[t]).op # "_cancel"
               PROVE  FALSE
    OBVIOUS
  <2>1. Reporter(t) /\ Reporter(th)
    BY <1>1, <1>7, <1>8 DEF Reporter
  <2>2. t = th
    BY <2>1 DEF RootReported
  <2>3. stack[t][1].op = "notify"
    BY <1>1, <1>7, <2>2
  <2>4. n = 1
    BY <1>6, <1>7, <2>3, ShapeByTop
  <2>5. k = 1
    BY <1>7, <2>4
  <2> QED BY <1>5, <2>3, <2>5 DEF IsOf, Holding
<1>10. IsOf(stack[t][1], {"_cancel"}, Root)
  BY <1>7, <1>8, <1>9 DEF IsOf
<1>11. Frames({"_cancel"}, Root) # 0
  BY <1>1, <1>7, <1>10, NoFrames
<1> QED BY <1>1, <1>11

LEMMA RootNotifyReports ==
  ASSUME WorkInv, RootReported, NEW th \in Threads, Notify(th, Root)
  PROVE  RootReported'
<1>1. At(th, "notify", Root) /\ UNCHANGED <<life, ref, called>>
  BY DEF Notify
<1>2. PICK n \in 1..3 : /\ Firsts(stack[th], n) /\ Shape(stack[th], n)
                        /\ stack[th][1].op = "notify"
                        /\ stack[th] \in Seq(FrameType) /\ Len(stack[th]) >= 1
  BY <1>1, RootOnTop
<1> DEFINE s == stack[th]
<1>3. \/ ~called[Root] /\ (n = 1 \/ (n = 2 /\ Again(s[2])))
      \/ called[Root] /\ n = 1
  BY <1>2, ShapeByTop
<1>4. /\ stack \in Stacks /\ Root \in Asyncs /\ \A ops, b : Frames(ops, b) \in Nat
      /\ timer \in [Asyncs -> {"idle", "armed", "gone"}] /\ Head(s) \in FrameType
  BY <1>1, AtWork DEF WorkInv, LifeTypes
<1>5. PICK f \in FrameType, g \in FrameType :
        /\ f = Frame("release", Root) /\ f.op = "release" /\ f.async = Root
        /\ g = Carry(th, "async_notify", Root) /\ g.op = "async_notify" /\ g.async = Root
  BY <1>1, StreamFrameTypes
<1>6. Does(f, "release", Root) /\ Does(g, "async_notify", Root)
  <2>1. Root \in {Root} \union Children
    OBVIOUS
  <2> QED BY <1>4, <1>5, <2>1, DoesOp
<1>7. /\ timer' = [timer EXCEPT ![Root] = IF @ = "armed" THEN "gone" ELSE @]
      /\ IF timer[Root] = "armed" THEN Call(th, <<f, g>>) ELSE Call(th, <<g>>)
  <2>1. <<f>> \o <<g>> = <<f, g>>
    BY Tuples
  <2> QED BY <1>5, <2>1 DEF Notify, CancelTimerThen
<1>8. timer'[Root] # "armed"
  BY <1>4, <1>7
<1>9. life[Root] = "live" => ref[Root] >= 1 \/ Frames({"destroy"}, Root) > 0
  BY DEF RootReported
<1>10. "notify" # "_cancel"
  OBVIOUS
<1>11. CASE timer[Root] = "armed"
  <2>1. Call(th, <<f, g>>) /\ ~called[Root]
    BY <1>7, <1>11 DEF RootReported
  <2>2. n \in 1..2
    BY <1>3
  <2>3. /\ Firsts(stack'[th], n + 1) /\ stack'[th][1] = f /\ stack'[th][2] = g
        /\ n = 2 => stack'[th][3] = s[2]
    BY <1>2, <1>4, <1>5, <2>1, <2>2, RootAfter2
  <2>4. Shape(stack[th], n + 1)'
    BY <1>1, <1>3, <1>5, <2>1, <2>3 DEF Shape, Reported, Again
  <2>5. RootPart(stack[th])'
    BY <2>3, <2>4, RootPartNow
  <2>6. /\ Frames({"_cancel"}, Root)' = Frames({"_cancel"}, Root)
        /\ Frames({"destroy"}, Root)' = Frames({"destroy"}, Root)
    <3>1. Worked(Root, "notify", "release", "async_notify", "-")
      BY <1>1, <1>6, <2>1, Work2
    <3> QED BY <1>4, <3>1 DEF Worked, Moves, One
  <2> QED BY <1>1, <1>8, <1>9, <1>10, <2>1, <2>5, <2>6, ReportedByOwnStep
<1>12. CASE timer[Root] # "armed"
  <2>1. Call(th, <<g>>)
    BY <1>7, <1>12
  <2>2. Firsts(stack'[th], n) /\ stack'[th][1] = g /\ (n >= 2 => stack'[th][2] = s[2])
    BY <1>2, <1>4, <1>5, <2>1, RootAfter1
  <2>3. /\ Frames({"_cancel"}, Root)' = Frames({"_cancel"}, Root)
        /\ Frames({"destroy"}, Root)' = Frames({"destroy"}, Root)
    <3>1. Worked(Root, "notify", "async_notify", "-", "-")
      BY <1>1, <1>6, <2>1, Work1
    <3> QED BY <1>4, <3>1 DEF Worked, Moves, One
  <2>4. called[Root] => Frames({"_cancel"}, Root)' > 0
    BY <1>1, <2>3, CancellationIsDue
  <2>5. Shape(stack[th], n)'
    BY <1>1, <1>3, <1>5, <2>2, <2>4 DEF Shape, Reported, Again
  <2>6. RootPart(stack[th])'
    BY <2>2, <2>5, RootPartNow
  <2> QED BY <1>1, <1>8, <1>9, <1>10, <2>1, <2>3, <2>6, ReportedByOwnStep
<1> QED BY <1>11, <1>12

LEMMA RootAsyncNotifyReports ==
  ASSUME WorkInv, RootReported, NEW th \in Threads, AsyncNotify(th, Root)
  PROVE  RootReported'
<1>1. /\ At(th, "async_notify", Root) /\ UNCHANGED <<life, ref, timer>>
      /\ called' = [called EXCEPT ![Root] = TRUE]
  BY DEF AsyncNotify
<1>2. PICK n \in 1..3 : /\ Firsts(stack[th], n) /\ Shape(stack[th], n)
                        /\ stack[th][1].op = "async_notify"
                        /\ stack[th] \in Seq(FrameType) /\ Len(stack[th]) >= 1
  BY <1>1, RootOnTop
<1> DEFINE s == stack[th]
<1>3. \/ ~called[Root] /\ (n = 1 \/ (n = 2 /\ Again(s[2])))
      \/ called[Root] /\ n = 1
  BY <1>2, ShapeByTop
<1>4. /\ stack \in Stacks /\ Root \in Asyncs /\ \A ops, b : Frames(ops, b) \in Nat
      /\ called \in [Asyncs -> BOOLEAN] /\ Head(s) \in FrameType
      /\ Frames({"async_notify"}, Root) >= 1
  BY <1>1, AtWork DEF WorkInv, LifeTypes
<1>5. PICK f \in FrameType, g \in FrameType :
        /\ f = Carry(th, "callback", Root) /\ f.op = "callback" /\ f.async = Root
        /\ g = Frame("release", Root) /\ g.op = "release" /\ g.async = Root
  BY <1>1, StreamFrameTypes
<1>6. Does(f, "callback", Root) /\ Does(g, "release", Root)
  <2>1. Root \in {Root} \union Children
    OBVIOUS
  <2> QED BY <1>4, <1>5, <2>1, DoesOp
<1>7. IF called[Root] THEN Call(th, << >>) ELSE Call(th, <<f, g>>)
  BY <1>5 DEF AsyncNotify
<1>8. timer[Root] # "armed" /\ called'[Root]
  BY <1>1, <1>4 DEF RootReported
<1>9. life[Root] = "live" => ref[Root] >= 1 \/ Frames({"destroy"}, Root) > 0
  BY DEF RootReported
<1>10. "async_notify" # "_cancel"
  OBVIOUS
<1>11. CASE called[Root]
  <2>1. Call(th, << >>) /\ n = 1
    BY <1>3, <1>7, <1>11
  <2>2. Firsts(stack'[th], n - 1)
    BY <1>2, <1>4, <2>1, RootAfter0
  <2>3. Shape(stack[th], n - 1)'
    BY <2>1 DEF Shape
  <2>4. RootPart(stack[th])'
    BY <2>2, <2>3, RootPartNow
  <2>5. /\ Frames({"_cancel"}, Root)' = Frames({"_cancel"}, Root)
        /\ Frames({"destroy"}, Root)' = Frames({"destroy"}, Root)
    <3>1. Worked(Root, "async_notify", "-", "-", "-")
      BY <1>1, <2>1, Work0
    <3> QED BY <1>4, <3>1 DEF Worked, Moves, One
  <2> QED BY <1>1, <1>8, <1>9, <1>10, <2>1, <2>4, <2>5, ReportedByOwnStep
<1>12. CASE ~called[Root]
  <2>1. Call(th, <<f, g>>) /\ n \in 1..2 /\ (n = 2 => Again(s[2]))
    BY <1>3, <1>7, <1>12
  <2>2. /\ Firsts(stack'[th], n + 1) /\ stack'[th][1] = f /\ stack'[th][2] = g
        /\ n = 2 => stack'[th][3] = s[2]
    BY <1>2, <1>4, <1>5, <2>1, RootAfter2
  <2>3. Shape(stack[th], n + 1)'
    BY <1>5, <1>8, <2>1, <2>2 DEF Shape, Reported, Again
  <2>4. RootPart(stack[th])'
    BY <2>2, <2>3, RootPartNow
  <2>5. /\ Frames({"_cancel"}, Root)' = Frames({"_cancel"}, Root)
        /\ Frames({"destroy"}, Root)' = Frames({"destroy"}, Root)
    <3>1. Worked(Root, "async_notify", "callback", "release", "-")
      BY <1>1, <1>6, <2>1, Work2
    <3> QED BY <1>4, <3>1 DEF Worked, Moves, One
  <2> QED BY <1>1, <1>8, <1>9, <1>10, <2>1, <2>4, <2>5, ReportedByOwnStep
<1> QED BY <1>11, <1>12

\* A thread begins something else.
LEMMA BeginsElsewhere ==
  ASSUME WorkInv, RootReported, NEW th \in Threads, NEW q \in Seq(FrameType),
         stack' = [stack EXCEPT ![th] = q], \A k \in DOMAIN q : q[k].async # Root,
         \A ops : Frames(ops, Root)' = Frames(ops, Root), RootSame
  PROVE  RootReported'
<1>1. stack'[th] = q /\ \A t \in Threads \ {th} : stack'[t] = stack[t]
  BY DEF WorkInv, StreamInv, StreamTypes, Stacks
<1>2. Firsts(q, 0)
  <2>1. DOMAIN q = 1..Len(q) /\ Len(q) \in Nat
    OBVIOUS
  <2>2. \A k \in DOMAIN q : q[k].async = Root <=> k <= 0
    BY <2>1
  <2> QED BY <2>1, <2>2, FirstsAre
<1>3. RootPart(stack[th])'
  BY <1>1, <1>2 DEF RootPart, Firsts, Shape
<1>4. ~Reporter(th)'
  <2> SUFFICES ASSUME q # << >>, Head(q).async = Root
               PROVE  FALSE
    BY <1>1 DEF Reporter
  <2>1. 1 \in DOMAIN q /\ Head(q) = q[1]
    OBVIOUS
  <2> QED BY <2>1
<1> QED BY <1>1, <1>3, <1>4, ReportedByStep DEF RootReported, RootSame

LEMMA TimeoutReports ==
  ASSUME WorkInv, RootReported, NEW a \in Asyncs, TimeoutFires(a)
  PROVE  RootReported'
<1>1. /\ Poller \in Threads /\ stack[Poller] = << >> /\ timer[a] = "armed"
      /\ stack' = [stack EXCEPT ![Poller] = <<Frame("_cancel", a), Frame("release", a)>>]
      /\ UNCHANGED <<life, ref, called>> /\ \A b \in Asyncs \ {a} : timer'[b] = timer[b]
      /\ timer'[a] = "gone" /\ stack \in Stacks /\ \A ops, b : Frames(ops, b) \in Nat
  BY FramesType DEF TimeoutFires, Threads, WorkInv, LifeTypes, StreamInv, StreamTypes
<1>2. a \in {Root} \union Children
  BY <1>1 DEF Asyncs, WorkInv, CallsAreNested, LifeInv, NothingBefore
<1>3. PICK f \in FrameType, g \in FrameType :
        /\ f = Frame("_cancel", a) /\ f.op = "_cancel" /\ f.async = a /\ Does(f, "_cancel", a)
        /\ g = Frame("release", a) /\ g.op = "release" /\ g.async = a /\ Does(g, "release", a)
  BY <1>2, DoesOp DEF Does
<1>4. Worked(a, "-", "_cancel", "release", "-")
  BY <1>1, <1>3, Work2Begins
<1> DEFINE q == <<f, g>>
<1>5. /\ q \in Seq(FrameType) /\ Len(q) = 2 /\ DOMAIN q = {1, 2} /\ q[1] = f /\ q[2] = g
      /\ stack' = [stack EXCEPT ![Poller] = q] /\ q # << >> /\ Head(q) = f
  BY <1>1, <1>3
<1> HIDE DEF q
<1>6. stack'[Poller] = q /\ \A t \in Threads \ {Poller} : stack'[t] = stack[t]
  BY <1>1, <1>5 DEF Stacks
<1>7. CASE a = Root
  <2>1. Firsts(q, 2)
    <3>1. \A k \in DOMAIN q : q[k].async = Root <=> k <= 2
      BY <1>3, <1>5, <1>7
    <3> QED BY <1>5, <3>1, FirstsAre
  <2>2. Shape(stack[Poller], 2)'
    BY <1>3, <1>5, <1>6 DEF Shape
  <2>3. RootPart(stack[Poller])'
    BY <1>6, <2>1, <2>2, RootPartNow
  <2>4. ~Reporter(Poller)'
    BY <1>3, <1>5, <1>6 DEF Reporter
  <2>5. /\ Frames({"_cancel"}, Root)' = Frames({"_cancel"}, Root) + 1
        /\ Frames({"destroy"}, Root)' = Frames({"destroy"}, Root)
    BY <1>1, <1>4, <1>7 DEF Worked, Moves, One
  <2>6. life[Root] = "live" => ref[Root] >= 1 \/ Frames({"destroy"}, Root) > 0
    BY DEF RootReported
  <2>7. Frames({"_cancel"}, Root)' > 0
    BY <1>1, <2>5
  <2>8. timer'[Root] # "armed"
    BY <1>1, <1>7
  <2> QED BY <1>1, <1>6, <2>3, <2>4, <2>5, <2>6, <2>7, <2>8, ReportedByStep
<1>8. CASE a # Root
  <2>1. Root \in Asyncs \ {a}
    BY <1>8 DEF Asyncs
  <2>2. \A ops : Frames(ops, Root)' = Frames(ops, Root)
    BY <1>4, <2>1 DEF Worked, Moves
  <2>3. \A k \in DOMAIN q : q[k].async # Root
    BY <1>3, <1>5, <1>8
  <2> QED BY <1>1, <1>5, <2>1, <2>2, <2>3, BeginsElsewhere DEF RootSame
<1> QED BY <1>7, <1>8

LEMMA DequeueReports ==
  ASSUME WorkInv, RootReported, NEW a \in Asyncs, NEW th \in Workers, Dequeue(th, a)
  PROVE  RootReported'
<1>1. /\ th \in Threads /\ stack[th] = << >> /\ io[a] = "queued"
      /\ \/ stack' = [stack EXCEPT ![th] = <<Frame("notify", a)>>]
         \/ stack' = [stack EXCEPT ![th] = <<Success("notify", a)>>]
      /\ RootSame
  BY DEF Dequeue, Threads, operation, RootSame
<1>2. a \in Children /\ Root \in Asyncs \ {a}
  <2>1. a \in Children
    BY <1>1 DEF WorkInv, CallsAreNested
  <2> QED BY <2>1, AsyncAssumption DEF Asyncs
<1>3. PICK f \in FrameType :
        /\ f.async = a /\ Does(f, "notify", a) /\ stack' = [stack EXCEPT ![th] = <<f>>]
  <2>1. Does(Frame("notify", a), "notify", a) /\ Does(Success("notify", a), "notify", a)
    BY <1>2, DoesOp
  <2> QED BY <1>1, <2>1 DEF Does
<1>4. Worked(a, "-", "notify", "-", "-")
  BY <1>1, <1>3, Work1Begins
<1> DEFINE q == <<f>>
<1>5. /\ q \in Seq(FrameType) /\ DOMAIN q = {1} /\ q[1] = f
      /\ stack' = [stack EXCEPT ![th] = q]
  BY <1>3
<1> HIDE DEF q
<1>6. \A ops : Frames(ops, Root)' = Frames(ops, Root)
  BY <1>2, <1>4 DEF Worked, Moves
<1>7. \A k \in DOMAIN q : q[k].async # Root
  BY <1>2, <1>3, <1>5
<1> QED BY <1>1, <1>5, <1>6, <1>7, BeginsElsewhere

LEMMA SameReports ==
  ASSUME RootReported, UNCHANGED <<stack, life, ref, called, timer>>
  PROVE  RootReported'
<1>1. \A ops : Frames(ops, Root)' = Frames(ops, Root)
  BY DEF Frames
<1>2. \A t \in Threads : RootPart(stack[t])'
  <2> SUFFICES ASSUME NEW t \in Threads
               PROVE  RootPart(stack[t])'
    OBVIOUS
  <2>1. RootPart(stack[t])
    BY DEF RootReported
  <2> QED BY <1>1, <2>1 DEF RootPart, Shape, Reported, Again
<1>3. \A t \in Threads : Reporter(t)' = Reporter(t)
  BY DEF Reporter
<1> QED BY <1>1, <1>2, <1>3 DEF RootReported

-----------------------------------------------------------------------------
(* As long as nobody has cancelled the user's operation *)

\* A frame of Root on top is one of those that its stack may begin with.
LEMMA TopOfRoot ==
  ASSUME WorkInv, RootReported, NEW th \in Threads, NEW o, At(th, o, Root)
  PROVE  o \in {"new", "_cancel", "release", "destroy"} \union Timing \union Opens \union Reports
<1>1. PICK n \in 1..3 : Shape(stack[th], n) /\ stack[th][1].op = o
  BY RootOnTop
<1> QED BY <1>1, ShapeByTop

LEMMA LifeReports ==
  ASSUME WorkInv, StacksInOrder, RootReported, Calm, NEW th \in Threads, NEW a \in Asyncs,
         \/ New(th, a) \/ AddTimerRef(th, a) \/ Schedule(th, a)
         \/ Release(th, a) \/ Destroy(th, a) \/ Unlock(th, a)
  PROVE  RootReported'
<1>1. CASE a # Root
  BY <1>1, ChildLifeReports
<1>2. CASE a = Root
  <2>1. ~Unlock(th, Root)
    <3> SUFFICES ASSUME At(th, "unlock", Root)
                 PROVE  FALSE
      BY DEF Unlock
    <3> QED BY TopOfRoot DEF Timing, Opens, Reports
  <2> QED BY <1>2, <2>1, RootBirthReports, RootReleaseReports, RootDestroyReports
<1> QED BY <1>1, <1>2

LEMMA LifeKeepsCalm ==
  ASSUME WorkInv, CalmInv, Calm, NEW th \in Threads, NEW a \in Asyncs,
         \/ New(th, a) \/ AddTimerRef(th, a) \/ Schedule(th, a)
         \/ Release(th, a) \/ Destroy(th, a) \/ Unlock(th, a)
  PROVE  CalmInv'
<1>1. StacksInOrder /\ Gone /\ RootReported
  BY DEF CalmInv, Gone
<1>2. StacksInOrder'
  BY <1>1, BirthsInOrder, EndsInOrder
<1>3. Gone'
  BY <1>1, NewKeepsGone, TimerKeepsGone, ReleaseKeepsGone, DestroyKeepsGone, NotificationsKeepGone
<1>4. RootReported'
  BY <1>1, LifeReports
<1> QED BY <1>2, <1>3, <1>4 DEF CalmInv, Gone

LEMMA NotificationsKeepCalm ==
  ASSUME WorkInv, CalmInv, Calm, NEW th \in Threads, NEW a \in Asyncs,
         Notify(th, a) \/ AsyncNotify(th, a) \/ Callback(th, a)
  PROVE  CalmInv'
<1>1. StacksInOrder /\ Gone /\ RootReported
  BY DEF CalmInv, Gone
<1>2. StacksInOrder'
  BY <1>1, NotificationsInOrder, EndsInOrder
<1>3. Gone'
  BY <1>1, NotificationsKeepGone
<1>4. RootReported'
  <2>1. CASE Callback(th, a)
    <3>1. a = Root
      <4>1. At(th, "callback", a) /\ Parent(a) = None
        BY <2>1 DEF Callback, CallbackThen
      <4>2. a \in {Root} \union Children
        BY <4>1, AtWork
      <4> QED BY <4>1, <4>2, AsyncAssumption DEF Parent, Asyncs
    <3> QED BY <1>1, <2>1, <3>1, RootCallbackReports
  <2>2. CASE Notify(th, a) \/ AsyncNotify(th, a)
    BY <1>1, <2>2, RootNotifyReports, RootAsyncNotifyReports, ChildNotificationsReport
  <2> QED BY <2>1, <2>2
<1> QED BY <1>2, <1>3, <1>4 DEF CalmInv, Gone

LEMMA CancelsKeepCalm ==
  ASSUME WorkInv, CalmInv, Calm', NEW th \in Threads, NEW a \in Asyncs,
         AsyncCancel(th, a) \/ Cancel(th, a)
  PROVE  CalmInv'
<1>1. StacksInOrder /\ Gone /\ RootReported
  BY DEF CalmInv, Gone
<1>2. /\ Cancel(th, a) /\ a # Root /\ (CancelCall(th, a) \/ CancelDirectly(th, a))
      /\ StacksInOrder'
  BY <1>1, CancelsInOrder
<1>3. Gone'
  BY <1>1, <1>2, CancelKeepsGone
<1>4. RootReported'
  BY <1>1, <1>2, ChildNotificationsReport
<1> QED BY <1>2, <1>3, <1>4 DEF CalmInv, Gone

LEMMA SocketCallsKeepCalm ==
  ASSUME WorkInv, CalmInv, Calm, NEW th \in Threads, NEW a \in Asyncs,
         \/ Receive(th, a) \/ Send(th, a) \/ SendEnter(th, a) \/ Recv(th, a) \/ SubmitSend(th, a)
  PROVE  CalmInv'
<1>1. StacksInOrder /\ Gone /\ RootReported
  BY DEF CalmInv, Gone
<1>2. a # Root
  <2>1. PICK op \in {"receive", "send", "send_enter", "recv", "submit"} : At(th, op, a)
    BY DEF Receive, Send, SendEnter, Recv, SubmitSend
  <2>2. StreamFrame(Head(stack[th])) /\ Head(stack[th]).op = op /\ Head(stack[th]).async = a
    BY <2>1, AtWork
  <2> QED BY <2>2, AsyncAssumption DEF StreamFrame
<1>3. StacksInOrder'
  BY <1>1, SocketCallsInOrder
<1>4. Gone'
  BY <1>1, SocketCallsKeepGone
<1>5. RootReported'
  BY <1>1, <1>2, ChildSocketCallsReport
<1> QED BY <1>3, <1>4, <1>5 DEF CalmInv, Gone

LEMMA StreamCallsKeepCalm ==
  ASSUME WorkInv, CalmInv, Calm, Ops \subseteq {"ssl_receive", "ssl_send"}, NEW th \in Threads,
         \/ \E a \in Asyncs : Start(th, a)
         \/ SslReceive(th) \/ SslSend(th)
         \/ \E c \in Children : ChildCallback(th, c)
  PROVE  CalmInv'
<1>1. StacksInOrder /\ Gone /\ RootReported
  BY DEF CalmInv, Gone
<1>2. StacksInOrder' /\ Gone' /\ RootReported'
  BY <1>1, StreamCallsInOrder, StreamCallsKeepGone, StreamCallsReport
<1> QED BY <1>2 DEF CalmInv, Gone

LEMMA BeginningsKeepCalm ==
  ASSUME WorkInv, CalmInv, NEW a \in Asyncs,
         TimeoutFires(a) \/ \E th \in Workers : Dequeue(th, a)
  PROVE  CalmInv'
<1>1. StacksInOrder /\ Gone /\ RootReported
  BY DEF CalmInv, Gone
<1>2. StacksInOrder' /\ Gone' /\ RootReported'
  BY <1>1, BeginningsInOrder, TimeoutKeepsGone, DequeueKeepsGone, TimeoutReports, DequeueReports
<1> QED BY <1>2 DEF CalmInv, Gone

LEMMA NothingKeepsCalm ==
  ASSUME WorkInv, CalmInv, UNCHANGED <<stack, life, ref, canceled, called, timer>>
  PROVE  CalmInv'
<1>1. StacksInOrder /\ Gone /\ RootReported
  BY DEF CalmInv, Gone
<1>2. \A ops, b : Frames(ops, b)' = Frames(ops, b)
  BY DEF Frames
<1>3. StacksInOrder' /\ Gone' /\ RootReported'
  BY <1>1, <1>2, SameStacksInOrder, SameGone, SameReports
<1> QED BY <1>3 DEF CalmInv, Gone

LEMMA ExecuteKeepsCalm ==
  ASSUME WorkInv, CalmInv, Calm, Calm', Ops \subseteq {"ssl_receive", "ssl_send"},
         NEW th \in Threads, NEW a \in Asyncs, Execute(th, a)
  PROVE  CalmInv'
<1>1. ~(Disconnect(th, a) \/ Accept(th, a) \/ DisconnectEx(th, a) \/ AcceptEx(th, a))
  <2> SUFFICES ASSUME NEW op \in {"disconnect", "accept", "disconnectex", "acceptex"},
                      At(th, op, a)
               PROVE  FALSE
    BY DEF Disconnect, Accept, DisconnectEx, AcceptEx
  <2>1. StreamFrame(Head(stack[th])) /\ Head(stack[th]).op = op
    BY AtWork
  <2> QED BY <2>1 DEF StreamFrame
<1> QED BY <1>1, LifeKeepsCalm, NotificationsKeepCalm, CancelsKeepCalm, SocketCallsKeepCalm,
           StreamCallsKeepCalm DEF Execute

\* A cancellation is not taken back.
LEMMA ExecuteStaysCancelled ==
  ASSUME WorkInv, NEW th \in Threads, NEW a \in Asyncs, Execute(th, a)
  PROVE  /\ asked' = asked /\ \A b \in Asyncs : canceled[b] => canceled'[b]
         /\ stale = {} /\ stale' = {}
<1>1. CASE \/ New(th, a) \/ AddTimerRef(th, a) \/ Schedule(th, a)
           \/ Release(th, a) \/ Destroy(th, a) \/ Unlock(th, a)
  BY <1>1 DEF New, AddTimerRef, Schedule, Release, Destroy, Unlock, At, rest
<1>2. CASE \/ Start(th, a) \/ Receive(th, a) \/ Send(th, a) \/ SendEnter(th, a)
           \/ Disconnect(th, a) \/ Accept(th, a)
  BY <1>2 DEF Start, Receive, Send, SendEnter, Disconnect, Accept, At, rest, operation
<1>3. CASE \/ Recv(th, a) \/ SubmitSend(th, a) \/ DisconnectEx(th, a) \/ AcceptEx(th, a)
  BY <1>3 DEF Recv, SubmitSend, DisconnectEx, AcceptEx, At, rest, operation
<1>4. CASE Notify(th, a) \/ AsyncNotify(th, a) \/ Callback(th, a) \/ AsyncCancel(th, a)
  BY <1>4 DEF Notify, AsyncNotify, Callback, CallbackThen, AsyncCancel, At, rest, operation
<1>5. CASE Cancel(th, a)
  BY <1>5 DEF Cancel, At, WorkInv, StreamInv, StreamTypes
<1> QED BY <1>1, <1>2, <1>3, <1>4, <1>5 DEF Execute

\* What a step does that uses nothing too late.
Onwards ==
  /\ asked \subseteq asked' /\ \A b \in Asyncs : canceled[b] => canceled'[b]
  /\ stale = {} /\ stale' = {}

LEMMA StepsOnwards ==
  ASSUME WorkInv, StreamNext, ~\E th \in Threads : UseAfterFree(th)
  PROVE  Onwards
<1>1. ASSUME NEW th \in Threads, StreamStep(th)
      PROVE  Onwards
  <2>1. CASE \E a \in Asyncs : Execute(th, a)
    BY <2>1, ExecuteStaysCancelled DEF Onwards
  <2>2. CASE SslReceive(th) \/ SslSend(th)
    BY <2>2 DEF SslReceive, SslSend, StreamUnchanged, operation, rest, At, Onwards
  <2>3. CASE \E c \in Children : ChildCallback(th, c)
    BY <2>3 DEF ChildCallback, ChildFails, Received, Sent, CallbackThen, operation, At, Onwards
  <2> QED BY <1>1, <2>1, <2>2, <2>3 DEF StreamStep, Step
<1>2. ASSUME NEW a \in Asyncs, IoEnds(a) \/ TimeoutFires(a) \/ \E th \in Workers : Dequeue(th, a)
      PROVE  Onwards
  BY <1>2 DEF IoEnds, TimeoutFires, Dequeue, operation, rest, Onwards
<1>3. ASSUME NEW th \in Cancellers, Ask(th)
      PROVE  Onwards
  BY <1>3 DEF Ask, operation, Onwards
<1> QED BY <1>1, <1>2, <1>3 DEF StreamNext

LEMMA LateNextPreserves ==
  ASSUME WorkInv, LateInv, Ops \subseteq {"ssl_receive", "ssl_send"}, [StreamNext]_vars
  PROVE  LateInv'
<1> SUFFICES ASSUME Calm'
             PROVE  CalmInv'
  BY DEF LateInv
<1>1. CASE UNCHANGED vars \/ \E th \in Threads : UseAfterFree(th)
  <2>1. UNCHANGED <<stack, life, ref, canceled, called, timer, asked>>
    BY <1>1 DEF vars, UseAfterFree, operation
  <2>2. CalmInv
    BY <2>1 DEF LateInv, Calm
  <2> QED BY <2>1, <2>2, NothingKeepsCalm
<1>2. CASE StreamNext /\ ~\E th \in Threads : UseAfterFree(th)
  <2>1. Onwards /\ Root \in Asyncs
    BY <1>2, StepsOnwards DEF Asyncs
  <2>2. Calm /\ CalmInv
    BY <2>1 DEF LateInv, Calm, Onwards
  <2>3. ASSUME NEW th \in Threads, StreamStep(th)
        PROVE  CalmInv'
    <3>1. \/ \E a \in Asyncs : Execute(th, a)
          \/ SslReceive(th) \/ SslSend(th)
          \/ \E c \in Children : ChildCallback(th, c)
      BY <1>2, <2>3 DEF StreamStep, Step
    <3> QED BY <2>2, <3>1, ExecuteKeepsCalm, StreamCallsKeepCalm
  <2>4. ASSUME NEW a \in Asyncs, IoEnds(a)
        PROVE  CalmInv'
    BY <2>2, <2>4, NothingKeepsCalm DEF IoEnds, operation
  <2>5. ASSUME NEW th \in Cancellers, Ask(th)
        PROVE  CalmInv'
    BY <2>5 DEF Ask, Calm
  <2> QED BY <1>2, <2>2, <2>3, <2>4, <2>5, BeginningsKeepCalm DEF StreamNext
<1> QED BY <1>1, <1>2

LEMMA LateBeginsWell ==
  ASSUME Init
  PROVE  LateInv
<1>1. /\ WorkInv /\ stack \in Stacks
      /\ \A ops : Frames(ops, Root) = One("start" \in ops) + One("new" \in ops)
      /\ \A b \in Asyncs \ {Root} : \A ops : Frames(ops, b) = 0
  BY FirstFrames, WorkBeginsWell
<1> DEFINE f == Frame("new", Root)
           g == Frame("start", Root)
<1>2. /\ f \in FrameType /\ f.op = "new" /\ f.async = Root
      /\ g \in FrameType /\ g.op = "start" /\ g.async = Root
  BY NewFrames DEF Operations, Asyncs
<1>3. \A th \in Threads : stack[th] = IF th = Issuer THEN <<f, g>> ELSE << >>
  BY DEF Init
<1> HIDE DEF f, g
<1> DEFINE s == <<f, g>>
<1>4. /\ s[1] = f /\ s[2] = g /\ DOMAIN s = {1, 2} /\ Len(s) = 2
      /\ \A th \in Threads : stack[th] = IF th = Issuer THEN s ELSE << >>
  BY <1>3
<1> HIDE DEF s
<1>5. /\ Root \in Asyncs /\ life = [a \in Asyncs |-> "none"] /\ called = [a \in Asyncs |-> FALSE]
      /\ timer = [a \in Asyncs |-> "idle"]
  BY DEF Asyncs, Init, NoneYet
<1>6. StacksInOrder
  <2>1. InOrder(s)
    BY <1>2, <1>4 DEF InOrder, Rule, Same, Timing, Waiting
  <2>2. InOrder(<< >>)
    BY DEF InOrder
  <2> QED BY <1>4, <2>1, <2>2 DEF StacksInOrder
<1>7. \A a \in Asyncs : GoneAtLast(a)
  <2>1. \A a \in Asyncs : Frames({"destroy"}, a) = 0 /\ life[a] = "none"
    BY <1>1, <1>5 DEF One
  <2> QED BY <2>1 DEF GoneAtLast, One
<1>8. RootReported
  <2>1. RootPart(s)
    <3>1. \A k \in DOMAIN s : s[k].async = Root <=> k <= 2
      BY <1>2, <1>4
    <3>2. Firsts(s, 2)
      BY <1>4, <3>1, FirstsAre
    <3>3. Shape(s, 2)
      BY <1>2, <1>4 DEF Shape
    <3> QED BY <3>2, <3>3, RootPartIs
  <2>2. RootPart(<< >>)
    <3>1. Firsts(<< >>, 0) /\ Shape(<< >>, 0)
      BY DEF Firsts, Shape
    <3> QED BY <3>1, RootPartIs
  <2>3. \A th, t \in Threads : Reporter(th) /\ Reporter(t) => th = t
    BY <1>4 DEF Reporter
  <2>4. ~called[Root] /\ timer[Root] # "armed" /\ life[Root] # "live"
    BY <1>5
  <2> QED BY <1>4, <2>1, <2>2, <2>3, <2>4 DEF RootReported
<1> QED BY <1>6, <1>7, <1>8 DEF LateInv, CalmInv

-----------------------------------------------------------------------------
(* Whose operation is not there *)

\* A second notification of Root on top is that of a success.
LEMMA SecondNotification ==
  ASSUME NEW s, NEW n \in 1..3, Shape(s, n), s[1].op = "notify", called[Root]
  PROVE  Again(s[1])
<1>1. Again(s[n]) /\ Reported(s, n - 1)
  BY DEF Shape, Reported, Opens, Timing
<1>2. n = 1
  BY <1>1 DEF Reported
<1> QED BY <1>1, <1>2

\* What the thread that uses an operation too late is about to do.
LEMMA TooLate ==
  ASSUME WorkInv, CalmInv, Calm, NEW th \in Threads, stack[th] # << >>,
         NEW a, a = Head(stack[th]).async, ~canceled[a], life[a] # "live",
         Head(stack[th]).op # "new"
  PROVE  Head(stack[th]) = Success("notify", Root)
<1> DEFINE f == Head(stack[th])
<1>1. /\ stack \in Stacks /\ Finite(stack) /\ \A ops, b : Frames(ops, b) \in Nat
      /\ stack[th] \in Seq(FrameType) /\ f \in FrameType /\ f = stack[th][1]
      /\ 1 \in DOMAIN stack[th] /\ DOMAIN stack[th] = 1..Len(stack[th]) /\ Len(stack[th]) \in Nat
  BY FramesType DEF WorkInv, StreamInv, StreamTypes, LifeTypes, Stacks
<1>2. StreamFrame(f) /\ f.async = a /\ a \in {Root} \union Children /\ a \in Asyncs
      /\ f.op \in Operations /\ Root \in Asyncs
  <2>1. StreamFrame(f)
    BY <1>1 DEF WorkInv, WellFormed
  <2> QED BY <1>1, <2>1 DEF StreamFrame, FrameType, Asyncs
<1>3. StacksInOrder /\ GoneAtLast(a) /\ RootReported /\ LifeInv(a) /\ Rule(stack[th], 1)
  BY <1>1, <1>2 DEF CalmInv, StacksInOrder, InOrder, WorkInv
<1>4. \A ops : f.op \in ops => Frames(ops, a) >= 1
  <2>1. \A ops : f.op \in ops => Frames(ops, a) # 0
    BY <1>1, <1>2, NoFrames DEF IsOf
  <2> QED BY <1>1, <2>1
<1>5. life[a] \in {"none", "live", "freed"} /\ called[a] \in BOOLEAN
  BY <1>2 DEF WorkInv, LifeTypes
<1>6. life[a] # "none"
  <2> SUFFICES ASSUME life[a] = "none"
               PROVE  FALSE
    OBVIOUS
  <2>1. f.op \notin Waiting
    BY <1>1, <1>2, <1>3 DEF Rule, Same
  <2>2. f.op \in Later
    BY <1>2, <2>1 DEF Later
  <2>3. Frames(Later, a) >= 1
    BY <1>4, <2>2
  <2> QED BY <1>3, <2>3 DEF LifeInv, NothingBefore
<1>7. /\ life[a] = "freed" /\ called[a] /\ Frames({"callback"}, a) = 0
      /\ Frames(Holding, a) = 0 /\ Frames({"destroy"}, a) = 0
  <2>1. life[a] = "freed"
    BY <1>5, <1>6
  <2>2. called[a] /\ Frames({"callback"}, a) = 0
    BY <1>3, <2>1 DEF LifeInv, FreedLast
  <2>3. Frames(Holding, a) = 0 /\ Frames({"destroy"}, a) + 1 <= 1
    BY <1>3, <2>1 DEF GoneAtLast, One
  <2>4. Frames({"destroy"}, a) \in Nat
    BY <1>1
  <2>5. Frames({"destroy"}, a) = 0
    BY <2>3, <2>4
  <2> QED BY <2>1, <2>2, <2>3, <2>5
<1>8. f.op \notin Holding \union {"callback", "destroy", "cancel"}
  <2>1. f.op \notin Holding /\ f.op # "callback" /\ f.op # "destroy"
    <3>1. /\ f.op \in Holding => Frames(Holding, a) >= 1
          /\ f.op = "callback" => Frames({"callback"}, a) >= 1
          /\ f.op = "destroy" => Frames({"destroy"}, a) >= 1
      BY <1>4
    <3> QED BY <1>7, <3>1
  <2> QED BY <1>1, <1>3, <2>1 DEF Rule
<1>9. f.op \notin {"unlock", "_cancel"}
  <2> SUFFICES ASSUME f.op \in {"unlock", "_cancel"}
               PROVE  FALSE
    OBVIOUS
  <2>1. 2 \in DOMAIN stack[th] /\ stack[th][2].op = "release" /\ stack[th][2].async = a
    BY <1>1, <1>2, <1>3 DEF Rule, Same
  <2>2. Frames(Holding, a) >= 1
    BY <2>1, NextFrame DEF Holding
  <2> QED BY <1>7, <2>2
<1>10. \A c \in Children : c = a => Frames(Carrying, c) = 0
  <2>1. SUFFICES ASSUME a \in Children
                 PROVE  Frames(Carrying, a) = 0
    OBVIOUS
  <2>2. Frames(Carrying, a) + One(io[a] \in {"pending", "queued"}) + One(called[a]) <= 1
    BY <2>1 DEF WorkInv, ChildInv, EndsByItself
  <2>3. Frames(Carrying, a) \in Nat
    BY <1>1
  <2> QED BY <1>7, <2>2, <2>3 DEF One
<1>11. a = Root => Frames(Opens, Root) = 0
  <2> SUFFICES ASSUME a = Root, Frames(Opens, Root) # 0
               PROVE  FALSE
    OBVIOUS
  <2>1. Frames(Opens, Root) \in Nat
    BY <1>1
  <2>2. Frames(Opens, Root) >= 1
    BY <2>1
  <2> QED BY <1>7, <2>2, NotReportedYet
<1>12. f.op # "add_timer_ref"
  <2> SUFFICES ASSUME f.op = "add_timer_ref"
               PROVE  FALSE
    OBVIOUS
  <2>1. 2 \in DOMAIN stack[th] /\ stack[th][2].op \in Waiting /\ stack[th][2].async = a
    BY <1>1, <1>2, <1>3 DEF Rule, Same, Timing
  <2>2. StreamFrame(stack[th][2])
    BY <2>1 DEF WorkInv, WellFormed
  <2>3. CASE a = Root
    <3>1. stack[th][2].op \in Opens
      BY <2>1, <2>2, <2>3, AsyncAssumption DEF StreamFrame, Waiting, Opens
    <3>2. Frames(Opens, Root) >= 1
      BY <2>1, <2>3, <3>1, NextFrame
    <3> QED BY <1>11, <2>3, <3>2
  <2>4. CASE a \in Children
    <3>1. stack[th][2].op \in Carrying
      BY <2>1, <2>2, <2>4, AsyncAssumption DEF StreamFrame, Waiting, Carrying
    <3>2. Frames(Carrying, a) >= 1
      BY <2>1, <3>1, NextFrame
    <3> QED BY <1>10, <2>4, <3>2
  <2> QED BY <1>2, <2>3, <2>4
<1>13. a = Root
  <2> SUFFICES ASSUME a \in Children
               PROVE  FALSE
    BY <1>2
  <2>1. f.op \in Carrying
    BY <1>2, <1>8, <1>9, <1>12, AsyncAssumption DEF StreamFrame, Carrying, Holding
  <2> QED BY <1>4, <1>10, <2>1
<1>14. f.op \in {"notify", "async_notify"}
  <2>1. f.op \notin Opens
    BY <1>4, <1>11, <1>13
  <2> QED BY <1>2, <1>8, <1>9, <1>12, <1>13, <2>1, AsyncAssumption DEF StreamFrame, Opens, Holding
<1>15. PICK n \in 1..3 : Shape(stack[th], n)
  <2>1. PICK n : Firsts(stack[th], n) /\ Shape(stack[th], n)
    BY <1>3, RootPartIs DEF RootReported
  <2>2. n \in 0..3 /\ 1 <= n
    BY <1>1, <1>2, <1>13, <2>1 DEF Firsts
  <2>3. n \in 1..3
    BY <2>2
  <2> QED BY <2>1, <2>3
<1>16. f.op # "async_notify"
  <2> SUFFICES ASSUME f.op = "async_notify"
               PROVE  FALSE
    OBVIOUS
  <2>1. Frames({"_cancel"}, Root) > 0
    BY <1>1, <1>7, <1>13, <1>15 DEF Shape, Reported, Again, Opens, Timing
  <2>2. PICK t \in Threads : \E k \in DOMAIN stack[t] : IsOf(stack[t][k], {"_cancel"}, Root)
    BY <1>1, <2>1, NoFrames
  <2>3. PICK k \in DOMAIN stack[t] : IsOf(stack[t][k], {"_cancel"}, Root)
    BY <2>2
  <2>4. Rule(stack[t], k) /\ stack[t][k].op = "_cancel" /\ stack[t][k].async = Root
    BY <1>3, <2>3 DEF StacksInOrder, InOrder, IsOf
  <2>5. k + 1 \in DOMAIN stack[t] /\ IsOf(stack[t][k + 1], Holding, Root)
    BY <1>13, <2>4 DEF Rule, Same, IsOf, Holding
  <2>6. Frames(Holding, Root) # 0
    BY <1>1, <2>5, NoFrames
  <2> QED BY <1>7, <1>13, <2>6
<1>17. f.op = "notify" /\ f.ok
  <2>1. f.op = "notify"
    BY <1>14, <1>16
  <2>2. Again(stack[th][1])
    BY <1>1, <1>7, <1>13, <1>15, <2>1, SecondNotification
  <2> QED BY <1>1, <2>1, <2>2 DEF Again
<1>18. /\ f \in FrameType /\ Success("notify", Root) \in FrameType
       /\ Success("notify", Root).op = "notify" /\ Success("notify", Root).async = Root
       /\ Success("notify", Root).ok
  BY <1>1, <1>2 DEF Success, Frame, FrameType, Operations
<1> HIDE DEF f
<1> DEFINE y == Success("notify", Root)
<1> HIDE DEF y
<1>19. y \in FrameType /\ y.op = f.op /\ y.async = f.async /\ y.ok = f.ok
  BY <1>2, <1>13, <1>17, <1>18 DEF y, FrameType
<1>20. f = y
  BY <1>18, <1>19 DEF FrameType
<1> QED BY <1>20 DEF f, y

\* Who creates a child has the user's operation.
LEMMA ParentIsThere ==
  ASSUME WorkInv, Calm, NEW th \in Threads, stack[th] # << >>, Head(stack[th]).op = "new",
         Head(stack[th]).async \in Children
  PROVE  life[Root] = "live"
<1> DEFINE c == Head(stack[th]).async
<1>1. /\ stack \in Stacks /\ Finite(stack) /\ \A ops, b : Frames(ops, b) \in Nat
      /\ Head(stack[th]) = stack[th][1] /\ 1 \in DOMAIN stack[th]
  BY FramesType DEF WorkInv, StreamInv, StreamTypes, LifeTypes, Stacks
<1>2. Frames({"new"}, c) # 0 /\ Frames({"new", "callback"}, c) # 0
  BY <1>1, NoFrames DEF IsOf
<1>3. Frames({"new"}, c) > 0 /\ Owing(c) >= 1
  BY <1>1, <1>2 DEF Owing, One
<1>4. life[Root] # "none"
  BY <1>3 DEF WorkInv, ChildInv, BornInside
<1>5. ~called[Root]
  BY <1>3, NotReportedYet DEF Calm
<1>6. life[Root] # "freed" /\ Root \in Asyncs
  BY <1>5 DEF WorkInv, LifeInv, FreedLast, Asyncs
<1> QED BY <1>4, <1>6 DEF WorkInv, LifeTypes

LEMMA LateUseIsKnown ==
  ASSUME WorkInv, LateInv, NEW th \in Threads, UseAfterFree(th)
  PROVE  LateUsesOfParent'
<1> DEFINE f == Head(stack[th])
<1>1. /\ stack[th] # << >> /\ stale' = {[thread |-> th, frame |-> f]}
      /\ UNCHANGED <<asked, canceled>>
  BY DEF UseAfterFree, operation
<1>2. PICK u \in Uses(f) : life[u] # "live"
  BY DEF UseAfterFree
<1>3. SUFFICES ASSUME asked = {}, ~canceled[Root], ~canceled[f.async],
                      ~(f.op = "destroy" /\ f.async \in Children)
               PROVE  f = Success("notify", Root)
  BY <1>1 DEF LateUsesOfParent
<1>4. Calm /\ CalmInv
  BY <1>3 DEF Calm, LateInv
<1>5. f \in FrameType /\ f.async \in {Root} \union Children
  <2>1. stack[th] \in Seq(FrameType) /\ f \in FrameType /\ 1 \in DOMAIN stack[th]
        /\ f = stack[th][1]
    BY <1>1 DEF WorkInv, StreamInv, StreamTypes, Stacks
  <2> QED BY <2>1 DEF WorkInv, WellFormed, StreamFrame
<1>6. f.op # "new"
  <2> SUFFICES ASSUME f.op = "new"
               PROVE  FALSE
    OBVIOUS
  <2>1. u \in {Parent(f.async)} \ {None}
    BY <1>2 DEF Uses
  <2>2. f.async \in Children /\ u = Root
    BY <2>1 DEF Parent
  <2> QED BY <1>1, <1>2, <1>4, <2>2, ParentIsThere
<1>7. u = f.async
  <2>1. CASE f.op = "destroy"
    <3>1. f.async = Root
      BY <1>3, <1>5, <2>1
    <3>2. Parent(f.async) = None
      BY <3>1, AsyncAssumption DEF Parent
    <3> QED BY <1>2, <2>1, <3>2 DEF Uses
  <2>2. CASE f.op # "destroy"
    BY <1>2, <1>6, <2>2 DEF Uses
  <2> QED BY <2>1, <2>2
<1> QED BY <1>1, <1>2, <1>3, <1>4, <1>6, <1>7, TooLate

\* Without a cancellation a stream uses freed memory in two places only: the child
\* that is freed last writes to its parent, and the callback of a receive notifies the
\* user's operation a second time.
THEOREM LateUsesAreKnown ==
  ASSUME Ops \subseteq {"ssl_receive", "ssl_send"}
  PROVE  StreamSafeSpec => []LateUsesOfParent
<1>1. Init => LateInv /\ LateUsesOfParent
  BY LateBeginsWell DEF LateUsesOfParent, Init, NoneYet
<1>2. WorkInv /\ LateInv /\ [StreamNext]_vars => LateInv'
  BY LateNextPreserves
<1>3. ASSUME WorkInv, LateInv, LateUsesOfParent, [StreamNext]_vars
      PROVE  LateUsesOfParent'
  <2>1. CASE \E th \in Threads : UseAfterFree(th)
    BY <1>3, <2>1, LateUseIsKnown
  <2>2. CASE StreamNext /\ ~\E th \in Threads : UseAfterFree(th)
    BY <1>3, <2>2, StepsOnwards DEF Onwards, LateUsesOfParent
  <2>3. CASE UNCHANGED vars
    BY <1>3, <2>3 DEF vars, operation, LateUsesOfParent
  <2> QED BY <1>3, <2>1, <2>2, <2>3
<1>4. LateInv /\ LateUsesOfParent /\ WorkInv /\ WorkInv' /\ [StreamNext]_vars
        => LateInv' /\ LateUsesOfParent'
  BY <1>2, <1>3
<1> QED BY <1>1, <1>4, WorkInvariant, PTL DEF StreamSafeSpec
===============================================================================
