--------------------------- MODULE HandshakeProofs ----------------------------
(***************************************************************************)
(* Proofs about module Handshake.  Whatever moves the handshake on is one  *)
(* thing that travels: the frame of the thread that starts it, a phase     *)
(* about to run, a call about to start, a call with the kernel, its        *)
(* packet, a notification that the call succeeded.  There is never more    *)
(* than one of these, though many threads may notify m of failures         *)
(* (OneToken), and none once the object is made.                           *)
(***************************************************************************)
EXTENDS Handshake, AsyncProofs

-----------------------------------------------------------------------------
(* The invariant of the handshake *)

\* The next phase is about to run.
OkRun == {f \in FrameType : f.op \in {"run", "notify", "async_notify"} /\ f.async = m /\ f.ok}

\* A phase has made its call, which is about to start.
AboutToCall ==
  {f \in FrameType :
     /\ f.op \in {"connect_base", "start_base", "send", "send_enter", "submit", "receive", "recv"}
     /\ f.async = m}

\* The handshake has not begun.
Starters == {f \in FrameType : f.op \in {"start", "ssl_connect"} /\ f.async = Root}

\* A thread is about to write the number of the next phase.
Setting(set) == {f \in FrameType : f.op = set}

\* The user is about to hear of success, or of failure.
Successes == {f \in FrameType : f.op \in {"notify", "async_notify", "callback"} /\ f.async = Root /\ f.ok}

Failures == {f \in FrameType : f.op \in {"notify", "async_notify", "callback"} /\ f.async = Root /\ ~f.ok}

Busy == io[m] \in {"pending", "queued"}

Overwritten == overtaken \cap DOMAIN NextAfter # {}

HandshakeTypes ==
  /\ stack \in Stacks /\ Finite(stack)
  /\ canceled \in [Asyncs -> BOOLEAN]
  /\ child \in [Asyncs -> Asyncs \union {None}]
  /\ io \in [Asyncs -> {"none", "pending", "queued", "done"}]

OneToken ==
  Count(OkRun) + Count(AboutToCall) + Count(Starters) + One(Busy) <= IF product THEN 0 ELSE 1

\* A thread that runs a phase, or begins, has nothing else to do.
Bottom ==
  \A th \in Threads : \A k \in DOMAIN stack[th] :
    stack[th][k] \in OkRun \union Starters => k = Len(stack[th])

\* The number of the phase that is due is written, or a thread is about to write it.
DueIsWritten ==
  product \/ next = due \/ Overwritten \/ \E set \in DOMAIN NextAfter : Count(Setting(set)) > 0

\* Who is about to write writes the phase that is due.
SettersAreRight ==
  Overwritten \/ \A set \in DOMAIN NextAfter : Count(Setting(set)) > 0 => NextAfter[set] = due

\* The end of the procedure.
ContextAsDue ==
  /\ next = XF_ASYNC_PHASE_EXIT => product
  /\ product => context = "freed"
  /\ Count(Starters) > 0 => context = "none"

SuccessIsReported == Count(Successes) > 0 => product

\* A failure is reported if no object is made and none can be, or if somebody has
\* interfered.
FailureIsReported ==
  Count(Failures) > 0 =>
    Interrupted \/ (~product /\ context # "live" /\ Count(Starters) = 0)

HandshakeInv ==
  /\ HandshakeTypes /\ CancellersRest
  /\ OneToken /\ Bottom
  /\ DueIsWritten /\ SettersAreRight
  /\ ContextAsDue /\ SuccessIsReported /\ FailureIsReported

-----------------------------------------------------------------------------
(* Steps of the handshake *)

\* m is nested in the user's operation.
LEMMA MIsAChild == m \in Children /\ m \in Asyncs /\ m # Root /\ Root \in Asyncs
BY HandshakeAssumption, AsyncAssumption DEF m, Asyncs

LEMMA CountsAreNumbers ==
  ASSUME HandshakeTypes
  PROVE  /\ Count(OkRun) \in Nat /\ Count(AboutToCall) \in Nat /\ Count(Starters) \in Nat
         /\ Count(Successes) \in Nat /\ Count(Failures) \in Nat
         /\ \A set : Count(Setting(set)) \in Nat
BY CountType DEF HandshakeTypes

\* Of all frames of a step only one matters: h is executed and becomes l.
Turns(h, l) ==
  /\ Count(OkRun)' = Count(OkRun) - One(h \in OkRun) + One(l \in OkRun)
  /\ Count(AboutToCall)' = Count(AboutToCall) - One(h \in AboutToCall) + One(l \in AboutToCall)
  /\ Count(Starters)' = Count(Starters) - One(h \in Starters) + One(l \in Starters)
  /\ Count(Successes)' =
       Count(Successes) - One(h \in Successes) + One(l \in Successes)
  /\ Count(Failures)' =
       Count(Failures) - One(h \in Failures) + One(l \in Failures)
  /\ \A set \in DOMAIN NextAfter :
       Count(Setting(set))' = Count(Setting(set)) - One(h \in Setting(set)) + One(l \in Setting(set))

\* A frame that does not matter.
Aside(f) ==
  /\ f \notin OkRun /\ f \notin AboutToCall /\ f \notin Starters
  /\ f \notin Successes /\ f \notin Failures
  /\ \A set \in DOMAIN NextAfter : f \notin Setting(set)

\* What h may become with no change of the handshake's own variables.
Becomes(h, l) ==
  /\ \A set \in DOMAIN NextAfter : h \notin Setting(set) /\ l \notin Setting(set)
  /\ One(l \in OkRun) + One(l \in AboutToCall) + One(l \in Starters) + One(Busy)'
       <= One(h \in OkRun) + One(h \in AboutToCall) + One(h \in Starters) + One(Busy)
  /\ l \in Starters => h \in Starters
  /\ l \in Successes => h \in Successes \/ product
  /\ l \in Failures => h \in Failures \/ Interrupted'

LEMMA TurnKeepsHandshake ==
  ASSUME HandshakeInv, HandshakeTypes', CancellersRest', Bottom', NEW h, NEW l,
         Turns(h, l), Becomes(h, l), Count(Successes) >= One(h \in Successes),
         Count(Failures) >= One(h \in Failures),
         Count(Starters) >= One(h \in Starters),
         Interrupted => Interrupted', UNCHANGED handshake
  PROVE  HandshakeInv'
<1> USE DEF handshake
<1>1. /\ Count(OkRun) \in Nat /\ Count(AboutToCall) \in Nat /\ Count(Starters) \in Nat
      /\ Count(Successes) \in Nat /\ Count(Failures) \in Nat
      /\ \A set : Count(Setting(set)) \in Nat
  BY CountsAreNumbers DEF HandshakeInv
<1>2. OneToken'
  <2>1. One(Busy) \in 0..1 /\ One(Busy)' \in 0..1
    BY DEF One
  <2>2. /\ One(h \in OkRun) \in 0..1 /\ One(h \in AboutToCall) \in 0..1 /\ One(h \in Starters) \in 0..1
        /\ One(l \in OkRun) \in 0..1 /\ One(l \in AboutToCall) \in 0..1 /\ One(l \in Starters) \in 0..1
    BY DEF One
  <2>3. /\ Count(OkRun)' = Count(OkRun) - One(h \in OkRun) + One(l \in OkRun)
        /\ Count(AboutToCall)' = Count(AboutToCall) - One(h \in AboutToCall) + One(l \in AboutToCall)
        /\ Count(Starters)' = Count(Starters) - One(h \in Starters) + One(l \in Starters)
    BY DEF Turns
  <2>4. One(l \in OkRun) + One(l \in AboutToCall) + One(l \in Starters) + One(Busy)'
          <= One(h \in OkRun) + One(h \in AboutToCall) + One(h \in Starters) + One(Busy)
    BY DEF Becomes
  <2>5. Count(OkRun)' + Count(AboutToCall)' + Count(Starters)' + One(Busy)'
          <= Count(OkRun) + Count(AboutToCall) + Count(Starters) + One(Busy)
    BY ONLY <1>1, <2>1, <2>2, <2>3, <2>4
  <2>6. Count(OkRun)' \in Int /\ Count(AboutToCall)' \in Int /\ Count(Starters)' \in Int
    BY ONLY <1>1, <2>2, <2>3
  <2>7. OneToken /\ product' = product
    BY DEF HandshakeInv
  <2> QED BY ONLY <1>1, <2>1, <2>5, <2>6, <2>7 DEF OneToken
<1>3. \A set \in DOMAIN NextAfter : Count(Setting(set))' = Count(Setting(set))
  BY <1>1 DEF Turns, Becomes, One
<1>4. Overwritten' = Overwritten
  BY DEF Overwritten
<1>5. DueIsWritten'
  BY <1>3, <1>4 DEF HandshakeInv, DueIsWritten
<1>6. SettersAreRight'
  BY <1>3, <1>4 DEF HandshakeInv, SettersAreRight
<1>7. Count(Starters)' > 0 => Count(Starters) > 0
  BY <1>1 DEF Turns, Becomes, One
<1>8. ContextAsDue'
  BY <1>7 DEF HandshakeInv, ContextAsDue
<1>9. SuccessIsReported'
  <2>1. Count(Successes)' > 0 => Count(Successes) > 0 \/ product
    <3>1. Count(Successes)' =
            Count(Successes) - One(h \in Successes) + One(l \in Successes)
      BY DEF Turns
    <3>2. l \in Successes => h \in Successes \/ product
      BY DEF Becomes
    <3>3. Count(Successes) >= One(h \in Successes) /\ Count(Successes) \in Nat
      BY <1>1
    <3> QED BY ONLY <3>1, <3>2, <3>3 DEF One
  <2> QED BY <2>1 DEF HandshakeInv, SuccessIsReported
<1>10. FailureIsReported'
  <2>1. Count(Failures)' > 0 => Count(Failures) > 0 \/ Interrupted'
    <3>1. Count(Failures)' =
            Count(Failures) - One(h \in Failures) + One(l \in Failures)
      BY DEF Turns
    <3>2. l \in Failures => h \in Failures \/ Interrupted'
      BY DEF Becomes
    <3>3. Count(Failures) >= One(h \in Failures) /\ Count(Failures) \in Nat
      BY <1>1
    <3> QED BY ONLY <3>1, <3>2, <3>3 DEF One
  <2>2. Count(Starters) = 0 => Count(Starters)' = 0
    BY <1>1 DEF Turns, Becomes, One
  <2> QED BY <2>1, <2>2 DEF HandshakeInv, FailureIsReported
<1> QED BY <1>2, <1>5, <1>6, <1>8, <1>9, <1>10 DEF HandshakeInv

\* A thread that stands at the bottom of its stack may stay there.
LEMMA BottomAfter ==
  ASSUME HandshakeInv, NEW th \in Threads, stack[th] # << >>, NEW q \in Seq(FrameType),
         Call(th, q),
         \A k \in DOMAIN q : q[k] \in OkRun \union Starters =>
                               k = Len(q) /\ Head(stack[th]) \in OkRun \union Starters
  PROVE  Bottom'
<1> DEFINE B == OkRun \union Starters
<1>1. stack \in Stacks /\ Bottom
  BY DEF HandshakeInv, HandshakeTypes
<1>2. /\ stack[th] \in Seq(FrameType) /\ stack'[th] = q \o Tail(stack[th])
      /\ \A t \in Threads \ {th} : stack'[t] = stack[t]
  BY <1>1 DEF Call, Stacks
<1>3. \A k \in DOMAIN stack[th] : stack[th][k] \in B => k = Len(stack[th])
  BY <1>1 DEF Bottom
<1>4. ASSUME NEW k \in DOMAIN stack'[th], stack'[th][k] \in B
      PROVE  k = Len(stack'[th])
  <2> DEFINE s == stack[th]
             n == stack'[th]
  <2>1. /\ Len(n) = Len(q) + Len(s) - 1 /\ Len(q) \in Nat /\ Len(s) \in Nat /\ Len(s) >= 1
        /\ k \in 1..Len(n) /\ DOMAIN q = 1..Len(q) /\ DOMAIN s = 1..Len(s)
    BY <1>2
  <2>2. CASE k <= Len(q)
    <3>1. n[k] = q[k] /\ k \in DOMAIN q
      BY <1>2, <2>1, <2>2
    <3>2. k = Len(q) /\ Head(s) \in B
      BY <1>4, <3>1
    <3>3. s[1] \in B /\ 1 \in DOMAIN s
      BY <1>2, <2>1, <3>2
    <3>4. Len(s) = 1
      BY <1>3, <3>3
    <3> QED BY <2>1, <3>2, <3>4
  <2>3. CASE ~(k <= Len(q))
    <3>1. n[k] = s[k - Len(q) + 1] /\ k - Len(q) + 1 \in DOMAIN s
      BY <1>2, <2>1, <2>3
    <3>2. k - Len(q) + 1 = Len(s)
      BY <1>3, <1>4, <3>1
    <3> QED BY <2>1, <3>2
  <2> QED BY <2>2, <2>3
<1>5. ASSUME NEW t \in Threads, NEW k \in DOMAIN stack'[t], stack'[t][k] \in B
      PROVE  k = Len(stack'[t])
  <2>1. CASE t = th
    BY <1>4, <1>5, <2>1
  <2>2. CASE t # th
    BY <1>1, <1>2, <1>5, <2>2 DEF Bottom
  <2> QED BY <2>1, <2>2
<1> QED BY <1>5 DEF Bottom

\* What the calls of this section have in common.
Moved(th) ==
  /\ stack' \in Stacks /\ Finite(stack') /\ Bottom'
  /\ \A t \in Threads \ {th} : stack'[t] = stack[t]

\* A frame that may stand for none.
Silent == Frame("close", Root)

LEMMA SilentIsAside == Silent \in FrameType /\ Aside(Silent)
<1>1. Silent \in FrameType
  BY MIsAChild DEF Silent, Frame, FrameType, Operations, Outside
<1>2. Aside(Silent)
  BY DEF Silent, Frame, Aside, OkRun, AboutToCall, Starters, Successes, Failures, Setting, NextAfter
<1> QED BY <1>1, <1>2

LEMMA ThreadsStay ==
  ASSUME stack \in Stacks, NEW th \in Threads, NEW q, Call(th, q)
  PROVE  \A t \in Threads \ {th} : stack'[t] = stack[t]
BY DEF Call, Stacks

\* The step returns.
LEMMA Turn0 ==
  ASSUME HandshakeInv, NEW th \in Threads, stack[th] # << >>, Call(th, << >>)
  PROVE  Moved(th) /\ Turns(Head(stack[th]), Silent)
<1>1. stack \in Stacks /\ Finite(stack)
  BY DEF HandshakeInv, HandshakeTypes
<1>2. /\ stack' \in Stacks /\ Finite(stack')
      /\ \A F : Count(F)' = Count(F) - One(Head(stack[th]) \in F)
  BY <1>1, Counting0
<1>3. Bottom'
  <2>1. << >> \in Seq(FrameType) /\ DOMAIN << >> = {}
    OBVIOUS
  <2> QED BY <2>1, BottomAfter
<1>4. Turns(Head(stack[th]), Silent)
  <2>1. Aside(Silent)
    BY SilentIsAside
  <2>2. \A F : Count(F) \in Nat
    BY <1>1, CountType
  <2> QED BY <1>2, <2>1, <2>2 DEF Turns, Aside, One
<1> QED BY <1>1, <1>2, <1>3, <1>4, ThreadsStay DEF Moved

\* It goes on with one frame.
LEMMA Turn1 ==
  ASSUME HandshakeInv, NEW th \in Threads, stack[th] # << >>, NEW l \in FrameType,
         l \in OkRun \union Starters => Head(stack[th]) \in OkRun \union Starters,
         Call(th, <<l>>)
  PROVE  Moved(th) /\ Turns(Head(stack[th]), l)
<1>1. stack \in Stacks /\ Finite(stack)
  BY DEF HandshakeInv, HandshakeTypes
<1>2. /\ stack' \in Stacks /\ Finite(stack')
      /\ \A F : Count(F)' = Count(F) - One(Head(stack[th]) \in F) + One(l \in F)
  BY <1>1, Counting1
<1>3. Bottom'
  <2>1. <<l>> \in Seq(FrameType) /\ DOMAIN <<l>> = {1} /\ Len(<<l>>) = 1 /\ <<l>>[1] = l
    OBVIOUS
  <2> QED BY <2>1, BottomAfter
<1>4. Turns(Head(stack[th]), l)
  BY <1>2 DEF Turns
<1> QED BY <1>1, <1>2, <1>3, <1>4, ThreadsStay DEF Moved

\* With two, of which the second matters.
LEMMA Turn2 ==
  ASSUME HandshakeInv, NEW th \in Threads, stack[th] # << >>, NEW f \in FrameType,
         NEW l \in FrameType, Aside(f),
         l \in OkRun \union Starters => Head(stack[th]) \in OkRun \union Starters,
         Call(th, <<f, l>>)
  PROVE  Moved(th) /\ Turns(Head(stack[th]), l)
<1>1. stack \in Stacks /\ Finite(stack)
  BY DEF HandshakeInv, HandshakeTypes
<1>2. /\ stack' \in Stacks /\ Finite(stack')
      /\ \A F : Count(F)' = Count(F) - One(Head(stack[th]) \in F) + One(l \in F) + One(f \in F)
  BY <1>1, Counting2
<1>3. Bottom'
  <2>1. /\ <<f, l>> \in Seq(FrameType) /\ DOMAIN <<f, l>> = {1, 2} /\ Len(<<f, l>>) = 2
        /\ <<f, l>>[1] = f /\ <<f, l>>[2] = l
    OBVIOUS
  <2>2. f \notin OkRun \union Starters
    BY DEF Aside
  <2> QED BY <2>1, <2>2, BottomAfter
<1>4. Turns(Head(stack[th]), l)
  <2>1. \A F : f \notin F => Count(F)' = Count(F) - One(Head(stack[th]) \in F) + One(l \in F)
    <3>1. \A F : Count(F) \in Nat
      BY <1>1, CountType
    <3> QED BY <1>2, <3>1 DEF One
  <2> QED BY <2>1 DEF Turns, Aside
<1> QED BY <1>1, <1>2, <1>3, <1>4, ThreadsStay DEF Moved

\* With two, of which the first matters.
LEMMA Turn2First ==
  ASSUME HandshakeInv, NEW th \in Threads, stack[th] # << >>, NEW f \in FrameType,
         NEW l \in FrameType, Aside(f), l \notin OkRun \union Starters,
         Call(th, <<l, f>>)
  PROVE  Moved(th) /\ Turns(Head(stack[th]), l)
<1>1. stack \in Stacks /\ Finite(stack)
  BY DEF HandshakeInv, HandshakeTypes
<1>2. /\ stack' \in Stacks /\ Finite(stack')
      /\ \A F : Count(F)' = Count(F) - One(Head(stack[th]) \in F) + One(f \in F) + One(l \in F)
  BY <1>1, Counting2
<1>3. Bottom'
  <2>1. /\ <<l, f>> \in Seq(FrameType) /\ DOMAIN <<l, f>> = {1, 2} /\ Len(<<l, f>>) = 2
        /\ <<l, f>>[1] = l /\ <<l, f>>[2] = f
    OBVIOUS
  <2>2. f \notin OkRun \union Starters
    BY DEF Aside
  <2> QED BY <2>1, <2>2, BottomAfter
<1>4. Turns(Head(stack[th]), l)
  <2>1. \A F : f \notin F => Count(F)' = Count(F) - One(Head(stack[th]) \in F) + One(l \in F)
    <3>1. \A F : Count(F) \in Nat
      BY <1>1, CountType
    <3> QED BY <1>2, <3>1 DEF One
  <2> QED BY <2>1 DEF Turns, Aside
<1> QED BY <1>1, <1>2, <1>3, <1>4, ThreadsStay DEF Moved

\* With three that do not matter.
LEMMA Turn3 ==
  ASSUME HandshakeInv, NEW th \in Threads, stack[th] # << >>, NEW f \in FrameType,
         NEW g \in FrameType, NEW h \in FrameType, Aside(f), Aside(g), Aside(h),
         Call(th, <<f, g, h>>)
  PROVE  Moved(th) /\ Turns(Head(stack[th]), h)
<1>1. stack \in Stacks /\ Finite(stack)
  BY DEF HandshakeInv, HandshakeTypes
<1>2. /\ stack' \in Stacks /\ Finite(stack')
      /\ \A F : Count(F)' = Count(F) - One(Head(stack[th]) \in F)
                              + One(h \in F) + One(g \in F) + One(f \in F)
  BY <1>1, Counting3
<1>3. Bottom'
  <2>1. /\ <<f, g, h>> \in Seq(FrameType) /\ DOMAIN <<f, g, h>> = {1, 2, 3}
        /\ <<f, g, h>>[1] = f /\ <<f, g, h>>[2] = g /\ <<f, g, h>>[3] = h
    OBVIOUS
  <2>2. /\ f \notin OkRun \union Starters /\ g \notin OkRun \union Starters
        /\ h \notin OkRun \union Starters
    BY DEF Aside
  <2> QED BY <2>1, <2>2, BottomAfter
<1>4. Turns(Head(stack[th]), h)
  <2>1. \A F : f \notin F /\ g \notin F =>
                 Count(F)' = Count(F) - One(Head(stack[th]) \in F) + One(h \in F)
    <3>1. \A F : Count(F) \in Nat
      BY <1>1, CountType
    <3> QED BY <1>2, <3>1 DEF One
  <2> QED BY <2>1 DEF Turns, Aside
<1> QED BY <1>1, <1>2, <1>3, <1>4, ThreadsStay DEF Moved

-----------------------------------------------------------------------------
(* The steps of Async in a handshake *)

\* Frames of these operations do not matter.
LEMMA AsideFrames ==
  ASSUME NEW f \in FrameType,
         \/ f.op \in {"new", "add_timer_ref", "schedule", "unlock", "release", "destroy",
                      "cancel", "_cancel", "check"}
         \/ f.op \in {"notify", "async_notify"} /\ f.async # Root /\ ~f.ok
         \/ f.async \notin {Root, m} /\ f.op \notin DOMAIN NextAfter
  PROVE  Aside(f)
BY MIsAChild DEF Aside, OkRun, AboutToCall, Starters, Successes, Failures, Setting, NextAfter

\* What is known of a thread that executes a frame.
LEMMA Executing ==
  ASSUME HandshakeInv, NEW th \in Threads, NEW op, NEW a, At(th, op, a)
  PROVE  /\ stack[th] # << >> /\ stale = {}
         /\ Head(stack[th]) \in FrameType /\ Head(stack[th]) = stack[th][1]
         /\ Head(stack[th]).op = op /\ Head(stack[th]).async = a
         /\ \A F : Count(F) \in Nat /\ Count(F) >= One(Head(stack[th]) \in F)
<1>1. stack \in Stacks /\ Finite(stack)
  BY DEF HandshakeInv, HandshakeTypes
<1>2. /\ stack[th] # << >> /\ stale = {}
      /\ Head(stack[th]).op = op /\ Head(stack[th]).async = a
  BY DEF At
<1>3. /\ stack[th] \in Seq(FrameType) /\ Head(stack[th]) \in FrameType
      /\ Head(stack[th]) = stack[th][1] /\ 1 \in DOMAIN stack[th]
  BY <1>1, <1>2 DEF Stacks
<1>4. \A F : Count(F) \in Nat
  BY <1>1, CountType
<1>5. \A F : Head(stack[th]) \in F => Count(F) # 0
  BY <1>1, <1>3, NoneCounted
<1> QED BY <1>2, <1>3, <1>4, <1>5 DEF One

\* The types of the other variables, and what may not be undone.
Typed ==
  /\ canceled' \in [Asyncs -> BOOLEAN]
  /\ child' \in [Asyncs -> Asyncs \union {None}]
  /\ io' \in [Asyncs -> {"none", "pending", "queued", "done"}]
  /\ \A a \in Asyncs : canceled[a] => canceled'[a]

\* A step of a thread that leaves the handshake's variables alone.
LEMMA StepKeepsHandshake ==
  ASSUME HandshakeInv, NEW th \in Threads, NEW op, NEW a, At(th, op, a), NEW l,
         Moved(th), Turns(Head(stack[th]), l), Becomes(Head(stack[th]), l), Typed,
         UNCHANGED <<asked, handshake>>
  PROVE  HandshakeInv'
<1>1. stack[th] # << >> /\ \A F : Count(F) >= One(Head(stack[th]) \in F)
  BY Executing
<1>2. HandshakeTypes'
  BY DEF Moved, Typed, HandshakeTypes
<1>3. CancellersRest'
  <2>1. th \notin Cancellers \ asked
    BY <1>1 DEF HandshakeInv, CancellersRest
  <2>2. \A t \in Threads \ {th} : stack'[t] = stack[t]
    BY DEF Moved
  <2>3. CancellersRest /\ Cancellers \subseteq Threads
    BY DEF HandshakeInv, Threads
  <2> QED BY <2>1, <2>2, <2>3 DEF CancellersRest
<1>4. Interrupted => Interrupted'
  BY MIsAChild DEF Interrupted, Typed, handshake
<1>5. Bottom'
  BY DEF Moved
<1> DEFINE h == Head(stack[th])
<1>6. Turns(h, l) /\ Becomes(h, l) /\ \A F : Count(F) >= One(h \in F)
  BY <1>1
<1> HIDE DEF h
<1> QED BY <1>2, <1>3, <1>4, <1>5, <1>6, TurnKeepsHandshake

\* One in which nothing happens that matters.
LEMMA AsideStepKeepsHandshake ==
  ASSUME HandshakeInv, NEW th \in Threads, NEW op, NEW a, At(th, op, a),
         op \notin DOMAIN NextAfter, NEW l, Aside(l),
         Moved(th), Turns(Head(stack[th]), l), Typed,
         Busy' => Busy \/ Head(stack[th]) \in AboutToCall,
         UNCHANGED <<asked, handshake>>
  PROVE  HandshakeInv'
<1> DEFINE h == Head(stack[th])
<1>1. h.op = op
  BY Executing
<1>2. \A set \in DOMAIN NextAfter : h \notin Setting(set)
  BY <1>1 DEF Setting
<1>3. Busy' => Busy \/ h \in AboutToCall
  OBVIOUS
<1> HIDE DEF h
<1>4. Becomes(h, l)
  <2>1. One(l \in OkRun) + One(l \in AboutToCall) + One(l \in Starters) + One(Busy)'
          <= One(h \in OkRun) + One(h \in AboutToCall) + One(h \in Starters) + One(Busy)
    BY <1>3 DEF Aside, One
  <2> QED BY <1>2, <2>1 DEF Becomes, Aside
<1> QED BY <1>4, StepKeepsHandshake DEF h

\* The variables have their types, if a step leaves them alone.
LEMMA TypedIfSame ==
  ASSUME HandshakeInv, UNCHANGED <<canceled, child, io>>
  PROVE  Typed /\ Busy' = Busy
BY DEF HandshakeInv, HandshakeTypes, Typed, Busy

\* xf_async_new
LEMMA NewKeepsHandshake ==
  ASSUME HandshakeInv, NEW th \in Threads, NEW a \in Asyncs, New(th, a), UNCHANGED handshake
  PROVE  HandshakeInv'
<1>1. /\ At(th, "new", a) /\ UNCHANGED <<canceled, io, asked>>
      /\ child' = [p \in Asyncs |-> IF p = Parent(a) THEN a ELSE child[p]]
      /\ Call(th, IF a \in Timed THEN <<Frame("add_timer_ref", a)>> ELSE << >>)
  BY DEF New, rest
<1>2. stack[th] # << >>
  BY <1>1, Executing
<1>3. Typed /\ Busy' = Busy
  BY <1>1 DEF HandshakeInv, HandshakeTypes, Typed, Busy
<1>4. "new" \notin DOMAIN NextAfter
  BY DEF NextAfter
<1>5. CASE a \in Timed
  <2> DEFINE f == Frame("add_timer_ref", a)
  <2>1. f \in FrameType /\ f.op = "add_timer_ref"
    BY NewFrames DEF Operations
  <2>2. Call(th, <<f>>)
    BY <1>1, <1>5
  <2> HIDE DEF f
  <2>3. Aside(f)
    BY <2>1, AsideFrames
  <2>4. Moved(th) /\ Turns(Head(stack[th]), f)
    BY <1>2, <2>1, <2>2, <2>3, Turn1 DEF Aside
  <2> QED BY <1>1, <1>3, <1>4, <2>3, <2>4, AsideStepKeepsHandshake
<1>6. CASE a \notin Timed
  <2>1. Moved(th) /\ Turns(Head(stack[th]), Silent)
    BY <1>1, <1>2, <1>6, Turn0
  <2> QED BY <1>1, <1>3, <1>4, <2>1, SilentIsAside, AsideStepKeepsHandshake
<1> QED BY <1>5, <1>6

LEMMA AddTimerRefKeepsHandshake ==
  ASSUME HandshakeInv, NEW th \in Threads, NEW a \in Asyncs, AddTimerRef(th, a),
         UNCHANGED handshake
  PROVE  HandshakeInv'
<1> DEFINE f == Frame("schedule", a)
<1>1. At(th, "add_timer_ref", a) /\ UNCHANGED <<canceled, child, io, asked>> /\ Call(th, <<f>>)
  BY DEF AddTimerRef, rest
<1>2. f \in FrameType /\ f.op = "schedule"
  BY NewFrames DEF Operations
<1> HIDE DEF f
<1>3. Aside(f) /\ "add_timer_ref" \notin DOMAIN NextAfter
  BY <1>2, AsideFrames DEF NextAfter
<1>4. stack[th] # << >>
  BY <1>1, Executing
<1>5. Moved(th) /\ Turns(Head(stack[th]), f)
  BY <1>1, <1>2, <1>3, <1>4, Turn1 DEF Aside
<1> QED BY <1>1, <1>3, <1>5, TypedIfSame, AsideStepKeepsHandshake

\* Steps that return and change nothing that matters.
LEMMA ReturnKeepsHandshake ==
  ASSUME HandshakeInv, NEW th \in Threads, NEW a, NEW op, At(th, op, a),
         op \notin DOMAIN NextAfter,
         Return(th), Typed, Busy' => Busy, UNCHANGED <<asked, handshake>>
  PROVE  HandshakeInv'
<1>1. stack[th] # << >>
  BY Executing
<1>2. Moved(th) /\ Turns(Head(stack[th]), Silent)
  BY <1>1, Turn0 DEF Return
<1> QED BY <1>2, SilentIsAside, AsideStepKeepsHandshake

LEMMA ScheduleKeepsHandshake ==
  ASSUME HandshakeInv, NEW th \in Threads, NEW a, Schedule(th, a), UNCHANGED handshake
  PROVE  HandshakeInv'
<1>1. At(th, "schedule", a) /\ Return(th) /\ UNCHANGED <<canceled, child, io, asked>>
  BY DEF Schedule, rest
<1> QED BY <1>1, TypedIfSame, ReturnKeepsHandshake DEF NextAfter

LEMMA UnlockKeepsHandshake ==
  ASSUME HandshakeInv, NEW th \in Threads, NEW a, Unlock(th, a), UNCHANGED handshake
  PROVE  HandshakeInv'
<1>1. At(th, "unlock", a) /\ Return(th) /\ UNCHANGED <<canceled, child, io, asked>>
  BY DEF Unlock, rest
<1> QED BY <1>1, TypedIfSame, ReturnKeepsHandshake DEF NextAfter

LEMMA DestroyKeepsHandshake ==
  ASSUME HandshakeInv, NEW th \in Threads, NEW a, Destroy(th, a), UNCHANGED handshake
  PROVE  HandshakeInv'
<1>1. /\ At(th, "destroy", a) /\ Return(th) /\ UNCHANGED <<canceled, io, asked>>
      /\ child' = [p \in Asyncs |-> IF p = Parent(a) THEN None ELSE child[p]]
  BY DEF Destroy, rest
<1>2. Typed /\ Busy' = Busy
  BY <1>1 DEF HandshakeInv, HandshakeTypes, Typed, Busy
<1> QED BY <1>1, <1>2, ReturnKeepsHandshake DEF NextAfter

\* The user's callback returns.
LEMMA CallbackKeepsHandshake ==
  ASSUME HandshakeInv, NEW th \in Threads, Callback(th, Root), UNCHANGED handshake
  PROVE  HandshakeInv'
<1>1. At(th, "callback", Root) /\ Return(th) /\ UNCHANGED <<canceled, child, io, asked>>
  BY DEF Callback, CallbackThen, Return, operation
<1> QED BY <1>1, TypedIfSame, ReturnKeepsHandshake DEF NextAfter

LEMMA ReleaseKeepsHandshake ==
  ASSUME HandshakeInv, NEW th \in Threads, NEW a \in Asyncs, Release(th, a), UNCHANGED handshake
  PROVE  HandshakeInv'
<1> DEFINE f == Frame("destroy", a)
<1>1. /\ At(th, "release", a) /\ UNCHANGED <<canceled, child, io, asked>>
      /\ Call(th, IF ref[a] > 1 THEN << >> ELSE <<f>>)
  BY DEF Release, rest
<1>2. f \in FrameType /\ f.op = "destroy"
  BY NewFrames DEF Operations
<1> HIDE DEF f
<1>3. "release" \notin DOMAIN NextAfter /\ Typed /\ Busy' = Busy
  BY <1>1, TypedIfSame DEF NextAfter
<1>4. CASE ref[a] > 1
  BY <1>1, <1>3, <1>4, ReturnKeepsHandshake DEF Return
<1>5. CASE ~(ref[a] > 1)
  <2>1. Aside(f) /\ stack[th] # << >>
    BY <1>1, <1>2, AsideFrames, Executing
  <2>2. Moved(th) /\ Turns(Head(stack[th]), f)
    BY <1>1, <1>2, <1>5, <2>1, Turn1 DEF Aside
  <2> QED BY <1>1, <1>3, <2>1, <2>2, AsideStepKeepsHandshake
<1> QED BY <1>4, <1>5

\* The timer's reference is released first, if there is one.
LEMMA CancelTimerTurns ==
  ASSUME HandshakeInv, NEW th \in Threads, NEW a \in Asyncs, stack[th] # << >>,
         NEW l \in FrameType,
         l \in OkRun \union Starters => Head(stack[th]) \in OkRun \union Starters,
         CancelTimerThen(th, a, <<l>>)
  PROVE  Moved(th) /\ Turns(Head(stack[th]), l)
<1> DEFINE f == Frame("release", a)
<1>1. Call(th, IF timer[a] = "armed" THEN <<f>> \o <<l>> ELSE <<l>>)
  BY DEF CancelTimerThen
<1>2. f \in FrameType /\ f.op = "release"
  BY NewFrames DEF Operations
<1> HIDE DEF f
<1>3. Aside(f)
  BY <1>2, AsideFrames
<1>4. CASE timer[a] = "armed"
  <2>1. Call(th, <<f, l>>)
    BY <1>1, <1>4, Tuples
  <2> QED BY <1>2, <1>3, <2>1, Turn2
<1>5. CASE timer[a] # "armed"
  BY <1>1, <1>5, Turn1
<1> QED BY <1>4, <1>5

\* xf_async_notify
LEMMA NotifyKeepsHandshake ==
  ASSUME HandshakeInv, NEW th \in Threads, NEW a \in Asyncs, Notify(th, a), UNCHANGED handshake
  PROVE  HandshakeInv'
<1> DEFINE h == Head(stack[th])
           l == Carry(th, "async_notify", a)
<1>1. /\ At(th, "notify", a) /\ UNCHANGED <<canceled, child, io, asked>>
      /\ CancelTimerThen(th, a, <<l>>)
  BY DEF Notify, rest
<1>2. /\ stack[th] # << >> /\ h \in FrameType /\ h.op = "notify" /\ h.async = a
  BY <1>1, Executing
<1>3. l \in FrameType /\ l.op = "async_notify" /\ l.async = a /\ l.ok = h.ok
  <2>1. "async_notify" \in Operations
    BY DEF Operations
  <2> QED BY <1>2, <2>1, CarriedFrames
<1> HIDE DEF h, l
<1>4. l \notin Starters /\ l \notin AboutToCall /\ (l \in OkRun => h \in OkRun)
  BY <1>2, <1>3 DEF Starters, AboutToCall, OkRun
<1>5. /\ l \in Successes => h \in Successes
      /\ l \in Failures => h \in Failures
      /\ \A set \in DOMAIN NextAfter : h \notin Setting(set) /\ l \notin Setting(set)
  BY <1>2, <1>3 DEF Successes, Failures, Setting, NextAfter
<1>6. Typed /\ Busy' = Busy
  BY <1>1, TypedIfSame
<1>7. Becomes(h, l)
  BY <1>4, <1>5, <1>6 DEF Becomes, One
<1>8. Moved(th) /\ Turns(h, l)
  BY <1>1, <1>2, <1>3, <1>4, CancelTimerTurns DEF h
<1> QED BY <1>1, <1>6, <1>7, <1>8, StepKeepsHandshake DEF h

\* _xf_async_async_notify
LEMMA AsyncNotifyKeepsHandshake ==
  ASSUME HandshakeInv, NEW th \in Threads, AsyncNotify(th, Root), UNCHANGED handshake
  PROVE  HandshakeInv'
<1> DEFINE h == Head(stack[th])
           l == Carry(th, "callback", Root)
           f == Frame("release", Root)
<1>1. /\ At(th, "async_notify", Root) /\ UNCHANGED <<canceled, child, io, asked>>
      /\ Call(th, IF called[Root] THEN << >> ELSE <<l, f>>)
  BY DEF AsyncNotify, rest
<1>2. stack[th] # << >> /\ h \in FrameType /\ h.op = "async_notify" /\ h.async = Root
  BY <1>1, Executing
<1>3. l \in FrameType /\ l.op = "callback" /\ l.async = Root /\ l.ok = h.ok
  <2>1. "callback" \in Operations
    BY DEF Operations
  <2> QED BY <1>2, <2>1, CarriedFrames, MIsAChild
<1>4. f \in FrameType /\ f.op = "release"
  BY NewFrames, MIsAChild DEF Operations
<1> HIDE DEF h, l, f
<1>5. Typed /\ Busy' = Busy /\ "async_notify" \notin DOMAIN NextAfter
  BY <1>1, TypedIfSame DEF NextAfter
<1>6. CASE called[Root]
  BY <1>1, <1>5, <1>6, ReturnKeepsHandshake DEF Return
<1>7. CASE ~called[Root]
  <2>1. Aside(f)
    BY <1>4, AsideFrames
  <2>2. l \notin Starters /\ l \notin AboutToCall /\ l \notin OkRun
    BY <1>3 DEF Starters, AboutToCall, OkRun
  <2>3. /\ l \in Successes => h \in Successes
        /\ l \in Failures => h \in Failures
        /\ \A set \in DOMAIN NextAfter : h \notin Setting(set) /\ l \notin Setting(set)
    BY <1>2, <1>3 DEF Successes, Failures, Setting, NextAfter
  <2>4. Becomes(h, l)
    BY <1>5, <2>2, <2>3 DEF Becomes, One
  <2>5. Moved(th) /\ Turns(h, l)
    BY <1>1, <1>2, <1>3, <1>4, <1>7, <2>1, <2>2, Turn2First DEF h
  <2> QED BY <1>1, <1>5, <2>4, <2>5, StepKeepsHandshake DEF h
<1> QED BY <1>6, <1>7

\* xf_async_cancel
LEMMA AsyncCancelKeepsHandshake ==
  ASSUME HandshakeInv, NEW th \in Threads, NEW a \in Asyncs, AsyncCancel(th, a),
         UNCHANGED handshake
  PROVE  HandshakeInv'
<1> DEFINE l == Frame("_cancel", a)
<1>1. /\ At(th, "cancel", a) /\ UNCHANGED <<canceled, child, io, asked>>
      /\ CancelTimerThen(th, a, <<l>>)
  BY DEF AsyncCancel, rest
<1>2. stack[th] # << >> /\ l \in FrameType /\ l.op = "_cancel"
  BY <1>1, Executing, NewFrames DEF Operations
<1> HIDE DEF l
<1>3. Aside(l) /\ "cancel" \notin DOMAIN NextAfter
  BY <1>2, AsideFrames DEF NextAfter
<1>4. Moved(th) /\ Turns(Head(stack[th]), l)
  BY <1>1, <1>2, <1>3, CancelTimerTurns DEF Aside
<1> QED BY <1>1, <1>3, <1>4, TypedIfSame, AsideStepKeepsHandshake

\* _cancel: the user is told of a failure by a thread that has cancelled.
LEMMA CancelKeepsHandshake ==
  ASSUME HandshakeInv, NEW th \in Threads, NEW a \in Asyncs, Cancel(th, a), UNCHANGED handshake
  PROVE  HandshakeInv'
<1>1. At(th, "_cancel", a) /\ UNCHANGED <<child, asked>> /\ canceled' = [canceled EXCEPT ![a] = TRUE]
  BY DEF Cancel
<1>2. stack[th] # << >> /\ "_cancel" \notin DOMAIN NextAfter
  BY <1>1, Executing DEF NextAfter
<1>3. /\ canceled' \in [Asyncs -> BOOLEAN] /\ child' \in [Asyncs -> Asyncs \union {None}]
      /\ io \in [Asyncs -> {"none", "pending", "queued", "done"}]
      /\ \A b \in Asyncs : canceled[b] => canceled'[b]
  <2>1. /\ canceled \in [Asyncs -> BOOLEAN] /\ child \in [Asyncs -> Asyncs \union {None}]
        /\ io \in [Asyncs -> {"none", "pending", "queued", "done"}]
    BY DEF HandshakeInv, HandshakeTypes
  <2>2. child' = child /\ canceled' = [canceled EXCEPT ![a] = TRUE]
    BY <1>1
  <2> QED BY ONLY <2>1, <2>2
<1>4. CASE CancelChild(th, a)
  <2> DEFINE f == Frame("cancel", child[a])
             l == Frame("unlock", a)
  <2>1. Call(th, <<f, l>>) /\ UNCHANGED io /\ child[a] \in Asyncs
    BY <1>4 DEF CancelChild, HandshakeInv, HandshakeTypes
  <2>2. f \in FrameType /\ f.op = "cancel" /\ l \in FrameType /\ l.op = "unlock"
    BY <2>1, NewFrames DEF Operations
  <2> HIDE DEF f, l
  <2>3. Aside(f) /\ Aside(l)
    BY <2>2, AsideFrames
  <2>4. Moved(th) /\ Turns(Head(stack[th]), l)
    BY <1>2, <2>1, <2>2, <2>3, Turn2 DEF Aside
  <2>5. Typed /\ Busy' = Busy
    BY <1>3, <2>1 DEF Typed, Busy
  <2> QED BY <1>1, <1>2, <2>3, <2>4, <2>5, AsideStepKeepsHandshake
<1>5. CASE CancelCall(th, a)
  <2>1. Return(th) /\ io' = [io EXCEPT ![a] = "queued"] /\ io[a] = "pending"
    BY <1>5 DEF CancelCall
  <2>2. Typed /\ Busy' = Busy
    BY <1>3, <2>1, MIsAChild DEF Typed, Busy
  <2> QED BY <1>1, <1>2, <2>1, <2>2, ReturnKeepsHandshake
<1>6. CASE CancelDirectly(th, a)
  <2> DEFINE h == Head(stack[th])
             l == Frame("notify", a)
  <2>1. Call(th, <<l>>) /\ UNCHANGED io
    BY <1>6 DEF CancelDirectly
  <2>2. l \in FrameType /\ l.op = "notify" /\ l.async = a /\ ~l.ok /\ h.op = "_cancel"
    BY <1>1, Executing, NewFrames DEF Operations
  <2> HIDE DEF l, h
  <2>3. /\ l \notin Starters /\ l \notin AboutToCall /\ l \notin OkRun /\ l \notin Successes
        /\ \A set \in DOMAIN NextAfter : h \notin Setting(set) /\ l \notin Setting(set)
    BY <2>2 DEF Starters, AboutToCall, OkRun, Successes, Setting, NextAfter
  <2>4. l \in Failures => Interrupted'
    BY <1>1, <1>3, <2>2 DEF Failures, Interrupted, HandshakeInv, HandshakeTypes
  <2>5. Typed /\ Busy' = Busy
    BY <1>3, <2>1 DEF Typed, Busy
  <2>6. Becomes(h, l)
    BY <2>3, <2>4, <2>5 DEF Becomes, One
  <2>7. Moved(th) /\ Turns(h, l)
    BY <1>2, <2>1, <2>2, <2>3, Turn1 DEF h
  <2> QED BY <1>1, <2>5, <2>6, <2>7, StepKeepsHandshake DEF h
<1> QED BY <1>4, <1>5, <1>6 DEF Cancel

-----------------------------------------------------------------------------
(* The calls of the phases *)

\* One step of a call leads to the next.
LEMMA CallGoesOn ==
  ASSUME HandshakeInv, NEW th \in Threads, NEW op, At(th, op, m),
         op \in {"connect_base", "start_base", "send", "send_enter", "submit", "receive", "recv"},
         NEW then \in {"start_base", "send_enter", "submit", "recv"},
         Call(th, <<Frame(then, m)>>), UNCHANGED <<canceled, child, io, asked, handshake>>
  PROVE  HandshakeInv'
<1> DEFINE h == Head(stack[th])
           l == Frame(then, m)
<1>1. stack[th] # << >> /\ h \in FrameType /\ h.op = op /\ h.async = m
  BY Executing
<1>2. l \in FrameType /\ l.op = then /\ l.async = m
  <2>1. then \in Operations
    BY DEF Operations
  <2> QED BY <2>1, NewFrames, MIsAChild
<1>3. Call(th, <<l>>)
  OBVIOUS
<1> HIDE DEF h, l
<1>4. /\ l \notin Starters /\ l \notin OkRun /\ l \notin Successes /\ l \notin Failures
      /\ \A set \in DOMAIN NextAfter : h \notin Setting(set) /\ l \notin Setting(set)
  BY <1>1, <1>2, MIsAChild DEF Starters, OkRun, Successes, Failures, Setting, NextAfter
<1>5. h \in AboutToCall
  BY <1>1 DEF AboutToCall
<1>6. Typed /\ Busy' = Busy
  BY TypedIfSame
<1>7. Becomes(h, l)
  BY <1>4, <1>5, <1>6 DEF Becomes, One
<1>8. Moved(th) /\ Turns(h, l)
  BY <1>1, <1>2, <1>3, <1>4, Turn1 DEF h
<1> QED BY <1>6, <1>7, <1>8, StepKeepsHandshake DEF h

\* xf_async_enter: a call of a cancelled operation does not start.
LEMMA EnterKeepsHandshake ==
  ASSUME HandshakeInv, NEW th \in Threads, NEW op \in {"connect_base", "send_enter", "receive"},
         At(th, op, m), NEW then \in {"start_base", "submit", "recv"}, AsyncEnter(th, m, then),
         UNCHANGED <<canceled, child, io, asked, handshake>>
  PROVE  HandshakeInv'
<1>1. CASE canceled[m]
  <2> DEFINE f == Frame("notify", m)
             l == Frame("unlock", m)
  <2>1. Call(th, <<f, l>>)
    BY <1>1 DEF AsyncEnter
  <2>2. /\ f \in FrameType /\ f.op = "notify" /\ f.async = m /\ ~f.ok
        /\ l \in FrameType /\ l.op = "unlock"
    BY NewFrames, MIsAChild DEF Operations
  <2>3. stack[th] # << >> /\ op \notin DOMAIN NextAfter
    BY Executing DEF NextAfter
  <2> HIDE DEF f, l
  <2>4. Aside(f) /\ Aside(l)
    BY <2>2, MIsAChild, AsideFrames
  <2>5. Moved(th) /\ Turns(Head(stack[th]), l)
    BY <2>1, <2>2, <2>3, <2>4, Turn2 DEF Aside
  <2> QED BY <2>3, <2>4, <2>5, TypedIfSame, AsideStepKeepsHandshake
<1>2. CASE ~canceled[m]
  <2>1. Call(th, <<Frame(then, m)>>)
    BY <1>2 DEF AsyncEnter
  <2> QED BY <2>1, CallGoesOn
<1> QED BY <1>1, <1>2

\* The call is with the kernel, or has failed.
LEMMA SubmitKeepsHandshake ==
  ASSUME HandshakeInv, NEW th \in Threads, NEW op \in {"start_base", "submit", "recv"},
         At(th, op, m), Submit(th, m, AsyncLeave(m)),
         UNCHANGED <<canceled, child, asked, handshake>>
  PROVE  HandshakeInv'
<1> DEFINE h == Head(stack[th])
           f == Frame("unlock", m)
           g == Frame("release", m)
           n == Frame("notify", m)
<1>1. stack[th] # << >> /\ h \in FrameType /\ h.op = op /\ h.async = m
  BY Executing
<1>2. /\ f \in FrameType /\ f.op = "unlock" /\ g \in FrameType /\ g.op = "release"
      /\ n \in FrameType /\ n.op = "notify" /\ n.async = m /\ ~n.ok
  BY NewFrames, MIsAChild DEF Operations
<1>3. \/ io' = [io EXCEPT ![m] = "pending"] /\ Call(th, <<f, g>>)
      \/ UNCHANGED io /\ Call(th, <<f, g>> \o <<n>>)
  BY DEF Submit, AsyncLeave
<1> HIDE DEF h, f, g, n
<1>4. h \in AboutToCall /\ op \notin DOMAIN NextAfter
  BY <1>1 DEF AboutToCall, NextAfter
<1>5. Aside(f) /\ Aside(g) /\ Aside(n)
  BY <1>2, MIsAChild, AsideFrames
<1>6. CASE io' = [io EXCEPT ![m] = "pending"] /\ Call(th, <<f, g>>)
  <2>1. Typed
    BY <1>6 DEF HandshakeInv, HandshakeTypes, Typed
  <2>2. Moved(th) /\ Turns(h, g)
    BY <1>1, <1>2, <1>5, <1>6, Turn2 DEF Aside, h
  <2> QED BY <1>4, <1>5, <2>1, <2>2, AsideStepKeepsHandshake DEF h
<1>7. CASE UNCHANGED io /\ Call(th, <<f, g>> \o <<n>>)
  <2>1. Typed /\ Busy' = Busy
    BY <1>7, TypedIfSame
  <2>2. Call(th, <<f, g, n>>)
    BY <1>7, Triples
  <2>3. Moved(th) /\ Turns(h, n)
    BY <1>1, <1>2, <1>5, <2>2, Turn3 DEF h
  <2> QED BY <1>4, <1>5, <2>1, <2>3, AsideStepKeepsHandshake DEF h
<1> QED BY <1>3, <1>6, <1>7

LEMMA CallsKeepHandshake ==
  ASSUME HandshakeInv, NEW th \in Threads,
         \/ /\ \/ Send(th, m) \/ SendEnter(th, m) \/ SubmitSend(th, m)
               \/ Receive(th, m) \/ Recv(th, m)
            /\ UNCHANGED handshake
         \/ ConnectEnter(th) \/ StartBase(th)
  PROVE  HandshakeInv'
<1>1. CASE Send(th, m) /\ UNCHANGED handshake
  <2>1. /\ At(th, "send", m) /\ Call(th, <<Frame("send_enter", m)>>)
        /\ UNCHANGED <<canceled, child, io, asked>>
    BY <1>1 DEF Send, rest
  <2> QED BY <1>1, <2>1, CallGoesOn
<1>2. CASE SendEnter(th, m) /\ UNCHANGED handshake
  <2>1. /\ At(th, "send_enter", m) /\ AsyncEnter(th, m, "submit")
        /\ UNCHANGED <<canceled, child, io, asked>>
    BY <1>2 DEF SendEnter, rest
  <2> QED BY <1>2, <2>1, EnterKeepsHandshake
<1>3. CASE SubmitSend(th, m) /\ UNCHANGED handshake
  <2>1. /\ At(th, "submit", m) /\ Submit(th, m, AsyncLeave(m))
        /\ UNCHANGED <<canceled, child, asked>>
    BY <1>3 DEF SubmitSend, rest, operation
  <2> QED BY <1>3, <2>1, SubmitKeepsHandshake
<1>4. CASE Receive(th, m) /\ UNCHANGED handshake
  <2>1. /\ At(th, "receive", m) /\ AsyncEnter(th, m, "recv")
        /\ UNCHANGED <<canceled, child, io, asked>>
    BY <1>4 DEF Receive, rest
  <2> QED BY <1>4, <2>1, EnterKeepsHandshake
<1>5. CASE Recv(th, m) /\ UNCHANGED handshake
  <2>1. /\ At(th, "recv", m) /\ Submit(th, m, AsyncLeave(m))
        /\ UNCHANGED <<canceled, child, asked>>
    BY <1>5 DEF Recv, rest
  <2> QED BY <1>5, <2>1, SubmitKeepsHandshake
<1>6. CASE ConnectEnter(th)
  <2>1. /\ At(th, "connect_base", m) /\ AsyncEnter(th, m, "start_base")
        /\ UNCHANGED <<canceled, child, io, asked, handshake>>
    BY <1>6 DEF ConnectEnter, rest
  <2> QED BY <2>1, EnterKeepsHandshake
<1>7. CASE StartBase(th)
  <2>1. /\ At(th, "start_base", m) /\ Submit(th, m, AsyncLeave(m))
        /\ UNCHANGED <<canceled, child, asked, handshake>>
    BY <1>7 DEF StartBase, rest
  <2> QED BY <2>1, SubmitKeepsHandshake
<1> QED BY <1>1, <1>2, <1>3, <1>4, <1>5, <1>6, <1>7

-----------------------------------------------------------------------------
(* Threads that begin *)

\* A thread that had nothing to do begins with one frame.
LEMMA Begin1 ==
  ASSUME HandshakeInv, NEW th \in Threads, stack[th] = << >>, NEW l \in FrameType,
         stack' = [stack EXCEPT ![th] = <<l>>]
  PROVE  Moved(th) /\ Turns(Silent, l)
<1>1. stack \in Stacks /\ Finite(stack) /\ Bottom
  BY DEF HandshakeInv, HandshakeTypes
<1>2. /\ stack' \in Stacks /\ Finite(stack')
      /\ \A F : Count(F)' = Count(F) + One(l \in F)
  BY <1>1, BeginCounts1
<1>3. stack'[th] = <<l>> /\ \A t \in Threads \ {th} : stack'[t] = stack[t]
  BY <1>1 DEF Stacks
<1>4. Bottom'
  BY <1>1, <1>3 DEF Bottom
<1>5. Turns(Silent, l)
  <2>1. \A F : Count(F) \in Nat
    BY <1>1, CountType
  <2>2. Aside(Silent)
    BY SilentIsAside
  <2>3. \A F : Silent \notin F => Count(F)' = Count(F) - One(Silent \in F) + One(l \in F)
    BY <1>2, <2>1 DEF One
  <2> QED BY <2>2, <2>3 DEF Turns, Aside
<1> QED BY <1>2, <1>3, <1>4, <1>5 DEF Moved

\* Or with two that do not matter.
LEMMA Begin2 ==
  ASSUME HandshakeInv, NEW th \in Threads, stack[th] = << >>, NEW f \in FrameType,
         NEW l \in FrameType, Aside(f), Aside(l), stack' = [stack EXCEPT ![th] = <<f, l>>]
  PROVE  Moved(th) /\ Turns(Silent, l)
<1>1. stack \in Stacks /\ Finite(stack) /\ Bottom
  BY DEF HandshakeInv, HandshakeTypes
<1>2. /\ stack' \in Stacks /\ Finite(stack')
      /\ \A F : Count(F)' = Count(F) + One(l \in F) + One(f \in F)
  BY <1>1, BeginCounts2
<1>3. stack'[th] = <<f, l>> /\ \A t \in Threads \ {th} : stack'[t] = stack[t]
  BY <1>1 DEF Stacks
<1>4. Bottom'
  <2>1. f \notin OkRun \union Starters /\ l \notin OkRun \union Starters
    BY DEF Aside
  <2> QED BY <1>1, <1>3, <2>1 DEF Bottom
<1>5. Turns(Silent, l)
  <2>1. \A F : Count(F) \in Nat
    BY <1>1, CountType
  <2>2. Aside(Silent)
    BY SilentIsAside
  <2>3. \A F : Silent \notin F /\ f \notin F =>
                 Count(F)' = Count(F) - One(Silent \in F) + One(l \in F)
    BY <1>2, <2>1 DEF One
  <2> QED BY <2>2, <2>3 DEF Turns, Aside
<1> QED BY <1>2, <1>3, <1>4, <1>5 DEF Moved

LEMMA BeginKeepsHandshake ==
  ASSUME HandshakeInv, NEW th \in Threads, NEW l,
         Moved(th), Turns(Silent, l), Becomes(Silent, l), Typed,
         asked \subseteq asked', th \notin Cancellers \ asked', UNCHANGED handshake
  PROVE  HandshakeInv'
<1>1. HandshakeTypes'
  BY DEF Moved, Typed, HandshakeTypes
<1>2. CancellersRest'
  <2>1. \A t \in Threads \ {th} : stack'[t] = stack[t]
    BY DEF Moved
  <2>2. CancellersRest /\ Cancellers \subseteq Threads
    BY DEF HandshakeInv, Threads
  <2> QED BY <2>1, <2>2 DEF CancellersRest
<1>3. Interrupted => Interrupted'
  BY MIsAChild DEF Interrupted, Typed, handshake
<1>4. Bottom'
  BY DEF Moved
<1>5. /\ One(Silent \in Successes) = 0 /\ One(Silent \in Failures) = 0
      /\ One(Silent \in Starters) = 0
  BY SilentIsAside DEF Aside, One
<1>6. /\ Count(Successes) \in Nat /\ Count(Failures) \in Nat /\ Count(Starters) \in Nat
  BY CountsAreNumbers DEF HandshakeInv
<1> HIDE DEF Silent
<1> QED BY <1>1, <1>2, <1>3, <1>4, <1>5, <1>6, TurnKeepsHandshake

LEMMA AsideBegins ==
  ASSUME NEW l, Aside(l), Busy' = Busy
  PROVE  Becomes(Silent, l)
<1>1. Aside(Silent)
  BY SilentIsAside
<1>2. One(Silent \in OkRun) = 0 /\ One(Silent \in AboutToCall) = 0 /\ One(Silent \in Starters) = 0
  BY <1>1 DEF Aside, One
<1>3. One(l \in OkRun) = 0 /\ One(l \in AboutToCall) = 0 /\ One(l \in Starters) = 0
  BY DEF Aside, One
<1>4. One(Busy)' = One(Busy) /\ One(Busy) \in 0..1
  BY DEF One
<1>5. One(l \in OkRun) + One(l \in AboutToCall) + One(l \in Starters) + One(Busy)'
        <= One(Silent \in OkRun) + One(Silent \in AboutToCall) + One(Silent \in Starters) + One(Busy)
  BY ONLY <1>2, <1>3, <1>4
<1> QED BY <1>1, <1>5 DEF Becomes, Aside

\* The packet of m's call comes to a worker.
LEMMA DequeueKeepsHandshake ==
  ASSUME HandshakeInv, NEW th \in Workers, Dequeue(th, m), UNCHANGED handshake
  PROVE  HandshakeInv'
<1>1. /\ stack[th] = << >> /\ io[m] = "queued" /\ io' = [io EXCEPT ![m] = "done"]
      /\ UNCHANGED <<canceled, child, asked>>
  BY DEF Dequeue, rest, operation
<1>2. PICK l \in {Frame("notify", m), Success("notify", m)} : stack' = [stack EXCEPT ![th] = <<l>>]
  BY DEF Dequeue
<1>3. l \in FrameType /\ l.op = "notify" /\ l.async = m
  BY NewFrames, MIsAChild DEF Operations
<1>4. th \in Threads /\ th \notin Cancellers
  BY AsyncAssumption DEF Threads
<1>5. Moved(th) /\ Turns(Silent, l)
  BY <1>1, <1>2, <1>3, <1>4, Begin1
<1>6. Busy /\ ~Busy' /\ Typed
  BY <1>1, MIsAChild DEF HandshakeInv, HandshakeTypes, Typed, Busy
<1>7. /\ l \notin AboutToCall /\ l \notin Starters /\ l \notin Successes /\ l \notin Failures
      /\ \A set \in DOMAIN NextAfter : l \notin Setting(set)
  BY <1>3, MIsAChild DEF AboutToCall, Starters, Successes, Failures, Setting, NextAfter
<1>8. Becomes(Silent, l)
  BY <1>6, <1>7, SilentIsAside DEF Becomes, Aside, One
<1> QED BY <1>1, <1>4, <1>5, <1>6, <1>8, BeginKeepsHandshake

LEMMA TimeoutFiresKeepsHandshake ==
  ASSUME HandshakeInv, NEW a \in Asyncs, TimeoutFires(a), UNCHANGED handshake
  PROVE  HandshakeInv'
<1> DEFINE f == Frame("_cancel", a)
           l == Frame("release", a)
<1>1. /\ stack[Poller] = << >> /\ stack' = [stack EXCEPT ![Poller] = <<f, l>>]
      /\ UNCHANGED <<canceled, child, io, asked>>
  BY DEF TimeoutFires, rest
<1>2. f \in FrameType /\ f.op = "_cancel" /\ l \in FrameType /\ l.op = "release"
  BY NewFrames DEF Operations
<1> HIDE DEF f, l
<1>3. Aside(f) /\ Aside(l)
  BY <1>2, AsideFrames
<1>4. Poller \in Threads /\ Poller \notin Cancellers
  BY AsyncAssumption DEF Threads
<1>5. Moved(Poller) /\ Turns(Silent, l)
  BY <1>1, <1>2, <1>3, <1>4, Begin2
<1>6. Typed /\ Busy' = Busy
  BY <1>1, TypedIfSame
<1>7. Becomes(Silent, l)
  BY <1>3, <1>6, AsideBegins
<1> QED BY <1>1, <1>4, <1>5, <1>6, <1>7, BeginKeepsHandshake

LEMMA AskKeepsHandshake ==
  ASSUME HandshakeInv, NEW th \in Cancellers, Ask(th), UNCHANGED handshake
  PROVE  HandshakeInv'
<1> DEFINE l == Frame("cancel", Root)
<1>1. /\ th \notin asked /\ asked' = asked \union {th}
      /\ stack' = [stack EXCEPT ![th] = <<l>>] /\ UNCHANGED <<canceled, child, io>>
  BY DEF Ask, operation
<1>2. l \in FrameType /\ l.op = "cancel"
  BY NewFrames, MIsAChild DEF Operations
<1> HIDE DEF l
<1>3. Aside(l)
  BY <1>2, AsideFrames
<1>4. th \in Threads /\ stack[th] = << >>
  BY <1>1 DEF Threads, HandshakeInv, CancellersRest
<1>5. Moved(th) /\ Turns(Silent, l)
  BY <1>1, <1>2, <1>4, Begin1
<1>6. Typed /\ Busy' = Busy
  BY <1>1, TypedIfSame
<1>7. Becomes(Silent, l)
  BY <1>3, <1>6, AsideBegins
<1> QED BY <1>1, <1>4, <1>5, <1>6, <1>7, BeginKeepsHandshake

\* Steps that move no thread.
LEMMA StandingKeepsHandshake ==
  ASSUME HandshakeInv, UNCHANGED <<stack, canceled, child, asked>>,
         io' \in [Asyncs -> {"none", "pending", "queued", "done"}], Busy' = Busy,
         UNCHANGED <<next, context, product, due>>, overtaken \subseteq overtaken'
  PROVE  HandshakeInv'
<1>1. /\ HandshakeTypes /\ CancellersRest /\ OneToken /\ Bottom /\ DueIsWritten
      /\ SettersAreRight /\ ContextAsDue /\ SuccessIsReported /\ FailureIsReported
  BY DEF HandshakeInv
<1>2. \A F : Count(F)' = Count(F)
  BY DEF Count
<1>3. HandshakeTypes' /\ CancellersRest' /\ Bottom'
  BY <1>1 DEF HandshakeTypes, CancellersRest, Bottom
<1>4. OneToken'
  BY <1>1, <1>2 DEF OneToken
<1>5. Overwritten => Overwritten'
  BY DEF Overwritten
<1>6. DueIsWritten' /\ SettersAreRight'
  BY <1>1, <1>2, <1>5 DEF DueIsWritten, SettersAreRight
<1>7. ContextAsDue' /\ SuccessIsReported'
  BY <1>1, <1>2 DEF ContextAsDue, SuccessIsReported
<1>8. FailureIsReported'
  <2>1. Interrupted => Interrupted'
    BY DEF Interrupted
  <2> QED BY <1>1, <1>2, <2>1 DEF FailureIsReported
<1> QED BY <1>3, <1>4, <1>6, <1>7, <1>8 DEF HandshakeInv

-----------------------------------------------------------------------------
(* The phases *)

\* xf_ssl_socket_new is called.
LEMMA StartKeepsHandshake ==
  ASSUME Ops \subseteq {"ssl_connect"}, HandshakeInv, NEW th \in Threads, Start(th, Root),
         UNCHANGED handshake
  PROVE  HandshakeInv'
<1> DEFINE h == Head(stack[th])
           l == Frame("ssl_connect", Root)
<1>1. At(th, "start", Root) /\ Call(th, <<l>>) /\ UNCHANGED <<canceled, child, io, asked>>
  BY DEF Start, rest, operation
<1>2. stack[th] # << >> /\ h \in FrameType /\ h.op = "start" /\ h.async = Root
  BY <1>1, Executing
<1>3. l \in FrameType /\ l.op = "ssl_connect" /\ l.async = Root
  BY NewFrames, MIsAChild DEF Operations
<1> HIDE DEF h, l
<1>4. /\ l \notin AboutToCall /\ l \notin OkRun /\ l \notin Successes /\ l \notin Failures
      /\ \A set \in DOMAIN NextAfter : h \notin Setting(set) /\ l \notin Setting(set)
      /\ h \in Starters
  BY <1>2, <1>3, MIsAChild DEF Starters, AboutToCall, OkRun, Successes, Failures, Setting, NextAfter
<1>5. Typed /\ Busy' = Busy
  BY <1>1, TypedIfSame
<1>6. Becomes(h, l)
  BY <1>4, <1>5 DEF Becomes, One
<1>7. Moved(th) /\ Turns(h, l)
  BY <1>1, <1>2, <1>3, <1>4, Turn1 DEF h
<1> QED BY <1>1, <1>5, <1>6, <1>7, StepKeepsHandshake DEF h

\* What follows of the thread that moves.
LEMMA Settles ==
  ASSUME HandshakeInv, NEW th \in Threads, stack[th] # << >>, Moved(th), Typed,
         asked \subseteq asked', overtaken \subseteq overtaken'
  PROVE  /\ HandshakeTypes' /\ CancellersRest' /\ Bottom'
         /\ Interrupted => Interrupted'
         /\ Overwritten => Overwritten'
<1>1. HandshakeTypes'
  BY DEF Moved, Typed, HandshakeTypes
<1>2. CancellersRest'
  <2>1. th \notin Cancellers \ asked
    BY DEF HandshakeInv, CancellersRest
  <2>2. \A t \in Threads \ {th} : stack'[t] = stack[t]
    BY DEF Moved
  <2>3. CancellersRest /\ Cancellers \subseteq Threads
    BY DEF HandshakeInv, Threads
  <2> QED BY <2>1, <2>2, <2>3 DEF CancellersRest
<1>3. Interrupted => Interrupted'
  BY MIsAChild DEF Interrupted, Typed
<1> QED BY <1>1, <1>2, <1>3 DEF Moved, Overwritten

\* A handshake that begins has made no object, and is alone.
LEMMA Beginning ==
  ASSUME HandshakeInv, NEW th \in Threads, Head(stack[th]) \in Starters,
         \A F : Count(F) \in Nat /\ Count(F) >= One(Head(stack[th]) \in F)
  PROVE  /\ ~product /\ context = "none" /\ Count(Starters) = 1 /\ Count(OkRun) = 0
         /\ Count(AboutToCall) = 0 /\ ~Busy /\ Count(Successes) = 0
         /\ Count(Failures) > 0 => Interrupted
<1>1. Count(Starters) >= 1
  BY DEF One
<1>2. /\ OneToken /\ ContextAsDue /\ SuccessIsReported /\ FailureIsReported
      /\ \A F : Count(F) \in Nat
  BY DEF HandshakeInv
<1>3. /\ Count(Starters) = 1 /\ Count(OkRun) = 0 /\ Count(AboutToCall) = 0 /\ ~Busy /\ ~product
  BY <1>1, <1>2 DEF OneToken, One
<1> QED BY <1>1, <1>2, <1>3 DEF ContextAsDue, SuccessIsReported, FailureIsReported

\* xf_ssl_socket_new and xf_async_call
LEMMA SslConnectKeepsHandshake ==
  ASSUME HandshakeInv, NEW th \in Threads, SslConnect(th)
  PROVE  HandshakeInv'
<1> DEFINE h == Head(stack[th])
<1>1. /\ At(th, "ssl_connect", Root)
      /\ UNCHANGED <<canceled, child, io, asked, next, ss, tokens, product, due, overtaken>>
  BY DEF SslConnect, rest, operation
<1>2. /\ stack[th] # << >> /\ h \in FrameType /\ h.op = "ssl_connect" /\ h.async = Root
      /\ \A F : Count(F) \in Nat /\ Count(F) >= One(h \in F)
  BY <1>1, Executing
<1>3. /\ h \in Starters /\ h \notin AboutToCall /\ h \notin OkRun /\ h \notin Successes
      /\ h \notin Failures /\ \A set \in DOMAIN NextAfter : h \notin Setting(set)
  BY <1>2, MIsAChild DEF Starters, AboutToCall, OkRun, Successes, Failures, Setting, NextAfter
<1>4. /\ ~product /\ context = "none" /\ Count(Starters) = 1 /\ Count(OkRun) = 0
      /\ Count(AboutToCall) = 0 /\ ~Busy /\ Count(Successes) = 0
      /\ Count(Failures) > 0 => Interrupted
  BY <1>2, <1>3, Beginning
<1>5. Typed /\ Busy' = Busy
  BY <1>1, TypedIfSame
<1>6. ASSUME NEW l, Moved(th), Turns(h, l),
             l \notin Starters, l \notin AboutToCall, l \notin Successes,
             \A set \in DOMAIN NextAfter : l \notin Setting(set),
             \/ l \notin OkRun /\ context' = context
             \/ l \notin Failures /\ context' = "live"
      PROVE  HandshakeInv'
  <2> HIDE DEF h
  <2>1. /\ HandshakeTypes' /\ CancellersRest' /\ Bottom'
        /\ Interrupted => Interrupted'
        /\ Overwritten' = Overwritten
    BY <1>1, <1>2, <1>5, <1>6, Settles DEF Overwritten
  <2>2. /\ Count(Starters)' = 0 /\ Count(AboutToCall)' = 0 /\ Count(OkRun)' = One(l \in OkRun)
        /\ Count(Successes)' = 0 /\ Count(Failures)' = Count(Failures) + One(l \in Failures)
    BY <1>2, <1>3, <1>4, <1>6 DEF Turns, One
  <2>3. \A set \in DOMAIN NextAfter : Count(Setting(set))' = Count(Setting(set))
    BY <1>2, <1>3, <1>6 DEF Turns, One
  <2>4. OneToken'
    BY <1>1, <1>4, <1>5, <2>2 DEF OneToken, One
  <2>5. DueIsWritten' /\ SettersAreRight'
    BY <1>1, <2>1, <2>3 DEF HandshakeInv, DueIsWritten, SettersAreRight
  <2>6. ContextAsDue' /\ SuccessIsReported'
    BY <1>1, <1>4, <2>2 DEF HandshakeInv, ContextAsDue, SuccessIsReported
  <2>7. FailureIsReported'
    BY <1>1, <1>2, <1>4, <1>6, <2>1, <2>2 DEF FailureIsReported, One
  <2> QED BY <2>1, <2>4, <2>5, <2>6, <2>7 DEF HandshakeInv
<1>7. CASE Call(th, <<Frame("notify", Root)>>) /\ UNCHANGED context
  <2> DEFINE l == Frame("notify", Root)
  <2>1. l \in FrameType /\ l.op = "notify" /\ l.async = Root /\ ~l.ok
    BY NewFrames, MIsAChild DEF Operations
  <2>2. Call(th, <<l>>)
    BY <1>7
  <2> HIDE DEF l
  <2>3. /\ l \notin Starters /\ l \notin AboutToCall /\ l \notin Successes /\ l \notin OkRun
        /\ \A set \in DOMAIN NextAfter : l \notin Setting(set)
    BY <2>1, MIsAChild DEF Starters, AboutToCall, OkRun, Successes, Setting, NextAfter
  <2>4. Moved(th) /\ Turns(h, l)
    BY <1>2, <2>1, <2>2, <2>3, Turn1
  <2> QED BY <1>6, <1>7, <2>3, <2>4
<1>8. CASE Call(th, << >>) /\ context' = "live"
  <2>1. Aside(Silent) /\ Moved(th) /\ Turns(h, Silent)
    BY <1>2, <1>8, Turn0, SilentIsAside
  <2> QED BY <1>6, <1>8, <2>1 DEF Aside
<1>9. CASE Call(th, <<Frame("new", m), Success("run", m)>>) /\ context' = "live"
  <2> DEFINE f == Frame("new", m)
             l == Success("run", m)
  <2>1. /\ f \in FrameType /\ f.op = "new"
        /\ l \in FrameType /\ l.op = "run" /\ l.async = m /\ l.ok
    BY NewFrames, MIsAChild DEF Operations
  <2>2. Call(th, <<f, l>>)
    BY <1>9
  <2> HIDE DEF f, l
  <2>3. /\ l \notin Starters /\ l \notin AboutToCall /\ l \notin Successes /\ l \notin Failures
        /\ \A set \in DOMAIN NextAfter : l \notin Setting(set)
    BY <2>1, MIsAChild DEF Starters, AboutToCall, Failures, Successes, Setting, NextAfter
  <2>4. Aside(f)
    BY <2>1, AsideFrames
  <2>5. Moved(th) /\ Turns(h, l)
    BY <1>2, <1>3, <2>1, <2>2, <2>4, Turn2
  <2> QED BY <1>6, <1>9, <2>3, <2>5
<1> QED BY <1>7, <1>8, <1>9 DEF SslConnect, AsyncCall

\* What is known of a thread that runs a phase.
LEMMA RunningAPhase ==
  ASSUME HandshakeInv, NEW th \in Threads, Runs(th, TRUE)
  PROVE  /\ stack[th] # << >> /\ Head(stack[th]) \in FrameType
         /\ \A F : Count(F) \in Nat /\ Count(F) >= One(Head(stack[th]) \in F)
         /\ Head(stack[th]) \in OkRun /\ Head(stack[th]).op \in {"run", "async_notify"}
         /\ Head(stack[th]).async = m
         /\ Count(OkRun) = 1 /\ Count(AboutToCall) = 0 /\ Count(Starters) = 0 /\ ~Busy /\ ~product
         /\ Count(Successes) = 0
         /\ Count(Failures) > 0 => Interrupted \/ context # "live"
         /\ \A set \in DOMAIN NextAfter : Count(Setting(set)) > 0 => set \in Behind(th)
<1> DEFINE h == Head(stack[th])
<1>1. /\ stack[th] # << >> /\ h \in FrameType /\ h.op \in {"run", "async_notify"} /\ h.async = m
      /\ h = stack[th][1] /\ \A F : Count(F) \in Nat /\ Count(F) >= One(h \in F)
  BY Executing DEF Runs
<1>2. h \in OkRun
  BY <1>1 DEF Runs, OkRun
<1>3. /\ OneToken /\ SuccessIsReported /\ FailureIsReported /\ Bottom
      /\ stack \in Stacks /\ Finite(stack)
  BY DEF HandshakeInv, HandshakeTypes
<1>4. /\ Count(OkRun) = 1 /\ Count(AboutToCall) = 0 /\ Count(Starters) = 0 /\ ~Busy /\ ~product
  <2> HIDE DEF h
  <2>1. Count(OkRun) >= 1
    BY <1>1, <1>2 DEF One
  <2> QED BY <1>1, <1>3, <2>1 DEF OneToken, One
<1>5. Count(Successes) = 0 /\ (Count(Failures) > 0 => Interrupted \/ context # "live")
  BY <1>1, <1>3, <1>4 DEF SuccessIsReported, FailureIsReported
<1>6. ASSUME NEW set \in DOMAIN NextAfter, Count(Setting(set)) > 0
      PROVE  set \in Behind(th)
  <2>1. PICK t \in Threads : \E i \in DOMAIN stack[t] : stack[t][i] \in Setting(set)
    BY <1>3, <1>6, NoneCounted
  <2>2. PICK i \in DOMAIN stack[t] : stack[t][i] \in Setting(set)
    BY <2>1
  <2>3. stack[t][i].op = set
    BY <2>2 DEF Setting
  <2>4. t # th
    <3>1. stack[th] \in Seq(FrameType)
      BY <1>3 DEF Stacks
    <3>2. Len(stack[th]) = 1
      <4>1. 1 \in DOMAIN stack[th] /\ stack[th][1] \in OkRun \union Starters
        BY <1>1, <1>2, <3>1
      <4> QED BY <1>3, <4>1 DEF Bottom
    <3>3. \A k \in DOMAIN stack[th] : stack[th][k] = h
      BY <1>1, <3>1, <3>2
    <3>4. h.op # set
      BY <1>1 DEF NextAfter
    <3> HIDE DEF h
    <3> QED BY <2>2, <2>3, <3>3, <3>4
  <2> QED BY <2>3, <2>4 DEF Behind
<1> QED BY <1>1, <1>2, <1>4, <1>5, <1>6

\* A phase makes its call.
LEMMA CallSocketKeepsHandshake ==
  ASSUME HandshakeInv, NEW th \in Threads, Runs(th, TRUE), context = "live", RunsOn(th),
         NEW op \in {"connect_base", "send", "receive"}, NEW set \in DOMAIN NextAfter,
         CallSocket(th, op, set), UNCHANGED <<next, context, product>>
  PROVE  HandshakeInv'
<1> DEFINE h == Head(stack[th])
           f == Frame(op, m)
           g == Frame(set, m)
           l == Frame("check", m)
<1>1. /\ stack[th] # << >> /\ h \in FrameType /\ h \in OkRun
      /\ h.op \in {"run", "async_notify"} /\ h.async = m
      /\ \A F : Count(F) \in Nat
      /\ Count(OkRun) = 1 /\ Count(AboutToCall) = 0 /\ Count(Starters) = 0 /\ ~Busy /\ ~product
      /\ Count(Successes) = 0
      /\ Count(Failures) > 0 => Interrupted \/ context # "live"
      /\ \A s \in DOMAIN NextAfter : Count(Setting(s)) > 0 => s \in Behind(th)
  BY RunningAPhase
<1>2. /\ f \in FrameType /\ f.op = op /\ f.async = m
      /\ g \in FrameType /\ g.op = set /\ l \in FrameType /\ l.op = "check"
  <2>1. op \in Operations /\ "check" \in Operations
    BY DEF Operations
  <2>2. set \in {"set_1", "set_3", "set_4"}
    BY DEF NextAfter
  <2>3. set \in Operations
    BY <2>2 DEF Operations
  <2>4. f \in FrameType /\ f.op = op /\ f.async = m
    BY <2>1, NewFrames, MIsAChild
  <2>5. g \in FrameType /\ g.op = set
    BY <2>3, NewFrames, MIsAChild
  <2>6. l \in FrameType /\ l.op = "check"
    BY <2>1, NewFrames, MIsAChild
  <2> QED BY <2>4, <2>5, <2>6
<1>3. Call(th, <<f, g, l>>) /\ due' = NextAfter[set]
  BY DEF CallSocket
<1>4. UNCHANGED <<canceled, child, io, asked>> /\ overtaken' = overtaken \union Behind(th)
  BY DEF RunsOn, operation
<1> HIDE DEF h, f, g, l
<1>5. Aside(l)
  BY <1>2, AsideFrames
<1>6. /\ h \notin AboutToCall /\ h \notin Starters /\ h \notin Successes /\ h \notin Failures
      /\ \A s \in DOMAIN NextAfter : h \notin Setting(s)
  BY <1>1, MIsAChild DEF AboutToCall, Starters, Successes, Failures, Setting, NextAfter
<1>7. /\ f \in AboutToCall /\ f \notin OkRun /\ f \notin Starters /\ f \notin Successes /\ f \notin Failures
      /\ \A s \in DOMAIN NextAfter : f \notin Setting(s)
  BY <1>2, MIsAChild DEF OkRun, AboutToCall, Starters, Successes, Failures, Setting, NextAfter
<1>8. /\ g \notin AboutToCall /\ g \notin OkRun /\ g \notin Starters /\ g \notin Successes
      /\ g \notin Failures /\ g \in Setting(set)
      /\ \A s \in DOMAIN NextAfter \ {set} : g \notin Setting(s)
  BY <1>2 DEF OkRun, AboutToCall, Starters, Successes, Failures, Setting, NextAfter
<1>9. /\ stack' \in Stacks /\ Finite(stack')
      /\ \A F : Count(F)' = Count(F) - One(h \in F) + One(l \in F) + One(g \in F) + One(f \in F)
  BY <1>1, <1>2, <1>3, Counting3 DEF HandshakeInv, HandshakeTypes, h
<1>10. /\ Count(OkRun)' = 0 /\ Count(AboutToCall)' = 1 /\ Count(Starters)' = 0
       /\ Count(Successes)' = 0 /\ Count(Failures)' = Count(Failures)
  <2>1. /\ l \notin OkRun /\ l \notin AboutToCall /\ l \notin Starters
        /\ l \notin Successes /\ l \notin Failures
    BY <1>5 DEF Aside
  <2>2. /\ Count(OkRun)' = 0 /\ Count(AboutToCall)' = 1 /\ Count(Starters)' = 0
    BY <1>1, <1>6, <1>7, <1>8, <1>9, <2>1 DEF One
  <2>3. Count(Successes)' = 0 /\ Count(Failures)' = Count(Failures)
    BY <1>1, <1>6, <1>7, <1>8, <1>9, <2>1 DEF One
  <2> QED BY <2>2, <2>3
<1>11. /\ Count(Setting(set))' > 0
       /\ \A s \in DOMAIN NextAfter \ {set} : Count(Setting(s))' = Count(Setting(s))
  <2>1. \A s \in DOMAIN NextAfter : l \notin Setting(s)
    BY <1>5 DEF Aside
  <2>2. \A F : /\ h \notin F /\ l \notin F /\ f \notin F
               => Count(F)' = Count(F) + One(g \in F)
    BY <1>1, <1>9 DEF One
  <2>3. \A s \in DOMAIN NextAfter : Count(Setting(s))' = Count(Setting(s)) + One(g \in Setting(s))
    BY <1>6, <1>7, <2>1, <2>2
  <2>4. Count(Setting(set)) \in Nat /\ Count(Setting(set))' = Count(Setting(set)) + 1
    BY <1>1, <1>8, <2>3 DEF One
  <2>5. ASSUME NEW s \in DOMAIN NextAfter \ {set}
        PROVE  Count(Setting(s))' = Count(Setting(s))
    BY <1>1, <1>8, <2>3 DEF One
  <2> QED BY <2>4, <2>5
<1>12. Bottom'
  <2>1. /\ <<f, g, l>> \in Seq(FrameType) /\ DOMAIN <<f, g, l>> = {1, 2, 3}
        /\ <<f, g, l>>[1] = f /\ <<f, g, l>>[2] = g /\ <<f, g, l>>[3] = l
    BY <1>2
  <2>2. /\ f \notin OkRun \union Starters /\ g \notin OkRun \union Starters
        /\ l \notin OkRun \union Starters
    BY <1>5, <1>7, <1>8 DEF Aside
  <2> QED BY <1>1, <1>3, <2>1, <2>2, BottomAfter
<1>13. Moved(th)
  <2>1. stack \in Stacks
    BY DEF HandshakeInv, HandshakeTypes
  <2> QED BY <1>3, <1>9, <1>12, <2>1, ThreadsStay DEF Moved
<1>14. Typed /\ Busy' = Busy
  BY <1>4, TypedIfSame
<1>15. /\ HandshakeTypes' /\ CancellersRest' /\ Bottom'
       /\ Interrupted => Interrupted'
  BY <1>1, <1>4, <1>13, <1>14, Settles
<1>16. OneToken'
  BY <1>1, <1>10, <1>14 DEF OneToken, One
<1>17. DueIsWritten'
  BY <1>11 DEF DueIsWritten
<1>18. SettersAreRight'
  <2> SUFFICES ASSUME ~Overwritten', NEW s \in DOMAIN NextAfter, Count(Setting(s))' > 0
               PROVE  NextAfter[s] = due'
    BY DEF SettersAreRight
  <2>1. s \notin Behind(th)
    BY <1>4 DEF Overwritten
  <2>2. s = set
    BY <1>1, <1>11, <2>1
  <2> QED BY <1>3, <2>2
<1>19. ContextAsDue' /\ SuccessIsReported'
  BY <1>1, <1>10 DEF HandshakeInv, ContextAsDue, SuccessIsReported
<1>20. FailureIsReported'
  BY <1>1, <1>10, <1>15 DEF FailureIsReported
<1> QED BY <1>15, <1>16, <1>17, <1>18, <1>19, <1>20 DEF HandshakeInv

\* The last phase makes the object.
LEMMA FinishKeepsHandshake ==
  ASSUME HandshakeInv, NEW th \in Threads, Runs(th, TRUE), context = "live", RunsOn(th),
         Finish(th)
  PROVE  HandshakeInv'
<1> DEFINE h == Head(stack[th])
           l == Frame("check", m)
<1>1. /\ stack[th] # << >> /\ h \in OkRun
      /\ h.op \in {"run", "async_notify"} /\ h.async = m
      /\ \A F : Count(F) \in Nat
      /\ Count(OkRun) = 1 /\ Count(AboutToCall) = 0 /\ Count(Starters) = 0 /\ ~Busy /\ ~product
      /\ Count(Successes) = 0
      /\ Count(Failures) > 0 => Interrupted \/ context # "live"
  BY RunningAPhase
<1>2. l \in FrameType /\ l.op = "check"
  BY NewFrames, MIsAChild DEF Operations
<1>3. Call(th, <<l>>) /\ product' /\ context' = "freed" /\ UNCHANGED due
  BY DEF Finish
<1>4. UNCHANGED <<canceled, child, io, asked>> /\ overtaken' = overtaken \union Behind(th)
  BY DEF RunsOn, operation
<1> HIDE DEF l
<1>5. Aside(l)
  BY <1>2, AsideFrames
<1>6. Moved(th) /\ Turns(h, l)
  BY <1>1, <1>2, <1>3, <1>5, Turn1 DEF Aside
<1> HIDE DEF h
<1>7. /\ h \notin AboutToCall /\ h \notin Starters /\ h \notin Successes /\ h \notin Failures
      /\ \A s \in DOMAIN NextAfter : h \notin Setting(s)
  BY <1>1, MIsAChild DEF AboutToCall, Starters, Successes, Failures, Setting, NextAfter
<1>8. /\ Count(OkRun)' = 0 /\ Count(AboutToCall)' = 0 /\ Count(Starters)' = 0
      /\ Count(Successes)' = 0 /\ Count(Failures)' = Count(Failures)
      /\ \A s \in DOMAIN NextAfter : Count(Setting(s))' = Count(Setting(s))
  BY <1>1, <1>5, <1>6, <1>7 DEF Turns, Aside, One
<1>9. Typed /\ Busy' = Busy
  BY <1>4, TypedIfSame
<1>10. /\ HandshakeTypes' /\ CancellersRest' /\ Bottom'
       /\ Interrupted => Interrupted'
       /\ Overwritten => Overwritten'
  <2>1. stack[th] # << >>
    BY <1>1
  <2> QED BY <1>4, <1>6, <1>9, <2>1, Settles
<1>11. OneToken'
  BY <1>1, <1>3, <1>8, <1>9 DEF OneToken, One
<1>12. DueIsWritten' /\ SettersAreRight'
  BY <1>3, <1>8, <1>10 DEF HandshakeInv, DueIsWritten, SettersAreRight
<1>13. ContextAsDue' /\ SuccessIsReported'
  BY <1>3, <1>8 DEF ContextAsDue, SuccessIsReported
<1>14. FailureIsReported'
  BY <1>1, <1>8, <1>10 DEF FailureIsReported
<1> QED BY <1>10, <1>11, <1>12, <1>13, <1>14 DEF HandshakeInv

\* XF_ASYNC_PHASE_ERROR: no object has been made and none will be.
LEMMA RunErrorKeepsHandshake ==
  ASSUME HandshakeInv, NEW th \in Threads, RunError(th)
  PROVE  HandshakeInv'
<1> DEFINE h == Head(stack[th])
           l == Frame("notify", Root)
           f == Frame("release", m)
<1>1. /\ stack[th] # << >> /\ h \in FrameType /\ h.op \in {"run", "async_notify"} /\ h.async = m
      /\ ~h.ok /\ \A F : Count(F) \in Nat
  BY Executing DEF RunError, Runs
<1>2. /\ l \in FrameType /\ l.op = "notify" /\ l.async = Root /\ ~l.ok
      /\ f \in FrameType /\ f.op = "release"
  BY NewFrames, MIsAChild DEF Operations
<1>3. /\ Call(th, <<l, f>>) /\ context = "live" /\ context' = "freed"
      /\ UNCHANGED <<canceled, child, io, asked, next, product, due, overtaken>>
  BY DEF RunError, rest, operation
<1> HIDE DEF l, f
<1>4. Aside(f)
  BY <1>2, AsideFrames
<1>5. /\ l \notin OkRun /\ l \notin AboutToCall /\ l \notin Starters /\ l \notin Successes
      /\ \A s \in DOMAIN NextAfter : l \notin Setting(s)
  BY <1>2, MIsAChild DEF OkRun, AboutToCall, Starters, Successes, Setting, NextAfter
<1>6. Moved(th) /\ Turns(h, l)
  BY <1>1, <1>2, <1>3, <1>4, <1>5, Turn2First
<1> HIDE DEF h
<1>7. /\ h \notin OkRun /\ h \notin AboutToCall /\ h \notin Starters /\ h \notin Successes
      /\ \A s \in DOMAIN NextAfter : h \notin Setting(s)
  BY <1>1, MIsAChild DEF OkRun, AboutToCall, Starters, Successes, Setting, NextAfter
<1>8. /\ Count(OkRun)' = Count(OkRun) /\ Count(AboutToCall)' = Count(AboutToCall)
      /\ Count(Starters)' = Count(Starters) /\ Count(Successes)' = Count(Successes)
      /\ \A s \in DOMAIN NextAfter : Count(Setting(s))' = Count(Setting(s))
  BY <1>1, <1>5, <1>6, <1>7 DEF Turns, One
<1>9. Typed /\ Busy' = Busy
  BY <1>3, TypedIfSame
<1>10. /\ HandshakeTypes' /\ CancellersRest' /\ Bottom'
       /\ Overwritten' = Overwritten
  BY <1>1, <1>3, <1>6, <1>9, Settles DEF Overwritten
<1>11. OneToken'
  BY <1>3, <1>8, <1>9 DEF HandshakeInv, OneToken
<1>12. DueIsWritten' /\ SettersAreRight'
  BY <1>3, <1>8, <1>10 DEF HandshakeInv, DueIsWritten, SettersAreRight
<1>13. ~product /\ Count(Starters) = 0
  BY <1>1, <1>3 DEF HandshakeInv, ContextAsDue
<1>14. ContextAsDue' /\ SuccessIsReported'
  BY <1>3, <1>8, <1>13 DEF HandshakeInv, ContextAsDue, SuccessIsReported
<1>15. FailureIsReported'
  BY <1>3, <1>8, <1>13 DEF FailureIsReported
<1> QED BY <1>10, <1>11, <1>12, <1>14, <1>15 DEF HandshakeInv

\* Steps that misuse the context.
LEMMA MisuseKeepsHandshake ==
  ASSUME HandshakeInv, NEW th \in Threads, NEW what, Misuse(th, what), RunsOn(th),
         UNCHANGED <<next, context, product>>
  PROVE  HandshakeInv'
<1>1. /\ UNCHANGED <<stack, canceled, child, io, asked, due>> /\ overtaken \subseteq overtaken'
  BY DEF Misuse, RunsOn, operation
<1>2. io' \in [Asyncs -> {"none", "pending", "queued", "done"}] /\ Busy' = Busy
  BY <1>1 DEF HandshakeInv, HandshakeTypes, Busy
<1> QED BY <1>1, <1>2, StandingKeepsHandshake

\* xf_async_run_next_phase
LEMMA RunPhaseKeepsHandshake ==
  ASSUME HandshakeInv, NEW th \in Threads, RunPhase(th)
  PROVE  HandshakeInv'
<1>1. Runs(th, TRUE) /\ context = "live" /\ RunsOn(th)
  BY DEF RunPhase
<1>2. ASSUME NEW op \in {"connect_base", "send", "receive"}, NEW set \in DOMAIN NextAfter,
             CallSocket(th, op, set), UNCHANGED <<next, context, product>>
      PROVE  HandshakeInv'
  BY <1>1, <1>2, CallSocketKeepsHandshake
<1>3. ASSUME Phase3(th)
      PROVE  HandshakeInv'
  <2>1. CASE Continue(th)
    <3>1. /\ CallSocket(th, "receive", "set_4") /\ UNCHANGED <<next, context, product>>
          /\ "set_4" \in DOMAIN NextAfter
      BY <2>1 DEF Continue, NextAfter
    <3> QED BY <3>1, <1>2
  <2>2. CASE Finish(th)
    BY <1>1, <2>2, FinishKeepsHandshake
  <2>3. CASE FailPhase(th) /\ UNCHANGED <<next, context>>
    <3>1. Misuse(th, "context_free") /\ UNCHANGED <<next, context, product>>
      BY <2>3 DEF FailPhase
    <3> QED BY <1>1, <3>1, MisuseKeepsHandshake
  <2> QED BY <1>3, <2>1, <2>2, <2>3 DEF Phase3
<1>4. CASE ConnectBase(th) /\ UNCHANGED <<next, context, ss, tokens, product>>
  <2>1. CallSocket(th, "connect_base", "set_1") /\ "set_1" \in DOMAIN NextAfter
    BY <1>4 DEF ConnectBase, NextAfter
  <2> QED BY <1>2, <1>4, <2>1
<1>5. CASE Phase2(th)
  <2>1. CASE CallSocket(th, "send", "set_3") /\ UNCHANGED <<next, context, product>>
    <3>1. "set_3" \in DOMAIN NextAfter
      BY DEF NextAfter
    <3> QED BY <1>2, <2>1, <3>1
  <2> QED BY <1>3, <1>5, <2>1 DEF Phase2
<1> QED BY <1>3, <1>4, <1>5 DEF RunPhase

LEMMA RunTooLateKeepsHandshake ==
  ASSUME HandshakeInv, NEW th \in Threads, RunTooLate(th)
  PROVE  HandshakeInv'
<1>1. /\ Misuse(th, "context_use") /\ RunsOn(th) /\ UNCHANGED <<next, context, product>>
  BY DEF RunTooLate
<1> QED BY <1>1, MisuseKeepsHandshake

\* The end of xf_async_run_next_phase: the user hears of success once the object is made.
LEMMA CheckKeepsHandshake ==
  ASSUME HandshakeInv, NEW th \in Threads, Check(th)
  PROVE  HandshakeInv'
<1>1. At(th, "check", m) /\ UNCHANGED <<canceled, child, io, asked, handshake>>
  BY DEF Check, rest, operation
<1>2. "check" \notin DOMAIN NextAfter /\ Typed /\ Busy' = Busy
  BY <1>1, TypedIfSame DEF NextAfter
<1>3. CASE next # XF_ASYNC_PHASE_EXIT
  <2>1. Return(th)
    BY <1>3 DEF Check, Return
  <2> QED BY <1>1, <1>2, <2>1, ReturnKeepsHandshake
<1>4. CASE next = XF_ASYNC_PHASE_EXIT
  <2> DEFINE h == Head(stack[th])
             l == Success("notify", Root)
             f == Frame("release", m)
  <2>1. Call(th, <<l, f>>)
    BY <1>4 DEF Check
  <2>2. /\ l \in FrameType /\ l.op = "notify" /\ l.async = Root /\ l.ok
        /\ f \in FrameType /\ f.op = "release"
    BY NewFrames, MIsAChild DEF Operations
  <2>3. stack[th] # << >> /\ h \in FrameType /\ h.op = "check"
    BY <1>1, Executing
  <2> HIDE DEF l, f
  <2>4. Aside(f)
    BY <2>2, AsideFrames
  <2>5. /\ l \notin OkRun /\ l \notin AboutToCall /\ l \notin Starters /\ l \notin Failures
        /\ \A s \in DOMAIN NextAfter : h \notin Setting(s) /\ l \notin Setting(s)
    BY <2>2, <2>3, MIsAChild DEF OkRun, AboutToCall, Starters, Failures, Setting, NextAfter
  <2>6. product
    BY <1>4 DEF HandshakeInv, ContextAsDue
  <2>7. Moved(th) /\ Turns(h, l)
    BY <2>1, <2>2, <2>3, <2>4, <2>5, Turn2First
  <2> HIDE DEF h
  <2>8. Becomes(h, l)
    BY <1>2, <2>5, <2>6 DEF Becomes, One
  <2> QED BY <1>1, <1>2, <2>7, <2>8, StepKeepsHandshake DEF h
<1> QED BY <1>3, <1>4

\* The thread that made a call writes the number of the next phase.
LEMMA SetNextPhaseKeepsHandshake ==
  ASSUME HandshakeInv, NEW th \in Threads, SetNextPhase(th)
  PROVE  HandshakeInv'
<1> DEFINE h == Head(stack[th])
<1>1. PICK set \in DOMAIN NextAfter : At(th, set, m) /\ next' = NextAfter[set] /\ Return(th)
  BY DEF SetNextPhase
<1>2. UNCHANGED <<canceled, child, io, asked, context, product, due, overtaken>>
  BY DEF SetNextPhase, rest, operation
<1>3. /\ stack[th] # << >> /\ h \in FrameType /\ h.op = set
      /\ \A F : Count(F) \in Nat /\ Count(F) >= One(h \in F)
  BY <1>1, Executing
<1>4. Moved(th) /\ Turns(h, Silent) /\ Aside(Silent)
  BY <1>1, <1>3, Turn0, SilentIsAside DEF Return
<1> HIDE DEF h
<1>5. /\ h \notin OkRun /\ h \notin AboutToCall /\ h \notin Starters /\ h \notin Successes
      /\ h \notin Failures /\ h \in Setting(set)
      /\ \A s \in DOMAIN NextAfter \ {set} : h \notin Setting(s)
  BY <1>3 DEF OkRun, AboutToCall, Starters, Successes, Failures, Setting, NextAfter
<1>6. /\ Count(OkRun)' = Count(OkRun) /\ Count(AboutToCall)' = Count(AboutToCall)
      /\ Count(Starters)' = Count(Starters)
      /\ Count(Successes)' = Count(Successes) /\ Count(Failures)' = Count(Failures)
  BY <1>3, <1>4, <1>5 DEF Turns, Aside, One
<1>7. \A s \in DOMAIN NextAfter : Count(Setting(s))' > 0 => Count(Setting(s)) > 0
  <2>1. \A s \in DOMAIN NextAfter :
          Count(Setting(s))' = Count(Setting(s)) - One(h \in Setting(s)) + One(Silent \in Setting(s))
    BY <1>4 DEF Turns
  <2>2. \A s \in DOMAIN NextAfter : Silent \notin Setting(s)
    BY <1>4 DEF Aside
  <2> QED BY <1>3, <2>1, <2>2 DEF One
<1>8. Count(Setting(set)) > 0
  BY <1>3, <1>5 DEF One
<1>9. Overwritten \/ next' = due
  BY <1>1, <1>8 DEF HandshakeInv, SettersAreRight
<1>10. Typed /\ Busy' = Busy
  BY <1>2, TypedIfSame
<1>11. /\ HandshakeTypes' /\ CancellersRest' /\ Bottom'
       /\ Interrupted => Interrupted'
       /\ Overwritten' = Overwritten
  BY <1>2, <1>3, <1>4, <1>10, Settles DEF Overwritten
<1>12. OneToken'
  BY <1>2, <1>6, <1>10 DEF HandshakeInv, OneToken
<1>13. DueIsWritten'
  BY <1>2, <1>9, <1>11 DEF DueIsWritten
<1>14. SettersAreRight'
  BY <1>2, <1>7, <1>11 DEF HandshakeInv, SettersAreRight
<1>15. ContextAsDue'
  <2>1. next' # XF_ASYNC_PHASE_EXIT
    BY <1>1 DEF NextAfter, XF_ASYNC_PHASE_EXIT
  <2> QED BY <1>2, <1>6, <2>1 DEF HandshakeInv, ContextAsDue
<1>16. SuccessIsReported'
  BY <1>2, <1>6 DEF HandshakeInv, SuccessIsReported
<1>17. FailureIsReported'
  BY <1>2, <1>6, <1>11 DEF HandshakeInv, FailureIsReported
<1> QED BY <1>11, <1>12, <1>13, <1>14, <1>15, <1>16, <1>17 DEF HandshakeInv

-----------------------------------------------------------------------------
(* The invariant *)

LEMMA InHandshake ==
  ASSUME HandshakeInit
  PROVE  HandshakeInv
<1> DEFINE f == Frame("new", Root)
           g == Frame("start", Root)
           empty == [th \in Threads |-> << >>]
           one == Pushed(empty, Issuer, g)
<1>1. /\ Issuer \in Threads /\ f \in FrameType /\ g \in FrameType
      /\ f.op = "new" /\ g.op = "start" /\ g.async = Root
  BY NewFrames, MIsAChild DEF Threads, Operations
<1>2. /\ io = [a \in Asyncs |-> "none"] /\ canceled = [a \in Asyncs |-> FALSE]
      /\ child = [a \in Asyncs |-> None] /\ asked = {}
      /\ next = 0 /\ context = "none" /\ ~product /\ due = 0 /\ overtaken = {}
      /\ stack = [th \in Threads |-> IF th = Issuer THEN <<f, g>> ELSE << >>]
  BY DEF HandshakeInit, Init, NoneYet
<1>3. empty \in Stacks /\ Finite(empty) /\ \A F : Cardinality(Spots(empty, F)) = 0
  <2>1. empty \in Stacks
    BY DEF Stacks
  <2>2. Places(empty) = {}
    BY DEF Places
  <2>3. \A F : Spots(empty, F) = {}
    BY <2>2 DEF Spots
  <2> HIDE DEF empty
  <2> QED BY <2>1, <2>2, <2>3, FS_EmptySet DEF Finite
<1>4. stack = Pushed(one, Issuer, f)
  <2>1. <<g>> \o << >> = <<g>> /\ <<f>> \o <<g>> = <<f, g>>
    BY <1>1, Tuples
  <2> QED BY <1>1, <1>2, <2>1 DEF Pushed
<1> HIDE DEF empty
<1>5. /\ one \in Stacks /\ Finite(one)
      /\ \A F : Cardinality(Spots(one, F)) = Cardinality(Spots(empty, F)) + One(g \in F)
  BY <1>1, <1>3, PushSpots
<1> HIDE DEF one
<1>6. /\ stack \in Stacks /\ Finite(stack)
      /\ \A F : Count(F) = Cardinality(Spots(one, F)) + One(f \in F)
  BY <1>1, <1>4, <1>5, PushSpots DEF Count
<1>7. \A F : Count(F) = One(g \in F) + One(f \in F)
  BY <1>3, <1>5, <1>6 DEF One
<1>8. Aside(f)
  BY <1>1, AsideFrames
<1>9. /\ g \in Starters /\ g \notin OkRun /\ g \notin AboutToCall /\ g \notin Successes
      /\ g \notin Failures /\ \A s \in DOMAIN NextAfter : g \notin Setting(s)
  BY <1>1 DEF OkRun, AboutToCall, Starters, Successes, Failures, Setting, NextAfter
<1> HIDE DEF f, g
<1>10. /\ Count(OkRun) = 0 /\ Count(AboutToCall) = 0 /\ Count(Starters) = 1
       /\ Count(Successes) = 0 /\ Count(Failures) = 0
       /\ \A s \in DOMAIN NextAfter : Count(Setting(s)) = 0
  BY <1>7, <1>8, <1>9 DEF Aside, One
<1>11. HandshakeTypes
  BY <1>2, <1>6 DEF HandshakeTypes
<1>12. CancellersRest
  <2>1. Issuer \notin Cancellers /\ Cancellers \subseteq Threads
    BY AsyncAssumption DEF Threads
  <2> QED BY <1>2, <2>1 DEF CancellersRest
<1>13. Bottom
  <2>1. f \notin OkRun \union Starters
    BY <1>8 DEF Aside
  <2> QED BY <1>2, <2>1 DEF Bottom
<1>14. OneToken
  BY <1>2, <1>10, MIsAChild DEF OneToken, Busy, One
<1>15. DueIsWritten /\ SettersAreRight /\ ContextAsDue /\ SuccessIsReported /\ FailureIsReported
  BY <1>2, <1>10 DEF DueIsWritten, SettersAreRight, ContextAsDue, SuccessIsReported,
     FailureIsReported, XF_ASYNC_PHASE_EXIT
<1> QED BY <1>11, <1>12, <1>13, <1>14, <1>15 DEF HandshakeInv

LEMMA StepsKeepHandshake ==
  ASSUME Ops \subseteq {"ssl_connect"}, HandshakeInv, NEW th \in Threads, HandshakeStep(th)
  PROVE  HandshakeInv'
<1>1. CASE UNCHANGED handshake /\ \E a \in {Root, m} : New(th, a) \/ AddTimerRef(th, a) \/ Schedule(th, a)
  BY <1>1, MIsAChild, NewKeepsHandshake, AddTimerRefKeepsHandshake, ScheduleKeepsHandshake
<1>2. CASE UNCHANGED handshake /\ Start(th, Root)
  BY <1>2, StartKeepsHandshake
<1>3. CASE /\ UNCHANGED handshake
           /\ \/ Send(th, m) \/ SendEnter(th, m) \/ SubmitSend(th, m)
              \/ Receive(th, m) \/ Recv(th, m)
  BY <1>3, CallsKeepHandshake
<1>4. CASE UNCHANGED handshake /\ (AsyncNotify(th, Root) \/ Callback(th, Root))
  BY <1>4, AsyncNotifyKeepsHandshake, CallbackKeepsHandshake
<1>5. CASE /\ UNCHANGED handshake
           /\ \E a \in Asyncs : \/ Notify(th, a) \/ AsyncCancel(th, a) \/ Cancel(th, a)
                                \/ Release(th, a) \/ Destroy(th, a) \/ Unlock(th, a)
  BY <1>5, NotifyKeepsHandshake, AsyncCancelKeepsHandshake, CancelKeepsHandshake, ReleaseKeepsHandshake,
     DestroyKeepsHandshake, UnlockKeepsHandshake
<1>6. CASE UNCHANGED handshake /\ UseAfterFree(th)
  <2>1. UNCHANGED <<stack, canceled, child, io, asked, next, context, product, due, overtaken>>
    BY <1>6 DEF UseAfterFree, operation, handshake
  <2>2. io' \in [Asyncs -> {"none", "pending", "queued", "done"}] /\ Busy' = Busy
    BY <2>1 DEF HandshakeInv, HandshakeTypes, Busy
  <2> QED BY <2>1, <2>2, StandingKeepsHandshake
<1>7. CASE SslConnect(th) \/ RunPhase(th) \/ RunError(th) \/ RunTooLate(th)
  BY <1>7, SslConnectKeepsHandshake, RunPhaseKeepsHandshake, RunErrorKeepsHandshake, RunTooLateKeepsHandshake
<1>8. CASE SetNextPhase(th) \/ Check(th) \/ ConnectEnter(th) \/ StartBase(th)
  BY <1>8, SetNextPhaseKeepsHandshake, CheckKeepsHandshake, CallsKeepHandshake
<1> QED BY <1>1, <1>2, <1>3, <1>4, <1>5, <1>6, <1>7, <1>8 DEF HandshakeStep

LEMMA HandshakeNextPreserves ==
  ASSUME Ops \subseteq {"ssl_connect"}, HandshakeInv, [HandshakeNext]_handshakeVars
  PROVE  HandshakeInv'
<1>1. CASE \E th \in Threads : HandshakeStep(th)
  BY <1>1, StepsKeepHandshake
<1>2. CASE UNCHANGED handshake /\ IoEnds(m)
  <2>1. /\ UNCHANGED <<stack, canceled, child, asked, next, context, product, due, overtaken>>
        /\ io' = [io EXCEPT ![m] = "queued"] /\ io[m] = "pending"
    BY <1>2 DEF IoEnds, operation, rest, handshake
  <2>2. io' \in [Asyncs -> {"none", "pending", "queued", "done"}] /\ Busy' = Busy
    BY <2>1, MIsAChild DEF HandshakeInv, HandshakeTypes, Busy
  <2> QED BY <2>1, <2>2, StandingKeepsHandshake
<1>3. CASE UNCHANGED handshake /\ \E th \in Workers : Dequeue(th, m)
  BY <1>3, DequeueKeepsHandshake
<1>4. CASE UNCHANGED handshake /\ \E a \in Asyncs : TimeoutFires(a)
  BY <1>4, TimeoutFiresKeepsHandshake
<1>5. CASE UNCHANGED handshake /\ \E th \in Cancellers : Ask(th)
  BY <1>5, AskKeepsHandshake
<1>6. CASE UNCHANGED handshakeVars
  <2>1. UNCHANGED <<stack, canceled, child, io, asked, next, context, product, due, overtaken>>
    BY <1>6 DEF handshakeVars, vars, operation, handshake
  <2>2. io' \in [Asyncs -> {"none", "pending", "queued", "done"}] /\ Busy' = Busy
    BY <2>1 DEF HandshakeInv, HandshakeTypes, Busy
  <2> QED BY <2>1, <2>2, StandingKeepsHandshake
<1> QED BY <1>1, <1>2, <1>3, <1>4, <1>5, <1>6 DEF HandshakeNext

LEMMA HandshakeInvariant ==
  ASSUME Ops \subseteq {"ssl_connect"}
  PROVE  HandshakeSafeSpec => []HandshakeInv
<1>1. HandshakeInit => HandshakeInv
  BY InHandshake
<1>2. HandshakeInv /\ [HandshakeNext]_handshakeVars => HandshakeInv'
  BY HandshakeNextPreserves
<1> QED BY <1>1, <1>2, PTL DEF HandshakeSafeSpec

\* However the threads interleave, the completion of a call runs the phase that
\* follows it, unless a completion has overtaken the thread that made its call.
THEOREM PhasesRunAsDue ==
  ASSUME Ops \subseteq {"ssl_connect"}
  PROVE  HandshakeSafeSpec => []PhaseAsDue
<1>1. HandshakeInv => PhaseAsDue
  <2> SUFFICES ASSUME HandshakeInv, NEW th \in Threads, Runs(th, TRUE)
               PROVE  next = due \/ (overtaken \union Behind(th)) \cap DOMAIN NextAfter # {}
    BY DEF PhaseAsDue
  <2>1. /\ ~product
        /\ \A set \in DOMAIN NextAfter : Count(Setting(set)) > 0 => set \in Behind(th)
    BY RunningAPhase
  <2>2. DueIsWritten
    BY DEF HandshakeInv
  <2> QED BY <2>1, <2>2 DEF DueIsWritten, Overwritten
<1> QED BY <1>1, HandshakeInvariant, PTL

\* The callback reports success only if there is a socket, and failure only if
\* there is none or somebody has interfered.
THEOREM ResultIsReported ==
  ASSUME Ops \subseteq {"ssl_connect"}
  PROVE  HandshakeSafeSpec => []ReportsItsResult
<1>1. HandshakeInv => ReportsItsResult
  <2> SUFFICES ASSUME HandshakeInv, NEW th \in Threads, At(th, "callback", Root)
               PROVE  IF Head(stack[th]).ok THEN product ELSE product => Interrupted
    BY DEF ReportsItsResult
  <2> DEFINE h == Head(stack[th])
  <2>1. /\ h \in FrameType /\ h.op = "callback" /\ h.async = Root
        /\ \A F : Count(F) \in Nat /\ Count(F) >= One(h \in F)
    BY Executing
  <2>2. SuccessIsReported /\ FailureIsReported
    BY DEF HandshakeInv
  <2> HIDE DEF h
  <2>3. CASE h.ok
    <3>1. h \in Successes
      BY <2>1, <2>3 DEF Successes
    <3> QED BY <2>1, <2>2, <2>3, <3>1 DEF SuccessIsReported, One, h
  <2>4. CASE ~h.ok
    <3>1. h \in Failures
      BY <2>1, <2>4 DEF Failures
    <3> QED BY <2>1, <2>2, <2>4, <3>1 DEF FailureIsReported, One, h
  <2> QED BY <2>3, <2>4
<1> QED BY <1>1, HandshakeInvariant, PTL
===============================================================================
