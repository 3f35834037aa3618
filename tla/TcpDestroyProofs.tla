--------------------------- MODULE TcpDestroyProofs ---------------------------
(***************************************************************************)
(* Proofs about module TcpDestroy: when a TCP socket is freed without      *)
(* being closed, for any number of sockets and workers, any number of      *)
(* references to each socket, and any order in which they are given up.    *)
(***************************************************************************)
EXTENDS TcpDestroy, AsyncProofs

-----------------------------------------------------------------------------
(* The inductive invariant *)

DestroyTypes ==
  /\ stack \in Stacks /\ Finite(stack)
  /\ canceled \in [Asyncs -> BOOLEAN]
  /\ child = [a \in Asyncs |-> None]
  /\ io \in [Asyncs -> {"none", "pending", "queued", "done"}]
  /\ object_ref \in [Sockets -> Nat]
  /\ object \in [Sockets -> {"live", "freed"}]
  /\ open \in [Sockets -> BOOLEAN] /\ status \in [Sockets -> BOOLEAN]

\* What a thread does before it frees the object: it starts the disconnect, waits.
Attempts == {"disconnect", "disconnectex"}
Beginnings == Attempts \union {"object_destroy"}
Waiting == {"object_destroy", "wait"}
Before == Beginnings \union {"wait"}

\* It frees the object after all that.
InOrder(s) ==
  \A i \in DOMAIN s :
    s[i].op \in Before =>
      \E j \in DOMAIN s : j > i /\ s[j].op = "object_free" /\ s[j].async = s[i].async

Ordered == \A th \in Threads : InOrder(stack[th])

\* References are counted exactly; one thread drops the last one, and frees the
\* object when it has done everything else.
GivenUpOnce(s) ==
  /\ object_ref[s] = Frames({"object_release"}, s)
  /\ One(object_ref[s] > 0) + Frames({"object_free"}, s) + One(object[s] = "freed") <= 1
  /\ object[s] = "freed" => Frames(Before, s) = 0

\* The disconnect is started once at most, and whoever started it waits.
StartedOnce(s) ==
  /\ One(object_ref[s] > 0) + Frames(Beginnings, s) + One(io[s] # "none") <= 1
  /\ Frames(Attempts, s) > 0 => Frames({"wait"}, s) > 0 \/ status[s]
  /\ object_ref[s] = 0 /\ Frames(Waiting, s) = 0 => status[s] \/ io[s] = "none"

\* One worker has the packet, and closes the socket.
ClosedOnce(s) == Frames({"disconnected"}, s) + One(io[s] # "done") + One(~open[s]) <= 1

\* Who notifies the destroyer has closed the socket, or cancelled the operation;
\* or it is the destroyer itself, whose call did not start.
Telling == {"notify", "async_notify"}

ToldTheTruth(s) ==
  \/ canceled[s]
  \/ Frames(Telling, s) > 0 \/ status[s] =>
       ~open[s] \/ (io[s] = "none" /\ object_ref[s] = 0 /\ Frames(Beginnings, s) = 0)

Given(s) == GivenUpOnce(s) /\ StartedOnce(s) /\ ClosedOnce(s) /\ ToldTheTruth(s)

\* Nothing goes wrong without a timeout.
Blamed == stale # {} => \E s \in Sockets : canceled[s]

DestroyInv == DestroyTypes /\ Ordered /\ Blamed /\ \A s \in Sockets : Given(s)

-----------------------------------------------------------------------------
(* Stacks in order *)

\* Replacing the frame on top keeps the order, if frames that have to come before
\* the object is freed are called by such a frame, or together with one that
\* frees it.
LEMMA KeepsOrder ==
  ASSUME NEW s \in Seq(FrameType), s # << >>, InOrder(s), NEW frames \in Seq(FrameType),
         \A k \in DOMAIN frames : frames[k].op \in Before =>
           /\ frames[k].async = Head(s).async
           /\ \/ Head(s).op \in Before
              \/ \E j \in DOMAIN frames :
                   j > k /\ frames[j].op = "object_free" /\ frames[j].async = frames[k].async
  PROVE  InOrder(frames \o Tail(s))
<1> DEFINE n == Len(frames)
           u == frames \o Tail(s)
<1>1. /\ n \in Nat /\ Len(s) \in Nat /\ Len(s) >= 1 /\ DOMAIN frames = 1..n /\ DOMAIN s = 1..Len(s)
      /\ Tail(s) \in Seq(FrameType) /\ Len(Tail(s)) = Len(s) - 1 /\ Head(s) = s[1]
      /\ \A k \in 1..(Len(s) - 1) : Tail(s)[k] = s[k + 1]
  OBVIOUS
<1>2. u \in Seq(FrameType) /\ Len(u) = n + (Len(s) - 1) /\ DOMAIN u = 1..(n + (Len(s) - 1))
  BY <1>1
<1>3. \A k \in 1..n : u[k] = frames[k]
  BY <1>1
<1>4. ASSUME NEW k \in 2..Len(s)
      PROVE  k + n - 1 \in DOMAIN u /\ u[k + n - 1] = s[k]
  <2>1. k - 1 \in 1..Len(Tail(s)) /\ k + n - 1 = n + (k - 1)
    BY <1>1
  <2>2. u[n + (k - 1)] = Tail(s)[k - 1]
    BY <1>1, <2>1
  <2>3. k + n - 1 \in DOMAIN u
    BY <1>1, <1>2
  <2> QED BY <1>1, <2>1, <2>2, <2>3
<1> HIDE DEF u, n
<1>5. SUFFICES ASSUME NEW i \in DOMAIN u, u[i].op \in Before
               PROVE  \E j \in DOMAIN u : j > i /\ u[j].op = "object_free" /\ u[j].async = u[i].async
  BY DEF InOrder, u
<1>6. ASSUME NEW j \in 2..Len(s), s[j].op = "object_free", s[j].async = u[i].async, j + n - 1 > i
      PROVE  \E k \in DOMAIN u : k > i /\ u[k].op = "object_free" /\ u[k].async = u[i].async
  BY <1>4, <1>6
<1>7. CASE i > n
  <2>1. i - n + 1 \in 2..Len(s) /\ (i - n + 1) + n - 1 = i
    BY <1>1, <1>2, <1>7
  <2>2. u[i] = s[i - n + 1] /\ i - n + 1 \in DOMAIN s
    BY <1>1, <1>4, <2>1
  <2>3. PICK j \in DOMAIN s :
          j > i - n + 1 /\ s[j].op = "object_free" /\ s[j].async = s[i - n + 1].async
    BY <1>5, <2>2 DEF InOrder
  <2>4. j \in 2..Len(s) /\ j + n - 1 > i
    <3>1. j \in 1..Len(s) /\ i \in Nat
      BY <1>1, <1>2, <2>3
    <3> QED BY ONLY <1>1, <1>7, <2>3, <3>1
  <2> QED BY <1>6, <2>2, <2>3, <2>4
<1>8. CASE i <= n
  <2>1. i \in DOMAIN frames /\ u[i] = frames[i]
    BY <1>1, <1>2, <1>3, <1>8
  <2>2. CASE Head(s).op \in Before /\ frames[i].async = Head(s).async
    <3>1. PICK j \in DOMAIN s : j > 1 /\ s[j].op = "object_free" /\ s[j].async = s[1].async
      BY <1>1, <2>2 DEF InOrder
    <3>2. j \in 2..Len(s) /\ j + n - 1 > i
      BY <1>1, <1>2, <1>8, <3>1
    <3> QED BY <1>1, <1>6, <2>1, <2>2, <3>1, <3>2
  <2>3. CASE \E j \in DOMAIN frames :
               j > i /\ frames[j].op = "object_free" /\ frames[j].async = frames[i].async
    <3>1. PICK j \in DOMAIN frames :
            j > i /\ frames[j].op = "object_free" /\ frames[j].async = frames[i].async
      BY <2>3
    <3>2. j \in DOMAIN u /\ u[j] = frames[j]
      BY <1>1, <1>2, <1>3, <3>1
    <3> QED BY <2>1, <3>1, <3>2
  <2> QED BY <1>5, <2>1, <2>2, <2>3
<1> QED BY <1>1, <1>2, <1>7, <1>8

-----------------------------------------------------------------------------
(* Counting frames *)

LEMMA SocketTypes ==
  ASSUME NEW s \in Sockets
  PROVE  s \in Asyncs /\ Parent(s) = None
BY AsyncAssumption DEF Sockets, Asyncs, Parent

\* Frames that can be called for a socket.
LEMMA SocketFrames ==
  ASSUME NEW s \in Sockets, NEW op \in Operations
  PROVE  Frame(op, s) \in FrameType /\ Frame(op, s).op = op /\ Frame(op, s).async = s
BY SocketTypes DEF Frame, FrameType

LEMMA CountsType ==
  ASSUME DestroyTypes
  PROVE  \A ops, s : Frames(ops, s) \in Nat
BY FramesType DEF DestroyTypes

\* A thread is about to execute a frame of a socket.
LEMMA AboutTo ==
  ASSUME DestroyTypes, NEW th \in Threads, NEW s \in Sockets, NEW op, At(th, op, s)
  PROVE  /\ stack[th] # << >> /\ stack[th] \in Seq(FrameType) /\ Head(stack[th]) \in FrameType
         /\ Head(stack[th]).op = op /\ Head(stack[th]).async = s /\ stale = {}
         /\ \A ops, t : IsOf(Head(stack[th]), ops, t) <=> op \in ops /\ t = s
         /\ \A ops : op \in ops => Frames(ops, s) >= 1
<1>1. /\ stack[th] # << >> /\ stack[th] \in Seq(FrameType) /\ stale = {}
      /\ Head(stack[th]).op = op /\ Head(stack[th]).async = s
  BY DEF DestroyTypes, Stacks, At
<1>2. Head(stack[th]) \in FrameType /\ Head(stack[th]) = stack[th][1] /\ 1 \in DOMAIN stack[th]
  BY <1>1
<1>3. ASSUME NEW ops, op \in ops
      PROVE  Frames(ops, s) >= 1
  <2>1. IsOf(stack[th][1], ops, s)
    BY <1>1, <1>2, <1>3 DEF IsOf
  <2>2. Frames(ops, s) # 0
    BY <1>2, <2>1, NoFrames DEF DestroyTypes
  <2> QED BY <2>2, CountsType
<1> QED BY <1>1, <1>2, <1>3 DEF IsOf

\* The other threads' stacks stay in order.
LEMMA StaysOrdered ==
  ASSUME DestroyTypes, Ordered, NEW th \in Threads, NEW frames,
         stack' = [stack EXCEPT ![th] = frames], InOrder(frames)
  PROVE  Ordered'
<1>1. \A t \in Threads : stack'[t] = IF t = th THEN frames ELSE stack[t]
  BY DEF DestroyTypes, Stacks
<1> QED BY <1>1 DEF Ordered, InOrder

\* A thread executes a frame of a socket and calls no frame, or one, or two, or
\* three.
LEMMA Steps0 ==
  ASSUME DestroyTypes, Ordered, NEW th \in Threads, NEW s \in Sockets, NEW op, At(th, op, s),
         Call(th, << >>)
  PROVE  /\ stack' \in Stacks /\ Finite(stack') /\ Ordered'
         /\ \A ops : Frames(ops, s)' = Frames(ops, s) - One(op \in ops)
         /\ \A ops, t : t # s => Frames(ops, t)' = Frames(ops, t)
<1>1. /\ stack' \in Stacks /\ Finite(stack')
      /\ \A ops, t : Frames(ops, t)' = Frames(ops, t) - One(IsOf(Head(stack[th]), ops, t))
  BY AboutTo, Calls0 DEF DestroyTypes
<1>2. Ordered'
  <2> DEFINE frames == << >>
  <2>1. frames \in Seq(FrameType) /\ \A k \in DOMAIN frames : FALSE
    OBVIOUS
  <2> HIDE DEF frames
  <2>2. InOrder(frames \o Tail(stack[th]))
    BY <2>1, AboutTo, KeepsOrder DEF Ordered
  <2> QED BY <2>2, StaysOrdered DEF Call, DestroyTypes, Stacks, frames
<1>3. /\ \A ops : IsOf(Head(stack[th]), ops, s) <=> op \in ops
      /\ \A ops, t : t # s => ~IsOf(Head(stack[th]), ops, t)
  BY AboutTo
<1>4. \A ops : Frames(ops, s)' = Frames(ops, s) - One(op \in ops)
  BY <1>1, <1>3 DEF One
<1>5. \A ops, t : t # s => Frames(ops, t)' = Frames(ops, t)
  BY <1>1, <1>3, CountsType DEF One
<1> QED BY <1>1, <1>2, <1>4, <1>5

LEMMA Steps1 ==
  ASSUME DestroyTypes, Ordered, NEW th \in Threads, NEW s \in Sockets, NEW op, At(th, op, s),
         NEW f \in FrameType, f.async = s, f.op \in Before => op \in Before, Call(th, <<f>>)
  PROVE  /\ stack' \in Stacks /\ Finite(stack') /\ Ordered'
         /\ \A ops : Frames(ops, s)' = Frames(ops, s) - One(op \in ops) + One(f.op \in ops)
         /\ \A ops, t : t # s => Frames(ops, t)' = Frames(ops, t)
<1>1. /\ stack' \in Stacks /\ Finite(stack')
      /\ \A ops, t : Frames(ops, t)' = Frames(ops, t) - One(IsOf(Head(stack[th]), ops, t))
                                         + One(IsOf(f, ops, t))
  BY AboutTo, Calls1 DEF DestroyTypes
<1>2. Ordered'
  <2> DEFINE frames == <<f>>
  <2>1. frames \in Seq(FrameType) /\ \A k \in DOMAIN frames : frames[k] = f
    OBVIOUS
  <2> HIDE DEF frames
  <2>2. InOrder(frames \o Tail(stack[th]))
    BY <2>1, AboutTo, KeepsOrder DEF Ordered
  <2> QED BY <2>2, StaysOrdered DEF Call, DestroyTypes, Stacks, frames
<1>3. /\ \A ops : IsOf(Head(stack[th]), ops, s) <=> op \in ops
      /\ \A ops, t : t # s => ~IsOf(Head(stack[th]), ops, t)
      /\ \A ops : IsOf(f, ops, s) <=> f.op \in ops
      /\ \A ops, t : t # s => ~IsOf(f, ops, t)
  BY AboutTo DEF IsOf
<1>4. \A ops : Frames(ops, s)' = Frames(ops, s) - One(op \in ops) + One(f.op \in ops)
  BY <1>1, <1>3 DEF One
<1>5. \A ops, t : t # s => Frames(ops, t)' = Frames(ops, t)
  BY <1>1, <1>3, CountsType DEF One
<1> QED BY <1>1, <1>2, <1>4, <1>5

LEMMA Steps2 ==
  ASSUME DestroyTypes, Ordered, NEW th \in Threads, NEW s \in Sockets, NEW op, At(th, op, s),
         NEW f \in FrameType, f.async = s, NEW g \in FrameType, g.async = s,
         g.op \notin Before, f.op \in Before => op \in Before \/ g.op = "object_free",
         Call(th, <<f, g>>)
  PROVE  /\ stack' \in Stacks /\ Finite(stack') /\ Ordered'
         /\ \A ops : Frames(ops, s)' = Frames(ops, s) - One(op \in ops)
                                         + One(g.op \in ops) + One(f.op \in ops)
         /\ \A ops, t : t # s => Frames(ops, t)' = Frames(ops, t)
<1>1. /\ stack' \in Stacks /\ Finite(stack')
      /\ \A ops, t : Frames(ops, t)' = Frames(ops, t) - One(IsOf(Head(stack[th]), ops, t))
                                         + One(IsOf(g, ops, t)) + One(IsOf(f, ops, t))
  BY AboutTo, Calls2 DEF DestroyTypes
<1>2. Ordered'
  <2> DEFINE frames == <<f, g>>
  <2>1. frames \in Seq(FrameType) /\ DOMAIN frames = {1, 2} /\ frames[1] = f /\ frames[2] = g
    OBVIOUS
  <2> HIDE DEF frames
  <2>2. ASSUME NEW k \in DOMAIN frames, frames[k].op \in Before
        PROVE  /\ frames[k].async = s
               /\ \/ op \in Before
                  \/ \E j \in DOMAIN frames :
                       j > k /\ frames[j].op = "object_free" /\ frames[j].async = frames[k].async
    <3>1. k = 1
      BY <2>1, <2>2
    <3>2. f.op \in Before /\ frames[k].async = s
      BY <2>1, <2>2, <3>1
    <3>3. CASE g.op = "object_free"
      <4>1. 2 \in DOMAIN frames
        BY <2>1
      <4>3. 2 > k
        BY <3>1
      <4>2. frames[2].op = "object_free" /\ frames[2].async = frames[k].async
        BY <2>1, <3>2, <3>3
      <4> QED BY <3>2, <4>1, <4>2, <4>3
    <3>4. CASE op \in Before
      BY <3>2, <3>4
    <3>5. op \in Before \/ g.op = "object_free"
      BY <3>2
    <3> QED BY <3>3, <3>4, <3>5
  <2>3. InOrder(frames \o Tail(stack[th]))
    <3>1. /\ stack[th] \in Seq(FrameType) /\ stack[th] # << >> /\ InOrder(stack[th])
          /\ Head(stack[th]).op = op /\ Head(stack[th]).async = s
      BY AboutTo DEF Ordered
    <3> QED BY ONLY <2>1, <2>2, <3>1, KeepsOrder
  <2> QED BY <2>3, StaysOrdered DEF Call, DestroyTypes, Stacks, frames
<1>3. /\ \A ops : IsOf(Head(stack[th]), ops, s) <=> op \in ops
      /\ \A ops, t : t # s => ~IsOf(Head(stack[th]), ops, t)
      /\ \A ops : (IsOf(f, ops, s) <=> f.op \in ops) /\ (IsOf(g, ops, s) <=> g.op \in ops)
      /\ \A ops, t : t # s => ~IsOf(f, ops, t) /\ ~IsOf(g, ops, t)
  BY AboutTo DEF IsOf
<1>4. \A ops : Frames(ops, s)' = Frames(ops, s) - One(op \in ops)
                                   + One(g.op \in ops) + One(f.op \in ops)
  BY <1>1, <1>3 DEF One
<1>5. \A ops, t : t # s => Frames(ops, t)' = Frames(ops, t)
  BY <1>1, <1>3, CountsType DEF One
<1> QED BY <1>1, <1>2, <1>4, <1>5

LEMMA Steps3 ==
  ASSUME DestroyTypes, Ordered, NEW th \in Threads, NEW s \in Sockets, NEW op, At(th, op, s),
         NEW f \in FrameType, f.async = s, NEW g \in FrameType, g.async = s,
         NEW h \in FrameType, h.async = s, op \in Before, Call(th, <<f, g, h>>)
  PROVE  /\ stack' \in Stacks /\ Finite(stack') /\ Ordered'
         /\ \A ops : Frames(ops, s)' = Frames(ops, s) - One(op \in ops)
                               + One(h.op \in ops) + One(g.op \in ops) + One(f.op \in ops)
         /\ \A ops, t : t # s => Frames(ops, t)' = Frames(ops, t)
<1>1. /\ stack' \in Stacks /\ Finite(stack')
      /\ \A ops, t : Frames(ops, t)' = Frames(ops, t) - One(IsOf(Head(stack[th]), ops, t))
                        + One(IsOf(h, ops, t)) + One(IsOf(g, ops, t)) + One(IsOf(f, ops, t))
  BY AboutTo, Calls3 DEF DestroyTypes
<1>2. Ordered'
  <2> DEFINE frames == <<f, g, h>>
  <2>1. frames \in Seq(FrameType) /\ \A k \in DOMAIN frames : frames[k].async = s
    OBVIOUS
  <2> HIDE DEF frames
  <2>2. InOrder(frames \o Tail(stack[th]))
    BY <2>1, AboutTo, KeepsOrder DEF Ordered
  <2> QED BY <2>2, StaysOrdered DEF Call, DestroyTypes, Stacks, frames
<1>3. /\ \A ops : IsOf(Head(stack[th]), ops, s) <=> op \in ops
      /\ \A ops, t : t # s => ~IsOf(Head(stack[th]), ops, t)
      /\ \A ops : (IsOf(f, ops, s) <=> f.op \in ops) /\ (IsOf(g, ops, s) <=> g.op \in ops)
                    /\ (IsOf(h, ops, s) <=> h.op \in ops)
      /\ \A ops, t : t # s => ~IsOf(f, ops, t) /\ ~IsOf(g, ops, t) /\ ~IsOf(h, ops, t)
  BY AboutTo DEF IsOf
<1>4. \A ops : Frames(ops, s)' = Frames(ops, s) - One(op \in ops)
                        + One(h.op \in ops) + One(g.op \in ops) + One(f.op \in ops)
  BY <1>1, <1>3 DEF One
<1>5. \A ops, t : t # s => Frames(ops, t)' = Frames(ops, t)
  BY <1>1, <1>3, CountsType DEF One
<1> QED BY <1>1, <1>2, <1>4, <1>5

-----------------------------------------------------------------------------
(* Steps that change nothing for a socket *)

Followed ==
  {{"object_release"}, {"object_free"}, Attempts, Beginnings, Waiting, {"wait"}, Before,
   {"disconnected"}}

Untouched(s) ==
  /\ \A ops \in Followed : Frames(ops, s)' = Frames(ops, s)
  /\ Frames(Telling, s)' <= Frames(Telling, s) \/ canceled'[s]
  /\ canceled[s] => canceled'[s]
  /\ object_ref'[s] = object_ref[s] /\ object'[s] = object[s] /\ open'[s] = open[s]
  /\ status'[s] = status[s]
  /\ io'[s] = io[s] \/ (io[s] = "pending" /\ io'[s] = "queued")

LEMMA UntouchedKeeps ==
  ASSUME DestroyTypes, DestroyTypes', NEW s \in Sockets, Given(s), Untouched(s)
  PROVE  Given(s)'
<1>1. /\ \A ops, t : Frames(ops, t) \in Nat
      /\ \A ops, t : Frames(ops, t)' \in Nat
  <2>1. \A ops, t : Frames(ops, t) \in Nat
    BY CountsType
  <2>2. \A ops, t : Cardinality(Slots(stack', ops, t)) \in Nat
    BY SlotsFinite DEF DestroyTypes
  <2> QED BY <2>1, <2>2 DEF Frames
<1>2. /\ Frames({"object_release"}, s)' = Frames({"object_release"}, s)
      /\ Frames({"object_free"}, s)' = Frames({"object_free"}, s)
      /\ Frames(Attempts, s)' = Frames(Attempts, s)
      /\ Frames(Beginnings, s)' = Frames(Beginnings, s)
      /\ Frames(Waiting, s)' = Frames(Waiting, s)
      /\ Frames({"wait"}, s)' = Frames({"wait"}, s)
      /\ Frames(Before, s)' = Frames(Before, s)
      /\ Frames({"disconnected"}, s)' = Frames({"disconnected"}, s)
  BY DEF Untouched, Followed
<1>3. GivenUpOnce(s)'
  BY <1>2 DEF Given, GivenUpOnce, Untouched
<1>4. One(io'[s] # "none") = One(io[s] # "none") /\ One(io'[s] # "done") = One(io[s] # "done")
      /\ (io'[s] = "none" <=> io[s] = "none")
  BY DEF Untouched, One
<1>5. StartedOnce(s)'
  BY <1>2, <1>4 DEF Given, StartedOnce, Untouched
<1>6. ClosedOnce(s)'
  BY <1>2, <1>4 DEF Given, ClosedOnce, Untouched
<1>7. ToldTheTruth(s)'
  BY <1>1, <1>2, <1>4 DEF Given, ToldTheTruth, Untouched
<1> QED BY <1>3, <1>5, <1>6, <1>7 DEF Given

\* Frames that are not followed.
Aside == Operations \ (Before \union {"object_release", "object_free", "disconnected"})

\* A thread does something else about a socket's operation.
LEMMA GoesAside ==
  ASSUME DestroyTypes, Ordered, NEW th \in Threads, NEW s \in Sockets,
         NEW op \in Aside, At(th, op, s),
         NEW f \in FrameType, f.async = s, f.op \in Aside \ Telling,
         NEW g \in FrameType, g.async = s, g.op \in Aside,
         Call(th, << >>) \/ Call(th, <<g>>) \/ Call(th, <<f, g>>)
  PROVE  /\ stack' \in Stacks /\ Finite(stack') /\ Ordered'
         /\ \A t \in Sockets : \A ops \in Followed : Frames(ops, t)' = Frames(ops, t)
         /\ \A t \in Sockets : t # s => Frames(Telling, t)' = Frames(Telling, t)
         /\ (g.op \in Telling => op \in Telling) => Frames(Telling, s)' <= Frames(Telling, s)
<1>1. \A ops, t : Frames(ops, t) \in Nat
  BY CountsType
<1>2. /\ op \notin Before /\ f.op \notin Before /\ g.op \notin Before
      /\ \A ops \in Followed : op \notin ops /\ f.op \notin ops /\ g.op \notin ops
  BY DEF Aside, Followed, Before, Beginnings, Attempts, Waiting
<1>3. /\ stack' \in Stacks /\ Finite(stack') /\ Ordered'
      /\ \A ops, t : t # s => Frames(ops, t)' = Frames(ops, t)
      /\ \/ \A ops : Frames(ops, s)' = Frames(ops, s) - One(op \in ops)
         \/ \A ops : Frames(ops, s)' = Frames(ops, s) - One(op \in ops) + One(g.op \in ops)
         \/ \A ops : Frames(ops, s)' = Frames(ops, s) - One(op \in ops)
                                         + One(g.op \in ops) + One(f.op \in ops)
  <2>1. CASE Call(th, << >>)
    BY <2>1, Steps0
  <2>2. CASE Call(th, <<g>>)
    BY <1>2, <2>2, Steps1
  <2>3. CASE Call(th, <<f, g>>)
    BY <1>2, <2>3, Steps2
  <2> QED BY <2>1, <2>2, <2>3
<1>4. \A ops \in Followed : Frames(ops, s)' = Frames(ops, s)
  BY <1>1, <1>2, <1>3 DEF One
<1>5. (g.op \in Telling => op \in Telling) => Frames(Telling, s)' <= Frames(Telling, s)
  BY <1>1, <1>3 DEF One
<1> QED BY <1>3, <1>4, <1>5

\* The steps of Async that do not start the call.
LEMMA AsideKeeps ==
  ASSUME DestroyTypes, Ordered, NEW th \in Threads, NEW s \in Sockets,
         UNCHANGED <<object_ref, object, open, status>>,
         \/ New(th, s) \/ AddTimerRef(th, s) \/ Schedule(th, s) \/ Cancel(th, s)
         \/ Notify(th, s) \/ Release(th, s) \/ Unlock(th, s)
  PROVE  /\ DestroyTypes' /\ Ordered' /\ stale' = {}
         /\ \A t \in Sockets : Untouched(t)
<1> USE DEF Aside, Before, Beginnings, Attempts, Telling
<1>1. s \in Asyncs /\ Parent(s) = None
  BY SocketTypes
<1>2. PICK op \in {"new", "add_timer_ref", "schedule", "_cancel", "notify", "release", "unlock"} :
        At(th, op, s)
  BY DEF New, AddTimerRef, Schedule, Cancel, Notify, Release, Unlock
<1>3. /\ Head(stack[th]) \in FrameType /\ Head(stack[th]).op = op
      /\ \A ops, t : Frames(ops, t) \in Nat
  BY <1>2, AboutTo, CountsType
<1>4. \A x \in Operations :
        /\ Frame(x, s) \in FrameType /\ Frame(x, s).op = x /\ Frame(x, s).async = s
        /\ Carry(th, x, s) \in FrameType /\ Carry(th, x, s).op = x /\ Carry(th, x, s).async = s
  BY <1>1, <1>3, SocketFrames DEF Carry, Frame, FrameType
<1>5. {"add_timer_ref", "schedule", "release", "notify", "async_notify", "destroy", "unlock", "new",
       "_cancel"} \subseteq Aside
  BY DEF Operations, Outside
<1>6. PICK g \in {Frame("add_timer_ref", s), Frame("schedule", s), Frame("notify", s),
                  Frame("destroy", s), Carry(th, "async_notify", s)} :
        /\ \/ Call(th, << >>) \/ Call(th, <<g>>) \/ Call(th, <<Frame("release", s), g>>)
        /\ op # "_cancel" => (g.op \in Telling => op \in Telling)
  <2>1. /\ Frame("add_timer_ref", s).op = "add_timer_ref" /\ Frame("schedule", s).op = "schedule"
        /\ Frame("destroy", s).op = "destroy"
    BY <1>4 DEF Operations
  <2>2. CASE New(th, s) \/ AddTimerRef(th, s) \/ Schedule(th, s) \/ Unlock(th, s) \/ Release(th, s)
    <3>1. \/ Call(th, << >>) \/ Call(th, <<Frame("add_timer_ref", s)>>)
          \/ Call(th, <<Frame("schedule", s)>>) \/ Call(th, <<Frame("destroy", s)>>)
      BY <2>2 DEF New, AddTimerRef, Schedule, Unlock, Release, Return
    <3> QED BY <2>1, <3>1
  <2>3. CASE Notify(th, s)
    <3>1. \/ Call(th, <<Carry(th, "async_notify", s)>>)
          \/ Call(th, <<Frame("release", s), Carry(th, "async_notify", s)>>)
      BY <2>3, Tuples DEF Notify, CancelTimerThen
    <3>2. op = "notify"
      BY <1>2, <2>3 DEF Notify, At
    <3> QED BY <3>1, <3>2
  <2>4. CASE Cancel(th, s)
    <3>1. child[s] = None /\ op = "_cancel"
      BY <1>1, <1>2, <2>4 DEF DestroyTypes, Cancel, At
    <3>2. Call(th, << >>) \/ Call(th, <<Frame("notify", s)>>)
      BY <2>4, <3>1 DEF Cancel, CancelChild, CancelCall, CancelDirectly, Return
    <3> QED BY <3>1, <3>2
  <2> QED BY <2>2, <2>3, <2>4
<1>7. /\ stack' \in Stacks /\ Finite(stack') /\ Ordered'
      /\ \A t \in Sockets : \A ops \in Followed : Frames(ops, t)' = Frames(ops, t)
      /\ \A t \in Sockets : t # s => Frames(Telling, t)' = Frames(Telling, t)
      /\ op # "_cancel" => Frames(Telling, s)' <= Frames(Telling, s)
  <2>1. PICK f \in {Frame("release", s)} :
          Call(th, << >>) \/ Call(th, <<g>>) \/ Call(th, <<f, g>>)
    BY <1>6
  <2>2. f \in FrameType /\ f.async = s /\ f.op \in Aside \ Telling
    BY <1>4, <1>5 DEF Operations
  <2>3. g \in FrameType /\ g.async = s /\ g.op \in Aside
    <3>1. g.op \in {"add_timer_ref", "schedule", "notify", "destroy", "async_notify"}
      BY <1>4 DEF Operations
    <3>2. {"add_timer_ref", "schedule", "notify", "destroy", "async_notify"} \subseteq Operations
      BY DEF Operations
    <3> QED BY <1>4, <1>5, <3>1, <3>2
  <2>4. op \in Aside
    BY <1>5
  <2> HIDE DEF Aside, Before, Beginnings, Attempts, Telling
  <2> QED BY <1>2, <1>6, <2>1, <2>2, <2>3, <2>4, GoesAside
<1> HIDE DEF Aside, Before, Beginnings, Attempts, Telling
<1>8. CASE Cancel(th, s)
  <2>1. child[s] = None
    BY <1>1 DEF DestroyTypes
  <2>2. canceled' = [canceled EXCEPT ![s] = TRUE] /\ child' = child /\ stale' = stale /\ stale = {}
    BY <1>8 DEF Cancel, At
  <2>3. io' = io \/ (io[s] = "pending" /\ io' = [io EXCEPT ![s] = "queued"])
    BY <1>8, <2>1 DEF Cancel, CancelChild, CancelCall, CancelDirectly
  <2>4. DestroyTypes'
    BY <1>1, <1>7, <2>2, <2>3 DEF DestroyTypes
  <2>5. ASSUME NEW t \in Sockets
        PROVE  Untouched(t)
    <3>1. t \in Asyncs /\ (canceled[t] => canceled'[t]) /\ (t = s => canceled'[t])
          /\ (io'[t] = io[t] \/ (io[t] = "pending" /\ io'[t] = "queued"))
      BY <1>1, <2>2, <2>3, SocketTypes DEF DestroyTypes
    <3>2. Frames(Telling, t)' <= Frames(Telling, t) \/ canceled'[t]
      BY <1>3, <1>7, <3>1
    <3> QED BY <1>7, <3>1, <3>2 DEF Untouched
  <2> QED BY <1>7, <2>2, <2>4, <2>5
<1>9. CASE \/ New(th, s) \/ AddTimerRef(th, s) \/ Schedule(th, s)
           \/ Notify(th, s) \/ Release(th, s) \/ Unlock(th, s)
  <2>1. canceled' = canceled /\ io' = io /\ stale' = stale /\ stale = {} /\ op # "_cancel"
    BY <1>2, <1>9 DEF New, AddTimerRef, Schedule, Notify, Release, Unlock, rest, At
  <2>2. child' = child
    <3>1. CASE New(th, s)
      BY <1>1, <3>1, AsyncAssumption DEF New, DestroyTypes
    <3> QED BY <1>9, <3>1 DEF AddTimerRef, Schedule, Notify, Release, Unlock
  <2>3. DestroyTypes'
    BY <1>7, <2>1, <2>2 DEF DestroyTypes
  <2>4. ASSUME NEW t \in Sockets
        PROVE  Untouched(t)
    <3>1. Frames(Telling, t)' <= Frames(Telling, t)
      BY <1>3, <1>7, <2>1
    <3> QED BY <1>7, <2>1, <3>1 DEF Untouched
  <2> QED BY <1>7, <2>1, <2>3, <2>4
<1> QED BY <1>8, <1>9

\* The kernel, the timer, and the poll thread when it goes astray.
LEMMA BeginsAside ==
  ASSUME DestroyTypes, Ordered, NEW s \in Sockets,
         \/ (IoEnds(s) \/ TimeoutFires(s)) /\ UNCHANGED destruction
         \/ \E th \in Threads : FollowsLink(th, s)
  PROVE  /\ DestroyTypes' /\ Ordered' /\ (stale' = {} \/ canceled'[s])
         /\ \A t \in Sockets : Untouched(t)
<1>1. s \in Asyncs /\ \A t \in Sockets : t \in Asyncs
  BY SocketTypes
<1>2. \A ops, t : Frames(ops, t) \in Nat
  BY CountsType
<1>3. CASE stack' = stack
  <2>1. \/ /\ IoEnds(s) /\ UNCHANGED destruction
        \/ \E th \in Threads : FollowsLink(th, s)
    <3>1. ASSUME TimeoutFires(s)
          PROVE  FALSE
      <4>1. stack[Poller] = << >> /\ stack'[Poller] # << >>
        BY <3>1 DEF TimeoutFires, DestroyTypes, Stacks, Threads
      <4> QED BY <1>3, <4>1
    <3> QED BY <3>1
  <2>2. \A ops, t : Frames(ops, t)' = Frames(ops, t)
    BY <1>3 DEF Frames
  <2>3. Ordered'
    BY <1>3 DEF Ordered, InOrder
  <2>4. /\ UNCHANGED <<child, object_ref, object, open, status>>
        /\ \/ canceled' = canceled /\ stale' = {}
           \/ canceled' = [canceled EXCEPT ![s] = TRUE]
        /\ io' = io \/ (io[s] = "pending" /\ io' = [io EXCEPT ![s] = "queued"])
    BY <2>1 DEF IoEnds, FollowsLink, operation, rest, destruction
  <2>5. DestroyTypes'
    BY <1>1, <1>3, <2>4 DEF DestroyTypes
  <2>6. ASSUME NEW t \in Sockets
        PROVE  Untouched(t)
    <3>1. (canceled[t] => canceled'[t])
          /\ (io'[t] = io[t] \/ (io[t] = "pending" /\ io'[t] = "queued"))
      BY <1>1, <2>4 DEF DestroyTypes
    <3> QED BY <1>2, <2>2, <2>4, <3>1 DEF Untouched
  <2>7. stale' = {} \/ canceled'[s]
    BY <1>1, <2>4 DEF DestroyTypes
  <2> QED BY <2>3, <2>5, <2>6, <2>7
<1>4. CASE TimeoutFires(s) /\ UNCHANGED destruction
  <2>1. PICK f \in FrameType, g \in FrameType :
          /\ f.op = "_cancel" /\ f.async = s /\ g.op = "release" /\ g.async = s
          /\ stack' = [stack EXCEPT ![Poller] = <<f, g>>]
    BY <1>4, SocketFrames DEF TimeoutFires, Operations
  <2>2. /\ stack' \in Stacks /\ Finite(stack')
        /\ \A ops, t : Frames(ops, t)' = Frames(ops, t) + One(IsOf(g, ops, t)) + One(IsOf(f, ops, t))
    <3>1. PICK th \in Threads : th = Poller /\ stack[th] = << >>
      BY <1>4 DEF TimeoutFires, Threads
    <3> QED BY <2>1, <3>1, Begins2 DEF DestroyTypes
  <2>3. \A ops : "_cancel" \notin ops /\ "release" \notin ops =>
                   \A t : Frames(ops, t)' = Frames(ops, t)
    BY <1>2, <2>1, <2>2 DEF IsOf, One
  <2>4. \A ops \in Followed \union {Telling} : "_cancel" \notin ops /\ "release" \notin ops
    BY DEF Followed, Telling, Before, Beginnings, Attempts, Waiting
  <2>5. Ordered'
    <3>1. InOrder(<<f, g>>)
      BY <2>1 DEF InOrder, Before, Beginnings, Attempts
    <3> QED BY <2>1, <3>1, StaysOrdered DEF Threads
  <2>6. UNCHANGED <<canceled, child, io, stale, object_ref, object, open, status>> /\ stale = {}
    BY <1>4 DEF TimeoutFires, rest, destruction
  <2>7. DestroyTypes'
    BY <2>2, <2>6 DEF DestroyTypes
  <2>8. ASSUME NEW t \in Sockets
        PROVE  Untouched(t)
    <3>1. \A ops \in Followed : Frames(ops, t)' = Frames(ops, t)
      BY <2>3, <2>4
    <3>2. Frames(Telling, t)' <= Frames(Telling, t)
      <4>1. Frames(Telling, t)' = Frames(Telling, t)
        BY <2>3, <2>4
      <4> QED BY <1>2, <4>1
    <3> QED BY <2>6, <3>1, <3>2 DEF Untouched
  <2> QED BY <2>5, <2>6, <2>7, <2>8
<1> QED BY <1>3, <1>4 DEF IoEnds, FollowsLink, Misuse

\* A step about one socket leaves the others alone.
LEMMA Elsewhere ==
  ASSUME DestroyTypes, NEW s \in Sockets, \A ops, t : t # s => Frames(ops, t)' = Frames(ops, t),
         \A t \in Sockets : t # s =>
           /\ object_ref'[t] = object_ref[t] /\ object'[t] = object[t] /\ open'[t] = open[t]
           /\ status'[t] = status[t] /\ io'[t] = io[t] /\ canceled'[t] = canceled[t]
  PROVE  \A t \in Sockets : t # s => Untouched(t)
BY CountsType DEF Untouched

-----------------------------------------------------------------------------
(* Steps that matter *)

\* What a step about socket s has to show.
Proceeds(s) ==
  /\ DestroyTypes' /\ Ordered' /\ Given(s)' /\ (stale' # {} => canceled[s] /\ canceled'[s])
  /\ \A t \in Sockets : t # s => Untouched(t)

\* A reference is given up; the last one takes the object along.
LEMMA ObjectReleaseProceeds ==
  ASSUME DestroyInv, NEW th \in Threads, NEW s \in Sockets, ObjectRelease(th, s)
  PROVE  Proceeds(s)
<1> USE DEF Attempts, Beginnings, Waiting, Before, Telling
<1>1. /\ DestroyTypes /\ Ordered /\ Given(s) /\ s \in Asyncs /\ At(th, "object_release", s)
      /\ \A ops, t : Frames(ops, t) \in Nat
  BY SocketTypes, CountsType DEF DestroyInv, ObjectRelease
<1>2. /\ stale = {} /\ \A ops : "object_release" \in ops => Frames(ops, s) >= 1
  BY <1>1, AboutTo
<1>3. /\ object_ref' = [object_ref EXCEPT ![s] = @ - 1]
      /\ UNCHANGED <<canceled, child, io, stale, object, open, status>>
  BY DEF ObjectRelease, operation, rest
<1>4. /\ object_ref[s] \in Nat /\ object_ref[s] >= 1 /\ object_ref'[s] = object_ref[s] - 1
      /\ object_ref[s] = Frames({"object_release"}, s)
      /\ Frames({"object_free"}, s) = 0 /\ object[s] # "freed"
      /\ Frames(Beginnings, s) = 0 /\ io[s] = "none" /\ Frames(Attempts, s) = 0
  <2>1. object_ref[s] = Frames({"object_release"}, s) /\ object_ref[s] >= 1
    BY <1>1, <1>2 DEF Given, GivenUpOnce
  <2>2. Frames({"object_free"}, s) = 0 /\ object[s] # "freed"
    BY <1>1, <2>1 DEF Given, GivenUpOnce, One
  <2>3. Frames(Beginnings, s) = 0 /\ io[s] = "none"
    BY <1>1, <2>1 DEF Given, StartedOnce, One
  <2>4. Frames(Attempts, s) = 0
    <3>1. \A t \in Threads : \A k \in DOMAIN stack[t] : ~IsOf(stack[t][k], Beginnings, s)
      BY <1>1, <2>3, NoFrames DEF DestroyTypes
    <3>2. \A t \in Threads : \A k \in DOMAIN stack[t] : ~IsOf(stack[t][k], Attempts, s)
      BY <3>1 DEF IsOf
    <3> QED BY <1>1, <3>2, NoFrames DEF DestroyTypes
  <2> QED BY <1>1, <1>3, <2>1, <2>2, <2>3, <2>4 DEF DestroyTypes
<1>5. /\ stack' \in Stacks /\ Finite(stack') /\ Ordered'
      /\ \A ops, t : t # s => Frames(ops, t)' = Frames(ops, t)
      /\ \/ /\ object_ref[s] > 1
            /\ \A ops : Frames(ops, s)' = Frames(ops, s) - One("object_release" \in ops)
         \/ /\ object_ref[s] = 1
            /\ \A ops : Frames(ops, s)' = Frames(ops, s) - One("object_release" \in ops)
                          + One("object_free" \in ops) + One("object_destroy" \in ops)
  <2>1. CASE object_ref[s] > 1
    <3>1. Call(th, << >>)
      BY <2>1 DEF ObjectRelease
    <3> QED BY <1>1, <2>1, <3>1, Steps0
  <2>2. CASE object_ref[s] = 1
    <3>1. PICK f \in FrameType, g \in FrameType :
            /\ f.op = "object_destroy" /\ f.async = s /\ g.op = "object_free" /\ g.async = s
            /\ Call(th, <<f, g>>)
      <4>1. "object_destroy" \in Operations /\ "object_free" \in Operations
        BY DEF Operations, Outside
      <4>2. Call(th, <<Frame("object_destroy", s), Frame("object_free", s)>>)
        BY <1>1, <2>2 DEF ObjectRelease
      <4> QED BY <4>1, <4>2, SocketFrames
    <3>2. PICK op \in {"object_release"} : At(th, op, s)
      BY <1>1
    <3>3. /\ stack' \in Stacks /\ Finite(stack') /\ Ordered'
          /\ \A ops : Frames(ops, s)' = Frames(ops, s) - One(op \in ops)
                        + One(g.op \in ops) + One(f.op \in ops)
          /\ \A ops, t : t # s => Frames(ops, t)' = Frames(ops, t)
      BY <1>1, <3>1, <3>2, Steps2
    <3> QED BY <2>2, <3>1, <3>3
  <2> QED BY <1>4, <2>1, <2>2
<1>6. DestroyTypes'
  BY <1>1, <1>3, <1>4, <1>5 DEF DestroyTypes
<1>7. \A t \in Sockets : t # s => Untouched(t)
  BY <1>1, <1>3, <1>5, Elsewhere DEF DestroyTypes
<1>8. GivenUpOnce(s)'
  <2>1. object_ref'[s] = Frames({"object_release"}, s)'
    BY <1>1, <1>4, <1>5 DEF One
  <2>2. One(object_ref'[s] > 0) + Frames({"object_free"}, s)' + One(object'[s] = "freed") <= 1
    BY <1>1, <1>3, <1>4, <1>5 DEF One
  <2> QED BY <1>3, <1>4, <2>1, <2>2 DEF GivenUpOnce
<1>9. StartedOnce(s)'
  <2>1. One(object_ref'[s] > 0) + Frames(Beginnings, s)' + One(io'[s] # "none") <= 1
    BY <1>1, <1>3, <1>4, <1>5 DEF One
  <2>2. Frames(Attempts, s)' = 0
    BY <1>1, <1>4, <1>5 DEF One
  <2> QED BY <1>3, <1>4, <2>1, <2>2 DEF StartedOnce
<1>10. ClosedOnce(s)'
  <2>1. Frames({"disconnected"}, s)' = Frames({"disconnected"}, s)
    BY <1>1, <1>5 DEF One
  <2> QED BY <1>1, <1>3, <2>1 DEF Given, ClosedOnce
<1>11. ToldTheTruth(s)'
  <2>1. Frames(Telling, s)' = Frames(Telling, s)
    BY <1>1, <1>5 DEF One
  <2>2. canceled[s] \/ (Frames(Telling, s) > 0 \/ status[s] => ~open[s])
    BY <1>1, <1>4 DEF Given, ToldTheTruth
  <2> QED BY <1>3, <2>1, <2>2 DEF ToldTheTruth
<1> QED BY <1>2, <1>3, <1>5, <1>6, <1>7, <1>8, <1>9, <1>10, <1>11 DEF Proceeds, Given

\* Fewer kinds of frames are fewer frames.
LEMMA FewerFrames ==
  ASSUME DestroyTypes, NEW some, NEW all, some \subseteq all, NEW s
  PROVE  Frames(some, s) <= Frames(all, s)
<1>1. /\ IsFiniteSet(Slots(stack, all, s)) /\ IsFiniteSet(Slots(stack, some, s))
      /\ Slots(stack, some, s) \subseteq Slots(stack, all, s)
  <2>1. IsFiniteSet(Slots(stack, all, s)) /\ IsFiniteSet(Slots(stack, some, s))
    BY SlotsFinite DEF DestroyTypes
  <2>2. Slots(stack, some, s) \subseteq Slots(stack, all, s)
    BY DEF Slots
  <2> QED BY <2>1, <2>2
<1> QED BY <1>1, FS_Subset DEF Frames

\* The destroyer starts the disconnect, if it gets a blocking operation.
LEMMA ObjectDestroyProceeds ==
  ASSUME DestroyInv, NEW th \in Threads, NEW s \in Sockets, ObjectDestroy(th, s)
  PROVE  Proceeds(s)
<1> USE DEF Attempts, Beginnings, Waiting, Before, Telling
<1>1. /\ DestroyTypes /\ Ordered /\ Given(s) /\ s \in Asyncs /\ At(th, "object_destroy", s)
      /\ \A ops, t : Frames(ops, t) \in Nat
  BY SocketTypes, CountsType DEF DestroyInv, ObjectDestroy
<1>2. stale = {} /\ Frames(Beginnings, s) >= 1 /\ Frames(Before, s) >= 1
  BY <1>1, AboutTo
<1>3. UNCHANGED <<canceled, child, io, stale, object_ref, object, open, status>>
  BY DEF ObjectDestroy, operation, rest, destruction
<1>4. object_ref[s] = 0 /\ Frames(Beginnings, s) = 1 /\ io[s] = "none" /\ object[s] # "freed"
  <2>1. object_ref[s] = 0 /\ Frames(Beginnings, s) = 1 /\ io[s] = "none"
    BY <1>1, <1>2 DEF DestroyTypes, Given, StartedOnce, One
  <2> QED BY <1>1, <1>2, <2>1 DEF Given, GivenUpOnce
<1>5. /\ stack' \in Stacks /\ Finite(stack') /\ Ordered'
      /\ \A ops, t : t # s => Frames(ops, t)' = Frames(ops, t)
      /\ \/ \A ops : Frames(ops, s)' = Frames(ops, s) - One("object_destroy" \in ops)
         \/ \A ops : Frames(ops, s)' = Frames(ops, s) - One("object_destroy" \in ops)
                       + One("wait" \in ops) + One("disconnect" \in ops) + One("new" \in ops)
  <2>1. PICK op \in {"object_destroy"} : At(th, op, s)
    BY <1>1
  <2>2. CASE Call(th, << >>)
    BY <1>1, <2>1, <2>2, Steps0
  <2>3. CASE Call(th, <<Frame("new", s), Frame("disconnect", s), Frame("wait", s)>>)
    <3>1. "new" \in Operations /\ "disconnect" \in Operations /\ "wait" \in Operations
      BY DEF Operations
    <3>2. PICK f \in FrameType, g \in FrameType, h \in FrameType :
            /\ f.op = "new" /\ f.async = s /\ g.op = "disconnect" /\ g.async = s
            /\ h.op = "wait" /\ h.async = s /\ Call(th, <<f, g, h>>)
      BY <2>3, <3>1, SocketFrames
    <3>3. op \in Before
      BY <2>1
    <3>4. /\ stack' \in Stacks /\ Finite(stack') /\ Ordered'
          /\ \A ops : Frames(ops, s)' = Frames(ops, s) - One(op \in ops)
                        + One(h.op \in ops) + One(g.op \in ops) + One(f.op \in ops)
          /\ \A ops, t : t # s => Frames(ops, t)' = Frames(ops, t)
      BY <1>1, <2>1, <3>2, <3>3, Steps3
    <3> QED BY <2>1, <3>2, <3>4
  <2> QED BY <2>2, <2>3 DEF ObjectDestroy, Return
<1>6. DestroyTypes'
  BY <1>1, <1>3, <1>5 DEF DestroyTypes
<1>7. \A t \in Sockets : t # s => Untouched(t)
  BY <1>1, <1>3, <1>5, Elsewhere
<1>8. /\ Frames({"object_release"}, s)' = Frames({"object_release"}, s)
      /\ Frames({"object_free"}, s)' = Frames({"object_free"}, s)
      /\ Frames({"disconnected"}, s)' = Frames({"disconnected"}, s)
      /\ Frames(Telling, s)' = Frames(Telling, s)
      /\ Frames(Beginnings, s)' <= 1
      /\ \/ Frames(Attempts, s)' = Frames(Attempts, s) /\ Frames({"wait"}, s)' = Frames({"wait"}, s)
         \/ Frames({"wait"}, s)' > 0
  <2>1. /\ Frames({"object_release"}, s)' = Frames({"object_release"}, s)
        /\ Frames({"object_free"}, s)' = Frames({"object_free"}, s)
        /\ Frames({"disconnected"}, s)' = Frames({"disconnected"}, s)
        /\ Frames(Telling, s)' = Frames(Telling, s)
    BY <1>1, <1>5 DEF One
  <2>2. Frames(Beginnings, s)' <= 1
    BY <1>1, <1>4, <1>5 DEF One
  <2>3. \/ Frames(Attempts, s)' = Frames(Attempts, s) /\ Frames({"wait"}, s)' = Frames({"wait"}, s)
        \/ Frames({"wait"}, s)' > 0
    BY <1>1, <1>5 DEF One
  <2> QED BY <2>1, <2>2, <2>3
<1>9. GivenUpOnce(s)'
  BY <1>1, <1>3, <1>4, <1>8 DEF Given, GivenUpOnce
<1>10. StartedOnce(s)'
  <2>1. Frames(Beginnings, s)' \in Int
    BY <1>1, <1>5 DEF One
  <2> QED BY <1>1, <1>3, <1>4, <1>8, <2>1 DEF Given, StartedOnce, One
<1>11. ClosedOnce(s)'
  BY <1>1, <1>3, <1>8 DEF Given, ClosedOnce
<1>12. ToldTheTruth(s)'
  BY <1>1, <1>3, <1>4, <1>8 DEF Given, ToldTheTruth
<1> QED BY <1>2, <1>3, <1>5, <1>6, <1>7, <1>9, <1>10, <1>11, <1>12 DEF Proceeds, Given

\* It waits until somebody has notified it.
LEMMA WaitProceeds ==
  ASSUME DestroyInv, NEW th \in Threads, NEW s \in Sockets, Wait(th, s)
  PROVE  Proceeds(s)
<1> USE DEF Attempts, Beginnings, Waiting, Before, Telling
<1>1. /\ DestroyTypes /\ Ordered /\ Given(s) /\ s \in Asyncs /\ At(th, "wait", s)
      /\ \A ops, t : Frames(ops, t) \in Nat
  BY SocketTypes, CountsType DEF DestroyInv, Wait
<1>2. stale = {} /\ Frames(Before, s) >= 1 /\ object[s] # "freed" /\ status[s]
  <2>1. stale = {} /\ Frames(Before, s) >= 1
    BY <1>1, AboutTo
  <2> QED BY <1>1, <2>1 DEF Given, GivenUpOnce, Wait
<1>3. UNCHANGED <<canceled, child, io, stale, object_ref, object, open, status>>
  BY DEF Wait, operation, rest, destruction
<1>4. /\ stack' \in Stacks /\ Finite(stack') /\ Ordered'
      /\ \A ops, t : t # s => Frames(ops, t)' = Frames(ops, t)
      /\ \A ops : Frames(ops, s)' = Frames(ops, s) - One("wait" \in ops)
  BY <1>1, Steps0 DEF Wait, Return
<1>5. DestroyTypes'
  BY <1>1, <1>3, <1>4 DEF DestroyTypes
<1>6. \A t \in Sockets : t # s => Untouched(t)
  BY <1>1, <1>3, <1>4, Elsewhere
<1>7. /\ Frames({"object_release"}, s)' = Frames({"object_release"}, s)
      /\ Frames({"object_free"}, s)' = Frames({"object_free"}, s)
      /\ Frames({"disconnected"}, s)' = Frames({"disconnected"}, s)
      /\ Frames(Telling, s)' = Frames(Telling, s)
      /\ Frames(Beginnings, s)' = Frames(Beginnings, s)
  BY <1>1, <1>4 DEF One
<1>8. GivenUpOnce(s)' /\ StartedOnce(s)' /\ ClosedOnce(s)' /\ ToldTheTruth(s)'
  BY <1>1, <1>2, <1>3, <1>7 DEF Given, GivenUpOnce, StartedOnce, ClosedOnce, ToldTheTruth
<1> QED BY <1>2, <1>3, <1>4, <1>5, <1>6, <1>8 DEF Proceeds, Given

\* If a thread is about to free the object, nothing else is left to do.
LEMMA FreedLast ==
  ASSUME DestroyTypes, Ordered, NEW th \in Threads, NEW s \in Sockets,
         At(th, "object_free", s), Frames({"object_free"}, s) = 1
  PROVE  Frames(Before, s) = 0
<1>1. stack \in Stacks /\ Finite(stack) /\ \A t \in Threads : stack[t] \in Seq(FrameType)
  BY DEF DestroyTypes, Stacks
<1>2. SUFFICES ASSUME NEW t \in Threads, NEW k \in DOMAIN stack[t], IsOf(stack[t][k], Before, s)
               PROVE  FALSE
  BY <1>1, NoFrames
<1>3. PICK j \in DOMAIN stack[t] : j > k /\ stack[t][j].op = "object_free" /\ stack[t][j].async = s
  <2>1. stack[t][k].op \in Before /\ stack[t][k].async = s
    BY <1>2 DEF IsOf
  <2>2. InOrder(stack[t])
    BY DEF Ordered
  <2> QED BY <2>1, <2>2 DEF InOrder
<1>4. /\ Len(stack[t]) \in Nat /\ DOMAIN stack[t] = 1..Len(stack[t])
      /\ Len(stack[th]) \in Nat /\ DOMAIN stack[th] = 1..Len(stack[th]) /\ Len(stack[th]) >= 1
      /\ stack[th][1].op = "object_free" /\ stack[th][1].async = s
  <2>1. \A u \in Threads : Len(stack[u]) \in Nat /\ DOMAIN stack[u] = 1..Len(stack[u])
    BY <1>1
  <2>2. stack[th] # << >> /\ Head(stack[th]).op = "object_free" /\ Head(stack[th]).async = s
    BY DEF At
  <2>3. Len(stack[th]) >= 1 /\ Head(stack[th]) = stack[th][1]
    BY <1>1, <2>2
  <2> QED BY <2>1, <2>2, <2>3
<1> DEFINE free == Slots(stack, {"object_free"}, s)
           d == Len(stack[t]) + 1 - j
           e == Len(stack[th])
<1>5. <<t, d>> \in free
  <2>1. d \in 1..Len(stack[t]) /\ Len(stack[t]) + 1 - d = j
    <3>1. j \in 1..Len(stack[t]) /\ Len(stack[t]) \in Nat
      BY <1>3, <1>4
    <3> QED BY ONLY <3>1
  <2> QED BY <1>1, <1>3, <2>1, InSlots DEF IsOf
<1>6. <<th, e>> \in free
  <2>1. e \in 1..Len(stack[th]) /\ Len(stack[th]) + 1 - e = 1
    BY <1>4
  <2> QED BY <1>1, <1>4, <2>1, InSlots DEF IsOf
<1>7. IsFiniteSet(free) /\ Cardinality(free) = 1
  BY <1>1, SlotsFinite DEF Frames
<1>8. <<t, d>> = <<th, e>>
  <2> HIDE DEF free, d, e
  <2>1. PICK x : free = {x}
    BY <1>7, FS_Singleton
  <2> QED BY <1>5, <1>6, <2>1
<1>9. t = th /\ j = 1
  BY <1>3, <1>4, <1>8
<1> QED BY <1>2, <1>3, <1>4, <1>9

LEMMA ObjectFreeProceeds ==
  ASSUME DestroyInv, NEW th \in Threads, NEW s \in Sockets, ObjectFree(th, s)
  PROVE  Proceeds(s)
<1> USE DEF Attempts, Beginnings, Waiting, Before, Telling
<1>1. /\ DestroyTypes /\ Ordered /\ Given(s) /\ s \in Asyncs /\ At(th, "object_free", s)
      /\ \A ops, t : Frames(ops, t) \in Nat
  BY SocketTypes, CountsType DEF DestroyInv, ObjectFree
<1>2. stale = {} /\ Frames({"object_free"}, s) >= 1
  BY <1>1, AboutTo
<1>3. /\ object' = [object EXCEPT ![s] = "freed"]
      /\ UNCHANGED <<canceled, child, io, stale, object_ref, open, status>>
  BY DEF ObjectFree, operation, rest
<1>4. object_ref[s] = 0 /\ Frames({"object_free"}, s) = 1 /\ Frames(Before, s) = 0
  <2>1. object_ref[s] = 0 /\ Frames({"object_free"}, s) = 1
    BY <1>1, <1>2 DEF DestroyTypes, Given, GivenUpOnce, One
  <2> HIDE DEF Before
  <2> QED BY <1>1, <2>1, FreedLast
<1>5. /\ stack' \in Stacks /\ Finite(stack') /\ Ordered'
      /\ \A ops, t : t # s => Frames(ops, t)' = Frames(ops, t)
      /\ \A ops : Frames(ops, s)' = Frames(ops, s) - One("object_free" \in ops)
  BY <1>1, Steps0 DEF ObjectFree, Return
<1>6. DestroyTypes'
  BY <1>1, <1>3, <1>5 DEF DestroyTypes
<1>7. \A t \in Sockets : t # s => Untouched(t)
  BY <1>1, <1>3, <1>5, Elsewhere DEF DestroyTypes
<1>8. /\ Frames({"object_release"}, s)' = Frames({"object_release"}, s)
      /\ Frames({"object_free"}, s)' = 0
      /\ Frames({"disconnected"}, s)' = Frames({"disconnected"}, s)
      /\ Frames(Telling, s)' = Frames(Telling, s)
      /\ Frames(Beginnings, s)' = Frames(Beginnings, s)
      /\ Frames(Attempts, s)' = Frames(Attempts, s)
      /\ Frames(Waiting, s)' = Frames(Waiting, s)
      /\ Frames({"wait"}, s)' = Frames({"wait"}, s)
      /\ Frames(Before, s)' = Frames(Before, s)
  BY <1>1, <1>4, <1>5 DEF One
<1>9. GivenUpOnce(s)'
  BY <1>1, <1>3, <1>4, <1>8 DEF Given, GivenUpOnce, One
<1>10. StartedOnce(s)' /\ ClosedOnce(s)' /\ ToldTheTruth(s)'
  BY <1>1, <1>3, <1>8 DEF Given, StartedOnce, ClosedOnce, ToldTheTruth
<1> QED BY <1>2, <1>3, <1>5, <1>6, <1>7, <1>9, <1>10 DEF Proceeds, Given

\* Once the object is freed, the disconnect was reported or never started.
LEMMA FreedWhenTold ==
  ASSUME DestroyTypes, NEW s \in Sockets, Given(s), object[s] = "freed"
  PROVE  ~open[s] \/ io[s] = "none" \/ canceled[s]
<1>1. \A ops : Frames(ops, s) \in Nat
  BY CountsType
<1>2. Frames(Waiting, s) = 0
  <2>1. Frames(Before, s) = 0
    BY DEF Given, GivenUpOnce
  <2>2. Frames(Waiting, s) <= Frames(Before, s)
    <3>1. Waiting \subseteq Before
      BY DEF Waiting, Before, Beginnings
    <3> QED BY <3>1, FewerFrames
  <2> QED BY <1>1, <2>1, <2>2
<1>3. object_ref[s] = 0
  BY <1>1 DEF DestroyTypes, Given, GivenUpOnce, One
<1>4. status[s] \/ io[s] = "none"
  BY <1>2, <1>3 DEF Given, StartedOnce
<1> QED BY <1>4 DEF Given, ToldTheTruth

\* The packet comes in time, or for an object that was freed after a timeout.
LEMMA DisconnectedProceeds ==
  ASSUME DestroyInv, NEW th \in Threads, NEW s \in Sockets, Disconnected(th, s)
  PROVE  Proceeds(s)
<1> USE DEF Attempts, Beginnings, Waiting, Before, Telling
<1>1. /\ DestroyTypes /\ Ordered /\ Given(s) /\ s \in Asyncs /\ At(th, "disconnected", s)
      /\ \A ops, t : Frames(ops, t) \in Nat
  BY SocketTypes, CountsType DEF DestroyInv, Disconnected
<1>2. stale = {} /\ Frames({"disconnected"}, s) >= 1
  BY <1>1, AboutTo
<1>3. Frames({"disconnected"}, s) = 1 /\ io[s] = "done" /\ open[s]
  BY <1>1, <1>2 DEF Given, ClosedOnce, One
<1>4. UNCHANGED <<canceled, child, io, object_ref, object, status>>
  BY DEF Disconnected, operation
<1>5. CASE object[s] = "live"
  <2>1. stale' = {} /\ open' = [open EXCEPT ![s] = FALSE] /\ Call(th, <<Frame("notify", s)>>)
    BY <1>2, <1>5 DEF Disconnected
  <2>2. PICK f \in FrameType : f.op = "notify" /\ f.async = s /\ Call(th, <<f>>)
    BY <2>1, SocketFrames DEF Operations
  <2>3. /\ stack' \in Stacks /\ Finite(stack') /\ Ordered'
        /\ \A ops, t : t # s => Frames(ops, t)' = Frames(ops, t)
        /\ \A ops : Frames(ops, s)' = Frames(ops, s) - One("disconnected" \in ops) + One("notify" \in ops)
    BY <1>1, <2>2, Steps1
  <2>4. DestroyTypes'
    BY <1>1, <1>4, <2>1, <2>3 DEF DestroyTypes
  <2>5. \A t \in Sockets : t # s => Untouched(t)
    BY <1>1, <1>4, <2>1, <2>3, Elsewhere DEF DestroyTypes
  <2>6. /\ Frames({"object_release"}, s)' = Frames({"object_release"}, s)
        /\ Frames({"object_free"}, s)' = Frames({"object_free"}, s)
        /\ Frames({"disconnected"}, s)' = 0
        /\ Frames(Beginnings, s)' = Frames(Beginnings, s)
        /\ Frames(Attempts, s)' = Frames(Attempts, s)
        /\ Frames(Waiting, s)' = Frames(Waiting, s)
        /\ Frames({"wait"}, s)' = Frames({"wait"}, s)
        /\ Frames(Before, s)' = Frames(Before, s)
    BY <1>1, <1>3, <2>3 DEF One
  <2>7. GivenUpOnce(s)' /\ StartedOnce(s)'
    BY <1>1, <1>4, <2>6 DEF Given, GivenUpOnce, StartedOnce
  <2>8. ~open'[s]
    BY <1>1, <2>1 DEF DestroyTypes
  <2>9. ClosedOnce(s)' /\ ToldTheTruth(s)'
    BY <1>3, <1>4, <2>6, <2>8 DEF ClosedOnce, ToldTheTruth, One
  <2> QED BY <2>1, <2>3, <2>4, <2>5, <2>7, <2>9 DEF Proceeds, Given
<1>6. CASE object[s] # "live"
  <2>1. stack' = stack /\ open' = open
    BY <1>6 DEF Disconnected, Misuse
  <2>2. canceled[s]
    <3>1. object[s] = "freed"
      BY <1>1, <1>6 DEF DestroyTypes
    <3> QED BY <1>1, <1>3, <3>1, FreedWhenTold
  <2>3. \A ops, t : Frames(ops, t)' = Frames(ops, t)
    BY <2>1 DEF Frames
  <2>4. DestroyTypes' /\ Ordered'
    BY <1>1, <1>4, <2>1 DEF DestroyTypes, Ordered, InOrder
  <2>5. \A t \in Sockets : t # s => Untouched(t)
    BY <1>1, <1>4, <2>1, <2>3, Elsewhere
  <2>6. Given(s)'
    BY <1>1, <1>4, <2>1, <2>3 DEF Given, GivenUpOnce, StartedOnce, ClosedOnce, ToldTheTruth
  <2> QED BY <1>4, <2>2, <2>4, <2>5, <2>6 DEF Proceeds
<1> QED BY <1>5, <1>6

\* The destroyer is told.
LEMMA WaitNotifyProceeds ==
  ASSUME DestroyInv, NEW th \in Threads, NEW s \in Sockets, WaitNotify(th, s)
  PROVE  Proceeds(s)
<1> USE DEF Attempts, Beginnings, Waiting, Before, Telling
<1>1. /\ DestroyTypes /\ Ordered /\ Given(s) /\ s \in Asyncs /\ At(th, "async_notify", s)
      /\ \A ops, t : Frames(ops, t) \in Nat
  BY SocketTypes, CountsType DEF DestroyInv, WaitNotify
<1>2. stale = {} /\ Frames(Telling, s) >= 1
  BY <1>1, AboutTo
<1>3. /\ status' = [status EXCEPT ![s] = TRUE] /\ status'[s]
      /\ UNCHANGED <<canceled, child, io, stale, object_ref, object, open>>
  BY <1>1 DEF WaitNotify, operation, rest, DestroyTypes
<1>4. /\ stack' \in Stacks /\ Finite(stack') /\ Ordered'
      /\ \A ops, t : t # s => Frames(ops, t)' = Frames(ops, t)
      /\ \A ops : Frames(ops, s)' = Frames(ops, s) - One("async_notify" \in ops)
  BY <1>1, Steps0 DEF WaitNotify, Return
<1>5. DestroyTypes'
  BY <1>1, <1>3, <1>4 DEF DestroyTypes
<1>6. \A t \in Sockets : t # s => Untouched(t)
  BY <1>1, <1>3, <1>4, Elsewhere DEF DestroyTypes
<1>7. /\ Frames({"object_release"}, s)' = Frames({"object_release"}, s)
      /\ Frames({"object_free"}, s)' = Frames({"object_free"}, s)
      /\ Frames({"disconnected"}, s)' = Frames({"disconnected"}, s)
      /\ Frames(Beginnings, s)' = Frames(Beginnings, s)
      /\ Frames(Before, s)' = Frames(Before, s)
  BY <1>1, <1>4 DEF One
<1>8. GivenUpOnce(s)' /\ StartedOnce(s)' /\ ClosedOnce(s)'
  BY <1>1, <1>3, <1>7 DEF Given, GivenUpOnce, StartedOnce, ClosedOnce
<1>9. ToldTheTruth(s)'
  BY <1>1, <1>2, <1>3, <1>7 DEF Given, ToldTheTruth
<1> QED BY <1>2, <1>3, <1>4, <1>5, <1>6, <1>8, <1>9 DEF Proceeds, Given

\* What is known before the disconnect has started.
LEMMA Attempting ==
  ASSUME DestroyTypes, NEW s \in Sockets, Given(s), Frames(Attempts, s) >= 1
  PROVE  /\ object_ref[s] = 0 /\ io[s] = "none" /\ open[s] /\ object[s] # "freed"
         /\ Frames(Beginnings, s) = 1 /\ Frames(Attempts, s) = 1
         /\ canceled[s] \/ (Frames(Telling, s) = 0 /\ ~status[s])
         /\ Frames(Waiting, s) > 0 \/ status[s]
<1>1. \A ops : Frames(ops, s) \in Nat
  BY CountsType
<1>2. /\ Frames(Attempts, s) <= Frames(Beginnings, s) /\ Frames(Attempts, s) <= Frames(Before, s)
      /\ Frames({"wait"}, s) <= Frames(Waiting, s)
  <2>1. Attempts \subseteq Beginnings /\ Attempts \subseteq Before /\ {"wait"} \subseteq Waiting
    BY DEF Attempts, Beginnings, Before, Waiting
  <2> QED BY <2>1, FewerFrames
<1>3. /\ object_ref[s] = 0 /\ io[s] = "none"
      /\ Frames(Beginnings, s) = 1 /\ Frames(Attempts, s) = 1
  BY <1>1, <1>2 DEF DestroyTypes, Given, StartedOnce, One
<1>4. open[s]
  BY <1>1, <1>3 DEF Given, ClosedOnce, One
<1>5. object[s] # "freed"
  BY <1>1, <1>2 DEF Given, GivenUpOnce
<1>6. canceled[s] \/ (Frames(Telling, s) = 0 /\ ~status[s])
  BY <1>1, <1>3, <1>4 DEF Given, ToldTheTruth
<1>7. Frames(Waiting, s) > 0 \/ status[s]
  BY <1>1, <1>2 DEF Given, StartedOnce
<1> QED BY <1>3, <1>4, <1>5, <1>6, <1>7

\* The destroyer calls the disconnect, or fails to, or finds itself cancelled.
LEMMA DisconnectProceeds ==
  ASSUME DestroyInv, NEW th \in Threads, NEW s \in Sockets, Disconnect(th, s), UNCHANGED destruction
  PROVE  Proceeds(s)
<1> USE DEF Attempts, Beginnings, Waiting, Before, Telling
<1>1. /\ DestroyTypes /\ Ordered /\ Given(s) /\ s \in Asyncs /\ At(th, "disconnect", s)
      /\ \A ops, t : Frames(ops, t) \in Nat
  BY SocketTypes, CountsType DEF DestroyInv, Disconnect
<1>2. stale = {} /\ Frames(Attempts, s) >= 1
  BY <1>1, AboutTo
<1>3. UNCHANGED <<canceled, child, io, stale, object_ref, object, open, status>>
  BY DEF Disconnect, rest, destruction
<1>4. /\ object_ref[s] = 0 /\ io[s] = "none" /\ object[s] # "freed"
      /\ Frames(Beginnings, s) = 1 /\ Frames(Attempts, s) = 1
      /\ canceled[s] \/ (Frames(Telling, s) = 0 /\ ~status[s])
  <2> HIDE DEF Attempts, Beginnings, Waiting, Before, Telling
  <2> QED BY <1>1, <1>2, Attempting
<1>5. /\ stack' \in Stacks /\ Finite(stack') /\ Ordered'
      /\ \A ops, t : t # s => Frames(ops, t)' = Frames(ops, t)
      /\ \/ \A ops : Frames(ops, s)' = Frames(ops, s) - One("disconnect" \in ops)
                                         + One("disconnectex" \in ops)
         \/ \A ops : Frames(ops, s)' = Frames(ops, s) - One("disconnect" \in ops)
                                         + One("notify" \in ops)
         \/ /\ canceled[s]
            /\ \A ops : Frames(ops, s)' = Frames(ops, s) - One("disconnect" \in ops)
                                            + One("unlock" \in ops) + One("notify" \in ops)
  <2>1. PICK op \in {"disconnect"} : At(th, op, s)
    BY <1>1
  <2>2. "disconnectex" \in Operations /\ "notify" \in Operations /\ "unlock" \in Operations
    BY DEF Operations
  <2>3. ASSUME NEW x \in {"disconnectex", "notify"}, Call(th, <<Frame(x, s)>>)
        PROVE  /\ stack' \in Stacks /\ Finite(stack') /\ Ordered'
               /\ \A ops, t : t # s => Frames(ops, t)' = Frames(ops, t)
               /\ \A ops : Frames(ops, s)' = Frames(ops, s) - One("disconnect" \in ops) + One(x \in ops)
    <3>1. PICK f \in FrameType : f.op = x /\ f.async = s /\ Call(th, <<f>>)
      BY <2>2, <2>3, SocketFrames
    <3>2. op \in Before
      BY <2>1
    <3>3. /\ stack' \in Stacks /\ Finite(stack') /\ Ordered'
          /\ \A ops, t : t # s => Frames(ops, t)' = Frames(ops, t)
          /\ \A ops : Frames(ops, s)' = Frames(ops, s) - One(op \in ops) + One(f.op \in ops)
      <4> HIDE DEF Attempts, Beginnings, Waiting, Before, Telling
      <4> QED BY <1>1, <2>1, <3>1, <3>2, Steps1
    <3> QED BY <2>1, <3>1, <3>3
  <2>4. CASE canceled[s] /\ Call(th, <<Frame("notify", s), Frame("unlock", s)>>)
    <3>1. PICK f \in FrameType, g \in FrameType :
            /\ f.op = "notify" /\ f.async = s /\ g.op = "unlock" /\ g.async = s
            /\ Call(th, <<f, g>>)
      BY <2>2, <2>4, SocketFrames
    <3>2. f.op \notin Before /\ g.op \notin Before
      BY <3>1
    <3>3. /\ stack' \in Stacks /\ Finite(stack') /\ Ordered'
          /\ \A ops, t : t # s => Frames(ops, t)' = Frames(ops, t)
          /\ \A ops : Frames(ops, s)' = Frames(ops, s) - One(op \in ops)
                                          + One(g.op \in ops) + One(f.op \in ops)
      <4> HIDE DEF Attempts, Beginnings, Waiting, Before, Telling
      <4> QED BY <1>1, <2>1, <3>1, <3>2, Steps2
    <3> QED BY <2>1, <2>4, <3>1, <3>3
  <2>5. CASE Call(th, <<Frame("disconnectex", s)>>)
    BY <2>3, <2>5
  <2>6. CASE Call(th, <<Frame("notify", s)>>)
    BY <2>3, <2>6
  <2> QED BY <2>4, <2>5, <2>6 DEF Disconnect, AsyncEnter
<1>6. DestroyTypes'
  BY <1>1, <1>3, <1>5 DEF DestroyTypes
<1>7. \A t \in Sockets : t # s => Untouched(t)
  BY <1>1, <1>3, <1>5, Elsewhere
<1>8. /\ Frames({"object_release"}, s)' = Frames({"object_release"}, s)
      /\ Frames({"object_free"}, s)' = Frames({"object_free"}, s)
      /\ Frames({"disconnected"}, s)' = Frames({"disconnected"}, s)
      /\ Frames(Waiting, s)' = Frames(Waiting, s)
      /\ Frames({"wait"}, s)' = Frames({"wait"}, s)
  BY <1>1, <1>5 DEF One
<1>9. /\ Frames(Beginnings, s)' \in 0..1 /\ Frames(Attempts, s)' \in 0..1
      /\ canceled[s] \/ Frames(Beginnings, s)' = 0 \/ Frames(Telling, s)' = 0
  <2>1. CASE \A ops : Frames(ops, s)' = Frames(ops, s) - One("disconnect" \in ops)
                                         + One("disconnectex" \in ops)
    BY <1>1, <1>4, <2>1 DEF One
  <2>2. CASE \A ops : Frames(ops, s)' = Frames(ops, s) - One("disconnect" \in ops)
                                         + One("notify" \in ops)
    BY <1>1, <1>4, <2>2 DEF One
  <2>3. CASE /\ canceled[s]
             /\ \A ops : Frames(ops, s)' = Frames(ops, s) - One("disconnect" \in ops)
                                             + One("unlock" \in ops) + One("notify" \in ops)
    BY <1>1, <1>4, <2>3 DEF One
  <2> QED BY <1>5, <2>1, <2>2, <2>3
<1>10. GivenUpOnce(s)'
  BY <1>1, <1>3, <1>4, <1>8 DEF Given, GivenUpOnce
<1>11. StartedOnce(s)'
  BY <1>1, <1>2, <1>3, <1>4, <1>8, <1>9 DEF Given, StartedOnce, One
<1>12. ClosedOnce(s)'
  BY <1>1, <1>3, <1>8 DEF Given, ClosedOnce
<1>13. ToldTheTruth(s)'
  BY <1>3, <1>4, <1>9 DEF ToldTheTruth
<1> QED BY <1>2, <1>3, <1>5, <1>6, <1>7, <1>10, <1>11, <1>12, <1>13 DEF Proceeds, Given

\* DisconnectEx starts, or fails.
LEMMA DisconnectExProceeds ==
  ASSUME DestroyInv, NEW th \in Threads, NEW s \in Sockets, DisconnectEx(th, s),
         UNCHANGED destruction
  PROVE  Proceeds(s)
<1> USE DEF Attempts, Beginnings, Waiting, Before, Telling
<1>1. /\ DestroyTypes /\ Ordered /\ Given(s) /\ s \in Asyncs /\ At(th, "disconnectex", s)
      /\ \A ops, t : Frames(ops, t) \in Nat
  BY SocketTypes, CountsType DEF DestroyInv, DisconnectEx
<1>2. stale = {} /\ Frames(Attempts, s) >= 1
  BY <1>1, AboutTo
<1>3. UNCHANGED <<canceled, child, stale, object_ref, object, open, status>>
  BY DEF DisconnectEx, rest, destruction
<1>4. /\ object_ref[s] = 0 /\ io[s] = "none" /\ object[s] # "freed"
      /\ Frames(Beginnings, s) = 1 /\ Frames(Attempts, s) = 1
      /\ canceled[s] \/ (Frames(Telling, s) = 0 /\ ~status[s])
      /\ Frames(Waiting, s) > 0 \/ status[s]
  <2> HIDE DEF Attempts, Beginnings, Waiting, Before, Telling
  <2> QED BY <1>1, <1>2, Attempting
<1>5. PICK f \in FrameType, g \in FrameType, h \in FrameType :
        /\ f.op = "unlock" /\ f.async = s /\ g.op = "release" /\ g.async = s
        /\ h.op = "notify" /\ h.async = s
        /\ f = Frame("unlock", s) /\ g = Frame("release", s) /\ h = Frame("notify", s)
  <2>1. "unlock" \in Operations /\ "release" \in Operations /\ "notify" \in Operations
    BY DEF Operations
  <2> QED BY <2>1, SocketFrames
<1>6. /\ stack' \in Stacks /\ Finite(stack') /\ Ordered'
      /\ \A ops, t : t # s => Frames(ops, t)' = Frames(ops, t)
      /\ \/ /\ io' = [io EXCEPT ![s] = "pending"]
            /\ \A ops : Frames(ops, s)' = Frames(ops, s) - One("disconnectex" \in ops)
                                            + One("release" \in ops) + One("unlock" \in ops)
         \/ /\ io' = io
            /\ \A ops : Frames(ops, s)' = Frames(ops, s) - One("disconnectex" \in ops)
                          + One("notify" \in ops) + One("release" \in ops) + One("unlock" \in ops)
  <2>1. PICK op \in {"disconnectex"} : At(th, op, s)
    BY <1>1
  <2>2. op \in Before /\ f.op \notin Before /\ g.op \notin Before /\ h.op \notin Before
    BY <1>5, <2>1
  <2>3. CASE io' = [io EXCEPT ![s] = "pending"] /\ Call(th, <<f, g>>)
    <3>1. /\ stack' \in Stacks /\ Finite(stack') /\ Ordered'
          /\ \A ops, t : t # s => Frames(ops, t)' = Frames(ops, t)
          /\ \A ops : Frames(ops, s)' = Frames(ops, s) - One(op \in ops)
                                          + One(g.op \in ops) + One(f.op \in ops)
      <4> HIDE DEF Attempts, Beginnings, Waiting, Before, Telling
      <4> QED BY <1>1, <1>5, <2>1, <2>2, <2>3, Steps2
    <3> QED BY <1>5, <2>1, <2>3, <3>1
  <2>4. CASE io' = io /\ Call(th, <<f, g, h>>)
    <3>1. /\ stack' \in Stacks /\ Finite(stack') /\ Ordered'
          /\ \A ops, t : t # s => Frames(ops, t)' = Frames(ops, t)
          /\ \A ops : Frames(ops, s)' = Frames(ops, s) - One(op \in ops)
                        + One(h.op \in ops) + One(g.op \in ops) + One(f.op \in ops)
      <4> HIDE DEF Attempts, Beginnings, Waiting, Before, Telling
      <4> QED BY <1>1, <1>5, <2>1, <2>2, <2>4, Steps3
    <3> QED BY <1>5, <2>1, <2>4, <3>1
  <2>5. \/ io' = [io EXCEPT ![s] = "pending"] /\ Call(th, <<f, g>>)
        \/ io' = io /\ Call(th, <<f, g>> \o <<h>>)
    BY <1>5 DEF DisconnectEx, Submit, AsyncLeave
  <2> QED BY <2>3, <2>4, <2>5, Triples
<1>7. DestroyTypes'
  BY <1>1, <1>3, <1>6 DEF DestroyTypes
<1>8. \A t \in Sockets : t # s => Untouched(t)
  BY <1>1, <1>3, <1>6, Elsewhere, SocketTypes DEF DestroyTypes
<1>9. /\ Frames({"object_release"}, s)' = Frames({"object_release"}, s)
      /\ Frames({"object_free"}, s)' = Frames({"object_free"}, s)
      /\ Frames({"disconnected"}, s)' = Frames({"disconnected"}, s)
      /\ Frames(Waiting, s)' = Frames(Waiting, s)
      /\ Frames(Beginnings, s)' = 0 /\ Frames(Attempts, s)' = 0
  BY <1>1, <1>4, <1>6 DEF One
<1>10. \/ io'[s] = "pending" /\ Frames(Telling, s)' = Frames(Telling, s)
       \/ io'[s] = "none"
  BY <1>1, <1>4, <1>6 DEF DestroyTypes, One
<1>11. GivenUpOnce(s)'
  BY <1>1, <1>3, <1>4, <1>9 DEF Given, GivenUpOnce
<1>12. StartedOnce(s)'
  BY <1>3, <1>4, <1>9, <1>10 DEF StartedOnce, One
<1>13. ClosedOnce(s)'
  BY <1>1, <1>3, <1>4, <1>9, <1>10 DEF Given, ClosedOnce, One
<1>14. ToldTheTruth(s)'
  BY <1>3, <1>4, <1>9, <1>10 DEF ToldTheTruth
<1> QED BY <1>2, <1>3, <1>6, <1>7, <1>8, <1>11, <1>12, <1>13, <1>14 DEF Proceeds, Given

\* A worker gets the packet.
LEMMA DequeueDisconnectProceeds ==
  ASSUME DestroyInv, NEW th \in Workers, NEW s \in Sockets, DequeueDisconnect(th, s)
  PROVE  Proceeds(s)
<1>1. /\ DestroyTypes /\ Ordered /\ Given(s) /\ s \in Asyncs /\ th \in Threads
      /\ \A ops, t : Frames(ops, t) \in Nat
  BY SocketTypes, CountsType DEF DestroyInv, Threads
<1>2. /\ stale = {} /\ stack[th] = << >> /\ io[s] = "queued" /\ io' = [io EXCEPT ![s] = "done"]
      /\ UNCHANGED <<canceled, child, stale, object_ref, object, open, status>>
  BY DEF DequeueDisconnect, operation, rest, destruction
<1>3. PICK f \in FrameType :
        f.op = "disconnected" /\ f.async = s /\ stack' = [stack EXCEPT ![th] = <<f>>]
  <2>1. "disconnected" \in Operations
    BY DEF Operations
  <2> QED BY <2>1, SocketFrames DEF DequeueDisconnect
<1>4. /\ stack' \in Stacks /\ Finite(stack')
      /\ \A ops, t : Frames(ops, t)' = Frames(ops, t) + One(IsOf(f, ops, t))
  BY <1>1, <1>2, <1>3, Begins1 DEF DestroyTypes
<1>5. Ordered'
  <2>1. InOrder(<<f>>)
    BY <1>3 DEF InOrder, Before, Beginnings, Attempts
  <2> QED BY <1>1, <1>3, <2>1, StaysOrdered
<1>6. DestroyTypes'
  BY <1>1, <1>2, <1>4, <1>5 DEF DestroyTypes
<1>7. \A ops, t : t # s => Frames(ops, t)' = Frames(ops, t)
  BY <1>1, <1>3, <1>4 DEF IsOf, One
<1>8. \A t \in Sockets : t # s => Untouched(t)
  BY <1>1, <1>2, <1>7, Elsewhere, SocketTypes DEF DestroyTypes
<1>9. /\ \A ops : "disconnected" \notin ops => Frames(ops, s)' = Frames(ops, s)
      /\ Frames({"disconnected"}, s)' = Frames({"disconnected"}, s) + 1
  BY <1>1, <1>3, <1>4 DEF IsOf, One
<1>10. /\ Frames({"object_release"}, s)' = Frames({"object_release"}, s)
       /\ Frames({"object_free"}, s)' = Frames({"object_free"}, s)
       /\ Frames(Attempts, s)' = Frames(Attempts, s)
       /\ Frames(Beginnings, s)' = Frames(Beginnings, s)
       /\ Frames(Waiting, s)' = Frames(Waiting, s)
       /\ Frames({"wait"}, s)' = Frames({"wait"}, s)
       /\ Frames(Before, s)' = Frames(Before, s)
       /\ Frames(Telling, s)' = Frames(Telling, s)
  BY <1>9 DEF Attempts, Beginnings, Waiting, Before, Telling
<1>11. io'[s] = "done"
  BY <1>1, <1>2 DEF DestroyTypes
<1>12. GivenUpOnce(s)'
  BY <1>1, <1>2, <1>10 DEF Given, GivenUpOnce
<1>13. StartedOnce(s)'
  BY <1>1, <1>2, <1>10, <1>11 DEF Given, StartedOnce, One
<1>14. ClosedOnce(s)'
  BY <1>1, <1>2, <1>9, <1>11 DEF Given, ClosedOnce, One
<1>15. ToldTheTruth(s)'
  BY <1>1, <1>2, <1>10, <1>11 DEF Given, ToldTheTruth
<1> QED BY <1>2, <1>5, <1>6, <1>8, <1>12, <1>13, <1>14, <1>15 DEF Proceeds, Given

-----------------------------------------------------------------------------
(* The theorem *)

\* A step that matters for one socket keeps the invariant.
LEMMA ProceedsKeeps ==
  ASSUME DestroyInv, NEW s \in Sockets, Proceeds(s)
  PROVE  DestroyInv'
<1>1. Blamed'
  BY DEF Proceeds, Blamed
<1>2. ASSUME NEW t \in Sockets
      PROVE  Given(t)'
  <2>1. CASE t = s
    BY <2>1 DEF Proceeds
  <2>2. CASE t # s
    BY <2>2, UntouchedKeeps DEF Proceeds, DestroyInv
  <2> QED BY <2>1, <2>2
<1> QED BY <1>1, <1>2 DEF Proceeds, DestroyInv

\* So does one that touches none.
LEMMA AsideKeepsInv ==
  ASSUME DestroyInv, NEW s \in Sockets, DestroyTypes', Ordered', stale' = {} \/ canceled'[s],
         \A t \in Sockets : Untouched(t)
  PROVE  DestroyInv'
<1>1. Blamed'
  BY DEF Blamed
<1>2. \A t \in Sockets : Given(t)'
  BY UntouchedKeeps DEF DestroyInv
<1> QED BY <1>1, <1>2 DEF DestroyInv

LEMMA DestroyInductive == DestroyInv /\ [DestroyNext]_destroyVars => DestroyInv'
<1> SUFFICES ASSUME DestroyInv, [DestroyNext]_destroyVars
             PROVE  DestroyInv'
  OBVIOUS
<1>1. CASE UNCHANGED destroyVars
  <2>1. UNCHANGED <<stack, canceled, child, io, stale, object_ref, object, open, status>>
    BY <1>1 DEF destroyVars, vars, operation, destruction
  <2>2. DestroyTypes' /\ Ordered' /\ Blamed'
    BY <2>1 DEF DestroyInv, DestroyTypes, Ordered, InOrder, Blamed
  <2>3. \A ops, t : Frames(ops, t)' = Frames(ops, t)
    BY <2>1 DEF Frames
  <2>4. \A s \in Sockets : Given(s)'
    BY <2>1, <2>3 DEF DestroyInv, Given, GivenUpOnce, StartedOnce, ClosedOnce, ToldTheTruth
  <2> QED BY <2>2, <2>4 DEF DestroyInv
<1>2. ASSUME NEW s \in Sockets, NEW th \in Threads, DestroyStep(th, s)
      PROVE  DestroyInv'
  <2> DEFINE Async == \/ AddTimerRef(th, s) \/ Schedule(th, s) \/ Cancel(th, s)
                      \/ Notify(th, s) \/ Release(th, s) \/ Unlock(th, s)
  <2>1. CASE ObjectRelease(th, s)
    BY <2>1, ObjectReleaseProceeds, ProceedsKeeps
  <2>2. CASE ObjectDestroy(th, s)
    BY <2>2, ObjectDestroyProceeds, ProceedsKeeps
  <2>3. CASE Wait(th, s)
    BY <2>3, WaitProceeds, ProceedsKeeps
  <2>4. CASE ObjectFree(th, s)
    BY <2>4, ObjectFreeProceeds, ProceedsKeeps
  <2>5. CASE Disconnected(th, s)
    BY <2>5, DisconnectedProceeds, ProceedsKeeps
  <2>6. CASE WaitNotify(th, s)
    BY <2>6, WaitNotifyProceeds, ProceedsKeeps
  <2>7. CASE FollowsLink(th, s)
    <3>1. /\ DestroyTypes' /\ Ordered' /\ (stale' = {} \/ canceled'[s])
          /\ \A t \in Sockets : Untouched(t)
      BY <2>7, BeginsAside DEF DestroyInv
    <3> QED BY <3>1, AsideKeepsInv
  <2>8. CASE Disconnect(th, s) /\ UNCHANGED destruction
    BY <2>8, DisconnectProceeds, ProceedsKeeps
  <2>9. CASE DisconnectEx(th, s) /\ UNCHANGED destruction
    BY <2>9, DisconnectExProceeds, ProceedsKeeps
  <2>10. CASE WaitNew(th, s) \/ (Async /\ UNCHANGED destruction)
    <3>1. /\ UNCHANGED <<object_ref, object, open, status>>
          /\ \/ New(th, s) \/ AddTimerRef(th, s) \/ Schedule(th, s) \/ Cancel(th, s)
             \/ Notify(th, s) \/ Release(th, s) \/ Unlock(th, s)
      BY <2>10 DEF WaitNew, destruction
    <3>2. /\ DestroyTypes' /\ Ordered' /\ stale' = {}
          /\ \A t \in Sockets : Untouched(t)
      BY <3>1, AsideKeeps DEF DestroyInv
    <3> QED BY <3>2, AsideKeepsInv
  <2> QED
    BY <1>2, <2>1, <2>2, <2>3, <2>4, <2>5, <2>6, <2>7, <2>8, <2>9, <2>10 DEF DestroyStep
<1>3. ASSUME NEW s \in Sockets, NEW th \in Workers, DequeueDisconnect(th, s)
      PROVE  DestroyInv'
  BY <1>3, DequeueDisconnectProceeds, ProceedsKeeps
<1>4. ASSUME NEW s \in Sockets, (IoEnds(s) \/ TimeoutFires(s)) /\ UNCHANGED destruction
      PROVE  DestroyInv'
  <2>1. /\ DestroyTypes' /\ Ordered' /\ (stale' = {} \/ canceled'[s])
        /\ \A t \in Sockets : Untouched(t)
    BY <1>4, BeginsAside DEF DestroyInv
  <2> QED BY <2>1, AsideKeepsInv
<1> QED BY <1>1, <1>2, <1>3, <1>4 DEF DestroyNext

LEMMA DestroyInitially == DestroyInit => DestroyInv
<1> SUFFICES ASSUME DestroyInit
             PROVE  DestroyInv
  OBVIOUS
<1>1. PICK held \in [Holders -> Held] :
        stack = [th \in Threads |->
                   IF th \in Holders
                   THEN [i \in DOMAIN held[th] |-> Frame("object_release", held[th][i])]
                   ELSE << >>]
  BY DEF DestroyInit
<1> DEFINE most == Cardinality(Sockets)
<1>2. most \in Nat
  <2>1. IsFiniteSet({Root}) /\ IsFiniteSet(Others)
    BY FS_Singleton, DestroyAssumption
  <2> QED BY <2>1, FS_Union, FS_CardinalityType DEF Sockets
<1> HIDE DEF most
<1>3. ASSUME NEW th \in Threads
      PROVE  /\ stack[th] \in Seq(FrameType)
             /\ th \notin Holders => stack[th] = << >>
             /\ DOMAIN stack[th] \subseteq 1..most
             /\ \A i \in DOMAIN stack[th] : stack[th][i].op = "object_release"
  <2>1. CASE th \in Holders
    <3>1. PICK n \in 0..most : held[th] \in [1..n -> Sockets]
      BY <2>1 DEF Held, most
    <3>2. stack[th] = [i \in 1..n |-> Frame("object_release", held[th][i])]
      BY <1>1, <2>1, <3>1
    <3>3. \A i \in 1..n : /\ Frame("object_release", held[th][i]) \in FrameType
                          /\ Frame("object_release", held[th][i]).op = "object_release"
      <4>1. "object_release" \in Operations
        BY DEF Operations, Outside
      <4> QED BY <3>1, <4>1, SocketFrames
    <3>4. n \in Nat /\ 1..n \subseteq 1..most
      BY <1>2, <3>1
    <3>5. stack[th] \in [1..n -> FrameType]
      BY <3>2, <3>3
    <3>6. stack[th] \in Seq(FrameType)
      BY <3>4, <3>5, SeqDef
    <3> QED BY <2>1, <3>2, <3>3, <3>4, <3>6
  <2>2. CASE th \notin Holders
    <3>1. stack[th] = << >>
      BY <1>1, <2>2
    <3> QED BY <2>2, <3>1
  <2> QED BY <2>1, <2>2
<1>4. stack \in Stacks
  BY <1>1, <1>3 DEF Stacks
<1>5. Finite(stack)
  <2>1. IsFiniteSet(Holders)
    <3>1. IsFiniteSet({Issuer}) /\ IsFiniteSet({Poller})
      BY FS_Singleton
    <3>2. Holders = ({Issuer} \union {Poller}) \union Workers
      BY DEF Holders
    <3> QED BY <3>1, <3>2, FS_Union, DestroyAssumption
  <2>2. IsFiniteSet(1..most)
    BY <1>2, FS_Interval
  <2>3. IsFiniteSet(Holders \X (1..most))
    BY <2>1, <2>2, FS_Product
  <2>4. Places(stack) \subseteq Holders \X (1..most)
    <3>1. ASSUME NEW th \in Threads
          PROVE  {th} \X DOMAIN stack[th] \subseteq Holders \X (1..most)
      BY <1>3
    <3> QED BY <3>1 DEF Places
  <2> QED BY <2>3, <2>4, FS_Subset DEF Finite
<1>6. ASSUME NEW ops, "object_release" \notin ops, NEW s
      PROVE  Frames(ops, s) = 0
  BY <1>3, <1>4, <1>5, <1>6, NoFrames DEF IsOf
<1>7. \A ops, s : Frames(ops, s) \in Nat
  BY <1>4, <1>5, FramesType
<1>8. /\ canceled = [a \in Asyncs |-> FALSE] /\ child = [a \in Asyncs |-> None]
      /\ io = [a \in Asyncs |-> "none"] /\ stale = {}
  BY DEF DestroyInit, NoneYet
<1>9. /\ object_ref = [s \in Sockets |-> Frames({"object_release"}, s)]
      /\ \A s \in Sockets : object_ref[s] > 0
      /\ object = [s \in Sockets |-> "live"] /\ open = [s \in Sockets |-> TRUE]
      /\ status = [s \in Sockets |-> FALSE]
  BY DEF DestroyInit
<1>10. DestroyTypes
  BY <1>4, <1>5, <1>7, <1>8, <1>9 DEF DestroyTypes
<1>11. Ordered
  BY <1>3 DEF Ordered, InOrder, Before, Beginnings, Attempts
<1>12. Blamed
  BY <1>8 DEF Blamed
<1>13. ASSUME NEW s \in Sockets
       PROVE  Given(s)
  <2>1. /\ Frames({"object_free"}, s) = 0 /\ Frames(Attempts, s) = 0 /\ Frames(Beginnings, s) = 0
        /\ Frames(Before, s) = 0 /\ Frames({"disconnected"}, s) = 0 /\ Frames(Telling, s) = 0
    BY <1>6 DEF Attempts, Beginnings, Before, Telling
  <2>2. /\ object_ref[s] = Frames({"object_release"}, s) /\ object_ref[s] > 0
        /\ object[s] = "live" /\ open[s] /\ ~status[s] /\ io[s] = "none"
    BY <1>8, <1>9, SocketTypes
  <2>3. GivenUpOnce(s)
    BY <2>1, <2>2 DEF GivenUpOnce, One
  <2>4. StartedOnce(s) /\ ClosedOnce(s) /\ ToldTheTruth(s)
    BY <1>7, <2>1, <2>2 DEF StartedOnce, ClosedOnce, ToldTheTruth, One
  <2> QED BY <2>3, <2>4 DEF Given
<1> QED BY <1>10, <1>11, <1>12, <1>13 DEF DestroyInv

\* An object is freed with its socket closed, unless DisconnectEx was never
\* started or the timer fired first; and nothing freed is used without a timeout.
THEOREM SocketClosedUnlessTimedOut == DestroySpec => []ClosedUnlessTimedOut
<1>1. DestroyInv => ClosedUnlessTimedOut
  BY FreedWhenTold DEF DestroyInv, Blamed, ClosedUnlessTimedOut
<1> QED BY <1>1, DestroyInitially, DestroyInductive, PTL DEF DestroySpec
===============================================================================
