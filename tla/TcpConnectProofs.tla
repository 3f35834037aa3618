--------------------------- MODULE TcpConnectProofs ---------------------------
(***************************************************************************)
(* Proofs about module TcpConnect, for every set of workers and of threads *)
(* that cancel, with or without a timeout.  Who owns the socket: counting  *)
(* frames is enough for that, as a thread that comes too late for the      *)
(* operation finds it freed, and the model stops there.  Then the life of  *)
(* the operation: types, exact references, one callback, and that it       *)
(* implements module Operation; there the order of frames matters.         *)
(***************************************************************************)
EXTENDS TcpConnect, AsyncProofs

-----------------------------------------------------------------------------
(* The inductive invariant *)

\* Before the socket is opened, and with the socket in a local variable.
Opening == {"start", "connect", "resolve", "phase1", "failed"}
Local == {"phase1_enter", "connectex"}

SocketTypes ==
  /\ stack \in Stacks /\ Finite(stack)
  /\ life \in [Asyncs -> {"none", "live", "freed"}]
  /\ canceled \in [Asyncs -> BOOLEAN] /\ handle \in [Asyncs -> BOOLEAN]
  /\ child = [a \in Asyncs |-> None]
  /\ io_type \in [Asyncs -> {"phase1", "phase2"}]
  /\ io \in [Asyncs -> {"none", "pending", "queued", "done"}]
  /\ resolving \in {"none", "pending", "done"} /\ opened \in BOOLEAN /\ closes \in Nat
  /\ product \in {"none", "socket", "invalid"}

\* The operation is created once.
BornOnce == Frames({"new"}, Root) + One(life[Root] # "none") <= 1

\* There is one socket, one ConnectEx for it and, if that fails, one call of
\* closesocket; io_type tells whether ConnectEx has been called.
OpenedOnce ==
  /\ Frames(Opening, Root) + One(resolving = "pending") + One(opened) <= 1
  /\ Frames(Local, Root) + Frames({"close"}, Root) + One(io[Root] # "none") <= 1
  /\ Frames(Local, Root) > 0 \/ io_type[Root] = "phase2" => opened
  /\ Frames({"close"}, Root) > 0 \/ io[Root] # "none" => io_type[Root] = "phase2"
  /\ io_type[Root] = "phase2" => Frames(Local, Root) = 0 /\ life[Root] # "none"

\* One worker has the packet.  The operation has the handle until then, unless a
\* cancellation takes it, and not after.
OnePacket ==
  /\ Frames({"phase2"}, Root) + One(io[Root] # "done") + One(product # "none") <= 1
  /\ product # "none" => ~handle[Root]
  /\ product = "invalid" => canceled[Root]
  /\ io[Root] # "none" /\ product = "none" => handle[Root] \/ canceled[Root]

\* Before ConnectEx the socket is in the local variable, closed, or dropped by a
\* thread that saw the cancellation.  After that it is closed when the operation
\* is freed with its handle, and once more if ConnectEx failed.
ClosedBy ==
  /\ ~opened => closes = 0
  /\ opened /\ io_type[Root] = "phase1" =>
       \/ Frames(Local, Root) + closes = 1
       \/ Frames(Local, Root) + closes = 0 /\ canceled[Root]
  /\ io_type[Root] = "phase2" =>
       closes + Frames({"close"}, Root) =
         One(io[Root] = "none") + One(life[Root] = "freed" /\ handle[Root])

SocketInv == SocketTypes /\ BornOnce /\ OpenedOnce /\ OnePacket /\ ClosedBy

\* Who has not asked for a cancellation has nothing to do.
Silent == \A th \in Cancellers \ asked : stack[th] = << >>

ConnectInv == SocketInv /\ Silent

-----------------------------------------------------------------------------
(* Counting frames *)

\* A thread is about to execute a frame of the operation.
LEMMA Counted ==
  ASSUME SocketTypes, NEW th \in Threads, NEW op, At(th, op, Root)
  PROVE  /\ stack[th] # << >> /\ stack \in Stacks /\ Finite(stack) /\ Root \in Asyncs
         /\ Head(stack[th]) \in FrameType
         /\ Head(stack[th]).op = op /\ Head(stack[th]).async = Root
         /\ \A ops : Frames(ops, Root) \in Nat /\ (op \in ops => Frames(ops, Root) >= 1)
<1>1. /\ stack[th] # << >> /\ stack \in Stacks /\ Finite(stack) /\ Root \in Asyncs
      /\ stack[th] \in Seq(FrameType)
      /\ Head(stack[th]).op = op /\ Head(stack[th]).async = Root
  BY DEF SocketTypes, At, Stacks, Asyncs
<1>2. \A ops : Frames(ops, Root) \in Nat
  BY <1>1, FramesType
<1>3. 1 \in DOMAIN stack[th] /\ Head(stack[th]) = stack[th][1] /\ Head(stack[th]) \in FrameType
  BY <1>1
<1>4. ASSUME NEW ops, op \in ops
      PROVE  Frames(ops, Root) # 0
  <2>1. IsOf(stack[th][1], ops, Root)
    BY <1>1, <1>3, <1>4 DEF IsOf
  <2> QED BY <1>1, <1>3, <2>1, NoFrames
<1> QED BY <1>1, <1>2, <1>3, <1>4

\* It calls no frame, or one, or two, or three.
LEMMA Counts0 ==
  ASSUME SocketTypes, NEW th \in Threads, NEW op, At(th, op, Root), Call(th, << >>)
  PROVE  /\ stack' \in Stacks /\ Finite(stack')
         /\ \A ops : Frames(ops, Root)' = Frames(ops, Root) - One(op \in ops)
BY Counted, Calls0 DEF IsOf

LEMMA Counts1 ==
  ASSUME SocketTypes, NEW th \in Threads, NEW op, At(th, op, Root),
         NEW f \in FrameType, f.async = Root, Call(th, <<f>>)
  PROVE  /\ stack' \in Stacks /\ Finite(stack')
         /\ \A ops : Frames(ops, Root)' = Frames(ops, Root) - One(op \in ops) + One(f.op \in ops)
BY Counted, Calls1 DEF IsOf

LEMMA Counts2 ==
  ASSUME SocketTypes, NEW th \in Threads, NEW op, At(th, op, Root),
         NEW f \in FrameType, f.async = Root, NEW g \in FrameType, g.async = Root,
         Call(th, <<f, g>>)
  PROVE  /\ stack' \in Stacks /\ Finite(stack')
         /\ \A ops : Frames(ops, Root)' = Frames(ops, Root) - One(op \in ops)
                                            + One(g.op \in ops) + One(f.op \in ops)
BY Counted, Calls2 DEF IsOf

LEMMA Counts3 ==
  ASSUME SocketTypes, NEW th \in Threads, NEW op, At(th, op, Root),
         NEW f \in FrameType, f.async = Root, NEW g \in FrameType, g.async = Root,
         NEW h \in FrameType, h.async = Root, Call(th, <<f, g, h>>)
  PROVE  /\ stack' \in Stacks /\ Finite(stack')
         /\ \A ops : Frames(ops, Root)' = Frames(ops, Root) - One(op \in ops)
                               + One(h.op \in ops) + One(g.op \in ops) + One(f.op \in ops)
BY Counted, Calls3 DEF IsOf

\* Four frames.
LEMMA Counts4 ==
  ASSUME SocketTypes, NEW th \in Threads, NEW op, At(th, op, Root),
         NEW f \in FrameType, f.async = Root, NEW g \in FrameType, g.async = Root,
         NEW h \in FrameType, h.async = Root, NEW i \in FrameType, i.async = Root,
         Call(th, <<f, g, h, i>>)
  PROVE  /\ stack' \in Stacks /\ Finite(stack')
         /\ \A ops : Frames(ops, Root)' = Frames(ops, Root) - One(op \in ops) + One(i.op \in ops)
                               + One(h.op \in ops) + One(g.op \in ops) + One(f.op \in ops)
BY Counted, Calls4 DEF IsOf

-----------------------------------------------------------------------------
(* Steps that leave the socket alone *)

Tracked == {Local, {"phase2"}, {"close"}}

\* What the invariant looks at stays as it is, but for a cancellation that takes
\* the handle of a call it aborts.
Calm ==
  /\ stack' \in Stacks /\ Finite(stack')
  /\ UNCHANGED <<socket, io_type>>
  /\ child' = child
  /\ \A ops \in Tracked : Frames(ops, Root)' = Frames(ops, Root)
  /\ Frames(Opening, Root)' <= Frames(Opening, Root)
  /\ Frames({"new"}, Root)' + One(life'[Root] # "none") <= Frames({"new"}, Root) + One(life[Root] # "none")
  /\ io' \in [Asyncs -> {"none", "pending", "queued", "done"}]
  /\ io'[Root] = io[Root] \/ (io[Root] = "pending" /\ io'[Root] = "queued")
  /\ canceled' \in [Asyncs -> BOOLEAN] /\ (canceled[Root] => canceled'[Root])
  /\ life' \in [Asyncs -> {"none", "live", "freed"}]
  /\ life'[Root] = life[Root] \/ (life[Root] = "none" /\ life'[Root] = "live")
  /\ handle' \in [Asyncs -> BOOLEAN]
  /\ \/ handle'[Root] = handle[Root]
     \/ ~handle'[Root] /\ canceled'[Root] /\ life[Root] = "live" /\ life'[Root] = "live"

LEMMA CalmKeeps ==
  ASSUME SocketInv, Calm
  PROVE  SocketInv'
<1>1. /\ \A ops : Frames(ops, Root) \in Nat
      /\ \A ops : Frames(ops, Root)' \in Nat
  <2>1. \A ops : Frames(ops, Root) \in Nat
    BY FramesType DEF SocketInv, SocketTypes
  <2>2. \A ops : Cardinality(Slots(stack', ops, Root)) \in Nat
    BY SlotsFinite DEF Calm
  <2> QED BY <2>1, <2>2 DEF Frames
<1>2. /\ Frames(Local, Root)' = Frames(Local, Root)
      /\ Frames({"phase2"}, Root)' = Frames({"phase2"}, Root)
      /\ Frames({"close"}, Root)' = Frames({"close"}, Root)
  BY DEF Calm, Tracked
<1>3. UNCHANGED <<resolving, opened, closes, product, io_type>>
  BY DEF Calm, socket
<1>4. SocketTypes'
  BY <1>3 DEF SocketInv, SocketTypes, Calm
<1>5. OpenedOnce'
  BY <1>1, <1>2, <1>3 DEF SocketInv, OpenedOnce, Calm, One
<1>6. OnePacket'
  <2>1. Frames({"phase2"}, Root)' + One(io'[Root] # "done") + One(product' # "none") <= 1
    BY <1>1, <1>2, <1>3 DEF SocketInv, OnePacket, Calm, One
  <2>2. product' # "none" => ~handle'[Root]
    BY <1>3 DEF SocketInv, OnePacket, Calm
  <2>3. product' = "invalid" => canceled'[Root]
    BY <1>3 DEF SocketInv, OnePacket, Calm
  <2>4. io'[Root] # "none" /\ product' = "none" => handle'[Root] \/ canceled'[Root]
    BY <1>3 DEF SocketInv, OnePacket, Calm
  <2> QED BY <2>1, <2>2, <2>3, <2>4 DEF OnePacket
<1>7. ClosedBy'
  <2>1. ~opened' => closes' = 0
    BY <1>3 DEF SocketInv, ClosedBy
  <2>2. opened' /\ io_type'[Root] = "phase1" =>
          \/ Frames(Local, Root)' + closes' = 1
          \/ Frames(Local, Root)' + closes' = 0 /\ canceled'[Root]
    BY <1>2, <1>3 DEF SocketInv, ClosedBy, Calm
  <2>3. One(io'[Root] = "none") = One(io[Root] = "none")
    BY DEF Calm, One
  <2>4. One(life'[Root] = "freed" /\ handle'[Root]) = One(life[Root] = "freed" /\ handle[Root])
    BY DEF Calm, One
  <2>5. io_type'[Root] = "phase2" =>
          closes' + Frames({"close"}, Root)' =
            One(io'[Root] = "none") + One(life'[Root] = "freed" /\ handle'[Root])
    BY <1>2, <1>3, <2>3, <2>4 DEF SocketInv, ClosedBy
  <2> QED BY <2>1, <2>2, <2>5 DEF ClosedBy
<1>8. BornOnce'
  BY <1>1 DEF SocketInv, BornOnce, Calm, One
<1> QED BY <1>4, <1>5, <1>6, <1>7, <1>8 DEF SocketInv

\* The frames that handle the socket.
Handling == Opening \union Local \union {"phase2", "close"}

\* A thread does something else for the operation.
LEMMA CallsAreCalm ==
  ASSUME SocketInv, NEW th \in Threads, NEW op, op \notin Handling, At(th, op, Root),
         NEW f \in FrameType, f.async = Root, f.op \notin Handling \union {"new"},
         NEW g \in FrameType, g.async = Root, g.op \notin Handling \union {"new"},
         Call(th, << >>) \/ Call(th, <<f>>) \/ Call(th, <<f, g>>)
  PROVE  /\ stack' \in Stacks /\ Finite(stack')
         /\ \A ops \in Tracked : Frames(ops, Root)' = Frames(ops, Root)
         /\ Frames(Opening, Root)' <= Frames(Opening, Root)
         /\ Frames({"new"}, Root)' = Frames({"new"}, Root) - One(op = "new")
<1>1. SocketTypes /\ \A ops : Frames(ops, Root) \in Nat
  BY Counted DEF SocketInv
<1>2. stack' \in Stacks /\ Finite(stack')
  BY <1>1, Counts0, Counts1, Counts2
<1>3. ASSUME NEW ops \in SUBSET Handling
      PROVE  Frames(ops, Root)' = Frames(ops, Root)
  <2>1. op \notin ops /\ f.op \notin ops /\ g.op \notin ops
    OBVIOUS
  <2>2. CASE Call(th, << >>)
    BY <1>1, <2>1, <2>2, Counts0 DEF One
  <2>3. CASE Call(th, <<f>>)
    BY <1>1, <2>1, <2>3, Counts1 DEF One
  <2>4. CASE Call(th, <<f, g>>)
    BY <1>1, <2>1, <2>4, Counts2 DEF One
  <2> QED BY <2>2, <2>3, <2>4
<1>4. Opening \in SUBSET Handling /\ \A ops \in Tracked : ops \in SUBSET Handling
  BY DEF Handling, Tracked
<1>5. \A ops \in Tracked : Frames(ops, Root)' = Frames(ops, Root)
  BY <1>3, <1>4
<1>6. Frames(Opening, Root)' <= Frames(Opening, Root)
  BY <1>1, <1>3, <1>4
<1>7. Frames({"new"}, Root)' = Frames({"new"}, Root) - One(op = "new")
  <2>1. f.op # "new" /\ g.op # "new"
    OBVIOUS
  <2>2. CASE Call(th, << >>)
    BY <1>1, <2>2, Counts0 DEF One
  <2>3. CASE Call(th, <<f>>)
    BY <1>1, <2>1, <2>3, Counts1 DEF One
  <2>4. CASE Call(th, <<f, g>>)
    BY <1>1, <2>1, <2>4, Counts2 DEF One
  <2> QED BY <2>2, <2>3, <2>4
<1> QED BY <1>2, <1>5, <1>6, <1>7

\* Frames that can be called for the operation.
LEMMA FramesOfRoot ==
  ASSUME SocketTypes, NEW th \in Threads, NEW op, At(th, op, Root), NEW x \in Operations
  PROVE  /\ Frame(x, Root) \in FrameType /\ Frame(x, Root).op = x /\ Frame(x, Root).async = Root
         /\ Carry(th, x, Root) \in FrameType /\ Carry(th, x, Root).op = x
         /\ Carry(th, x, Root).async = Root
<1>1. Head(stack[th]).ok \in BOOLEAN
  BY Counted DEF FrameType
<1> QED BY <1>1, FrameTypes DEF Carry, Frame, FrameType, Asyncs

\* What a call leaves alone.
Kept ==
  /\ UNCHANGED <<socket, io_type, child, life, canceled, handle, io>>

LEMMA KeptIsCalm ==
  ASSUME SocketInv, Kept, stack' \in Stacks, Finite(stack'),
         \A ops \in Tracked : Frames(ops, Root)' = Frames(ops, Root),
         Frames(Opening, Root)' <= Frames(Opening, Root),
         Frames({"new"}, Root)' <= Frames({"new"}, Root), Frames({"new"}, Root)' \in Int
  PROVE  Calm
<1>1. Frames({"new"}, Root) \in Nat
  BY FramesType DEF SocketInv, SocketTypes
<1> QED BY <1>1 DEF SocketInv, SocketTypes, Kept, Calm, One

\* What the threads do about any operation.
LEMMA CommonStepsAreCalm ==
  ASSUME SocketInv, NEW th \in Threads, UNCHANGED socket,
         \/ New(th, Root) \/ AddTimerRef(th, Root) \/ Schedule(th, Root)
         \/ Notify(th, Root) \/ AsyncNotify(th, Root) \/ Callback(th, Root)
         \/ AsyncCancel(th, Root) \/ Cancel(th, Root) \/ Release(th, Root) \/ Unlock(th, Root)
  PROVE  Calm
<1> USE DEF Handling, Opening, Local
<1>1. SocketTypes /\ Root \in Asyncs
  BY DEF SocketInv, Asyncs
<1>2. PICK op \in {"new", "add_timer_ref", "schedule", "notify", "async_notify", "callback",
                   "cancel", "_cancel", "release", "unlock"} : At(th, op, Root)
  BY DEF New, AddTimerRef, Schedule, Notify, AsyncNotify, Callback, CallbackThen, AsyncCancel,
     Cancel, Release, Unlock
<1>3. \A x \in Operations :
        /\ Frame(x, Root) \in FrameType /\ Frame(x, Root).op = x /\ Frame(x, Root).async = Root
        /\ Carry(th, x, Root) \in FrameType /\ Carry(th, x, Root).op = x
        /\ Carry(th, x, Root).async = Root
  BY <1>1, <1>2, FramesOfRoot
<1> DEFINE Ours == {Frame(x, Root) : x \in Operations} \union {Carry(th, x, Root) : x \in Operations}
<1>4. ASSUME NEW f \in Ours, NEW g \in Ours,
             f.op \notin Handling \union {"new"}, g.op \notin Handling \union {"new"},
             Call(th, << >>) \/ Call(th, <<f>>) \/ Call(th, <<f, g>>)
      PROVE  /\ stack' \in Stacks /\ Finite(stack')
             /\ \A ops \in Tracked : Frames(ops, Root)' = Frames(ops, Root)
             /\ Frames(Opening, Root)' <= Frames(Opening, Root)
             /\ Frames({"new"}, Root)' = Frames({"new"}, Root) - One(op = "new")
  <2>1. /\ f \in FrameType /\ f.async = Root /\ g \in FrameType /\ g.async = Root
        /\ op \notin Handling
    BY <1>3
  <2> QED BY <1>2, <1>4, <2>1, CallsAreCalm
<1>5. PICK f \in Ours, g \in Ours :
        /\ f.op \notin Handling \union {"new"} /\ g.op \notin Handling \union {"new"}
        /\ Call(th, << >>) \/ Call(th, <<f>>) \/ Call(th, <<f, g>>)
  <2>1. /\ Frame("add_timer_ref", Root).op = "add_timer_ref" /\ Frame("schedule", Root).op = "schedule"
        /\ Frame("release", Root).op = "release" /\ Frame("_cancel", Root).op = "_cancel"
        /\ Frame("notify", Root).op = "notify" /\ Frame("destroy", Root).op = "destroy"
        /\ Carry(th, "async_notify", Root).op = "async_notify"
        /\ Carry(th, "callback", Root).op = "callback"
    BY <1>3 DEF Operations
  <2> /\ Frame("add_timer_ref", Root) \in Ours /\ Frame("schedule", Root) \in Ours
      /\ Frame("release", Root) \in Ours /\ Frame("_cancel", Root) \in Ours
      /\ Frame("notify", Root) \in Ours /\ Frame("destroy", Root) \in Ours
      /\ Carry(th, "async_notify", Root) \in Ours /\ Carry(th, "callback", Root) \in Ours
    BY DEF Operations
  <2> HIDE DEF Ours
  <2>3. CASE New(th, Root) \/ AddTimerRef(th, Root) \/ Schedule(th, Root) \/ Callback(th, Root)
             \/ Unlock(th, Root)
    <3>1. \/ Call(th, << >>) \/ Call(th, <<Frame("add_timer_ref", Root)>>)
          \/ Call(th, <<Frame("schedule", Root)>>)
      BY <2>3 DEF New, AddTimerRef, Schedule, Callback, CallbackThen, Unlock, Return
    <3>2. CASE Call(th, <<Frame("schedule", Root)>>)
      <4> WITNESS Frame("schedule", Root) \in Ours, Frame("schedule", Root) \in Ours
      <4> QED BY <2>1, <3>2
    <3>3. CASE Call(th, << >>) \/ Call(th, <<Frame("add_timer_ref", Root)>>)
      <4> WITNESS Frame("add_timer_ref", Root) \in Ours, Frame("add_timer_ref", Root) \in Ours
      <4> QED BY <2>1, <3>3
    <3> QED BY <3>1, <3>2, <3>3
  <2>4. CASE Notify(th, Root)
    <3>1. \/ Call(th, <<Carry(th, "async_notify", Root)>>)
          \/ Call(th, <<Frame("release", Root), Carry(th, "async_notify", Root)>>)
      BY <2>4, Tuples DEF Notify, CancelTimerThen
    <3>2. CASE Call(th, <<Carry(th, "async_notify", Root)>>)
      <4> WITNESS Carry(th, "async_notify", Root) \in Ours, Carry(th, "async_notify", Root) \in Ours
      <4> QED BY <2>1, <3>2
    <3>3. CASE Call(th, <<Frame("release", Root), Carry(th, "async_notify", Root)>>)
      <4> WITNESS Frame("release", Root) \in Ours, Carry(th, "async_notify", Root) \in Ours
      <4> QED BY <2>1, <3>3
    <3> QED BY <3>1, <3>2, <3>3
  <2>5. CASE AsyncNotify(th, Root)
    <3>1. \/ Call(th, << >>)
          \/ Call(th, <<Carry(th, "callback", Root), Frame("release", Root)>>)
      BY <2>5 DEF AsyncNotify
    <3>2. CASE Call(th, << >>)
      <4> WITNESS Carry(th, "callback", Root) \in Ours, Carry(th, "callback", Root) \in Ours
      <4> QED BY <2>1, <3>2
    <3>3. CASE Call(th, <<Carry(th, "callback", Root), Frame("release", Root)>>)
      <4> WITNESS Carry(th, "callback", Root) \in Ours, Frame("release", Root) \in Ours
      <4> QED BY <2>1, <3>3
    <3> QED BY <3>1, <3>2, <3>3
  <2>6. CASE AsyncCancel(th, Root)
    <3>1. \/ Call(th, <<Frame("_cancel", Root)>>)
          \/ Call(th, <<Frame("release", Root), Frame("_cancel", Root)>>)
      BY <2>6, Tuples DEF AsyncCancel, CancelTimerThen
    <3>2. CASE Call(th, <<Frame("_cancel", Root)>>)
      <4> WITNESS Frame("_cancel", Root) \in Ours, Frame("_cancel", Root) \in Ours
      <4> QED BY <2>1, <3>2
    <3>3. CASE Call(th, <<Frame("release", Root), Frame("_cancel", Root)>>)
      <4> WITNESS Frame("release", Root) \in Ours, Frame("_cancel", Root) \in Ours
      <4> QED BY <2>1, <3>3
    <3> QED BY <3>1, <3>2, <3>3
  <2>7. CASE Cancel(th, Root)
    <3>1. child[Root] = None
      BY <1>1 DEF SocketTypes
    <3>2. Call(th, << >>) \/ Call(th, <<Frame("notify", Root)>>)
      BY <2>7, <3>1 DEF Cancel, CancelChild, CancelCall, CancelDirectly, Return
    <3> WITNESS Frame("notify", Root) \in Ours, Frame("notify", Root) \in Ours
    <3> QED BY <2>1, <3>2
  <2>8. CASE Release(th, Root)
    <3>1. Call(th, << >>) \/ Call(th, <<Frame("destroy", Root)>>)
      BY <2>8 DEF Release
    <3> WITNESS Frame("destroy", Root) \in Ours, Frame("destroy", Root) \in Ours
    <3> QED BY <2>1, <3>1
  <2> QED BY <2>3, <2>4, <2>5, <2>6, <2>7, <2>8
<1>6. /\ stack' \in Stacks /\ Finite(stack')
      /\ \A ops \in Tracked : Frames(ops, Root)' = Frames(ops, Root)
      /\ Frames(Opening, Root)' <= Frames(Opening, Root)
      /\ Frames({"new"}, Root)' = Frames({"new"}, Root) - One(op = "new")
      /\ Frames({"new"}, Root) \in Nat /\ (op = "new" => Frames({"new"}, Root) >= 1)
  <2>1. Frames({"new"}, Root) \in Nat /\ (op \in {"new"} => Frames({"new"}, Root) >= 1)
    BY <1>1, <1>2, Counted
  <2> QED BY <1>4, <1>5, <2>1
<1> HIDE DEF Handling, Opening, Local
<1>7. CASE New(th, Root)
  <2>1. UNCHANGED <<socket, io_type, canceled, handle, io>> /\ op = "new"
    BY <1>2, <1>7 DEF New, request, rest, At
  <2>2. child' = child
    BY <1>1, <1>7, AsyncAssumption DEF New, SocketTypes, Parent, Asyncs
  <2>3. life' \in [Asyncs -> {"none", "live", "freed"}] /\ life'[Root] = "live"
    BY <1>1, <1>7 DEF New, SocketTypes
  <2>4. life[Root] = "none"
    BY <1>6, <2>1 DEF SocketInv, BornOnce, One
  <2>5. io \in [Asyncs -> {"none", "pending", "queued", "done"}]
        /\ canceled \in [Asyncs -> BOOLEAN] /\ handle \in [Asyncs -> BOOLEAN]
    BY <1>1 DEF SocketTypes
  <2>6. Frames({"new"}, Root)' + One(life'[Root] # "none")
          <= Frames({"new"}, Root) + One(life[Root] # "none")
    BY <1>6, <2>1, <2>3, <2>4 DEF One
  <2> QED BY <1>6, <2>1, <2>2, <2>3, <2>4, <2>5, <2>6 DEF Calm
<1>8. CASE Cancel(th, Root)
  <2>1. UNCHANGED <<socket, io_type, life, child>> /\ op = "_cancel" /\ life[Root] = "live"
    <3>1. At(th, "_cancel", Root)
      BY <1>8 DEF Cancel
    <3>2. op = "_cancel"
      BY <1>2, <3>1 DEF At
    <3>3. life[Root] = "live"
      <4>1. Head(stack[th]).op = "_cancel" /\ Head(stack[th]).async = Root
        BY <3>1 DEF At
      <4>2. Root \in Uses(Head(stack[th]))
        BY <4>1 DEF Uses, Outside
      <4> QED BY <3>1, <4>2 DEF At
    <3> QED BY <1>8, <3>2, <3>3 DEF Cancel
  <2>2. canceled' \in [Asyncs -> BOOLEAN] /\ canceled'[Root]
    BY <1>1, <1>8 DEF Cancel, SocketTypes
  <2>3. child[Root] = None
    BY <1>1 DEF SocketTypes
  <2>4. /\ io' \in [Asyncs -> {"none", "pending", "queued", "done"}]
        /\ io'[Root] = io[Root] \/ (io[Root] = "pending" /\ io'[Root] = "queued")
    BY <1>1, <1>8, <2>3 DEF Cancel, CancelChild, CancelCall, CancelDirectly, SocketTypes
  <2>5. handle' \in [Asyncs -> BOOLEAN] /\ (handle'[Root] = handle[Root] \/ ~handle'[Root])
    BY <1>1, <1>8, <2>3 DEF Cancel, CancelChild, CancelCall, CancelDirectly, SocketTypes
  <2>6. life \in [Asyncs -> {"none", "live", "freed"}]
    BY <1>1 DEF SocketTypes
  <2>7. Frames({"new"}, Root)' + One(life'[Root] # "none")
          <= Frames({"new"}, Root) + One(life[Root] # "none")
    BY <1>6, <2>1 DEF One
  <2> QED BY <1>6, <2>1, <2>2, <2>4, <2>5, <2>6, <2>7 DEF Calm
<1>9. CASE \/ AddTimerRef(th, Root) \/ Schedule(th, Root)
           \/ Notify(th, Root) \/ AsyncNotify(th, Root) \/ Callback(th, Root)
           \/ AsyncCancel(th, Root) \/ Release(th, Root) \/ Unlock(th, Root)
  <2>1. Kept
    BY <1>9 DEF AddTimerRef, Schedule, Notify, AsyncNotify, Callback, CallbackThen, AsyncCancel,
       Release, Unlock, Kept, operation, request, rest
  <2>2. Frames({"new"}, Root)' <= Frames({"new"}, Root) /\ Frames({"new"}, Root)' \in Int
    BY <1>6 DEF One
  <2> QED BY <1>6, <2>1, <2>2, KeptIsCalm
<1> QED BY <1>7, <1>8, <1>9

\* A thread stands still, or begins something else.
LEMMA BeginningsAreCalm ==
  ASSUME ConnectInv, UNCHANGED socket,
         \/ \E th \in Threads : UseAfterFree(th)
         \/ IoEnds(Root) \/ TimeoutFires(Root)
         \/ \E th \in Cancellers : Ask(th)
  PROVE  Calm
<1> USE DEF Opening, Local, Tracked
<1>1. /\ stack \in Stacks /\ Finite(stack) /\ Root \in Asyncs /\ SocketTypes
      /\ \A ops : Frames(ops, Root) \in Nat
  <2>1. SocketTypes /\ stack \in Stacks /\ Finite(stack) /\ Root \in Asyncs
    BY DEF ConnectInv, SocketInv, SocketTypes, Asyncs
  <2> QED BY <2>1, FramesType
<1>2. /\ UNCHANGED <<socket, io_type, child, life, canceled, handle>>
      /\ io' = io \/ (stack' = stack /\ io' = [io EXCEPT ![Root] = "queued"] /\ io[Root] = "pending")
  BY DEF UseAfterFree, IoEnds, TimeoutFires, Ask, operation, request, rest
<1>3. ASSUME stack' \in Stacks, Finite(stack'),
             \A ops \in Tracked : Frames(ops, Root)' = Frames(ops, Root),
             Frames(Opening, Root)' = Frames(Opening, Root),
             Frames({"new"}, Root)' = Frames({"new"}, Root)
      PROVE  Calm
  <2>1. /\ io' \in [Asyncs -> {"none", "pending", "queued", "done"}]
        /\ io'[Root] = io[Root] \/ (io[Root] = "pending" /\ io'[Root] = "queued")
    BY <1>1, <1>2 DEF SocketTypes
  <2>2. Frames({"new"}, Root)' + One(life'[Root] # "none")
          <= Frames({"new"}, Root) + One(life[Root] # "none")
    BY <1>1, <1>2, <1>3 DEF One
  <2>3. Frames(Opening, Root)' <= Frames(Opening, Root)
    BY <1>1, <1>3
  <2> QED BY <1>1, <1>2, <1>3, <2>1, <2>2, <2>3 DEF Calm, SocketTypes
<1>4. CASE stack' = stack
  <2>1. \A ops : Frames(ops, Root)' = Frames(ops, Root)
    BY <1>4 DEF Frames
  <2>2. stack' \in Stacks /\ Finite(stack')
    BY <1>1, <1>4
  <2> QED BY <1>3, <2>1, <2>2
<1>5. CASE TimeoutFires(Root)
  <2> DEFINE f == Frame("_cancel", Root)
             g == Frame("release", Root)
  <2>1. PICK th \in Threads : stack[th] = << >> /\ stack' = [stack EXCEPT ![th] = <<f, g>>]
    BY <1>5 DEF TimeoutFires, Threads
  <2>2. f \in FrameType /\ f.op = "_cancel" /\ g \in FrameType /\ g.op = "release"
    BY FrameTypes DEF Operations
  <2> HIDE DEF f, g
  <2>3. /\ stack' \in Stacks /\ Finite(stack')
        /\ \A ops, a : Frames(ops, a)' = Frames(ops, a) + One(IsOf(g, ops, a)) + One(IsOf(f, ops, a))
    BY <1>1, <2>1, <2>2, Begins2
  <2>4. \A ops : "_cancel" \notin ops /\ "release" \notin ops => Frames(ops, Root)' = Frames(ops, Root)
    BY <1>1, <2>2, <2>3 DEF One, IsOf
  <2> QED BY <1>3, <2>3, <2>4
<1>6. ASSUME NEW th \in Cancellers, Ask(th)
      PROVE  Calm
  <2> DEFINE f == Frame("cancel", Root)
  <2>1. stack[th] = << >> /\ stack' = [stack EXCEPT ![th] = <<f>>] /\ th \in Threads
    BY <1>6 DEF Ask, Threads, ConnectInv, Silent
  <2>2. f \in FrameType /\ f.op = "cancel"
    BY FrameTypes DEF Operations
  <2> HIDE DEF f
  <2>3. /\ stack' \in Stacks /\ Finite(stack')
        /\ \A ops, a : Frames(ops, a)' = Frames(ops, a) + One(IsOf(f, ops, a))
    BY <1>1, <2>1, <2>2, Begins1
  <2>4. \A ops : "cancel" \notin ops => Frames(ops, Root)' = Frames(ops, Root)
    BY <1>1, <2>2, <2>3 DEF One, IsOf
  <2> QED BY <1>3, <2>3, <2>4
<1> QED BY <1>4, <1>5, <1>6 DEF UseAfterFree, IoEnds

\* The issuer starts its call.
LEMMA StartIsCalm ==
  ASSUME SocketInv, Ops \subseteq {"connect"}, NEW th \in Threads, Start(th, Root), UNCHANGED socket
  PROVE  Calm
<1>1. SocketTypes /\ At(th, "start", Root)
  BY DEF SocketInv, Start
<1>2. PICK f \in FrameType : f.op = "connect" /\ f.async = Root /\ Call(th, <<f>>)
  BY FrameTypes DEF Start, Operations
<1>3. /\ stack' \in Stacks /\ Finite(stack')
      /\ \A ops : Frames(ops, Root)' = Frames(ops, Root) - One("start" \in ops) + One("connect" \in ops)
  BY <1>1, <1>2, Counts1
<1>4. \A ops : Frames(ops, Root) \in Nat
  BY <1>1, Counted
<1>5. /\ \A ops \in Tracked : Frames(ops, Root)' = Frames(ops, Root)
      /\ Frames(Opening, Root)' <= Frames(Opening, Root)
      /\ Frames({"new"}, Root)' <= Frames({"new"}, Root) /\ Frames({"new"}, Root)' \in Int
  BY <1>3, <1>4 DEF Tracked, Opening, Local, One
<1>6. Kept
  BY DEF Start, Kept, operation, request
<1> QED BY <1>3, <1>5, <1>6, KeptIsCalm

\* xf_async_enter takes a frame of the socket's to the next, or ends the operation.
LEMMA Enters ==
  ASSUME SocketTypes, NEW th \in Threads, NEW op, NEW next \in Operations,
         At(th, op, Root), AsyncEnter(th, Root, next)
  PROVE  /\ stack' \in Stacks /\ Finite(stack')
         /\ \/ \A ops : Frames(ops, Root)' = Frames(ops, Root) - One(op \in ops) + One(next \in ops)
            \/ /\ canceled[Root]
               /\ \A ops : "notify" \notin ops /\ "unlock" \notin ops =>
                             Frames(ops, Root)' = Frames(ops, Root) - One(op \in ops)
<1>1. \A ops : Frames(ops, Root) \in Nat /\ (op \in ops => Frames(ops, Root) >= 1)
  BY Counted
<1>2. CASE canceled[Root]
  <2>1. PICK f \in FrameType, g \in FrameType :
          /\ f.op = "notify" /\ f.async = Root /\ g.op = "unlock" /\ g.async = Root
          /\ Call(th, <<f, g>>)
    BY <1>2, FrameTypes DEF AsyncEnter, Operations
  <2>2. /\ stack' \in Stacks /\ Finite(stack')
        /\ \A ops : Frames(ops, Root)' = Frames(ops, Root) - One(op \in ops)
                                           + One("unlock" \in ops) + One("notify" \in ops)
    BY <2>1, Counts2
  <2> QED BY <1>1, <1>2, <2>2 DEF One
<1>3. CASE ~canceled[Root]
  <2>1. PICK f \in FrameType : f.op = next /\ f.async = Root /\ Call(th, <<f>>)
    BY <1>3, FrameTypes DEF AsyncEnter
  <2> QED BY <2>1, Counts1
<1> QED BY <1>2, <1>3

\* So does xf_socket_connect_tcp.
LEMMA ConnectIsCalm ==
  ASSUME SocketInv, NEW th \in Threads, Connect(th)
  PROVE  Calm
<1>1. SocketTypes /\ At(th, "connect", Root) /\ AsyncEnter(th, Root, "resolve")
      /\ "resolve" \in Operations
  BY DEF SocketInv, Connect, Operations
<1>2. \A ops : Frames(ops, Root) \in Nat /\ ("connect" \in ops => Frames(ops, Root) >= 1)
  BY <1>1, Counted
<1>3. /\ stack' \in Stacks /\ Finite(stack')
      /\ \/ \A ops : Frames(ops, Root)' =
                       Frames(ops, Root) - One("connect" \in ops) + One("resolve" \in ops)
         \/ \A ops : "notify" \notin ops /\ "unlock" \notin ops =>
                       Frames(ops, Root)' = Frames(ops, Root) - One("connect" \in ops)
  <2>1. PICK op \in {"connect"} : At(th, op, Root)
    BY <1>1
  <2>2. PICK next \in {"resolve"} : AsyncEnter(th, Root, next)
    BY <1>1
  <2> QED BY <1>1, <2>1, <2>2, Enters
<1>4. /\ \A ops \in Tracked : Frames(ops, Root)' = Frames(ops, Root)
      /\ Frames(Opening, Root)' <= Frames(Opening, Root)
      /\ Frames({"new"}, Root)' <= Frames({"new"}, Root) /\ Frames({"new"}, Root)' \in Int
  BY <1>2, <1>3 DEF Tracked, Opening, Local, One
<1>5. Kept
  BY DEF Connect, Kept, request
<1> QED BY <1>3, <1>4, <1>5, KeptIsCalm

-----------------------------------------------------------------------------
(* Steps that pass the socket on *)

\* What there is before the socket is opened.
LEMMA Unopened ==
  ASSUME SocketInv, Frames(Opening, Root) > 0 \/ resolving = "pending"
  PROVE  /\ Frames(Opening, Root) + One(resolving = "pending") = 1
         /\ ~opened /\ io[Root] = "none" /\ product = "none" /\ closes = 0
         /\ io_type[Root] = "phase1" /\ Root \in Asyncs
         /\ Frames(Local, Root) = 0 /\ Frames({"close"}, Root) = 0 /\ Frames({"phase2"}, Root) = 0
<1>1. \A ops : Frames(ops, Root) \in Nat
  BY FramesType DEF SocketInv, SocketTypes
<1>2. Root \in Asyncs /\ io_type[Root] \in {"phase1", "phase2"}
  BY DEF SocketInv, SocketTypes, Asyncs
<1>3. Frames(Opening, Root) + One(resolving = "pending") = 1 /\ ~opened
  BY <1>1 DEF SocketInv, SocketTypes, OpenedOnce, One
<1>4. io_type[Root] = "phase1" /\ Frames(Local, Root) = 0
  BY <1>1, <1>2, <1>3 DEF SocketInv, OpenedOnce
<1>5. io[Root] = "none" /\ Frames({"close"}, Root) = 0
  BY <1>1, <1>4 DEF SocketInv, OpenedOnce
<1>6. product = "none" /\ Frames({"phase2"}, Root) = 0
  BY <1>1, <1>5 DEF SocketInv, OnePacket, One
<1> QED BY <1>2, <1>3, <1>4, <1>5, <1>6 DEF SocketInv, ClosedBy

\* Nothing is opened yet, and there is at most one who will do it.
LEMMA UnopenedKeeps ==
  ASSUME SocketInv, SocketTypes', Root \in Asyncs, ~opened', closes' = 0, io'[Root] = "none",
         product' = "none", io_type'[Root] = "phase1", UNCHANGED life,
         Frames({"new"}, Root)' = Frames({"new"}, Root),
         Frames(Opening, Root)' + One(resolving' = "pending") <= 1,
         Frames(Local, Root)' = 0, Frames({"close"}, Root)' = 0, Frames({"phase2"}, Root)' = 0
  PROVE  SocketInv'
<1>1. BornOnce' /\ OpenedOnce'
  <2>1. \A ops : Frames(ops, Root)' \in Nat
    <3>1. \A ops : Cardinality(Slots(stack', ops, Root)) \in Nat
      BY SlotsFinite DEF SocketTypes
    <3> QED BY <3>1 DEF Frames
  <2> QED BY <2>1 DEF SocketInv, BornOnce, OpenedOnce, One
<1>2. OnePacket' /\ ClosedBy'
  BY DEF OnePacket, ClosedBy, One
<1> QED BY <1>1, <1>2 DEF SocketInv

\* The name is being resolved, or it is known at once.
LEMMA ResolvePreserves ==
  ASSUME SocketInv, NEW th \in Threads, Resolve(th)
  PROVE  SocketInv'
<1>1. SocketTypes /\ At(th, "resolve", Root) /\ Root \in Asyncs
  BY DEF SocketInv, Resolve, Asyncs
<1>2. \A ops : Frames(ops, Root) \in Nat /\ ("resolve" \in ops => Frames(ops, Root) >= 1)
  BY <1>1, Counted
<1>3. /\ Frames(Opening, Root) + One(resolving = "pending") = 1
      /\ ~opened /\ io[Root] = "none" /\ product = "none" /\ closes = 0
      /\ io_type[Root] = "phase1"
      /\ Frames(Local, Root) = 0 /\ Frames({"close"}, Root) = 0 /\ Frames({"phase2"}, Root) = 0
  <2>1. Frames(Opening, Root) > 0
    BY <1>2 DEF Opening
  <2> QED BY <2>1, Unopened
<1>4. /\ UNCHANGED <<life, canceled, child, io, opened, closes, product>>
      /\ handle' = [handle EXCEPT ![Root] = TRUE] /\ io_type' = [io_type EXCEPT ![Root] = "phase1"]
      /\ resolving' \in {"pending", "done"}
  BY DEF Resolve, SetRequest
<1>5. PICK f \in FrameType, g \in FrameType :
        /\ f.op = "unlock" /\ f.async = Root /\ g.op = "release" /\ g.async = Root
        /\ AsyncLeave(Root) = <<f, g>>
  BY FrameTypes DEF AsyncLeave, Operations
<1>6. /\ stack' \in Stacks /\ Finite(stack')
      /\ Frames({"new"}, Root)' = Frames({"new"}, Root)
      /\ Frames(Opening, Root)' + One(resolving' = "pending") = 1
      /\ Frames(Local, Root)' = 0 /\ Frames({"close"}, Root)' = 0 /\ Frames({"phase2"}, Root)' = 0
  <2>1. CASE resolving' = "pending" /\ Call(th, <<f, g>>)
    <3>1. /\ stack' \in Stacks /\ Finite(stack')
          /\ \A ops : Frames(ops, Root)' = Frames(ops, Root) - One("resolve" \in ops)
                                             + One("release" \in ops) + One("unlock" \in ops)
      BY <1>1, <1>5, <2>1, Counts2
    <3> QED BY <1>2, <1>3, <2>1, <3>1 DEF One, Opening, Local
  <2>2. ASSUME NEW result \in {"phase1", "failed"}, resolving' = "done",
               Call(th, <<f, g>> \o <<Frame(result, Root)>>)
        PROVE  /\ stack' \in Stacks /\ Finite(stack')
               /\ Frames({"new"}, Root)' = Frames({"new"}, Root)
               /\ Frames(Opening, Root)' + One(resolving' = "pending") = 1
               /\ Frames(Local, Root)' = 0 /\ Frames({"close"}, Root)' = 0
               /\ Frames({"phase2"}, Root)' = 0
    <3>1. PICK h \in FrameType : h = Frame(result, Root) /\ h.op = result /\ h.async = Root
      BY FrameTypes DEF Operations
    <3>2. Call(th, <<f, g, h>>)
      BY <2>2, <3>1, Triples
    <3>3. /\ stack' \in Stacks /\ Finite(stack')
          /\ \A ops : Frames(ops, Root)' = Frames(ops, Root) - One("resolve" \in ops)
                        + One(result \in ops) + One("release" \in ops) + One("unlock" \in ops)
      BY <1>1, <1>5, <3>1, <3>2, Counts3
    <3> QED BY <1>2, <1>3, <2>2, <3>3 DEF One, Opening, Local
  <2> QED BY <1>5, <2>1, <2>2 DEF Resolve
<1>7. SocketTypes'
  BY <1>1, <1>4, <1>6 DEF SocketTypes
<1>8. io_type'[Root] = "phase1"
  BY <1>1, <1>4 DEF SocketTypes
<1> QED BY <1>1, <1>3, <1>4, <1>6, <1>7, <1>8, UnopenedKeeps

\* The system's thread reports.
LEMMA ResolutionEndsPreserves ==
  ASSUME SocketInv, ResolutionEnds
  PROVE  SocketInv'
<1>1. SocketTypes /\ Root \in Asyncs /\ Resolver \in Threads
  BY DEF SocketInv, Asyncs, Threads
<1>2. \A ops : Frames(ops, Root) \in Nat
  BY <1>1, FramesType DEF SocketTypes
<1>3. /\ Frames(Opening, Root) = 0
      /\ ~opened /\ io[Root] = "none" /\ product = "none" /\ closes = 0
      /\ io_type[Root] = "phase1"
      /\ Frames(Local, Root) = 0 /\ Frames({"close"}, Root) = 0 /\ Frames({"phase2"}, Root) = 0
  BY <1>2, Unopened DEF ResolutionEnds, One
<1>4. /\ UNCHANGED <<life, canceled, child, handle, io_type, io, opened, closes, product>>
      /\ resolving' = "done"
  BY DEF ResolutionEnds, operation, request
<1>5. PICK f \in FrameType :
        /\ f.op \in {"phase1", "failed"} /\ f.async = Root
        /\ stack' = [stack EXCEPT ![Resolver] = <<f>>]
  BY FrameTypes DEF ResolutionEnds, Operations
<1>6. /\ stack' \in Stacks /\ Finite(stack')
      /\ \A ops : Frames(ops, Root)' = Frames(ops, Root) + One(f.op \in ops)
  <2>1. /\ stack' \in Stacks /\ Finite(stack')
        /\ \A ops, a : Frames(ops, a)' = Frames(ops, a) + One(IsOf(f, ops, a))
    BY <1>1, <1>5, Begins1 DEF ResolutionEnds, SocketTypes
  <2> QED BY <1>5, <2>1 DEF IsOf
<1>7. /\ Frames({"new"}, Root)' = Frames({"new"}, Root)
      /\ Frames(Opening, Root)' + One(resolving' = "pending") = 1
      /\ Frames(Local, Root)' = 0 /\ Frames({"close"}, Root)' = 0 /\ Frames({"phase2"}, Root)' = 0
  BY <1>2, <1>3, <1>4, <1>5, <1>6 DEF One, Opening, Local
<1>8. SocketTypes'
  BY <1>1, <1>4, <1>6 DEF SocketTypes
<1> QED BY <1>1, <1>3, <1>4, <1>7, <1>8, UnopenedKeeps

\* Phase one, with or without a socket.
LEMMA Phase1Preserves ==
  ASSUME SocketInv, NEW th \in Threads, Phase1(th) \/ Phase1Failed(th)
  PROVE  SocketInv'
<1>1. PICK op \in {"phase1", "failed"} : At(th, op, Root)
  BY DEF Phase1, Phase1Failed
<1>2. SocketTypes /\ Root \in Asyncs /\ op \in Opening
      /\ \A ops : Frames(ops, Root) \in Nat /\ (op \in ops => Frames(ops, Root) >= 1)
  <2>1. SocketTypes /\ op \in Opening
    BY DEF SocketInv, Opening
  <2> QED BY <1>1, <2>1, Counted
<1>3. /\ Frames(Opening, Root) + One(resolving = "pending") = 1
      /\ ~opened /\ io[Root] = "none" /\ product = "none" /\ closes = 0
      /\ io_type[Root] = "phase1"
      /\ Frames(Local, Root) = 0 /\ Frames({"close"}, Root) = 0 /\ Frames({"phase2"}, Root) = 0
  <2>1. Frames(Opening, Root) > 0
    BY <1>2
  <2> QED BY <2>1, Unopened
<1>4. /\ UNCHANGED <<life, canceled, child, io_type, io, resolving, product>>
      /\ handle' = [handle EXCEPT ![Root] = FALSE]
      /\ opened' \in BOOLEAN /\ closes' \in {0, 1}
  <2>1. CASE Phase1(th)
    <3>1. closes' = 0 \/ closes' = One(opened')
      BY <1>3, <2>1 DEF Phase1
    <3> QED BY <2>1, <3>1 DEF Phase1, ResetHandle, One
  <2>2. CASE Phase1Failed(th)
    BY <1>2, <1>3, <2>2 DEF Phase1Failed, ResetHandle, socket, SocketTypes
  <2> QED BY <2>1, <2>2
<1>5. PICK f \in FrameType :
        /\ f.async = Root /\ Call(th, <<f>>)
        /\ \/ f.op = "phase1_enter" /\ opened' /\ closes' = 0
           \/ f.op = "notify" /\ closes' = One(opened')
  <2>1. /\ Frame("phase1_enter", Root) \in FrameType /\ Frame("phase1_enter", Root).op = "phase1_enter"
        /\ Frame("phase1_enter", Root).async = Root
        /\ Frame("notify", Root) \in FrameType /\ Frame("notify", Root).op = "notify"
        /\ Frame("notify", Root).async = Root
    BY FrameTypes DEF Operations
  <2>2. CASE Phase1(th)
    BY <1>3, <2>1, <2>2 DEF Phase1
  <2>3. CASE Phase1Failed(th)
    <3>1. ~opened' /\ closes' = 0 /\ Call(th, <<Frame("notify", Root)>>)
      BY <1>3, <2>3 DEF Phase1Failed, socket
    <3> QED BY <2>1, <3>1 DEF One
  <2> QED BY <2>2, <2>3
<1>6. /\ stack' \in Stacks /\ Finite(stack')
      /\ \A ops : Frames(ops, Root)' = Frames(ops, Root) - One(op \in ops) + One(f.op \in ops)
  BY <1>1, <1>2, <1>5, Counts1
<1>7. /\ Frames({"new"}, Root)' = Frames({"new"}, Root)
      /\ Frames(Opening, Root)' = 0 /\ resolving # "pending"
      /\ Frames(Local, Root)' = One(f.op = "phase1_enter")
      /\ Frames({"close"}, Root)' = 0 /\ Frames({"phase2"}, Root)' = 0
  <2>1. resolving # "pending" /\ Frames(Opening, Root) = 1
    BY <1>2, <1>3 DEF One
  <2>2. f.op \in {"phase1_enter", "notify"} /\ op \in {"phase1", "failed"}
    BY <1>5
  <2>3. /\ op \notin {"new"} /\ op \notin Local /\ op \notin {"close"} /\ op \notin {"phase2"}
        /\ f.op \notin {"new"} /\ f.op \notin Opening /\ f.op \notin {"close"}
        /\ f.op \notin {"phase2"} /\ (f.op \in Local <=> f.op = "phase1_enter")
    BY <2>2 DEF Opening, Local
  <2>4. ASSUME NEW ops, op \notin ops, f.op \notin ops
        PROVE  Frames(ops, Root)' = Frames(ops, Root)
    BY <1>2, <1>6, <2>4 DEF One
  <2>5. /\ Frames({"new"}, Root)' = Frames({"new"}, Root)
        /\ Frames({"close"}, Root)' = Frames({"close"}, Root)
        /\ Frames({"phase2"}, Root)' = Frames({"phase2"}, Root)
    BY <2>3, <2>4
  <2>6. Frames(Opening, Root)' = Frames(Opening, Root) - 1
    BY <1>2, <1>6, <2>3 DEF One
  <2>7. Frames(Local, Root)' = Frames(Local, Root) + One(f.op = "phase1_enter")
    BY <1>2, <1>6, <2>3 DEF One
  <2>8. Frames(Local, Root)' = One(f.op = "phase1_enter")
    BY <1>3, <2>7 DEF One
  <2> QED BY <1>3, <2>1, <2>5, <2>6, <2>8
<1>8. SocketTypes'
  BY <1>2, <1>4, <1>6 DEF SocketTypes
<1>9. BornOnce' /\ OnePacket'
  BY <1>2, <1>3, <1>4, <1>7 DEF SocketInv, BornOnce, OnePacket, One
<1>10. OpenedOnce' /\ ClosedBy'
  <2>1. CASE f.op = "phase1_enter" /\ opened' /\ closes' = 0
    BY <1>3, <1>4, <1>7, <2>1 DEF OpenedOnce, ClosedBy, One
  <2>2. CASE f.op = "notify" /\ closes' = One(opened')
    <3>1. Frames(Local, Root)' = 0
      BY <1>7, <2>2 DEF One
    <3> QED BY <1>3, <1>4, <1>7, <2>2, <3>1 DEF OpenedOnce, ClosedBy, One
  <2> QED BY <1>5, <2>1, <2>2
<1> QED BY <1>8, <1>9, <1>10 DEF SocketInv

\* The socket goes on to ConnectEx, or is dropped.
LEMMA Phase1EnterPreserves ==
  ASSUME SocketInv, NEW th \in Threads, Phase1Enter(th)
  PROVE  SocketInv'
<1>1. SocketTypes /\ At(th, "phase1_enter", Root) /\ AsyncEnter(th, Root, "connectex")
      /\ Root \in Asyncs
  BY DEF SocketInv, Phase1Enter, Asyncs
<1>2. \A ops : Frames(ops, Root) \in Nat /\ ("phase1_enter" \in ops => Frames(ops, Root) >= 1)
  BY <1>1, Counted
<1>3. /\ stack' \in Stacks /\ Finite(stack')
      /\ \/ \A ops : Frames(ops, Root)' =
                       Frames(ops, Root) - One("phase1_enter" \in ops) + One("connectex" \in ops)
         \/ /\ canceled[Root]
            /\ \A ops : "notify" \notin ops /\ "unlock" \notin ops =>
                          Frames(ops, Root)' = Frames(ops, Root) - One("phase1_enter" \in ops)
  <2>1. PICK op \in {"phase1_enter"} : At(th, op, Root)
    BY <1>1
  <2>2. PICK next \in {"connectex"} : AsyncEnter(th, Root, next) /\ next \in Operations
    BY <1>1 DEF Operations
  <2> QED BY <1>1, <2>1, <2>2, Enters
<1>4. UNCHANGED <<life, canceled, child, handle, io_type, io, resolving, opened, closes, product>>
  BY DEF Phase1Enter, request, socket
<1>5. /\ Frames(Local, Root) = 1 /\ opened /\ io_type[Root] = "phase1" /\ closes = 0
  <2>1. Frames(Local, Root) = 1
    BY <1>2 DEF Local, SocketInv, OpenedOnce, One
  <2>2. opened /\ io_type[Root] = "phase1"
    BY <1>1, <2>1 DEF SocketInv, OpenedOnce, SocketTypes
  <2> QED BY <2>1, <2>2 DEF SocketInv, ClosedBy, SocketTypes
<1>6. /\ Frames({"new"}, Root)' = Frames({"new"}, Root)
      /\ Frames(Opening, Root)' = Frames(Opening, Root)
      /\ Frames(Local, Root)' = 1 \/ (Frames(Local, Root)' = 0 /\ canceled[Root])
      /\ Frames({"close"}, Root)' = Frames({"close"}, Root)
      /\ Frames({"phase2"}, Root)' = Frames({"phase2"}, Root)
  BY <1>2, <1>3, <1>5 DEF One, Opening, Local
<1>7. SocketTypes' /\ BornOnce' /\ OnePacket'
  BY <1>1, <1>3, <1>4, <1>6 DEF SocketInv, SocketTypes, BornOnce, OnePacket
<1>8. OpenedOnce'
  BY <1>2, <1>4, <1>5, <1>6 DEF SocketInv, OpenedOnce, One
<1>9. ClosedBy'
  BY <1>4, <1>5, <1>6 DEF ClosedBy
<1> QED BY <1>7, <1>8, <1>9 DEF SocketInv

\* Leaving and going on: four frames.
LEMMA Quadruples ==
  ASSUME NEW x, NEW y, NEW z, NEW w
  PROVE  <<x, y>> \o <<z, w>> = <<x, y, z, w>>
<1> DEFINE S == {x, y, z, w}
<1>1. <<x, y>> \o <<z, w>> \in Seq(S) /\ <<x, y, z, w>> \in Seq(S)
  OBVIOUS
<1>2. /\ Len(<<x, y>> \o <<z, w>>) = 4 /\ Len(<<x, y, z, w>>) = 4
      /\ \A k \in 1..4 : (<<x, y>> \o <<z, w>>)[k] = <<x, y, z, w>>[k]
  OBVIOUS
<1> QED BY <1>1, <1>2, SeqEqual

\* An operation that a frame uses is live.
LEMMA Alive ==
  ASSUME NEW th \in Threads, NEW op \in Operations \ (Outside \union {"new"}), At(th, op, Root)
  PROVE  life[Root] = "live" /\ stack[th] # << >>
<1>1. Head(stack[th]).op = op /\ Head(stack[th]).async = Root /\ stack[th] # << >>
  BY DEF At
<1>2. Root \in Uses(Head(stack[th]))
  <2>1. op # "destroy" => Uses(Head(stack[th])) = {Root}
    BY <1>1 DEF Uses
  <2>2. op = "destroy" => Root \in Uses(Head(stack[th]))
    BY <1>1, AsyncAssumption DEF Uses, Outside, Asyncs
  <2> QED BY <2>1, <2>2
<1> QED BY <1>1, <1>2 DEF At

\* The socket passes to the operation; a call that fails closes it.
LEMMA ConnectExPreserves ==
  ASSUME SocketInv, NEW th \in Threads, ConnectEx(th)
  PROVE  SocketInv'
<1>1. SocketTypes /\ At(th, "connectex", Root) /\ Root \in Asyncs
  BY DEF SocketInv, ConnectEx, Asyncs
<1>2. \A ops : Frames(ops, Root) \in Nat /\ ("connectex" \in ops => Frames(ops, Root) >= 1)
  BY <1>1, Counted
<1>3. Frames(Local, Root) = 1 /\ Frames({"close"}, Root) = 0 /\ io[Root] = "none"
  <2>1. Frames(Local, Root) >= 1
    BY <1>2 DEF Local
  <2> QED BY <1>2, <2>1 DEF SocketInv, OpenedOnce, One
<1>4. opened /\ io_type[Root] = "phase1"
  BY <1>1, <1>3 DEF SocketInv, OpenedOnce, SocketTypes
<1>5. /\ Frames(Opening, Root) = 0 /\ resolving # "pending"
      /\ Frames({"phase2"}, Root) = 0 /\ product = "none"
  <2>1. Frames(Opening, Root) = 0 /\ resolving # "pending"
    BY <1>2, <1>4 DEF SocketInv, OpenedOnce, One
  <2>2. Frames({"phase2"}, Root) = 0 /\ product = "none"
    BY <1>2, <1>3 DEF SocketInv, OnePacket, One
  <2> QED BY <2>1, <2>2
<1>6. closes = 0
  BY <1>1, <1>3, <1>4 DEF SocketInv, ClosedBy, SocketTypes
<1>7. life[Root] = "live"
  <2>1. "connectex" \in Operations \ (Outside \union {"new"})
    BY DEF Operations, Outside
  <2> QED BY <1>1, <2>1, Alive
<1>8. /\ UNCHANGED <<life, canceled, child, resolving, opened, closes, product>>
      /\ handle' = [handle EXCEPT ![Root] = TRUE] /\ io_type' = [io_type EXCEPT ![Root] = "phase2"]
  BY DEF ConnectEx, SetRequest
<1>9. PICK f \in FrameType, g \in FrameType :
        /\ f.op = "unlock" /\ f.async = Root /\ g.op = "release" /\ g.async = Root
        /\ AsyncLeave(Root) = <<f, g>>
  BY FrameTypes DEF AsyncLeave, Operations
<1>10. /\ stack' \in Stacks /\ Finite(stack')
       /\ Frames({"new"}, Root)' = Frames({"new"}, Root)
       /\ Frames(Opening, Root)' = 0 /\ Frames(Local, Root)' = 0 /\ Frames({"phase2"}, Root)' = 0
       /\ \/ Frames({"close"}, Root)' = 0 /\ io' = [io EXCEPT ![Root] = "pending"]
          \/ Frames({"close"}, Root)' = 1 /\ io' = io
  <2>1. CASE io' = [io EXCEPT ![Root] = "pending"] /\ Call(th, <<f, g>>)
    <3>1. /\ stack' \in Stacks /\ Finite(stack')
          /\ \A ops : Frames(ops, Root)' = Frames(ops, Root) - One("connectex" \in ops)
                                             + One("release" \in ops) + One("unlock" \in ops)
      BY <1>1, <1>9, <2>1, Counts2
    <3> QED BY <1>2, <1>3, <1>5, <2>1, <3>1 DEF One, Opening, Local
  <2>2. CASE io' = io /\ Call(th, <<f, g>> \o <<Frame("close", Root), Frame("notify", Root)>>)
    <3>1. PICK h \in FrameType, i \in FrameType :
            /\ h = Frame("close", Root) /\ h.op = "close" /\ h.async = Root
            /\ i = Frame("notify", Root) /\ i.op = "notify" /\ i.async = Root
      BY FrameTypes DEF Operations, Outside
    <3>2. Call(th, <<f, g, h, i>>)
      BY <2>2, <3>1, Quadruples
    <3>3. /\ stack' \in Stacks /\ Finite(stack')
          /\ \A ops : Frames(ops, Root)' = Frames(ops, Root) - One("connectex" \in ops)
                        + One("notify" \in ops) + One("close" \in ops)
                        + One("release" \in ops) + One("unlock" \in ops)
      BY <1>1, <1>9, <3>1, <3>2, Counts4
    <3> QED BY <1>2, <1>3, <1>5, <2>2, <3>3 DEF One, Opening, Local
  <2> QED BY <1>9, <2>1, <2>2 DEF ConnectEx
<1>11. SocketTypes'
  BY <1>1, <1>8, <1>10 DEF SocketTypes
<1>12. /\ io_type'[Root] = "phase2" /\ handle'[Root] /\ life'[Root] = "live"
       /\ \/ Frames({"close"}, Root)' = 0 /\ io'[Root] = "pending"
          \/ Frames({"close"}, Root)' = 1 /\ io'[Root] = "none"
  BY <1>1, <1>3, <1>7, <1>8, <1>10 DEF SocketTypes
<1>13. BornOnce' /\ OnePacket'
  BY <1>2, <1>5, <1>8, <1>10, <1>12 DEF SocketInv, BornOnce, OnePacket, One
<1>14. OpenedOnce'
  BY <1>4, <1>5, <1>8, <1>10, <1>12 DEF OpenedOnce, One
<1>15. ClosedBy'
  BY <1>4, <1>6, <1>8, <1>12 DEF ClosedBy, One
<1> QED BY <1>11, <1>13, <1>14, <1>15 DEF SocketInv

\* The close that a failed ConnectEx owes.
LEMMA ClosePreserves ==
  ASSUME SocketInv, NEW th \in Threads, Close(th)
  PROVE  SocketInv'
<1>1. SocketTypes /\ At(th, "close", Root) /\ Root \in Asyncs
  BY DEF SocketInv, Close, Asyncs
<1>2. \A ops : Frames(ops, Root) \in Nat /\ ("close" \in ops => Frames(ops, Root) >= 1)
  BY <1>1, Counted
<1>3. Frames({"close"}, Root) = 1 /\ io_type[Root] = "phase2"
  <2>1. Frames({"close"}, Root) >= 1
    BY <1>2
  <2> QED BY <1>2, <2>1 DEF SocketInv, OpenedOnce, One
<1>4. /\ UNCHANGED <<life, canceled, child, handle, io_type, io, resolving, opened, product>>
      /\ closes' = closes + 1
  BY DEF Close, operation, request
<1>5. /\ stack' \in Stacks /\ Finite(stack')
      /\ \A ops : Frames(ops, Root)' = Frames(ops, Root) - One("close" \in ops)
  BY <1>1, Counts0 DEF Close, Return
<1>6. /\ Frames({"new"}, Root)' = Frames({"new"}, Root)
      /\ Frames(Opening, Root)' = Frames(Opening, Root)
      /\ Frames(Local, Root)' = Frames(Local, Root)
      /\ Frames({"close"}, Root)' = 0
      /\ Frames({"phase2"}, Root)' = Frames({"phase2"}, Root)
  BY <1>2, <1>3, <1>5 DEF One, Opening, Local
<1>7. SocketTypes'
  BY <1>1, <1>4, <1>5 DEF SocketTypes
<1>8. BornOnce' /\ OnePacket'
  BY <1>4, <1>6 DEF SocketInv, BornOnce, OnePacket
<1>9. OpenedOnce'
  BY <1>2, <1>3, <1>4, <1>6 DEF SocketInv, OpenedOnce, One
<1>10. ClosedBy'
  <2>1. opened
    BY <1>3 DEF SocketInv, OpenedOnce
  <2> QED BY <1>1, <1>3, <1>4, <1>6, <2>1 DEF SocketInv, ClosedBy, SocketTypes
<1> QED BY <1>7, <1>8, <1>9, <1>10 DEF SocketInv

\* A worker gets the packet.
LEMMA DequeueConnectPreserves ==
  ASSUME SocketInv, NEW th \in Workers, DequeueConnect(th)
  PROVE  SocketInv'
<1>1. SocketTypes /\ Root \in Asyncs /\ th \in Threads
  BY DEF SocketInv, Asyncs, Threads
<1>2. \A ops : Frames(ops, Root) \in Nat
  BY <1>1, FramesType DEF SocketTypes
<1>3. /\ io[Root] = "queued" /\ io' = [io EXCEPT ![Root] = "done"] /\ io'[Root] = "done"
      /\ UNCHANGED <<life, canceled, child, handle, io_type, resolving, opened, closes, product>>
  BY <1>1 DEF DequeueConnect, operation, request, socket, SocketTypes
<1>4. PICK f \in FrameType :
        /\ f.op \in {"phase2", "notify"} /\ f.async = Root
        /\ stack' = [stack EXCEPT ![th] = <<f>>]
  BY FrameTypes DEF DequeueConnect, Operations
<1>5. /\ stack' \in Stacks /\ Finite(stack')
      /\ \A ops : Frames(ops, Root)' = Frames(ops, Root) + One(f.op \in ops)
  <2>1. /\ stack' \in Stacks /\ Finite(stack')
        /\ \A ops, a : Frames(ops, a)' = Frames(ops, a) + One(IsOf(f, ops, a))
    BY <1>1, <1>4, Begins1 DEF DequeueConnect, SocketTypes
  <2> QED BY <1>4, <2>1 DEF IsOf
<1>6. /\ Frames({"new"}, Root)' = Frames({"new"}, Root)
      /\ Frames(Opening, Root)' = Frames(Opening, Root)
      /\ Frames(Local, Root)' = Frames(Local, Root)
      /\ Frames({"close"}, Root)' = Frames({"close"}, Root)
      /\ Frames({"phase2"}, Root)' <= Frames({"phase2"}, Root) + 1
      /\ Frames({"phase2"}, Root)' \in Nat
  BY <1>2, <1>4, <1>5 DEF One, Opening, Local
<1>7. SocketTypes'
  BY <1>1, <1>3, <1>5 DEF SocketTypes
<1>8. BornOnce' /\ OpenedOnce'
  BY <1>2, <1>3, <1>6 DEF SocketInv, BornOnce, OpenedOnce, One
<1>9. OnePacket'
  <2>1. Frames({"phase2"}, Root) = 0 /\ product = "none"
    BY <1>2, <1>3 DEF SocketInv, OnePacket, One
  <2>2. handle[Root] \/ canceled[Root]
    BY <1>3, <2>1 DEF SocketInv, OnePacket
  <2> QED BY <1>3, <1>6, <2>1, <2>2 DEF OnePacket, One
<1>10. ClosedBy'
  <2>1. One(io'[Root] = "none") = One(io[Root] = "none")
    BY <1>3 DEF One
  <2> QED BY <1>3, <1>6, <2>1 DEF SocketInv, ClosedBy
<1> QED BY <1>7, <1>8, <1>9, <1>10 DEF SocketInv

\* The socket passes to the object, or stays where it is.
LEMMA Phase2Preserves ==
  ASSUME SocketInv, NEW th \in Threads, Phase2(th)
  PROVE  SocketInv'
<1>1. SocketTypes /\ At(th, "phase2", Root) /\ Root \in Asyncs
  BY DEF SocketInv, Phase2, Asyncs
<1>2. \A ops : Frames(ops, Root) \in Nat /\ ("phase2" \in ops => Frames(ops, Root) >= 1)
  BY <1>1, Counted
<1>3. Frames({"phase2"}, Root) = 1 /\ io[Root] = "done" /\ product = "none"
  <2>1. Frames({"phase2"}, Root) >= 1
    BY <1>2
  <2> QED BY <1>2, <2>1 DEF SocketInv, OnePacket, One
<1>4. life[Root] = "live"
  <2>1. "phase2" \in Operations \ (Outside \union {"new"})
    BY DEF Operations, Outside
  <2> QED BY <1>1, <2>1, Alive
<1>5. handle[Root] \/ canceled[Root]
  BY <1>3 DEF SocketInv, OnePacket
<1>6. /\ UNCHANGED <<life, canceled, child, io_type, io, resolving, opened, closes>>
      /\ \/ /\ product' = IF handle[Root] THEN "socket" ELSE "invalid"
            /\ handle' = [handle EXCEPT ![Root] = FALSE]
         \/ product' = product /\ handle' = handle
  BY DEF Phase2, ResetHandle
<1>7. PICK f \in FrameType : f.op = "notify" /\ f.async = Root /\ Call(th, <<f>>)
  BY FrameTypes DEF Phase2, Operations
<1>8. /\ stack' \in Stacks /\ Finite(stack')
      /\ \A ops : Frames(ops, Root)' = Frames(ops, Root) - One("phase2" \in ops) + One("notify" \in ops)
  BY <1>1, <1>7, Counts1
<1>9. /\ Frames({"new"}, Root)' = Frames({"new"}, Root)
      /\ Frames(Opening, Root)' = Frames(Opening, Root)
      /\ Frames(Local, Root)' = Frames(Local, Root)
      /\ Frames({"close"}, Root)' = Frames({"close"}, Root)
      /\ Frames({"phase2"}, Root)' = 0
  BY <1>2, <1>3, <1>8 DEF One, Opening, Local
<1>10. SocketTypes'
  BY <1>1, <1>6, <1>8 DEF SocketTypes
<1>11. BornOnce' /\ OpenedOnce'
  BY <1>6, <1>9 DEF SocketInv, BornOnce, OpenedOnce
<1>12. OnePacket'
  <2>1. \/ product' # "none" /\ ~handle'[Root] /\ (product' = "invalid" => canceled[Root])
        \/ product' = "none" /\ handle' = handle
    BY <1>1, <1>3, <1>5, <1>6 DEF SocketTypes
  <2> QED BY <1>3, <1>5, <1>6, <1>9, <2>1 DEF OnePacket, One
<1>13. ClosedBy'
  <2>1. One(life'[Root] = "freed" /\ handle'[Root]) = One(life[Root] = "freed" /\ handle[Root])
    BY <1>4, <1>6 DEF One
  <2> QED BY <1>6, <1>9, <2>1 DEF SocketInv, ClosedBy
<1> QED BY <1>10, <1>11, <1>12, <1>13 DEF SocketInv

\* The operation is freed with what it has.
LEMMA DestroyConnectPreserves ==
  ASSUME SocketInv, NEW th \in Threads, DestroyConnect(th)
  PROVE  SocketInv'
<1>1. SocketTypes /\ At(th, "destroy", Root) /\ Root \in Asyncs
  BY DEF SocketInv, DestroyConnect, Destroy, Asyncs
<1>2. \A ops : Frames(ops, Root) \in Nat
  BY <1>1, Counted
<1>3. life[Root] = "live"
  <2>1. "destroy" \in Operations \ (Outside \union {"new"})
    BY DEF Operations, Outside
  <2> QED BY <1>1, <2>1, Alive
<1>4. /\ UNCHANGED <<canceled, handle, io_type, io, resolving, opened, product>>
      /\ life' = [life EXCEPT ![Root] = "freed"] /\ life'[Root] = "freed"
      /\ closes' = closes + One(io_type[Root] = "phase2" /\ handle[Root])
  BY <1>1 DEF DestroyConnect, Destroy, request, SocketTypes, One
<1>5. child' = [a \in Asyncs |-> None]
  BY <1>1 DEF DestroyConnect, Destroy, SocketTypes
<1>6. /\ stack' \in Stacks /\ Finite(stack')
      /\ \A ops : Frames(ops, Root)' = Frames(ops, Root) - One("destroy" \in ops)
  BY <1>1, Counts0 DEF DestroyConnect, Destroy, Return
<1>7. /\ Frames({"new"}, Root)' = Frames({"new"}, Root)
      /\ Frames(Opening, Root)' = Frames(Opening, Root)
      /\ Frames(Local, Root)' = Frames(Local, Root)
      /\ Frames({"close"}, Root)' = Frames({"close"}, Root)
      /\ Frames({"phase2"}, Root)' = Frames({"phase2"}, Root)
  BY <1>2, <1>6 DEF One, Opening, Local
<1>8. SocketTypes'
  BY <1>1, <1>4, <1>5, <1>6 DEF SocketTypes, One
<1>9. BornOnce' /\ OnePacket'
  BY <1>3, <1>4, <1>7 DEF SocketInv, BornOnce, OnePacket, One
<1>10. OpenedOnce'
  BY <1>4, <1>7 DEF SocketInv, OpenedOnce
<1>11. ClosedBy'
  <2>1. io_type[Root] = "phase1" => closes' = closes
    BY <1>1, <1>4 DEF One, SocketTypes
  <2>2. io_type[Root] = "phase2" => opened
    BY DEF SocketInv, OpenedOnce
  <2>3. ~opened => io_type[Root] = "phase1"
    BY <1>1, <2>2 DEF SocketTypes
  <2>4. ASSUME io_type[Root] = "phase2"
        PROVE  closes' + Frames({"close"}, Root)' =
                 One(io'[Root] = "none") + One(life'[Root] = "freed" /\ handle'[Root])
    <3>1. closes + Frames({"close"}, Root) = One(io[Root] = "none")
      BY <1>1, <1>2, <1>3, <2>4 DEF SocketInv, ClosedBy, SocketTypes, One
    <3>2. closes' = closes + One(life'[Root] = "freed" /\ handle'[Root])
      BY <1>4, <2>4 DEF One
    <3> QED BY <1>1, <1>2, <1>4, <1>7, <3>1, <3>2 DEF SocketTypes, One
  <2> QED BY <1>4, <1>7, <2>1, <2>3, <2>4 DEF SocketInv, ClosedBy
<1> QED BY <1>8, <1>9, <1>10, <1>11 DEF SocketInv

-----------------------------------------------------------------------------
(* The inductive invariant holds *)

\* A thread changes its own stack only.
LEMMA SilentPreserves ==
  ASSUME ConnectInv, ConnectNext
  PROVE  Silent'
<1>1. stack \in [Threads -> Seq(FrameType)] /\ Silent
  BY DEF ConnectInv, SocketInv, SocketTypes, Stacks
<1>2. ASSUME NEW t, t \notin Cancellers \ asked', asked \subseteq asked',
             \/ stack' = stack
             \/ \E frames : stack' = [stack EXCEPT ![t] = frames]
      PROVE  Silent'
  <2>1. ASSUME NEW th \in Cancellers \ asked'
        PROVE  stack'[th] = << >>
    <3>1. stack[th] = << >> /\ th # t /\ th \in Threads
      BY <1>1, <1>2 DEF Silent, Threads
    <3> QED BY <1>1, <1>2, <3>1
  <2> QED BY <2>1 DEF Silent
<1>3. ASSUME NEW th \in Threads, ConnectStep(th)
      PROVE  Silent'
  <2>1. stack[th] # << >> /\ asked' = asked
    <3>1. CASE Common(th)
      BY <3>1 DEF Common, New, AddTimerRef, Schedule, Start, Notify, AsyncNotify, Callback,
         CallbackThen, AsyncCancel, Cancel, Release, Unlock, UseAfterFree, At, rest, history
    <3>2. CASE \/ Connect(th) \/ Resolve(th) \/ Phase1Failed(th) \/ Phase1(th) \/ Phase1Enter(th)
               \/ ConnectEx(th) \/ Close(th) \/ Phase2(th) \/ DestroyConnect(th)
      BY <3>2 DEF Connect, Resolve, Phase1Failed, Phase1, Phase1Enter, ConnectEx, Close, Phase2,
         DestroyConnect, Destroy, At, rest
    <3> QED BY <1>3, <3>1, <3>2 DEF ConnectStep
  <2>2. stack' = stack \/ \E frames : stack' = [stack EXCEPT ![th] = frames]
    <3>1. CASE Common(th)
      <4>1. \/ UseAfterFree(th) \/ Release(th, Root) \/ Unlock(th, Root) \/ Cancel(th, Root)
            \/ \/ New(th, Root) \/ AddTimerRef(th, Root) \/ Schedule(th, Root) \/ Start(th, Root)
               \/ Notify(th, Root) \/ AsyncNotify(th, Root) \/ Callback(th, Root)
               \/ AsyncCancel(th, Root)
        BY <3>1 DEF Common
      <4>2. CASE UseAfterFree(th) \/ Release(th, Root) \/ Unlock(th, Root) \/ Cancel(th, Root)
        BY <4>2 DEF UseAfterFree, Release, Unlock, Cancel, CancelChild, CancelCall, CancelDirectly,
           Return, Call
      <4>3. CASE \/ New(th, Root) \/ AddTimerRef(th, Root) \/ Schedule(th, Root) \/ Start(th, Root)
                 \/ Notify(th, Root) \/ AsyncNotify(th, Root) \/ Callback(th, Root)
                 \/ AsyncCancel(th, Root)
        BY <4>3 DEF New, AddTimerRef, Schedule, Start, Notify, AsyncNotify, Callback, CallbackThen,
           AsyncCancel, CancelTimerThen, Return, Call
      <4> QED BY <4>1, <4>2, <4>3
    <3>2. CASE \/ Connect(th) \/ Resolve(th) \/ Phase1Failed(th) \/ Phase1(th) \/ Phase1Enter(th)
      BY <3>2 DEF Connect, Resolve, Phase1Failed, Phase1, Phase1Enter, AsyncEnter, Call
    <3>3. CASE ConnectEx(th) \/ Close(th) \/ Phase2(th) \/ DestroyConnect(th)
      BY <3>3 DEF ConnectEx, Close, Phase2, DestroyConnect, Destroy, Return, Call
    <3> QED BY <1>3, <3>1, <3>2, <3>3 DEF ConnectStep
  <2>3. th \notin Cancellers \ asked'
    BY <1>1, <2>1 DEF Silent
  <2> QED BY <1>2, <2>1, <2>2, <2>3
<1>4. CASE ResolutionEnds
  BY <1>2, <1>4, AsyncAssumption DEF ResolutionEnds, rest
<1>5. ASSUME NEW th \in Workers, DequeueConnect(th)
      PROVE  Silent'
  BY <1>2, <1>5, AsyncAssumption DEF DequeueConnect, rest
<1>6. CASE IoEnds(Root) \/ TimeoutFires(Root)
  BY <1>2, <1>6, AsyncAssumption DEF IoEnds, TimeoutFires, rest
<1>7. ASSUME NEW th \in Cancellers, Ask(th)
      PROVE  Silent'
  BY <1>2, <1>7 DEF Ask
<1> QED BY <1>3, <1>4, <1>5, <1>6, <1>7 DEF ConnectNext

\* Every step keeps the invariant, if the issuer connects.
LEMMA ConnectInductive ==
  ASSUME Ops \subseteq {"connect"}, ConnectInv, [ConnectNext]_connectVars
  PROVE  ConnectInv'
<1>1. CASE ConnectNext
  <2>1. Silent'
    BY <1>1, SilentPreserves
  <2>2. SocketInv
    BY DEF ConnectInv
  <2>3. ASSUME NEW th \in Threads, ConnectStep(th)
        PROVE  SocketInv'
    <3>1. CASE Common(th)
      <4>1. UNCHANGED socket
        BY <3>1 DEF Common
      <4>2. CASE \/ New(th, Root) \/ AddTimerRef(th, Root) \/ Schedule(th, Root)
                 \/ Notify(th, Root) \/ AsyncNotify(th, Root) \/ Callback(th, Root)
                 \/ AsyncCancel(th, Root) \/ Cancel(th, Root) \/ Release(th, Root)
                 \/ Unlock(th, Root)
        <5>1. Calm
          BY <2>2, <4>1, <4>2, CommonStepsAreCalm
        <5> QED BY <2>2, <5>1, CalmKeeps
      <4>3. CASE Start(th, Root)
        BY <2>2, <4>1, <4>3, StartIsCalm, CalmKeeps
      <4>4. CASE UseAfterFree(th)
        BY <2>2, <4>1, <4>4, BeginningsAreCalm, CalmKeeps
      <4> QED BY <3>1, <4>2, <4>3, <4>4 DEF Common
    <3>2. CASE Connect(th)
      BY <2>2, <3>2, ConnectIsCalm, CalmKeeps
    <3>3. CASE Resolve(th)
      BY <2>2, <3>3, ResolvePreserves
    <3>4. CASE Phase1(th) \/ Phase1Failed(th)
      BY <2>2, <3>4, Phase1Preserves
    <3>5. CASE Phase1Enter(th)
      BY <2>2, <3>5, Phase1EnterPreserves
    <3>6. CASE ConnectEx(th)
      BY <2>2, <3>6, ConnectExPreserves
    <3>7. CASE Close(th)
      BY <2>2, <3>7, ClosePreserves
    <3>8. CASE Phase2(th)
      BY <2>2, <3>8, Phase2Preserves
    <3>9. CASE DestroyConnect(th)
      BY <2>2, <3>9, DestroyConnectPreserves
    <3> QED BY <2>3, <3>1, <3>2, <3>3, <3>4, <3>5, <3>6, <3>7, <3>8, <3>9 DEF ConnectStep
  <2>4. ASSUME ResolutionEnds
        PROVE  SocketInv'
    BY <2>2, <2>4, ResolutionEndsPreserves
  <2>5. ASSUME NEW th \in Workers, DequeueConnect(th)
        PROVE  SocketInv'
    BY <2>2, <2>5, DequeueConnectPreserves
  <2>6. ASSUME UNCHANGED socket,
               IoEnds(Root) \/ TimeoutFires(Root) \/ \E th \in Cancellers : Ask(th)
        PROVE  SocketInv'
    BY <2>2, <2>6, BeginningsAreCalm, CalmKeeps
  <2>7. SocketInv'
    BY <1>1, <2>3, <2>4, <2>5, <2>6 DEF ConnectNext
  <2> QED BY <2>1, <2>7 DEF ConnectInv
<1>2. CASE UNCHANGED connectVars
  <2>1. UNCHANGED <<stack, life, canceled, child, handle, io_type, io, asked, resolving, opened,
                    closes, product>>
    BY <1>2 DEF connectVars, vars, operation, request, socket
  <2>2. \A ops : Frames(ops, Root)' = Frames(ops, Root)
    BY <2>1 DEF Frames
  <2>3. SocketTypes' /\ Silent'
    BY <2>1 DEF ConnectInv, SocketInv, SocketTypes, Silent
  <2>4. BornOnce' /\ OpenedOnce' /\ OnePacket' /\ ClosedBy'
    BY <2>1, <2>2 DEF ConnectInv, SocketInv, BornOnce, OpenedOnce, OnePacket, ClosedBy
  <2> QED BY <2>3, <2>4 DEF ConnectInv, SocketInv
<1> QED BY <1>1, <1>2

\* It holds at first.
LEMMA ConnectInitially ==
  ASSUME ConnectInit
  PROVE  ConnectInv
<1>1. /\ stack \in Stacks /\ Finite(stack)
      /\ \A ops : Frames(ops, Root) = One("start" \in ops) + One("new" \in ops)
  BY FirstFrames DEF ConnectInit
<1>2. SocketTypes
  BY <1>1 DEF ConnectInit, Init, NoneYet, SocketTypes
<1>3. /\ life[Root] = "none" /\ io_type[Root] = "phase1" /\ io[Root] = "none" /\ ~handle[Root]
      /\ resolving = "none" /\ ~opened /\ closes = 0 /\ product = "none"
  BY DEF ConnectInit, Init, NoneYet, Asyncs
<1>4. /\ Frames({"new"}, Root) = 1 /\ Frames(Opening, Root) = 1 /\ Frames(Local, Root) = 0
      /\ Frames({"close"}, Root) = 0 /\ Frames({"phase2"}, Root) = 0
  BY <1>1 DEF Opening, Local, One
<1>5. BornOnce /\ OpenedOnce
  BY <1>3, <1>4 DEF BornOnce, OpenedOnce, One
<1>6. OnePacket /\ ClosedBy
  BY <1>3, <1>4 DEF OnePacket, ClosedBy, One
<1>7. Silent
  BY AsyncAssumption DEF ConnectInit, Init, Silent, Threads
<1> QED BY <1>2, <1>5, <1>6, <1>7 DEF ConnectInv, SocketInv

LEMMA ConnectInvariant ==
  ASSUME Ops \subseteq {"connect"}
  PROVE  ConnectSafeSpec => []ConnectInv
<1>1. ConnectInit => ConnectInv
  BY ConnectInitially
<1>2. ConnectInv /\ [ConnectNext]_connectVars => ConnectInv'
  BY ConnectInductive
<1> QED BY <1>1, <1>2, PTL DEF ConnectSafeSpec

-----------------------------------------------------------------------------
(* What follows *)

\* A thread that connects has one socket at most, and it is in one place, or
\* lost after a cancellation, until it is closed.
THEOREM SocketOwned ==
  ASSUME Ops \subseteq {"connect"}
  PROVE  ConnectSafeSpec => []SocketHasOneOwner
<1>1. ASSUME ConnectInv
      PROVE  SocketHasOneOwner
  <2>1. SocketInv /\ \A ops : Frames(ops, Root) \in Nat
    BY <1>1, FramesType DEF ConnectInv, SocketInv, SocketTypes
  <2>2. SUFFICES ASSUME opened, closes = 0, Frames({"close"}, Root) = 0
                 PROVE  SocketOwners = 1 \/ (SocketOwners = 0 /\ canceled[Root])
    BY <2>1 DEF SocketHasOneOwner, SocketInv, SocketTypes
  <2>3. /\ HasLocal <=> Frames(Local, Root) > 0
        /\ HasHandle <=> io_type[Root] = "phase2" /\ handle[Root] /\ life[Root] = "live"
        /\ HasObject <=> product = "socket"
    BY DEF HasLocal, HasHandle, HasObject, Local
  <2>4. CASE io_type[Root] = "phase1"
    <3>1. Frames(Local, Root) = 1 \/ (Frames(Local, Root) = 0 /\ canceled[Root])
      BY <2>1, <2>2, <2>4 DEF SocketInv, ClosedBy
    <3>2. product = "none"
      BY <2>1, <2>4 DEF SocketInv, OpenedOnce, OnePacket, One
    <3> QED BY <2>3, <2>4, <3>1, <3>2 DEF SocketOwners, One
  <2>5. CASE io_type[Root] = "phase2"
    <3>1. Frames(Local, Root) = 0 /\ life[Root] \in {"live", "freed"}
      BY <2>1, <2>5 DEF SocketInv, OpenedOnce, SocketTypes, Asyncs
    <3>2. io[Root] # "none" /\ ~(life[Root] = "freed" /\ handle[Root])
      BY <2>1, <2>2, <2>5 DEF SocketInv, ClosedBy, One
    <3>3. CASE product = "none"
      <4>1. handle[Root] \/ canceled[Root]
        BY <2>1, <3>2, <3>3 DEF SocketInv, OnePacket
      <4> QED BY <2>3, <2>5, <3>1, <3>2, <3>3, <4>1 DEF SocketOwners, One
    <3>4. CASE product # "none"
      <4>1. ~handle[Root] /\ (product = "invalid" => canceled[Root])
            /\ product \in {"socket", "invalid"}
        BY <2>1, <3>4 DEF SocketInv, OnePacket, SocketTypes
      <4> QED BY <2>3, <3>1, <3>4, <4>1 DEF SocketOwners, One
    <3> QED BY <3>3, <3>4
  <2>6. io_type[Root] \in {"phase1", "phase2"}
    BY <2>1 DEF SocketInv, SocketTypes, Asyncs
  <2> QED BY <2>4, <2>5, <2>6
<1> QED BY <1>1, ConnectInvariant, PTL

\* The object that the callback may use has a socket that is open, or the
\* operation was cancelled.
THEOREM ConnectedSocketIsUsable ==
  ASSUME Ops \subseteq {"connect"}
  PROVE  ConnectSafeSpec => []DeliveredIsUsable
<1>1. ASSUME ConnectInv
      PROVE  DeliveredIsUsable
  <2>1. SocketInv /\ \A ops : Frames(ops, Root) \in Nat
    BY <1>1, FramesType DEF ConnectInv, SocketInv, SocketTypes
  <2>2. product = "invalid" => canceled[Root]
    BY <2>1 DEF SocketInv, OnePacket
  <2>3. ASSUME product = "socket"
        PROVE  closes = 0
    <3>1. io[Root] = "done" /\ ~handle[Root]
      BY <2>1, <2>3 DEF SocketInv, OnePacket, One
    <3>2. io_type[Root] = "phase2"
      BY <2>1, <3>1 DEF SocketInv, OpenedOnce
    <3> QED BY <2>1, <3>1, <3>2 DEF SocketInv, ClosedBy, SocketTypes, One
  <2> QED BY <2>2, <2>3 DEF DeliveredIsUsable
<1> QED BY <1>1, ConnectInvariant, PTL

\* Only when ConnectEx fails at once is the socket closed twice.
THEOREM ClosedOnceUnlessRefused ==
  ASSUME Ops \subseteq {"connect"}
  PROVE  ConnectSafeSpec => []ClosedTwiceOnlyIfRefused
<1>1. ASSUME ConnectInv
      PROVE  ClosedTwiceOnlyIfRefused
  <2>1. SocketInv /\ \A ops : Frames(ops, Root) \in Nat
    BY <1>1, FramesType DEF ConnectInv, SocketInv, SocketTypes
  <2>2. SUFFICES ASSUME closes = 2, io[Root] # "none"
                 PROVE  FALSE
    BY DEF ClosedTwiceOnlyIfRefused
  <2>3. io_type[Root] = "phase2"
    BY <2>1, <2>2 DEF SocketInv, OpenedOnce
  <2> QED BY <2>1, <2>2, <2>3 DEF SocketInv, ClosedBy, One
<1> QED BY <1>1, ConnectInvariant, PTL

-----------------------------------------------------------------------------
(* The life of a connect *)

\* A timeout has fired and found the operation, or a user has cancelled.
Ended == canceled[Root] \/ asked # {}

ConnectOps ==
  {"new", "add_timer_ref", "schedule", "start", "connect", "resolve", "failed", "phase1",
   "phase1_enter", "connectex", "phase2", "close", "notify", "async_notify", "callback",
   "cancel", "_cancel", "release", "destroy", "unlock"}

\* What is on a stack, if e says whether the operation was ended.  A thread that
\* calls back owns the reference that it releases after that; so does one that
\* leaves the monitor or that the timer has started, until there are others that
\* cancel.
Ordered(s, e) ==
  \A k \in DOMAIN s :
    /\ s[k].op \in ConnectOps /\ s[k].async = Root
    /\ s[k].op = "callback" \/ (s[k].op \in {"unlock", "_cancel"} /\ ~e) =>
         k < Len(s) /\ s[k + 1].op = "release"

LifeTypes ==
  /\ ref \in [Asyncs -> Nat]
  /\ lock \in [Asyncs -> [owner : Threads \union {None}, depth : Nat]]
  /\ called \in [Asyncs -> BOOLEAN]
  /\ timer \in [Asyncs -> {"idle", "armed", "gone"}]
  /\ completed \in [Asyncs -> Nat]
  /\ missed \in [Asyncs -> BOOLEAN] /\ early \in [Asyncs -> BOOLEAN]
  /\ asked \subseteq Cancellers
  /\ \A a \in Asyncs \ {Root} : life[a] = "none" /\ completed[a] = 0

Births == {"new", "add_timer_ref", "schedule"}

FirstCalls(op) ==
  [th \in Threads |->
     IF th = Issuer THEN <<Frame(op, Root), Frame("start", Root)>> ELSE << >>]

\* Until xf_async_new returns nobody else knows the operation.
Fresh ==
  /\ \E op \in Births :
       /\ stack = FirstCalls(op)
       /\ life[Root] = IF op = "new" THEN "none" ELSE "live"
  /\ Frames(Births, Root) = 1
  /\ ~canceled[Root] /\ ~called[Root] /\ timer[Root] = "idle" /\ io[Root] = "none"
  /\ completed[Root] = 0 /\ resolving = "none" /\ asked = {} /\ stale = {}

Settled == life[Root] # "none" /\ Frames(Births, Root) = 0

InMonitor == {"resolve", "connectex", "unlock"}

\* Each frame inside the monitor has entered it once.
DepthExact == lock[Root].depth = Frames(InMonitor, Root)

RefExact ==
  life[Root] = "live" =>
    ref[Root] = One(~called[Root]) + One(timer[Root] = "armed") + Frames(Holding, Root)

CallsBack == Frames({"callback"}, Root) + completed[Root] = One(called[Root])

\* It is destroyed once, by the one that had the last reference.
DestroyedLast ==
  /\ Frames({"destroy"}, Root) + One(life[Root] = "freed") <= 1
  /\ Frames({"destroy"}, Root) > 0 \/ life[Root] = "freed" =>
       /\ called[Root] /\ timer[Root] # "armed"
       /\ Frames(Holding, Root) = 0 /\ Frames({"callback"}, Root) = 0

\* What is going to end the operation travels from the issuer to the resolver,
\* back to a thread, to the kernel and to a worker, until the callback is called;
\* before a cancellation nobody else ends it.
Moving == {"start", "connect", "resolve", "failed", "phase1", "phase1_enter", "connectex",
           "phase2", "notify", "async_notify"}

Tokens ==
  Frames(Moving, Root) + One(resolving = "pending") + One(io[Root] \in {"pending", "queued"})
  + One(called[Root])

EndsByItself == ~canceled[Root] => Tokens <= 1

AskedFirst == Frames({"cancel"}, Root) > 0 => asked # {}

CountsExact == DepthExact /\ RefExact /\ CallsBack /\ DestroyedLast /\ EndsByItself /\ AskedFirst

LifeInv ==
  /\ LifeTypes
  /\ Settled \/ Fresh
  /\ \A th \in Threads : Ordered(stack[th], Ended)
  /\ CountsExact

WorkInv == ConnectInv /\ LifeInv

-----------------------------------------------------------------------------
(* What a step does to the frames *)

\* A frame that executes o becomes frames that execute x, y, z and w; "-" stands
\* for none.
Moved(o, x, y, z, w) ==
  /\ stack' \in Stacks /\ Finite(stack')
  /\ \A ops : "-" \notin ops =>
       Frames(ops, Root)' = Frames(ops, Root) - One(o \in ops) + One(x \in ops) + One(y \in ops)
                              + One(z \in ops) + One(w \in ops)
  /\ \A ops : Frames(ops, Root) \in Nat
  /\ \A ops : o \in ops /\ o # "-" => Frames(ops, Root) >= 1
  /\ \A th \in Threads : Ordered(stack[th], Ended)'

\* A frame of the operation.
Does(f, op) == f \in FrameType /\ f.op = op /\ f.async = Root

LEMMA Doings ==
  ASSUME NEW op \in Operations
  PROVE  /\ Does(Frame(op, Root), op)
         /\ \A th \in Threads : Head(stack[th]) \in FrameType => Does(Carry(th, op, Root), op)
BY NewFrames, CarriedFrames DEF Does, Asyncs

\* Frames that need a release after them.
Needy(op, e) == op = "callback" \/ (op \in {"unlock", "_cancel"} /\ ~e)

LEMMA OrderedMore ==
  ASSUME NEW s, NEW e \in BOOLEAN, NEW n \in BOOLEAN, Ordered(s, e), e => n
  PROVE  Ordered(s, n)
BY DEF Ordered

LEMMA OrderedNone ==
  ASSUME NEW e
  PROVE  Ordered(<< >>, e)
BY DEF Ordered

LEMMA OrderedOne ==
  ASSUME NEW e \in BOOLEAN, NEW x \in ConnectOps, ~Needy(x, e), NEW f, Does(f, x)
  PROVE  Ordered(<<f>>, e)
BY DEF Ordered, Needy, Does

LEMMA OrderedTwo ==
  ASSUME NEW e \in BOOLEAN, NEW x \in ConnectOps, NEW y \in ConnectOps,
         Needy(x, e) => y = "release", ~Needy(y, e),
         NEW f, Does(f, x), NEW g, Does(g, y)
  PROVE  Ordered(<<f, g>>, e)
<1> DEFINE s == <<f, g>>
<1>1. s[1] = f /\ s[2] = g /\ Len(s) = 2 /\ DOMAIN s = {1, 2}
  OBVIOUS
<1> HIDE DEF s
<1>2. Ordered(s, e)
  BY <1>1 DEF Ordered, Needy, Does
<1> QED BY <1>2 DEF s

LEMMA OrderedThree ==
  ASSUME NEW e \in BOOLEAN, NEW x \in ConnectOps, NEW y \in ConnectOps, NEW z \in ConnectOps,
         Needy(x, e) => y = "release", ~Needy(y, e), ~Needy(z, e),
         NEW f, Does(f, x), NEW g, Does(g, y), NEW h, Does(h, z)
  PROVE  Ordered(<<f, g, h>>, e)
<1> DEFINE s == <<f, g, h>>
<1>1. s[1] = f /\ s[2] = g /\ s[3] = h /\ Len(s) = 3 /\ DOMAIN s = {1, 2, 3}
  OBVIOUS
<1> HIDE DEF s
<1>2. Ordered(s, e)
  BY <1>1 DEF Ordered, Needy, Does
<1> QED BY <1>2 DEF s

LEMMA OrderedFour ==
  ASSUME NEW e \in BOOLEAN, NEW x \in ConnectOps, NEW y \in ConnectOps, NEW z \in ConnectOps,
         NEW w \in ConnectOps,
         Needy(x, e) => y = "release", ~Needy(y, e), ~Needy(z, e), ~Needy(w, e),
         NEW f, Does(f, x), NEW g, Does(g, y), NEW h, Does(h, z), NEW i, Does(i, w)
  PROVE  Ordered(<<f, g, h, i>>, e)
<1> DEFINE s == <<f, g, h, i>>
<1>1. /\ s[1] = f /\ s[2] = g /\ s[3] = h /\ s[4] = i
      /\ Len(s) = 4 /\ DOMAIN s = {1, 2, 3, 4}
  OBVIOUS
<1> HIDE DEF s
<1>2. Ordered(s, e)
  BY <1>1 DEF Ordered, Needy, Does
<1> QED BY <1>2 DEF s

\* Stacks stay in order if what is called is.
LEMMA StaysOrdered ==
  ASSUME stack \in Stacks, NEW e \in BOOLEAN, NEW n \in BOOLEAN, e => n,
         \A t \in Threads : Ordered(stack[t], e),
         NEW th \in Threads, stack[th] # << >>, NEW q \in Seq(FrameType), Call(th, q), Ordered(q, n)
  PROVE  \A t \in Threads : Ordered(stack'[t], n)
<1>1. /\ stack[th] \in Seq(FrameType) /\ stack'[th] = q \o Tail(stack[th])
      /\ \A t \in Threads \ {th} : stack'[t] = stack[t]
      /\ \A t \in Threads : Ordered(stack[t], n)
  BY OrderedMore DEF Call, Stacks
<1> DEFINE s == stack[th]
           r == stack'[th]
<1>2. /\ Len(r) = Len(q) + Len(s) - 1 /\ Len(q) \in Nat /\ Len(s) \in Nat /\ Len(s) >= 1
      /\ DOMAIN r = 1..Len(r) /\ DOMAIN q = 1..Len(q) /\ DOMAIN s = 1..Len(s)
      /\ \A k \in 1..Len(q) : r[k] = q[k]
      /\ \A k \in Len(q) + 1..Len(r) : r[k] = s[k - Len(q) + 1]
  BY <1>1
<1>3. Ordered(s, n)
  BY <1>1
<1> HIDE DEF s, r
<1>4. ASSUME NEW k \in DOMAIN r
      PROVE  /\ r[k].op \in ConnectOps /\ r[k].async = Root
             /\ Needy(r[k].op, n) => k < Len(r) /\ r[k + 1].op = "release"
  <2>1. CASE k <= Len(q)
    <3>1. k \in DOMAIN q /\ r[k] = q[k]
      BY <1>2, <2>1
    <3>2. q[k].op \in ConnectOps /\ q[k].async = Root
      BY <3>1 DEF Ordered
    <3>3. ASSUME Needy(q[k].op, n)
          PROVE  k < Len(r) /\ r[k + 1].op = "release"
      <4>1. k < Len(q) /\ q[k + 1].op = "release"
        BY <3>1, <3>3 DEF Ordered, Needy
      <4>2. k + 1 \in 1..Len(q) /\ k < Len(r)
        BY <1>2, <3>1, <4>1
      <4> QED BY <1>2, <4>1, <4>2
    <3> QED BY <3>1, <3>2, <3>3
  <2>2. CASE ~(k <= Len(q))
    <3> DEFINE i == k - Len(q) + 1
    <3>1. i \in DOMAIN s /\ r[k] = s[i] /\ k \in Nat
      BY <1>2, <2>2
    <3>2. s[i].op \in ConnectOps /\ s[i].async = Root
      BY <1>3, <3>1 DEF Ordered
    <3>3. ASSUME Needy(s[i].op, n)
          PROVE  k < Len(r) /\ r[k + 1].op = "release"
      <4>1. i < Len(s) /\ s[i + 1].op = "release"
        BY <1>3, <3>1, <3>3 DEF Ordered, Needy
      <4>2. k + 1 \in Len(q) + 1..Len(r) /\ k < Len(r) /\ (k + 1) - Len(q) + 1 = i + 1
        BY <1>2, <2>2, <3>1, <4>1
      <4>3. r[k + 1] = s[i + 1]
        BY <1>2, <4>2
      <4> QED BY <4>1, <4>2, <4>3
    <3> QED BY <3>1, <3>2, <3>3
  <2> QED BY <2>1, <2>2
<1>5. Ordered(r, n)
  BY <1>4 DEF Ordered, Needy
<1> QED BY <1>1, <1>5 DEF r

\* The same, of the stacks of a connect.
LEMMA KeepsOrder ==
  ASSUME WorkInv, Ended => Ended', NEW th \in Threads, stack[th] # << >>,
         NEW q \in Seq(FrameType), Call(th, q), Ordered(q, Ended')
  PROVE  \A t \in Threads : Ordered(stack[t], Ended)'
<1>1. stack \in Stacks /\ \A t \in Threads : Ordered(stack[t], Ended)
  BY DEF WorkInv, ConnectInv, SocketInv, SocketTypes, LifeInv
<1> DEFINE e == Ended
           n == Ended'
<1>2. e \in BOOLEAN /\ n \in BOOLEAN /\ (e => n) /\ Ordered(q, n)
      /\ \A t \in Threads : Ordered(stack[t], e)
  <2>1. canceled[Root] \in BOOLEAN
    BY DEF WorkInv, ConnectInv, SocketInv, SocketTypes, Asyncs
  <2> QED BY <1>1, <2>1 DEF Ended
<1> HIDE DEF e, n
<1>3. \A t \in Threads : Ordered(stack'[t], n)
  BY <1>1, <1>2, StaysOrdered
<1> QED BY <1>3 DEF n

\* A thread executes a frame of the operation.
LEMMA AtWork ==
  ASSUME WorkInv, NEW th \in Threads, NEW o, At(th, o, Root)
  PROVE  /\ SocketTypes /\ SocketInv /\ Root \in Asyncs
         /\ stack \in Stacks /\ Finite(stack) /\ stack[th] # << >>
         /\ Head(stack[th]) \in FrameType /\ Head(stack[th]).op = o
         /\ \A ops : Frames(ops, Root) \in Nat
         /\ \A ops : o \in ops => Frames(ops, Root) >= 1
<1>1. SocketTypes /\ SocketInv
  BY DEF WorkInv, ConnectInv, SocketInv
<1> QED BY <1>1, Counted

\* It returns.
LEMMA Goes0 ==
  ASSUME WorkInv, Ended => Ended', NEW th \in Threads, NEW o, At(th, o, Root),
         Call(th, << >>)
  PROVE  Moved(o, "-", "-", "-", "-")
<1>1. /\ SocketTypes /\ stack[th] # << >> /\ \A ops : Frames(ops, Root) \in Nat
      /\ \A ops : o \in ops => Frames(ops, Root) >= 1
  BY AtWork
<1>2. /\ stack' \in Stacks /\ Finite(stack')
      /\ \A ops : Frames(ops, Root)' =
                    Frames(ops, Root) - One(o \in ops)
  BY <1>1, Counts0 DEF Does
<1> DEFINE q == << >>
<1>3. q \in Seq(FrameType) /\ Call(th, q)
  BY DEF Does
<1>4. Ordered(q, Ended')
  <2>1. Ended' \in BOOLEAN
    BY DEF Ended
  <2> QED BY <2>1, OrderedNone
<1> HIDE DEF q
<1>5. \A t \in Threads : Ordered(stack[t], Ended)'
  BY <1>1, <1>3, <1>4, KeepsOrder
<1>6. \A ops : One(o \in ops) \in Nat
  BY DEF One
<1>7. \A ops : Frames(ops, Root)' =
               Frames(ops, Root) - One(o \in ops)
  BY <1>2 DEF Does
<1>8. ASSUME NEW ops, "-" \notin ops
      PROVE  Frames(ops, Root)' = Frames(ops, Root) - One(o \in ops) + One("-" \in ops)
                                    + One("-" \in ops) + One("-" \in ops) + One("-" \in ops)
  <2>1. One("-" \in ops) = 0 /\ Frames(ops, Root) \in Nat
    BY <1>1, <1>8 DEF One
  <2> QED BY <1>6, <1>7, <2>1
<1> QED BY <1>1, <1>2, <1>5, <1>8 DEF Moved

\* It goes on with one frame,
LEMMA Goes1 ==
  ASSUME WorkInv, Ended => Ended', NEW th \in Threads, NEW o, At(th, o, Root),
         NEW x \in ConnectOps, NEW f, Does(f, x),
         Call(th, <<f>>),
         ~Needy(x, Ended')
  PROVE  Moved(o, x, "-", "-", "-")
<1>1. /\ SocketTypes /\ stack[th] # << >> /\ \A ops : Frames(ops, Root) \in Nat
      /\ \A ops : o \in ops => Frames(ops, Root) >= 1
  BY AtWork
<1>2. /\ stack' \in Stacks /\ Finite(stack')
      /\ \A ops : Frames(ops, Root)' =
                    Frames(ops, Root) - One(o \in ops) + One(f.op \in ops)
  BY <1>1, Counts1 DEF Does
<1> DEFINE q == <<f>>
<1>3. q \in Seq(FrameType) /\ Call(th, q)
  BY DEF Does
<1>4. Ordered(q, Ended')
  <2>1. Ended' \in BOOLEAN
    BY DEF Ended
  <2> QED BY <2>1, OrderedOne
<1> HIDE DEF q
<1>5. \A t \in Threads : Ordered(stack[t], Ended)'
  BY <1>1, <1>3, <1>4, KeepsOrder
<1>6. \A ops : One(o \in ops) \in Nat /\ One(x \in ops) \in Nat
  BY DEF One
<1>7. \A ops : Frames(ops, Root)' =
               Frames(ops, Root) - One(o \in ops) + One(x \in ops)
  BY <1>2 DEF Does
<1>8. ASSUME NEW ops, "-" \notin ops
      PROVE  Frames(ops, Root)' = Frames(ops, Root) - One(o \in ops) + One(x \in ops)
                                    + One("-" \in ops) + One("-" \in ops) + One("-" \in ops)
  <2>1. One("-" \in ops) = 0 /\ Frames(ops, Root) \in Nat
    BY <1>1, <1>8 DEF One
  <2> QED BY <1>6, <1>7, <2>1
<1> QED BY <1>1, <1>2, <1>5, <1>8 DEF Moved

\* with two,
LEMMA Goes2 ==
  ASSUME WorkInv, Ended => Ended', NEW th \in Threads, NEW o, At(th, o, Root),
         NEW x \in ConnectOps, NEW f, Does(f, x),
         NEW y \in ConnectOps, NEW g, Does(g, y),
         Call(th, <<f, g>>),
         Needy(x, Ended') => y = "release", ~Needy(y, Ended')
  PROVE  Moved(o, x, y, "-", "-")
<1>1. /\ SocketTypes /\ stack[th] # << >> /\ \A ops : Frames(ops, Root) \in Nat
      /\ \A ops : o \in ops => Frames(ops, Root) >= 1
  BY AtWork
<1>2. /\ stack' \in Stacks /\ Finite(stack')
      /\ \A ops : Frames(ops, Root)' =
                    Frames(ops, Root) - One(o \in ops) + One(g.op \in ops) + One(f.op \in ops)
  BY <1>1, Counts2 DEF Does
<1> DEFINE q == <<f, g>>
<1>3. q \in Seq(FrameType) /\ Call(th, q)
  BY DEF Does
<1>4. Ordered(q, Ended')
  <2>1. Ended' \in BOOLEAN
    BY DEF Ended
  <2> QED BY <2>1, OrderedTwo
<1> HIDE DEF q
<1>5. \A t \in Threads : Ordered(stack[t], Ended)'
  BY <1>1, <1>3, <1>4, KeepsOrder
<1>6. \A ops : One(o \in ops) \in Nat /\ One(x \in ops) \in Nat /\ One(y \in ops) \in Nat
  BY DEF One
<1>7. \A ops : Frames(ops, Root)' =
               Frames(ops, Root) - One(o \in ops) + One(y \in ops) + One(x \in ops)
  BY <1>2 DEF Does
<1>8. ASSUME NEW ops, "-" \notin ops
      PROVE  Frames(ops, Root)' = Frames(ops, Root) - One(o \in ops) + One(x \in ops)
                                    + One(y \in ops) + One("-" \in ops) + One("-" \in ops)
  <2>1. One("-" \in ops) = 0 /\ Frames(ops, Root) \in Nat
    BY <1>1, <1>8 DEF One
  <2> QED BY <1>6, <1>7, <2>1
<1> QED BY <1>1, <1>2, <1>5, <1>8 DEF Moved

\* with three,
LEMMA Goes3 ==
  ASSUME WorkInv, Ended => Ended', NEW th \in Threads, NEW o, At(th, o, Root),
         NEW x \in ConnectOps, NEW f, Does(f, x),
         NEW y \in ConnectOps, NEW g, Does(g, y),
         NEW z \in ConnectOps, NEW h, Does(h, z),
         Call(th, <<f, g, h>>),
         Needy(x, Ended') => y = "release", ~Needy(y, Ended'), ~Needy(z, Ended')
  PROVE  Moved(o, x, y, z, "-")
<1>1. /\ SocketTypes /\ stack[th] # << >> /\ \A ops : Frames(ops, Root) \in Nat
      /\ \A ops : o \in ops => Frames(ops, Root) >= 1
  BY AtWork
<1>2. /\ stack' \in Stacks /\ Finite(stack')
      /\ \A ops : Frames(ops, Root)' =
                    Frames(ops, Root) - One(o \in ops) + One(h.op \in ops)
                      + One(g.op \in ops) + One(f.op \in ops)
  BY <1>1, Counts3 DEF Does
<1> DEFINE q == <<f, g, h>>
<1>3. q \in Seq(FrameType) /\ Call(th, q)
  BY DEF Does
<1>4. Ordered(q, Ended')
  <2>1. Ended' \in BOOLEAN
    BY DEF Ended
  <2> QED BY <2>1, OrderedThree
<1> HIDE DEF q
<1>5. \A t \in Threads : Ordered(stack[t], Ended)'
  BY <1>1, <1>3, <1>4, KeepsOrder
<1>6. \A ops : /\ One(o \in ops) \in Nat /\ One(x \in ops) \in Nat
               /\ One(y \in ops) \in Nat /\ One(z \in ops) \in Nat
  BY DEF One
<1>7. \A ops : Frames(ops, Root)' =
               Frames(ops, Root) - One(o \in ops) + One(z \in ops) + One(y \in ops) + One(x \in ops)
  BY <1>2 DEF Does
<1>8. ASSUME NEW ops, "-" \notin ops
      PROVE  Frames(ops, Root)' = Frames(ops, Root) - One(o \in ops) + One(x \in ops)
                                    + One(y \in ops) + One(z \in ops) + One("-" \in ops)
  <2>1. One("-" \in ops) = 0 /\ Frames(ops, Root) \in Nat
    BY <1>1, <1>8 DEF One
  <2> QED BY <1>6, <1>7, <2>1
<1> QED BY <1>1, <1>2, <1>5, <1>8 DEF Moved

\* or with four.
LEMMA Goes4 ==
  ASSUME WorkInv, Ended => Ended', NEW th \in Threads, NEW o, At(th, o, Root),
         NEW x \in ConnectOps, NEW f, Does(f, x),
         NEW y \in ConnectOps, NEW g, Does(g, y),
         NEW z \in ConnectOps, NEW h, Does(h, z),
         NEW w \in ConnectOps, NEW i, Does(i, w),
         Call(th, <<f, g, h, i>>),
         Needy(x, Ended') => y = "release", ~Needy(y, Ended'), ~Needy(z, Ended'), ~Needy(w, Ended')
  PROVE  Moved(o, x, y, z, w)
<1>1. /\ SocketTypes /\ stack[th] # << >> /\ \A ops : Frames(ops, Root) \in Nat
      /\ \A ops : o \in ops => Frames(ops, Root) >= 1
  BY AtWork
<1>2. /\ stack' \in Stacks /\ Finite(stack')
      /\ \A ops : Frames(ops, Root)' =
                    Frames(ops, Root) - One(o \in ops) + One(i.op \in ops)
                      + One(h.op \in ops) + One(g.op \in ops) + One(f.op \in ops)
  BY <1>1, Counts4 DEF Does
<1> DEFINE q == <<f, g, h, i>>
<1>3. q \in Seq(FrameType) /\ Call(th, q)
  BY DEF Does
<1>4. Ordered(q, Ended')
  <2>1. Ended' \in BOOLEAN
    BY DEF Ended
  <2> QED BY <2>1, OrderedFour
<1> HIDE DEF q
<1>5. \A t \in Threads : Ordered(stack[t], Ended)'
  BY <1>1, <1>3, <1>4, KeepsOrder
<1>6. \A ops : /\ One(o \in ops) \in Nat /\ One(x \in ops) \in Nat
               /\ One(y \in ops) \in Nat /\ One(z \in ops) \in Nat /\ One(w \in ops) \in Nat
  BY DEF One
<1>7. \A ops : Frames(ops, Root)' =
               Frames(ops, Root) - One(o \in ops) + One(w \in ops) + One(z \in ops)
                 + One(y \in ops) + One(x \in ops)
  BY <1>2 DEF Does
<1>8. ASSUME NEW ops, "-" \notin ops
      PROVE  Frames(ops, Root)' = Frames(ops, Root) - One(o \in ops) + One(x \in ops)
                                    + One(y \in ops) + One(z \in ops) + One(w \in ops)
  <2>1. One("-" \in ops) = 0 /\ Frames(ops, Root) \in Nat
    BY <1>1, <1>8 DEF One
  <2> QED BY <1>6, <1>7, <2>1
<1> QED BY <1>1, <1>2, <1>5, <1>8 DEF Moved

\* A thread that had nothing to do begins with one frame,
LEMMA Comes1 ==
  ASSUME WorkInv, Ended => Ended', NEW th \in Threads, stack[th] = << >>,
         NEW x \in ConnectOps, NEW f, Does(f, x),
         stack' = [stack EXCEPT ![th] = <<f>>], ~Needy(x, Ended')
  PROVE  Moved("-", x, "-", "-", "-")
<1>1. /\ stack \in Stacks /\ Finite(stack)
      /\ \A t \in Threads : Ordered(stack[t], Ended)
  BY DEF WorkInv, ConnectInv, SocketInv, SocketTypes, LifeInv
<1>2. /\ stack' \in Stacks /\ Finite(stack')
      /\ \A ops, a : Frames(ops, a)' = Frames(ops, a) + One(IsOf(f, ops, a))
  BY <1>1, Begins1 DEF Does
<1>3. \A ops : Frames(ops, Root) \in Nat
  BY <1>1, FramesType
<1>4. Ordered(<<f>>, Ended')
  <2>1. Ended' \in BOOLEAN
    BY DEF Ended
  <2> QED BY <2>1, OrderedOne
<1>5. \A t \in Threads : Ordered(stack[t], Ended)'
  <2>1. \A t \in Threads : Ordered(stack[t], Ended')
    <3>1. Ended \in BOOLEAN /\ Ended' \in BOOLEAN
      <4>1. canceled[Root] \in BOOLEAN
        BY DEF WorkInv, ConnectInv, SocketInv, SocketTypes, Asyncs
      <4> QED BY <4>1 DEF Ended
    <3> QED BY <1>1, <3>1, OrderedMore
  <2>2. \A t \in Threads \ {th} : stack'[t] = stack[t]
    BY <1>1 DEF Stacks
  <2>3. stack'[th] = <<f>>
    BY <1>1 DEF Stacks
  <2> QED BY <1>4, <2>1, <2>2, <2>3
<1>6. \A ops : One(x \in ops) \in Nat
  BY DEF One
<1>7. \A ops : Frames(ops, Root)' = Frames(ops, Root) + One(x \in ops)
  BY <1>2 DEF Does, IsOf
<1>8. ASSUME NEW ops, "-" \notin ops
      PROVE  Frames(ops, Root)' = Frames(ops, Root) - One("-" \in ops) + One(x \in ops)
                                    + One("-" \in ops) + One("-" \in ops) + One("-" \in ops)
  <2>1. One("-" \in ops) = 0 /\ Frames(ops, Root) \in Nat
    BY <1>3, <1>8 DEF One
  <2> QED BY <1>6, <1>7, <2>1
<1> QED BY <1>2, <1>3, <1>5, <1>8 DEF Moved

\* or with two.
LEMMA Comes2 ==
  ASSUME WorkInv, Ended => Ended', NEW th \in Threads, stack[th] = << >>,
         NEW x \in ConnectOps, NEW f, Does(f, x),
         NEW y \in ConnectOps, NEW g, Does(g, y),
         stack' = [stack EXCEPT ![th] = <<f, g>>], Needy(x, Ended') => y = "release",
         ~Needy(y, Ended')
  PROVE  Moved("-", x, y, "-", "-")
<1>1. /\ stack \in Stacks /\ Finite(stack)
      /\ \A t \in Threads : Ordered(stack[t], Ended)
  BY DEF WorkInv, ConnectInv, SocketInv, SocketTypes, LifeInv
<1>2. /\ stack' \in Stacks /\ Finite(stack')
      /\ \A ops, a : Frames(ops, a)' = Frames(ops, a) + One(IsOf(g, ops, a)) + One(IsOf(f, ops, a))
  BY <1>1, Begins2 DEF Does
<1>3. \A ops : Frames(ops, Root) \in Nat
  BY <1>1, FramesType
<1>4. Ordered(<<f, g>>, Ended')
  <2>1. Ended' \in BOOLEAN
    BY DEF Ended
  <2> QED BY <2>1, OrderedTwo
<1>5. \A t \in Threads : Ordered(stack[t], Ended)'
  <2>1. \A t \in Threads : Ordered(stack[t], Ended')
    <3>1. Ended \in BOOLEAN /\ Ended' \in BOOLEAN
      <4>1. canceled[Root] \in BOOLEAN
        BY DEF WorkInv, ConnectInv, SocketInv, SocketTypes, Asyncs
      <4> QED BY <4>1 DEF Ended
    <3> QED BY <1>1, <3>1, OrderedMore
  <2>2. \A t \in Threads \ {th} : stack'[t] = stack[t]
    BY <1>1 DEF Stacks
  <2>3. stack'[th] = <<f, g>>
    BY <1>1 DEF Stacks
  <2> QED BY <1>4, <2>1, <2>2, <2>3
<1>6. \A ops : One(x \in ops) \in Nat /\ One(y \in ops) \in Nat
  BY DEF One
<1>7. \A ops : Frames(ops, Root)' = Frames(ops, Root) + One(y \in ops) + One(x \in ops)
  BY <1>2 DEF Does, IsOf
<1>8. ASSUME NEW ops, "-" \notin ops
      PROVE  Frames(ops, Root)' = Frames(ops, Root) - One("-" \in ops) + One(x \in ops)
                                    + One(y \in ops) + One("-" \in ops) + One("-" \in ops)
  <2>1. One("-" \in ops) = 0 /\ Frames(ops, Root) \in Nat
    BY <1>3, <1>8 DEF One
  <2> QED BY <1>6, <1>7, <2>1
<1> QED BY <1>2, <1>3, <1>5, <1>8 DEF Moved

-----------------------------------------------------------------------------
(* Before and after the operation is known *)

LEMMA FirstCalling ==
  ASSUME NEW op, stack = FirstCalls(op), NEW th \in Threads, stack[th] # << >>
  PROVE  th = Issuer /\ stack[th] = <<Frame(op, Root), Frame("start", Root)>>
BY DEF FirstCalls

\* Who executes something else knows an operation that is there.
LEMMA SettledAt ==
  ASSUME WorkInv, NEW th \in Threads, NEW o, o \notin Births, At(th, o, Root)
  PROVE  Settled
<1>1. CASE Fresh
  <2>1. PICK op \in Births : stack = FirstCalls(op)
    BY <1>1 DEF Fresh
  <2>2. stack[th] = <<Frame(op, Root), Frame("start", Root)>> /\ Head(stack[th]).op = o
    BY <2>1, AtWork, FirstCalling
  <2>3. Head(stack[th]) = Frame(op, Root)
    BY <2>2
  <2>4. o = op
    BY <2>2, <2>3 DEF Frame
  <2> QED BY <2>1, <2>4
<1> QED BY <1>1 DEF WorkInv, LifeInv

LEMMA FreshAt ==
  ASSUME WorkInv, NEW th \in Threads, NEW o \in Births, At(th, o, Root)
  PROVE  /\ Fresh /\ th = Issuer /\ stack = FirstCalls(o)
         /\ life[Root] = IF o = "new" THEN "none" ELSE "live"
<1>1. Frames(Births, Root) >= 1 /\ Frames(Births, Root) \in Nat /\ Head(stack[th]).op = o
      /\ stack[th] # << >>
  BY AtWork
<1>2. Fresh
  BY <1>1 DEF WorkInv, LifeInv, Settled
<1>3. PICK op \in Births : /\ stack = FirstCalls(op)
                           /\ life[Root] = IF op = "new" THEN "none" ELSE "live"
  BY <1>2 DEF Fresh
<1>4. th = Issuer /\ stack[th] = <<Frame(op, Root), Frame("start", Root)>>
  BY <1>1, <1>3, FirstCalling
<1>5. o = op
  BY <1>1, <1>4 DEF Frame
<1> QED BY <1>2, <1>3, <1>4, <1>5

\* The issuer has nothing else to do then.
LEMMA FreshFrames ==
  ASSUME WorkInv, NEW op, stack = FirstCalls(op), NEW ops, op \notin ops, "start" \notin ops
  PROVE  Frames(ops, Root) = 0
<1>1. stack \in Stacks /\ Finite(stack)
  BY DEF WorkInv, ConnectInv, SocketInv, SocketTypes
<1>2. ASSUME NEW th \in Threads, NEW k \in DOMAIN stack[th]
      PROVE  ~IsOf(stack[th][k], ops, Root)
  <2>1. stack[th] # << >>
    BY <1>2
  <2>2. stack[th] = <<Frame(op, Root), Frame("start", Root)>>
    BY <2>1, FirstCalling
  <2>3. stack[th][k] \in {Frame(op, Root), Frame("start", Root)}
    BY <2>2
  <2> QED BY <2>3 DEF Frame, IsOf
<1> QED BY <1>1, <1>2, NoFrames

\* Numbers of frames are numbers.
LEMMA CountsAreNumbers ==
  ASSUME WorkInv
  PROVE  \A ops : Frames(ops, Root) \in Nat
BY FramesType DEF WorkInv, ConnectInv, SocketInv, SocketTypes

LEMMA CountsStayNumbers ==
  ASSUME ConnectInv'
  PROVE  \A ops : Frames(ops, Root)' \in Nat
<1>1. stack' \in Stacks /\ Finite(stack')
  BY DEF ConnectInv, SocketInv, SocketTypes
<1>2. \A ops : Cardinality(Slots(stack', ops, Root)) \in Nat
  BY <1>1, SlotsFinite
<1> QED BY <1>2 DEF Frames

-----------------------------------------------------------------------------
(* Steps towards the callback *)

\* Only what is to end the operation moves on, or it gets lost.
MovesOn ==
  /\ UNCHANGED <<life, ref, lock, called, timer, completed, missed, early, canceled, asked>>
  /\ \A th \in Threads : Ordered(stack[th], Ended)'
  /\ \A ops \in {Holding, InMonitor, {"callback"}, {"destroy"}, {"cancel"}, Births} :
       Frames(ops, Root)' = Frames(ops, Root)
  /\ Tokens' <= Tokens

LEMMA MovesOnKeeps ==
  ASSUME WorkInv, ConnectInv', Settled, MovesOn
  PROVE  WorkInv'
<1>1. /\ UNCHANGED <<life, ref, lock, called, timer, completed, missed, early, canceled, asked>>
      /\ \A ops \in {Holding, InMonitor, {"callback"}, {"destroy"}, {"cancel"}, Births} :
           Frames(ops, Root)' = Frames(ops, Root)
  BY DEF MovesOn
<1>2. LifeTypes'
  BY <1>1 DEF WorkInv, LifeInv, LifeTypes
<1>3. Settled'
  BY <1>1 DEF Settled
<1>4. EndsByItself'
  <2>1. \A ops : Frames(ops, Root) \in Nat /\ Frames(ops, Root)' \in Nat
    BY CountsAreNumbers, CountsStayNumbers
  <2>2. Tokens \in Nat /\ Tokens' \in Nat
    BY <2>1 DEF Tokens, One
  <2>3. Tokens' <= Tokens
    BY DEF MovesOn
  <2> QED BY <1>1, <2>2, <2>3 DEF WorkInv, LifeInv, CountsExact, EndsByItself
<1>5. DepthExact' /\ RefExact'
  BY <1>1 DEF WorkInv, LifeInv, CountsExact, DepthExact, RefExact
<1>6. CallsBack' /\ DestroyedLast' /\ AskedFirst'
  BY <1>1 DEF WorkInv, LifeInv, CountsExact, CallsBack, DestroyedLast, AskedFirst
<1> QED BY <1>2, <1>3, <1>4, <1>5, <1>6 DEF WorkInv, LifeInv, CountsExact, MovesOn

\* Frames of these kinds are as many as before if one executes o and then, instead,
\* x, y, z and w are to be executed.
Even(o, x, y, z, w) ==
  \A ops \in {Holding, InMonitor, {"callback"}, {"destroy"}, {"cancel"}, Births} :
    /\ "-" \notin ops
    /\ One(o \in ops) = One(x \in ops) + One(y \in ops) + One(z \in ops) + One(w \in ops)

LEMMA Passes ==
  ASSUME WorkInv, ConnectInv', Settled, NEW o, NEW x, NEW y, NEW z, NEW w,
         Moved(o, x, y, z, w), Even(o, x, y, z, w), Tokens' <= Tokens,
         UNCHANGED <<life, ref, lock, called, timer, completed, missed, early, canceled, asked>>
  PROVE  WorkInv'
<1>1. ASSUME NEW ops \in {Holding, InMonitor, {"callback"}, {"destroy"}, {"cancel"}, Births}
      PROVE  Frames(ops, Root)' = Frames(ops, Root)
  <2>1. /\ Frames(ops, Root) \in Nat
        /\ Frames(ops, Root)' = Frames(ops, Root) - One(o \in ops) + One(x \in ops) + One(y \in ops)
                                  + One(z \in ops) + One(w \in ops)
    BY <1>1 DEF Moved, Even
  <2>2. /\ One(o \in ops) = One(x \in ops) + One(y \in ops) + One(z \in ops) + One(w \in ops)
        /\ One(x \in ops) \in Nat /\ One(y \in ops) \in Nat /\ One(z \in ops) \in Nat
        /\ One(w \in ops) \in Nat
    BY <1>1 DEF Even, One
  <2> QED BY <2>1, <2>2
<1>2. MovesOn
  BY <1>1 DEF MovesOn, Moved
<1> QED BY <1>2, MovesOnKeeps

\* The frames that are to end the operation.
LEMMA MovingFrames ==
  ASSUME NEW o, NEW x, NEW y, NEW z, NEW w, Moved(o, x, y, z, w)
  PROVE  /\ Frames(Moving, Root) \in Nat
         /\ Frames(Moving, Root)' = Frames(Moving, Root) - One(o \in Moving) + One(x \in Moving)
                         + One(y \in Moving) + One(z \in Moving) + One(w \in Moving)
BY DEF Moved, Moving

\* The issuer makes its call.
LEMMA StartKeepsLife ==
  ASSUME WorkInv, ConnectInv', Ops \subseteq {"connect"},
         NEW th \in Threads, Start(th, Root), UNCHANGED socket
  PROVE  WorkInv'
<1>1. /\ At(th, "start", Root) /\ Call(th, <<Frame("connect", Root)>>)
      /\ UNCHANGED <<life, ref, lock, called, timer, completed, missed, early, canceled, asked>>
      /\ UNCHANGED <<resolving, io>>
  BY DEF Start, operation, rest, history, request, socket
<1>2. Settled /\ (Ended => Ended')
  BY <1>1, SettledAt DEF Births, Ended
<1>3. WorkInv'
  <2>1. Moved("start", "connect", "-", "-", "-")
    <3>1. Does(Frame("connect", Root), "connect")
      BY Doings DEF Operations, Outside
    <3>2. {"connect"} \subseteq ConnectOps
      BY DEF ConnectOps
    <3>3. \A op \in {"connect"} : ~Needy(op, Ended')
      BY DEF Needy
    <3> QED BY <1>1, <1>2, <3>1, <3>2, <3>3, Goes1
  <2>2. Even("start", "connect", "-", "-", "-")
    BY DEF Even, Holding, InMonitor, Births, One
  <2>3. Tokens' <= Tokens
    BY <1>1, <1>2, <2>1, MovingFrames DEF Tokens, Moving, One
  <2> QED BY <1>1, <1>2, <2>1, <2>2, <2>3, Passes
<1> QED BY <1>3

\* Phase one fails,
LEMMA Phase1FailedKeepsLife ==
  ASSUME WorkInv, ConnectInv', NEW th \in Threads, Phase1Failed(th)
  PROVE  WorkInv'
<1>1. /\ At(th, "failed", Root) /\ Call(th, <<Frame("notify", Root)>>)
      /\ UNCHANGED <<life, ref, lock, called, timer, completed, missed, early, canceled, asked>>
      /\ UNCHANGED <<resolving, io>>
  BY DEF Phase1Failed, operation, rest, history, request, socket
<1>2. Settled /\ (Ended => Ended')
  BY <1>1, SettledAt DEF Births, Ended
<1>3. WorkInv'
  <2>1. Moved("failed", "notify", "-", "-", "-")
    <3>1. Does(Frame("notify", Root), "notify")
      BY Doings DEF Operations, Outside
    <3>2. {"notify"} \subseteq ConnectOps
      BY DEF ConnectOps
    <3>3. \A op \in {"notify"} : ~Needy(op, Ended')
      BY DEF Needy
    <3> QED BY <1>1, <1>2, <3>1, <3>2, <3>3, Goes1
  <2>2. Even("failed", "notify", "-", "-", "-")
    BY DEF Even, Holding, InMonitor, Births, One
  <2>3. Tokens' <= Tokens
    BY <1>1, <1>2, <2>1, MovingFrames DEF Tokens, Moving, One
  <2> QED BY <1>1, <1>2, <2>1, <2>2, <2>3, Passes
<1> QED BY <1>3

\* a socket that nobody waits for is closed,
LEMMA CloseKeepsLife ==
  ASSUME WorkInv, ConnectInv', NEW th \in Threads, Close(th)
  PROVE  WorkInv'
<1>1. /\ At(th, "close", Root) /\ Call(th, << >>)
      /\ UNCHANGED <<life, ref, lock, called, timer, completed, missed, early, canceled, asked>>
      /\ UNCHANGED <<resolving, io>>
  BY DEF Close, Return, operation, rest, history, request, socket
<1>2. Settled /\ (Ended => Ended')
  BY <1>1, SettledAt DEF Births, Ended
<1>3. WorkInv'
  <2>1. Moved("close", "-", "-", "-", "-")
    <3> QED BY <1>1, <1>2, Goes0
  <2>2. Even("close", "-", "-", "-", "-")
    BY DEF Even, Holding, InMonitor, Births, One
  <2>3. Tokens' <= Tokens
    BY <1>1, <1>2, <2>1, MovingFrames DEF Tokens, Moving, One
  <2> QED BY <1>1, <1>2, <2>1, <2>2, <2>3, Passes
<1> QED BY <1>3

\* and phase two is over.
LEMMA Phase2KeepsLife ==
  ASSUME WorkInv, ConnectInv', NEW th \in Threads, Phase2(th)
  PROVE  WorkInv'
<1>1. /\ At(th, "phase2", Root) /\ Call(th, <<Frame("notify", Root)>>)
      /\ UNCHANGED <<life, ref, lock, called, timer, completed, missed, early, canceled, asked>>
      /\ UNCHANGED <<resolving, io>>
  BY DEF Phase2, operation, rest, history, request, socket
<1>2. Settled /\ (Ended => Ended')
  BY <1>1, SettledAt DEF Births, Ended
<1>3. WorkInv'
  <2>1. Moved("phase2", "notify", "-", "-", "-")
    <3>1. Does(Frame("notify", Root), "notify")
      BY Doings DEF Operations, Outside
    <3>2. {"notify"} \subseteq ConnectOps
      BY DEF ConnectOps
    <3>3. \A op \in {"notify"} : ~Needy(op, Ended')
      BY DEF Needy
    <3> QED BY <1>1, <1>2, <3>1, <3>2, <3>3, Goes1
  <2>2. Even("phase2", "notify", "-", "-", "-")
    BY DEF Even, Holding, InMonitor, Births, One
  <2>3. Tokens' <= Tokens
    BY <1>1, <1>2, <2>1, MovingFrames DEF Tokens, Moving, One
  <2> QED BY <1>1, <1>2, <2>1, <2>2, <2>3, Passes
<1> QED BY <1>3

\* Phase one goes on, or fails.
LEMMA Phase1KeepsLife ==
  ASSUME WorkInv, ConnectInv', NEW th \in Threads, Phase1(th)
  PROVE  WorkInv'
<1>1. /\ At(th, "phase1", Root)
      /\ \E next \in {"phase1_enter", "notify"} : Call(th, <<Frame(next, Root)>>)
      /\ UNCHANGED <<life, ref, lock, called, timer, completed, missed, early, canceled, asked>>
      /\ UNCHANGED <<resolving, io>>
  BY DEF Phase1, operation, rest, history, request, socket
<1>2. Settled /\ (Ended => Ended')
  BY <1>1, SettledAt DEF Births, Ended
<1>3. PICK next \in {"phase1_enter", "notify"} : Call(th, <<Frame(next, Root)>>)
  BY <1>1
<1>4. WorkInv'
  <2>1. Moved("phase1", next, "-", "-", "-")
    <3>1. Does(Frame(next, Root), next)
      BY <1>3, Doings DEF Operations, Outside
    <3>2. {next} \subseteq ConnectOps
      BY <1>3 DEF ConnectOps
    <3>3. \A op \in {next} : ~Needy(op, Ended')
      BY <1>3 DEF Needy
    <3> QED BY <1>1, <1>2, <1>3, <3>1, <3>2, <3>3, Goes1
  <2>2. Even("phase1", next, "-", "-", "-")
    BY <1>3 DEF Even, Holding, InMonitor, Births, One
  <2>3. Tokens' <= Tokens
    BY <1>1, <1>2, <1>3, <2>1, <1>3, MovingFrames DEF Tokens, Moving, One
  <2> QED BY <1>1, <1>2, <1>3, <2>1, <2>2, <2>3, Passes
<1> QED BY <1>4

\* The name is being resolved, or that was done at once.
LEMMA ResolveKeepsLife ==
  ASSUME WorkInv, ConnectInv', NEW th \in Threads, Resolve(th)
  PROVE  WorkInv'
<1>1. /\ At(th, "resolve", Root)
      /\ UNCHANGED <<life, ref, lock, called, timer, completed, missed, early, canceled, asked>>
      /\ UNCHANGED io
  BY DEF Resolve, operation, rest, history, request, socket
<1>2. \/ resolving' = "pending" /\ Call(th, <<Frame("unlock", Root), Frame("release", Root)>>)
      \/ \E result \in {"phase1", "failed"} :
           /\ resolving' = "done"
           /\ Call(th, <<Frame("unlock", Root), Frame("release", Root), Frame(result, Root)>>)
  BY Triples DEF Resolve, AsyncLeave
<1>3. Settled /\ (Ended => Ended')
  BY <1>1, SettledAt DEF Births, Ended
<1>4. CASE resolving' = "pending" /\ Call(th, <<Frame("unlock", Root), Frame("release", Root)>>)
  <2>1. Moved("resolve", "unlock", "release", "-", "-")
    <3>1. /\ Does(Frame("unlock", Root), "unlock")
          /\ Does(Frame("release", Root), "release")
      BY Doings DEF Operations, Outside
    <3>2. {"unlock", "release"} \subseteq ConnectOps
      BY DEF ConnectOps
    <3>3. \A op \in {"release"} : ~Needy(op, Ended')
      BY DEF Needy
    <3> QED BY <1>1, <1>3, <1>4, <3>1, <3>2, <3>3, Goes2
  <2>2. Even("resolve", "unlock", "release", "-", "-")
    BY DEF Even, Holding, InMonitor, Births, One
  <2>3. Tokens' <= Tokens
    BY <1>1, <1>3, <1>4, <2>1, MovingFrames DEF Tokens, Moving, One
  <2> QED BY <1>1, <1>3, <1>4, <2>1, <2>2, <2>3, Passes
<1>5. ASSUME NEW result \in {"phase1", "failed"}, resolving' = "done",
             Call(th, <<Frame("unlock", Root), Frame("release", Root), Frame(result, Root)>>)
      PROVE  WorkInv'
  <2>1. Moved("resolve", "unlock", "release", result, "-")
    <3>1. /\ Does(Frame("unlock", Root), "unlock")
          /\ Does(Frame("release", Root), "release")
          /\ Does(Frame(result, Root), result)
      BY Doings DEF Operations, Outside
    <3>2. {"unlock", "release", result} \subseteq ConnectOps
      BY DEF ConnectOps
    <3>3. \A op \in {"release", result} : ~Needy(op, Ended')
      BY DEF Needy
    <3> QED BY <1>1, <1>3, <1>5, <3>1, <3>2, <3>3, Goes3
  <2>2. Even("resolve", "unlock", "release", result, "-")
    BY DEF Even, Holding, InMonitor, Births, One
  <2>3. Tokens' <= Tokens
    BY <1>1, <1>3, <1>5, <2>1, MovingFrames DEF Tokens, Moving, One
  <2> QED BY <1>1, <1>3, <1>5, <2>1, <2>2, <2>3, Passes
<1> QED BY <1>2, <1>4, <1>5

\* ConnectEx starts, or it fails.
LEMMA ConnectExKeepsLife ==
  ASSUME WorkInv, ConnectInv', NEW th \in Threads, ConnectEx(th)
  PROVE  WorkInv'
<1>1. /\ At(th, "connectex", Root)
      /\ UNCHANGED <<life, ref, lock, called, timer, completed, missed, early, canceled, asked>>
      /\ UNCHANGED resolving
  BY DEF ConnectEx, operation, rest, history, request, socket
<1>2. \/ /\ io' = [io EXCEPT ![Root] = "pending"]
         /\ Call(th, <<Frame("unlock", Root), Frame("release", Root)>>)
      \/ /\ io' = io
         /\ Call(th, <<Frame("unlock", Root), Frame("release", Root), Frame("close", Root),
                       Frame("notify", Root)>>)
  BY Quadruples DEF ConnectEx, AsyncLeave
<1>3. Settled /\ (Ended => Ended')
  BY <1>1, SettledAt DEF Births, Ended
<1>4. [io EXCEPT ![Root] = "pending"][Root] = "pending"
  BY DEF WorkInv, ConnectInv, SocketInv, SocketTypes, Asyncs
<1>5. CASE /\ io' = [io EXCEPT ![Root] = "pending"]
           /\ Call(th, <<Frame("unlock", Root), Frame("release", Root)>>)
  <2>1. Moved("connectex", "unlock", "release", "-", "-")
    <3>1. /\ Does(Frame("unlock", Root), "unlock")
          /\ Does(Frame("release", Root), "release")
      BY Doings DEF Operations, Outside
    <3>2. {"unlock", "release"} \subseteq ConnectOps
      BY DEF ConnectOps
    <3>3. \A op \in {"release"} : ~Needy(op, Ended')
      BY DEF Needy
    <3> QED BY <1>1, <1>3, <1>5, <3>1, <3>2, <3>3, Goes2
  <2>2. Even("connectex", "unlock", "release", "-", "-")
    BY DEF Even, Holding, InMonitor, Births, One
  <2>3. Tokens' <= Tokens
    BY <1>1, <1>3, <1>4, <1>5, <2>1, MovingFrames DEF Tokens, Moving, One
  <2> QED BY <1>1, <1>3, <1>5, <2>1, <2>2, <2>3, Passes
<1>6. CASE /\ io' = io
           /\ Call(th, <<Frame("unlock", Root), Frame("release", Root),
                         Frame("close", Root), Frame("notify", Root)>>)
  <2>1. Moved("connectex", "unlock", "release", "close", "notify")
    <3>1. /\ Does(Frame("unlock", Root), "unlock")
          /\ Does(Frame("release", Root), "release")
          /\ Does(Frame("close", Root), "close")
          /\ Does(Frame("notify", Root), "notify")
      BY Doings DEF Operations, Outside
    <3>2. {"unlock", "release", "close", "notify"} \subseteq ConnectOps
      BY DEF ConnectOps
    <3>3. \A op \in {"release", "close", "notify"} : ~Needy(op, Ended')
      BY DEF Needy
    <3> QED BY <1>1, <1>3, <1>6, <3>1, <3>2, <3>3, Goes4
  <2>2. Even("connectex", "unlock", "release", "close", "notify")
    BY DEF Even, Holding, InMonitor, Births, One
  <2>3. Tokens' <= Tokens
    BY <1>1, <1>3, <1>6, <2>1, MovingFrames DEF Tokens, Moving, One
  <2> QED BY <1>1, <1>3, <1>6, <2>1, <2>2, <2>3, Passes
<1> QED BY <1>2, <1>5, <1>6

\* The resolver reports,
LEMMA ResolutionEndsKeepsLife ==
  ASSUME WorkInv, ConnectInv', ResolutionEnds
  PROVE  WorkInv'
<1>1. /\ stack[Resolver] = << >> /\ Resolver \in Threads
      /\ resolving = "pending" /\ resolving' = "done" /\ io' = io
      /\ UNCHANGED <<life, ref, lock, called, timer, completed, missed, early, canceled, asked>>
  BY DEF ResolutionEnds, Threads, operation, rest, history, request, socket
<1>2. PICK result \in {"phase1", "failed"} :
        stack' = [stack EXCEPT ![Resolver] = <<Frame(result, Root)>>]
  BY DEF ResolutionEnds
<1>3. Settled /\ (Ended => Ended')
  BY <1>1 DEF Ended, WorkInv, LifeInv, Fresh
<1>4. WorkInv'
  <2>1. Moved("-", result, "-", "-", "-")
    <3>1. Does(Frame(result, Root), result)
      BY Doings DEF Operations, Outside
    <3>2. {result} \subseteq ConnectOps
      BY DEF ConnectOps
    <3>3. \A op \in {result} : ~Needy(op, Ended')
      BY DEF Needy
    <3> QED BY <1>1, <1>2, <1>3, <3>1, <3>2, <3>3, Comes1
  <2>2. Even("-", result, "-", "-", "-")
    BY DEF Even, Holding, InMonitor, Births, One
  <2>3. Tokens' <= Tokens
    BY <1>1, <1>2, <1>3, <2>1, MovingFrames DEF Tokens, Moving, One
  <2> QED BY <1>1, <1>2, <1>3, <2>1, <2>2, <2>3, Passes
<1> QED BY <1>4

\* and the packet of ConnectEx is fetched.
LEMMA DequeueConnectKeepsLife ==
  ASSUME WorkInv, ConnectInv', NEW th \in Workers, DequeueConnect(th)
  PROVE  WorkInv'
<1>1. /\ stack[th] = << >> /\ th \in Threads
      /\ io[Root] = "queued" /\ io'[Root] = "done" /\ resolving' = resolving
      /\ UNCHANGED <<life, ref, lock, called, timer, completed, missed, early, canceled, asked>>
  BY DEF DequeueConnect, Threads, WorkInv, ConnectInv, SocketInv, SocketTypes, Asyncs, operation,
       rest, history, request, socket
<1>2. PICK result \in {"phase2", "notify"} :
        stack' = [stack EXCEPT ![th] = <<Frame(result, Root)>>]
  BY DEF DequeueConnect
<1>3. Settled /\ (Ended => Ended')
  BY <1>1 DEF Ended, WorkInv, LifeInv, Fresh
<1>4. WorkInv'
  <2>1. Moved("-", result, "-", "-", "-")
    <3>1. Does(Frame(result, Root), result)
      BY Doings DEF Operations, Outside
    <3>2. {result} \subseteq ConnectOps
      BY DEF ConnectOps
    <3>3. \A op \in {result} : ~Needy(op, Ended')
      BY DEF Needy
    <3> QED BY <1>1, <1>2, <1>3, <3>1, <3>2, <3>3, Comes1
  <2>2. Even("-", result, "-", "-", "-")
    BY DEF Even, Holding, InMonitor, Births, One
  <2>3. Tokens' <= Tokens
    BY <1>1, <1>2, <1>3, <2>1, MovingFrames DEF Tokens, Moving, One
  <2> QED BY <1>1, <1>2, <1>3, <2>1, <2>2, <2>3, Passes
<1> QED BY <1>4

\* The call ends; or a thread comes too late.
LEMMA LateKeepsLife ==
  ASSUME WorkInv, ConnectInv', UNCHANGED socket,
         IoEnds(Root) \/ \E th \in Threads : UseAfterFree(th)
  PROVE  WorkInv'
<1>1. /\ stack' = stack
      /\ UNCHANGED <<life, ref, lock, called, timer, completed, missed, early, canceled, asked>>
      /\ UNCHANGED resolving
      /\ io'[Root] = io[Root] \/ (io[Root] = "pending" /\ io'[Root] = "queued")
  BY DEF IoEnds, UseAfterFree, WorkInv, ConnectInv, SocketInv, SocketTypes, Asyncs, operation,
       rest, history, request, socket
<1>2. \A ops : Frames(ops, Root)' = Frames(ops, Root)
  BY <1>1 DEF Frames
<1>3. Settled
  <2>1. CASE IoEnds(Root)
    BY <2>1 DEF WorkInv, LifeInv, Fresh, IoEnds
  <2>2. ASSUME NEW th \in Threads, UseAfterFree(th)
        PROVE  ~Fresh
    <3>1. SUFFICES ASSUME Fresh
                   PROVE  FALSE
      OBVIOUS
    <3>2. stack[th] # << >> /\ \E u \in Uses(Head(stack[th])) : life[u] # "live"
      BY <2>2 DEF UseAfterFree
    <3>3. PICK op \in Births : /\ stack = FirstCalls(op)
                               /\ life[Root] = IF op = "new" THEN "none" ELSE "live"
      BY <3>1 DEF Fresh
    <3>4. Head(stack[th]) = Frame(op, Root)
      BY <3>2, <3>3, FirstCalling
    <3>5. Uses(Frame(op, Root)) = IF op = "new" THEN {} ELSE {Root}
      BY AsyncAssumption DEF Uses, Frame, Births, Outside, Parent
    <3> QED BY <3>2, <3>3, <3>4, <3>5
  <2> QED BY <2>1, <2>2 DEF WorkInv, LifeInv
<1>4. MovesOn
  <2>1. Tokens' <= Tokens
    BY <1>1, <1>2, CountsAreNumbers DEF Tokens, One
  <2>2. \A th \in Threads : Ordered(stack[th], Ended)'
    BY <1>1 DEF WorkInv, LifeInv, Ended
  <2> QED BY <1>1, <1>2, <2>1, <2>2 DEF MovesOn
<1> QED BY <1>3, <1>4, MovesOnKeeps

-----------------------------------------------------------------------------
(* Steps that change what is counted *)

\* The counts and the types are left to show.
LEMMA Proceeds ==
  ASSUME WorkInv, ConnectInv', Settled, NEW o, NEW x, NEW y, NEW z, NEW w,
         Moved(o, x, y, z, w), {o, x, y, z, w} \cap Births = {},
         LifeTypes', life'[Root] # "none", CountsExact'
  PROVE  WorkInv'
<1>1. Frames(Births, Root)' = 0
  <2>1. /\ "-" \notin Births /\ One(o \in Births) = 0 /\ One(x \in Births) = 0
        /\ One(y \in Births) = 0 /\ One(z \in Births) = 0 /\ One(w \in Births) = 0
    BY DEF Births, One
  <2>2. Frames(Births, Root)' = Frames(Births, Root) - One(o \in Births) + One(x \in Births)
                          + One(y \in Births) + One(z \in Births) + One(w \in Births)
    BY <2>1 DEF Moved
  <2>3. Frames(Births, Root) = 0
    BY DEF Settled
  <2> QED BY <2>1, <2>2, <2>3
<1> QED BY <1>1 DEF WorkInv, LifeInv, Settled, Moved

\* A thread that calls back holds a reference, besides those that others give up.
LEMMA CallerHolds ==
  ASSUME WorkInv, NEW th \in Threads, At(th, "release", Root), Frames({"callback"}, Root) # 0
  PROVE  Frames(Holding, Root) >= 2
<1>1. /\ stack \in Stacks /\ Finite(stack) /\ stack[th] # << >>
      /\ Head(stack[th]).op = "release" /\ Head(stack[th]).async = Root
  BY AtWork DEF At
<1>2. PICK t \in Threads : \E k \in DOMAIN stack[t] : IsOf(stack[t][k], {"callback"}, Root)
  BY <1>1, NoFrames
<1> PICK k \in DOMAIN stack[t] : IsOf(stack[t][k], {"callback"}, Root)
  BY <1>2
<1>3. k < Len(stack[t]) /\ stack[t][k + 1].op = "release" /\ stack[t][k + 1].async = Root
  <2>1. Ordered(stack[t], Ended) /\ stack[t][k].op = "callback"
    BY <1>2 DEF WorkInv, LifeInv, IsOf
  <2>2. k < Len(stack[t]) /\ stack[t][k + 1].op = "release"
    BY <2>1 DEF Ordered
  <2>3. k + 1 \in DOMAIN stack[t]
    BY <1>1, <2>2 DEF Stacks
  <2> QED BY <2>1, <2>2, <2>3 DEF Ordered
<1>4. /\ stack[th] \in Seq(FrameType) /\ stack[t] \in Seq(FrameType)
      /\ Len(stack[th]) \in Nat /\ Len(stack[th]) >= 1 /\ stack[th][1] = Head(stack[th])
      /\ Len(stack[t]) \in Nat /\ k \in Nat /\ k >= 1
  BY <1>1, <1>2 DEF Stacks
<1> DEFINE x == <<th, Len(stack[th])>>
           y == <<t, Len(stack[t]) - k>>
           S == Slots(stack, Holding, Root)
<1>5. x \in S
  <2>1. Len(stack[th]) \in 1..Len(stack[th]) /\ Len(stack[th]) + 1 - Len(stack[th]) = 1
    BY <1>4
  <2>2. IsOf(stack[th][1], Holding, Root)
    BY <1>1, <1>4 DEF IsOf, Holding
  <2> QED BY <1>1, <2>1, <2>2, InSlots
<1>6. y \in S
  <2>1. Len(stack[t]) - k \in 1..Len(stack[t]) /\ Len(stack[t]) + 1 - (Len(stack[t]) - k) = k + 1
    BY <1>3, <1>4
  <2>2. IsOf(stack[t][k + 1], Holding, Root)
    BY <1>3 DEF IsOf, Holding
  <2> QED BY <1>1, <2>1, <2>2, InSlots
<1>7. x # y
  <2>1. Len(stack[t]) - k # Len(stack[t])
    BY <1>4
  <2> QED BY <2>1
<1>8. IsFiniteSet(S) /\ Frames(Holding, Root) = Cardinality(S)
  BY <1>1, SlotsFinite DEF Frames
<1> HIDE DEF x, y, S
<1>9. IsFiniteSet({x}) /\ Cardinality({x}) = 1
  BY FS_Singleton
<1>10. Cardinality({x} \union {y}) = 2
  <2>1. y \notin {x}
    BY <1>7
  <2>2. Cardinality({x} \union {y}) = Cardinality({x}) + 1
    BY <1>9, <2>1, FS_AddElement
  <2> QED BY <1>9, <2>2
<1>11. {x} \union {y} \in SUBSET S
  BY <1>5, <1>6
<1>12. Cardinality({x} \union {y}) <= Cardinality(S)
  BY <1>8, <1>11, FS_Subset
<1> QED BY <1>8, <1>10, <1>12, FS_CardinalityType

\* The monitor.
LEMMA Leaves ==
  ASSUME LifeTypes, lock[Root].depth >= 1, Leave(Root)
  PROVE  /\ lock' \in [Asyncs -> [owner : Threads \union {None}, depth : Nat]]
         /\ lock'[Root].depth = lock[Root].depth - 1
<1>1. Root \in Asyncs /\ lock[Root] \in [owner : Threads \union {None}, depth : Nat]
  BY DEF LifeTypes, Asyncs
<1> DEFINE new == IF lock[Root].depth = 1 THEN [owner |-> None, depth |-> 0]
                  ELSE [owner |-> lock[Root].owner, depth |-> lock[Root].depth - 1]
<1>2. new \in [owner : Threads \union {None}, depth : Nat] /\ new.depth = lock[Root].depth - 1
  BY <1>1
<1>3. lock' = [lock EXCEPT ![Root] = new]
  BY DEF Leave
<1> HIDE DEF new
<1> QED BY <1>1, <1>2, <1>3 DEF LifeTypes

LEMMA EntersMonitor ==
  ASSUME LifeTypes, NEW th \in Threads, Enter(th, Root)
  PROVE  /\ lock' \in [Asyncs -> [owner : Threads \union {None}, depth : Nat]]
         /\ lock'[Root].depth = lock[Root].depth + 1
<1>1. Root \in Asyncs /\ lock[Root] \in [owner : Threads \union {None}, depth : Nat]
  BY DEF LifeTypes, Asyncs
<1> DEFINE new == [owner |-> th, depth |-> lock[Root].depth + 1]
<1>2. new \in [owner : Threads \union {None}, depth : Nat] /\ new.depth = lock[Root].depth + 1
  BY <1>1
<1>3. lock' = [lock EXCEPT ![Root] = new]
  BY DEF Enter
<1> HIDE DEF new
<1> QED BY <1>1, <1>2, <1>3 DEF LifeTypes

\* What is counted.
LEMMA Counting ==
  ASSUME WorkInv
  PROVE  /\ LifeTypes /\ Root \in Asyncs
         /\ ref[Root] \in Nat /\ lock[Root].depth \in Nat /\ completed[Root] \in Nat
         /\ canceled[Root] \in BOOLEAN /\ called[Root] \in BOOLEAN
         /\ timer[Root] \in {"idle", "armed", "gone"} /\ life[Root] \in {"none", "live", "freed"}
         /\ DepthExact /\ RefExact /\ CallsBack /\ DestroyedLast /\ EndsByItself /\ AskedFirst
BY DEF WorkInv, ConnectInv, SocketInv, SocketTypes, LifeInv, LifeTypes, CountsExact, Asyncs

\* A thread that notifies takes the timer out, with its reference,
LEMMA NotifyTakesTimer ==
  ASSUME WorkInv, ConnectInv', NEW th \in Threads,
         Notify(th, Root), timer[Root] = "armed", UNCHANGED socket
  PROVE  WorkInv'
<1>1. /\ At(th, "notify", Root)
      /\ Call(th, <<Frame("release", Root), Carry(th, "async_notify", Root)>>)
      /\ timer' = [timer EXCEPT ![Root] = "gone"]
      /\ UNCHANGED <<life, ref, lock, called, completed, missed, early, canceled, asked, io,
                     resolving>>
  BY Tuples DEF Notify, CancelTimerThen, rest, history, request, socket
<1>2. Settled /\ life[Root] = "live" /\ (Ended => Ended')
  <2>1. "notify" \in Operations \ (Outside \union {"new"}) /\ "notify" \notin Births
    BY DEF Operations, Outside, Births
  <2> QED BY <1>1, <2>1, SettledAt, Alive, Counting DEF Ended
<1>3. Moved("notify", "release", "async_notify", "-", "-")
  <2>1. /\ Does(Frame("release", Root), "release")
        /\ Does(Carry(th, "async_notify", Root), "async_notify")
    BY <1>1, AtWork, Doings DEF Operations, Outside
  <2>2. {"release", "async_notify"} \subseteq ConnectOps
    BY DEF ConnectOps
  <2>3. ~Needy("release", Ended') /\ ~Needy("async_notify", Ended')
    BY <1>1, Counting DEF Needy, Ended
  <2> QED BY <1>1, <1>2, <2>1, <2>2, <2>3, Goes2
<1>4. /\ life'[Root] = life[Root] /\ ref'[Root] = ref[Root] /\ lock'[Root].depth = lock[Root].depth
      /\ called'[Root] = called[Root] /\ timer'[Root] = "gone" /\ completed'[Root] = completed[Root]
      /\ canceled'[Root] = canceled[Root] /\ asked' = asked /\ io'[Root] = io[Root]
      /\ resolving' = resolving
  BY <1>1, Counting DEF LifeTypes, WorkInv, ConnectInv, SocketInv, SocketTypes
<1>5. LifeTypes'
  BY <1>1, Counting DEF LifeTypes
<1>6. /\ Frames(Holding, Root)' = Frames(Holding, Root) + 1
      /\ Frames(InMonitor, Root)' = Frames(InMonitor, Root)
      /\ Frames({"callback"}, Root)' = Frames({"callback"}, Root)
      /\ Frames({"destroy"}, Root)' = Frames({"destroy"}, Root)
      /\ Frames(Moving, Root)' = Frames(Moving, Root)
      /\ Frames({"cancel"}, Root)' = Frames({"cancel"}, Root)
  <2>1. Frames(Holding, Root)' = Frames(Holding, Root) + 1
    BY <1>3 DEF Moved, Holding, One
  <2>2. Frames(InMonitor, Root)' = Frames(InMonitor, Root)
    BY <1>3 DEF Moved, InMonitor, One
  <2>3. Frames({"callback"}, Root)' = Frames({"callback"}, Root)
    BY <1>3 DEF Moved, One
  <2>4. Frames({"destroy"}, Root)' = Frames({"destroy"}, Root)
    BY <1>3 DEF Moved, One
  <2>5. Frames(Moving, Root)' = Frames(Moving, Root)
    BY <1>3 DEF Moved, Moving, One
  <2>6. Frames({"cancel"}, Root)' = Frames({"cancel"}, Root)
    BY <1>3 DEF Moved, One
  <2> QED BY <2>1, <2>2, <2>3, <2>4, <2>5, <2>6
<1>7. \A ops : Frames(ops, Root) \in Nat /\ Frames(Moving, Root) >= 1
  BY <1>3 DEF Moved, Moving
<1>8. CountsExact'
  <2>1. DepthExact'
    BY <1>2, <1>4, <1>6, <1>7, Counting DEF DepthExact
  <2>2. RefExact'
    BY <1>2, <1>4, <1>6, <1>7, Counting DEF RefExact, One
  <2>3. CallsBack'
    BY <1>2, <1>4, <1>6, <1>7, Counting DEF CallsBack, One
  <2>4. DestroyedLast'
    BY <1>2, <1>4, <1>6, <1>7, Counting DEF DestroyedLast, One
  <2>5. EndsByItself'
    BY <1>2, <1>4, <1>6, <1>7, Counting DEF EndsByItself, Tokens, One
  <2>6. AskedFirst'
    BY <1>2, <1>4, <1>6, <1>7, Counting DEF AskedFirst
  <2> QED BY <2>1, <2>2, <2>3, <2>4, <2>5, <2>6 DEF CountsExact
<1> QED BY <1>2, <1>3, <1>4, <1>5, <1>8, Proceeds DEF Births

\* or finds none.
LEMMA NotifyKeepsLife ==
  ASSUME WorkInv, ConnectInv', NEW th \in Threads,
         Notify(th, Root), timer[Root] # "armed", UNCHANGED socket
  PROVE  WorkInv'
<1>1. /\ At(th, "notify", Root)
      /\ Call(th, <<Carry(th, "async_notify", Root)>>)
      /\ timer' = [timer EXCEPT ![Root] = @]
      /\ UNCHANGED <<life, ref, lock, called, completed, missed, early, canceled, asked, io,
                     resolving>>
  BY DEF Notify, CancelTimerThen, rest, history, request, socket
<1>2. Settled /\ life[Root] = "live" /\ (Ended => Ended')
  <2>1. "notify" \in Operations \ (Outside \union {"new"}) /\ "notify" \notin Births
    BY DEF Operations, Outside, Births
  <2> QED BY <1>1, <2>1, SettledAt, Alive, Counting DEF Ended
<1>3. Moved("notify", "async_notify", "-", "-", "-")
  <2>1. Does(Carry(th, "async_notify", Root), "async_notify")
    BY <1>1, AtWork, Doings DEF Operations, Outside
  <2>2. {"async_notify"} \subseteq ConnectOps
    BY DEF ConnectOps
  <2>3. ~Needy("async_notify", Ended')
    BY <1>1, Counting DEF Needy, Ended
  <2> QED BY <1>1, <1>2, <2>1, <2>2, <2>3, Goes1
<1>4. /\ life'[Root] = life[Root] /\ ref'[Root] = ref[Root] /\ lock'[Root].depth = lock[Root].depth
      /\ called'[Root] = called[Root] /\ timer'[Root] = timer[Root]
      /\ completed'[Root] = completed[Root] /\ canceled'[Root] = canceled[Root] /\ asked' = asked
      /\ io'[Root] = io[Root] /\ resolving' = resolving
  BY <1>1, Counting DEF LifeTypes, WorkInv, ConnectInv, SocketInv, SocketTypes
<1>5. LifeTypes'
  BY <1>1, Counting DEF LifeTypes
<1>6. /\ Frames(Holding, Root)' = Frames(Holding, Root)
      /\ Frames(InMonitor, Root)' = Frames(InMonitor, Root)
      /\ Frames({"callback"}, Root)' = Frames({"callback"}, Root)
      /\ Frames({"destroy"}, Root)' = Frames({"destroy"}, Root)
      /\ Frames(Moving, Root)' = Frames(Moving, Root)
      /\ Frames({"cancel"}, Root)' = Frames({"cancel"}, Root)
  <2>1. Frames(Holding, Root)' = Frames(Holding, Root)
    BY <1>3 DEF Moved, Holding, One
  <2>2. Frames(InMonitor, Root)' = Frames(InMonitor, Root)
    BY <1>3 DEF Moved, InMonitor, One
  <2>3. Frames({"callback"}, Root)' = Frames({"callback"}, Root)
    BY <1>3 DEF Moved, One
  <2>4. Frames({"destroy"}, Root)' = Frames({"destroy"}, Root)
    BY <1>3 DEF Moved, One
  <2>5. Frames(Moving, Root)' = Frames(Moving, Root)
    BY <1>3 DEF Moved, Moving, One
  <2>6. Frames({"cancel"}, Root)' = Frames({"cancel"}, Root)
    BY <1>3 DEF Moved, One
  <2> QED BY <2>1, <2>2, <2>3, <2>4, <2>5, <2>6
<1>7. \A ops : Frames(ops, Root) \in Nat /\ Frames(Moving, Root) >= 1
  BY <1>3 DEF Moved, Moving
<1>8. CountsExact'
  <2>1. DepthExact'
    BY <1>2, <1>4, <1>6, <1>7, Counting DEF DepthExact
  <2>2. RefExact'
    BY <1>2, <1>4, <1>6, <1>7, Counting DEF RefExact, One
  <2>3. CallsBack'
    BY <1>2, <1>4, <1>6, <1>7, Counting DEF CallsBack, One
  <2>4. DestroyedLast'
    BY <1>2, <1>4, <1>6, <1>7, Counting DEF DestroyedLast, One
  <2>5. EndsByItself'
    BY <1>2, <1>4, <1>6, <1>7, Counting DEF EndsByItself, Tokens, One
  <2>6. AskedFirst'
    BY <1>2, <1>4, <1>6, <1>7, Counting DEF AskedFirst
  <2> QED BY <2>1, <2>2, <2>3, <2>4, <2>5, <2>6 DEF CountsExact
<1> QED BY <1>2, <1>3, <1>4, <1>5, <1>8, Proceeds DEF Births

\* So does one that cancels.
LEMMA CancelTakesTimer ==
  ASSUME WorkInv, ConnectInv', NEW th \in Threads,
         AsyncCancel(th, Root), timer[Root] = "armed", UNCHANGED socket
  PROVE  WorkInv'
<1>1. /\ At(th, "cancel", Root)
      /\ Call(th, <<Frame("release", Root), Frame("_cancel", Root)>>)
      /\ timer' = [timer EXCEPT ![Root] = "gone"]
      /\ UNCHANGED <<life, ref, lock, called, completed, missed, early, canceled, asked, io,
                     resolving>>
  BY Tuples DEF AsyncCancel, CancelTimerThen, rest, history, request, socket
<1>2. Settled /\ life[Root] = "live" /\ (Ended => Ended')
  <2>1. "cancel" \in Operations \ (Outside \union {"new"}) /\ "cancel" \notin Births
    BY DEF Operations, Outside, Births
  <2> QED BY <1>1, <2>1, SettledAt, Alive, Counting DEF Ended
<1>3. Moved("cancel", "release", "_cancel", "-", "-")
  <2>1. /\ Does(Frame("release", Root), "release")
        /\ Does(Frame("_cancel", Root), "_cancel")
    BY <1>1, AtWork, Doings DEF Operations, Outside
  <2>2. {"release", "_cancel"} \subseteq ConnectOps
    BY DEF ConnectOps
  <2>3. ~Needy("release", Ended') /\ ~Needy("_cancel", Ended')
    <3>1. "cancel" \in {"cancel"}
      OBVIOUS
    <3>2. Frames({"cancel"}, Root) > 0
      BY <1>1, <3>1, AtWork
    <3>3. Ended'
      BY <1>1, <3>2, Counting DEF AskedFirst, Ended
    <3> QED BY <3>3 DEF Needy
  <2> QED BY <1>1, <1>2, <2>1, <2>2, <2>3, Goes2
<1>4. /\ life'[Root] = life[Root] /\ ref'[Root] = ref[Root] /\ lock'[Root].depth = lock[Root].depth
      /\ called'[Root] = called[Root] /\ timer'[Root] = "gone" /\ completed'[Root] = completed[Root]
      /\ canceled'[Root] = canceled[Root] /\ asked' = asked /\ io'[Root] = io[Root]
      /\ resolving' = resolving
  BY <1>1, Counting DEF LifeTypes, WorkInv, ConnectInv, SocketInv, SocketTypes
<1>5. LifeTypes'
  BY <1>1, Counting DEF LifeTypes
<1>6. /\ Frames(Holding, Root)' = Frames(Holding, Root) + 1
      /\ Frames(InMonitor, Root)' = Frames(InMonitor, Root)
      /\ Frames({"callback"}, Root)' = Frames({"callback"}, Root)
      /\ Frames({"destroy"}, Root)' = Frames({"destroy"}, Root)
      /\ Frames(Moving, Root)' = Frames(Moving, Root)
      /\ Frames({"cancel"}, Root)' = Frames({"cancel"}, Root) - 1
  <2>1. Frames(Holding, Root)' = Frames(Holding, Root) + 1
    BY <1>3 DEF Moved, Holding, One
  <2>2. Frames(InMonitor, Root)' = Frames(InMonitor, Root)
    BY <1>3 DEF Moved, InMonitor, One
  <2>3. Frames({"callback"}, Root)' = Frames({"callback"}, Root)
    BY <1>3 DEF Moved, One
  <2>4. Frames({"destroy"}, Root)' = Frames({"destroy"}, Root)
    BY <1>3 DEF Moved, One
  <2>5. Frames(Moving, Root)' = Frames(Moving, Root)
    BY <1>3 DEF Moved, Moving, One
  <2>6. Frames({"cancel"}, Root)' = Frames({"cancel"}, Root) - 1
    BY <1>3 DEF Moved, One
  <2> QED BY <2>1, <2>2, <2>3, <2>4, <2>5, <2>6
<1>7. \A ops : Frames(ops, Root) \in Nat /\ Frames({"cancel"}, Root) >= 1
  BY <1>3 DEF Moved
<1>8. CountsExact'
  <2>1. DepthExact'
    BY <1>2, <1>4, <1>6, <1>7, Counting DEF DepthExact
  <2>2. RefExact'
    BY <1>2, <1>4, <1>6, <1>7, Counting DEF RefExact, One
  <2>3. CallsBack'
    BY <1>2, <1>4, <1>6, <1>7, Counting DEF CallsBack, One
  <2>4. DestroyedLast'
    BY <1>2, <1>4, <1>6, <1>7, Counting DEF DestroyedLast, One
  <2>5. EndsByItself'
    BY <1>2, <1>4, <1>6, <1>7, Counting DEF EndsByItself, Tokens, One
  <2>6. AskedFirst'
    BY <1>2, <1>4, <1>6, <1>7, Counting DEF AskedFirst
  <2> QED BY <2>1, <2>2, <2>3, <2>4, <2>5, <2>6 DEF CountsExact
<1> QED BY <1>2, <1>3, <1>4, <1>5, <1>8, Proceeds DEF Births

LEMMA AsyncCancelKeepsLife ==
  ASSUME WorkInv, ConnectInv', NEW th \in Threads,
         AsyncCancel(th, Root), timer[Root] # "armed", UNCHANGED socket
  PROVE  WorkInv'
<1>1. /\ At(th, "cancel", Root)
      /\ Call(th, <<Frame("_cancel", Root)>>)
      /\ timer' = [timer EXCEPT ![Root] = @]
      /\ UNCHANGED <<life, ref, lock, called, completed, missed, early, canceled, asked, io,
                     resolving>>
  BY DEF AsyncCancel, CancelTimerThen, rest, history, request, socket
<1>2. Settled /\ life[Root] = "live" /\ (Ended => Ended')
  <2>1. "cancel" \in Operations \ (Outside \union {"new"}) /\ "cancel" \notin Births
    BY DEF Operations, Outside, Births
  <2> QED BY <1>1, <2>1, SettledAt, Alive, Counting DEF Ended
<1>3. Moved("cancel", "_cancel", "-", "-", "-")
  <2>1. Does(Frame("_cancel", Root), "_cancel")
    BY <1>1, AtWork, Doings DEF Operations, Outside
  <2>2. {"_cancel"} \subseteq ConnectOps
    BY DEF ConnectOps
  <2>3. ~Needy("_cancel", Ended')
    <3>1. "cancel" \in {"cancel"}
      OBVIOUS
    <3>2. Frames({"cancel"}, Root) > 0
      BY <1>1, <3>1, AtWork
    <3>3. Ended'
      BY <1>1, <3>2, Counting DEF AskedFirst, Ended
    <3> QED BY <3>3 DEF Needy
  <2> QED BY <1>1, <1>2, <2>1, <2>2, <2>3, Goes1
<1>4. /\ life'[Root] = life[Root] /\ ref'[Root] = ref[Root] /\ lock'[Root].depth = lock[Root].depth
      /\ called'[Root] = called[Root] /\ timer'[Root] = timer[Root]
      /\ completed'[Root] = completed[Root] /\ canceled'[Root] = canceled[Root] /\ asked' = asked
      /\ io'[Root] = io[Root] /\ resolving' = resolving
  BY <1>1, Counting DEF LifeTypes, WorkInv, ConnectInv, SocketInv, SocketTypes
<1>5. LifeTypes'
  BY <1>1, Counting DEF LifeTypes
<1>6. /\ Frames(Holding, Root)' = Frames(Holding, Root)
      /\ Frames(InMonitor, Root)' = Frames(InMonitor, Root)
      /\ Frames({"callback"}, Root)' = Frames({"callback"}, Root)
      /\ Frames({"destroy"}, Root)' = Frames({"destroy"}, Root)
      /\ Frames(Moving, Root)' = Frames(Moving, Root)
      /\ Frames({"cancel"}, Root)' = Frames({"cancel"}, Root) - 1
  <2>1. Frames(Holding, Root)' = Frames(Holding, Root)
    BY <1>3 DEF Moved, Holding, One
  <2>2. Frames(InMonitor, Root)' = Frames(InMonitor, Root)
    BY <1>3 DEF Moved, InMonitor, One
  <2>3. Frames({"callback"}, Root)' = Frames({"callback"}, Root)
    BY <1>3 DEF Moved, One
  <2>4. Frames({"destroy"}, Root)' = Frames({"destroy"}, Root)
    BY <1>3 DEF Moved, One
  <2>5. Frames(Moving, Root)' = Frames(Moving, Root)
    BY <1>3 DEF Moved, Moving, One
  <2>6. Frames({"cancel"}, Root)' = Frames({"cancel"}, Root) - 1
    BY <1>3 DEF Moved, One
  <2> QED BY <2>1, <2>2, <2>3, <2>4, <2>5, <2>6
<1>7. \A ops : Frames(ops, Root) \in Nat /\ Frames({"cancel"}, Root) >= 1
  BY <1>3 DEF Moved
<1>8. CountsExact'
  <2>1. DepthExact'
    BY <1>2, <1>4, <1>6, <1>7, Counting DEF DepthExact
  <2>2. RefExact'
    BY <1>2, <1>4, <1>6, <1>7, Counting DEF RefExact, One
  <2>3. CallsBack'
    BY <1>2, <1>4, <1>6, <1>7, Counting DEF CallsBack, One
  <2>4. DestroyedLast'
    BY <1>2, <1>4, <1>6, <1>7, Counting DEF DestroyedLast, One
  <2>5. EndsByItself'
    BY <1>2, <1>4, <1>6, <1>7, Counting DEF EndsByItself, Tokens, One
  <2>6. AskedFirst'
    BY <1>2, <1>4, <1>6, <1>7, Counting DEF AskedFirst
  <2> QED BY <2>1, <2>2, <2>3, <2>4, <2>5, <2>6 DEF CountsExact
<1> QED BY <1>2, <1>3, <1>4, <1>5, <1>8, Proceeds DEF Births

\* The first to notify calls back,
LEMMA AsyncNotifyKeepsLife ==
  ASSUME WorkInv, ConnectInv', NEW th \in Threads,
         AsyncNotify(th, Root), ~called[Root], UNCHANGED socket
  PROVE  WorkInv'
<1>1. /\ At(th, "async_notify", Root)
      /\ Call(th, <<Carry(th, "callback", Root), Frame("release", Root)>>)
      /\ called' = [called EXCEPT ![Root] = TRUE]
      /\ UNCHANGED <<life, ref, lock, timer, completed, missed, early, canceled, asked, io,
                     resolving>>
  BY DEF AsyncNotify, rest, history, request, socket
<1>2. Settled /\ life[Root] = "live" /\ (Ended => Ended')
  <2>1. "async_notify" \in Operations \ (Outside \union {"new"}) /\ "async_notify" \notin Births
    BY DEF Operations, Outside, Births
  <2> QED BY <1>1, <2>1, SettledAt, Alive, Counting DEF Ended
<1>3. Moved("async_notify", "callback", "release", "-", "-")
  <2>1. /\ Does(Carry(th, "callback", Root), "callback")
        /\ Does(Frame("release", Root), "release")
    BY <1>1, AtWork, Doings DEF Operations, Outside
  <2>2. {"callback", "release"} \subseteq ConnectOps
    BY DEF ConnectOps
  <2>3. ~Needy("release", Ended')
    BY <1>1, Counting DEF Needy, Ended
  <2> QED BY <1>1, <1>2, <2>1, <2>2, <2>3, Goes2
<1>4. /\ life'[Root] = life[Root] /\ ref'[Root] = ref[Root] /\ lock'[Root].depth = lock[Root].depth
      /\ called'[Root] /\ timer'[Root] = timer[Root] /\ completed'[Root] = completed[Root]
      /\ canceled'[Root] = canceled[Root] /\ asked' = asked /\ io'[Root] = io[Root]
      /\ resolving' = resolving
  BY <1>1, Counting DEF LifeTypes, WorkInv, ConnectInv, SocketInv, SocketTypes
<1>5. LifeTypes'
  BY <1>1, Counting DEF LifeTypes
<1>6. /\ Frames(Holding, Root)' = Frames(Holding, Root) + 1
      /\ Frames(InMonitor, Root)' = Frames(InMonitor, Root)
      /\ Frames({"callback"}, Root)' = Frames({"callback"}, Root) + 1
      /\ Frames({"destroy"}, Root)' = Frames({"destroy"}, Root)
      /\ Frames(Moving, Root)' = Frames(Moving, Root) - 1
      /\ Frames({"cancel"}, Root)' = Frames({"cancel"}, Root)
  <2>1. Frames(Holding, Root)' = Frames(Holding, Root) + 1
    BY <1>3 DEF Moved, Holding, One
  <2>2. Frames(InMonitor, Root)' = Frames(InMonitor, Root)
    BY <1>3 DEF Moved, InMonitor, One
  <2>3. Frames({"callback"}, Root)' = Frames({"callback"}, Root) + 1
    BY <1>3 DEF Moved, One
  <2>4. Frames({"destroy"}, Root)' = Frames({"destroy"}, Root)
    BY <1>3 DEF Moved, One
  <2>5. Frames(Moving, Root)' = Frames(Moving, Root) - 1
    BY <1>3 DEF Moved, Moving, One
  <2>6. Frames({"cancel"}, Root)' = Frames({"cancel"}, Root)
    BY <1>3 DEF Moved, One
  <2> QED BY <2>1, <2>2, <2>3, <2>4, <2>5, <2>6
<1>7. \A ops : Frames(ops, Root) \in Nat /\ Frames(Moving, Root) >= 1
  BY <1>3 DEF Moved, Moving
<1>8. CountsExact'
  <2>1. DepthExact'
    BY <1>2, <1>4, <1>6, <1>7, Counting DEF DepthExact
  <2>2. RefExact'
    BY <1>2, <1>4, <1>6, <1>7, Counting DEF RefExact, One
  <2>3. CallsBack'
    BY <1>2, <1>4, <1>6, <1>7, Counting DEF CallsBack, One
  <2>4. DestroyedLast'
    BY <1>2, <1>4, <1>6, <1>7, Counting DEF DestroyedLast, One
  <2>5. EndsByItself'
    BY <1>2, <1>4, <1>6, <1>7, Counting DEF EndsByItself, Tokens, One
  <2>6. AskedFirst'
    BY <1>2, <1>4, <1>6, <1>7, Counting DEF AskedFirst
  <2> QED BY <2>1, <2>2, <2>3, <2>4, <2>5, <2>6 DEF CountsExact
<1> QED BY <1>2, <1>3, <1>4, <1>5, <1>8, Proceeds DEF Births

\* the others do not.
LEMMA NotifiesInVain ==
  ASSUME WorkInv, ConnectInv', NEW th \in Threads,
         AsyncNotify(th, Root), called[Root], UNCHANGED socket
  PROVE  WorkInv'
<1>1. /\ At(th, "async_notify", Root)
      /\ Call(th, << >>)
      /\ called' = [called EXCEPT ![Root] = TRUE]
      /\ UNCHANGED <<life, ref, lock, timer, completed, missed, early, canceled, asked, io,
                     resolving>>
  BY DEF AsyncNotify, rest, history, request, socket
<1>2. Settled /\ life[Root] = "live" /\ (Ended => Ended')
  <2>1. "async_notify" \in Operations \ (Outside \union {"new"}) /\ "async_notify" \notin Births
    BY DEF Operations, Outside, Births
  <2> QED BY <1>1, <2>1, SettledAt, Alive, Counting DEF Ended
<1>3. Moved("async_notify", "-", "-", "-", "-")
  <2> QED BY <1>1, <1>2, Goes0
<1>4. /\ life'[Root] = life[Root] /\ ref'[Root] = ref[Root] /\ lock'[Root].depth = lock[Root].depth
      /\ called'[Root] /\ timer'[Root] = timer[Root] /\ completed'[Root] = completed[Root]
      /\ canceled'[Root] = canceled[Root] /\ asked' = asked /\ io'[Root] = io[Root]
      /\ resolving' = resolving
  BY <1>1, Counting DEF LifeTypes, WorkInv, ConnectInv, SocketInv, SocketTypes
<1>5. LifeTypes'
  BY <1>1, Counting DEF LifeTypes
<1>6. /\ Frames(Holding, Root)' = Frames(Holding, Root)
      /\ Frames(InMonitor, Root)' = Frames(InMonitor, Root)
      /\ Frames({"callback"}, Root)' = Frames({"callback"}, Root)
      /\ Frames({"destroy"}, Root)' = Frames({"destroy"}, Root)
      /\ Frames(Moving, Root)' = Frames(Moving, Root) - 1
      /\ Frames({"cancel"}, Root)' = Frames({"cancel"}, Root)
  <2>1. Frames(Holding, Root)' = Frames(Holding, Root)
    BY <1>3 DEF Moved, Holding, One
  <2>2. Frames(InMonitor, Root)' = Frames(InMonitor, Root)
    BY <1>3 DEF Moved, InMonitor, One
  <2>3. Frames({"callback"}, Root)' = Frames({"callback"}, Root)
    BY <1>3 DEF Moved, One
  <2>4. Frames({"destroy"}, Root)' = Frames({"destroy"}, Root)
    BY <1>3 DEF Moved, One
  <2>5. Frames(Moving, Root)' = Frames(Moving, Root) - 1
    BY <1>3 DEF Moved, Moving, One
  <2>6. Frames({"cancel"}, Root)' = Frames({"cancel"}, Root)
    BY <1>3 DEF Moved, One
  <2> QED BY <2>1, <2>2, <2>3, <2>4, <2>5, <2>6
<1>7. \A ops : Frames(ops, Root) \in Nat /\ Frames(Moving, Root) >= 1
  BY <1>3 DEF Moved, Moving
<1>8. CountsExact'
  <2>1. DepthExact'
    BY <1>2, <1>4, <1>6, <1>7, Counting DEF DepthExact
  <2>2. RefExact'
    BY <1>2, <1>4, <1>6, <1>7, Counting DEF RefExact, One
  <2>3. CallsBack'
    BY <1>2, <1>4, <1>6, <1>7, Counting DEF CallsBack, One
  <2>4. DestroyedLast'
    BY <1>2, <1>4, <1>6, <1>7, Counting DEF DestroyedLast, One
  <2>5. EndsByItself'
    BY <1>2, <1>4, <1>6, <1>7, Counting DEF EndsByItself, Tokens, One
  <2>6. AskedFirst'
    BY <1>2, <1>4, <1>6, <1>7, Counting DEF AskedFirst
  <2> QED BY <2>1, <2>2, <2>3, <2>4, <2>5, <2>6 DEF CountsExact
<1> QED BY <1>2, <1>3, <1>4, <1>5, <1>8, Proceeds DEF Births

LEMMA CallbackKeepsLife ==
  ASSUME WorkInv, ConnectInv', NEW th \in Threads,
         Callback(th, Root), UNCHANGED socket
  PROVE  WorkInv'
<1>1. /\ At(th, "callback", Root)
      /\ Call(th, << >>)
      /\ completed' = [completed EXCEPT ![Root] = @ + 1]
      /\ UNCHANGED <<life, ref, lock, called, timer, missed, early, canceled, asked, io, resolving>>
  BY DEF Callback, CallbackThen, rest, history, operation, request, socket
<1>2. Settled /\ life[Root] = "live" /\ (Ended => Ended')
  <2>1. "callback" \in Operations \ (Outside \union {"new"}) /\ "callback" \notin Births
    BY DEF Operations, Outside, Births
  <2> QED BY <1>1, <2>1, SettledAt, Alive, Counting DEF Ended
<1>3. Moved("callback", "-", "-", "-", "-")
  <2> QED BY <1>1, <1>2, Goes0
<1>4. /\ life'[Root] = life[Root] /\ ref'[Root] = ref[Root] /\ lock'[Root].depth = lock[Root].depth
      /\ called'[Root] = called[Root] /\ timer'[Root] = timer[Root]
      /\ completed'[Root] = completed[Root] + 1 /\ canceled'[Root] = canceled[Root]
      /\ asked' = asked
      /\ io'[Root] = io[Root] /\ resolving' = resolving
  BY <1>1, Counting DEF LifeTypes, WorkInv, ConnectInv, SocketInv, SocketTypes
<1>5. LifeTypes'
  BY <1>1, Counting DEF LifeTypes
<1>6. /\ Frames(Holding, Root)' = Frames(Holding, Root)
      /\ Frames(InMonitor, Root)' = Frames(InMonitor, Root)
      /\ Frames({"callback"}, Root)' = Frames({"callback"}, Root) - 1
      /\ Frames({"destroy"}, Root)' = Frames({"destroy"}, Root)
      /\ Frames(Moving, Root)' = Frames(Moving, Root)
      /\ Frames({"cancel"}, Root)' = Frames({"cancel"}, Root)
  <2>1. Frames(Holding, Root)' = Frames(Holding, Root)
    BY <1>3 DEF Moved, Holding, One
  <2>2. Frames(InMonitor, Root)' = Frames(InMonitor, Root)
    BY <1>3 DEF Moved, InMonitor, One
  <2>3. Frames({"callback"}, Root)' = Frames({"callback"}, Root) - 1
    BY <1>3 DEF Moved, One
  <2>4. Frames({"destroy"}, Root)' = Frames({"destroy"}, Root)
    BY <1>3 DEF Moved, One
  <2>5. Frames(Moving, Root)' = Frames(Moving, Root)
    BY <1>3 DEF Moved, Moving, One
  <2>6. Frames({"cancel"}, Root)' = Frames({"cancel"}, Root)
    BY <1>3 DEF Moved, One
  <2> QED BY <2>1, <2>2, <2>3, <2>4, <2>5, <2>6
<1>7. \A ops : Frames(ops, Root) \in Nat /\ Frames({"callback"}, Root) >= 1
  BY <1>3 DEF Moved
<1>8. CountsExact'
  <2>1. DepthExact'
    BY <1>2, <1>4, <1>6, <1>7, Counting DEF DepthExact
  <2>2. RefExact'
    BY <1>2, <1>4, <1>6, <1>7, Counting DEF RefExact, One
  <2>3. CallsBack'
    BY <1>2, <1>4, <1>6, <1>7, Counting DEF CallsBack, One
  <2>4. DestroyedLast'
    BY <1>2, <1>4, <1>6, <1>7, Counting DEF DestroyedLast, One
  <2>5. EndsByItself'
    BY <1>2, <1>4, <1>6, <1>7, Counting DEF EndsByItself, Tokens, One
  <2>6. AskedFirst'
    BY <1>2, <1>4, <1>6, <1>7, Counting DEF AskedFirst
  <2> QED BY <2>1, <2>2, <2>3, <2>4, <2>5, <2>6 DEF CountsExact
<1> QED BY <1>2, <1>3, <1>4, <1>5, <1>8, Proceeds DEF Births

\* A cancellation aborts the call,
LEMMA CancelCallKeepsLife ==
  ASSUME WorkInv, ConnectInv', NEW th \in Threads,
         Cancel(th, Root), CancelCall(th, Root), UNCHANGED socket
  PROVE  WorkInv'
<1>1. /\ At(th, "_cancel", Root)
      /\ Call(th, << >>)
      /\ canceled' = [canceled EXCEPT ![Root] = TRUE]
      /\ io' = [io EXCEPT ![Root] = "queued"]
      /\ UNCHANGED <<life, ref, lock, called, timer, completed, missed, early, asked, resolving>>
  BY DEF Cancel, CancelCall, Return, rest, history, request, socket
<1>2. Settled /\ life[Root] = "live" /\ (Ended => Ended')
  <2>1. "_cancel" \in Operations \ (Outside \union {"new"}) /\ "_cancel" \notin Births
    BY DEF Operations, Outside, Births
  <2> QED BY <1>1, <2>1, SettledAt, Alive, Counting DEF Ended
<1>3. Moved("_cancel", "-", "-", "-", "-")
  <2> QED BY <1>1, <1>2, Goes0
<1>4. /\ life'[Root] = life[Root] /\ ref'[Root] = ref[Root] /\ lock'[Root].depth = lock[Root].depth
      /\ called'[Root] = called[Root] /\ timer'[Root] = timer[Root]
      /\ completed'[Root] = completed[Root] /\ canceled'[Root] /\ asked' = asked
      /\ io'[Root] = "queued" /\ resolving' = resolving
  BY <1>1, Counting DEF LifeTypes, WorkInv, ConnectInv, SocketInv, SocketTypes
<1>5. LifeTypes'
  BY <1>1, Counting DEF LifeTypes
<1>6. /\ Frames(Holding, Root)' = Frames(Holding, Root)
      /\ Frames(InMonitor, Root)' = Frames(InMonitor, Root)
      /\ Frames({"callback"}, Root)' = Frames({"callback"}, Root)
      /\ Frames({"destroy"}, Root)' = Frames({"destroy"}, Root)
      /\ Frames(Moving, Root)' = Frames(Moving, Root)
      /\ Frames({"cancel"}, Root)' = Frames({"cancel"}, Root)
  <2>1. Frames(Holding, Root)' = Frames(Holding, Root)
    BY <1>3 DEF Moved, Holding, One
  <2>2. Frames(InMonitor, Root)' = Frames(InMonitor, Root)
    BY <1>3 DEF Moved, InMonitor, One
  <2>3. Frames({"callback"}, Root)' = Frames({"callback"}, Root)
    BY <1>3 DEF Moved, One
  <2>4. Frames({"destroy"}, Root)' = Frames({"destroy"}, Root)
    BY <1>3 DEF Moved, One
  <2>5. Frames(Moving, Root)' = Frames(Moving, Root)
    BY <1>3 DEF Moved, Moving, One
  <2>6. Frames({"cancel"}, Root)' = Frames({"cancel"}, Root)
    BY <1>3 DEF Moved, One
  <2> QED BY <2>1, <2>2, <2>3, <2>4, <2>5, <2>6
<1>7. \A ops : Frames(ops, Root) \in Nat
  BY <1>3 DEF Moved
<1>8. CountsExact'
  <2>1. DepthExact'
    BY <1>2, <1>4, <1>6, <1>7, Counting DEF DepthExact
  <2>2. RefExact'
    BY <1>2, <1>4, <1>6, <1>7, Counting DEF RefExact, One
  <2>3. CallsBack'
    BY <1>2, <1>4, <1>6, <1>7, Counting DEF CallsBack, One
  <2>4. DestroyedLast'
    BY <1>2, <1>4, <1>6, <1>7, Counting DEF DestroyedLast, One
  <2>5. EndsByItself'
    BY <1>2, <1>4, <1>6, <1>7, Counting DEF EndsByItself, Tokens, One
  <2>6. AskedFirst'
    BY <1>2, <1>4, <1>6, <1>7, Counting DEF AskedFirst
  <2> QED BY <2>1, <2>2, <2>3, <2>4, <2>5, <2>6 DEF CountsExact
<1> QED BY <1>2, <1>3, <1>4, <1>5, <1>8, Proceeds DEF Births

\* or notifies itself.
LEMMA CancelDirectlyKeepsLife ==
  ASSUME WorkInv, ConnectInv', NEW th \in Threads,
         Cancel(th, Root), CancelDirectly(th, Root), UNCHANGED socket
  PROVE  WorkInv'
<1>1. /\ At(th, "_cancel", Root)
      /\ Call(th, <<Frame("notify", Root)>>)
      /\ canceled' = [canceled EXCEPT ![Root] = TRUE]
      /\ missed' = [missed EXCEPT ![Root] = @ \/ io[Root] # "none"]
      /\ UNCHANGED <<life, ref, lock, called, timer, completed, early, asked, io, resolving>>
  BY DEF Cancel, CancelDirectly, rest, history, request, socket
<1>2. Settled /\ life[Root] = "live" /\ (Ended => Ended')
  <2>1. "_cancel" \in Operations \ (Outside \union {"new"}) /\ "_cancel" \notin Births
    BY DEF Operations, Outside, Births
  <2> QED BY <1>1, <2>1, SettledAt, Alive, Counting DEF Ended
<1>3. Moved("_cancel", "notify", "-", "-", "-")
  <2>1. Does(Frame("notify", Root), "notify")
    BY <1>1, AtWork, Doings DEF Operations, Outside
  <2>2. {"notify"} \subseteq ConnectOps
    BY DEF ConnectOps
  <2>3. ~Needy("notify", Ended')
    BY <1>1, Counting DEF Needy, Ended
  <2> QED BY <1>1, <1>2, <2>1, <2>2, <2>3, Goes1
<1>4. /\ life'[Root] = life[Root] /\ ref'[Root] = ref[Root] /\ lock'[Root].depth = lock[Root].depth
      /\ called'[Root] = called[Root] /\ timer'[Root] = timer[Root]
      /\ completed'[Root] = completed[Root] /\ canceled'[Root] /\ asked' = asked
      /\ io'[Root] = io[Root] /\ resolving' = resolving
  BY <1>1, Counting DEF LifeTypes, WorkInv, ConnectInv, SocketInv, SocketTypes
<1>5. LifeTypes'
  BY <1>1, Counting DEF LifeTypes
<1>6. /\ Frames(Holding, Root)' = Frames(Holding, Root)
      /\ Frames(InMonitor, Root)' = Frames(InMonitor, Root)
      /\ Frames({"callback"}, Root)' = Frames({"callback"}, Root)
      /\ Frames({"destroy"}, Root)' = Frames({"destroy"}, Root)
      /\ Frames(Moving, Root)' = Frames(Moving, Root) + 1
      /\ Frames({"cancel"}, Root)' = Frames({"cancel"}, Root)
  <2>1. Frames(Holding, Root)' = Frames(Holding, Root)
    BY <1>3 DEF Moved, Holding, One
  <2>2. Frames(InMonitor, Root)' = Frames(InMonitor, Root)
    BY <1>3 DEF Moved, InMonitor, One
  <2>3. Frames({"callback"}, Root)' = Frames({"callback"}, Root)
    BY <1>3 DEF Moved, One
  <2>4. Frames({"destroy"}, Root)' = Frames({"destroy"}, Root)
    BY <1>3 DEF Moved, One
  <2>5. Frames(Moving, Root)' = Frames(Moving, Root) + 1
    BY <1>3 DEF Moved, Moving, One
  <2>6. Frames({"cancel"}, Root)' = Frames({"cancel"}, Root)
    BY <1>3 DEF Moved, One
  <2> QED BY <2>1, <2>2, <2>3, <2>4, <2>5, <2>6
<1>7. \A ops : Frames(ops, Root) \in Nat
  BY <1>3 DEF Moved
<1>8. CountsExact'
  <2>1. DepthExact'
    BY <1>2, <1>4, <1>6, <1>7, Counting DEF DepthExact
  <2>2. RefExact'
    BY <1>2, <1>4, <1>6, <1>7, Counting DEF RefExact, One
  <2>3. CallsBack'
    BY <1>2, <1>4, <1>6, <1>7, Counting DEF CallsBack, One
  <2>4. DestroyedLast'
    BY <1>2, <1>4, <1>6, <1>7, Counting DEF DestroyedLast, One
  <2>5. EndsByItself'
    BY <1>2, <1>4, <1>6, <1>7, Counting DEF EndsByItself, Tokens, One
  <2>6. AskedFirst'
    BY <1>2, <1>4, <1>6, <1>7, Counting DEF AskedFirst
  <2> QED BY <2>1, <2>2, <2>3, <2>4, <2>5, <2>6 DEF CountsExact
<1> QED BY <1>2, <1>3, <1>4, <1>5, <1>8, Proceeds DEF Births

\* A reference is given up;
LEMMA ReleaseKeepsLife ==
  ASSUME WorkInv, ConnectInv', NEW th \in Threads,
         Release(th, Root), ref[Root] > 1, UNCHANGED socket
  PROVE  WorkInv'
<1>1. /\ At(th, "release", Root)
      /\ Call(th, << >>)
      /\ ref' = [ref EXCEPT ![Root] = @ - 1]
      /\ UNCHANGED <<life, lock, called, timer, completed, missed, early, canceled, asked, io,
                     resolving>>
  BY DEF Release, rest, history, request, socket
<1>2. Settled /\ life[Root] = "live" /\ (Ended => Ended')
  <2>1. "release" \in Operations \ (Outside \union {"new"}) /\ "release" \notin Births
    BY DEF Operations, Outside, Births
  <2> QED BY <1>1, <2>1, SettledAt, Alive, Counting DEF Ended
<1>3. Moved("release", "-", "-", "-", "-")
  <2> QED BY <1>1, <1>2, Goes0
<1>4. ref[Root] > 1 /\ ref[Root] - 1 \in Nat
  BY Counting
<1>5. /\ life'[Root] = life[Root] /\ ref'[Root] = ref[Root] - 1
      /\ lock'[Root].depth = lock[Root].depth /\ called'[Root] = called[Root]
      /\ timer'[Root] = timer[Root] /\ completed'[Root] = completed[Root]
      /\ canceled'[Root] = canceled[Root] /\ asked' = asked /\ io'[Root] = io[Root]
      /\ resolving' = resolving
  BY <1>1, <1>4, Counting DEF LifeTypes, WorkInv, ConnectInv, SocketInv, SocketTypes
<1>6. LifeTypes'
  BY <1>1, <1>4, Counting DEF LifeTypes
<1>7. /\ Frames(Holding, Root)' = Frames(Holding, Root) - 1
      /\ Frames(InMonitor, Root)' = Frames(InMonitor, Root)
      /\ Frames({"callback"}, Root)' = Frames({"callback"}, Root)
      /\ Frames({"destroy"}, Root)' = Frames({"destroy"}, Root)
      /\ Frames(Moving, Root)' = Frames(Moving, Root)
      /\ Frames({"cancel"}, Root)' = Frames({"cancel"}, Root)
  <2>1. Frames(Holding, Root)' = Frames(Holding, Root) - 1
    BY <1>3 DEF Moved, Holding, One
  <2>2. Frames(InMonitor, Root)' = Frames(InMonitor, Root)
    BY <1>3 DEF Moved, InMonitor, One
  <2>3. Frames({"callback"}, Root)' = Frames({"callback"}, Root)
    BY <1>3 DEF Moved, One
  <2>4. Frames({"destroy"}, Root)' = Frames({"destroy"}, Root)
    BY <1>3 DEF Moved, One
  <2>5. Frames(Moving, Root)' = Frames(Moving, Root)
    BY <1>3 DEF Moved, Moving, One
  <2>6. Frames({"cancel"}, Root)' = Frames({"cancel"}, Root)
    BY <1>3 DEF Moved, One
  <2> QED BY <2>1, <2>2, <2>3, <2>4, <2>5, <2>6
<1>8. \A ops : Frames(ops, Root) \in Nat /\ Frames(Holding, Root) >= 1
  BY <1>3 DEF Moved, Holding
<1>9. CountsExact'
  <2>1. DepthExact'
    BY <1>2, <1>4, <1>5, <1>7, <1>8, Counting DEF DepthExact
  <2>2. RefExact'
    BY <1>2, <1>4, <1>5, <1>7, <1>8, Counting DEF RefExact, One
  <2>3. CallsBack'
    BY <1>2, <1>4, <1>5, <1>7, <1>8, Counting DEF CallsBack, One
  <2>4. DestroyedLast'
    BY <1>2, <1>4, <1>5, <1>7, <1>8, Counting DEF DestroyedLast, One
  <2>5. EndsByItself'
    BY <1>2, <1>4, <1>5, <1>7, <1>8, Counting DEF EndsByItself, Tokens, One
  <2>6. AskedFirst'
    BY <1>2, <1>4, <1>5, <1>7, <1>8, Counting DEF AskedFirst
  <2> QED BY <2>1, <2>2, <2>3, <2>4, <2>5, <2>6 DEF CountsExact
<1> QED BY <1>2, <1>3, <1>5, <1>6, <1>9, Proceeds DEF Births

\* the last one, when all is done.
LEMMA LastReleaseKeepsLife ==
  ASSUME WorkInv, ConnectInv', NEW th \in Threads,
         Release(th, Root), ~(ref[Root] > 1), UNCHANGED socket
  PROVE  WorkInv'
<1>1. /\ At(th, "release", Root)
      /\ Call(th, <<Frame("destroy", Root)>>)
      /\ ref' = [ref EXCEPT ![Root] = @ - 1]
      /\ UNCHANGED <<life, lock, called, timer, completed, missed, early, canceled, asked, io,
                     resolving>>
  BY DEF Release, rest, history, request, socket
<1>2. Settled /\ life[Root] = "live" /\ (Ended => Ended')
  <2>1. "release" \in Operations \ (Outside \union {"new"}) /\ "release" \notin Births
    BY DEF Operations, Outside, Births
  <2> QED BY <1>1, <2>1, SettledAt, Alive, Counting DEF Ended
<1>3. Moved("release", "destroy", "-", "-", "-")
  <2>1. Does(Frame("destroy", Root), "destroy")
    BY <1>1, AtWork, Doings DEF Operations, Outside
  <2>2. {"destroy"} \subseteq ConnectOps
    BY DEF ConnectOps
  <2>3. ~Needy("destroy", Ended')
    BY <1>1, Counting DEF Needy, Ended
  <2> QED BY <1>1, <1>2, <2>1, <2>2, <2>3, Goes1
<1>4. /\ ref[Root] = 1 /\ ref[Root] - 1 \in Nat /\ called[Root] /\ timer[Root] # "armed"
      /\ Frames(Holding, Root) = 1 /\ Frames({"callback"}, Root) = 0
      /\ Frames({"destroy"}, Root) = 0
  <2>1. /\ Frames(Holding, Root) \in Nat /\ Frames({"callback"}, Root) \in Nat
        /\ Frames({"destroy"}, Root) \in Nat
    BY CountsAreNumbers
  <2>2. Frames(Holding, Root) >= 1
    BY <1>1, AtWork DEF Holding
  <2>3. ref[Root] = 1 /\ called[Root] /\ timer[Root] # "armed" /\ Frames(Holding, Root) = 1
    BY <1>2, <2>1, <2>2, Counting DEF RefExact, One
  <2>4. Frames({"callback"}, Root) = 0
    BY <1>1, <2>1, <2>3, CallerHolds
  <2>5. Frames({"destroy"}, Root) = 0
    BY <2>1, <2>3, Counting DEF DestroyedLast
  <2> QED BY <2>1, <2>3, <2>4, <2>5
<1>5. /\ life'[Root] = life[Root] /\ ref'[Root] = ref[Root] - 1
      /\ lock'[Root].depth = lock[Root].depth /\ called'[Root] = called[Root]
      /\ timer'[Root] = timer[Root] /\ completed'[Root] = completed[Root]
      /\ canceled'[Root] = canceled[Root] /\ asked' = asked /\ io'[Root] = io[Root]
      /\ resolving' = resolving
  BY <1>1, <1>4, Counting DEF LifeTypes, WorkInv, ConnectInv, SocketInv, SocketTypes
<1>6. LifeTypes'
  BY <1>1, <1>4, Counting DEF LifeTypes
<1>7. /\ Frames(Holding, Root)' = Frames(Holding, Root) - 1
      /\ Frames(InMonitor, Root)' = Frames(InMonitor, Root)
      /\ Frames({"callback"}, Root)' = Frames({"callback"}, Root)
      /\ Frames({"destroy"}, Root)' = Frames({"destroy"}, Root) + 1
      /\ Frames(Moving, Root)' = Frames(Moving, Root)
      /\ Frames({"cancel"}, Root)' = Frames({"cancel"}, Root)
  <2>1. Frames(Holding, Root)' = Frames(Holding, Root) - 1
    BY <1>3 DEF Moved, Holding, One
  <2>2. Frames(InMonitor, Root)' = Frames(InMonitor, Root)
    BY <1>3 DEF Moved, InMonitor, One
  <2>3. Frames({"callback"}, Root)' = Frames({"callback"}, Root)
    BY <1>3 DEF Moved, One
  <2>4. Frames({"destroy"}, Root)' = Frames({"destroy"}, Root) + 1
    BY <1>3 DEF Moved, One
  <2>5. Frames(Moving, Root)' = Frames(Moving, Root)
    BY <1>3 DEF Moved, Moving, One
  <2>6. Frames({"cancel"}, Root)' = Frames({"cancel"}, Root)
    BY <1>3 DEF Moved, One
  <2> QED BY <2>1, <2>2, <2>3, <2>4, <2>5, <2>6
<1>8. \A ops : Frames(ops, Root) \in Nat /\ Frames(Holding, Root) >= 1
  BY <1>3 DEF Moved, Holding
<1>9. CountsExact'
  <2>1. DepthExact'
    BY <1>2, <1>4, <1>5, <1>7, <1>8, Counting DEF DepthExact
  <2>2. RefExact'
    BY <1>2, <1>4, <1>5, <1>7, <1>8, Counting DEF RefExact, One
  <2>3. CallsBack'
    BY <1>2, <1>4, <1>5, <1>7, <1>8, Counting DEF CallsBack, One
  <2>4. DestroyedLast'
    BY <1>2, <1>4, <1>5, <1>7, <1>8, Counting DEF DestroyedLast, One
  <2>5. EndsByItself'
    BY <1>2, <1>4, <1>5, <1>7, <1>8, Counting DEF EndsByItself, Tokens, One
  <2>6. AskedFirst'
    BY <1>2, <1>4, <1>5, <1>7, <1>8, Counting DEF AskedFirst
  <2> QED BY <2>1, <2>2, <2>3, <2>4, <2>5, <2>6 DEF CountsExact
<1> QED BY <1>2, <1>3, <1>5, <1>6, <1>9, Proceeds DEF Births

\* A thread leaves the monitor.
LEMMA UnlockKeepsLife ==
  ASSUME WorkInv, ConnectInv', NEW th \in Threads,
         Unlock(th, Root), UNCHANGED socket
  PROVE  WorkInv'
<1>1. /\ At(th, "unlock", Root)
      /\ Call(th, << >>)
      /\ Leave(Root)
      /\ UNCHANGED <<life, ref, called, timer, completed, missed, early, canceled, asked, io,
                     resolving>>
  BY DEF Unlock, Return, rest, history, request, socket
<1>2. Settled /\ life[Root] = "live" /\ (Ended => Ended')
  <2>1. "unlock" \in Operations \ (Outside \union {"new"}) /\ "unlock" \notin Births
    BY DEF Operations, Outside, Births
  <2> QED BY <1>1, <2>1, SettledAt, Alive, Counting DEF Ended
<1>3. Moved("unlock", "-", "-", "-", "-")
  <2> QED BY <1>1, <1>2, Goes0
<1>4. /\ lock' \in [Asyncs -> [owner : Threads \union {None}, depth : Nat]]
      /\ lock'[Root].depth = lock[Root].depth - 1
  <2>1. Frames(InMonitor, Root) >= 1
    BY <1>1, AtWork DEF InMonitor
  <2>2. lock[Root].depth >= 1
    BY <2>1, Counting DEF DepthExact
  <2> QED BY <1>1, <2>2, Counting, Leaves
<1>5. /\ life'[Root] = life[Root] /\ ref'[Root] = ref[Root]
      /\ lock'[Root].depth = lock[Root].depth - 1 /\ called'[Root] = called[Root]
      /\ timer'[Root] = timer[Root] /\ completed'[Root] = completed[Root]
      /\ canceled'[Root] = canceled[Root] /\ asked' = asked /\ io'[Root] = io[Root]
      /\ resolving' = resolving
  BY <1>1, <1>4, Counting DEF LifeTypes, WorkInv, ConnectInv, SocketInv, SocketTypes
<1>6. LifeTypes'
  BY <1>1, <1>4, Counting DEF LifeTypes
<1>7. /\ Frames(Holding, Root)' = Frames(Holding, Root)
      /\ Frames(InMonitor, Root)' = Frames(InMonitor, Root) - 1
      /\ Frames({"callback"}, Root)' = Frames({"callback"}, Root)
      /\ Frames({"destroy"}, Root)' = Frames({"destroy"}, Root)
      /\ Frames(Moving, Root)' = Frames(Moving, Root)
      /\ Frames({"cancel"}, Root)' = Frames({"cancel"}, Root)
  <2>1. Frames(Holding, Root)' = Frames(Holding, Root)
    BY <1>3 DEF Moved, Holding, One
  <2>2. Frames(InMonitor, Root)' = Frames(InMonitor, Root) - 1
    BY <1>3 DEF Moved, InMonitor, One
  <2>3. Frames({"callback"}, Root)' = Frames({"callback"}, Root)
    BY <1>3 DEF Moved, One
  <2>4. Frames({"destroy"}, Root)' = Frames({"destroy"}, Root)
    BY <1>3 DEF Moved, One
  <2>5. Frames(Moving, Root)' = Frames(Moving, Root)
    BY <1>3 DEF Moved, Moving, One
  <2>6. Frames({"cancel"}, Root)' = Frames({"cancel"}, Root)
    BY <1>3 DEF Moved, One
  <2> QED BY <2>1, <2>2, <2>3, <2>4, <2>5, <2>6
<1>8. \A ops : Frames(ops, Root) \in Nat /\ Frames(InMonitor, Root) >= 1
  BY <1>3 DEF Moved, InMonitor
<1>9. CountsExact'
  <2>1. DepthExact'
    BY <1>2, <1>4, <1>5, <1>7, <1>8, Counting DEF DepthExact
  <2>2. RefExact'
    BY <1>2, <1>4, <1>5, <1>7, <1>8, Counting DEF RefExact, One
  <2>3. CallsBack'
    BY <1>2, <1>4, <1>5, <1>7, <1>8, Counting DEF CallsBack, One
  <2>4. DestroyedLast'
    BY <1>2, <1>4, <1>5, <1>7, <1>8, Counting DEF DestroyedLast, One
  <2>5. EndsByItself'
    BY <1>2, <1>4, <1>5, <1>7, <1>8, Counting DEF EndsByItself, Tokens, One
  <2>6. AskedFirst'
    BY <1>2, <1>4, <1>5, <1>7, <1>8, Counting DEF AskedFirst
  <2> QED BY <2>1, <2>2, <2>3, <2>4, <2>5, <2>6 DEF CountsExact
<1> QED BY <1>2, <1>3, <1>5, <1>6, <1>9, Proceeds DEF Births

\* It is freed.
LEMMA DestroyKeepsLife ==
  ASSUME WorkInv, ConnectInv', NEW th \in Threads,
         DestroyConnect(th)
  PROVE  WorkInv'
<1>1. /\ At(th, "destroy", Root)
      /\ Call(th, << >>)
      /\ life' = [life EXCEPT ![Root] = "freed"]
      /\ timer' = [timer EXCEPT ![Root] = IF @ = "armed" THEN "gone" ELSE @]
      /\ UNCHANGED <<ref, lock, called, completed, missed, early, canceled, asked, io, resolving>>
  BY DEF DestroyConnect, Destroy, Return, rest, history, request, socket
<1>2. Settled /\ life[Root] = "live" /\ (Ended => Ended')
  <2>1. "destroy" \in Operations \ (Outside \union {"new"}) /\ "destroy" \notin Births
    BY DEF Operations, Outside, Births
  <2> QED BY <1>1, <2>1, SettledAt, Alive, Counting DEF Ended
<1>3. Moved("destroy", "-", "-", "-", "-")
  <2> QED BY <1>1, <1>2, Goes0
<1>4. /\ life'[Root] = "freed" /\ ref'[Root] = ref[Root] /\ lock'[Root].depth = lock[Root].depth
      /\ called'[Root] = called[Root]
      /\ timer'[Root] = IF timer[Root] = "armed" THEN "gone" ELSE timer[Root]
      /\ completed'[Root] = completed[Root] /\ canceled'[Root] = canceled[Root] /\ asked' = asked
      /\ io'[Root] = io[Root] /\ resolving' = resolving
  BY <1>1, Counting DEF LifeTypes, WorkInv, ConnectInv, SocketInv, SocketTypes
<1>5. LifeTypes'
  BY <1>1, Counting DEF LifeTypes
<1>6. /\ Frames(Holding, Root)' = Frames(Holding, Root)
      /\ Frames(InMonitor, Root)' = Frames(InMonitor, Root)
      /\ Frames({"callback"}, Root)' = Frames({"callback"}, Root)
      /\ Frames({"destroy"}, Root)' = Frames({"destroy"}, Root) - 1
      /\ Frames(Moving, Root)' = Frames(Moving, Root)
      /\ Frames({"cancel"}, Root)' = Frames({"cancel"}, Root)
  <2>1. Frames(Holding, Root)' = Frames(Holding, Root)
    BY <1>3 DEF Moved, Holding, One
  <2>2. Frames(InMonitor, Root)' = Frames(InMonitor, Root)
    BY <1>3 DEF Moved, InMonitor, One
  <2>3. Frames({"callback"}, Root)' = Frames({"callback"}, Root)
    BY <1>3 DEF Moved, One
  <2>4. Frames({"destroy"}, Root)' = Frames({"destroy"}, Root) - 1
    BY <1>3 DEF Moved, One
  <2>5. Frames(Moving, Root)' = Frames(Moving, Root)
    BY <1>3 DEF Moved, Moving, One
  <2>6. Frames({"cancel"}, Root)' = Frames({"cancel"}, Root)
    BY <1>3 DEF Moved, One
  <2> QED BY <2>1, <2>2, <2>3, <2>4, <2>5, <2>6
<1>7. \A ops : Frames(ops, Root) \in Nat /\ Frames({"destroy"}, Root) >= 1
  BY <1>3 DEF Moved
<1>8. CountsExact'
  <2>1. DepthExact'
    BY <1>2, <1>4, <1>6, <1>7, Counting DEF DepthExact
  <2>2. RefExact'
    BY <1>2, <1>4, <1>6, <1>7, Counting DEF RefExact, One
  <2>3. CallsBack'
    BY <1>2, <1>4, <1>6, <1>7, Counting DEF CallsBack, One
  <2>4. DestroyedLast'
    BY <1>2, <1>4, <1>6, <1>7, Counting DEF DestroyedLast, One
  <2>5. EndsByItself'
    BY <1>2, <1>4, <1>6, <1>7, Counting DEF EndsByItself, Tokens, One
  <2>6. AskedFirst'
    BY <1>2, <1>4, <1>6, <1>7, Counting DEF AskedFirst
  <2> QED BY <2>1, <2>2, <2>3, <2>4, <2>5, <2>6 DEF CountsExact
<1> QED BY <1>2, <1>3, <1>4, <1>5, <1>8, Proceeds DEF Births

\* The timer is due.
LEMMA TimeoutKeepsLife ==
  ASSUME WorkInv, ConnectInv', TimeoutFires(Root), UNCHANGED socket
  PROVE  WorkInv'
<1>1. /\ stack[Poller] = << >> /\ Poller \in Threads
      /\ stack' = [stack EXCEPT ![Poller] = <<Frame("_cancel", Root), Frame("release", Root)>>]
      /\ timer[Root] = "armed"
      /\ timer' = [timer EXCEPT ![Root] = "gone"]
      /\ UNCHANGED <<life, ref, lock, called, completed, missed, early, canceled, asked, io,
                     resolving>>
  BY DEF TimeoutFires, Threads, rest, history, request, socket
<1>2. Settled /\ life[Root] = "live" /\ (Ended => Ended')
  <2>1. Settled
    BY <1>1 DEF WorkInv, LifeInv, Fresh
  <2>2. life[Root] # "freed"
    BY <1>1, Counting DEF DestroyedLast
  <2> QED BY <1>1, <2>1, <2>2, Counting DEF Settled, Ended
<1>3. Moved("-", "_cancel", "release", "-", "-")
  <2>1. /\ Does(Frame("_cancel", Root), "_cancel")
        /\ Does(Frame("release", Root), "release")
    BY <1>1, AtWork, Doings DEF Operations, Outside
  <2>2. {"_cancel", "release"} \subseteq ConnectOps
    BY DEF ConnectOps
  <2>3. ~Needy("release", Ended')
    BY <1>1, Counting DEF Needy, Ended
  <2> QED BY <1>1, <1>2, <2>1, <2>2, <2>3, Comes2
<1>4. /\ life'[Root] = life[Root] /\ ref'[Root] = ref[Root] /\ lock'[Root].depth = lock[Root].depth
      /\ called'[Root] = called[Root] /\ timer'[Root] = "gone" /\ completed'[Root] = completed[Root]
      /\ canceled'[Root] = canceled[Root] /\ asked' = asked /\ io'[Root] = io[Root]
      /\ resolving' = resolving
  BY <1>1, Counting DEF LifeTypes, WorkInv, ConnectInv, SocketInv, SocketTypes
<1>5. LifeTypes'
  BY <1>1, Counting DEF LifeTypes
<1>6. /\ Frames(Holding, Root)' = Frames(Holding, Root) + 1
      /\ Frames(InMonitor, Root)' = Frames(InMonitor, Root)
      /\ Frames({"callback"}, Root)' = Frames({"callback"}, Root)
      /\ Frames({"destroy"}, Root)' = Frames({"destroy"}, Root)
      /\ Frames(Moving, Root)' = Frames(Moving, Root)
      /\ Frames({"cancel"}, Root)' = Frames({"cancel"}, Root)
  <2>1. Frames(Holding, Root)' = Frames(Holding, Root) + 1
    BY <1>3 DEF Moved, Holding, One
  <2>2. Frames(InMonitor, Root)' = Frames(InMonitor, Root)
    BY <1>3 DEF Moved, InMonitor, One
  <2>3. Frames({"callback"}, Root)' = Frames({"callback"}, Root)
    BY <1>3 DEF Moved, One
  <2>4. Frames({"destroy"}, Root)' = Frames({"destroy"}, Root)
    BY <1>3 DEF Moved, One
  <2>5. Frames(Moving, Root)' = Frames(Moving, Root)
    BY <1>3 DEF Moved, Moving, One
  <2>6. Frames({"cancel"}, Root)' = Frames({"cancel"}, Root)
    BY <1>3 DEF Moved, One
  <2> QED BY <2>1, <2>2, <2>3, <2>4, <2>5, <2>6
<1>7. \A ops : Frames(ops, Root) \in Nat
  BY <1>3 DEF Moved
<1>8. CountsExact'
  <2>1. DepthExact'
    BY <1>2, <1>4, <1>6, <1>7, Counting DEF DepthExact
  <2>2. RefExact'
    BY <1>1, <1>2, <1>4, <1>6, <1>7, Counting DEF RefExact, One
  <2>3. CallsBack'
    BY <1>2, <1>4, <1>6, <1>7, Counting DEF CallsBack, One
  <2>4. DestroyedLast'
    BY <1>1, <1>2, <1>4, <1>6, <1>7, Counting DEF DestroyedLast, One
  <2>5. EndsByItself'
    BY <1>2, <1>4, <1>6, <1>7, Counting DEF EndsByItself, Tokens, One
  <2>6. AskedFirst'
    BY <1>2, <1>4, <1>6, <1>7, Counting DEF AskedFirst
  <2> QED BY <2>1, <2>2, <2>3, <2>4, <2>5, <2>6 DEF CountsExact
<1> QED BY <1>2, <1>3, <1>4, <1>5, <1>8, Proceeds DEF Births

\* A user cancels.
LEMMA AskKeepsLife ==
  ASSUME WorkInv, ConnectInv', NEW th \in Cancellers, Ask(th), UNCHANGED socket
  PROVE  WorkInv'
<1>1. /\ stack[th] = << >> /\ th \in Threads
      /\ stack' = [stack EXCEPT ![th] = <<Frame("cancel", Root)>>]
      /\ asked' = asked \union {th}
      /\ UNCHANGED <<life, ref, lock, called, timer, completed, missed, early, canceled, io,
                     resolving>>
  BY DEF Ask, Threads, WorkInv, ConnectInv, Silent, operation, rest, history, request, socket
<1>2. Settled /\ life[Root] = "live" /\ (Ended => Ended')
  <2>1. ~Fresh
    <3>1. SUFFICES ASSUME Fresh
                   PROVE  FALSE
      OBVIOUS
    <3>2. PICK op \in Births : /\ stack = FirstCalls(op)
                               /\ life[Root] = IF op = "new" THEN "none" ELSE "live"
      BY <3>1 DEF Fresh
    <3>3. stack[Issuer] = <<Frame(op, Root), Frame("start", Root)>>
      BY <3>2 DEF FirstCalls, Threads
    <3>4. 1 \in DOMAIN stack[Issuer] /\ stack[Issuer][1] = Frame(op, Root)
      BY <3>3
    <3>5. op = "new"
      BY <3>4 DEF Ask, Births, Frame
    <3> QED BY <3>2, <3>5 DEF Ask
  <2>2. Settled
    BY <2>1 DEF WorkInv, LifeInv
  <2>3. life[Root] = "live"
    BY DEF Ask
  <2> QED BY <1>1, <2>2, <2>3 DEF Ended
<1>3. Moved("-", "cancel", "-", "-", "-")
  <2>1. Does(Frame("cancel", Root), "cancel")
    BY <1>1, AtWork, Doings DEF Operations, Outside
  <2>2. {"cancel"} \subseteq ConnectOps
    BY DEF ConnectOps
  <2>3. ~Needy("cancel", Ended')
    BY <1>1, Counting DEF Needy, Ended
  <2> QED BY <1>1, <1>2, <2>1, <2>2, <2>3, Comes1
<1>4. /\ life'[Root] = life[Root] /\ ref'[Root] = ref[Root] /\ lock'[Root].depth = lock[Root].depth
      /\ called'[Root] = called[Root] /\ timer'[Root] = timer[Root]
      /\ completed'[Root] = completed[Root] /\ canceled'[Root] = canceled[Root] /\ asked' # {}
      /\ io'[Root] = io[Root] /\ resolving' = resolving
  BY <1>1, Counting DEF LifeTypes, WorkInv, ConnectInv, SocketInv, SocketTypes
<1>5. LifeTypes'
  BY <1>1, Counting DEF LifeTypes
<1>6. /\ Frames(Holding, Root)' = Frames(Holding, Root)
      /\ Frames(InMonitor, Root)' = Frames(InMonitor, Root)
      /\ Frames({"callback"}, Root)' = Frames({"callback"}, Root)
      /\ Frames({"destroy"}, Root)' = Frames({"destroy"}, Root)
      /\ Frames(Moving, Root)' = Frames(Moving, Root)
      /\ Frames({"cancel"}, Root)' = Frames({"cancel"}, Root) + 1
  <2>1. Frames(Holding, Root)' = Frames(Holding, Root)
    BY <1>3 DEF Moved, Holding, One
  <2>2. Frames(InMonitor, Root)' = Frames(InMonitor, Root)
    BY <1>3 DEF Moved, InMonitor, One
  <2>3. Frames({"callback"}, Root)' = Frames({"callback"}, Root)
    BY <1>3 DEF Moved, One
  <2>4. Frames({"destroy"}, Root)' = Frames({"destroy"}, Root)
    BY <1>3 DEF Moved, One
  <2>5. Frames(Moving, Root)' = Frames(Moving, Root)
    BY <1>3 DEF Moved, Moving, One
  <2>6. Frames({"cancel"}, Root)' = Frames({"cancel"}, Root) + 1
    BY <1>3 DEF Moved, One
  <2> QED BY <2>1, <2>2, <2>3, <2>4, <2>5, <2>6
<1>7. \A ops : Frames(ops, Root) \in Nat
  BY <1>3 DEF Moved
<1>8. CountsExact'
  <2>1. DepthExact'
    BY <1>2, <1>4, <1>6, <1>7, Counting DEF DepthExact
  <2>2. RefExact'
    BY <1>1, <1>2, <1>4, <1>6, <1>7, Counting DEF RefExact, One
  <2>3. CallsBack'
    BY <1>2, <1>4, <1>6, <1>7, Counting DEF CallsBack, One
  <2>4. DestroyedLast'
    BY <1>1, <1>2, <1>4, <1>6, <1>7, Counting DEF DestroyedLast, One
  <2>5. EndsByItself'
    BY <1>2, <1>4, <1>6, <1>7, Counting DEF EndsByItself, Tokens, One
  <2>6. AskedFirst'
    BY <1>2, <1>4, <1>6, <1>7, Counting DEF AskedFirst
  <2> QED BY <2>1, <2>2, <2>3, <2>4, <2>5, <2>6 DEF CountsExact
<1> QED BY <1>2, <1>3, <1>4, <1>5, <1>8, Proceeds DEF Births

\* Who enters a cancelled operation notifies it,
LEMMA EnterInVain ==
  ASSUME WorkInv, ConnectInv', NEW th \in Threads,
         NEW o \in {"connect", "phase1_enter"}, NEW next \in {"resolve", "connectex"},
         At(th, o, Root), AsyncEnter(th, Root, next), canceled[Root],
         UNCHANGED <<life, canceled, called, child, request, timer, io, rest, socket>>
  PROVE  WorkInv'
<1>1. /\ At(th, o, Root)
      /\ Call(th, <<Frame("notify", Root), Frame("unlock", Root)>>)
      /\ Enter(th, Root)
      /\ UNCHANGED <<life, ref, called, timer, completed, missed, early, canceled, asked, io,
                     resolving>>
  BY DEF AsyncEnter, rest, history, request, socket
<1>2. Settled /\ life[Root] = "live" /\ (Ended => Ended')
  <2>1. o \in Operations \ (Outside \union {"new"}) /\ o \notin Births
    BY DEF Operations, Outside, Births
  <2> QED BY <1>1, <2>1, SettledAt, Alive, Counting DEF Ended
<1>3. Moved(o, "notify", "unlock", "-", "-")
  <2>1. /\ Does(Frame("notify", Root), "notify")
        /\ Does(Frame("unlock", Root), "unlock")
    BY <1>1, AtWork, Doings DEF Operations, Outside
  <2>2. {"notify", "unlock"} \subseteq ConnectOps
    BY DEF ConnectOps
  <2>3. ~Needy("notify", Ended') /\ ~Needy("unlock", Ended')
    BY <1>1, Counting DEF Needy, Ended
  <2> QED BY <1>1, <1>2, <2>1, <2>2, <2>3, Goes2
<1>4. /\ lock' \in [Asyncs -> [owner : Threads \union {None}, depth : Nat]]
      /\ lock'[Root].depth = lock[Root].depth + 1
  BY <1>1, Counting, EntersMonitor
<1>5. /\ life'[Root] = life[Root] /\ ref'[Root] = ref[Root]
      /\ lock'[Root].depth = lock[Root].depth + 1 /\ called'[Root] = called[Root]
      /\ timer'[Root] = timer[Root] /\ completed'[Root] = completed[Root]
      /\ canceled'[Root] = canceled[Root] /\ asked' = asked /\ io'[Root] = io[Root]
      /\ resolving' = resolving
  BY <1>1, <1>4, Counting DEF LifeTypes, WorkInv, ConnectInv, SocketInv, SocketTypes
<1>6. LifeTypes'
  BY <1>1, <1>4, Counting DEF LifeTypes
<1>7. /\ Frames(Holding, Root)' = Frames(Holding, Root)
      /\ Frames(InMonitor, Root)' = Frames(InMonitor, Root) + 1
      /\ Frames({"callback"}, Root)' = Frames({"callback"}, Root)
      /\ Frames({"destroy"}, Root)' = Frames({"destroy"}, Root)
      /\ Frames(Moving, Root)' = Frames(Moving, Root)
      /\ Frames({"cancel"}, Root)' = Frames({"cancel"}, Root)
  <2>1. Frames(Holding, Root)' = Frames(Holding, Root)
    BY <1>3 DEF Moved, Holding, One
  <2>2. Frames(InMonitor, Root)' = Frames(InMonitor, Root) + 1
    BY <1>3 DEF Moved, InMonitor, One
  <2>3. Frames({"callback"}, Root)' = Frames({"callback"}, Root)
    BY <1>3 DEF Moved, One
  <2>4. Frames({"destroy"}, Root)' = Frames({"destroy"}, Root)
    BY <1>3 DEF Moved, One
  <2>5. Frames(Moving, Root)' = Frames(Moving, Root)
    BY <1>3 DEF Moved, Moving, One
  <2>6. Frames({"cancel"}, Root)' = Frames({"cancel"}, Root)
    BY <1>3 DEF Moved, One
  <2> QED BY <2>1, <2>2, <2>3, <2>4, <2>5, <2>6
<1>8. \A ops : Frames(ops, Root) \in Nat /\ Frames(Moving, Root) >= 1
  BY <1>3 DEF Moved, Moving
<1>9. CountsExact'
  <2>1. DepthExact'
    BY <1>2, <1>4, <1>5, <1>7, <1>8, Counting DEF DepthExact
  <2>2. RefExact'
    BY <1>2, <1>4, <1>5, <1>7, <1>8, Counting DEF RefExact, One
  <2>3. CallsBack'
    BY <1>2, <1>4, <1>5, <1>7, <1>8, Counting DEF CallsBack, One
  <2>4. DestroyedLast'
    BY <1>2, <1>4, <1>5, <1>7, <1>8, Counting DEF DestroyedLast, One
  <2>5. EndsByItself'
    BY <1>2, <1>4, <1>5, <1>7, <1>8, Counting DEF EndsByItself, Tokens, One
  <2>6. AskedFirst'
    BY <1>2, <1>4, <1>5, <1>7, <1>8, Counting DEF AskedFirst
  <2> QED BY <2>1, <2>2, <2>3, <2>4, <2>5, <2>6 DEF CountsExact
<1> QED BY <1>2, <1>3, <1>5, <1>6, <1>9, Proceeds DEF Births

\* who enters another holds a reference; nobody has called back yet.
LEMMA EnterKeepsLife ==
  ASSUME WorkInv, ConnectInv', NEW th \in Threads,
         NEW o \in {"connect", "phase1_enter"}, NEW next \in {"resolve", "connectex"},
         At(th, o, Root), AsyncEnter(th, Root, next), ~canceled[Root],
         UNCHANGED <<life, canceled, called, child, request, timer, io, rest, socket>>
  PROVE  WorkInv'
<1>1. /\ At(th, o, Root)
      /\ Call(th, <<Frame(next, Root)>>)
      /\ Enter(th, Root)
      /\ ref' = [ref EXCEPT ![Root] = @ + 1]
      /\ UNCHANGED <<life, called, timer, completed, missed, early, canceled, asked, io, resolving>>
  BY DEF AsyncEnter, rest, history, request, socket
<1>2. Settled /\ life[Root] = "live" /\ (Ended => Ended')
  <2>1. o \in Operations \ (Outside \union {"new"}) /\ o \notin Births
    BY DEF Operations, Outside, Births
  <2> QED BY <1>1, <2>1, SettledAt, Alive, Counting DEF Ended
<1>3. Moved(o, next, "-", "-", "-")
  <2>1. Does(Frame(next, Root), next)
    BY <1>1, AtWork, Doings DEF Operations, Outside
  <2>2. {next} \subseteq ConnectOps
    BY DEF ConnectOps
  <2>3. ~Needy(next, Ended')
    BY <1>1, Counting DEF Needy, Ended
  <2> QED BY <1>1, <1>2, <2>1, <2>2, <2>3, Goes1
<1>4. /\ lock' \in [Asyncs -> [owner : Threads \union {None}, depth : Nat]]
      /\ lock'[Root].depth = lock[Root].depth + 1
  BY <1>1, Counting, EntersMonitor
<1>5. /\ life'[Root] = life[Root] /\ ref'[Root] = ref[Root] + 1
      /\ lock'[Root].depth = lock[Root].depth + 1 /\ called'[Root] = called[Root]
      /\ timer'[Root] = timer[Root] /\ completed'[Root] = completed[Root]
      /\ canceled'[Root] = canceled[Root] /\ asked' = asked /\ io'[Root] = io[Root]
      /\ resolving' = resolving
  BY <1>1, <1>4, Counting DEF LifeTypes, WorkInv, ConnectInv, SocketInv, SocketTypes
<1>6. LifeTypes'
  BY <1>1, <1>4, Counting DEF LifeTypes
<1>7. /\ Frames(Holding, Root)' = Frames(Holding, Root) + 1
      /\ Frames(InMonitor, Root)' = Frames(InMonitor, Root) + 1
      /\ Frames({"callback"}, Root)' = Frames({"callback"}, Root)
      /\ Frames({"destroy"}, Root)' = Frames({"destroy"}, Root)
      /\ Frames(Moving, Root)' = Frames(Moving, Root)
      /\ Frames({"cancel"}, Root)' = Frames({"cancel"}, Root)
  <2>1. Frames(Holding, Root)' = Frames(Holding, Root) + 1
    BY <1>3 DEF Moved, Holding, One
  <2>2. Frames(InMonitor, Root)' = Frames(InMonitor, Root) + 1
    BY <1>3 DEF Moved, InMonitor, One
  <2>3. Frames({"callback"}, Root)' = Frames({"callback"}, Root)
    BY <1>3 DEF Moved, One
  <2>4. Frames({"destroy"}, Root)' = Frames({"destroy"}, Root)
    BY <1>3 DEF Moved, One
  <2>5. Frames(Moving, Root)' = Frames(Moving, Root)
    BY <1>3 DEF Moved, Moving, One
  <2>6. Frames({"cancel"}, Root)' = Frames({"cancel"}, Root)
    BY <1>3 DEF Moved, One
  <2> QED BY <2>1, <2>2, <2>3, <2>4, <2>5, <2>6
<1>8. \A ops : Frames(ops, Root) \in Nat /\ Frames(Moving, Root) >= 1
  BY <1>3 DEF Moved, Moving
<1>9. CountsExact'
  <2>1. DepthExact'
    BY <1>2, <1>4, <1>5, <1>7, <1>8, Counting DEF DepthExact
  <2>2. RefExact'
    BY <1>2, <1>4, <1>5, <1>7, <1>8, Counting DEF RefExact, One
  <2>3. CallsBack'
    BY <1>2, <1>4, <1>5, <1>7, <1>8, Counting DEF CallsBack, One
  <2>4. DestroyedLast'
    <3>1. ~called[Root]
      BY <1>8, Counting DEF EndsByItself, Tokens, One
    <3> QED BY <1>2, <1>5, <1>7, <1>8, <3>1, Counting DEF DestroyedLast, One
  <2>5. EndsByItself'
    BY <1>2, <1>4, <1>5, <1>7, <1>8, Counting DEF EndsByItself, Tokens, One
  <2>6. AskedFirst'
    BY <1>2, <1>4, <1>5, <1>7, <1>8, Counting DEF AskedFirst
  <2> QED BY <2>1, <2>2, <2>3, <2>4, <2>5, <2>6 DEF CountsExact
<1> QED BY <1>2, <1>3, <1>5, <1>6, <1>9, Proceeds DEF Births

-----------------------------------------------------------------------------
(* The operation becomes known *)

LEMMA CallsNext ==
  ASSUME NEW o, stack = FirstCalls(o), NEW op, Call(Issuer, <<Frame(op, Root)>>)
  PROVE  stack' = FirstCalls(op)
<1> DEFINE f == Frame(op, Root)
           g == Frame("start", Root)
           h == Frame(o, Root)
<1>1. stack = [th \in Threads |-> IF th = Issuer THEN <<h, g>> ELSE << >>]
  BY DEF FirstCalls
<1>2. stack' = [stack EXCEPT ![Issuer] = <<f>> \o Tail(@)]
  BY DEF Call
<1> HIDE DEF f, g, h
<1>3. Issuer \in Threads /\ Tail(<<h, g>>) = <<g>>
  BY DEF Threads
<1>4. <<f>> \o <<g>> = <<f, g>>
  BY Tuples
<1>5. stack' = [th \in Threads |-> IF th = Issuer THEN <<f, g>> ELSE << >>]
  BY <1>1, <1>2, <1>3, <1>4
<1> QED BY <1>5 DEF FirstCalls, f, g

\* It is created without a timer,
LEMMA NewKeepsLife ==
  ASSUME WorkInv, ConnectInv', NEW th \in Threads, New(th, Root), Root \notin Timed,
         UNCHANGED socket
  PROVE  WorkInv'
<1>1. /\ At(th, "new", Root)
      /\ Call(th, << >>)
      /\ life' = [life EXCEPT ![Root] = "live"]
      /\ ref' = [ref EXCEPT ![Root] = 1]
      /\ UNCHANGED <<lock, called, timer, completed, missed, early, canceled, asked, io, resolving>>
  BY DEF New, rest, history, request, socket
<1>2. /\ Fresh /\ th = Issuer /\ stack = FirstCalls("new")
      /\ life[Root] = "none" /\ (Ended => Ended')
  BY <1>1, FreshAt DEF Births, Ended
<1>3. Moved("new", "-", "-", "-", "-")
  <2> QED BY <1>1, <1>2, Goes0
<1>4. /\ Frames(Holding, Root) = 0 /\ Frames({"callback"}, Root) = 0
      /\ Frames({"destroy"}, Root) = 0 /\ ~called[Root] /\ timer[Root] # "armed"
      /\ completed[Root] = 0
  BY <1>2, FreshFrames DEF Holding, Fresh
<1>5. /\ life'[Root] = "live" /\ ref'[Root] = 1 /\ lock'[Root].depth = lock[Root].depth
      /\ called'[Root] = called[Root] /\ timer'[Root] = timer[Root]
      /\ completed'[Root] = completed[Root] /\ canceled'[Root] = canceled[Root] /\ asked' = asked
      /\ io'[Root] = io[Root] /\ resolving' = resolving
  BY <1>1, <1>4, Counting DEF LifeTypes, WorkInv, ConnectInv, SocketInv, SocketTypes
<1>6. LifeTypes'
  BY <1>1, <1>4, Counting DEF LifeTypes
<1>7. /\ Frames(Holding, Root)' = Frames(Holding, Root)
      /\ Frames(InMonitor, Root)' = Frames(InMonitor, Root)
      /\ Frames({"callback"}, Root)' = Frames({"callback"}, Root)
      /\ Frames({"destroy"}, Root)' = Frames({"destroy"}, Root)
      /\ Frames(Moving, Root)' = Frames(Moving, Root)
      /\ Frames({"cancel"}, Root)' = Frames({"cancel"}, Root)
  <2>1. Frames(Holding, Root)' = Frames(Holding, Root)
    BY <1>3 DEF Moved, Holding, One
  <2>2. Frames(InMonitor, Root)' = Frames(InMonitor, Root)
    BY <1>3 DEF Moved, InMonitor, One
  <2>3. Frames({"callback"}, Root)' = Frames({"callback"}, Root)
    BY <1>3 DEF Moved, One
  <2>4. Frames({"destroy"}, Root)' = Frames({"destroy"}, Root)
    BY <1>3 DEF Moved, One
  <2>5. Frames(Moving, Root)' = Frames(Moving, Root)
    BY <1>3 DEF Moved, Moving, One
  <2>6. Frames({"cancel"}, Root)' = Frames({"cancel"}, Root)
    BY <1>3 DEF Moved, One
  <2> QED BY <2>1, <2>2, <2>3, <2>4, <2>5, <2>6
<1>8. \A ops : Frames(ops, Root) \in Nat
  BY <1>3 DEF Moved
<1>9. CountsExact'
  <2>1. DepthExact'
    BY <1>2, <1>4, <1>5, <1>7, <1>8, Counting DEF DepthExact
  <2>2. RefExact'
    BY <1>2, <1>4, <1>5, <1>7, <1>8, Counting DEF RefExact, One
  <2>3. CallsBack'
    BY <1>2, <1>4, <1>5, <1>7, <1>8, Counting DEF CallsBack, One
  <2>4. DestroyedLast'
    BY <1>2, <1>4, <1>5, <1>7, <1>8, Counting DEF DestroyedLast, One
  <2>5. EndsByItself'
    BY <1>2, <1>4, <1>5, <1>7, <1>8, Counting DEF EndsByItself, Tokens, One
  <2>6. AskedFirst'
    BY <1>2, <1>4, <1>5, <1>7, <1>8, Counting DEF AskedFirst
  <2> QED BY <2>1, <2>2, <2>3, <2>4, <2>5, <2>6 DEF CountsExact
<1>10. Settled'
  <2>1. "-" \notin Births /\ One("new" \in Births) = 1 /\ One("-" \in Births) = 0
    BY DEF Births, One
  <2>2. Frames(Births, Root)' = Frames(Births, Root) - One("new" \in Births) + One("-" \in Births)
          + One("-" \in Births) + One("-" \in Births) + One("-" \in Births)
    BY <1>3, <2>1 DEF Moved
  <2> QED BY <1>2, <1>5, <2>1, <2>2 DEF Settled, Fresh
<1> QED BY <1>3, <1>6, <1>9, <1>10 DEF WorkInv, LifeInv, Moved

\* or with one,
LEMMA NewTimedKeepsLife ==
  ASSUME WorkInv, ConnectInv', NEW th \in Threads, New(th, Root), Root \in Timed, UNCHANGED socket
  PROVE  WorkInv'
<1>1. /\ At(th, "new", Root)
      /\ Call(th, <<Frame("add_timer_ref", Root)>>)
      /\ life' = [life EXCEPT ![Root] = "live"]
      /\ ref' = [ref EXCEPT ![Root] = 1]
      /\ UNCHANGED <<lock, called, timer, completed, missed, early, canceled, asked, io, resolving>>
  BY DEF New, rest, history, request, socket
<1>2. /\ Fresh /\ th = Issuer /\ stack = FirstCalls("new")
      /\ life[Root] = "none" /\ (Ended => Ended')
  BY <1>1, FreshAt DEF Births, Ended
<1>3. Moved("new", "add_timer_ref", "-", "-", "-")
  <2>1. Does(Frame("add_timer_ref", Root), "add_timer_ref")
    BY <1>1, AtWork, Doings DEF Operations, Outside
  <2>2. {"add_timer_ref"} \subseteq ConnectOps
    BY DEF ConnectOps
  <2>3. ~Needy("add_timer_ref", Ended')
    BY <1>1, Counting DEF Needy, Ended
  <2> QED BY <1>1, <1>2, <2>1, <2>2, <2>3, Goes1
<1>4. /\ Frames(Holding, Root) = 0 /\ Frames({"callback"}, Root) = 0
      /\ Frames({"destroy"}, Root) = 0 /\ ~called[Root] /\ timer[Root] # "armed"
      /\ completed[Root] = 0
  BY <1>2, FreshFrames DEF Holding, Fresh
<1>5. /\ life'[Root] = "live" /\ ref'[Root] = 1 /\ lock'[Root].depth = lock[Root].depth
      /\ called'[Root] = called[Root] /\ timer'[Root] = timer[Root]
      /\ completed'[Root] = completed[Root] /\ canceled'[Root] = canceled[Root] /\ asked' = asked
      /\ io'[Root] = io[Root] /\ resolving' = resolving
  BY <1>1, <1>4, Counting DEF LifeTypes, WorkInv, ConnectInv, SocketInv, SocketTypes
<1>6. LifeTypes'
  BY <1>1, <1>4, Counting DEF LifeTypes
<1>7. /\ Frames(Holding, Root)' = Frames(Holding, Root)
      /\ Frames(InMonitor, Root)' = Frames(InMonitor, Root)
      /\ Frames({"callback"}, Root)' = Frames({"callback"}, Root)
      /\ Frames({"destroy"}, Root)' = Frames({"destroy"}, Root)
      /\ Frames(Moving, Root)' = Frames(Moving, Root)
      /\ Frames({"cancel"}, Root)' = Frames({"cancel"}, Root)
  <2>1. Frames(Holding, Root)' = Frames(Holding, Root)
    BY <1>3 DEF Moved, Holding, One
  <2>2. Frames(InMonitor, Root)' = Frames(InMonitor, Root)
    BY <1>3 DEF Moved, InMonitor, One
  <2>3. Frames({"callback"}, Root)' = Frames({"callback"}, Root)
    BY <1>3 DEF Moved, One
  <2>4. Frames({"destroy"}, Root)' = Frames({"destroy"}, Root)
    BY <1>3 DEF Moved, One
  <2>5. Frames(Moving, Root)' = Frames(Moving, Root)
    BY <1>3 DEF Moved, Moving, One
  <2>6. Frames({"cancel"}, Root)' = Frames({"cancel"}, Root)
    BY <1>3 DEF Moved, One
  <2> QED BY <2>1, <2>2, <2>3, <2>4, <2>5, <2>6
<1>8. \A ops : Frames(ops, Root) \in Nat
  BY <1>3 DEF Moved
<1>9. CountsExact'
  <2>1. DepthExact'
    BY <1>2, <1>4, <1>5, <1>7, <1>8, Counting DEF DepthExact
  <2>2. RefExact'
    BY <1>2, <1>4, <1>5, <1>7, <1>8, Counting DEF RefExact, One
  <2>3. CallsBack'
    BY <1>2, <1>4, <1>5, <1>7, <1>8, Counting DEF CallsBack, One
  <2>4. DestroyedLast'
    BY <1>2, <1>4, <1>5, <1>7, <1>8, Counting DEF DestroyedLast, One
  <2>5. EndsByItself'
    BY <1>2, <1>4, <1>5, <1>7, <1>8, Counting DEF EndsByItself, Tokens, One
  <2>6. AskedFirst'
    BY <1>2, <1>4, <1>5, <1>7, <1>8, Counting DEF AskedFirst
  <2> QED BY <2>1, <2>2, <2>3, <2>4, <2>5, <2>6 DEF CountsExact
<1>10. Fresh'
  <2>1. "-" \notin Births /\ One("new" \in Births) = 1 /\ One("-" \in Births) = 0
        /\ One("add_timer_ref" \in Births) = 1
    BY DEF Births, One
  <2>2. Frames(Births, Root)'
          = Frames(Births, Root) - One("new" \in Births) + One("add_timer_ref" \in Births)
          + One("-" \in Births) + One("-" \in Births) + One("-" \in Births)
    BY <1>3, <2>1 DEF Moved
  <2>3. stack' = FirstCalls("add_timer_ref")
    BY <1>1, <1>2, CallsNext
  <2>4. stale' = {}
    BY <1>2 DEF Fresh, New, rest
  <2>5. "add_timer_ref" \in Births
    BY DEF Births
  <2> QED BY <1>2, <1>5, <2>1, <2>2, <2>3, <2>4, <2>5 DEF Fresh
<1> QED BY <1>3, <1>6, <1>9, <1>10 DEF WorkInv, LifeInv, Moved

\* which gets its reference
LEMMA AddTimerRefKeepsLife ==
  ASSUME WorkInv, ConnectInv', NEW th \in Threads, AddTimerRef(th, Root), UNCHANGED socket
  PROVE  WorkInv'
<1>1. /\ At(th, "add_timer_ref", Root)
      /\ Call(th, <<Frame("schedule", Root)>>)
      /\ ref' = [ref EXCEPT ![Root] = @ + 1]
      /\ UNCHANGED <<life, lock, called, timer, completed, missed, early, canceled, asked, io,
                     resolving>>
  BY DEF AddTimerRef, rest, history, request, socket
<1>2. /\ Fresh /\ th = Issuer /\ stack = FirstCalls("add_timer_ref")
      /\ life[Root] = "live" /\ (Ended => Ended')
  BY <1>1, FreshAt DEF Births, Ended
<1>3. Moved("add_timer_ref", "schedule", "-", "-", "-")
  <2>1. Does(Frame("schedule", Root), "schedule")
    BY <1>1, AtWork, Doings DEF Operations, Outside
  <2>2. {"schedule"} \subseteq ConnectOps
    BY DEF ConnectOps
  <2>3. ~Needy("schedule", Ended')
    BY <1>1, Counting DEF Needy, Ended
  <2> QED BY <1>1, <1>2, <2>1, <2>2, <2>3, Goes1
<1>4. ~called[Root] /\ Frames({"destroy"}, Root) = 0 /\ life[Root] = "live"
  BY <1>2, FreshFrames DEF Fresh
<1>5. /\ life'[Root] = life[Root] /\ ref'[Root] = ref[Root] + 1
      /\ lock'[Root].depth = lock[Root].depth /\ called'[Root] = called[Root]
      /\ timer'[Root] = timer[Root] /\ completed'[Root] = completed[Root]
      /\ canceled'[Root] = canceled[Root] /\ asked' = asked /\ io'[Root] = io[Root]
      /\ resolving' = resolving
  BY <1>1, <1>4, Counting DEF LifeTypes, WorkInv, ConnectInv, SocketInv, SocketTypes
<1>6. LifeTypes'
  BY <1>1, <1>4, Counting DEF LifeTypes
<1>7. /\ Frames(Holding, Root)' = Frames(Holding, Root) + 1
      /\ Frames(InMonitor, Root)' = Frames(InMonitor, Root)
      /\ Frames({"callback"}, Root)' = Frames({"callback"}, Root)
      /\ Frames({"destroy"}, Root)' = Frames({"destroy"}, Root)
      /\ Frames(Moving, Root)' = Frames(Moving, Root)
      /\ Frames({"cancel"}, Root)' = Frames({"cancel"}, Root)
  <2>1. Frames(Holding, Root)' = Frames(Holding, Root) + 1
    BY <1>3 DEF Moved, Holding, One
  <2>2. Frames(InMonitor, Root)' = Frames(InMonitor, Root)
    BY <1>3 DEF Moved, InMonitor, One
  <2>3. Frames({"callback"}, Root)' = Frames({"callback"}, Root)
    BY <1>3 DEF Moved, One
  <2>4. Frames({"destroy"}, Root)' = Frames({"destroy"}, Root)
    BY <1>3 DEF Moved, One
  <2>5. Frames(Moving, Root)' = Frames(Moving, Root)
    BY <1>3 DEF Moved, Moving, One
  <2>6. Frames({"cancel"}, Root)' = Frames({"cancel"}, Root)
    BY <1>3 DEF Moved, One
  <2> QED BY <2>1, <2>2, <2>3, <2>4, <2>5, <2>6
<1>8. \A ops : Frames(ops, Root) \in Nat
  BY <1>3 DEF Moved
<1>9. CountsExact'
  <2>1. DepthExact'
    BY <1>2, <1>4, <1>5, <1>7, <1>8, Counting DEF DepthExact
  <2>2. RefExact'
    BY <1>2, <1>4, <1>5, <1>7, <1>8, Counting DEF RefExact, One
  <2>3. CallsBack'
    BY <1>2, <1>4, <1>5, <1>7, <1>8, Counting DEF CallsBack, One
  <2>4. DestroyedLast'
    BY <1>2, <1>4, <1>5, <1>7, <1>8, Counting DEF DestroyedLast, One
  <2>5. EndsByItself'
    BY <1>2, <1>4, <1>5, <1>7, <1>8, Counting DEF EndsByItself, Tokens, One
  <2>6. AskedFirst'
    BY <1>2, <1>4, <1>5, <1>7, <1>8, Counting DEF AskedFirst
  <2> QED BY <2>1, <2>2, <2>3, <2>4, <2>5, <2>6 DEF CountsExact
<1>10. Fresh'
  <2>1. "-" \notin Births /\ One("add_timer_ref" \in Births) = 1 /\ One("-" \in Births) = 0
        /\ One("schedule" \in Births) = 1
    BY DEF Births, One
  <2>2. Frames(Births, Root)'
          = Frames(Births, Root) - One("add_timer_ref" \in Births) + One("schedule" \in Births)
          + One("-" \in Births) + One("-" \in Births) + One("-" \in Births)
    BY <1>3, <2>1 DEF Moved
  <2>3. stack' = FirstCalls("schedule")
    BY <1>1, <1>2, CallsNext
  <2>4. stale' = {}
    BY <1>2 DEF Fresh, AddTimerRef, rest
  <2>5. "schedule" \in Births
    BY DEF Births
  <2> QED BY <1>2, <1>5, <2>1, <2>2, <2>3, <2>4, <2>5 DEF Fresh
<1> QED BY <1>3, <1>6, <1>9, <1>10 DEF WorkInv, LifeInv, Moved

\* before it is set.
LEMMA ScheduleKeepsLife ==
  ASSUME WorkInv, ConnectInv', NEW th \in Threads, Schedule(th, Root), UNCHANGED socket
  PROVE  WorkInv'
<1>1. /\ At(th, "schedule", Root)
      /\ Call(th, << >>)
      /\ timer' = [timer EXCEPT ![Root] = "armed"]
      /\ UNCHANGED <<life, ref, lock, called, completed, missed, early, canceled, asked, io,
                     resolving>>
  BY DEF Schedule, Return, rest, history, request, socket
<1>2. /\ Fresh /\ th = Issuer /\ stack = FirstCalls("schedule")
      /\ life[Root] = "live" /\ (Ended => Ended')
  BY <1>1, FreshAt DEF Births, Ended
<1>3. Moved("schedule", "-", "-", "-", "-")
  <2> QED BY <1>1, <1>2, Goes0
<1>4. /\ ~called[Root] /\ timer[Root] = "idle" /\ Frames({"destroy"}, Root) = 0
      /\ life[Root] = "live"
  BY <1>2, FreshFrames DEF Fresh
<1>5. /\ life'[Root] = life[Root] /\ ref'[Root] = ref[Root] /\ lock'[Root].depth = lock[Root].depth
      /\ called'[Root] = called[Root] /\ timer'[Root] = "armed"
      /\ completed'[Root] = completed[Root]
      /\ canceled'[Root] = canceled[Root] /\ asked' = asked /\ io'[Root] = io[Root]
      /\ resolving' = resolving
  BY <1>1, <1>4, Counting DEF LifeTypes, WorkInv, ConnectInv, SocketInv, SocketTypes
<1>6. LifeTypes'
  BY <1>1, <1>4, Counting DEF LifeTypes
<1>7. /\ Frames(Holding, Root)' = Frames(Holding, Root) - 1
      /\ Frames(InMonitor, Root)' = Frames(InMonitor, Root)
      /\ Frames({"callback"}, Root)' = Frames({"callback"}, Root)
      /\ Frames({"destroy"}, Root)' = Frames({"destroy"}, Root)
      /\ Frames(Moving, Root)' = Frames(Moving, Root)
      /\ Frames({"cancel"}, Root)' = Frames({"cancel"}, Root)
  <2>1. Frames(Holding, Root)' = Frames(Holding, Root) - 1
    BY <1>3 DEF Moved, Holding, One
  <2>2. Frames(InMonitor, Root)' = Frames(InMonitor, Root)
    BY <1>3 DEF Moved, InMonitor, One
  <2>3. Frames({"callback"}, Root)' = Frames({"callback"}, Root)
    BY <1>3 DEF Moved, One
  <2>4. Frames({"destroy"}, Root)' = Frames({"destroy"}, Root)
    BY <1>3 DEF Moved, One
  <2>5. Frames(Moving, Root)' = Frames(Moving, Root)
    BY <1>3 DEF Moved, Moving, One
  <2>6. Frames({"cancel"}, Root)' = Frames({"cancel"}, Root)
    BY <1>3 DEF Moved, One
  <2> QED BY <2>1, <2>2, <2>3, <2>4, <2>5, <2>6
<1>8. \A ops : Frames(ops, Root) \in Nat /\ Frames(Holding, Root) >= 1
  BY <1>3 DEF Moved, Holding
<1>9. CountsExact'
  <2>1. DepthExact'
    BY <1>2, <1>4, <1>5, <1>7, <1>8, Counting DEF DepthExact
  <2>2. RefExact'
    BY <1>2, <1>4, <1>5, <1>7, <1>8, Counting DEF RefExact, One
  <2>3. CallsBack'
    BY <1>2, <1>4, <1>5, <1>7, <1>8, Counting DEF CallsBack, One
  <2>4. DestroyedLast'
    BY <1>2, <1>4, <1>5, <1>7, <1>8, Counting DEF DestroyedLast, One
  <2>5. EndsByItself'
    BY <1>2, <1>4, <1>5, <1>7, <1>8, Counting DEF EndsByItself, Tokens, One
  <2>6. AskedFirst'
    BY <1>2, <1>4, <1>5, <1>7, <1>8, Counting DEF AskedFirst
  <2> QED BY <2>1, <2>2, <2>3, <2>4, <2>5, <2>6 DEF CountsExact
<1>10. Settled'
  <2>1. "-" \notin Births /\ One("schedule" \in Births) = 1 /\ One("-" \in Births) = 0
    BY DEF Births, One
  <2>2. Frames(Births, Root)'
          = Frames(Births, Root) - One("schedule" \in Births) + One("-" \in Births)
          + One("-" \in Births) + One("-" \in Births) + One("-" \in Births)
    BY <1>3, <2>1 DEF Moved
  <2> QED BY <1>2, <1>5, <2>1, <2>2 DEF Settled, Fresh
<1> QED BY <1>3, <1>6, <1>9, <1>10 DEF WorkInv, LifeInv, Moved

-----------------------------------------------------------------------------
(* Every step *)

\* What the threads do about any operation.
LEMMA CommonKeepsLife ==
  ASSUME Ops \subseteq {"connect"}, WorkInv, ConnectInv', NEW th \in Threads, Common(th)
  PROVE  WorkInv'
<1>1. UNCHANGED socket
  BY DEF Common
<1>2. CASE New(th, Root) \/ AddTimerRef(th, Root) \/ Schedule(th, Root) \/ Start(th, Root)
  BY <1>1, <1>2, NewKeepsLife, NewTimedKeepsLife, AddTimerRefKeepsLife, ScheduleKeepsLife,
     StartKeepsLife
<1>3. CASE Notify(th, Root)
  BY <1>1, <1>3, NotifyTakesTimer, NotifyKeepsLife
<1>4. CASE AsyncNotify(th, Root)
  BY <1>1, <1>4, AsyncNotifyKeepsLife, NotifiesInVain
<1>5. CASE Callback(th, Root)
  BY <1>1, <1>5, CallbackKeepsLife
<1>6. CASE AsyncCancel(th, Root)
  BY <1>1, <1>6, CancelTakesTimer, AsyncCancelKeepsLife
<1>7. CASE Cancel(th, Root)
  <2>1. child[Root] = None
    BY DEF WorkInv, ConnectInv, SocketInv, SocketTypes, Asyncs
  <2>2. CancelCall(th, Root) \/ CancelDirectly(th, Root)
    BY <1>7, <2>1 DEF Cancel, CancelChild
  <2> QED BY <1>1, <1>7, <2>2, CancelCallKeepsLife, CancelDirectlyKeepsLife
<1>8. CASE Release(th, Root)
  BY <1>1, <1>8, ReleaseKeepsLife, LastReleaseKeepsLife
<1>9. CASE Unlock(th, Root)
  BY <1>1, <1>9, UnlockKeepsLife
<1>10. CASE UseAfterFree(th)
  BY <1>1, <1>10, LateKeepsLife
<1> QED BY <1>2, <1>3, <1>4, <1>5, <1>6, <1>7, <1>8, <1>9, <1>10 DEF Common

\* A thread enters.
LEMMA EnteringKeepsLife ==
  ASSUME WorkInv, ConnectInv', NEW th \in Threads, Connect(th) \/ Phase1Enter(th)
  PROVE  WorkInv'
<1>1. PICK o \in {"connect", "phase1_enter"}, next \in {"resolve", "connectex"} :
        At(th, o, Root) /\ AsyncEnter(th, Root, next)
  BY DEF Connect, Phase1Enter
<1>2. UNCHANGED <<life, canceled, called, child, request, timer, io, rest, socket>>
  BY DEF Connect, Phase1Enter
<1> QED BY <1>1, <1>2, EnterInVain, EnterKeepsLife

\* The invariant is inductive.
LEMMA LifeInductive ==
  ASSUME Ops \subseteq {"connect"}, WorkInv, [ConnectNext]_connectVars
  PROVE  WorkInv'
<1>1. ConnectInv'
  BY ConnectInductive DEF WorkInv
<1>2. ASSUME NEW th \in Threads, ConnectStep(th)
      PROVE  WorkInv'
  <2>1. CASE Common(th)
    BY <1>1, <2>1, CommonKeepsLife
  <2>2. CASE Connect(th) \/ Phase1Enter(th)
    BY <1>1, <2>2, EnteringKeepsLife
  <2>3. CASE Resolve(th) \/ Phase1Failed(th) \/ Phase1(th)
    BY <1>1, <2>3, ResolveKeepsLife, Phase1FailedKeepsLife, Phase1KeepsLife
  <2>4. CASE ConnectEx(th) \/ Close(th) \/ Phase2(th) \/ DestroyConnect(th)
    BY <1>1, <2>4, ConnectExKeepsLife, CloseKeepsLife, Phase2KeepsLife, DestroyKeepsLife
  <2> QED BY <1>2, <2>1, <2>2, <2>3, <2>4 DEF ConnectStep
<1>3. ASSUME UNCHANGED socket, IoEnds(Root) \/ TimeoutFires(Root)
      PROVE  WorkInv'
  BY <1>1, <1>3, LateKeepsLife, TimeoutKeepsLife
<1>4. ASSUME NEW th \in Cancellers, Ask(th), UNCHANGED socket
      PROVE  WorkInv'
  BY <1>1, <1>4, AskKeepsLife
<1>5. CASE ConnectNext
  BY <1>1, <1>2, <1>3, <1>4, <1>5, ResolutionEndsKeepsLife, DequeueConnectKeepsLife
     DEF ConnectNext
<1>6. CASE UNCHANGED connectVars
  <2>1. UNCHANGED <<stack, life, ref, lock, canceled, called, timer, io, completed, missed, early,
                    asked, stale, resolving>>
    BY <1>6 DEF connectVars, vars, operation, history, socket
  <2>2. \A ops : Frames(ops, Root)' = Frames(ops, Root)
    BY <2>1 DEF Frames
  <2>3. LifeTypes'
    BY <2>1 DEF WorkInv, LifeInv, LifeTypes
  <2>4. Settled' \/ Fresh'
    BY <2>1, <2>2 DEF WorkInv, LifeInv, Settled, Fresh, FirstCalls
  <2>5. \A th \in Threads : Ordered(stack[th], Ended)'
    BY <2>1 DEF WorkInv, LifeInv, Ended
  <2>6. DepthExact' /\ RefExact' /\ CallsBack' /\ DestroyedLast' /\ AskedFirst'
    BY <2>1, <2>2 DEF WorkInv, LifeInv, CountsExact, DepthExact, RefExact, CallsBack, DestroyedLast,
       AskedFirst
  <2>7. EndsByItself'
    BY <2>1, <2>2 DEF WorkInv, LifeInv, CountsExact, EndsByItself, Tokens
  <2> QED BY <1>1, <2>3, <2>4, <2>5, <2>6, <2>7 DEF WorkInv, LifeInv, CountsExact
<1> QED BY <1>5, <1>6

\* It holds at first.
LEMMA LifeInitially ==
  ASSUME ConnectInit
  PROVE  WorkInv
<1>1. /\ \A ops : Frames(ops, Root) = One("start" \in ops) + One("new" \in ops)
      /\ stack = FirstCalls("new")
  BY FirstFrames DEF ConnectInit, Init, FirstCalls
<1>2. LifeTypes
  BY DEF ConnectInit, Init, NoneYet, LifeTypes
<1>3. /\ life[Root] = "none" /\ lock[Root].depth = 0 /\ ~canceled[Root] /\ ~called[Root]
      /\ timer[Root] = "idle" /\ io[Root] = "none" /\ completed[Root] = 0 /\ resolving = "none"
      /\ asked = {} /\ stale = {}
  BY DEF ConnectInit, Init, NoneYet, Asyncs
<1>4. Fresh
  <2>1. "new" \in Births /\ Frames(Births, Root) = 1
    BY <1>1 DEF Births, One
  <2> QED BY <1>1, <1>3, <2>1 DEF Fresh
<1>5. /\ Frames(InMonitor, Root) = 0 /\ Frames({"callback"}, Root) = 0
      /\ Frames({"destroy"}, Root) = 0 /\ Frames({"cancel"}, Root) = 0 /\ Frames(Moving, Root) = 1
  BY <1>1 DEF InMonitor, Moving, One
<1>6. CountsExact
  BY <1>3, <1>5
     DEF CountsExact, DepthExact, RefExact, CallsBack, DestroyedLast, EndsByItself, Tokens,
     AskedFirst, One
<1>7. \A th \in Threads : Ordered(stack[th], Ended)
  <2>1. Ordered(<<Frame("new", Root), Frame("start", Root)>>, FALSE)
    <3>1. Does(Frame("new", Root), "new") /\ Does(Frame("start", Root), "start")
      BY Doings DEF Operations
    <3>2. {"new", "start"} \subseteq ConnectOps /\ ~Needy("new", FALSE) /\ ~Needy("start", FALSE)
      BY DEF ConnectOps, Needy
    <3> QED BY <3>1, <3>2, OrderedTwo
  <2>2. Ended = FALSE
    BY <1>3 DEF Ended
  <2> QED BY <1>1, <2>1, <2>2, OrderedNone DEF FirstCalls
<1> QED BY <1>2, <1>4, <1>6, <1>7, ConnectInitially DEF WorkInv, LifeInv

LEMMA LifeInvariant ==
  ASSUME Ops \subseteq {"connect"}
  PROVE  ConnectSafeSpec => []WorkInv
<1>1. ConnectInit => WorkInv
  BY LifeInitially
<1>2. WorkInv /\ [ConnectNext]_connectVars => WorkInv'
  BY LifeInductive
<1> QED BY <1>1, <1>2, PTL DEF ConnectSafeSpec

-----------------------------------------------------------------------------
(* What follows about its life *)

\* Every variable of a connect has a value of its kind, and the socket is closed
\* twice at most.
THEOREM ConnectTypeCorrect ==
  ASSUME Ops \subseteq {"connect"}
  PROVE  ConnectSafeSpec => []ConnectTypeOK
<1>1. ASSUME WorkInv
      PROVE  ConnectTypeOK
  <2>1. SocketTypes /\ LifeTypes /\ \A ops : Frames(ops, Root) \in Nat
    BY <1>1, CountsAreNumbers DEF WorkInv, ConnectInv, SocketInv, LifeInv
  <2>2. child \in [Asyncs -> Asyncs \union {None}]
    BY <2>1 DEF SocketTypes
  <2>3. io_type \in [Asyncs -> {"phase1", "phase2", "receive", "send", "accept", "disconnect"}]
    BY <2>1 DEF SocketTypes
  <2>4. TypeOK
    BY <2>1, <2>2, <2>3 DEF TypeOK, SocketTypes, LifeTypes, Stacks
  <2>5. closes \in 0..2
    <3>1. ClosedBy /\ closes \in Nat /\ io_type[Root] \in {"phase1", "phase2"}
      BY <1>1, <2>1 DEF WorkInv, ConnectInv, SocketInv, SocketTypes, Asyncs
    <3> QED BY <2>1, <3>1 DEF ClosedBy, One
  <2> QED BY <2>1, <2>4, <2>5 DEF ConnectTypeOK, SocketTypes
<1> QED BY <1>1, LifeInvariant, PTL

\* The reference count of a connect is exact at every moment, also while
\* ConnectEx fails on one thread, a user cancels on another and the timer fires.
THEOREM ConnectReferencesAreExact ==
  ASSUME Ops \subseteq {"connect"}
  PROVE  ConnectSafeSpec => []RefCountExact
<1>1. ASSUME WorkInv
      PROVE  RefCountExact
  <2>1. \A a \in Asyncs \ {Root} : life[a] # "live"
    BY <1>1 DEF WorkInv, LifeInv, LifeTypes
  <2>2. RefExact
    BY <1>1, Counting
  <2> QED BY <2>1, <2>2 DEF RefCountExact, RefExact
<1> QED BY <1>1, LifeInvariant, PTL

\* Failure of the resolver or of ConnectEx, packet, timeout and cancellation may
\* all end a connect; its callback runs once, and before it is freed.
THEOREM ConnectCallsBackOnce ==
  ASSUME Ops \subseteq {"connect"}
  PROVE  ConnectSafeSpec => []OneCallback
<1>1. ASSUME WorkInv
      PROVE  OneCallback
  <2>1. \A a \in Asyncs \ {Root} : completed[a] = 0 /\ life[a] = "none"
    BY <1>1 DEF WorkInv, LifeInv, LifeTypes
  <2>2. /\ completed[Root] \in Nat /\ Frames({"callback"}, Root) \in Nat
        /\ CallsBack /\ DestroyedLast
    BY <1>1, Counting, CountsAreNumbers
  <2>3. completed[Root] <= 1 /\ (life[Root] = "freed" => completed[Root] = 1)
    BY <2>2 DEF CallsBack, DestroyedLast, One
  <2> QED BY <2>1, <2>3 DEF OneCallback
<1> QED BY <1>1, LifeInvariant, PTL

\* Who uses the operation after it was freed comes too late because it was ended:
\* otherwise whatever is left on a stack owns a reference, or is what ends it.
LEMMA LateOnlyIfEnded ==
  ASSUME WorkInv, NEW th \in Threads, UseAfterFree(th)
  PROVE  life[Root] = "freed" /\ Ended
<1>1. /\ stack \in Stacks /\ Finite(stack) /\ Ordered(stack[th], Ended)
      /\ \A ops : Frames(ops, Root) \in Nat
  BY CountsAreNumbers DEF WorkInv, ConnectInv, SocketInv, SocketTypes, LifeInv
<1>2. stack[th] # << >> /\ \E u \in Uses(Head(stack[th])) : life[u] # "live"
  BY DEF UseAfterFree
<1>3. /\ 1 \in DOMAIN stack[th] /\ Head(stack[th]) = stack[th][1]
      /\ Len(stack[th]) \in Nat /\ DOMAIN stack[th] = 1..Len(stack[th])
  BY <1>1, <1>2 DEF Stacks
<1> DEFINE op == Head(stack[th]).op
<1>4. op \in ConnectOps /\ Head(stack[th]).async = Root
  BY <1>1, <1>3 DEF Ordered
<1>5. op # "new" /\ op # "close" /\ life[Root] # "live"
  <2>1. Parent(Root) = None
    BY AsyncAssumption DEF Parent
  <2>2. /\ op = "new" => Uses(Head(stack[th])) = {}
        /\ op = "close" => Uses(Head(stack[th])) = {}
        /\ Uses(Head(stack[th])) \subseteq {Root}
    BY <1>4, <2>1 DEF Uses, Outside
  <2> QED BY <1>2, <2>2
<1>6. ASSUME NEW ops, op \in ops
      PROVE  Frames(ops, Root) > 0
  <2>1. IsOf(stack[th][1], ops, Root)
    BY <1>3, <1>4, <1>6 DEF IsOf
  <2>2. Frames(ops, Root) # 0
    BY <1>1, <1>3, <2>1, NoFrames
  <2> QED BY <1>1, <2>2
<1>7. life[Root] = "freed"
  <2>1. CASE Settled
    BY <1>5, <2>1, Counting DEF Settled
  <2>2. CASE Fresh
    <3>1. PICK o \in Births : /\ stack = FirstCalls(o)
                              /\ life[Root] = IF o = "new" THEN "none" ELSE "live"
      BY <2>2 DEF Fresh
    <3>2. Head(stack[th]) = Frame(o, Root)
      BY <1>2, <3>1, FirstCalling
    <3> QED BY <1>5, <3>1, <3>2 DEF Frame
  <2> QED BY <2>1, <2>2 DEF WorkInv, LifeInv
<1>8. SUFFICES ASSUME ~Ended
               PROVE  FALSE
  BY <1>7
<1>9. /\ Frames(Holding, Root) = 0 /\ Frames({"callback"}, Root) = 0
      /\ Frames({"destroy"}, Root) = 0 /\ Frames(Moving, Root) = 0 /\ Frames({"cancel"}, Root) = 0
      /\ Frames(Births, Root) = 0
  <2>1. called[Root] /\ Frames(Holding, Root) = 0 /\ Frames({"callback"}, Root) = 0
    BY <1>7, Counting DEF DestroyedLast
  <2>2. Frames({"destroy"}, Root) = 0
    BY <1>1, <1>7, Counting DEF DestroyedLast, One
  <2>3. ~canceled[Root] /\ asked = {}
    BY <1>8 DEF Ended
  <2>4. Frames(Moving, Root) = 0
    BY <1>1, <2>1, <2>3, Counting DEF EndsByItself, Tokens, One
  <2>5. Frames({"cancel"}, Root) = 0
    BY <1>1, <2>3, Counting DEF AskedFirst
  <2>6. Frames(Births, Root) = 0
    BY <1>7 DEF WorkInv, LifeInv, Settled, Fresh
  <2> QED BY <2>1, <2>2, <2>4, <2>5, <2>6
<1>10. op \notin Holding \union {"callback", "destroy", "cancel"} \union Moving \union Births
  <2>1. ASSUME NEW ops, Frames(ops, Root) = 0
        PROVE  op \notin ops
    BY <1>6, <2>1
  <2> HIDE DEF op
  <2> QED BY <1>9, <2>1
<1>11. op \in {"unlock", "_cancel"}
  <2> HIDE DEF op
  <2> QED BY <1>4, <1>5, <1>10 DEF ConnectOps, Holding, Moving, Births
<1>12. 1 < Len(stack[th]) /\ stack[th][2].op = "release"
  <2>1. stack[th][1].op \in {"unlock", "_cancel"}
    BY <1>3, <1>11
  <2> QED BY <1>1, <1>3, <1>8, <2>1 DEF Ordered
<1>13. 2 \in DOMAIN stack[th] /\ IsOf(stack[th][2], Holding, Root)
  <2>1. 2 \in DOMAIN stack[th]
    BY <1>3, <1>12
  <2> QED BY <1>1, <1>12, <2>1 DEF Ordered, IsOf, Holding
<1> QED BY <1>1, <1>9, <1>13, NoFrames

\* Steps that nobody sees.
LEMMA UnseenSteps ==
  ASSUME WorkInv, NEW th \in Threads, ConnectStep(th), ~UseAfterFree(th), ~Callback(th, Root),
         ~Cancel(th, Root), ~DestroyConnect(th)
  PROVE  Quiet
<1> USE DEF Quiet, rest, history, operation
<1>1. CASE New(th, Root)
  <2>1. life[Root] = "none"
    BY <1>1, FreshAt DEF New, Births
  <2> QED BY <1>1, <2>1, Counting DEF New, WorkInv, ConnectInv, SocketInv, SocketTypes
<1>2. CASE AddTimerRef(th, Root) \/ Schedule(th, Root) \/ Start(th, Root)
  BY <1>2 DEF AddTimerRef, Schedule, Start
<1>3. CASE Notify(th, Root) \/ AsyncNotify(th, Root) \/ AsyncCancel(th, Root)
  BY <1>3 DEF Notify, AsyncNotify, AsyncCancel
<1>4. CASE Release(th, Root) \/ Unlock(th, Root)
  BY <1>4 DEF Release, Unlock
<1>5. CASE Connect(th) \/ Resolve(th) \/ Phase1Failed(th) \/ Phase1(th) \/ Phase1Enter(th)
  BY <1>5 DEF Connect, Resolve, Phase1Failed, Phase1, Phase1Enter
<1>6. CASE ConnectEx(th) \/ Close(th) \/ Phase2(th)
  BY <1>6 DEF ConnectEx, Close, Phase2
<1> QED BY <1>1, <1>2, <1>3, <1>4, <1>5, <1>6 DEF ConnectStep, Common

\* Every step is a step of the operation, or nothing it knows of.
LEMMA ConnectSimulates ==
  ASSUME WorkInv, [ConnectNext]_connectVars
  PROVE  [Op!Next]_(Op!vars)
<1> USE DEF Op!Next, Op!vars
<1>1. CASE UNCHANGED connectVars
  BY <1>1, QuietStutters DEF connectVars, vars, operation, history, Quiet
<1>2. ASSUME NEW th \in Threads, UseAfterFree(th)
      PROVE  Op!Misuse
  <2>1. life[Root] = "freed" /\ (canceled[Root] \/ asked # {})
    BY <1>2, LateOnlyIfEnded DEF Ended
  <2>2. stale = {} /\ stale' # {} /\ UNCHANGED <<canceled, asked>>
    BY <1>2 DEF UseAfterFree, operation
  <2> QED BY <2>1, <2>2 DEF Op!Misuse
<1>3. ASSUME NEW th \in Threads, Callback(th, Root)
      PROVE  Op!Report
  <2>1. At(th, "callback", Root)
    BY <1>3 DEF Callback, CallbackThen
  <2>2. stale = {} /\ life[Root] = "live" /\ Frames({"callback"}, Root) >= 1
    BY <2>1, AtWork, Alive DEF At, Operations, Outside
  <2>3. completed[Root] = 0
    BY <2>2, Counting, CountsAreNumbers DEF CallsBack, One
  <2>4. completed'[Root] = 1 /\ UNCHANGED <<life, canceled, asked, stale>>
    BY <1>3, <2>3, Counting DEF Callback, CallbackThen, operation, LifeTypes
  <2> QED BY <2>2, <2>3, <2>4 DEF Op!Report
<1>4. ASSUME NEW th \in Threads, DestroyConnect(th)
      PROVE  Op!Free
  <2>1. At(th, "destroy", Root)
    BY <1>4 DEF DestroyConnect, Destroy
  <2>2. stale = {} /\ life[Root] = "live" /\ Frames({"destroy"}, Root) >= 1
    BY <2>1, AtWork, Alive DEF At, Operations, Outside
  <2>3. completed[Root] = 1
    BY <2>2, Counting, CountsAreNumbers DEF CallsBack, DestroyedLast, One
  <2>4. life'[Root] = "freed" /\ UNCHANGED <<completed, canceled, asked, stale>>
    BY <1>4, Counting
       DEF DestroyConnect, Destroy, rest, history, WorkInv, ConnectInv, SocketInv, SocketTypes
  <2>5. life[Root] # "freed" /\ completed[Root] > 0
    BY <2>2, <2>3
  <2> QED BY <2>2, <2>4, <2>5 DEF Op!Free
<1>5. ASSUME NEW th \in Threads, Cancel(th, Root)
      PROVE  Op!End
  <2>1. canceled'[Root] = TRUE /\ UNCHANGED <<life, completed, stale>>
    BY <1>5, Counting DEF Cancel, WorkInv, ConnectInv, SocketInv, SocketTypes
  <2> QED BY <2>1 DEF Op!End
<1>6. ASSUME NEW th \in Cancellers, Ask(th)
      PROVE  Op!End
  <2>1. asked' # {} /\ UNCHANGED <<life, completed, stale>>
    BY <1>6 DEF Ask, operation, history
  <2> QED BY <2>1 DEF Op!End
<1>7. ASSUME \/ ResolutionEnds \/ IoEnds(Root) \/ TimeoutFires(Root)
             \/ \E th \in Workers : DequeueConnect(th)
      PROVE  Quiet
  BY <1>7 DEF ResolutionEnds, IoEnds, TimeoutFires, DequeueConnect, Quiet, operation, rest, history
<1>8. ASSUME NEW th \in Threads, ConnectStep(th)
      PROVE  [Op!Next]_(Op!vars)
  BY <1>2, <1>3, <1>4, <1>5, <1>8, UnseenSteps, QuietStutters
<1> QED BY <1>1, <1>6, <1>7, <1>8, QuietStutters DEF ConnectNext

\* Seen from outside a connect, too, reports once, is freed after that, and is
\* used later only if it was ended.
THEOREM ConnectImplementsOperationSafely ==
  ASSUME Ops \subseteq {"connect"}
  PROVE  ConnectSafeSpec => Op!Init /\ [][Op!Next]_(Op!vars)
<1>1. ConnectInit => Op!Init
  BY DEF ConnectInit, Init, NoneYet, Op!Init, Asyncs
<1>2. WorkInv /\ [ConnectNext]_connectVars => [Op!Next]_(Op!vars)
  BY ConnectSimulates
<1> QED BY <1>1, <1>2, LifeInvariant, PTL DEF ConnectSafeSpec
===============================================================================
