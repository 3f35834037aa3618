--------------------------- MODULE TcpAcceptProofs ---------------------------
(***************************************************************************)
(* Proofs about module TcpAccept: who owns the socket of a new connection, *)
(* for every set of workers and of threads that cancel, with or without a  *)
(* timeout.  The operation is that of AsyncProofs, whose invariant is part *)
(* of the one here.                                                        *)
(***************************************************************************)
EXTENDS TcpAccept, AsyncProofs

-----------------------------------------------------------------------------
(* The inductive invariant *)

SocketTypes ==
  opened \in BOOLEAN /\ accepted \in BOOLEAN /\ closes \in Nat /\ product \in BOOLEAN /\ late \in BOOLEAN

\* There is one socket, opened before its AcceptEx is called.
OpenedOnce ==
  /\ Frames({"start", "accept"}, Root) + One(opened) <= 1
  /\ Frames({"acceptex"}, Root) > 0 \/ io[Root] # "none" \/ accepted \/ product => opened
  /\ opened => io_type[Root] = "accept"

\* One worker has the packet, and works on it in two steps.
OnePacket ==
  /\ Frames({"accepted"}, Root) + Frames({"forget"}, Root) + One(io[Root] # "done") <= 1
  /\ product => io[Root] = "done"

\* Where the socket is: with the operation until the object is there and the
\* worker has made the operation forget it, or closed with the operation.
Passed ==
  /\ opened => accepted \/ product
  /\ Frames({"accepted"}, Root) > 0 => accepted /\ ~product
  /\ Frames({"forget"}, Root) > 0 => accepted /\ product
  /\ accepted /\ product => Frames({"forget"}, Root) > 0
  /\ closes = One(life[Root] = "freed" /\ accepted)

LateIfRaced == late => product /\ Raced

SocketInv == SocketTypes /\ OpenedOnce /\ OnePacket /\ Passed /\ LateIfRaced

AcceptInv == IInv /\ SocketInv

-----------------------------------------------------------------------------
(* Steps that leave the socket alone *)

\* What SocketInv looks at stays as it is.
Calm ==
  /\ UNCHANGED <<socket, io_type, early>>
  /\ \A op \in {"accepted", "forget", "acceptex"} : Frames({op}, Root)' = Frames({op}, Root)
  /\ Frames({"start", "accept"}, Root)' <= Frames({"start", "accept"}, Root)
  /\ io'[Root] = io[Root] \/ (io[Root] = "pending" /\ io'[Root] = "queued")
  /\ missed[Root] => missed'[Root]
  /\ life'[Root] = life[Root] \/ (life[Root] = "none" /\ life'[Root] = "live")

LEMMA CalmKeeps ==
  ASSUME AcceptInv, Calm, stack' \in Stacks, Finite(stack')
  PROVE  SocketInv'
<1>1. /\ \A ops : Frames(ops, Root) \in Nat
      /\ \A ops : Frames(ops, Root)' \in Nat
  <2>1. stack \in Stacks /\ Finite(stack)
    BY DEF AcceptInv, IInv, TypeOK, Stacks
  <2>2. \A ops : Frames(ops, Root) \in Nat
    BY <2>1, FramesType
  <2>3. \A ops : Cardinality(Slots(stack', ops, Root)) \in Nat
    BY SlotsFinite
  <2> QED BY <2>2, <2>3 DEF Frames
<1>2. /\ Frames({"accepted"}, Root)' = Frames({"accepted"}, Root)
      /\ Frames({"forget"}, Root)' = Frames({"forget"}, Root)
      /\ Frames({"acceptex"}, Root)' = Frames({"acceptex"}, Root)
  BY DEF Calm
<1>3. UNCHANGED <<opened, accepted, closes, product, late, io_type, early>>
  BY DEF Calm, socket
<1>4. SocketTypes'
  BY <1>3 DEF AcceptInv, SocketInv, SocketTypes
<1>5. OpenedOnce'
  BY <1>1, <1>2, <1>3 DEF AcceptInv, SocketInv, SocketTypes, OpenedOnce, Calm, One
<1>6. OnePacket'
  BY <1>1, <1>2, <1>3 DEF AcceptInv, SocketInv, OnePacket, Calm, One
<1>7. Passed'
  BY <1>1, <1>2, <1>3 DEF AcceptInv, SocketInv, Passed, Calm
<1>8. LateIfRaced'
  BY <1>3 DEF AcceptInv, SocketInv, LateIfRaced, Raced, Calm
<1> QED BY <1>4, <1>5, <1>6, <1>7, <1>8 DEF SocketInv

\* The frames a thread calls here are none of those that handle the socket.
LEMMA Untouched ==
  ASSUME IInv, NEW th \in Threads, stack[th] # << >>,
         NEW op, Head(stack[th]).op = op,
         NEW f \in FrameType, NEW g \in FrameType,
         Call(th, << >>) \/ Call(th, <<f>>) \/ Call(th, <<f, g>>),
         NEW ops, op \notin ops, f.op \notin ops, g.op \notin ops
  PROVE  Frames(ops, Root)' = Frames(ops, Root)
<1>1. stack \in Stacks /\ Finite(stack) /\ Frames(ops, Root) \in Nat
  <2>1. stack \in Stacks /\ Finite(stack)
    BY DEF IInv, TypeOK, Stacks
  <2> QED BY <2>1, FramesType
<1>2. ~IsOf(Head(stack[th]), ops, Root) /\ ~IsOf(f, ops, Root) /\ ~IsOf(g, ops, Root)
  BY DEF IsOf
<1>3. CASE Call(th, << >>)
  BY <1>1, <1>2, <1>3, Calls0 DEF One
<1>4. CASE Call(th, <<f>>)
  BY <1>1, <1>2, <1>4, Calls1 DEF One
<1>5. CASE Call(th, <<f, g>>)
  BY <1>1, <1>2, <1>5, Calls2 DEF One
<1> QED BY <1>3, <1>4, <1>5

\* The frames that handle the socket.
Handling == {"accepted", "forget", "acceptex", "start", "accept"}

LEMMA CallsAreCalm ==
  ASSUME AcceptInv, NEW th \in Threads, NEW op, At(th, op, Root),
         NEW f \in FrameType, NEW g \in FrameType,
         op \notin Handling, f.op \notin Handling, g.op \notin Handling,
         Call(th, << >>) \/ Call(th, <<f>>) \/ Call(th, <<f, g>>),
         UNCHANGED <<socket, io_type, early>>,
         io'[Root] = io[Root] \/ (io[Root] = "pending" /\ io'[Root] = "queued"),
         missed[Root] => missed'[Root],
         life'[Root] = life[Root] \/ (life[Root] = "none" /\ life'[Root] = "live")
  PROVE  Calm
<1>1. stack[th] # << >> /\ Head(stack[th]).op = op /\ IInv
  BY DEF At, AcceptInv
<1>2. ASSUME NEW ops \in SUBSET Handling
      PROVE  Frames(ops, Root)' = Frames(ops, Root)
  <2>1. op \notin ops /\ f.op \notin ops /\ g.op \notin ops
    OBVIOUS
  <2> QED BY <1>1, <2>1, Untouched
<1>3. ASSUME NEW one \in {"accepted", "forget", "acceptex"}
      PROVE  Frames({one}, Root)' = Frames({one}, Root)
  <2>1. {one} \in SUBSET Handling
    BY DEF Handling
  <2> QED BY <1>2, <2>1
<1>4. Frames({"start", "accept"}, Root)' <= Frames({"start", "accept"}, Root)
  <2>1. {"start", "accept"} \in SUBSET Handling
    BY DEF Handling
  <2>2. Frames({"start", "accept"}, Root) \in Nat
    BY <1>1, FramesType DEF IInv, TypeOK, Stacks
  <2> QED BY <1>2, <2>1, <2>2
<1> QED BY <1>3, <1>4 DEF Calm

\* Frames that can be called for the operation.
LEMMA FramesOfRoot ==
  ASSUME IInv, NEW th \in Threads, stack[th] # << >>
  PROVE  \A op \in Operations :
           /\ Frame(op, Root) \in FrameType /\ Frame(op, Root).op = op
           /\ Carry(th, op, Root) \in FrameType /\ Carry(th, op, Root).op = op
BY FrameTypes, CarryTypes

\* What the threads do about any operation.
LEMMA CommonStepsAreCalm ==
  ASSUME AcceptInv, NEW th \in Threads, UNCHANGED socket,
         \/ New(th, Root) \/ AddTimerRef(th, Root) \/ Schedule(th, Root)
         \/ Notify(th, Root) \/ AsyncNotify(th, Root) \/ Callback(th, Root)
         \/ AsyncCancel(th, Root) \/ Cancel(th, Root) \/ Release(th, Root)
  PROVE  Calm
<1> USE DEF Handling
<1>1. IInv /\ TypeOK /\ Root \in Asyncs
  BY DEF AcceptInv, IInv, Asyncs
<1>2. stack[th] # << >>
  BY DEF New, AddTimerRef, Schedule, Notify, AsyncNotify, Callback, CallbackThen, AsyncCancel,
     Cancel, Release, At
<1>3. /\ \A op \in {"add_timer_ref", "schedule", "release", "notify", "_cancel", "destroy"} :
           Frame(op, Root) \in FrameType /\ Frame(op, Root).op = op
      /\ \A op \in {"async_notify", "callback"} :
           Carry(th, op, Root) \in FrameType /\ Carry(th, op, Root).op = op
  BY <1>1, <1>2, FramesOfRoot DEF Operations
<1>4. CASE New(th, Root)
  <2>1. /\ At(th, "new", Root) /\ life[Root] = "none"
        /\ Call(th, << >>) \/ Call(th, <<Frame("add_timer_ref", Root)>>)
    BY <1>1, <1>4, Newborn DEF New
  <2>2. life'[Root] = "live" /\ UNCHANGED <<io, missed, early, io_type>>
    BY <1>1, <1>4 DEF New, TypeOK, request, rest, history
  <2>3. PICK f \in FrameType : f = Frame("add_timer_ref", Root)
    BY <1>3
  <2>4. PICK op \in {"new"} : At(th, op, Root)
    BY <2>1
  <2>5. op \notin Handling /\ f.op \notin Handling /\ (Call(th, << >>) \/ Call(th, <<f>>))
    BY <1>3, <2>1, <2>3, <2>4
  <2> QED BY <2>1, <2>2, <2>4, <2>5, CallsAreCalm
<1>5. CASE AddTimerRef(th, Root) \/ Schedule(th, Root)
  <2>1. PICK op \in {"add_timer_ref", "schedule"} : At(th, op, Root)
    BY <1>5 DEF AddTimerRef, Schedule
  <2>2. Call(th, << >>) \/ Call(th, <<Frame("schedule", Root)>>)
    BY <1>5 DEF AddTimerRef, Schedule, Return
  <2>3. UNCHANGED <<life, io, missed, early, io_type>>
    BY <1>5 DEF AddTimerRef, Schedule, request, rest, history
  <2>4. PICK f \in FrameType : f = Frame("schedule", Root)
    BY <1>3
  <2>5. op \notin Handling /\ f.op \notin Handling /\ (Call(th, << >>) \/ Call(th, <<f>>))
    BY <1>3, <2>2, <2>4
  <2> QED BY <2>1, <2>3, <2>5, CallsAreCalm
<1>6. CASE Notify(th, Root)
  <2>1. \/ Call(th, <<Carry(th, "async_notify", Root)>>)
        \/ Call(th, <<Frame("release", Root), Carry(th, "async_notify", Root)>>)
    BY <1>6, Tuples DEF Notify, CancelTimerThen
  <2>2. At(th, "notify", Root) /\ UNCHANGED <<life, io, missed, early, io_type>>
    BY <1>6 DEF Notify, request, rest, history
  <2> QED BY <1>3, <2>1, <2>2, CallsAreCalm
<1>7. CASE AsyncNotify(th, Root)
  <2>1. Call(th, << >>) \/ Call(th, <<Carry(th, "callback", Root), Frame("release", Root)>>)
    BY <1>7 DEF AsyncNotify
  <2>2. At(th, "async_notify", Root) /\ UNCHANGED <<life, io, missed, early, io_type>>
    BY <1>7 DEF AsyncNotify, request, rest, history
  <2> QED BY <1>3, <2>1, <2>2, CallsAreCalm
<1>8. CASE Callback(th, Root)
  <2>1. /\ At(th, "callback", Root) /\ Call(th, << >>)
        /\ UNCHANGED <<life, io, missed, early, io_type>>
    BY <1>8 DEF Callback, CallbackThen, operation, request
  <2> QED BY <1>3, <2>1, CallsAreCalm
<1>9. CASE AsyncCancel(th, Root)
  <2>1. \/ Call(th, <<Frame("_cancel", Root)>>)
        \/ Call(th, <<Frame("release", Root), Frame("_cancel", Root)>>)
    BY <1>9, Tuples DEF AsyncCancel, CancelTimerThen
  <2>2. At(th, "cancel", Root) /\ UNCHANGED <<life, io, missed, early, io_type>>
    BY <1>9 DEF AsyncCancel, request, rest, history
  <2>3. PICK f \in FrameType, g \in FrameType : f = Frame("release", Root) /\ g = Frame("_cancel", Root)
    BY <1>3
  <2>4. PICK op \in {"cancel"} : At(th, op, Root)
    BY <2>2
  <2>5. /\ op \notin Handling /\ f.op \notin Handling /\ g.op \notin Handling
        /\ Call(th, <<g>>) \/ Call(th, <<f, g>>)
    BY <1>3, <2>1, <2>3, <2>4
  <2> QED BY <2>2, <2>3, <2>4, <2>5, CallsAreCalm
<1>10. CASE Cancel(th, Root)
  <2>1. ~CancelChild(th, Root)
    BY <1>1 DEF CancelChild, IInv, OnlyRoot
  <2>2. /\ Call(th, << >>) \/ Call(th, <<Frame("notify", Root)>>)
        /\ io'[Root] = io[Root] \/ (io[Root] = "pending" /\ io'[Root] = "queued")
        /\ missed[Root] => missed'[Root]
    BY <1>1, <1>10, <2>1 DEF Cancel, CancelCall, CancelDirectly, Return, TypeOK
  <2>3. At(th, "_cancel", Root) /\ UNCHANGED <<life, early, io_type>>
    BY <1>10 DEF Cancel
  <2> QED BY <1>3, <2>2, <2>3, CallsAreCalm
<1>11. CASE Release(th, Root)
  <2>1. Call(th, << >>) \/ Call(th, <<Frame("destroy", Root)>>)
    BY <1>11 DEF Release
  <2>2. At(th, "release", Root) /\ UNCHANGED <<life, io, missed, early, io_type>>
    BY <1>11 DEF Release, request, rest, history
  <2> QED BY <1>3, <2>1, <2>2, CallsAreCalm
<1> QED BY <1>4, <1>5, <1>6, <1>7, <1>8, <1>9, <1>10, <1>11

\* The issuer starts its call.
LEMMA StartIsCalm ==
  ASSUME AcceptInv, Ops \subseteq SocketCalls, NEW th \in Threads, Start(th, Root), UNCHANGED socket
  PROVE  Calm
<1>1. stack \in Stacks /\ Finite(stack) /\ stack[th] # << >> /\ Head(stack[th]).op = "start"
      /\ Head(stack[th]).async = Root
  BY DEF AcceptInv, IInv, TypeOK, Stacks, Start, At
<1>2. PICK op \in Ops : Call(th, <<Frame(op, Root)>>)
  BY DEF Start
<1>3. op \in {"receive", "send", "accept", "disconnect"} /\ Frame(op, Root) \in FrameType
      /\ Frame(op, Root).op = op /\ Frame(op, Root).async = Root
  BY FrameTypes DEF SocketCalls, Operations
<1>4. \A ops : Frames(ops, Root)' = Frames(ops, Root) - One("start" \in ops) + One(op \in ops)
  BY <1>1, <1>2, <1>3, Calls1 DEF IsOf
<1>5. \A ops : Frames(ops, Root) \in Nat
  BY <1>1, FramesType
<1>6. UNCHANGED <<io_type, early, io, missed, life>>
  BY DEF Start, operation, request, rest, history
<1>7. \A one \in {"accepted", "forget", "acceptex"} : Frames({one}, Root)' = Frames({one}, Root)
  BY <1>3, <1>4, <1>5 DEF One
<1>8. Frames({"start", "accept"}, Root)' <= Frames({"start", "accept"}, Root)
  BY <1>4, <1>5 DEF One
<1> QED BY <1>6, <1>7, <1>8 DEF Calm

\* A thread stands still, or begins something else.
LEMMA BeginningsAreCalm ==
  ASSUME AcceptInv, UNCHANGED socket,
         \/ \E th \in Threads : UseAfterFree(th)
         \/ IoEnds(Root) \/ TimeoutFires(Root)
         \/ \E th \in Cancellers : Ask(th)
  PROVE  Calm
<1>1. /\ stack \in Stacks /\ Finite(stack) /\ Root \in Asyncs
      /\ io \in [Asyncs -> {"none", "pending", "queued", "done"}]
      /\ \A ops : Frames(ops, Root) \in Nat
  <2>1. stack \in Stacks /\ Finite(stack)
    BY DEF AcceptInv, IInv, TypeOK, Stacks
  <2>2. \A ops : Frames(ops, Root) \in Nat
    BY <2>1, FramesType
  <2> QED BY <2>1, <2>2 DEF AcceptInv, IInv, TypeOK, Asyncs
<1>2. CASE stack' = stack
  <2>1. \A ops : Frames(ops, Root)' = Frames(ops, Root)
    BY <1>2 DEF Frames
  <2>2. UNCHANGED <<io_type, early, missed, life>>
    BY <1>2 DEF UseAfterFree, IoEnds, TimeoutFires, Ask, operation, request, rest, history
  <2>3. io'[Root] = io[Root] \/ (io[Root] = "pending" /\ io'[Root] = "queued")
    BY <1>1 DEF UseAfterFree, IoEnds, TimeoutFires, Ask
  <2>4. Frames({"start", "accept"}, Root)' <= Frames({"start", "accept"}, Root)
    BY <1>1, <2>1
  <2> QED BY <2>1, <2>2, <2>3, <2>4 DEF Calm
<1>3. CASE TimeoutFires(Root)
  <2> DEFINE f == Frame("_cancel", Root)
             g == Frame("release", Root)
  <2>1. PICK th \in Threads : stack[th] = << >> /\ stack' = [stack EXCEPT ![th] = <<f, g>>]
    BY <1>3 DEF TimeoutFires, Threads
  <2>2. f \in FrameType /\ f.op = "_cancel" /\ g \in FrameType /\ g.op = "release"
    BY FrameTypes DEF Operations
  <2> HIDE DEF f, g
  <2>3. \A ops, a : Frames(ops, a)' = Frames(ops, a) + One(IsOf(g, ops, a)) + One(IsOf(f, ops, a))
    BY <1>1, <2>1, <2>2, Begins2
  <2>4. \A op \in {"accepted", "forget", "acceptex"} : Frames({op}, Root)' = Frames({op}, Root)
    BY <1>1, <2>2, <2>3 DEF One, IsOf
  <2>5. Frames({"start", "accept"}, Root)' <= Frames({"start", "accept"}, Root)
    BY <1>1, <2>2, <2>3 DEF One, IsOf
  <2>6. UNCHANGED <<io_type, early, missed, life, io>>
    BY <1>3 DEF TimeoutFires, request, rest, history
  <2> QED BY <2>4, <2>5, <2>6 DEF Calm
<1>4. ASSUME NEW th \in Cancellers, Ask(th)
      PROVE  Calm
  <2> DEFINE f == Frame("cancel", Root)
  <2>1. stack[th] = << >> /\ stack' = [stack EXCEPT ![th] = <<f>>] /\ th \in Threads
    BY <1>4 DEF Ask, Threads, AcceptInv, IInv, Unseen
  <2>2. f \in FrameType /\ f.op = "cancel"
    BY FrameTypes DEF Operations
  <2> HIDE DEF f
  <2>3. \A ops, a : Frames(ops, a)' = Frames(ops, a) + One(IsOf(f, ops, a))
    BY <1>1, <2>1, <2>2, Begins1
  <2>4. \A op \in {"accepted", "forget", "acceptex"} : Frames({op}, Root)' = Frames({op}, Root)
    BY <1>1, <2>2, <2>3 DEF One, IsOf
  <2>5. Frames({"start", "accept"}, Root)' <= Frames({"start", "accept"}, Root)
    BY <1>1, <2>2, <2>3 DEF One, IsOf
  <2>6. UNCHANGED <<io_type, early, missed, life, io>>
    BY <1>4 DEF Ask, operation, request, history
  <2> QED BY <2>4, <2>5, <2>6 DEF Calm
<1> QED BY <1>2, <1>3, <1>4 DEF UseAfterFree, IoEnds

-----------------------------------------------------------------------------
(* Steps that pass the socket on *)

\* Only a worker handles the packet, and it has nothing else to do.
LEMMA PacketHandler ==
  ASSUME IInv, NEW th \in Threads, NEW op \in {"accepted", "forget"}, At(th, op, Root)
  PROVE  /\ stale = {} /\ stack[th] # << >> /\ life[Root] = "live" /\ stack \in Stacks
         /\ Todo(th) = <<op, "-", "-">> /\ Doing(th, 1) = op /\ Doing(th, 4) = "-"
         /\ th \in Workers /\ th # Issuer /\ th # Poller /\ th \notin Cancellers
         /\ \A ops : Frames(ops, Root) \in Nat /\ (op \in ops => Frames(ops, Root) >= 1)
<1>1. /\ stale = {} /\ stack[th] # << >> /\ life[Root] = "live" /\ stack \in Stacks
      /\ Todo(th) \in Programs(th) /\ Doing(th, 1) = op /\ Doing(th, 4) = "-"
      /\ \A ops : Frames(ops, Root) \in Nat /\ (op \in ops => Frames(ops, Root) >= 1)
  BY Known DEF Outside
<1>2. th # Issuer /\ th # Poller /\ th \notin Cancellers
  BY <1>1 DEF Todo, Programs, IssuerPrograms, PollerPrograms, CancellerPrograms,
     Ending, LockedEnding, Birth, Calling, Submitting, Leaving
<1>3. th \in Workers
  BY <1>1, <1>2 DEF Programs, Todo
<1>4. Todo(th) = <<op, "-", "-">>
  BY <1>1, <1>2, <1>3 DEF Programs, WorkerPrograms, Ending, Todo
<1> QED BY <1>1, <1>2, <1>3, <1>4

\* It goes on with the packet, or notifies.
LEMMA HandlingPreserves ==
  ASSUME IInv, NEW th \in Threads, NEW op \in {"accepted", "forget"}, At(th, op, Root),
         NEW f \in FrameType, f.op \in {"forget", "notify"}, f.async = Root, Call(th, <<f>>),
         UNCHANGED <<operation, io, rest>>
  PROVE  IInv' /\ \A ops : Frames(ops, Root)' = Frames(ops, Root) - One(op \in ops) + One(f.op \in ops)
<1>1. /\ stale = {} /\ stack[th] # << >> /\ life[Root] = "live" /\ stack \in Stacks
      /\ Todo(th) = <<op, "-", "-">> /\ Doing(th, 1) = op /\ Doing(th, 4) = "-"
      /\ th \in Workers /\ th # Issuer /\ th # Poller /\ th \notin Cancellers
      /\ \A ops : Frames(ops, Root) \in Nat /\ (op \in ops => Frames(ops, Root) >= 1)
  BY PacketHandler
<1>2. Doing(th, 2) = "-" /\ Doing(th, 3) = "-"
  BY <1>1 DEF Todo
<1>3. /\ stack' \in Stacks /\ Finite(stack') /\ AllOfRoot' /\ OthersStay(th)
      /\ Todo(th)' = <<f.op, "-", "-">> /\ Doing(th, 4)' = "-"
      /\ \A ops : Frames(ops, Root)' = Frames(ops, Root) - One(op \in ops) + One(f.op \in ops)
  <2>1. Finite(stack) /\ AllOfRoot /\ f.op # "-"
    BY DEF IInv, OnlyRoot
  <2> QED BY <1>1, <1>2, <2>1, GoesOn1
<1>4. UNCHANGED <<life, ref, lock, canceled, called, child, handle, io_type, timer, io,
                  completed, missed, early, asked, stale>>
  BY DEF operation, request, rest, history
<1>5. /\ Frames(Holding, Root)' = Frames(Holding, Root)
      /\ Frames({"callback"}, Root)' = Frames({"callback"}, Root)
      /\ Frames({"destroy"}, Root)' = Frames({"destroy"}, Root)
      /\ Frames(Starting, Root)' = Frames(Starting, Root)
      /\ Frames(Reporting, Root)' = Frames(Reporting, Root)
  <2>1. Frames(Holding, Root)' = Frames(Holding, Root)
    BY <1>1, <1>3 DEF Holding, Starting, One
  <2>2. Frames({"callback"}, Root)' = Frames({"callback"}, Root)
    BY <1>1, <1>3 DEF Starting, One
  <2>3. Frames({"destroy"}, Root)' = Frames({"destroy"}, Root)
    BY <1>1, <1>3 DEF Starting, One
  <2>4. Frames(Starting, Root)' = Frames(Starting, Root)
    BY <1>1, <1>3 DEF Starting, One
  <2>5. Frames(Reporting, Root)' = Frames(Reporting, Root)
    BY <1>1, <1>3 DEF Starting, Reporting, One
  <2> QED BY <2>1, <2>2, <2>3, <2>4, <2>5
<1>6. Todo(Issuer)' = Todo(Issuer) /\ Doing(Issuer, 1)' = Doing(Issuer, 1)
  BY <1>1, <1>3, StaysSame DEF OthersStay, Threads
<1>7. TypeOK' /\ OnlyRoot'
  BY <1>3, <1>4 DEF IInv, TypeOK, Stacks, OnlyRoot
<1>8. FollowPrograms'
  <2>1. Todo(th)' \in Programs(th)
    BY <1>1, <1>3 DEF Programs, WorkerPrograms, Ending
  <2> QED BY <1>1, <1>3, <2>1, OthersFollow
<1>9. MonitorHeld'
  BY <1>4, <1>6 DEF IInv, MonitorHeld, Inside
<1>10. Unseen'
  BY <1>1, <1>3, <1>4, <1>6 DEF IInv, Unseen, OthersStay, Threads
<1>11. Owed'
  BY <1>4, <1>5 DEF IInv, Owed
<1>12. EndsOnce'
  BY <1>4, <1>5 DEF IInv, EndsOnce, Ends
<1>13. Abortable'
  BY <1>4, <1>6 DEF IInv, Abortable
<1>14. CallStarted'
  BY <1>1, <1>4, <1>6 DEF IInv, CallStarted
<1>15. LateUsesConfined'
  BY <1>1, <1>4 DEF LateUsesConfined
<1> QED BY <1>3, <1>7, <1>8, <1>9, <1>10, <1>11, <1>12, <1>13, <1>14, <1>15 DEF IInv

\* More kinds of frames, more frames.
LEMMA FramesGrow ==
  ASSUME stack \in Stacks, Finite(stack), NEW ops, NEW more, ops \subseteq more
  PROVE  Frames(ops, Root) <= Frames(more, Root)
<1>1. Slots(stack, ops, Root) \subseteq Slots(stack, more, Root)
  BY DEF Slots
<1> QED BY <1>1, SlotsFinite, FS_Subset DEF Frames

\* Unless a cancellation had nothing to abort, a packet that is being handled is
\* what ends the operation: nobody has called back.
LEMMA OnlyThePacketEnds ==
  ASSUME AcceptInv, NEW op \in {"accepted", "forget"}, Frames({op}, Root) > 0,
         io[Root] # "none", ~Raced
  PROVE  ~called[Root] /\ completed[Root] = 0 /\ life[Root] # "freed"
<1>1. \A ops : Frames(ops, Root) \in Nat
  BY FramesType DEF AcceptInv, IInv, TypeOK, Stacks
<1>2. Ends = 1
  BY DEF AcceptInv, IInv, EndsOnce, Raced
<1>3. Frames({op}, Root) <= Frames(Reporting, Root)
  BY FramesGrow DEF AcceptInv, IInv, TypeOK, Stacks, Reporting
<1>4. ~called[Root]
  BY <1>1, <1>2, <1>3 DEF Ends, One
<1>5. completed[Root] \in Nat
  BY DEF AcceptInv, IInv, TypeOK, Asyncs
<1>6. completed[Root] = 0
  BY <1>1, <1>4, <1>5 DEF AcceptInv, IInv, Owed, One
<1> QED BY <1>4, <1>6 DEF AcceptInv, IInv, Owed

\* The socket is opened, and belongs to the operation.
LEMMA OpenAndAcceptPreserves ==
  ASSUME AcceptInv, Ops \subseteq SocketCalls, NEW th \in Threads, OpenAndAccept(th)
  PROVE  AcceptInv'
<1>1. IInv /\ stack \in Stacks /\ Finite(stack) /\ Root \in Asyncs /\ stack[th] # << >>
      /\ Head(stack[th]).op = "accept" /\ Head(stack[th]).async = Root
  BY DEF AcceptInv, IInv, TypeOK, Stacks, OpenAndAccept, At, Asyncs
<1>2. Accept(th, Root)
  BY DEF OpenAndAccept, Accept
<1>3. IInv'
  BY <1>1, <1>2, CallsPreserve
<1>4. PICK next \in {"acceptex", "notify"} :
        /\ Call(th, <<Frame(next, Root)>>)
        /\ \/ next = "notify" /\ UNCHANGED <<request, opened, accepted>>
           \/ opened' = TRUE /\ accepted' = TRUE /\ SetRequest(Root, "accept")
  BY DEF OpenAndAccept
<1>5. Frame(next, Root) \in FrameType /\ Frame(next, Root).op = next /\ Frame(next, Root).async = Root
  BY FrameTypes DEF Operations
<1>6. \A ops : Frames(ops, Root)' = Frames(ops, Root) - One("accept" \in ops) + One(next \in ops)
  BY <1>1, <1>4, <1>5, Calls1 DEF IsOf
<1>7. \A ops : Frames(ops, Root) \in Nat /\ ("accept" \in ops => Frames(ops, Root) >= 1)
  <2>1. At(th, "accept", Root)
    BY DEF OpenAndAccept
  <2> QED BY <1>1, <2>1, Known
<1>8. /\ ~opened /\ ~accepted /\ ~product /\ io[Root] = "none" /\ closes = 0
      /\ Frames({"accepted"}, Root) = 0 /\ Frames({"forget"}, Root) = 0
      /\ Frames({"start", "accept"}, Root) = 1 /\ Frames({"acceptex"}, Root) = 0
  BY <1>7 DEF AcceptInv, SocketInv, SocketTypes, OpenedOnce, OnePacket, Passed, One
<1>9. UNCHANGED <<closes, product, late, io, missed, early, life>>
  BY DEF OpenAndAccept, rest, history
<1>10. /\ Frames({"accepted"}, Root)' = 0 /\ Frames({"forget"}, Root)' = 0
       /\ Frames({"start", "accept"}, Root)' = 0
       /\ Frames({"acceptex"}, Root)' = One(next = "acceptex")
  BY <1>6, <1>8 DEF One
<1>11. OnePacket'
  BY <1>8, <1>9, <1>10 DEF OnePacket, One
<1>12. LateIfRaced'
  BY <1>8, <1>9 DEF AcceptInv, SocketInv, LateIfRaced
<1>13. CASE UNCHANGED <<request, opened, accepted>> /\ next = "notify"
  <2>1. UNCHANGED <<opened, accepted, io_type>>
    BY <1>13 DEF request
  <2> QED BY <1>3, <1>8, <1>9, <1>10, <1>11, <1>12, <1>13, <2>1 DEF AcceptInv, SocketInv, SocketTypes,
          OpenedOnce, Passed, One
<1>14. CASE opened' = TRUE /\ accepted' = TRUE /\ SetRequest(Root, "accept")
  <2>1. io_type'[Root] = "accept"
    BY <1>1, <1>14 DEF SetRequest, IInv, TypeOK
  <2>2. SocketTypes' /\ OpenedOnce'
    BY <1>9, <1>10, <1>14, <2>1 DEF AcceptInv, SocketInv, SocketTypes, OpenedOnce, One
  <2>3. Passed'
    <3>1. life'[Root] # "freed"
      BY <1>9, Known DEF OpenAndAccept, Outside, AcceptInv
    <3> QED BY <1>8, <1>9, <1>10, <1>14, <3>1 DEF Passed, One
  <2> QED BY <1>3, <1>11, <1>12, <2>2, <2>3 DEF AcceptInv, SocketInv
<1> QED BY <1>4, <1>13, <1>14

\* AcceptEx is called.
LEMMA StartAcceptPreserves ==
  ASSUME AcceptInv, Ops \subseteq SocketCalls, NEW th \in Threads, StartAccept(th)
  PROVE  AcceptInv'
<1>1. IInv /\ stack \in Stacks /\ Finite(stack) /\ Root \in Asyncs /\ stack[th] # << >>
      /\ Head(stack[th]).op = "acceptex" /\ Head(stack[th]).async = Root
      /\ At(th, "acceptex", Root)
  BY DEF AcceptInv, IInv, TypeOK, Stacks, StartAccept, AcceptEx, At, Asyncs
<1>2. IInv'
  BY <1>1, CallsPreserve DEF StartAccept
<1>3. \A ops : Frames(ops, Root) \in Nat /\ ("acceptex" \in ops => Frames(ops, Root) >= 1)
  BY <1>1, Known
<1>4. /\ opened /\ ~product /\ io[Root] = "none" /\ Frames({"accepted"}, Root) = 0
      /\ Frames({"forget"}, Root) = 0
  <2>1. io[Root] = "none"
    BY <1>1, Known, Starter DEF IInv, CallStarted, Starting
  <2> QED BY <1>3, <2>1 DEF AcceptInv, SocketInv, OpenedOnce, OnePacket, One
<1>5. \A ops \in {{"accepted"}, {"forget"}, {"start", "accept"}} :
        Frames(ops, Root)' = Frames(ops, Root)
  <2>1. PICK op \in {"acceptex"} : Head(stack[th]).op = op
    BY <1>1
  <2>2. PICK f \in FrameType : f = Frame("notify", Root) /\ f.op = "notify"
    BY FrameTypes DEF Operations
  <2>3. Call(th, << >>) \/ Call(th, <<f>>)
    <3>1. << >> \o <<f>> = <<f>>
      OBVIOUS
    <3> QED BY <2>2, <3>1 DEF StartAccept, AcceptEx, Submit
  <2>4. ASSUME NEW ops, op \notin ops, f.op \notin ops
        PROVE  Frames(ops, Root)' = Frames(ops, Root)
    <3>1. ~IsOf(Head(stack[th]), ops, Root) /\ ~IsOf(f, ops, Root) /\ Frames(ops, Root) \in Nat
      BY <1>3, <2>1, <2>4 DEF IsOf
    <3>2. CASE Call(th, << >>)
      BY <1>1, <3>1, <3>2, Calls0 DEF One
    <3>3. CASE Call(th, <<f>>)
      BY <1>1, <3>1, <3>3, Calls1 DEF One
    <3> QED BY <2>3, <3>2, <3>3
  <2>5. \A ops \in {{"accepted"}, {"forget"}, {"start", "accept"}} : op \notin ops /\ f.op \notin ops
    BY <2>2
  <2> QED BY <2>4, <2>5
<1>6. /\ Frames({"accepted"}, Root)' = 0 /\ Frames({"forget"}, Root)' = 0
      /\ Frames({"start", "accept"}, Root)' = Frames({"start", "accept"}, Root)
  BY <1>4, <1>5
<1>7. /\ UNCHANGED <<opened, accepted, closes, product, late, io_type, life, missed>>
      /\ io'[Root] \in {"none", "pending"}
  BY <1>1, <1>4 DEF StartAccept, AcceptEx, Submit, socket, operation, request, IInv, TypeOK
<1>8. SocketTypes' /\ OpenedOnce'
  BY <1>4, <1>6, <1>7 DEF AcceptInv, SocketInv, SocketTypes, OpenedOnce, One
<1>9. OnePacket' /\ Passed'
  BY <1>3, <1>4, <1>6, <1>7 DEF AcceptInv, SocketInv, OnePacket, Passed, One
<1>10. LateIfRaced'
  BY <1>4, <1>7 DEF AcceptInv, SocketInv, LateIfRaced, Raced
<1> QED BY <1>2, <1>8, <1>9, <1>10 DEF AcceptInv, SocketInv

\* A worker gets the packet.
LEMMA DequeueAcceptPreserves ==
  ASSUME AcceptInv, NEW th \in Workers, DequeueAccept(th)
  PROVE  AcceptInv'
<1>1. PICK next \in {"accepted", "notify"} : stack' = [stack EXCEPT ![th] = <<Frame(next, Root)>>]
  BY DEF DequeueAccept
<1>2. PICK f \in FrameType : f = Frame(next, Root) /\ f.op = next /\ f.async = Root
  BY FrameTypes DEF Operations
<1>3. IInv'
  BY <1>1, <1>2, PacketPreserves DEF AcceptInv, DequeueAccept
<1>4. /\ stack \in Stacks /\ Finite(stack) /\ th \in Threads /\ Root \in Asyncs
      /\ \A ops : Frames(ops, Root) \in Nat
  <2>1. stack \in Stacks /\ Finite(stack)
    BY DEF AcceptInv, IInv, TypeOK, Stacks
  <2> QED BY <2>1, FramesType DEF Threads, Asyncs
<1>5. \A ops, a : Frames(ops, a)' = Frames(ops, a) + One(IsOf(f, ops, a))
  BY <1>1, <1>2, <1>4, Begins1 DEF DequeueAccept
<1>6. /\ opened /\ accepted /\ ~product /\ io[Root] = "queued"
      /\ Frames({"accepted"}, Root) = 0 /\ Frames({"forget"}, Root) = 0
  BY <1>4 DEF AcceptInv, SocketInv, OpenedOnce, OnePacket, Passed, DequeueAccept, One
<1>7. /\ Frames({"accepted"}, Root)' = One(next = "accepted") /\ Frames({"forget"}, Root)' = 0
      /\ Frames({"start", "accept"}, Root)' = Frames({"start", "accept"}, Root)
  BY <1>2, <1>4, <1>5, <1>6 DEF One, IsOf
<1>8. /\ UNCHANGED <<opened, accepted, closes, product, late, io_type, life, missed, early>>
      /\ io'[Root] = "done"
  BY <1>4 DEF DequeueAccept, socket, operation, request, rest, history, AcceptInv, IInv, TypeOK
<1>9. SocketTypes' /\ OpenedOnce'
  BY <1>6, <1>7, <1>8 DEF AcceptInv, SocketInv, SocketTypes, OpenedOnce, One
<1>10. OnePacket' /\ Passed'
  BY <1>6, <1>7, <1>8 DEF AcceptInv, SocketInv, OnePacket, Passed, One
<1>11. LateIfRaced'
  BY <1>8 DEF AcceptInv, SocketInv, LateIfRaced, Raced
<1> QED BY <1>3, <1>9, <1>10, <1>11 DEF AcceptInv, SocketInv

\* The socket is put into an object, or the operation keeps it.
LEMMA NewWithHandlePreserves ==
  ASSUME AcceptInv, NEW th \in Threads, NewWithHandle(th)
  PROVE  AcceptInv'
<1>1. PICK next \in {"forget", "notify"} :
        /\ Call(th, <<Frame(next, Root)>>)
        /\ \/ next = "forget" /\ product' = TRUE /\ late' = (completed[Root] > 0)
           \/ next = "notify" /\ UNCHANGED <<product, late>>
  BY DEF NewWithHandle
<1>2. PICK f \in FrameType : f = Frame(next, Root) /\ f.op = next /\ f.async = Root
  BY FrameTypes DEF Operations
<1>3. PICK op \in {"accepted"} : At(th, op, Root)
  BY DEF NewWithHandle
<1>4. IInv' /\ \A ops : Frames(ops, Root)' = Frames(ops, Root) - One(op \in ops) + One(f.op \in ops)
  BY <1>1, <1>2, <1>3, HandlingPreserves DEF AcceptInv, NewWithHandle
<1>5. \A ops : Frames(ops, Root) \in Nat /\ ("accepted" \in ops => Frames(ops, Root) >= 1)
  BY <1>3, PacketHandler DEF AcceptInv
<1>6. /\ opened /\ accepted /\ ~product /\ io[Root] = "done" /\ life[Root] = "live"
      /\ Frames({"accepted"}, Root) = 1 /\ Frames({"forget"}, Root) = 0 /\ closes = 0 /\ ~late
  <2>1. life[Root] = "live"
    BY <1>3, PacketHandler DEF AcceptInv
  <2> QED BY <1>5, <2>1 DEF AcceptInv, SocketInv, SocketTypes, OpenedOnce, OnePacket, Passed, LateIfRaced, One
<1>7. /\ Frames({"accepted"}, Root)' = 0 /\ Frames({"forget"}, Root)' = One(next = "forget")
      /\ Frames({"start", "accept"}, Root)' = Frames({"start", "accept"}, Root)
      /\ Frames({"acceptex"}, Root)' = Frames({"acceptex"}, Root)
  BY <1>2, <1>3, <1>4, <1>5, <1>6 DEF One
<1>8. /\ UNCHANGED <<opened, accepted, closes, io, io_type, life, missed, early>>
      /\ late' \in BOOLEAN
      /\ next = "forget" => product'
      /\ next = "notify" => ~product'
      /\ product' \in BOOLEAN
  <2>1. UNCHANGED <<opened, accepted, closes, io, io_type, life, missed, early>>
    BY DEF NewWithHandle, operation, request, rest, history
  <2>2. product \in BOOLEAN /\ late \in BOOLEAN /\ (completed[Root] > 0) \in BOOLEAN
    BY DEF AcceptInv, SocketInv, SocketTypes
  <2>3. CASE next = "forget" /\ product' = TRUE /\ late' = (completed[Root] > 0)
    <3>1. late' \in BOOLEAN /\ product' \in BOOLEAN /\ product'
      BY <2>2, <2>3
    <3> QED BY <2>1, <2>3, <3>1
  <2>4. CASE next = "notify" /\ UNCHANGED <<product, late>>
    <3>1. late' \in BOOLEAN /\ product' \in BOOLEAN /\ ~product'
      BY <1>6, <2>2, <2>4
    <3> QED BY <2>1, <2>4, <3>1
  <2> QED BY <1>1, <2>3, <2>4
<1>9. SocketTypes' /\ OpenedOnce'
  <2>1. SocketTypes'
    BY <1>8 DEF AcceptInv, SocketInv, SocketTypes
  <2>2. OpenedOnce'
    BY <1>6, <1>7, <1>8 DEF AcceptInv, SocketInv, OpenedOnce
  <2> QED BY <2>1, <2>2
<1>10. OnePacket' /\ Passed'
  <2>1. Frames({"forget"}, Root)' > 0 <=> product'
    BY <1>1, <1>7, <1>8 DEF One
  <2> QED BY <1>6, <1>7, <1>8, <2>1 DEF OnePacket, Passed, One
<1>11. LateIfRaced'
  <2>1. ~Raced => completed[Root] = 0
    BY <1>6, OnlyThePacketEnds
  <2>2. Raced' = Raced
    BY <1>8 DEF Raced
  <2>3. CASE next = "notify"
    BY <1>1, <1>6, <2>3 DEF LateIfRaced
  <2>4. CASE next = "forget"
    <3>1. late' = (completed[Root] > 0) /\ product'
      BY <1>1, <1>8, <2>4
    <3>2. completed[Root] = 0 => ~(completed[Root] > 0)
      OBVIOUS
    <3> QED BY <2>1, <2>2, <3>1, <3>2 DEF LateIfRaced
  <2> QED BY <2>3, <2>4
<1> QED BY <1>4, <1>9, <1>10, <1>11 DEF AcceptInv, SocketInv

\* The operation forgets the socket.
LEMMA ForgetPreserves ==
  ASSUME AcceptInv, NEW th \in Threads, Forget(th)
  PROVE  AcceptInv'
<1>1. PICK f \in FrameType : f = Success("notify", Root) /\ f.op = "notify" /\ f.async = Root
  BY FrameTypes DEF Operations
<1>2. PICK op \in {"forget"} : At(th, op, Root)
  BY DEF Forget
<1>3. IInv' /\ \A ops : Frames(ops, Root)' = Frames(ops, Root) - One(op \in ops) + One(f.op \in ops)
  BY <1>1, <1>2, HandlingPreserves DEF AcceptInv, Forget
<1>4. \A ops : Frames(ops, Root) \in Nat /\ ("forget" \in ops => Frames(ops, Root) >= 1)
  BY <1>2, PacketHandler DEF AcceptInv
<1>5. /\ opened /\ product /\ io[Root] = "done" /\ life[Root] = "live"
      /\ Frames({"accepted"}, Root) = 0 /\ Frames({"forget"}, Root) = 1 /\ closes = 0
  <2>1. life[Root] = "live"
    BY <1>2, PacketHandler DEF AcceptInv
  <2> QED BY <1>4, <2>1 DEF AcceptInv, SocketInv, SocketTypes, OpenedOnce, OnePacket, Passed, One
<1>6. /\ Frames({"accepted"}, Root)' = 0 /\ Frames({"forget"}, Root)' = 0
      /\ Frames({"start", "accept"}, Root)' = Frames({"start", "accept"}, Root)
  BY <1>1, <1>2, <1>3, <1>4, <1>5 DEF One
<1>7. /\ UNCHANGED <<opened, closes, product, late, io, io_type, life, missed, early>>
      /\ accepted' = FALSE
  BY DEF Forget, operation, request, rest, history
<1>8. SocketTypes' /\ OpenedOnce'
  BY <1>5, <1>6, <1>7 DEF AcceptInv, SocketInv, SocketTypes, OpenedOnce, One
<1>9. OnePacket' /\ Passed' /\ LateIfRaced'
  BY <1>5, <1>6, <1>7 DEF AcceptInv, SocketInv, OnePacket, Passed, LateIfRaced, Raced, One
<1> QED BY <1>3, <1>8, <1>9 DEF AcceptInv, SocketInv

\* xf_io_async_clear closes what the operation still has.
LEMMA DestroyAcceptPreserves ==
  ASSUME AcceptInv, NEW th \in Threads, DestroyAccept(th)
  PROVE  AcceptInv'
<1>1. IInv /\ At(th, "destroy", Root) /\ life[Root] = "live" /\ stack[th] # << >>
      /\ Head(stack[th]).op = "destroy" /\ stack \in Stacks /\ Root \in Asyncs
      /\ \A ops : Frames(ops, Root) \in Nat
  <2>1. IInv /\ At(th, "destroy", Root)
    BY DEF AcceptInv, DestroyAccept, Destroy
  <2> QED BY <2>1, Known DEF At, Outside, Asyncs
<1>2. IInv'
  BY <1>1, DestroyPreserves DEF DestroyAccept
<1>3. PICK f \in FrameType : f.op = "notify"
  BY FrameTypes DEF Operations
<1>4. PICK op \in {"destroy"} : Head(stack[th]).op = op
  BY <1>1
<1>5. \A ops : op \notin ops /\ "notify" \notin ops => Frames(ops, Root)' = Frames(ops, Root)
  <2>1. Call(th, << >>)
    BY DEF DestroyAccept, Destroy, Return
  <2> SUFFICES ASSUME NEW ops, op \notin ops, "notify" \notin ops
               PROVE  Frames(ops, Root)' = Frames(ops, Root)
    OBVIOUS
  <2>2. IInv /\ stack[th] # << >> /\ Head(stack[th]).op = op
    BY <1>1, <1>4
  <2>3. f.op \notin ops
    BY <1>3
  <2> QED BY ONLY <2>1, <2>2, <2>3, op \notin ops, th \in Threads, f \in FrameType, Untouched
<1>6. /\ \A one \in {"accepted", "forget", "acceptex"} : Frames({one}, Root)' = Frames({one}, Root)
      /\ Frames({"start", "accept"}, Root)' = Frames({"start", "accept"}, Root)
  BY <1>4, <1>5
<1>7. /\ UNCHANGED <<opened, accepted, product, late, io, io_type, missed, early>>
      /\ life'[Root] = "freed" /\ closes' = One(accepted)
  <2>1. closes = 0 /\ (accepted => io_type[Root] = "accept")
    BY <1>1 DEF AcceptInv, SocketInv, OpenedOnce, Passed, One
  <2> QED BY <1>1, <2>1 DEF DestroyAccept, Destroy, request, rest, history, IInv, TypeOK, One
<1>8. SocketTypes' /\ OpenedOnce'
  BY <1>1, <1>6, <1>7 DEF AcceptInv, SocketInv, SocketTypes, OpenedOnce, One
<1>9. OnePacket' /\ Passed' /\ LateIfRaced'
  BY <1>1, <1>6, <1>7 DEF AcceptInv, SocketInv, OnePacket, Passed, LateIfRaced, Raced, One
<1> QED BY <1>2, <1>8, <1>9 DEF AcceptInv, SocketInv

-----------------------------------------------------------------------------
(* The invariant holds *)

LEMMA AcceptInductive ==
  ASSUME Ops \subseteq SocketCalls, AcceptInv, [AcceptNext]_acceptVars
  PROVE  AcceptInv'
<1>1. ASSUME IInv', Calm
      PROVE  AcceptInv'
  <2>1. stack' \in Stacks /\ Finite(stack')
    BY <1>1 DEF IInv, TypeOK, Stacks
  <2> QED BY <1>1, <2>1, CalmKeeps DEF AcceptInv
<1>2. CASE UNCHANGED acceptVars
  <2>1. UNCHANGED vars /\ UNCHANGED socket
    BY <1>2 DEF acceptVars
  <2>2. IInv'
    BY <2>1, Inductive DEF AcceptInv
  <2>3. SocketInv'
    <3>1. \A ops : Frames(ops, Root)' = Frames(ops, Root)
      BY <2>1 DEF Frames, vars
    <3> QED BY <2>1, <3>1 DEF AcceptInv, SocketInv, SocketTypes, OpenedOnce, OnePacket, Passed,
            LateIfRaced, Raced, vars, operation, request, history, socket
  <2> QED BY <2>2, <2>3 DEF AcceptInv
<1>3. ASSUME NEW th \in Threads, UNCHANGED socket,
             \/ New(th, Root) \/ AddTimerRef(th, Root) \/ Schedule(th, Root) \/ Start(th, Root)
             \/ Notify(th, Root) \/ AsyncNotify(th, Root) \/ Callback(th, Root)
             \/ AsyncCancel(th, Root) \/ Cancel(th, Root) \/ Release(th, Root)
      PROVE  AcceptInv'
  <2>1. Step(th)
    BY <1>3 DEF Step, Execute, Asyncs
  <2>2. IInv'
    BY <2>1, StepPreserves DEF AcceptInv
  <2>3. Calm
    BY <1>3, CommonStepsAreCalm, StartIsCalm
  <2> QED BY <1>1, <2>2, <2>3
<1>4. ASSUME NEW th \in Threads, UseAfterFree(th), UNCHANGED socket
      PROVE  AcceptInv'
  <2>1. IInv' /\ Calm
    BY <1>4, UseAfterFreePreserves, BeginningsAreCalm DEF AcceptInv
  <2> QED BY <1>1, <2>1
<1>5. ASSUME NEW th \in Threads,
             \/ OpenAndAccept(th) \/ StartAccept(th) \/ NewWithHandle(th)
             \/ Forget(th) \/ DestroyAccept(th)
      PROVE  AcceptInv'
  BY <1>5, OpenAndAcceptPreserves, StartAcceptPreserves, NewWithHandlePreserves,
     ForgetPreserves, DestroyAcceptPreserves
<1>6. ASSUME NEW th \in Workers, DequeueAccept(th)
      PROVE  AcceptInv'
  BY <1>6, DequeueAcceptPreserves
<1>7. CASE (IoEnds(Root) \/ TimeoutFires(Root)) /\ UNCHANGED socket
  <2>1. IInv' /\ Calm
    BY <1>7, IoEndsPreserves, TimeoutFiresPreserves, BeginningsAreCalm DEF AcceptInv
  <2> QED BY <1>1, <2>1
<1>8. ASSUME NEW th \in Cancellers, Ask(th), UNCHANGED socket
      PROVE  AcceptInv'
  <2>1. IInv' /\ Calm
    BY <1>8, AskPreserves, BeginningsAreCalm DEF AcceptInv
  <2> QED BY <1>1, <2>1
<1> QED BY <1>2, <1>3, <1>4, <1>5, <1>6, <1>7, <1>8 DEF AcceptNext, AcceptStep

\* At first the issuer is about to create the operation.
LEMMA AcceptInitially == AcceptInit => AcceptInv
<1> SUFFICES ASSUME AcceptInit PROVE AcceptInv
  OBVIOUS
<1>1. Init /\ IInv
  BY Initially DEF AcceptInit
<1>2. ~opened /\ ~accepted /\ closes = 0 /\ ~product /\ ~late /\ io[Root] = "none"
      /\ io_type[Root] = "phase1" /\ life[Root] = "none"
  BY <1>1 DEF AcceptInit, Init, NoneYet, Asyncs
<1>3. /\ Frames({"start", "accept"}, Root) = 1 /\ Frames({"acceptex"}, Root) = 0
      /\ Frames({"accepted"}, Root) = 0 /\ Frames({"forget"}, Root) = 0
  BY <1>1, FirstFrames DEF One
<1>4. SocketTypes
  BY DEF AcceptInit, SocketTypes
<1>5. OpenedOnce
  BY <1>2, <1>3 DEF OpenedOnce, One
<1>6. OnePacket /\ Passed /\ LateIfRaced
  BY <1>2, <1>3 DEF OnePacket, Passed, LateIfRaced, One
<1> QED BY <1>1, <1>4, <1>5, <1>6 DEF AcceptInv, SocketInv

\* Every state that accepting a connection can reach satisfies the invariant.
LEMMA AcceptInvariant ==
  ASSUME Ops \subseteq SocketCalls
  PROVE  AcceptSpec => []AcceptInv
<1>1. AcceptInit => AcceptInv
  BY AcceptInitially
<1>2. AcceptInv /\ [AcceptNext]_acceptVars => AcceptInv'
  BY AcceptInductive
<1> QED BY <1>1, <1>2, PTL DEF AcceptSpec

-----------------------------------------------------------------------------
(* What it implies *)

\* The socket is the operation's, which is there by then.
LEMMA BornBefore ==
  ASSUME AcceptInv, opened
  PROVE  life[Root] # "none"
<1> SUFFICES ASSUME life[Root] = "none" PROVE FALSE
  OBVIOUS
<1>1. stack \in Stacks /\ Finite(stack) /\ AllOfRoot /\ Issuer \in Threads
  BY DEF AcceptInv, IInv, TypeOK, Stacks, OnlyRoot, Threads
<1>2. Doing(Issuer, 1) = "new" /\ Todo(Issuer) \in IssuerPrograms
  BY <1>1 DEF AcceptInv, IInv, Unseen, FollowPrograms, Programs
<1>3. Doing(Issuer, 2) = "start"
  BY <1>2 DEF Todo, IssuerPrograms, Birth, Calling, Submitting, Leaving, LockedEnding, Ending
<1>4. Frames({"start", "accept"}, Root) \in Nat
  BY <1>1, FramesType
<1>5. Frames({"start", "accept"}, Root) = 0
  BY <1>4 DEF AcceptInv, SocketInv, OpenedOnce, One
<1>6. \A th \in Threads : \A k : Doing(th, k) \notin {"start", "accept"}
  BY <1>1, <1>5, NothingToDo
<1> QED BY <1>1, <1>3, <1>6

\* The socket of a new connection has one owner as long as it is open, the
\* operation or the object made for the user, and it is closed at most once.
THEOREM AcceptedSocketHasOneOwner ==
  ASSUME Ops \subseteq SocketCalls
  PROVE  AcceptSpec => []AcceptedHasOneOwner
<1>1. AcceptInv => AcceptedHasOneOwner
  <2> SUFFICES ASSUME AcceptInv PROVE AcceptedHasOneOwner
    OBVIOUS
  <2>1. Frames({"forget"}, Root) \in Nat
    BY FramesType DEF AcceptInv, IInv, TypeOK, Stacks
  <2>2. closes <= 1
    BY DEF AcceptInv, SocketInv, Passed, One
  <2>3. ASSUME opened, closes = 0
        PROVE  One(HasOperation) + One(product) = 1 + One(Frames({"forget"}, Root) > 0)
    <3>1. accepted => life[Root] = "live"
      <4>1. life[Root] # "none"
        BY <2>3, BornBefore
      <4>2. accepted => life[Root] # "freed"
        BY <2>3 DEF AcceptInv, SocketInv, Passed, One
      <4> QED BY <4>1, <4>2 DEF AcceptInv, IInv, TypeOK, Asyncs
    <3>2. CASE accepted /\ product
      BY <2>1, <3>1, <3>2 DEF AcceptInv, SocketInv, Passed, HasOperation, One
    <3>3. CASE accepted /\ ~product
      BY <2>1, <3>1, <3>3 DEF AcceptInv, SocketInv, Passed, HasOperation, One
    <3>4. CASE ~accepted
      BY <2>1, <2>3, <3>4 DEF AcceptInv, SocketInv, Passed, HasOperation, One
    <3> QED BY <3>2, <3>3, <3>4
  <2> QED BY <2>2, <2>3 DEF AcceptedHasOneOwner
<1> QED BY <1>1, AcceptInvariant, PTL

\* The object is there before the callback runs, and nobody closes its socket,
\* unless a cancellation had nothing to abort: a packet that is being handled is
\* all that can end the operation.
THEOREM ObjectIsInTime ==
  ASSUME Ops \subseteq SocketCalls
  PROVE  AcceptSpec => []DeliveredInTime
<1>1. AcceptInv => DeliveredInTime
  <2> SUFFICES ASSUME AcceptInv, product, ~Raced PROVE closes = 0 /\ ~late
    BY DEF DeliveredInTime
  <2>1. ~late
    BY DEF AcceptInv, SocketInv, LateIfRaced
  <2>2. io[Root] = "done"
    BY DEF AcceptInv, SocketInv, OnePacket
  <2>3. CASE accepted
    <3>1. Frames({"forget"}, Root) > 0
      BY <2>3 DEF AcceptInv, SocketInv, Passed
    <3>2. life[Root] # "freed"
      BY <2>2, <3>1, OnlyThePacketEnds
    <3> QED BY <2>1, <3>2 DEF AcceptInv, SocketInv, Passed, One
  <2>4. CASE ~accepted
    BY <2>1, <2>4 DEF AcceptInv, SocketInv, Passed, One
  <2> QED BY <2>3, <2>4
<1> QED BY <1>1, AcceptInvariant, PTL

\* The operation, and the buffer in it that the kernel writes the addresses to,
\* outlives its AcceptEx, unless it was cancelled before AcceptEx was called.
THEOREM KernelWritesToKeptMemory ==
  ASSUME Ops \subseteq SocketCalls
  PROVE  AcceptSpec => []KernelMemoryIsKept
<1>1. AcceptInv => KernelMemoryIsKept
  <2> SUFFICES ASSUME AcceptInv, io[Root] = "pending", ~early[Root] PROVE life[Root] # "freed"
    BY DEF KernelMemoryIsKept
  <2>1. io_type[Root] = "accept"
    BY DEF AcceptInv, SocketInv, OpenedOnce
  <2>2. ~missed[Root]
    BY <2>1 DEF AcceptInv, IInv, Abortable
  <2>3. Ends = 1
    BY <2>2 DEF AcceptInv, IInv, EndsOnce
  <2>4. \A ops : Frames(ops, Root) \in Nat
    BY FramesType DEF AcceptInv, IInv, TypeOK, Stacks
  <2>5. ~called[Root]
    BY <2>3, <2>4 DEF Ends, One
  <2> QED BY <2>5 DEF AcceptInv, IInv, Owed
<1> QED BY <1>1, AcceptInvariant, PTL
=============================================================================
