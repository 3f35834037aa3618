-------------------------------- MODULE Async --------------------------------
(***************************************************************************)
(* The life of an asynchronous operation: xf_async_t in async.c, with the  *)
(* timer, the socket operation and the completion packet that race to end  *)
(* it.  An operation is driven by several threads at once: the issuer that *)
(* creates it and starts the socket call, the poll thread that runs        *)
(* async_timeout, the completion-port worker that gets the packet, and     *)
(* users who call xf_async_cancel.  Operations nest once, as in            *)
(* ssl_socket.c; what the children of an operation do is left to the       *)
(* modules that extend this one (SslStream, Handshake).                    *)
(*                                                                         *)
(* Each thread is a stack of frames, one for each call or statement it has *)
(* yet to execute; a step executes the frame on top.  A critical section   *)
(* that calls nothing is one step, one that calls out holds the lock over  *)
(* several.  xf_timeout_cancel is one step (module Timeout).               *)
(*                                                                         *)
(* Nothing is defined after a thread has used an operation that was freed, *)
(* so the model records the first such use in `stale' and stops there.     *)
(***************************************************************************)
EXTENDS Integers, Sequences, FiniteSets

CONSTANTS
  Root,          \* the operation the user created
  Children,      \* the operations nested in it
  Others,        \* operations that have nothing to do with it (TcpDestroy)
  Timed,         \* the operations created with timeout > 0
  Ops,           \* the socket operations the issuer may start
  Issuer, Poller, \* the thread that makes the socket call, and the poll thread
  Workers,       \* the threads of the completion port
  Resolver,      \* the system thread that reports name resolution (TcpConnect)
  Cancellers,    \* threads that may call xf_async_cancel on Root
  None

Asyncs  == {Root} \union Children \union Others
Threads == {Issuer, Poller, Resolver} \union Workers \union Cancellers

ASSUME AsyncAssumption ==
  /\ None \notin Asyncs /\ Root \notin Children \union Others
  /\ Children \cap Others = {}
  /\ Timed \subseteq Asyncs
  /\ Ops \subseteq STRING
  /\ None \notin Threads
  /\ Issuer # Poller /\ Resolver \notin {Issuer, Poller}
  /\ Workers \cap Cancellers = {}
  /\ (Workers \union Cancellers) \cap {Issuer, Poller, Resolver} = {}

VARIABLES
  stack,         \* the frames each thread has yet to execute
  life,          \* "none", "live" or "freed"
  ref,           \* xf_async_t.ref
  lock,          \* xf_async_t.lock: the owner and how often it entered
  canceled,      \* xf_async_t.canceled
  called,        \* xf_async_t.u.async.called
  child,         \* xf_async_t.child_async
  handle,        \* xf_async_t.io_async.handle is valid
  io_type,       \* xf_async_t.io_async.io_type; zeroed memory says "phase1"
  timer,         \* xf_async_t.timeout: "idle", "armed" or "gone"
  io,            \* the overlapped call: "none", "pending", "queued" (its packet
                 \* is in the completion port) or "done"
  completed,     \* history: how often the completion callback has run
  missed,        \* history: a cancellation found a call that CancelIoEx could
                 \* not abort as its packet was under way
  early,         \* history: it was cancelled before its call started
  asked,         \* the cancellers that have made their call
  stale          \* the frame that used a freed operation, with its thread

request == <<handle, io_type>>
operation == <<life, ref, lock, canceled, called, child, request, timer>>
history == <<completed, missed, early>>
rest == <<history, asked, stale>>
vars == <<stack, operation, io, history, asked, stale>>

Parent(a) == IF a \in Children THEN Root ELSE None

\* Frames of the modules that extend this one that do not use the operation.
Outside == {"close", "object_release", "object_destroy", "object_free"}

\* What a frame executes, here, in TcpAccept, TcpConnect and TcpDestroy, in SslStream
\* and in Handshake.
Operations ==
  {"new", "add_timer_ref", "schedule", "start", "receive", "send", "send_enter", "disconnect",
   "accept", "recv", "submit", "disconnectex", "acceptex", "notify", "async_notify",
   "callback", "cancel", "_cancel", "release", "destroy", "unlock"}
    \union {"accepted", "forget", "wait", "disconnected"} \union Outside
    \union {"connect", "resolve", "failed", "phase1", "phase1_enter", "connectex", "phase2"}
    \union {"ssl_receive", "ssl_send"}
    \union {"ssl_connect", "run", "connect_base", "start_base", "set_1", "set_3", "set_4", "check"}

\* A frame carries the result that a notification reports; most carry none.
FrameType == [op : Operations, async : Asyncs, ok : BOOLEAN]

Frame(op, a) == [op |-> op, async |-> a, ok |-> FALSE]

Success(op, a) == [Frame(op, a) EXCEPT !.ok = TRUE]

NoneYet ==
  /\ life = [a \in Asyncs |-> "none"]
  /\ ref = [a \in Asyncs |-> 0]
  /\ lock = [a \in Asyncs |-> [owner |-> None, depth |-> 0]]
  /\ canceled = [a \in Asyncs |-> FALSE]
  /\ called = [a \in Asyncs |-> FALSE]
  /\ child = [a \in Asyncs |-> None]
  /\ handle = [a \in Asyncs |-> FALSE]
  /\ io_type = [a \in Asyncs |-> "phase1"]
  /\ timer = [a \in Asyncs |-> "idle"]
  /\ io = [a \in Asyncs |-> "none"]
  /\ completed = [a \in Asyncs |-> 0]
  /\ missed = [a \in Asyncs |-> FALSE]
  /\ early = [a \in Asyncs |-> FALSE]
  /\ asked = {}
  /\ stale = {}

Init ==
  /\ NoneYet
  /\ stack = [th \in Threads |->
                IF th = Issuer THEN <<Frame("new", Root), Frame("start", Root)>> ELSE << >>]

-----------------------------------------------------------------------------
(* Frames and monitors *)

\* The operations whose memory a frame reads or writes.
Uses(f) ==
  CASE f.op = "new"       -> {Parent(f.async)} \ {None}
    [] f.op = "destroy"   -> {f.async, Parent(f.async)} \ {None}
    [] f.op \in Outside   -> {}
    [] OTHER              -> {f.async}

\* Thread th is about to execute op on a, and everything it uses is there.
At(th, op, a) ==
  /\ stale = {}
  /\ stack[th] # << >>
  /\ Head(stack[th]).op = op /\ Head(stack[th]).async = a
  /\ \A u \in Uses(Head(stack[th])) : life[u] = "live"

\* The frame on top is replaced by the frames it calls, in order.
Call(th, frames) == stack' = [stack EXCEPT ![th] = frames \o Tail(@)]

Return(th) == Call(th, << >>)

\* A frame with the result of the frame on top.
Carry(th, op, a) == [Frame(op, a) EXCEPT !.ok = Head(stack[th]).ok]

\* The monitor is a recursive critical section.
CanEnter(th, a) == lock[a].owner \in {None, th}

Enter(th, a) == lock' = [lock EXCEPT ![a] = [owner |-> th, depth |-> @.depth + 1]]

Leave(a) ==
  lock' = [lock EXCEPT ![a] = IF @.depth = 1 THEN [owner |-> None, depth |-> 0]
                              ELSE [owner |-> @.owner, depth |-> @.depth - 1]]

Unlock(th, a) ==
  /\ At(th, "unlock", a)
  /\ Leave(a)
  /\ Return(th)
  /\ UNCHANGED <<life, ref, canceled, called, child, request, timer, io, rest>>

UseAfterFree(th) ==
  /\ stale = {}
  /\ stack[th] # << >>
  /\ \E u \in Uses(Head(stack[th])) : life[u] # "live"
  /\ stale' = {[thread |-> th, frame |-> Head(stack[th])]}
  /\ UNCHANGED <<stack, operation, io, history, asked>>

-----------------------------------------------------------------------------
(* xf_async_new *)

\* The new operation is known to its parent before its timer is set.
New(th, a) ==
  /\ At(th, "new", a)
  /\ life' = [life EXCEPT ![a] = "live"]
  /\ ref' = [ref EXCEPT ![a] = 1]
  /\ child' = [p \in Asyncs |-> IF p = Parent(a) THEN a ELSE child[p]]
  /\ Call(th, IF a \in Timed THEN <<Frame("add_timer_ref", a)>> ELSE << >>)
  /\ UNCHANGED <<lock, canceled, called, request, timer, io, rest>>

AddTimerRef(th, a) ==
  /\ At(th, "add_timer_ref", a)
  /\ ref' = [ref EXCEPT ![a] = @ + 1]
  /\ Call(th, <<Frame("schedule", a)>>)
  /\ UNCHANGED <<life, lock, canceled, called, child, request, timer, io, rest>>

Schedule(th, a) ==
  /\ At(th, "schedule", a)
  /\ timer' = [timer EXCEPT ![a] = "armed"]
  /\ Return(th)
  /\ UNCHANGED <<life, ref, lock, canceled, called, child, request, io, rest>>

-----------------------------------------------------------------------------
(* Starting a socket operation *)

\* Variants of this module's definitions, named after the slip they make, are
\* not part of the specification: each shows that a property can fail.
EnterIgnoresCanceled(th, a, next) ==
  /\ CanEnter(th, a)
  /\ Enter(th, a)
  /\ ref' = [ref EXCEPT ![a] = @ + 1]
  /\ Call(th, <<Frame(next, a)>>)

EnterWithoutRef(th, a, next) ==
  /\ CanEnter(th, a)
  /\ Enter(th, a)
  /\ UNCHANGED ref
  /\ Call(th, IF canceled[a] THEN <<Frame("notify", a), Frame("unlock", a)>>
              ELSE <<Frame(next, a)>>)

\* xf_async_enter: a cancelled operation is notified with its lock held and
\* the socket call `next' is skipped; otherwise the caller holds a reference
\* and the lock until it leaves.
AsyncEnter(th, a, next) ==
  /\ CanEnter(th, a)
  /\ Enter(th, a)
  /\ IF canceled[a]
     THEN /\ Call(th, <<Frame("notify", a), Frame("unlock", a)>>)
          /\ UNCHANGED ref
     ELSE /\ Call(th, <<Frame(next, a)>>)
          /\ ref' = [ref EXCEPT ![a] = @ + 1]

SetRequest(a, type) ==
  /\ handle' = [handle EXCEPT ![a] = TRUE]
  /\ io_type' = [io_type EXCEPT ![a] = type]

Start(th, a) ==
  /\ At(th, "start", a)
  /\ \E op \in Ops : Call(th, <<Frame(op, a)>>)
  /\ UNCHANGED <<operation, io, rest>>

\* __xf_socket_receive takes the lock before it touches the operation.
Receive(th, a) ==
  /\ At(th, "receive", a)
  /\ AsyncEnter(th, a, "recv")
  /\ UNCHANGED <<life, canceled, called, child, request, timer, io, rest>>

\* __xf_socket_send sets the handle before it takes the lock.
Send(th, a) ==
  /\ At(th, "send", a)
  /\ SetRequest(a, "send")
  /\ Call(th, <<Frame("send_enter", a)>>)
  /\ UNCHANGED <<life, ref, lock, canceled, called, child, timer, io, rest>>

SendEnter(th, a) ==
  /\ At(th, "send_enter", a)
  /\ AsyncEnter(th, a, "submit")
  /\ UNCHANGED <<life, canceled, called, child, request, timer, io, rest>>

\* __xf_socket_close may fail before it enters, and sets no handle at all.
Disconnect(th, a) ==
  /\ At(th, "disconnect", a)
  /\ \/ AsyncEnter(th, a, "disconnectex")
     \/ Call(th, <<Frame("notify", a)>>) /\ UNCHANGED <<lock, ref>>
  /\ UNCHANGED <<life, canceled, called, child, request, timer, io, rest>>

\* __xf_server_socket_accept takes neither the lock nor a reference; it may
\* fail before it sets the handle, and after that.
Accept(th, a) ==
  /\ At(th, "accept", a)
  /\ \/ /\ SetRequest(a, "accept")
        /\ \E next \in {"acceptex", "notify"} : Call(th, <<Frame(next, a)>>)
     \/ /\ UNCHANGED request
        /\ Call(th, <<Frame("notify", a)>>)
  /\ UNCHANGED <<life, ref, lock, canceled, called, child, timer, io, rest>>

\* The overlapped call starts (if it is done at once its packet is queued all
\* the same), or it fails and the issuer notifies once it has left.
Submit(th, a, onLeave) ==
  \/ /\ io' = [io EXCEPT ![a] = "pending"]
     /\ Call(th, onLeave)
  \/ /\ UNCHANGED io
     /\ Call(th, onLeave \o <<Frame("notify", a)>>)

AsyncLeave(a) == <<Frame("unlock", a), Frame("release", a)>>

\* WSARecv: the lock that makes the handle visible also covers the call.
Recv(th, a) ==
  /\ At(th, "recv", a)
  /\ SetRequest(a, "receive")
  /\ Submit(th, a, AsyncLeave(a))
  /\ UNCHANGED <<life, ref, lock, canceled, called, child, timer, rest>>

\* WSASend
SubmitSend(th, a) ==
  /\ At(th, "submit", a)
  /\ Submit(th, a, AsyncLeave(a))
  /\ UNCHANGED <<operation, rest>>

DisconnectEx(th, a) ==
  /\ At(th, "disconnectex", a)
  /\ io_type' = [io_type EXCEPT ![a] = "disconnect"]
  /\ Submit(th, a, AsyncLeave(a))
  /\ UNCHANGED <<life, ref, lock, canceled, called, child, handle, timer, rest>>

\* AcceptEx is called whatever has become of the operation.
AcceptEx(th, a) ==
  /\ At(th, "acceptex", a)
  /\ Submit(th, a, << >>)
  /\ early' = [early EXCEPT ![a] = canceled[a]]
  /\ UNCHANGED <<operation, completed, missed, asked, stale>>

-----------------------------------------------------------------------------
(* Completion *)

\* The kernel ends an overlapped call and queues its packet.  Whoever waits
\* for a peer may wait for ever.
IoEnds(a) ==
  /\ stale = {}
  /\ io[a] = "pending"
  /\ io' = [io EXCEPT ![a] = "queued"]
  /\ UNCHANGED <<stack, operation, rest>>

\* io_compiletion_main hands the packet to the completion routine of the
\* operation, which notifies it whether the call succeeded or not.  One that was
\* cancelled may have succeeded.
Dequeue(th, a) ==
  /\ stale = {}
  /\ stack[th] = << >>
  /\ io[a] = "queued"
  /\ io' = [io EXCEPT ![a] = "done"]
  /\ \E f \in {Frame("notify", a), Success("notify", a)} :
       stack' = [stack EXCEPT ![th] = <<f>>]
  /\ UNCHANGED <<operation, rest>>

NotifyAlwaysReleases(th, a) ==
  /\ At(th, "notify", a)
  /\ timer' = [timer EXCEPT ![a] = IF @ = "armed" THEN "gone" ELSE @]
  /\ Call(th, <<Frame("release", a), Carry(th, "async_notify", a)>>)
  /\ UNCHANGED <<life, ref, lock, canceled, called, child, request, io, rest>>

CancelTimerForgetsRef(th, a, then) ==
  /\ timer' = [timer EXCEPT ![a] = IF @ = "armed" THEN "gone" ELSE @]
  /\ Call(th, then)

\* Taking the timer out of the tree passes the reference it holds to whoever
\* took it out: `then' is what that thread does next.
CancelTimerThen(th, a, then) ==
  /\ timer' = [timer EXCEPT ![a] = IF @ = "armed" THEN "gone" ELSE @]
  /\ Call(th, IF timer[a] = "armed" THEN <<Frame("release", a)>> \o then ELSE then)

\* xf_async_notify
Notify(th, a) ==
  /\ At(th, "notify", a)
  /\ CancelTimerThen(th, a, <<Carry(th, "async_notify", a)>>)
  /\ UNCHANGED <<life, ref, lock, canceled, called, child, request, io, rest>>

AsyncNotifyUnchecked(th, a) ==
  /\ At(th, "async_notify", a)
  /\ CanEnter(th, a)
  /\ called' = [called EXCEPT ![a] = TRUE]
  /\ Call(th, <<Carry(th, "callback", a), Frame("release", a)>>)
  /\ UNCHANGED <<life, ref, lock, canceled, child, request, timer, io, rest>>

AsyncNotifyHoldsLock(th, a) ==
  /\ At(th, "async_notify", a)
  /\ CanEnter(th, a)
  /\ called' = [called EXCEPT ![a] = TRUE]
  /\ IF called[a]
     THEN Return(th) /\ UNCHANGED lock
     ELSE /\ Enter(th, a)
          /\ Call(th, <<Carry(th, "callback", a), Frame("unlock", a), Frame("release", a)>>)
  /\ UNCHANGED <<life, ref, canceled, child, request, timer, io, rest>>

\* _xf_async_async_notify: the first thread here calls back, then gives up the
\* reference the operation was created with.
AsyncNotify(th, a) ==
  /\ At(th, "async_notify", a)
  /\ CanEnter(th, a)
  /\ called' = [called EXCEPT ![a] = TRUE]
  /\ Call(th, IF called[a] THEN << >>
              ELSE <<Carry(th, "callback", a), Frame("release", a)>>)
  /\ UNCHANGED <<life, ref, lock, canceled, child, request, timer, io, rest>>

\* The completion callback runs with no lock held, unless the thread is inside
\* xf_async_enter or cancels a child.  What the callback calls is `next'.
CallbackThen(th, a, next) ==
  /\ At(th, "callback", a)
  /\ completed' = [completed EXCEPT ![a] = @ + 1]
  /\ Call(th, next)
  /\ UNCHANGED <<operation, io, missed, early, asked, stale>>

\* The user's own callback calls nothing that matters here.
Callback(th, a) == Parent(a) = None /\ CallbackThen(th, a, << >>)

-----------------------------------------------------------------------------
(* Cancellation and the timer *)

\* The poll thread takes a due timer out of the tree and calls async_timeout.
TimeoutFires(a) ==
  /\ stale = {}
  /\ stack[Poller] = << >>
  /\ timer[a] = "armed"
  /\ timer' = [timer EXCEPT ![a] = "gone"]
  /\ stack' = [stack EXCEPT ![Poller] = <<Frame("_cancel", a), Frame("release", a)>>]
  /\ UNCHANGED <<life, ref, lock, canceled, called, child, request, io, rest>>

\* A user who has seen no completion calls xf_async_cancel, at any time after
\* xf_async_new has returned the operation.
Ask(th) ==
  /\ stale = {}
  /\ th \notin asked
  /\ life[Root] = "live" /\ completed[Root] = 0
  /\ ~\E i \in DOMAIN stack[Issuer] :
       /\ stack[Issuer][i].op \in {"add_timer_ref", "schedule"}
       /\ stack[Issuer][i].async = Root
  /\ asked' = asked \union {th}
  /\ stack' = [stack EXCEPT ![th] = <<Frame("cancel", Root)>>]
  /\ UNCHANGED <<operation, io, history, stale>>

\* xf_async_cancel
AsyncCancel(th, a) ==
  /\ At(th, "cancel", a)
  /\ CancelTimerThen(th, a, <<Frame("_cancel", a)>>)
  /\ UNCHANGED <<life, ref, lock, canceled, called, child, request, io, rest>>

\* A child is cancelled with the parent's lock held.
CancelChild(th, a) ==
  /\ child[a] # None
  /\ Enter(th, a)
  /\ Call(th, <<Frame("cancel", child[a]), Frame("unlock", a)>>)
  /\ UNCHANGED <<handle, io, missed>>

CancelCallNotifiesToo(th, a) ==
  /\ child[a] = None /\ handle[a] /\ io[a] = "pending"
  /\ io' = [io EXCEPT ![a] = "queued"]
  /\ handle' = [handle EXCEPT ![a] = FALSE]
  /\ Call(th, <<Frame("notify", a)>>)
  /\ UNCHANGED <<lock, missed>>

\* CancelIoEx finds the call: its packet will come, and will notify.
CancelCall(th, a) ==
  /\ child[a] = None /\ handle[a] /\ io[a] = "pending"
  /\ io' = [io EXCEPT ![a] = "queued"]
  /\ handle' = [handle EXCEPT ![a] = FALSE]
  /\ Return(th)
  /\ UNCHANGED <<lock, missed>>

CancelDirectlyKeepsSilent(th, a) ==
  /\ child[a] = None /\ ~(handle[a] /\ io[a] = "pending")
  /\ missed' = [missed EXCEPT ![a] = @ \/ io[a] # "none"]
  /\ Return(th)
  /\ UNCHANGED <<lock, handle, io>>

\* There is nothing to abort, as far as the handle or CancelIoEx can tell.
CancelDirectly(th, a) ==
  /\ child[a] = None /\ ~(handle[a] /\ io[a] = "pending")
  /\ missed' = [missed EXCEPT ![a] = @ \/ io[a] # "none"]
  /\ Call(th, <<Frame("notify", a)>>)
  /\ UNCHANGED <<lock, handle, io>>

\* _cancel
Cancel(th, a) ==
  /\ At(th, "_cancel", a)
  /\ CanEnter(th, a)
  /\ canceled' = [canceled EXCEPT ![a] = TRUE]
  /\ CancelChild(th, a) \/ CancelCall(th, a) \/ CancelDirectly(th, a)
  /\ UNCHANGED <<life, ref, called, child, io_type, timer, completed, early, asked, stale>>

-----------------------------------------------------------------------------
(* xf_async_release *)

Release(th, a) ==
  /\ At(th, "release", a)
  /\ ref' = [ref EXCEPT ![a] = @ - 1]
  /\ Call(th, IF ref[a] > 1 THEN << >> ELSE <<Frame("destroy", a)>>)
  /\ UNCHANGED <<life, lock, canceled, called, child, request, timer, io, rest>>

\* The thread that drops the last reference unlinks the operation from its
\* parent, without the parent's lock, and frees it.
Destroy(th, a) ==
  /\ At(th, "destroy", a)
  /\ CanEnter(th, a)
  /\ timer' = [timer EXCEPT ![a] = IF @ = "armed" THEN "gone" ELSE @]
  /\ child' = [p \in Asyncs |-> IF p = Parent(a) THEN None ELSE child[p]]
  /\ life' = [life EXCEPT ![a] = "freed"]
  /\ Return(th)
  /\ UNCHANGED <<ref, lock, canceled, called, request, io, rest>>

-----------------------------------------------------------------------------

Execute(th, a) ==
  \/ New(th, a) \/ AddTimerRef(th, a) \/ Schedule(th, a)
  \/ Start(th, a) \/ Receive(th, a) \/ Send(th, a) \/ SendEnter(th, a)
  \/ Disconnect(th, a) \/ Accept(th, a)
  \/ Recv(th, a) \/ SubmitSend(th, a) \/ DisconnectEx(th, a) \/ AcceptEx(th, a)
  \/ Notify(th, a) \/ AsyncNotify(th, a) \/ Callback(th, a)
  \/ AsyncCancel(th, a) \/ Cancel(th, a)
  \/ Release(th, a) \/ Destroy(th, a) \/ Unlock(th, a)

Step(th) == UseAfterFree(th) \/ \E a \in Asyncs : Execute(th, a)

Next ==
  \/ \E th \in Threads : Step(th)
  \/ \E a \in Asyncs : IoEnds(a) \/ TimeoutFires(a) \/ \E th \in Workers : Dequeue(th, a)
  \/ \E th \in Cancellers : Ask(th)

SafeSpec == Init /\ [][Next]_vars

\* Threads run, queued packets are fetched and due timers fire.  Nothing makes
\* an overlapped call end or a user cancel.
Fairness ==
  /\ \A th \in Threads : WF_vars(Step(th))
  /\ \A a \in Asyncs : /\ WF_vars(\E th \in Workers : Dequeue(th, a))
                        /\ WF_vars(TimeoutFires(a))

Spec == SafeSpec /\ Fairness

-----------------------------------------------------------------------------
(* Properties *)

\* Every variable has a value of its kind.
TypeOK ==
  /\ stack \in [Threads -> Seq(FrameType)]
  /\ life \in [Asyncs -> {"none", "live", "freed"}]
  /\ ref \in [Asyncs -> Nat]
  /\ lock \in [Asyncs -> [owner : Threads \union {None}, depth : Nat]]
  /\ canceled \in [Asyncs -> BOOLEAN]
  /\ called \in [Asyncs -> BOOLEAN]
  /\ child \in [Asyncs -> Asyncs \union {None}]
  /\ handle \in [Asyncs -> BOOLEAN]
  /\ io_type \in [Asyncs -> {"phase1", "phase2", "receive", "send", "accept", "disconnect"}]
  /\ timer \in [Asyncs -> {"idle", "armed", "gone"}]
  /\ io \in [Asyncs -> {"none", "pending", "queued", "done"}]
  /\ completed \in [Asyncs -> Nat]
  /\ missed \in [Asyncs -> BOOLEAN]
  /\ early \in [Asyncs -> BOOLEAN]
  /\ asked \subseteq Cancellers

\* Where the frames of these kinds are that the threads have yet to execute: in
\* which stack, and how far from its bottom.
Slots(stacks, ops, a) ==
  {s \in UNION {{th} \X DOMAIN stacks[th] : th \in Threads} :
     LET f == stacks[s[1]][Len(stacks[s[1]]) + 1 - s[2]] IN f.op \in ops /\ f.async = a}

Frames(ops, a) == Cardinality(Slots(stack, ops, a))

\* Frames that own a reference: it is given up by the frame or by one that the
\* frame leaves behind.
Holding == {"schedule", "recv", "submit", "disconnectex", "release", "resolve", "connectex"}

One(b) == IF b THEN 1 ELSE 0

\* The reference count is exact at every moment: one for the callback that is
\* still owed, one for an armed timer, one for each reference a thread holds
\* between enter and leave, in async_timeout or on the way to a release.
RefCountExact ==
  \A a \in {b \in Asyncs : life[b] = "live"} :
    ref[a] = One(~called[a]) + One(timer[a] = "armed") + Frames(Holding, a)

\* Timeout, cancellation, packet and failure to start may all end the
\* operation; its callback runs once, and before the operation is freed.
OneCallback ==
  \A a \in Asyncs :
    completed[a] <= 1 /\ (life[a] = "freed" => completed[a] = 1)

\* A receive or send is never reported while the kernel still has the caller's
\* buffer: a cancelled call is reported by its packet, not by the canceller.
BufferIsReturned ==
  \A a \in Asyncs :
    completed[a] = 1 /\ io_type[a] \in {"receive", "send"} => io[a] # "pending"

\* The library uses a freed operation only if a timeout or a user cancelled it:
\* never on the poll thread, which holds the timer's reference; on the issuer
\* only if the call never started, so that no packet was going to end the
\* operation; on a worker only if _cancel found nothing to abort and notified by
\* itself.  (Accept, which takes no lock, may start its call after that.)
LateUsesConfined ==
  \A s \in stale :
    LET a == s.frame.async IN
      /\ s.thread \in Cancellers \/ (s.thread # Poller /\ canceled[a])
      /\ s.thread = Issuer => io[a] = "none"
      /\ s.thread \in Workers => missed[a] \/ early[a]

\* Seen from outside the operation is that of Operation: it reports once, is
\* freed after that, and with a timeout reports even if its peer never answers.
Op == INSTANCE Operation WITH
        state <- IF stale # {} THEN "misused"
                 ELSE IF life[Root] = "freed" THEN "freed"
                 ELSE IF completed[Root] > 0 THEN "reported" ELSE "pending",
        ended <- canceled[Root] \/ asked # {},
        HasTimeout <- Root \in Timed

ImplementsOperation == Op!Spec

\* Frames that take the monitor of their operation.
Locking == {"receive", "send_enter", "disconnect", "async_notify", "_cancel", "destroy",
            "connect", "phase1_enter"}

WaitsFor(th, a, owner) ==
  /\ stack[th] # << >>
  /\ Head(stack[th]).op \in Locking /\ Head(stack[th]).async = a
  /\ lock[a].owner = owner /\ owner \notin {None, th}

\* Two threads wait for each other's lock, of a parent and of its child.
Deadlocked ==
  \E th, owner \in Threads : \E c \in Children :
    WaitsFor(th, Root, owner) /\ WaitsFor(owner, c, th)
=============================================================================
