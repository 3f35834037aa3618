----------------------------- MODULE SslStream ------------------------------
(***************************************************************************)
(* Receiving and sending through an open SSL socket (ssl_socket.c).  The   *)
(* user's operation Root makes no overlapped call of its own: its work is  *)
(* done by operations nested in it, one to receive, and one after another  *)
(* to send a long message in chunks.  The callback of one child starts the *)
(* next, or notifies Root.  Root has one link to a child, which every new  *)
(* child overwrites and every freed one clears.                            *)
(*                                                                         *)
(* The library's SChannel calls succeed or fail; what they encrypt is left *)
(* out.  Children bounds the chunks of a message.                          *)
(***************************************************************************)
EXTENDS Async

Unborn == {c \in Children : life[c] = "none"}

\* A child is created, with its timer, and handed to the base socket.
StartChild(op) ==
  LET c == CHOOSE new \in Unborn : TRUE IN <<Frame("new", c), Frame(op, c)>>

StreamUnchanged == UNCHANGED <<operation, io, rest>>

-----------------------------------------------------------------------------
(* The user's call *)

\* __xf_socket_receive, copy_from_buffer and xf_ssl_socket_receive_ph1: data
\* received before is delivered at once; memory, the context's sizes or the
\* child may be lacking.
SslReceive(th) ==
  /\ At(th, "ssl_receive", Root)
  /\ \/ Call(th, <<Success("notify", Root)>>)
     \/ Call(th, <<Frame("notify", Root)>>)
     \/ Unborn # {} /\ Call(th, StartChild("receive"))
  /\ StreamUnchanged

\* __xf_socket_send with the first xf_ssl_socket_send_ph1.
SslSend(th) ==
  /\ At(th, "ssl_send", Root)
  /\ \/ Call(th, <<Frame("notify", Root)>>)
     \/ Unborn # {} /\ Call(th, StartChild("send"))
  /\ StreamUnchanged

-----------------------------------------------------------------------------
(* The callbacks of the children *)

\* The callback of c is told that its call succeeded.
Told(th, c) == At(th, "callback", c) /\ Head(stack[th]).ok

\* xf_ssl_socket_receive_ph2 and xf_ssl_socket_send_ph2 with an error.
ChildFails(th, c) ==
  /\ ~Told(th, c)
  /\ CallbackThen(th, c, <<Frame("notify", Root)>>)

\* Variants of this module's definitions, named after the slip they make, are
\* not part of the specification: each shows that a property can fail.
ReceivedKeepsSilentOnError(th, c) ==
  /\ Told(th, c) /\ io_type[c] = "receive"
  /\ \/ CallbackThen(th, c, << >>)
     \/ CallbackThen(th, c, <<Success("notify", Root), Success("notify", Root)>>)

\* xf_ssl_socket_receive_ph2: the data cannot be decrypted, or copy_from_buffer
\* has notified Root already when the callback notifies it.
Received(th, c) ==
  /\ Told(th, c) /\ io_type[c] = "receive"
  /\ \/ CallbackThen(th, c, <<Frame("notify", Root)>>)
     \/ CallbackThen(th, c, <<Success("notify", Root), Success("notify", Root)>>)

SentAllWithPendingChunk(th, c) ==
  /\ Told(th, c) /\ io_type[c] = "send"
  /\ \/ CallbackThen(th, c, <<Success("notify", Root)>>)
     \/ Unborn # {} /\ CallbackThen(th, c, StartChild("send") \o <<Success("notify", Root)>>)

\* xf_ssl_socket_send_ph2: the next chunk, if there is one and a child for it,
\* or the end of the message.
Sent(th, c) ==
  /\ Told(th, c) /\ io_type[c] = "send"
  /\ \/ CallbackThen(th, c, <<Success("notify", Root)>>)
     \/ Unborn # {} /\ CallbackThen(th, c, StartChild("send"))
     \/ Unborn # {} /\ CallbackThen(th, c, <<Frame("notify", Root)>>)

ChildCallback(th, c) == ChildFails(th, c) \/ Received(th, c) \/ Sent(th, c)

-----------------------------------------------------------------------------

StreamStep(th) ==
  \/ Step(th)
  \/ SslReceive(th) \/ SslSend(th)
  \/ \E c \in Children : ChildCallback(th, c)

StreamNext ==
  \/ \E th \in Threads : StreamStep(th)
  \/ \E a \in Asyncs : IoEnds(a) \/ TimeoutFires(a) \/ \E th \in Workers : Dequeue(th, a)
  \/ \E th \in Cancellers : Ask(th)

StreamSafeSpec == Init /\ [][StreamNext]_vars

\* As in Async.
StreamSpec ==
  /\ StreamSafeSpec
  /\ \A th \in Threads : WF_vars(StreamStep(th))
  /\ \A a \in Asyncs : /\ WF_vars(\E th \in Workers : Dequeue(th, a))
                       /\ WF_vars(TimeoutFires(a))

-----------------------------------------------------------------------------
(* Properties *)

\* _cancel locks a parent and then its child.  A thread waits for the parent
\* with the child locked only inside xf_async_enter, which notifies a cancelled
\* operation under its lock; completions and timeouts never close the cycle.
LockCycleOnlyInEnter ==
  \A th, owner \in Threads : \A c \in Children :
    WaitsFor(th, Root, owner) /\ lock[c].owner = th => canceled[c]

\* While the kernel works for a child, Root has not been reported; otherwise
\* Root was cancelled and the cancellation never reached the child, which was
\* linked after it or is a chunk whose link a freed child has cleared.
WorkEndsFirst ==
  completed[Root] = 1 =>
    \A c \in Children : io[c] = "pending" => canceled[Root] /\ ~canceled[c]

\* Without a cancellation the library uses freed memory in two places only: the
\* child that is freed last writes to its parent, and the callback of a receive
\* notifies once more than it should.
LateUsesOfParent ==
  \A s \in stale :
    \/ asked # {} \/ canceled[Root] \/ canceled[s.frame.async]
    \/ s.frame.op = "destroy" /\ s.frame.async \in Children
    \/ s.frame = Success("notify", Root)

\* A stream operation with a timeout calls back even if the peer never answers,
\* unless two threads wait for each other's lock or memory was used too late.
TimedStreamCallsBack ==
  (timer[Root] = "armed") ~> (completed[Root] = 1 \/ Deadlocked \/ stale # {})
=============================================================================
