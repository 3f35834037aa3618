----------------------------- MODULE TcpDestroy ------------------------------
(***************************************************************************)
(* Giving up a TCP socket: the reference count of object.c and the message *)
(* XF_MESSAGE_OBJECT_DESTROY in tcp_socket.c.  The thread that drops the   *)
(* last reference disconnects the socket with an operation of the blocking *)
(* kind: it waits for the packet or for the timer of ten seconds.  That    *)
(* thread may be any one, the poll thread and a worker of the completion   *)
(* port among them: both run callbacks of users, and while one waits it    *)
(* fires no timer or fetches no packet.                                    *)
(*                                                                         *)
(* Each socket s has its operation, which goes by the same name; it is not *)
(* zeroed when it is created, so that its link to a child is whatever was  *)
(* in memory, and nobody ever gives it up.                                 *)
(***************************************************************************)
EXTENDS Async

Sockets == {Root} \union Others

ASSUME DestroyAssumption == IsFiniteSet(Workers) /\ IsFiniteSet(Others)

VARIABLES
  object_ref,    \* xf_object_t.ref
  object,        \* "live" or "freed"
  open,          \* the socket is open, its handle in the object
  status,        \* the operation's u.wait.status
  wild           \* the operation's child_async is not NULL

destruction == <<object_ref, object, open, status, wild>>
destroyVars == <<vars, destruction>>

\* The issuer, the poll thread and the workers may all have references, and give
\* them up one after another, in any order.
Holders == {Issuer, Poller} \union Workers

Held == UNION {[1..n -> Sockets] : n \in 0..Cardinality(Sockets)}

DestroyInit ==
  /\ NoneYet
  /\ \E held \in [Holders -> Held] :
       stack = [th \in Threads |->
                  IF th \in Holders
                  THEN [i \in DOMAIN held[th] |-> Frame("object_release", held[th][i])]
                  ELSE << >>]
  /\ object_ref = [s \in Sockets |-> Frames({"object_release"}, s)]
  /\ \A s \in Sockets : object_ref[s] > 0
  /\ object = [s \in Sockets |-> "live"]
  /\ open = [s \in Sockets |-> TRUE]
  /\ status = [s \in Sockets |-> FALSE]
  /\ wild = [s \in Sockets |-> FALSE]

-----------------------------------------------------------------------------
(* The thread that destroys the object *)

\* xf_object_release
ObjectRelease(th, s) ==
  /\ At(th, "object_release", s)
  /\ object_ref' = [object_ref EXCEPT ![s] = @ - 1]
  /\ Call(th, IF object_ref[s] > 1 THEN << >>
              ELSE <<Frame("object_destroy", s), Frame("object_free", s)>>)
  /\ UNCHANGED <<operation, io, rest, object, open, status, wild>>

\* XF_MESSAGE_OBJECT_DESTROY: without a blocking operation the handle is left.
ObjectDestroy(th, s) ==
  /\ At(th, "object_destroy", s)
  /\ \/ Return(th)
     \/ Call(th, <<Frame("new", s), Frame("disconnect", s), Frame("wait", s)>>)
  /\ UNCHANGED <<operation, io, rest, destruction>>

\* xf_async_wait_new
WaitNew(th, s) ==
  /\ New(th, s)
  /\ wild' \in {wild, [wild EXCEPT ![s] = TRUE]}
  /\ UNCHANGED <<object_ref, object, open, status>>

\* Variants of this module's definitions, named after the slip they make, are
\* not part of the specification: each shows that a property can fail.
WaitOnce(th, s) ==
  /\ At(th, "wait", s)
  /\ CanEnter(th, s)
  /\ Return(th)
  /\ UNCHANGED <<operation, io, rest, destruction>>

\* xf_async_wait: the monitor is left while it waits.
Wait(th, s) ==
  /\ At(th, "wait", s)
  /\ status[s] /\ CanEnter(th, s)
  /\ Return(th)
  /\ UNCHANGED <<operation, io, rest, destruction>>

ObjectFree(th, s) ==
  /\ At(th, "object_free", s)
  /\ object' = [object EXCEPT ![s] = "freed"]
  /\ Return(th)
  /\ UNCHANGED <<operation, io, rest, object_ref, open, status, wild>>

-----------------------------------------------------------------------------
(* The threads that wake it *)

\* The packet of DisconnectEx.
DequeueDisconnect(th, s) ==
  /\ stale = {}
  /\ stack[th] = << >>
  /\ io[s] = "queued"
  /\ io' = [io EXCEPT ![s] = "done"]
  /\ stack' = [stack EXCEPT ![th] = <<Frame("disconnected", s)>>]
  /\ UNCHANGED <<operation, rest, destruction>>

\* Nothing is defined after this.
Misuse(th) == stale' = {[thread |-> th, frame |-> Head(stack[th])]} /\ UNCHANGED stack

\* xf_io_completed_socket_disconnect closes the handle in the object, to which
\* the operation has no reference.
Disconnected(th, s) ==
  /\ At(th, "disconnected", s)
  /\ IF object[s] = "live"
     THEN /\ open' = [open EXCEPT ![s] = FALSE]
          /\ Call(th, <<Frame("notify", s)>>)
          /\ UNCHANGED stale
     ELSE Misuse(th) /\ UNCHANGED open
  /\ UNCHANGED <<operation, io, history, asked, object_ref, object, status, wild>>

WaitNotifyOnlyOnSuccess(th, s) ==
  /\ At(th, "async_notify", s)
  /\ CanEnter(th, s)
  /\ status' = [status EXCEPT ![s] = ~open[s]]
  /\ Return(th)
  /\ UNCHANGED <<operation, io, rest, object_ref, object, open, wild>>

\* _xf_async_wait_notify
WaitNotify(th, s) ==
  /\ At(th, "async_notify", s)
  /\ CanEnter(th, s)
  /\ status' = [status EXCEPT ![s] = TRUE]
  /\ Return(th)
  /\ UNCHANGED <<operation, io, rest, object_ref, object, open, wild>>

\* _cancel, on the poll thread, follows the link to a child.
FollowsLink(th, s) ==
  /\ At(th, "_cancel", s)
  /\ CanEnter(th, s)
  /\ wild[s]
  /\ canceled' = [canceled EXCEPT ![s] = TRUE]
  /\ Misuse(th)
  /\ UNCHANGED <<life, ref, lock, called, child, request, timer, io, history, asked, destruction>>

-----------------------------------------------------------------------------

DestroyStep(th, s) ==
  \/ ObjectRelease(th, s) \/ ObjectDestroy(th, s) \/ WaitNew(th, s) \/ Wait(th, s)
  \/ ObjectFree(th, s)
  \/ Disconnected(th, s) \/ WaitNotify(th, s) \/ FollowsLink(th, s)
  \/ /\ \/ AddTimerRef(th, s) \/ Schedule(th, s)
        \/ Disconnect(th, s) \/ DisconnectEx(th, s)
        \/ ~wild[s] /\ Cancel(th, s)
        \/ Notify(th, s) \/ Release(th, s) \/ Unlock(th, s)
     /\ UNCHANGED destruction

DestroyNext ==
  \E s \in Sockets :
    \/ \E th \in Threads : DestroyStep(th, s)
    \/ \E th \in Workers : DequeueDisconnect(th, s)
    \/ (IoEnds(s) \/ TimeoutFires(s)) /\ UNCHANGED destruction

\* As in Async.
DestroySpec ==
  /\ DestroyInit /\ [][DestroyNext]_destroyVars
  /\ \A th \in Threads : WF_destroyVars(\E s \in Sockets : DestroyStep(th, s))
  /\ \A s \in Sockets : /\ WF_destroyVars(\E th \in Workers : DequeueDisconnect(th, s))
                        /\ WF_destroyVars(TimeoutFires(s) /\ UNCHANGED destruction)

-----------------------------------------------------------------------------
(* Properties *)

\* An object is freed with its socket closed; or DisconnectEx was never started,
\* or the timer fired first.  And only when a timer has fired is a freed object
\* used, or a link that was never set.
ClosedUnlessTimedOut ==
  /\ \A s \in Sockets : object[s] = "freed" => ~open[s] \/ io[s] = "none" \/ canceled[s]
  /\ stale # {} => \E s \in Sockets : canceled[s]

\* The poll thread waits for a peer, or for workers that all wait themselves.
PollerIsStuck ==
  \E s \in Sockets :
    /\ stack[Poller] # << >> /\ Head(stack[Poller]) = Frame("wait", s)
    /\ io[s] = "pending" \/ \A w \in Workers : stack[w] # << >>

\* A socket that is given up is got rid of, with no help of the peer, even if
\* all workers wait: the timers see to that.  But they do not if the poll thread
\* waits as well.
DestroyReturns ==
  \A s \in Sockets : <>(object[s] = "freed" \/ stale # {}) \/ <>[]PollerIsStuck
=============================================================================
