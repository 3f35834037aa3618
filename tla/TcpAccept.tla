------------------------------ MODULE TcpAccept ------------------------------
(***************************************************************************)
(* Accepting a connection (tcp_server.c): an operation of module Async     *)
(* that opens the socket of the new connection before it waits for one.    *)
(* The operation owns that socket until the worker that gets the packet    *)
(* has put it into an object for the user; xf_io_async_clear closes what   *)
(* the operation still has when it is freed.  The issuer takes neither the *)
(* lock of the operation nor a reference to it.                            *)
(***************************************************************************)
EXTENDS Async

VARIABLES
  opened,        \* socket() has returned one
  accepted,      \* context.accept.accepted_socket is valid
  closes,        \* how often closesocket() was called on it
  product,       \* *accepted_socket is an object with the socket
  late           \* history: the object was made after the callback had run

socket == <<opened, accepted, closes, product, late>>
acceptVars == <<vars, socket>>

AcceptInit ==
  /\ Init
  /\ opened = FALSE
  /\ accepted = FALSE
  /\ closes = 0
  /\ product = FALSE
  /\ late = FALSE

-----------------------------------------------------------------------------

\* __xf_server_socket_accept up to its call of AcceptEx: there may be no socket,
\* or no memory for the addresses once the operation has the socket.
OpenAndAccept(th) ==
  /\ At(th, "accept", Root)
  /\ \/ /\ Call(th, <<Frame("notify", Root)>>)
        /\ UNCHANGED <<request, opened, accepted>>
     \/ /\ opened' = TRUE
        /\ accepted' = TRUE
        /\ SetRequest(Root, "accept")
        /\ \E next \in {"acceptex", "notify"} : Call(th, <<Frame(next, Root)>>)
  /\ UNCHANGED <<life, ref, lock, canceled, called, child, timer, io, rest,
                 closes, product, late>>

\* Variants of this module's definitions, named after the slip they make, are
\* not part of the specification: each shows that a property can fail.
StartAcceptIgnoresPending(th) ==
  /\ At(th, "acceptex", Root)
  /\ io' = [io EXCEPT ![Root] = "pending"]
  /\ early' = [early EXCEPT ![Root] = canceled[Root]]
  /\ Call(th, <<Frame("notify", Root)>>)
  /\ UNCHANGED <<operation, completed, missed, asked, stale, socket>>

StartAccept(th) ==
  /\ AcceptEx(th, Root)
  /\ UNCHANGED socket

\* The packet of AcceptEx.
DequeueAccept(th) ==
  /\ stale = {}
  /\ stack[th] = << >>
  /\ io[Root] = "queued"
  /\ io' = [io EXCEPT ![Root] = "done"]
  /\ \E next \in {"accepted", "notify"} :
       stack' = [stack EXCEPT ![th] = <<Frame(next, Root)>>]
  /\ UNCHANGED <<operation, rest, socket>>

\* xf_tcp_socket_new_with_handle, which may fail to register the socket or to
\* allocate the object.
NewWithHandle(th) ==
  /\ At(th, "accepted", Root)
  /\ \/ /\ product' = TRUE
        /\ late' = (completed[Root] > 0)
        /\ Call(th, <<Frame("forget", Root)>>)
     \/ /\ UNCHANGED <<product, late>>
        /\ Call(th, <<Frame("notify", Root)>>)
  /\ UNCHANGED <<operation, io, rest, opened, accepted, closes>>

ForgetKeepsSocket(th) ==
  /\ At(th, "forget", Root)
  /\ Call(th, <<Success("notify", Root)>>)
  /\ UNCHANGED <<operation, io, rest, socket>>

\* The socket is the object's from here on.
Forget(th) ==
  /\ At(th, "forget", Root)
  /\ accepted' = FALSE
  /\ Call(th, <<Success("notify", Root)>>)
  /\ UNCHANGED <<operation, io, rest, opened, closes, product, late>>

DestroyWithoutClear(th) ==
  /\ Destroy(th, Root)
  /\ UNCHANGED socket

\* xf_io_async_clear on the way out of xf_async_release.
DestroyAccept(th) ==
  /\ Destroy(th, Root)
  /\ closes' = closes + One(io_type[Root] = "accept" /\ accepted)
  /\ UNCHANGED <<opened, accepted, product, late>>

-----------------------------------------------------------------------------

AcceptStep(th) ==
  \/ /\ \/ New(th, Root) \/ AddTimerRef(th, Root) \/ Schedule(th, Root) \/ Start(th, Root)
        \/ Notify(th, Root) \/ AsyncNotify(th, Root) \/ Callback(th, Root)
        \/ AsyncCancel(th, Root) \/ Cancel(th, Root) \/ Release(th, Root)
        \/ UseAfterFree(th)
     /\ UNCHANGED socket
  \/ OpenAndAccept(th) \/ StartAccept(th) \/ NewWithHandle(th) \/ Forget(th) \/ DestroyAccept(th)

AcceptNext ==
  \/ \E th \in Threads : AcceptStep(th)
  \/ \E th \in Workers : DequeueAccept(th)
  \/ (IoEnds(Root) \/ TimeoutFires(Root)) /\ UNCHANGED socket
  \/ \E th \in Cancellers : Ask(th) /\ UNCHANGED socket

AcceptSpec == AcceptInit /\ [][AcceptNext]_acceptVars

-----------------------------------------------------------------------------
(* Properties *)

\* A cancellation had nothing to abort, either as AcceptEx was still to start or
\* as its packet was under way.
Raced == early[Root] \/ missed[Root]

HasOperation == accepted /\ life[Root] = "live"

\* While it is open the new connection's socket has one owner, the operation or
\* the object, both only while it is passed on; it is never lost and never
\* closed twice.
AcceptedHasOneOwner ==
  /\ opened /\ closes = 0 =>
       One(HasOperation) + One(product) = 1 + One(Frames({"forget"}, Root) > 0)
  /\ closes <= 1

\* The socket of an object is not closed behind the user's back, and the object
\* does not appear after the callback has run, unless a cancellation had nothing
\* to abort.
DeliveredInTime == product => (closes = 0 /\ ~late) \/ Raced

\* What the kernel writes to, the buffer and the OVERLAPPED, is freed under it
\* only if the operation was cancelled before AcceptEx started.
KernelMemoryIsKept ==
  io[Root] = "pending" /\ life[Root] = "freed" => early[Root]
=============================================================================
