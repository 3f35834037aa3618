------------------------------ MODULE TcpConnect ------------------------------
(***************************************************************************)
(* Connecting a TCP socket (tcp_socket.c): an operation of module Async    *)
(* whose work has two phases.  The name is resolved first; the system      *)
(* thread that reports the result opens a socket and starts ConnectEx;     *)
(* the worker that gets the packet puts the socket into an object for the  *)
(* user.  The module is about the socket: while the operation is resolved, *)
(* cancelled, timed out and freed by other threads, it passes from the     *)
(* resolver's thread to the operation and from there to the object, and    *)
(* xf_io_async_clear closes what the operation still has when it is freed. *)
(*                                                                         *)
(* There is one operation, Root; the frames are those of Async.  io_type   *)
(* says which phase it is in.  In phase one its handle is the resolver's,  *)
(* for which CancelIoEx finds no call.                                     *)
(***************************************************************************)
EXTENDS Async

VARIABLES
  resolving,     \* the name resolution: "none", "pending" or "done"
  opened,        \* socket() has returned one
  closes,        \* how often closesocket() was called on it
  product        \* *self: "none", or an object with the "socket" or an "invalid" one

socket == <<resolving, opened, closes, product>>
connectVars == <<vars, socket>>

ConnectInit ==
  /\ Init
  /\ resolving = "none"
  /\ opened = FALSE
  /\ closes = 0
  /\ product = "none"

ResetHandle == handle' = [handle EXCEPT ![Root] = FALSE]

-----------------------------------------------------------------------------
(* The issuer *)

\* xf_socket_connect_tcp takes the lock and a reference.
Connect(th) ==
  /\ At(th, "connect", Root)
  /\ AsyncEnter(th, Root, "resolve")
  /\ UNCHANGED <<life, canceled, called, child, request, timer, io, rest, socket>>

\* GetAddrInfoExW: if it is done at once the issuer runs phase one itself, when
\* it has left the operation.
Resolve(th) ==
  /\ At(th, "resolve", Root)
  /\ SetRequest(Root, "phase1")
  /\ \/ /\ resolving' = "pending"
        /\ Call(th, AsyncLeave(Root))
     \/ \E result \in {"phase1", "failed"} :
          /\ resolving' = "done"
          /\ Call(th, AsyncLeave(Root) \o <<Frame(result, Root)>>)
  /\ UNCHANGED <<life, ref, lock, canceled, called, child, timer, io, rest,
                 opened, closes, product>>

-----------------------------------------------------------------------------
(* Phase one *)

ResolutionEnds ==
  /\ stale = {}
  /\ stack[Resolver] = << >>
  /\ resolving = "pending"
  /\ resolving' = "done"
  /\ \E result \in {"phase1", "failed"} :
       stack' = [stack EXCEPT ![Resolver] = <<Frame(result, Root)>>]
  /\ UNCHANGED <<operation, io, rest, opened, closes, product>>

\* connect_phase1 with an error, from the resolver or from the system.
Phase1Failed(th) ==
  /\ At(th, "failed", Root)
  /\ ResetHandle
  /\ Call(th, <<Frame("notify", Root)>>)
  /\ UNCHANGED <<life, ref, lock, canceled, called, child, io_type, timer, io, rest, socket>>

\* socket_connect_async up to its xf_async_enter.  An address, the socket, its
\* registration, bind or the ioctl may fail: what was opened is closed.
Phase1(th) ==
  /\ At(th, "phase1", Root)
  /\ ResetHandle
  /\ \/ /\ opened' = TRUE
        /\ Call(th, <<Frame("phase1_enter", Root)>>)
        /\ UNCHANGED closes
     \/ /\ opened' \in BOOLEAN
        /\ closes' = One(opened')
        /\ Call(th, <<Frame("notify", Root)>>)
  /\ UNCHANGED <<life, ref, lock, canceled, called, child, io_type, timer, io, rest,
                 resolving, product>>

\* If the operation was cancelled, the socket in the local variable is dropped.
Phase1Enter(th) ==
  /\ At(th, "phase1_enter", Root)
  /\ AsyncEnter(th, Root, "connectex")
  /\ UNCHANGED <<life, canceled, called, child, request, timer, io, rest, socket>>

\* Variants of this module's definitions, named after the slip they make, are
\* not part of the specification: each shows that a property can fail.
ConnectExIgnoresPending(th) ==
  /\ At(th, "connectex", Root)
  /\ SetRequest(Root, "phase2")
  /\ io' = [io EXCEPT ![Root] = "pending"]
  /\ Call(th, AsyncLeave(Root) \o <<Frame("close", Root), Frame("notify", Root)>>)
  /\ UNCHANGED <<life, ref, lock, canceled, called, child, timer, rest,
                 resolving, opened, closes, product>>

\* ConnectEx: it starts, or it fails and both the socket and the operation,
\* which keeps the handle, are closed.
ConnectEx(th) ==
  /\ At(th, "connectex", Root)
  /\ SetRequest(Root, "phase2")
  /\ \/ /\ io' = [io EXCEPT ![Root] = "pending"]
        /\ Call(th, AsyncLeave(Root))
     \/ /\ UNCHANGED io
        /\ Call(th, AsyncLeave(Root) \o <<Frame("close", Root), Frame("notify", Root)>>)
  /\ UNCHANGED <<life, ref, lock, canceled, called, child, timer, rest,
                 resolving, opened, closes, product>>

Close(th) ==
  /\ At(th, "close", Root)
  /\ closes' = closes + 1
  /\ Return(th)
  /\ UNCHANGED <<operation, io, rest, resolving, opened, product>>

-----------------------------------------------------------------------------
(* Phase two *)

\* The packet of ConnectEx.  The call may have succeeded even if CancelIoEx
\* found it.
DequeueConnect(th) ==
  /\ stale = {}
  /\ stack[th] = << >>
  /\ io[Root] = "queued"
  /\ io' = [io EXCEPT ![Root] = "done"]
  /\ \E result \in {"phase2", "notify"} :
       stack' = [stack EXCEPT ![th] = <<Frame(result, Root)>>]
  /\ UNCHANGED <<operation, rest, socket>>

Phase2KeepsHandle(th) ==
  /\ At(th, "phase2", Root)
  /\ product' \in {"none", IF handle[Root] THEN "socket" ELSE "invalid"}
  /\ Call(th, <<Frame("notify", Root)>>)
  /\ UNCHANGED <<operation, io, rest, resolving, opened, closes>>

\* xf_io_completed_socket_connect_phase2: the handle moves to a new object, if
\* one can be allocated; a cancellation may have taken the handle before.
Phase2(th) ==
  /\ At(th, "phase2", Root)
  /\ \/ /\ product' = IF handle[Root] THEN "socket" ELSE "invalid"
        /\ ResetHandle
     \/ UNCHANGED <<product, handle>>
  /\ Call(th, <<Frame("notify", Root)>>)
  /\ UNCHANGED <<life, ref, lock, canceled, called, child, io_type, timer, io, rest,
                 resolving, opened, closes>>

DestroyWithoutClear(th) ==
  /\ Destroy(th, Root)
  /\ UNCHANGED socket

\* xf_io_async_clear on the way out of xf_async_release.
DestroyConnect(th) ==
  /\ Destroy(th, Root)
  /\ closes' = IF io_type[Root] = "phase2" /\ handle[Root] THEN closes + 1 ELSE closes
  /\ UNCHANGED <<resolving, opened, product>>

-----------------------------------------------------------------------------

\* The steps of Async that every kind of operation takes.
Common(th) ==
  /\ \/ New(th, Root) \/ AddTimerRef(th, Root) \/ Schedule(th, Root) \/ Start(th, Root)
     \/ Notify(th, Root) \/ AsyncNotify(th, Root) \/ Callback(th, Root)
     \/ AsyncCancel(th, Root) \/ Cancel(th, Root)
     \/ Release(th, Root) \/ Unlock(th, Root)
     \/ UseAfterFree(th)
  /\ UNCHANGED socket

ConnectStep(th) ==
  \/ Common(th)
  \/ Connect(th) \/ Resolve(th)
  \/ Phase1Failed(th) \/ Phase1(th) \/ Phase1Enter(th) \/ ConnectEx(th) \/ Close(th)
  \/ Phase2(th) \/ DestroyConnect(th)

ConnectNext ==
  \/ \E th \in Threads : ConnectStep(th)
  \/ ResolutionEnds \/ \E th \in Workers : DequeueConnect(th)
  \/ (IoEnds(Root) \/ TimeoutFires(Root)) /\ UNCHANGED socket
  \/ \E th \in Cancellers : Ask(th) /\ UNCHANGED socket

ConnectSafeSpec == ConnectInit /\ [][ConnectNext]_connectVars

\* As in Async; a resolution need not end.
ConnectSpec ==
  /\ ConnectSafeSpec
  /\ \A th \in Threads : WF_connectVars(ConnectStep(th))
  /\ WF_connectVars(\E th \in Workers : DequeueConnect(th))
  /\ WF_connectVars(TimeoutFires(Root) /\ UNCHANGED socket)

-----------------------------------------------------------------------------
(* Properties *)

\* Every variable has a value of its kind.
ConnectTypeOK ==
  /\ TypeOK
  /\ resolving \in {"none", "pending", "done"}
  /\ opened \in BOOLEAN
  /\ closes \in 0..2
  /\ product \in {"none", "socket", "invalid"}

\* The socket is in a local variable of the thread in phase one, in the
\* operation or in the object.
HasLocal == Frames({"phase1_enter", "connectex"}, Root) > 0
HasHandle == io_type[Root] = "phase2" /\ handle[Root] /\ life[Root] = "live"
HasObject == product = "socket"

SocketOwners == One(HasLocal) + One(HasHandle) + One(HasObject)

\* A socket that nobody has closed, or is about to, has one owner; it is lost,
\* with no owner and never closed, only if the operation was cancelled.
SocketHasOneOwner ==
  opened /\ ~(closes > 0 \/ Frames({"close"}, Root) > 0) =>
    SocketOwners = 1 \/ (SocketOwners = 0 /\ canceled[Root])

\* An object handed to the user has a socket, unless the operation was
\* cancelled, and the socket is never closed behind the user's back, neither by
\* phase one nor when the operation is freed.
DeliveredIsUsable ==
  /\ product = "invalid" => canceled[Root]
  /\ product = "socket" => closes = 0

\* closesocket is called twice, on what may be another socket by then, only if
\* ConnectEx failed at once.
ClosedTwiceOnlyIfRefused == closes = 2 => io[Root] = "none"
=============================================================================
