------------------------------ MODULE Handshake ------------------------------
(***************************************************************************)
(* Opening an SSL socket (ssl_socket.c): the user's operation Root, and a  *)
(* multi-phase operation m nested in it that runs a procedure phase by     *)
(* phase: connect, credentials, then tokens sent and received until the    *)
(* security context is complete.  Each phase ends with a call on the base  *)
(* socket, to which m itself is passed; the thread that notifies m of the  *)
(* end of the call runs the next phase, or the error phase.                *)
(*                                                                         *)
(* The number of the next phase is written after the call has started, a   *)
(* notification cancels the only timer m has, and nothing keeps two        *)
(* threads from notifying m.                                               *)
(*                                                                         *)
(* The connection of the base socket (module TcpConnect) is one overlapped *)
(* call here, that CancelIoEx finds or not.  MaxTokens bounds how often    *)
(* the peer asks for another token.                                        *)
(***************************************************************************)
EXTENDS Async

CONSTANT MaxTokens

ASSUME HandshakeAssumption == Children # {} /\ MaxTokens \in Nat

VARIABLES
  next,          \* m's u.multi_phase.next_phase
  context,       \* the handshake context: "none", "live" or "freed"
  ss,            \* context->ss
  tokens,        \* how often the peer has asked for another token
  product,       \* *self is an SSL socket
  due,           \* history: the phase that follows the last call made
  overtaken      \* history: what threads that had made a call were yet to do when
                 \* its completion ran the next phase

handshake == <<next, context, ss, tokens, product, due, overtaken>>
handshakeVars == <<vars, handshake>>

m == CHOOSE a \in Children : TRUE

XF_ASYNC_PHASE_EXIT == -2

HandshakeInit ==
  /\ Init
  /\ next = 0
  /\ context = "none"
  /\ ss = "continue"
  /\ tokens = 0
  /\ product = FALSE
  /\ due = 0
  /\ overtaken = {}

-----------------------------------------------------------------------------
(* xf_ssl_socket_new and xf_async_call *)

\* If there is no memory for m nobody tells Root; otherwise m is created, with its
\* timer, and its first phase runs.
AsyncCall(th) == Call(th, << >>) \/ Call(th, <<Frame("new", m), Success("run", m)>>)

\* There may be no memory for the context.
SslConnect(th) ==
  /\ At(th, "ssl_connect", Root)
  /\ \/ Call(th, <<Frame("notify", Root)>>) /\ UNCHANGED context
     \/ AsyncCall(th) /\ context' = "live"
  /\ UNCHANGED <<operation, io, rest, next, ss, tokens, product, due, overtaken>>

-----------------------------------------------------------------------------
(* xf_async_run_next_phase with xf_async_ssl_handshake_procedure *)

\* The first phase runs in xf_async_call, the others in xf_async_notify, after
\* it has cancelled m's timer.
Runs(th, ok) ==
  /\ At(th, "run", m) \/ At(th, "async_notify", m)
  /\ Head(stack[th]).ok = ok

NextAfter == [set_1 |-> 1, set_3 |-> 3, set_4 |-> 4]

\* What other threads have yet to do after the calls they made.
Behind(th) ==
  {op \in DOMAIN NextAfter \union {"check"} :
     \E other \in Threads \ {th} : \E i \in DOMAIN stack[other] : stack[other][i].op = op}

\* The procedure makes a call on the base socket, writes the number of the next
\* phase and returns; m is looked at once more.
CallSocket(th, op, set) ==
  /\ Call(th, <<Frame(op, m), Frame(set, m), Frame("check", m)>>)
  /\ due' = NextAfter[set]
  /\ UNCHANGED stale

\* Nothing is defined after this.
Misuse(th, what) ==
  /\ stale' = {[thread |-> th, frame |-> Frame(what, m)]}
  /\ UNCHANGED <<stack, due>>

\* Phase 0
ConnectBase(th) == CallSocket(th, "connect_base", "set_1")

\* A phase fails by itself: it frees the context, and so does the error phase
\* that xf_async_run_next_phase runs next.
FailPhase(th) == Misuse(th, "context_free") /\ UNCHANGED product

\* Phase 3: another token is read, or the object is made from the context, the
\* context is freed and the procedure is through.
Continue(th) ==
  /\ CallSocket(th, "receive", "set_4")
  /\ UNCHANGED <<next, context, product>>

Finish(th) ==
  /\ product' = TRUE
  /\ context' = "freed"
  /\ next' = XF_ASYNC_PHASE_EXIT
  /\ Call(th, <<Frame("check", m)>>)
  /\ UNCHANGED <<due, stale>>

Phase3(th) ==
  \/ ss' = "continue" /\ Continue(th)
  \/ ss' = "ok" /\ Finish(th)
  \/ FailPhase(th) /\ UNCHANGED <<next, context>>

\* Phases 1 and 2: the credentials may be refused; InitializeSecurityContext may
\* fail, or ask for another token, and has output to send or not.
Phase2(th) ==
  /\ ss' \in {"continue", "ok"}
  /\ tokens' = tokens + One(ss' = "continue")
  /\ tokens' <= MaxTokens
  /\ \/ CallSocket(th, "send", "set_3") /\ UNCHANGED <<next, context, product>>
     \/ Phase3(th)

RunsOn(th) ==
  /\ overtaken' = overtaken \union Behind(th)
  /\ UNCHANGED <<operation, io, history, asked>>

\* The phase that next_phase names.  The procedure has no phase XF_ASYNC_PHASE_EXIT
\* and aborts; every other phase but 0 reads the context.
RunPhase(th) ==
  /\ Runs(th, TRUE)
  /\ context = "live" /\ next # XF_ASYNC_PHASE_EXIT
  /\ RunsOn(th)
  /\ \/ next = 0 /\ ConnectBase(th) /\ UNCHANGED <<next, context, ss, tokens, product>>
     \/ next \in {1, 4} /\ Phase2(th)
     \/ next = 3 /\ UNCHANGED <<ss, tokens>> /\ Phase3(th)

\* Variants of this module's definitions, named after the slip they make, are
\* not part of the specification: each shows that a property can fail.
RunErrorReportsSuccess(th) ==
  /\ Runs(th, FALSE)
  /\ context = "live"
  /\ context' = "freed"
  /\ Call(th, <<Success("notify", Root), Frame("release", m)>>)
  /\ UNCHANGED <<operation, io, rest, next, ss, tokens, product, due, overtaken>>

\* XF_ASYNC_PHASE_ERROR frees the context; then Root is told and m given up.
RunError(th) ==
  /\ Runs(th, FALSE)
  /\ context = "live"
  /\ context' = "freed"
  /\ Call(th, <<Frame("notify", Root), Frame("release", m)>>)
  /\ UNCHANGED <<operation, io, rest, next, ss, tokens, product, due, overtaken>>

RunTooLate(th) ==
  /\ \E ok \in BOOLEAN : Runs(th, ok)
  /\ context = "freed"
  /\ Misuse(th, "context_use")
  /\ RunsOn(th)
  /\ UNCHANGED <<next, context, ss, tokens, product>>

SetNextPhaseForgets(th) ==
  \E set \in DOMAIN NextAfter :
    /\ At(th, set, m)
    /\ Return(th)
    /\ UNCHANGED <<operation, io, rest, handshake>>

SetNextPhase(th) ==
  \E set \in DOMAIN NextAfter :
    /\ At(th, set, m)
    /\ next' = NextAfter[set]
    /\ Return(th)
    /\ UNCHANGED <<operation, io, rest, context, ss, tokens, product, due, overtaken>>

\* The end of xf_async_run_next_phase.
Check(th) ==
  /\ At(th, "check", m)
  /\ Call(th, IF next = XF_ASYNC_PHASE_EXIT
              THEN <<Success("notify", Root), Frame("release", m)>> ELSE << >>)
  /\ UNCHANGED <<operation, io, rest, handshake>>

-----------------------------------------------------------------------------
(* The connection of the base socket *)

ConnectEnter(th) ==
  /\ At(th, "connect_base", m)
  /\ AsyncEnter(th, m, "start_base")
  /\ UNCHANGED <<life, canceled, called, child, request, timer, io, rest, handshake>>

StartBase(th) ==
  /\ At(th, "start_base", m)
  /\ handle' \in [Asyncs -> BOOLEAN] /\ \A a \in Asyncs \ {m} : handle'[a] = handle[a]
  /\ Submit(th, m, AsyncLeave(m))
  /\ UNCHANGED <<life, ref, lock, canceled, called, child, io_type, timer, rest, handshake>>

-----------------------------------------------------------------------------

HandshakeStep(th) ==
  \/ /\ \/ New(th, Root) \/ AddTimerRef(th, Root) \/ Schedule(th, Root) \/ Start(th, Root)
        \/ New(th, m) \/ AddTimerRef(th, m) \/ Schedule(th, m)
        \/ Send(th, m) \/ SendEnter(th, m) \/ SubmitSend(th, m)
        \/ Receive(th, m) \/ Recv(th, m)
        \/ AsyncNotify(th, Root) \/ Callback(th, Root)
        \/ \E a \in Asyncs : \/ Notify(th, a) \/ AsyncCancel(th, a) \/ Cancel(th, a)
                             \/ Release(th, a) \/ Destroy(th, a) \/ Unlock(th, a)
        \/ UseAfterFree(th)
     /\ UNCHANGED handshake
  \/ SslConnect(th) \/ RunPhase(th) \/ RunError(th) \/ RunTooLate(th)
  \/ SetNextPhase(th) \/ Check(th) \/ ConnectEnter(th) \/ StartBase(th)

HandshakeNext ==
  \/ \E th \in Threads : HandshakeStep(th)
  \/ /\ \/ IoEnds(m) \/ \E th \in Workers : Dequeue(th, m)
        \/ \E a \in Asyncs : TimeoutFires(a)
        \/ \E th \in Cancellers : Ask(th)
     /\ UNCHANGED handshake

HandshakeSafeSpec == HandshakeInit /\ [][HandshakeNext]_handshakeVars

\* As in Async.
HandshakeSpec ==
  /\ HandshakeSafeSpec
  /\ \A th \in Threads : WF_handshakeVars(HandshakeStep(th))
  /\ WF_handshakeVars((\E th \in Workers : Dequeue(th, m)) /\ UNCHANGED handshake)
  /\ \A a \in Asyncs : WF_handshakeVars(TimeoutFires(a) /\ UNCHANGED handshake)

-----------------------------------------------------------------------------
(* Properties *)

\* A completion runs the phase that follows the call it completes, unless it has
\* once overtaken the thread that made the call: next_phase was not written yet.
PhaseAsDue ==
  \A th \in Threads :
    Runs(th, TRUE) =>
      next = due \/ (overtaken \union Behind(th)) \cap DOMAIN NextAfter # {}

Interrupted == canceled[Root] \/ canceled[m] \/ asked # {} \/ overtaken # {}

\* Nobody has cancelled, and no completion has overtaken its caller: then memory
\* is used too late in three cases only.  A phase that fails by itself frees the
\* context twice; a call that fails frees m before the thread that made it has
\* written next_phase or looked at it; and m, freed after Root, writes to Root.
LateUsesOfHandshake ==
  \A s \in stale :
    \/ Interrupted
    \/ s.frame = Frame("context_free", m)
    \/ s.frame.op \in DOMAIN NextAfter \union {"check"}
    \/ s.frame = Frame("destroy", m)

\* The user gets a socket if, and unless a cancellation came first only if, the
\* callback reports success.
ReportsItsResult ==
  \A th \in Threads :
    At(th, "callback", Root) =>
      IF Head(stack[th]).ok THEN product ELSE product => Interrupted

\* Opening with a timeout calls back, even if the peer falls silent or there was
\* no memory for m, unless two threads wait for each other's lock, memory was
\* used too late, or a thread that was overtaken writes over next_phase, when the
\* handshake may be through and nobody left to say so.
TimedHandshakeCallsBack ==
  (timer[Root] = "armed") ~>
    (completed[Root] = 1 \/ Deadlocked \/ stale # {} \/ overtaken # {})
=============================================================================
