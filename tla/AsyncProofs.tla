----------------------------- MODULE AsyncProofs ------------------------------
(***************************************************************************)
(* Proofs about module Async.  The first sections count the frames that    *)
(* the threads have yet to execute and say how a call changes their        *)
(* number, for every module that extends Async, whatever its frames.       *)
(* The others are about one operation on a plain socket, for every set of  *)
(* worker threads, every set of threads that cancel, with or without a     *)
(* timeout, and every choice of socket calls.  (The operations nested in   *)
(* Root stay unborn here; SslStream and Handshake create them.)            *)
(***************************************************************************)
EXTENDS Async, FiniteSetTheorems, SequenceTheorems, TLAPS

Stacks == [Threads -> Seq(FrameType)]

\* The frames of all threads are finitely many.
Places(stacks) == UNION {{th} \X DOMAIN stacks[th] : th \in Threads}

Finite(stacks) == IsFiniteSet(Places(stacks))

IsOf(f, ops, a) == f.op \in ops /\ f.async = a

\* The frames that module Async counts, as a set.
Kind(ops, a) == {f \in FrameType : IsOf(f, ops, a)}

\* Cancellers that have not asked do nothing.
CancellersRest == \A th \in Cancellers \ asked : stack[th] = << >>

\* Where the frames of a set are in the stacks, as Slots; and how many there are.
Spots(stacks, F) ==
  {s \in Places(stacks) : stacks[s[1]][Len(stacks[s[1]]) + 1 - s[2]] \in F}

Count(F) == Cardinality(Spots(stack, F))

Pushed(stacks, th, f) == [stacks EXCEPT ![th] = <<f>> \o @]

Popped(stacks, th) == [stacks EXCEPT ![th] = Tail(@)]

-----------------------------------------------------------------------------
(* Stacks: F is a set of frames *)

\* What a place in a stack is.
LEMMA InSpots ==
  ASSUME NEW stacks \in Stacks, NEW F, NEW th \in Threads, NEW d
  PROVE  <<th, d>> \in Spots(stacks, F) <=>
           d \in 1..Len(stacks[th]) /\ stacks[th][Len(stacks[th]) + 1 - d] \in F
<1>1. DOMAIN stacks[th] = 1..Len(stacks[th])
  BY DEF Stacks
<1>2. <<th, d>> \in Places(stacks) <=> d \in 1..Len(stacks[th])
  BY <1>1 DEF Places
<1> QED BY <1>2 DEF Spots, Places

\* Every place is a thread and a depth.
LEMMA SpotsArePairs ==
  ASSUME NEW stacks \in Stacks, NEW F, NEW s \in Spots(stacks, F)
  PROVE  \E th \in Threads, d \in Nat : s = <<th, d>>
<1>1. PICK th \in Threads : s \in {th} \X DOMAIN stacks[th]
  BY DEF Spots, Places
<1>2. DOMAIN stacks[th] \subseteq Nat
  BY DEF Stacks
<1> QED BY <1>1, <1>2

\* Places of some frames are finitely many if those of all frames are.
LEMMA SpotsFinite ==
  ASSUME NEW stacks \in Stacks, Finite(stacks), NEW F
  PROVE  IsFiniteSet(Spots(stacks, F)) /\ Cardinality(Spots(stacks, F)) \in Nat
<1>1. Spots(stacks, F) \subseteq Places(stacks)
  BY DEF Spots, Places
<1> QED BY <1>1, FS_Subset, FS_CardinalityType DEF Finite

\* One frame more on a stack.
LEMMA PushSpots ==
  ASSUME NEW stacks \in Stacks, Finite(stacks), NEW th \in Threads, NEW f \in FrameType
  PROVE  /\ Pushed(stacks, th, f) \in Stacks /\ Finite(Pushed(stacks, th, f))
         /\ \A F : Cardinality(Spots(Pushed(stacks, th, f), F)) =
                          Cardinality(Spots(stacks, F)) + One(f \in F)
<1> USE DEF Pushed
<1> DEFINE pushed == Pushed(stacks, th, f)
           new == <<th, Len(stacks[th]) + 1>>
<1>1. pushed \in Stacks
  BY DEF Stacks
<1>2. /\ Len(pushed[th]) = Len(stacks[th]) + 1 /\ Len(stacks[th]) \in Nat
      /\ pushed[th][1] = f
      /\ \A k \in 1..Len(stacks[th]) : pushed[th][k + 1] = stacks[th][k]
  BY DEF Stacks
<1>3. Finite(pushed)
  <2>1. Places(pushed) = Places(stacks) \union {new}
    <3>1. \A t \in Threads : /\ DOMAIN stacks[t] = 1..Len(stacks[t])
                             /\ DOMAIN pushed[t] = 1..Len(pushed[t])
      BY <1>1 DEF Stacks
    <3>2. \A t \in Threads \ {th} : pushed[t] = stacks[t]
      BY DEF Stacks
    <3>3. {th} \X DOMAIN pushed[th] = ({th} \X DOMAIN stacks[th]) \union {new}
      BY <3>1, <1>2
    <3> HIDE DEF pushed, new
    <3> QED BY <3>2, <3>3 DEF Places
  <2> QED BY <2>1, FS_AddElement DEF Finite
<1>4. ASSUME NEW F
      PROVE  Cardinality(Spots(pushed, F)) =
               Cardinality(Spots(stacks, F)) + One(f \in F)
  <2>1. \A t \in Threads, d \in Nat :
          <<t, d>> \in Spots(pushed, F) <=>
            <<t, d>> \in Spots(stacks, F) \/ (<<t, d>> = new /\ f \in F)
    <3> SUFFICES ASSUME NEW t \in Threads, NEW d \in Nat
                 PROVE  <<t, d>> \in Spots(pushed, F) <=>
                          <<t, d>> \in Spots(stacks, F) \/ (<<t, d>> = new /\ f \in F)
      OBVIOUS
    <3>1. <<t, d>> \in Spots(pushed, F) <=>
            d \in 1..Len(pushed[t]) /\ pushed[t][Len(pushed[t]) + 1 - d] \in F
      BY <1>1, InSpots
    <3>2. <<t, d>> \in Spots(stacks, F) <=>
            d \in 1..Len(stacks[t]) /\ stacks[t][Len(stacks[t]) + 1 - d] \in F
      BY InSpots
    <3>3. CASE t # th
      <4>1. pushed[t] = stacks[t] /\ <<t, d>> # new
        BY <3>3 DEF Stacks
      <4> QED BY <4>1, <3>1, <3>2
    <3>4. CASE t = th /\ d \in 1..Len(stacks[th])
      <4>1. /\ <<t, d>> # new /\ d \in 1..Len(pushed[th])
            /\ pushed[th][Len(pushed[th]) + 1 - d] = stacks[th][Len(stacks[th]) + 1 - d]
        <5>1. Len(stacks[th]) + 1 - d \in 1..Len(stacks[th])
          BY <3>4, <1>2
        <5>2. (Len(stacks[th]) + 1 - d) + 1 = Len(pushed[th]) + 1 - d
          BY <3>4, <1>2
        <5>3. d # Len(stacks[th]) + 1 /\ d \in 1..Len(pushed[th])
          BY <3>4, <1>2
        <5> QED BY <5>1, <5>2, <5>3, <1>2
      <4> QED BY <4>1, <3>1, <3>2, <3>4
    <3>5. CASE t = th /\ d = Len(stacks[th]) + 1
      <4>1. /\ <<t, d>> = new /\ d \in 1..Len(pushed[th]) /\ d \notin 1..Len(stacks[th])
            /\ Len(pushed[th]) + 1 - d = 1
        BY <3>5, <1>2
      <4> QED BY <4>1, <3>1, <3>2, <3>5, <1>2
    <3>6. CASE t = th /\ d \notin 1..Len(stacks[th]) /\ d # Len(stacks[th]) + 1
      <4>1. <<t, d>> # new /\ d \notin 1..Len(pushed[th])
        BY <3>6, <1>2
      <4> QED BY <4>1, <3>1, <3>2, <3>6
    <3> QED BY <3>3, <3>4, <3>5, <3>6
  <2>2. new \notin Spots(stacks, F)
    BY <1>2, InSpots
  <2>3. Spots(pushed, F) =
          IF f \in F THEN Spots(stacks, F) \union {new} ELSE Spots(stacks, F)
    <3>1. new = <<th, Len(stacks[th]) + 1>> /\ Len(stacks[th]) + 1 \in Nat
      BY <1>2
    <3>2. \A s \in Spots(stacks, F) \union Spots(pushed, F) \union {new} :
            \E t \in Threads, d \in Nat : s = <<t, d>>
      BY <1>1, <3>1, SpotsArePairs
    <3> HIDE DEF pushed, new
    <3> QED BY <2>1, <3>2
  <2>4. IsFiniteSet(Spots(stacks, F)) /\ Cardinality(Spots(stacks, F)) \in Nat
    BY SpotsFinite
  <2> DEFINE before == Spots(stacks, F)
             after == Spots(pushed, F)
  <2> HIDE DEF pushed, new, before, after
  <2>5. Cardinality(before \union {new}) = Cardinality(before) + 1
    BY <2>2, <2>4, FS_AddElement DEF before
  <2>6. Cardinality(after) = Cardinality(before) + One(f \in F)
    <3>1. CASE f \in F
      BY <2>3, <2>5, <3>1 DEF One, before, after
    <3>2. CASE ~f \in F
      BY <2>3, <2>4, <3>2 DEF One, before, after
    <3> QED BY <3>1, <3>2
  <2> QED BY <2>6 DEF before, after, pushed
<1> QED BY <1>1, <1>3, <1>4

\* One frame less.
LEMMA PopSpots ==
  ASSUME NEW stacks \in Stacks, Finite(stacks), NEW th \in Threads, stacks[th] # << >>
  PROVE  /\ Popped(stacks, th) \in Stacks /\ Finite(Popped(stacks, th))
         /\ \A F : Cardinality(Spots(Popped(stacks, th), F)) =
                          Cardinality(Spots(stacks, F)) - One(Head(stacks[th]) \in F)
<1> USE DEF Popped
<1> DEFINE popped == Popped(stacks, th)
           top == Head(stacks[th])
<1>1. popped \in Stacks /\ top \in FrameType
  BY DEF Stacks
<1>2. stacks = Pushed(popped, th, top)
  <2>1. stacks[th] \in Seq(FrameType) /\ popped[th] = Tail(stacks[th])
    BY DEF Stacks
  <2>2. stacks[th] = <<top>> \o Tail(stacks[th])
    BY <2>1
  <2> QED BY <2>1, <2>2, Zenon DEF Stacks, Pushed
<1>3. Finite(popped)
  <2>1. DOMAIN popped[th] \subseteq DOMAIN stacks[th]
    BY DEF Stacks
  <2>2. \A t \in Threads \ {th} : popped[t] = stacks[t]
    BY DEF Stacks
  <2>3. Places(popped) \subseteq Places(stacks)
    BY <2>1, <2>2 DEF Places
  <2> QED BY <2>3, FS_Subset DEF Finite
<1>4. ASSUME NEW F
      PROVE  Cardinality(Spots(popped, F)) =
               Cardinality(Spots(stacks, F)) - One(top \in F)
  <2>1. Cardinality(Spots(popped, F)) \in Nat
    BY <1>1, <1>3, SpotsFinite
  <2> HIDE DEF popped, top
  <2>2. Cardinality(Spots(Pushed(popped, th, top), F)) =
          Cardinality(Spots(popped, F)) + One(top \in F)
    BY <1>1, <1>3, PushSpots
  <2>3. Cardinality(Spots(stacks, F)) =
          Cardinality(Spots(popped, F)) + One(top \in F)
    BY <1>2, <2>2
  <2> QED BY <2>1, <2>3 DEF One
<1> QED BY <1>1, <1>3, <1>4, Zenon

-----------------------------------------------------------------------------
(* Calls *)

\* The number of frames is a number.
LEMMA CountType ==
  ASSUME stack \in Stacks, Finite(stack)
  PROVE  \A F : Count(F) \in Nat
BY SpotsFinite DEF Count

\* If there is no such frame, no stack has one.
LEMMA NoneCounted ==
  ASSUME stack \in Stacks, Finite(stack), NEW F
  PROVE  Count(F) = 0 <=>
           \A th \in Threads : \A k \in DOMAIN stack[th] : stack[th][k] \notin F
<1>1. Count(F) = 0 <=> Spots(stack, F) = {}
  BY SpotsFinite, FS_EmptySet DEF Count
<1>2. ASSUME NEW th \in Threads, NEW k \in DOMAIN stack[th], stack[th][k] \in F
      PROVE  <<th, Len(stack[th]) + 1 - k>> \in Spots(stack, F)
  <2>1. k \in 1..Len(stack[th]) /\ Len(stack[th]) \in Nat
    BY DEF Stacks
  <2>2. /\ Len(stack[th]) + 1 - k \in 1..Len(stack[th])
        /\ Len(stack[th]) + 1 - (Len(stack[th]) + 1 - k) = k
    BY <2>1
  <2> QED BY <2>2, <1>2, InSpots
<1>3. ASSUME NEW s \in Spots(stack, F)
      PROVE  \E th \in Threads : \E k \in DOMAIN stack[th] : stack[th][k] \in F
  <2>1. PICK th \in Threads, d \in Nat : s = <<th, d>>
    BY <1>3, SpotsArePairs
  <2>2. d \in 1..Len(stack[th]) /\ stack[th][Len(stack[th]) + 1 - d] \in F
    BY <2>1, <1>3, InSpots
  <2>3. Len(stack[th]) + 1 - d \in DOMAIN stack[th]
    BY <2>2 DEF Stacks
  <2> QED BY <2>2, <2>3
<1> QED BY <1>1, <1>2, <1>3

\* Calls as pushes after a pop.
LEMMA CallIsPushes ==
  ASSUME NEW s \in Seq(FrameType), s # << >>, NEW f \in FrameType, NEW g \in FrameType,
         NEW h \in FrameType
  PROVE  /\ << >> \o Tail(s) = Tail(s)
         /\ <<f, g>> \o Tail(s) = <<f>> \o (<<g>> \o Tail(s))
         /\ <<f, g, h>> \o Tail(s) = <<f>> \o (<<g>> \o (<<h>> \o Tail(s)))
<1> DEFINE t == Tail(s)
<1>1. t \in Seq(FrameType) /\ <<f>> \in Seq(FrameType) /\ <<g>> \in Seq(FrameType)
      /\ <<h>> \in Seq(FrameType)
  OBVIOUS
<1>2. <<f, g>> = <<f>> \o <<g>> /\ <<f, g, h>> = <<f>> \o (<<g>> \o <<h>>)
  <2>1. ASSUME NEW x \in FrameType, NEW y \in FrameType
        PROVE  <<x, y>> = <<x>> \o <<y>>
    <3>1. Len(<<x, y>>) = 2 /\ Len(<<x>> \o <<y>>) = 2
      OBVIOUS
    <3>2. \A k \in 1..2 : <<x, y>>[k] = (<<x>> \o <<y>>)[k]
      OBVIOUS
    <3>3. <<x, y>> \in Seq(FrameType) /\ <<x>> \o <<y>> \in Seq(FrameType)
      OBVIOUS
    <3> QED BY <3>1, <3>2, <3>3, SeqEqual
  <2>2. <<f, g, h>> = <<f>> \o <<g, h>>
    <3>1. Len(<<f, g, h>>) = 3 /\ Len(<<f>> \o <<g, h>>) = 3
      OBVIOUS
    <3>2. \A k \in 1..3 : <<f, g, h>>[k] = (<<f>> \o <<g, h>>)[k]
      OBVIOUS
    <3>3. <<f, g, h>> \in Seq(FrameType) /\ <<f>> \o <<g, h>> \in Seq(FrameType)
      OBVIOUS
    <3> QED BY <3>1, <3>2, <3>3, SeqEqual
  <2> QED BY <2>1, <2>2
<1> HIDE DEF t
<1>3. << >> \o t = t
  BY <1>1
<1>4. (<<f>> \o <<g>>) \o t = <<f>> \o (<<g>> \o t)
  BY <1>1, ConcatAssociative
<1>5. (<<f>> \o (<<g>> \o <<h>>)) \o t = <<f>> \o (<<g>> \o (<<h>> \o t))
  <2>1. <<g>> \o <<h>> \in Seq(FrameType)
    OBVIOUS
  <2>2. (<<f>> \o (<<g>> \o <<h>>)) \o t = <<f>> \o ((<<g>> \o <<h>>) \o t)
    BY <1>1, <2>1, ConcatAssociative
  <2>3. (<<g>> \o <<h>>) \o t = <<g>> \o (<<h>> \o t)
    BY <1>1, ConcatAssociative
  <2> QED BY <2>2, <2>3
<1> QED BY <1>2, <1>3, <1>4, <1>5 DEF t

LEMMA ThreePushes ==
  ASSUME NEW s \in Seq(FrameType), s # << >>, NEW f \in FrameType, NEW g \in FrameType,
         NEW h \in FrameType
  PROVE  <<f, g, h>> \o Tail(s) = <<f>> \o (<<g>> \o (<<h>> \o Tail(s)))
BY CallIsPushes

\* A step that returns.
LEMMA Counting0 ==
  ASSUME stack \in Stacks, Finite(stack), NEW th \in Threads, stack[th] # << >>, Call(th, << >>)
  PROVE  /\ stack' \in Stacks /\ Finite(stack')
         /\ \A F : Count(F)' = Count(F) - One(Head(stack[th]) \in F)
<1>1. stack' = Popped(stack, th)
  BY CallIsPushes DEF Call, Popped, Stacks
<1>2. /\ Popped(stack, th) \in Stacks /\ Finite(Popped(stack, th))
      /\ \A F : Cardinality(Spots(Popped(stack, th), F)) =
                       Cardinality(Spots(stack, F)) - One(Head(stack[th]) \in F)
  BY PopSpots
<1> QED BY <1>1, <1>2 DEF Count

\* A step that goes on with one frame.
LEMMA Counting1 ==
  ASSUME stack \in Stacks, Finite(stack), NEW th \in Threads, stack[th] # << >>,
         NEW f \in FrameType, Call(th, <<f>>)
  PROVE  /\ stack' \in Stacks /\ Finite(stack')
         /\ \A F : Count(F)' = Count(F) - One(Head(stack[th]) \in F)
                                            + One(f \in F)
<1> DEFINE one == Popped(stack, th)
<1>1. stack' = Pushed(one, th, f)
  BY DEF Call, Stacks, Pushed, Popped
<1>2. /\ one \in Stacks /\ Finite(one)
      /\ \A F : Cardinality(Spots(one, F)) =
                       Cardinality(Spots(stack, F)) - One(Head(stack[th]) \in F)
  BY PopSpots
<1> HIDE DEF one
<1>3. /\ Pushed(one, th, f) \in Stacks /\ Finite(Pushed(one, th, f))
      /\ \A F : Cardinality(Spots(Pushed(one, th, f), F)) =
                       Cardinality(Spots(one, F)) + One(f \in F)
  BY <1>2, PushSpots
<1> QED BY <1>1, <1>2, <1>3 DEF Count

\* With two.
LEMMA Counting2 ==
  ASSUME stack \in Stacks, Finite(stack), NEW th \in Threads, stack[th] # << >>,
         NEW f \in FrameType, NEW g \in FrameType, Call(th, <<f, g>>)
  PROVE  /\ stack' \in Stacks /\ Finite(stack')
         /\ \A F : Count(F)' = Count(F) - One(Head(stack[th]) \in F)
                                            + One(g \in F) + One(f \in F)
<1> DEFINE one == Popped(stack, th)
           two == Pushed(one, th, g)
<1>1. stack' = Pushed(two, th, f)
  <2>1. stack[th] \in Seq(FrameType)
    BY DEF Stacks
  <2>2. <<f, g>> \o Tail(stack[th]) = <<f>> \o (<<g>> \o Tail(stack[th]))
    BY <2>1, CallIsPushes
  <2> QED BY <2>2 DEF Call, Stacks, Pushed, Popped
<1>2. /\ one \in Stacks /\ Finite(one)
      /\ \A F : Cardinality(Spots(one, F)) =
                       Cardinality(Spots(stack, F)) - One(Head(stack[th]) \in F)
  BY PopSpots
<1> HIDE DEF one
<1>3. /\ two \in Stacks /\ Finite(two)
      /\ \A F : Cardinality(Spots(two, F)) =
                       Cardinality(Spots(one, F)) + One(g \in F)
  BY <1>2, PushSpots
<1> HIDE DEF two
<1>4. /\ Pushed(two, th, f) \in Stacks /\ Finite(Pushed(two, th, f))
      /\ \A F : Cardinality(Spots(Pushed(two, th, f), F)) =
                       Cardinality(Spots(two, F)) + One(f \in F)
  BY <1>3, PushSpots
<1> QED BY <1>1, <1>2, <1>3, <1>4 DEF Count

\* With three.
LEMMA Counting3 ==
  ASSUME stack \in Stacks, Finite(stack), NEW th \in Threads, stack[th] # << >>,
         NEW f \in FrameType, NEW g \in FrameType, NEW h \in FrameType, Call(th, <<f, g, h>>)
  PROVE  /\ stack' \in Stacks /\ Finite(stack')
         /\ \A F : Count(F)' = Count(F) - One(Head(stack[th]) \in F)
                           + One(h \in F) + One(g \in F) + One(f \in F)
<1> DEFINE one == Popped(stack, th)
           two == Pushed(one, th, h)
           three == Pushed(two, th, g)
<1>1. stack' = Pushed(three, th, f)
  <2>1. stack[th] \in Seq(FrameType)
    BY DEF Stacks
  <2>2. <<f, g, h>> \o Tail(stack[th]) = <<f>> \o (<<g>> \o (<<h>> \o Tail(stack[th])))
    BY <2>1, ThreePushes
  <2> QED BY <2>2 DEF Call, Stacks, Pushed, Popped
<1>2. /\ one \in Stacks /\ Finite(one)
      /\ \A F : Cardinality(Spots(one, F)) =
                       Cardinality(Spots(stack, F)) - One(Head(stack[th]) \in F)
  BY PopSpots
<1> HIDE DEF one
<1>3. /\ two \in Stacks /\ Finite(two)
      /\ \A F : Cardinality(Spots(two, F)) =
                       Cardinality(Spots(one, F)) + One(h \in F)
  BY <1>2, PushSpots
<1> HIDE DEF two
<1>4. /\ three \in Stacks /\ Finite(three)
      /\ \A F : Cardinality(Spots(three, F)) =
                       Cardinality(Spots(two, F)) + One(g \in F)
  BY <1>3, PushSpots
<1> HIDE DEF three
<1>5. /\ Pushed(three, th, f) \in Stacks /\ Finite(Pushed(three, th, f))
      /\ \A F : Cardinality(Spots(Pushed(three, th, f), F)) =
                       Cardinality(Spots(three, F)) + One(f \in F)
  BY <1>4, PushSpots
<1> QED BY <1>1, <1>2, <1>3, <1>4, <1>5 DEF Count

\* With four.
LEMMA Counting4 ==
  ASSUME stack \in Stacks, Finite(stack), NEW th \in Threads, stack[th] # << >>,
         NEW f \in FrameType, NEW g \in FrameType, NEW h \in FrameType, NEW i \in FrameType,
         Call(th, <<f, g, h, i>>)
  PROVE  /\ stack' \in Stacks /\ Finite(stack')
         /\ \A F : Count(F)' = Count(F) - One(Head(stack[th]) \in F)
                           + One(i \in F) + One(h \in F)
                           + One(g \in F) + One(f \in F)
<1> DEFINE one == Popped(stack, th)
           two == Pushed(one, th, i)
           three == Pushed(two, th, h)
           four == Pushed(three, th, g)
<1>1. stack' = Pushed(four, th, f)
  <2> DEFINE t == Tail(stack[th])
  <2>1. stack[th] \in Seq(FrameType) /\ t \in Seq(FrameType)
    BY DEF Stacks
  <2>2. <<g, h, i>> \o t = <<g>> \o (<<h>> \o (<<i>> \o t))
    <3>1. stack[th] # << >>
      OBVIOUS
    <3>2. \A s \in Seq(FrameType) :
            s # << >> => <<g, h, i>> \o Tail(s) = <<g>> \o (<<h>> \o (<<i>> \o Tail(s)))
      BY ONLY ThreePushes, SMTT(30)
    <3> QED BY ONLY <2>1, <3>1, <3>2
  <2>3. <<f, g, h, i>> \o t = <<f>> \o (<<g, h, i>> \o t)
    <3>1. <<f>> \in Seq(FrameType) /\ <<g, h, i>> \in Seq(FrameType)
      OBVIOUS
    <3>2. <<f>> \o <<g, h, i>> = <<f, g, h, i>>
      <4>1. Len(<<f, g, h, i>>) = 4 /\ Len(<<f>> \o <<g, h, i>>) = 4
        OBVIOUS
      <4>2. \A k \in 1..4 : <<f, g, h, i>>[k] = (<<f>> \o <<g, h, i>>)[k]
        OBVIOUS
      <4>3. <<f, g, h, i>> \in Seq(FrameType) /\ <<f>> \o <<g, h, i>> \in Seq(FrameType)
        OBVIOUS
      <4> QED BY <4>1, <4>2, <4>3, SeqEqual
    <3> QED BY ONLY <2>1, <3>1, <3>2, ConcatAssociative, SMTT(30)
  <2> QED BY <2>1, <2>2, <2>3 DEF Call, Stacks, Pushed, Popped
<1>2. /\ one \in Stacks /\ Finite(one)
      /\ \A F : Cardinality(Spots(one, F)) =
                       Cardinality(Spots(stack, F)) - One(Head(stack[th]) \in F)
  BY PopSpots
<1> HIDE DEF one
<1>3. /\ two \in Stacks /\ Finite(two)
      /\ \A F : Cardinality(Spots(two, F)) =
                       Cardinality(Spots(one, F)) + One(i \in F)
  BY <1>2, PushSpots
<1> HIDE DEF two
<1>4. /\ three \in Stacks /\ Finite(three)
      /\ \A F : Cardinality(Spots(three, F)) =
                       Cardinality(Spots(two, F)) + One(h \in F)
  BY <1>3, PushSpots
<1> HIDE DEF three
<1>5. /\ four \in Stacks /\ Finite(four)
      /\ \A F : Cardinality(Spots(four, F)) =
                       Cardinality(Spots(three, F)) + One(g \in F)
  BY <1>4, PushSpots
<1> HIDE DEF four
<1>6. /\ Pushed(four, th, f) \in Stacks /\ Finite(Pushed(four, th, f))
      /\ \A F : Cardinality(Spots(Pushed(four, th, f), F)) =
                       Cardinality(Spots(four, F)) + One(f \in F)
  BY <1>5, PushSpots
<1> QED BY <1>1, <1>2, <1>3, <1>4, <1>5, <1>6 DEF Count

\* A thread that had nothing to do begins with one frame.
LEMMA BeginCounts1 ==
  ASSUME stack \in Stacks, Finite(stack), NEW th \in Threads, stack[th] = << >>,
         NEW f \in FrameType, stack' = [stack EXCEPT ![th] = <<f>>]
  PROVE  /\ stack' \in Stacks /\ Finite(stack')
         /\ \A F : Count(F)' = Count(F) + One(f \in F)
<1>1. stack' = Pushed(stack, th, f)
  BY DEF Stacks, Pushed
<1>2. /\ Pushed(stack, th, f) \in Stacks /\ Finite(Pushed(stack, th, f))
      /\ \A F : Cardinality(Spots(Pushed(stack, th, f), F)) =
                       Cardinality(Spots(stack, F)) + One(f \in F)
  BY PushSpots
<1> QED BY <1>1, <1>2 DEF Count

\* Or with two.
LEMMA BeginCounts2 ==
  ASSUME stack \in Stacks, Finite(stack), NEW th \in Threads, stack[th] = << >>,
         NEW f \in FrameType, NEW g \in FrameType, stack' = [stack EXCEPT ![th] = <<f, g>>]
  PROVE  /\ stack' \in Stacks /\ Finite(stack')
         /\ \A F : Count(F)' = Count(F) + One(g \in F)
                                            + One(f \in F)
<1> DEFINE one == Pushed(stack, th, g)
<1>1. stack' = Pushed(one, th, f)
  BY DEF Stacks, Pushed
<1>2. /\ one \in Stacks /\ Finite(one)
      /\ \A F : Cardinality(Spots(one, F)) =
                       Cardinality(Spots(stack, F)) + One(g \in F)
  BY PushSpots
<1> HIDE DEF one
<1>3. /\ Pushed(one, th, f) \in Stacks /\ Finite(Pushed(one, th, f))
      /\ \A F : Cardinality(Spots(Pushed(one, th, f), F)) =
                       Cardinality(Spots(one, F)) + One(f \in F)
  BY <1>2, PushSpots
<1> QED BY <1>1, <1>2, <1>3 DEF Count

-----------------------------------------------------------------------------
(* The same, for the frames of some operations of one async *)

\* A place holds a frame of the stack.
LEMMA PlacesHoldFrames ==
  ASSUME NEW stacks \in Stacks, NEW s \in Places(stacks)
  PROVE  stacks[s[1]][Len(stacks[s[1]]) + 1 - s[2]] \in FrameType
<1>1. PICK th \in Threads : s \in {th} \X DOMAIN stacks[th]
  BY DEF Places
<1>2. s[1] = th /\ stacks[th] \in Seq(FrameType) /\ s[2] \in 1..Len(stacks[th])
  BY <1>1 DEF Stacks
<1>3. Len(stacks[th]) + 1 - s[2] \in 1..Len(stacks[th])
  BY <1>2
<1> QED BY <1>2, <1>3

LEMMA SlotsAreSpots ==
  ASSUME NEW stacks \in Stacks, NEW ops, NEW a
  PROVE  Slots(stacks, ops, a) = Spots(stacks, Kind(ops, a))
<1>1. \A s \in Places(stacks) :
        LET f == stacks[s[1]][Len(stacks[s[1]]) + 1 - s[2]] IN
          f \in Kind(ops, a) <=> f.op \in ops /\ f.async = a
  BY PlacesHoldFrames DEF Kind, IsOf
<1>2. Slots(stacks, ops, a) =
        {s \in Places(stacks) :
           LET f == stacks[s[1]][Len(stacks[s[1]]) + 1 - s[2]] IN f.op \in ops /\ f.async = a}
  BY DEF Slots, Places
<1> QED BY <1>1, <1>2 DEF Spots

LEMMA InKind ==
  ASSUME NEW f \in FrameType
  PROVE  \A ops, a : One(f \in Kind(ops, a)) = One(IsOf(f, ops, a))
<1>1. \A ops, a : f \in Kind(ops, a) <=> IsOf(f, ops, a)
  BY DEF Kind
<1> QED BY <1>1 DEF One

LEMMA FramesAreCounted ==
  ASSUME stack \in Stacks
  PROVE  \A ops, a : Frames(ops, a) = Count(Kind(ops, a))
BY SlotsAreSpots DEF Frames, Count

LEMMA FramesAreCountedNext ==
  ASSUME stack' \in Stacks
  PROVE  \A ops, a : Frames(ops, a)' = Count(Kind(ops, a))'
BY SlotsAreSpots DEF Frames, Count

\* What a place in a stack is.
LEMMA InSlots ==
  ASSUME NEW stacks \in Stacks, NEW ops, NEW a, NEW th \in Threads, NEW d
  PROVE  <<th, d>> \in Slots(stacks, ops, a) <=>
           d \in 1..Len(stacks[th]) /\ IsOf(stacks[th][Len(stacks[th]) + 1 - d], ops, a)
<1>1. \A k \in 1..Len(stacks[th]) : stacks[th][k] \in FrameType
  BY DEF Stacks
<1>2. d \in 1..Len(stacks[th]) => Len(stacks[th]) + 1 - d \in 1..Len(stacks[th])
  BY DEF Stacks
<1>3. <<th, d>> \in Slots(stacks, ops, a) <=>
        d \in 1..Len(stacks[th]) /\ stacks[th][Len(stacks[th]) + 1 - d] \in Kind(ops, a)
  <2>1. Slots(stacks, ops, a) = Spots(stacks, Kind(ops, a))
    BY SlotsAreSpots
  <2> QED BY <2>1, InSpots
<1>4. d \in 1..Len(stacks[th]) => stacks[th][Len(stacks[th]) + 1 - d] \in FrameType
  BY <1>1, <1>2
<1> QED BY <1>3, <1>4 DEF Kind

\* Places of some frames are finitely many if those of all frames are.
LEMMA SlotsFinite ==
  ASSUME NEW stacks \in Stacks, Finite(stacks), NEW ops, NEW a
  PROVE  IsFiniteSet(Slots(stacks, ops, a)) /\ Cardinality(Slots(stacks, ops, a)) \in Nat
BY SlotsAreSpots, SpotsFinite

\* One frame more on a stack.
LEMMA Push ==
  ASSUME NEW stacks \in Stacks, Finite(stacks), NEW th \in Threads, NEW f \in FrameType
  PROVE  /\ Pushed(stacks, th, f) \in Stacks /\ Finite(Pushed(stacks, th, f))
         /\ \A ops, a : Cardinality(Slots(Pushed(stacks, th, f), ops, a)) =
                          Cardinality(Slots(stacks, ops, a)) + One(IsOf(f, ops, a))
<1> DEFINE pushed == Pushed(stacks, th, f)
<1>1. /\ pushed \in Stacks /\ Finite(pushed)
      /\ \A F : Cardinality(Spots(pushed, F)) = Cardinality(Spots(stacks, F)) + One(f \in F)
  BY PushSpots
<1> HIDE DEF pushed
<1>2. \A ops, a : /\ Slots(pushed, ops, a) = Spots(pushed, Kind(ops, a))
                  /\ Slots(stacks, ops, a) = Spots(stacks, Kind(ops, a))
  BY <1>1, SlotsAreSpots
<1>3. \A ops, a : Cardinality(Slots(pushed, ops, a)) =
                    Cardinality(Slots(stacks, ops, a)) + One(IsOf(f, ops, a))
  BY <1>1, <1>2, InKind
<1> QED BY <1>1, <1>3 DEF pushed

\* The number of frames is a number.
LEMMA FramesType ==
  ASSUME stack \in Stacks, Finite(stack)
  PROVE  \A ops, a : Frames(ops, a) \in Nat
BY SlotsFinite DEF Frames

\* If there is no such frame, no stack has one.
LEMMA NoFrames ==
  ASSUME stack \in Stacks, Finite(stack), NEW ops, NEW a
  PROVE  Frames(ops, a) = 0 <=>
           \A th \in Threads : \A k \in DOMAIN stack[th] : ~IsOf(stack[th][k], ops, a)
<1>1. Frames(ops, a) = 0 <=> \A th \in Threads : \A k \in DOMAIN stack[th] : stack[th][k] \notin Kind(ops, a)
  BY FramesAreCounted, NoneCounted
<1>2. \A th \in Threads : \A k \in DOMAIN stack[th] : stack[th][k] \in FrameType
  BY DEF Stacks
<1> QED BY <1>1, <1>2 DEF Kind

\* A step that returns.
LEMMA Calls0 ==
  ASSUME stack \in Stacks, Finite(stack), NEW th \in Threads, stack[th] # << >>, Call(th, << >>)
  PROVE  /\ stack' \in Stacks /\ Finite(stack')
         /\ \A ops, a : Frames(ops, a)' = Frames(ops, a) - One(IsOf(Head(stack[th]), ops, a))
<1>1. /\ stack' \in Stacks /\ Finite(stack')
      /\ \A F : Count(F)' = Count(F) - One(Head(stack[th]) \in F)
  BY Counting0
<1>2. Head(stack[th]) \in FrameType
  BY DEF Stacks
<1>3. \A ops, a : /\ Frames(ops, a) = Count(Kind(ops, a))
                  /\ Frames(ops, a)' = Count(Kind(ops, a))'
  BY <1>1, FramesAreCounted, FramesAreCountedNext
<1> QED BY <1>1, <1>2, <1>3, InKind

\* A step that goes on with one frame.
LEMMA Calls1 ==
  ASSUME stack \in Stacks, Finite(stack), NEW th \in Threads, stack[th] # << >>,
         NEW f \in FrameType, Call(th, <<f>>)
  PROVE  /\ stack' \in Stacks /\ Finite(stack')
         /\ \A ops, a : Frames(ops, a)' = Frames(ops, a) - One(IsOf(Head(stack[th]), ops, a))
                                            + One(IsOf(f, ops, a))
<1>1. /\ stack' \in Stacks /\ Finite(stack')
      /\ \A F : Count(F)' = Count(F) - One(Head(stack[th]) \in F)
                        + One(f \in F)
  BY Counting1
<1>2. Head(stack[th]) \in FrameType
  BY DEF Stacks
<1>3. \A ops, a : /\ Frames(ops, a) = Count(Kind(ops, a))
                  /\ Frames(ops, a)' = Count(Kind(ops, a))'
  BY <1>1, FramesAreCounted, FramesAreCountedNext
<1> QED BY <1>1, <1>2, <1>3, InKind

\* With two.
LEMMA Calls2 ==
  ASSUME stack \in Stacks, Finite(stack), NEW th \in Threads, stack[th] # << >>,
         NEW f \in FrameType, NEW g \in FrameType, Call(th, <<f, g>>)
  PROVE  /\ stack' \in Stacks /\ Finite(stack')
         /\ \A ops, a : Frames(ops, a)' = Frames(ops, a) - One(IsOf(Head(stack[th]), ops, a))
                                            + One(IsOf(g, ops, a)) + One(IsOf(f, ops, a))
<1>1. /\ stack' \in Stacks /\ Finite(stack')
      /\ \A F : Count(F)' = Count(F) - One(Head(stack[th]) \in F)
                        + One(g \in F)
                        + One(f \in F)
  BY Counting2
<1>2. Head(stack[th]) \in FrameType
  BY DEF Stacks
<1>3. \A ops, a : /\ Frames(ops, a) = Count(Kind(ops, a))
                  /\ Frames(ops, a)' = Count(Kind(ops, a))'
  BY <1>1, FramesAreCounted, FramesAreCountedNext
<1> QED BY <1>1, <1>2, <1>3, InKind

\* With three.
LEMMA Calls3 ==
  ASSUME stack \in Stacks, Finite(stack), NEW th \in Threads, stack[th] # << >>,
         NEW f \in FrameType, NEW g \in FrameType, NEW h \in FrameType, Call(th, <<f, g, h>>)
  PROVE  /\ stack' \in Stacks /\ Finite(stack')
         /\ \A ops, a : Frames(ops, a)' = Frames(ops, a) - One(IsOf(Head(stack[th]), ops, a))
                           + One(IsOf(h, ops, a)) + One(IsOf(g, ops, a)) + One(IsOf(f, ops, a))
<1>1. /\ stack' \in Stacks /\ Finite(stack')
      /\ \A F : Count(F)' = Count(F) - One(Head(stack[th]) \in F)
                        + One(h \in F)
                        + One(g \in F)
                        + One(f \in F)
  BY Counting3
<1>2. Head(stack[th]) \in FrameType
  BY DEF Stacks
<1>3. \A ops, a : /\ Frames(ops, a) = Count(Kind(ops, a))
                  /\ Frames(ops, a)' = Count(Kind(ops, a))'
  BY <1>1, FramesAreCounted, FramesAreCountedNext
<1> QED BY <1>1, <1>2, <1>3, InKind

\* With four.
LEMMA Calls4 ==
  ASSUME stack \in Stacks, Finite(stack), NEW th \in Threads, stack[th] # << >>,
         NEW f \in FrameType, NEW g \in FrameType, NEW h \in FrameType, NEW i \in FrameType,
         Call(th, <<f, g, h, i>>)
  PROVE  /\ stack' \in Stacks /\ Finite(stack')
         /\ \A ops, a : Frames(ops, a)' = Frames(ops, a) - One(IsOf(Head(stack[th]), ops, a))
                           + One(IsOf(i, ops, a)) + One(IsOf(h, ops, a))
                           + One(IsOf(g, ops, a)) + One(IsOf(f, ops, a))
<1>1. /\ stack' \in Stacks /\ Finite(stack')
      /\ \A F : Count(F)' = Count(F) - One(Head(stack[th]) \in F)
                        + One(i \in F)
                        + One(h \in F)
                        + One(g \in F)
                        + One(f \in F)
  BY Counting4
<1>2. Head(stack[th]) \in FrameType
  BY DEF Stacks
<1>3. \A ops, a : /\ Frames(ops, a) = Count(Kind(ops, a))
                  /\ Frames(ops, a)' = Count(Kind(ops, a))'
  BY <1>1, FramesAreCounted, FramesAreCountedNext
<1> QED BY <1>1, <1>2, <1>3, InKind

\* A thread that had nothing to do begins with one frame.
LEMMA Begins1 ==
  ASSUME stack \in Stacks, Finite(stack), NEW th \in Threads, stack[th] = << >>,
         NEW f \in FrameType, stack' = [stack EXCEPT ![th] = <<f>>]
  PROVE  /\ stack' \in Stacks /\ Finite(stack')
         /\ \A ops, a : Frames(ops, a)' = Frames(ops, a) + One(IsOf(f, ops, a))
<1>1. /\ stack' \in Stacks /\ Finite(stack')
      /\ \A F : Count(F)' = Count(F) + One(f \in F)
  BY BeginCounts1
<1>2. \A ops, a : /\ Frames(ops, a) = Count(Kind(ops, a))
                  /\ Frames(ops, a)' = Count(Kind(ops, a))'
  BY <1>1, FramesAreCounted, FramesAreCountedNext
<1> QED BY <1>1, <1>2, InKind

\* Or with two.
LEMMA Begins2 ==
  ASSUME stack \in Stacks, Finite(stack), NEW th \in Threads, stack[th] = << >>,
         NEW f \in FrameType, NEW g \in FrameType, stack' = [stack EXCEPT ![th] = <<f, g>>]
  PROVE  /\ stack' \in Stacks /\ Finite(stack')
         /\ \A ops, a : Frames(ops, a)' = Frames(ops, a) + One(IsOf(g, ops, a))
                                            + One(IsOf(f, ops, a))
<1>1. /\ stack' \in Stacks /\ Finite(stack')
      /\ \A F : Count(F)' = Count(F) + One(g \in F) + One(f \in F)
  BY BeginCounts2
<1>2. \A ops, a : /\ Frames(ops, a) = Count(Kind(ops, a))
                  /\ Frames(ops, a)' = Count(Kind(ops, a))'
  BY <1>1, FramesAreCounted, FramesAreCountedNext
<1> QED BY <1>1, <1>2, InKind

\* Short sequences, put together.
LEMMA Tuples ==
  ASSUME NEW x, NEW y
  PROVE  <<x>> \o <<y>> = <<x, y>>
<1> DEFINE S == {x, y}
<1>1. <<x>> \o <<y>> \in Seq(S) /\ <<x, y>> \in Seq(S)
  OBVIOUS
<1>2. /\ Len(<<x>> \o <<y>>) = 2 /\ Len(<<x, y>>) = 2
      /\ \A k \in 1..2 : (<<x>> \o <<y>>)[k] = <<x, y>>[k]
  OBVIOUS
<1> QED BY <1>1, <1>2, SeqEqual

\* Three of them.
LEMMA Triples ==
  ASSUME NEW x, NEW y, NEW z
  PROVE  <<x, y>> \o <<z>> = <<x, y, z>>
<1> DEFINE S == {x, y, z}
<1>1. <<x, y>> \o <<z>> \in Seq(S) /\ <<x, y, z>> \in Seq(S)
  OBVIOUS
<1>2. /\ Len(<<x, y>> \o <<z>>) = 3 /\ Len(<<x, y, z>>) = 3
      /\ \A k \in 1..3 : (<<x, y>> \o <<z>>)[k] = <<x, y, z>>[k]
  OBVIOUS
<1> QED BY <1>1, <1>2, SeqEqual

\* Frames that are made, and frames that carry a result.
LEMMA NewFrames ==
  ASSUME NEW op \in Operations, NEW a \in Asyncs
  PROVE  /\ Frame(op, a) \in FrameType /\ Frame(op, a).op = op /\ Frame(op, a).async = a
         /\ ~Frame(op, a).ok
         /\ Success(op, a) \in FrameType /\ Success(op, a).op = op /\ Success(op, a).async = a
         /\ Success(op, a).ok
BY DEF Frame, Success, FrameType

LEMMA CarriedFrames ==
  ASSUME NEW op \in Operations, NEW a \in Asyncs, NEW th, Head(stack[th]) \in FrameType
  PROVE  /\ Carry(th, op, a) \in FrameType /\ Carry(th, op, a).op = op
         /\ Carry(th, op, a).async = a /\ Carry(th, op, a).ok = Head(stack[th]).ok
BY DEF Carry, Frame, FrameType

\* At the start the issuer is about to create the operation, and then to use it.
LEMMA FirstFrames ==
  ASSUME Init
  PROVE  /\ stack \in Stacks /\ Finite(stack)
         /\ \A ops : Frames(ops, Root) = One("start" \in ops) + One("new" \in ops)
         /\ \A b \in Asyncs \ {Root} : \A ops : Frames(ops, b) = 0
<1> DEFINE empty == [th \in Threads |-> << >>]
           f == Frame("new", Root)
           g == Frame("start", Root)
           one == Pushed(empty, Issuer, g)
<1>1. /\ f \in FrameType /\ f.op = "new" /\ f.async = Root
      /\ g \in FrameType /\ g.op = "start" /\ g.async = Root /\ Issuer \in Threads
  BY DEF Frame, FrameType, Operations, Threads, Asyncs
<1>2. /\ stack = [th \in Threads |-> IF th = Issuer THEN <<f, g>> ELSE << >>]
      /\ stack[Issuer] = <<f, g>> /\ \A th \in Threads \ {Issuer} : stack[th] = << >>
  BY <1>1 DEF Init
<1>3. empty \in Stacks /\ Finite(empty) /\ \A ops, a : Cardinality(Slots(empty, ops, a)) = 0
  <2>1. empty \in Stacks
    BY DEF Stacks
  <2>2. Places(empty) = {}
    BY DEF Places
  <2>3. \A ops, a : Slots(empty, ops, a) = {}
    BY <2>2 DEF Slots, Places
  <2> QED BY <2>1, <2>2, <2>3, FS_EmptySet DEF Finite
<1>4. stack = Pushed(one, Issuer, f)
  <2>1. one = [th \in Threads |-> IF th = Issuer THEN <<g>> ELSE << >>]
    BY <1>1 DEF Pushed
  <2>2. <<f>> \o <<g>> = <<f, g>>
    BY Tuples
  <2> HIDE DEF f, g
  <2> QED BY <1>1, <1>2, <2>1, <2>2 DEF Pushed
<1> HIDE DEF f, g, empty
<1>5. /\ one \in Stacks /\ Finite(one)
      /\ \A ops, a : Cardinality(Slots(one, ops, a)) =
                       Cardinality(Slots(empty, ops, a)) + One(IsOf(g, ops, a))
  BY <1>1, <1>3, Push
<1> HIDE DEF one
<1>6. /\ stack \in Stacks /\ Finite(stack)
      /\ \A ops, a : Cardinality(Slots(stack, ops, a)) =
                       Cardinality(Slots(one, ops, a)) + One(IsOf(f, ops, a))
  <2>1. /\ Pushed(one, Issuer, f) \in Stacks /\ Finite(Pushed(one, Issuer, f))
        /\ \A ops, a : Cardinality(Slots(Pushed(one, Issuer, f), ops, a)) =
                         Cardinality(Slots(one, ops, a)) + One(IsOf(f, ops, a))
    BY <1>1, <1>5, Push
  <2> QED BY <1>4, <2>1
<1>7. /\ \A ops : Frames(ops, Root) = One("start" \in ops) + One("new" \in ops)
      /\ \A b \in Asyncs \ {Root} : \A ops : Frames(ops, b) = 0
  BY <1>1, <1>3, <1>5, <1>6 DEF Frames, IsOf, One
<1> QED BY <1>6, <1>7

-----------------------------------------------------------------------------
(* What a thread has yet to do *)

\* The operation of the k-th frame from the top, if there is one.
Doing(th, k) == IF k \in DOMAIN stack[th] THEN stack[th][k].op ELSE "-"

Todo(th) == <<Doing(th, 1), Doing(th, 2), Doing(th, 3)>>

\* All frames are frames of Root.
AllOfRoot ==
  \A th \in Threads : \A k \in DOMAIN stack[th] : stack[th][k].async = Root /\ stack[th][k].op # "-"

OthersStay(th) == \A other \in Threads \ {th} : stack'[other] = stack[other]

\* A thread that stands still has the same yet to do.
LEMMA StaysSame ==
  ASSUME NEW th \in Threads, stack'[th] = stack[th]
  PROVE  Todo(th)' = Todo(th) /\ \A k : Doing(th, k)' = Doing(th, k)
BY DEF Todo, Doing

\* Doing tells where a stack ends.
LEMMA DoingType ==
  ASSUME stack \in Stacks, AllOfRoot, NEW th \in Threads
  PROVE  /\ Len(stack[th]) \in Nat
         /\ \A k \in Nat \ {0} : Doing(th, k) = "-" <=> k > Len(stack[th])
         /\ Doing(th, 1) = "-" <=> stack[th] = << >>
         /\ stack[th] # << >> => Doing(th, 1) = Head(stack[th]).op /\ Head(stack[th]).async = Root
<1>1. stack[th] \in Seq(FrameType)
  BY DEF Stacks
<1>2. \A k \in Nat \ {0} : Doing(th, k) = "-" <=> k > Len(stack[th])
  BY <1>1 DEF Doing, AllOfRoot
<1>3. stack[th] = << >> <=> Len(stack[th]) = 0
  BY <1>1
<1>4. stack[th] # << >> => Doing(th, 1) = Head(stack[th]).op /\ Head(stack[th]).async = Root
  BY <1>1 DEF Doing, AllOfRoot
<1>5. Doing(th, 1) = "-" <=> 1 > Len(stack[th])
  BY <1>2
<1> QED BY <1>1, <1>2, <1>3, <1>4, <1>5

\* How a call changes it.
LEMMA DoingAfter ==
  ASSUME stack \in Stacks, AllOfRoot, NEW th \in Threads, stack[th] # << >>,
         NEW frames \in Seq(FrameType),
         \A k \in DOMAIN frames : frames[k].async = Root /\ frames[k].op # "-",
         Call(th, frames)
  PROVE  /\ AllOfRoot' /\ OthersStay(th)
         /\ \A k \in Nat \ {0} :
              Doing(th, k)' = IF k <= Len(frames) THEN frames[k].op
                              ELSE Doing(th, k - Len(frames) + 1)
<1>1. stack[th] \in Seq(FrameType) /\ stack'[th] = frames \o Tail(stack[th])
  BY DEF Stacks, Call
<1>2. /\ stack'[th] \in Seq(FrameType)
      /\ Len(stack'[th]) = Len(frames) + Len(stack[th]) - 1
      /\ Len(stack[th]) \in Nat /\ Len(frames) \in Nat /\ Len(stack[th]) >= 1
      /\ DOMAIN stack'[th] = 1..Len(stack'[th]) /\ DOMAIN stack[th] = 1..Len(stack[th])
      /\ DOMAIN frames = 1..Len(frames)
  BY <1>1
<1>3. \A k \in 1..Len(stack'[th]) :
        stack'[th][k] = IF k <= Len(frames) THEN frames[k] ELSE stack[th][k - Len(frames) + 1]
  BY <1>1, <1>2
<1>4. OthersStay(th)
  BY DEF Call, Stacks, OthersStay
<1>5. \A k \in DOMAIN stack'[th] : stack'[th][k].async = Root /\ stack'[th][k].op # "-"
  <2> TAKE k \in DOMAIN stack'[th]
  <2>1. CASE k <= Len(frames)
    <3>1. k \in DOMAIN frames
      BY <1>2, <2>1
    <3> QED BY <1>2, <1>3, <2>1, <3>1
  <2>2. CASE ~(k <= Len(frames))
    <3>1. k - Len(frames) + 1 \in DOMAIN stack[th]
      BY <1>2, <2>2
    <3> QED BY <1>2, <1>3, <2>2, <3>1 DEF AllOfRoot
  <2> QED BY <2>1, <2>2
<1>6. AllOfRoot'
  BY <1>4, <1>5 DEF AllOfRoot, OthersStay
<1>7. ASSUME NEW k \in Nat \ {0}
      PROVE  Doing(th, k)' = IF k <= Len(frames) THEN frames[k].op
                             ELSE Doing(th, k - Len(frames) + 1)
  <2>1. CASE k <= Len(frames)
    BY <1>2, <1>3, <2>1 DEF Doing
  <2>2. CASE ~(k <= Len(frames)) /\ k <= Len(stack'[th])
    <3>1. k - Len(frames) + 1 \in DOMAIN stack[th] /\ k \in DOMAIN stack'[th]
      BY <1>2, <2>2
    <3> QED BY <1>2, <1>3, <2>2, <3>1 DEF Doing
  <2>3. CASE ~(k <= Len(frames)) /\ ~(k <= Len(stack'[th]))
    <3>1. k - Len(frames) + 1 \notin DOMAIN stack[th] /\ k \notin DOMAIN stack'[th]
      BY <1>2, <2>3
    <3> QED BY <2>3, <3>1 DEF Doing
  <2> QED BY <2>1, <2>2, <2>3
<1> QED BY <1>4, <1>6, <1>7

-----------------------------------------------------------------------------
(* Calls, seen from one operation *)

\* The frame on top is executed and leaves nothing.
LEMMA Returns ==
  ASSUME stack \in Stacks, Finite(stack), AllOfRoot, NEW th \in Threads, stack[th] # << >>,
         Doing(th, 4) = "-", Call(th, << >>)
  PROVE  /\ stack' \in Stacks /\ Finite(stack') /\ AllOfRoot' /\ OthersStay(th)
         /\ Todo(th)' = <<Doing(th, 2), Doing(th, 3), "-">> /\ Doing(th, 4)' = "-"
         /\ \A ops : Frames(ops, Root)' = Frames(ops, Root) - One(Doing(th, 1) \in ops)
<1> DEFINE frames == << >>
<1>1. /\ frames \in Seq(FrameType) /\ Len(frames) = 0
      /\ \A k \in DOMAIN frames : frames[k].async = Root /\ frames[k].op # "-"
  OBVIOUS
<1>2. stack' \in Stacks /\ Finite(stack')
  BY Calls0
<1>3. /\ \A k \in Nat \ {0} : Doing(th, k) = "-" <=> k > Len(stack[th])
      /\ Len(stack[th]) \in Nat
      /\ Doing(th, 1) = Head(stack[th]).op /\ Head(stack[th]).async = Root
  BY DoingType
<1> HIDE DEF frames
<1>4. /\ AllOfRoot' /\ OthersStay(th)
      /\ \A k \in Nat \ {0} :
           Doing(th, k)' = IF k <= Len(frames) THEN frames[k].op
                           ELSE Doing(th, k - Len(frames) + 1)
  BY <1>1, DoingAfter DEF frames
<1>5. /\ Doing(th, 1)' = Doing(th, 2)
      /\ Doing(th, 2)' = Doing(th, 3)
      /\ Doing(th, 3)' = Doing(th, 4)
      /\ Doing(th, 4)' = Doing(th, 5)
  BY <1>1, <1>4
<1>6. Doing(th, 4)' = "-"
  BY <1>3, <1>5
<1>7. \A ops : Frames(ops, Root)' = Frames(ops, Root) - One(Doing(th, 1) \in ops)
  <2>1. \A ops, a : Frames(ops, a)' = Frames(ops, a) - One(IsOf(Head(stack[th]), ops, a))
    BY Calls0
  <2>2. \A ops : /\ IsOf(Head(stack[th]), ops, Root) <=> Doing(th, 1) \in ops
    BY <1>3 DEF IsOf
  <2>3. \A ops : Frames(ops, Root) \in Nat
    BY FramesType
  <2> QED BY <2>1, <2>2, <2>3 DEF One
<1> QED BY <1>2, <1>4, <1>5, <1>6, <1>7 DEF Todo

\* One frame takes its place.
LEMMA GoesOn1 ==
  ASSUME stack \in Stacks, Finite(stack), AllOfRoot, NEW th \in Threads, stack[th] # << >>,
         NEW f \in FrameType,
         f.async = Root, f.op # "-",
         Doing(th, 4) = "-", Call(th, <<f>>)
  PROVE  /\ stack' \in Stacks /\ Finite(stack') /\ AllOfRoot' /\ OthersStay(th)
         /\ Todo(th)' = <<f.op, Doing(th, 2), Doing(th, 3)>> /\ Doing(th, 4)' = "-"
         /\ \A ops : Frames(ops, Root)' = Frames(ops, Root) - One(Doing(th, 1) \in ops)
                                             + One(f.op \in ops)
<1> DEFINE frames == <<f>>
<1>1. /\ frames \in Seq(FrameType) /\ Len(frames) = 1
      /\ \A k \in DOMAIN frames : frames[k].async = Root /\ frames[k].op # "-"
      /\ frames[1] = f
  OBVIOUS
<1>2. stack' \in Stacks /\ Finite(stack')
  BY Calls1
<1>3. /\ \A k \in Nat \ {0} : Doing(th, k) = "-" <=> k > Len(stack[th])
      /\ Len(stack[th]) \in Nat
      /\ Doing(th, 1) = Head(stack[th]).op /\ Head(stack[th]).async = Root
  BY DoingType
<1> HIDE DEF frames
<1>4. /\ AllOfRoot' /\ OthersStay(th)
      /\ \A k \in Nat \ {0} :
           Doing(th, k)' = IF k <= Len(frames) THEN frames[k].op
                           ELSE Doing(th, k - Len(frames) + 1)
  BY <1>1, DoingAfter DEF frames
<1>5. /\ Doing(th, 1)' = f.op
      /\ Doing(th, 2)' = Doing(th, 2)
      /\ Doing(th, 3)' = Doing(th, 3)
      /\ Doing(th, 4)' = Doing(th, 4)
  BY <1>1, <1>4
<1>6. Doing(th, 4)' = "-"
  BY <1>3, <1>5
<1>7. \A ops : Frames(ops, Root)' = Frames(ops, Root) - One(Doing(th, 1) \in ops)
                                     + One(f.op \in ops)
  <2>1. \A ops, a : Frames(ops, a)' = Frames(ops, a) - One(IsOf(Head(stack[th]), ops, a))
                                        + One(IsOf(f, ops, a))
    BY Calls1
  <2>2. \A ops : /\ IsOf(Head(stack[th]), ops, Root) <=> Doing(th, 1) \in ops
                 /\ IsOf(f, ops, Root) <=> f.op \in ops
    BY <1>3 DEF IsOf
  <2>3. \A ops : Frames(ops, Root) \in Nat
    BY FramesType
  <2> QED BY <2>1, <2>2, <2>3 DEF One
<1> QED BY <1>2, <1>4, <1>5, <1>6, <1>7 DEF Todo

\* Two frames do.
LEMMA GoesOn2 ==
  ASSUME stack \in Stacks, Finite(stack), AllOfRoot, NEW th \in Threads, stack[th] # << >>,
         NEW f \in FrameType, NEW g \in FrameType,
         f.async = Root, f.op # "-", g.async = Root, g.op # "-",
         Doing(th, 3) = "-", Call(th, <<f, g>>)
  PROVE  /\ stack' \in Stacks /\ Finite(stack') /\ AllOfRoot' /\ OthersStay(th)
         /\ Todo(th)' = <<f.op, g.op, Doing(th, 2)>> /\ Doing(th, 4)' = "-"
         /\ \A ops : Frames(ops, Root)' = Frames(ops, Root) - One(Doing(th, 1) \in ops)
                                             + One(f.op \in ops) + One(g.op \in ops)
<1> DEFINE frames == <<f, g>>
<1>1. /\ frames \in Seq(FrameType) /\ Len(frames) = 2
      /\ \A k \in DOMAIN frames : frames[k].async = Root /\ frames[k].op # "-"
      /\ frames[1] = f /\ frames[2] = g
  OBVIOUS
<1>2. stack' \in Stacks /\ Finite(stack')
  BY Calls2
<1>3. /\ \A k \in Nat \ {0} : Doing(th, k) = "-" <=> k > Len(stack[th])
      /\ Len(stack[th]) \in Nat
      /\ Doing(th, 1) = Head(stack[th]).op /\ Head(stack[th]).async = Root
  BY DoingType
<1> HIDE DEF frames
<1>4. /\ AllOfRoot' /\ OthersStay(th)
      /\ \A k \in Nat \ {0} :
           Doing(th, k)' = IF k <= Len(frames) THEN frames[k].op
                           ELSE Doing(th, k - Len(frames) + 1)
  BY <1>1, DoingAfter DEF frames
<1>5. /\ Doing(th, 1)' = f.op
      /\ Doing(th, 2)' = g.op
      /\ Doing(th, 3)' = Doing(th, 2)
      /\ Doing(th, 4)' = Doing(th, 3)
  BY <1>1, <1>4
<1>6. Doing(th, 4)' = "-"
  BY <1>3, <1>5
<1>7. \A ops : Frames(ops, Root)' = Frames(ops, Root) - One(Doing(th, 1) \in ops)
                                     + One(f.op \in ops) + One(g.op \in ops)
  <2>1. \A ops, a : Frames(ops, a)' = Frames(ops, a) - One(IsOf(Head(stack[th]), ops, a))
                                        + One(IsOf(g, ops, a)) + One(IsOf(f, ops, a))
    BY Calls2
  <2>2. \A ops : /\ IsOf(Head(stack[th]), ops, Root) <=> Doing(th, 1) \in ops
                 /\ IsOf(f, ops, Root) <=> f.op \in ops
                 /\ IsOf(g, ops, Root) <=> g.op \in ops
    BY <1>3 DEF IsOf
  <2>3. \A ops : Frames(ops, Root) \in Nat
    BY FramesType
  <2> QED BY <2>1, <2>2, <2>3 DEF One
<1> QED BY <1>2, <1>4, <1>5, <1>6, <1>7 DEF Todo

\* Three do.
LEMMA GoesOn3 ==
  ASSUME stack \in Stacks, Finite(stack), AllOfRoot, NEW th \in Threads, stack[th] # << >>,
         NEW f \in FrameType, NEW g \in FrameType, NEW h \in FrameType,
         f.async = Root, f.op # "-", g.async = Root, g.op # "-", h.async = Root, h.op # "-",
         Doing(th, 2) = "-", Call(th, <<f, g, h>>)
  PROVE  /\ stack' \in Stacks /\ Finite(stack') /\ AllOfRoot' /\ OthersStay(th)
         /\ Todo(th)' = <<f.op, g.op, h.op>> /\ Doing(th, 4)' = "-"
         /\ \A ops : Frames(ops, Root)' = Frames(ops, Root) - One(Doing(th, 1) \in ops)
                                             + One(f.op \in ops) + One(g.op \in ops) + One(h.op \in ops)
<1> DEFINE frames == <<f, g, h>>
<1>1. /\ frames \in Seq(FrameType) /\ Len(frames) = 3
      /\ \A k \in DOMAIN frames : frames[k].async = Root /\ frames[k].op # "-"
      /\ frames[1] = f /\ frames[2] = g /\ frames[3] = h
  OBVIOUS
<1>2. stack' \in Stacks /\ Finite(stack')
  BY Calls3
<1>3. /\ \A k \in Nat \ {0} : Doing(th, k) = "-" <=> k > Len(stack[th])
      /\ Len(stack[th]) \in Nat
      /\ Doing(th, 1) = Head(stack[th]).op /\ Head(stack[th]).async = Root
  BY DoingType
<1> HIDE DEF frames
<1>4. /\ AllOfRoot' /\ OthersStay(th)
      /\ \A k \in Nat \ {0} :
           Doing(th, k)' = IF k <= Len(frames) THEN frames[k].op
                           ELSE Doing(th, k - Len(frames) + 1)
  BY <1>1, DoingAfter DEF frames
<1>5. /\ Doing(th, 1)' = f.op
      /\ Doing(th, 2)' = g.op
      /\ Doing(th, 3)' = h.op
      /\ Doing(th, 4)' = Doing(th, 2)
  BY <1>1, <1>4
<1>6. Doing(th, 4)' = "-"
  BY <1>3, <1>5
<1>7. \A ops : Frames(ops, Root)' = Frames(ops, Root) - One(Doing(th, 1) \in ops)
                                     + One(f.op \in ops) + One(g.op \in ops) + One(h.op \in ops)
  <2>1. \A ops, a : Frames(ops, a)' = Frames(ops, a) - One(IsOf(Head(stack[th]), ops, a))
                                        + One(IsOf(h, ops, a)) + One(IsOf(g, ops, a)) + One(IsOf(f, ops, a))
    BY Calls3
  <2>2. \A ops : /\ IsOf(Head(stack[th]), ops, Root) <=> Doing(th, 1) \in ops
                 /\ IsOf(f, ops, Root) <=> f.op \in ops
                 /\ IsOf(g, ops, Root) <=> g.op \in ops
                 /\ IsOf(h, ops, Root) <=> h.op \in ops
    BY <1>3 DEF IsOf
  <2>3. \A ops : Frames(ops, Root) \in Nat
    BY FramesType
  <2> QED BY <2>1, <2>2, <2>3 DEF One
<1> QED BY <1>2, <1>4, <1>5, <1>6, <1>7 DEF Todo

\* A thread that had nothing to do begins with one frame.
LEMMA GoesIn1 ==
  ASSUME stack \in Stacks, Finite(stack), AllOfRoot, NEW th \in Threads, stack[th] = << >>,
         NEW f \in FrameType, f.async = Root, f.op # "-", stack' = [stack EXCEPT ![th] = <<f>>]
  PROVE  /\ stack' \in Stacks /\ Finite(stack') /\ AllOfRoot' /\ OthersStay(th)
         /\ Todo(th)' = <<f.op, "-", "-">> /\ Doing(th, 4)' = "-"
         /\ \A ops : Frames(ops, Root)' = Frames(ops, Root) + One(f.op \in ops)
<1>1. stack' \in Stacks /\ Finite(stack')
  BY Begins1
<1>2. stack'[th] = <<f>> /\ OthersStay(th)
  BY DEF Stacks, OthersStay
<1>3. AllOfRoot'
  BY <1>2 DEF AllOfRoot, OthersStay
<1>4. Todo(th)' = <<f.op, "-", "-">> /\ Doing(th, 4)' = "-"
  BY <1>2 DEF Todo, Doing
<1>5. \A ops : Frames(ops, Root)' = Frames(ops, Root) + One(f.op \in ops)
  <2>1. \A ops : IsOf(f, ops, Root) <=> f.op \in ops
    BY DEF IsOf
  <2> QED BY <2>1, Begins1 DEF One
<1> QED BY <1>1, <1>2, <1>3, <1>4, <1>5

\* Or with two.
LEMMA GoesIn2 ==
  ASSUME stack \in Stacks, Finite(stack), AllOfRoot, NEW th \in Threads, stack[th] = << >>,
         NEW f \in FrameType, NEW g \in FrameType,
         f.async = Root, f.op # "-", g.async = Root, g.op # "-",
         stack' = [stack EXCEPT ![th] = <<f, g>>]
  PROVE  /\ stack' \in Stacks /\ Finite(stack') /\ AllOfRoot' /\ OthersStay(th)
         /\ Todo(th)' = <<f.op, g.op, "-">> /\ Doing(th, 4)' = "-"
         /\ \A ops : Frames(ops, Root)' = Frames(ops, Root) + One(f.op \in ops) + One(g.op \in ops)
<1>1. stack' \in Stacks /\ Finite(stack')
  BY Begins2
<1>2. stack'[th] = <<f, g>> /\ OthersStay(th)
  BY DEF Stacks, OthersStay
<1>3. AllOfRoot'
  BY <1>2 DEF AllOfRoot, OthersStay
<1>4. Todo(th)' = <<f.op, g.op, "-">> /\ Doing(th, 4)' = "-"
  BY <1>2 DEF Todo, Doing
<1>5. \A ops : Frames(ops, Root)' = Frames(ops, Root) + One(f.op \in ops) + One(g.op \in ops)
  <2>1. \A ops : (IsOf(f, ops, Root) <=> f.op \in ops) /\ (IsOf(g, ops, Root) <=> g.op \in ops)
    BY DEF IsOf
  <2>2. \A ops, a : Frames(ops, a)' = Frames(ops, a) + One(IsOf(g, ops, a)) + One(IsOf(f, ops, a))
    BY Begins2
  <2>3. \A ops : Frames(ops, Root) \in Nat
    BY FramesType
  <2> QED BY <2>1, <2>2, <2>3 DEF One
<1> QED BY <1>1, <1>2, <1>3, <1>4, <1>5

-----------------------------------------------------------------------------
(* One operation on a plain socket *)

SocketCalls == {"receive", "send", "accept", "disconnect"}

-----------------------------------------------------------------------------
(* What a thread may have yet to do, three frames at most *)

\* A notification and what follows it.
Ending ==
  {<<"-", "-", "-">>, <<"notify", "-", "-">>, <<"async_notify", "-", "-">>,
   <<"release", "async_notify", "-">>, <<"destroy", "async_notify", "-">>,
   <<"callback", "release", "-">>, <<"release", "-", "-">>, <<"destroy", "-", "-">>}

\* A notification under the lock, from xf_async_enter.
LockedEnding ==
  {<<"notify", "unlock", "-">>, <<"async_notify", "unlock", "-">>,
   <<"release", "async_notify", "unlock">>, <<"destroy", "async_notify", "unlock">>,
   <<"callback", "release", "unlock">>, <<"release", "unlock", "-">>,
   <<"destroy", "unlock", "-">>, <<"unlock", "-", "-">>}

\* xf_async_new before the operation can be seen.
Birth ==
  {<<"new", "start", "-">>, <<"add_timer_ref", "start", "-">>, <<"schedule", "start", "-">>}

Calling ==
  {<<"start", "-", "-">>, <<"receive", "-", "-">>, <<"send", "-", "-">>,
   <<"send_enter", "-", "-">>, <<"disconnect", "-", "-">>, <<"accept", "-", "-">>,
   <<"acceptex", "-", "-">>}

Submitting == {<<"recv", "-", "-">>, <<"submit", "-", "-">>, <<"disconnectex", "-", "-">>}

Leaving == {<<"unlock", "release", "-">>, <<"unlock", "release", "notify">>}

IssuerPrograms ==
  Birth \union Calling \union Submitting \union Leaving \union LockedEnding \union Ending
    \union {<<"release", "notify", "-">>, <<"destroy", "notify", "-">>}

\* The poll thread holds the reference of the timer until the end.
PollerPrograms ==
  {<<"-", "-", "-">>, <<"_cancel", "release", "-">>, <<"notify", "release", "-">>,
   <<"release", "async_notify", "release">>, <<"destroy", "async_notify", "release">>,
   <<"async_notify", "release", "-">>, <<"callback", "release", "release">>,
   <<"release", "release", "-">>, <<"destroy", "release", "-">>, <<"release", "-", "-">>,
   <<"destroy", "-", "-">>}

CancellerPrograms ==
  Ending \union {<<"cancel", "-", "-">>, <<"_cancel", "-", "-">>,
                 <<"release", "_cancel", "-">>, <<"destroy", "_cancel", "-">>}

\* The packet of an accept is worked on before it is reported (TcpAccept).
WorkerPrograms == Ending \union {<<"accepted", "-", "-">>, <<"forget", "-", "-">>}

Programs(th) ==
  IF th = Issuer THEN IssuerPrograms
  ELSE IF th = Poller THEN PollerPrograms
  ELSE IF th \in Cancellers THEN CancellerPrograms
  ELSE IF th \in Workers THEN WorkerPrograms
  ELSE {<<"-", "-", "-">>}

\* The issuer is inside the operation's monitor.
Inside == Todo(Issuer) \in Submitting \union Leaving \union LockedEnding

-----------------------------------------------------------------------------
(* The inductive invariant *)

\* Nobody creates another operation.
OnlyRoot ==
  /\ AllOfRoot
  /\ \A a \in Asyncs : child[a] = None
  /\ \A a \in Asyncs \ {Root} : /\ life[a] = "none" /\ completed[a] = 0
                                 /\ timer[a] = "idle" /\ io[a] = "none"

FollowPrograms == \A th \in Threads : Todo(th) \in Programs(th) /\ Doing(th, 4) = "-"

\* Only the issuer takes the monitor for more than a step, and it is never
\* cancelled between its check in xf_async_enter and its socket call.
MonitorHeld ==
  /\ lock[Root] = IF Inside THEN [owner |-> Issuer, depth |-> 1] ELSE [owner |-> None, depth |-> 0]
  /\ Todo(Issuer) \in Submitting => ~canceled[Root]
  /\ Todo(Issuer) \in LockedEnding => canceled[Root]

\* Nobody else knows the operation before xf_async_new has returned it.
Unseen ==
  /\ life[Root] = "none" <=> Doing(Issuer, 1) = "new"
  /\ Todo(Issuer) \in Birth =>
       /\ \A th \in Threads \ {Issuer} : stack[th] = << >>
       /\ asked = {} /\ ~called[Root] /\ ~canceled[Root] /\ timer[Root] = "idle"
       /\ io[Root] = "none" /\ completed[Root] = 0
  /\ \A th \in Cancellers \ asked : stack[th] = << >>

\* The callback that is owed is on a stack until it has run; an operation that is
\* being destroyed is destroyed by one thread, after its callback, and nobody has
\* a reference to it.
Owed ==
  /\ life[Root] = "live" =>
       ref[Root] = One(~called[Root]) + One(timer[Root] = "armed") + Frames(Holding, Root)
  /\ life[Root] = "none" => Frames(Holding, Root) = 0
  /\ Frames({"callback"}, Root) + completed[Root] = One(called[Root])
  /\ Frames({"destroy"}, Root) + One(life[Root] = "freed") <= 1
  /\ Frames({"destroy"}, Root) > 0 \/ life[Root] = "freed" =>
       called[Root] /\ completed[Root] = 1 /\ Frames(Holding, Root) = 0 /\ timer[Root] # "armed"

\* Who is going to end the operation: the issuer that starts the call or sees it
\* fail, the kernel or the port that has it, a thread that notifies; or it has
\* been ended.
Starting == {"start", "receive", "send", "send_enter", "recv", "submit",
             "disconnect", "disconnectex", "accept", "acceptex"}

Reporting == {"accepted", "forget", "notify", "async_notify"}

Ends == Frames(Starting, Root) + Frames(Reporting, Root)
          + One(io[Root] \in {"pending", "queued"}) + One(called[Root])

\* As long as no cancellation has notified by itself, there is one of them.  (One
\* that came before the call was started made the issuer notify, except in accept.)
EndsOnce ==
  /\ Frames(Starting, Root) + One(io[Root] # "none") <= 1
  /\ \/ ~canceled[Root]
     \/ io[Root] # "none" /\ ~missed[Root] /\ ~(early[Root] /\ io_type[Root] = "accept")
     => Ends = 1

\* What _cancel finds: a receive, send or accept that is pending can be aborted.
Abortable ==
  /\ io[Root] = "none" => ~missed[Root]
  /\ io[Root] = "pending" /\ io_type[Root] \in {"receive", "send", "accept"} =>
       handle[Root] /\ ~missed[Root]
  /\ Doing(Issuer, 1) \in {"send_enter", "submit"} => handle[Root] /\ io_type[Root] = "send"
  /\ Doing(Issuer, 1) = "acceptex" => handle[Root] /\ io_type[Root] = "accept"

\* Once its call has started the issuer only leaves; the workers wait for it.
CallStarted ==
  /\ io[Root] # "none" =>
       Todo(Issuer) \in {<<"unlock", "release", "-">>, <<"release", "-", "-">>,
                         <<"destroy", "-", "-">>, <<"-", "-", "-">>}
  /\ io[Root] = "none" => \A w \in Workers : stack[w] = << >>

IInv ==
  /\ TypeOK
  /\ Finite(stack)
  /\ OnlyRoot
  /\ FollowPrograms
  /\ MonitorHeld
  /\ Unseen
  /\ Owed
  /\ EndsOnce
  /\ Abortable
  /\ CallStarted
  /\ LateUsesConfined

-----------------------------------------------------------------------------
(* Steps *)

\* What is known when thread th executes a frame.
LEMMA Known ==
  ASSUME IInv, NEW th \in Threads, NEW op, At(th, op, Root)
  PROVE  /\ stale = {} /\ stack[th] # << >> /\ Doing(th, 1) = op
         /\ stack \in Stacks /\ Todo(th) \in Programs(th) /\ Doing(th, 4) = "-"
         /\ \A ops : Frames(ops, Root) \in Nat /\ (op \in ops => Frames(ops, Root) >= 1)
         /\ op \notin Outside \union {"new"} => life[Root] = "live"
<1>1. stack \in Stacks /\ stack[th] # << >> /\ stale = {} /\ AllOfRoot /\ Finite(stack)
  BY DEF IInv, TypeOK, Stacks, At, OnlyRoot
<1>2. Doing(th, 1) = op
  BY <1>1, DoingType DEF At
<1>3. \A ops : Frames(ops, Root) \in Nat
  BY <1>1, FramesType
<1>4. ASSUME NEW ops, op \in ops PROVE Frames(ops, Root) >= 1
  <2>1. 1 \in DOMAIN stack[th] /\ Head(stack[th]) = stack[th][1]
    BY <1>1 DEF Stacks
  <2>2. IsOf(stack[th][1], ops, Root)
    BY <2>1, <1>4 DEF IsOf, At
  <2>3. Frames(ops, Root) # 0
    BY <2>1, <2>2, <1>1, NoFrames
  <2> QED BY <2>3, <1>3
<1>5. op \notin Outside \union {"new"} => life[Root] = "live"
  BY AsyncAssumption DEF At, Uses, Asyncs
<1> QED BY <1>1, <1>2, <1>3, <1>4, <1>5 DEF IInv, FollowPrograms

\* Frames of Root are frames.
LEMMA FrameTypes ==
  ASSUME NEW op \in Operations
  PROVE  /\ Frame(op, Root) \in FrameType /\ Success(op, Root) \in FrameType
         /\ Frame(op, Root).op = op /\ Success(op, Root).op = op
         /\ Frame(op, Root).async = Root /\ Success(op, Root).async = Root
BY DEF Frame, Success, FrameType, Asyncs

\* So are those that carry a result.
LEMMA CarryTypes ==
  ASSUME IInv, NEW th \in Threads, stack[th] # << >>, NEW op \in Operations
  PROVE  Carry(th, op, Root) \in FrameType /\ Carry(th, op, Root).op = op
         /\ Carry(th, op, Root).async = Root
<1>1. Head(stack[th]) \in FrameType
  BY DEF IInv, TypeOK
<1> QED BY <1>1 DEF Carry, Frame, FrameType, Asyncs

\* The threads that stand still have the same programs.
LEMMA OthersFollow ==
  ASSUME IInv, NEW th \in Threads, OthersStay(th),
         Todo(th)' \in Programs(th) /\ Doing(th, 4)' = "-"
  PROVE  FollowPrograms'
<1>1. ASSUME NEW other \in Threads \ {th}
      PROVE  Todo(other)' \in Programs(other) /\ Doing(other, 4)' = "-"
  BY StaysSame DEF OthersStay, IInv, FollowPrograms
<1> QED BY <1>1 DEF FollowPrograms, Programs

\* xf_async_notify takes the timer's reference, if there is one.
LEMMA NotifyPreserves ==
  ASSUME IInv, NEW th \in Threads, Notify(th, Root)
  PROVE  IInv'
<1> DEFINE armed == timer[Root] = "armed"
           f == Carry(th, "async_notify", Root)
           r == Frame("release", Root)
<1>1. /\ stale = {} /\ stack[th] # << >> /\ Doing(th, 1) = "notify" /\ life[Root] = "live"
      /\ stack \in Stacks /\ Todo(th) \in Programs(th) /\ Doing(th, 4) = "-"
      /\ \A ops : Frames(ops, Root) \in Nat /\ ("notify" \in ops => Frames(ops, Root) >= 1)
  BY Known DEF Notify, Outside
<1>2. /\ f \in FrameType /\ f.op = "async_notify" /\ f.async = Root
      /\ r \in FrameType /\ r.op = "release" /\ r.async = Root
  <2>1. f \in FrameType /\ f.op = "async_notify" /\ f.async = Root
    BY <1>1, CarryTypes DEF Operations
  <2>2. r \in FrameType /\ r.op = "release" /\ r.async = Root
    BY FrameTypes DEF Operations
  <2> QED BY <2>1, <2>2
<1>3. Doing(th, 3) = "-"
  BY <1>1 DEF Todo, Programs, IssuerPrograms, PollerPrograms, CancellerPrograms, WorkerPrograms,
     Ending, LockedEnding, Birth, Calling, Submitting, Leaving
<1>4. /\ stack' \in Stacks /\ Finite(stack') /\ AllOfRoot' /\ OthersStay(th)
      /\ Todo(th)' = IF armed THEN <<"release", "async_notify", Doing(th, 2)>>
                     ELSE <<"async_notify", Doing(th, 2), "-">>
      /\ Doing(th, 4)' = "-"
      /\ \A ops : Frames(ops, Root)' = Frames(ops, Root) - One("notify" \in ops)
                     + One(armed /\ "release" \in ops) + One("async_notify" \in ops)
  <2> USE DEF IInv, OnlyRoot, One
  <2>1. CASE armed
    <3>1. Call(th, <<r, f>>)
      <4>1. <<r>> \o <<f>> = <<r, f>>
        BY Tuples
      <4> QED BY <2>1, <4>1 DEF Notify, CancelTimerThen
    <3> HIDE DEF f, r
    <3> QED BY <1>1, <1>2, <1>3, <2>1, <3>1, GoesOn2
  <2>2. CASE ~armed
    <3>1. Call(th, <<f>>)
      BY <2>2 DEF Notify, CancelTimerThen
    <3> HIDE DEF f
    <3> QED BY <1>1, <1>2, <1>3, <2>2, <3>1, GoesOn1
  <2> QED BY <2>1, <2>2
<1>5. /\ timer' = [timer EXCEPT ![Root] = IF @ = "armed" THEN "gone" ELSE @]
      /\ UNCHANGED <<life, ref, lock, canceled, called, child, handle, io_type, io,
                     completed, missed, early, asked, stale>>
  BY DEF Notify, CancelTimerThen, request, rest, history
<1> HIDE DEF f, r
<1>6. TypeOK'
  BY <1>4, <1>5 DEF IInv, TypeOK, Stacks
<1>7. OnlyRoot'
  BY <1>4, <1>5 DEF IInv, OnlyRoot
<1>8. FollowPrograms'
  <2>1. Todo(th)' \in Programs(th)
    BY <1>1, <1>3, <1>4 DEF Todo, Programs, IssuerPrograms, PollerPrograms, CancellerPrograms, WorkerPrograms,
       Ending, LockedEnding, Birth, Calling, Submitting, Leaving
  <2> QED BY <1>4, <2>1, OthersFollow
<1>9. /\ Frames(Holding, Root)' = Frames(Holding, Root) + One(armed)
      /\ Frames({"callback"}, Root)' = Frames({"callback"}, Root)
      /\ Frames({"destroy"}, Root)' = Frames({"destroy"}, Root)
      /\ Frames(Starting, Root)' = Frames(Starting, Root)
      /\ Frames(Reporting, Root)' = Frames(Reporting, Root)
  <2>1. Frames(Holding, Root)' = Frames(Holding, Root) + One(armed)
    BY <1>1, <1>4 DEF Holding, One
  <2>2. Frames({"callback"}, Root)' = Frames({"callback"}, Root)
    BY <1>1, <1>4 DEF One
  <2>3. Frames({"destroy"}, Root)' = Frames({"destroy"}, Root)
    BY <1>1, <1>4 DEF One
  <2>4. Frames(Starting, Root)' = Frames(Starting, Root)
    BY <1>1, <1>4 DEF Starting, One
  <2>5. Frames(Reporting, Root)' = Frames(Reporting, Root)
    BY <1>1, <1>4 DEF Reporting, One
  <2> QED BY <2>1, <2>2, <2>3, <2>4, <2>5
<1>10. /\ th # Issuer => Todo(Issuer)' = Todo(Issuer) /\ Doing(Issuer, 1)' = Doing(Issuer, 1)
       /\ th = Issuer => Todo(Issuer) \in {<<"notify", "-", "-">>, <<"notify", "unlock", "-">>}
       /\ th = Issuer => Doing(Issuer, 1)' \in {"release", "async_notify"}
  <2>1. th # Issuer => Todo(Issuer)' = Todo(Issuer) /\ Doing(Issuer, 1)' = Doing(Issuer, 1)
    BY <1>4, StaysSame DEF OthersStay, Threads
  <2>2. th = Issuer => Todo(Issuer) \in {<<"notify", "-", "-">>, <<"notify", "unlock", "-">>}
    BY <1>1 DEF Todo, Programs, IssuerPrograms,
       Ending, LockedEnding, Birth, Calling, Submitting, Leaving
  <2>3. Doing(th, 1)' \in {"release", "async_notify"}
    BY <1>4 DEF Todo
  <2> QED BY <2>1, <2>2, <2>3
<1>11. MonitorHeld'
  BY <1>1, <1>3, <1>4, <1>5, <1>10 DEF IInv, MonitorHeld, Inside, Todo,
     Ending, LockedEnding, Submitting, Leaving
<1>12. Unseen'
  BY <1>1, <1>4, <1>5, <1>10 DEF IInv, Unseen, Birth, OthersStay, Threads
<1>13. Owed'
  <2>1. timer'[Root] = IF timer[Root] = "armed" THEN "gone" ELSE timer[Root]
    BY <1>5 DEF IInv, TypeOK, Asyncs
  <2>2. Owed
    BY DEF IInv
  <2> QED BY <1>1, <1>5, <1>9, <2>1, <2>2 DEF Owed, One
<1>14. EndsOnce'
  BY <1>1, <1>5, <1>9 DEF IInv, EndsOnce, Ends
<1>15. Abortable'
  BY <1>1, <1>5, <1>10 DEF IInv, Abortable
<1>16. CallStarted'
  BY <1>1, <1>4, <1>5, <1>10 DEF IInv, CallStarted, OthersStay, Threads
<1>17. LateUsesConfined'
  BY <1>1, <1>5 DEF LateUsesConfined
<1> QED BY <1>4, <1>6, <1>7, <1>8, <1>11, <1>12, <1>13, <1>14, <1>15, <1>16, <1>17 DEF IInv

\* Only the issuer starts calls, and it has nothing else to do then.
LEMMA Starter ==
  ASSUME IInv, NEW th \in Threads, Doing(th, 1) \in Starting
  PROVE  th = Issuer /\ Todo(Issuer) = <<Doing(Issuer, 1), "-", "-">>
<1>1. Todo(th) \in Programs(th)
  BY DEF IInv, FollowPrograms
<1>2. th = Issuer
  BY <1>1 DEF Starting, Todo, Programs, PollerPrograms, CancellerPrograms, WorkerPrograms, Ending
<1>3. Todo(Issuer) = <<Doing(Issuer, 1), "-", "-">>
  BY <1>1, <1>2 DEF Starting, Todo, Programs, IssuerPrograms,
     Ending, LockedEnding, Birth, Calling, Submitting, Leaving
<1> QED BY <1>2, <1>3

\* The issuer goes on to its next call, or to the report that it has failed.
LEMMA MovesOnPreserves ==
  ASSUME IInv, NEW op \in Starting \ {"recv", "submit", "disconnectex"},
         NEW new \in {"receive", "send", "send_enter", "disconnect", "accept", "acceptex", "notify"},
         At(Issuer, op, Root), Call(Issuer, <<Frame(new, Root)>>),
         handle' \in [Asyncs -> BOOLEAN], io_type' \in [Asyncs -> {"phase1", "phase2",
           "receive", "send", "accept", "disconnect"}],
         new = "send_enter" => handle'[Root] /\ io_type'[Root] = "send",
         new = "acceptex" => handle'[Root] /\ io_type'[Root] = "accept",
         early' \in [Asyncs -> BOOLEAN],
         UNCHANGED <<life, ref, lock, canceled, called, child, timer, io, completed, missed,
                     asked, stale>>
  PROVE  IInv'
<1> DEFINE f == Frame(new, Root)
<1>1. /\ stale = {} /\ stack[Issuer] # << >> /\ life[Root] = "live" /\ stack \in Stacks
      /\ Doing(Issuer, 1) = op /\ Todo(Issuer) = <<op, "-", "-">> /\ Doing(Issuer, 4) = "-"
      /\ \A ops : Frames(ops, Root) \in Nat /\ (op \in ops => Frames(ops, Root) >= 1)
  <2>1. op \notin Outside \union {"new"} /\ Issuer \in Threads
    BY DEF Starting, Outside, Threads
  <2> QED BY <2>1, Known, Starter
<1>2. f \in FrameType /\ f.op = new /\ f.async = Root
  BY FrameTypes DEF Operations
<1>3. /\ Doing(Issuer, 2) = "-" /\ Doing(Issuer, 3) = "-" /\ io[Root] = "none"
      /\ Todo(Issuer) \notin Submitting \union Leaving \union LockedEnding
  BY <1>1 DEF Todo, IInv, CallStarted, Starting, Submitting, Leaving, LockedEnding
<1>4. /\ stack' \in Stacks /\ Finite(stack') /\ AllOfRoot' /\ OthersStay(Issuer)
      /\ Todo(Issuer)' = <<new, "-", "-">> /\ Doing(Issuer, 4)' = "-" /\ Doing(Issuer, 1)' = new
      /\ \A ops : Frames(ops, Root)' = Frames(ops, Root) - One(op \in ops) + One(new \in ops)
  <2>1. Call(Issuer, <<f>>) /\ Issuer \in Threads /\ Finite(stack) /\ AllOfRoot
    BY DEF IInv, OnlyRoot, Threads
  <2> HIDE DEF f
  <2>2. /\ stack' \in Stacks /\ Finite(stack') /\ AllOfRoot' /\ OthersStay(Issuer)
        /\ Todo(Issuer)' = <<f.op, "-", "-">> /\ Doing(Issuer, 4)' = "-"
        /\ \A ops : Frames(ops, Root)' = Frames(ops, Root) - One(op \in ops) + One(f.op \in ops)
    BY <2>1, <1>1, <1>2, <1>3, GoesOn1
  <2> QED BY <1>2, <2>2 DEF Todo
<1>5. /\ UNCHANGED <<life, ref, lock, canceled, called, child, timer, io,
                     completed, missed, asked, stale>>
      /\ Issuer \in Threads /\ early' \in [Asyncs -> BOOLEAN]
  BY DEF Threads
<1> HIDE DEF f
<1>6. /\ Frames(Holding, Root)' = Frames(Holding, Root)
      /\ Frames({"callback"}, Root)' = Frames({"callback"}, Root)
      /\ Frames({"destroy"}, Root)' = Frames({"destroy"}, Root)
      /\ Frames(Starting, Root)' = Frames(Starting, Root) - One(new = "notify")
      /\ Frames(Reporting, Root)' = Frames(Reporting, Root) + One(new = "notify")
      /\ Frames(Starting, Root) >= 1
  <2>1. Frames(Holding, Root)' = Frames(Holding, Root)
    BY <1>1, <1>4 DEF Starting, Holding, One
  <2>2. Frames({"callback"}, Root)' = Frames({"callback"}, Root)
    BY <1>1, <1>4 DEF Starting, One
  <2>3. Frames({"destroy"}, Root)' = Frames({"destroy"}, Root)
    BY <1>1, <1>4 DEF Starting, One
  <2>4. Frames(Starting, Root)' = Frames(Starting, Root) - One(new = "notify")
    BY <1>1, <1>4 DEF Starting, One
  <2>5. Frames(Reporting, Root)' = Frames(Reporting, Root) + One(new = "notify")
    BY <1>1, <1>4 DEF Starting, Reporting, One
  <2>6. Frames(Starting, Root) >= 1
    BY <1>1, <1>4 DEF Starting, One
  <2> QED BY <2>1, <2>2, <2>3, <2>4, <2>5, <2>6
<1>7. TypeOK'
  BY <1>4, <1>5 DEF IInv, TypeOK, Stacks
<1>8. OnlyRoot'
  BY <1>1, <1>2, <1>3, <1>4, <1>5, <1>6 DEF IInv, OnlyRoot
<1>9. FollowPrograms'
  <2>1. Todo(Issuer)' \in Programs(Issuer)
    BY <1>1, <1>2, <1>3, <1>4, <1>5, <1>6 DEF Programs, IssuerPrograms, Ending, LockedEnding,
       Calling, Submitting, Leaving
  <2> QED BY <1>4, <1>5, <2>1, OthersFollow
<1>10. MonitorHeld'
  BY <1>1, <1>2, <1>3, <1>4, <1>5, <1>6 DEF IInv, MonitorHeld, Inside,
     Ending, LockedEnding, Submitting, Leaving
<1>11. Unseen'
  BY <1>1, <1>2, <1>3, <1>4, <1>5, <1>6 DEF IInv, Unseen, Birth, OthersStay, Threads
<1>12. Owed'
  BY <1>1, <1>5, <1>6 DEF IInv, TypeOK, Owed, One, Asyncs
<1>13. EndsOnce'
  BY <1>1, <1>5, <1>6 DEF IInv, EndsOnce, Ends, One
<1>14. Abortable'
  BY <1>1, <1>2, <1>3, <1>4, <1>5, <1>6 DEF IInv, Abortable
<1>15. CallStarted'
  BY <1>1, <1>2, <1>3, <1>4, <1>5, <1>6 DEF IInv, CallStarted, OthersStay, Threads
<1>16. LateUsesConfined'
  BY <1>1, <1>2, <1>3, <1>4, <1>5, <1>6 DEF LateUsesConfined
<1> QED BY <1>4, <1>7, <1>8, <1>9, <1>10, <1>11, <1>12, <1>13, <1>14, <1>15, <1>16 DEF IInv

\* xf_async_enter finds the operation cancelled and notifies, inside the monitor.
LEMMA EnterCanceledPreserves ==
  ASSUME IInv, NEW op, NEW next,
         <<op, next>> \in {<<"receive", "recv">>, <<"send_enter", "submit">>,
                          <<"disconnect", "disconnectex">>},
         At(Issuer, op, Root), AsyncEnter(Issuer, Root, next), canceled[Root],
         UNCHANGED <<life, canceled, called, child, request, timer, io, rest>>
  PROVE  IInv'
<1> DEFINE f == Frame("notify", Root)
           g == Frame("unlock", Root)
<1>1. /\ stale = {} /\ stack[Issuer] # << >> /\ life[Root] = "live" /\ stack \in Stacks
      /\ Doing(Issuer, 1) = op /\ Todo(Issuer) = <<op, "-", "-">> /\ Doing(Issuer, 4) = "-"
      /\ \A ops : Frames(ops, Root) \in Nat /\ (op \in ops => Frames(ops, Root) >= 1)
  <2>1. op \notin Outside \union {"new"} /\ op \in Starting /\ Issuer \in Threads
    BY DEF Starting, Outside, Threads
  <2> QED BY <2>1, Known, Starter
<1>2. /\ f \in FrameType /\ f.op = "notify" /\ f.async = Root
      /\ g \in FrameType /\ g.op = "unlock" /\ g.async = Root
  BY FrameTypes DEF Operations
<1>3. /\ Doing(Issuer, 2) = "-" /\ Doing(Issuer, 3) = "-" /\ io[Root] = "none"
      /\ lock[Root] = [owner |-> None, depth |-> 0] /\ op \in Starting
      /\ \/ op = "receive" /\ next = "recv"
         \/ op = "send_enter" /\ next = "submit"
         \/ op = "disconnect" /\ next = "disconnectex"
  BY <1>1 DEF Todo, IInv, MonitorHeld, Inside, Submitting, Leaving, LockedEnding, CallStarted,
     Starting
<1>4. /\ stack' \in Stacks /\ Finite(stack') /\ AllOfRoot' /\ OthersStay(Issuer)
      /\ Todo(Issuer)' = <<"notify", "unlock", "-">> /\ Doing(Issuer, 4)' = "-"
      /\ \A ops : Frames(ops, Root)' = Frames(ops, Root) - One(op \in ops)
                     + One("notify" \in ops) + One("unlock" \in ops)
  <2>1. Issuer \in Threads /\ Finite(stack) /\ AllOfRoot
    BY DEF IInv, OnlyRoot, Threads
  <2>2. Call(Issuer, <<f, g>>)
    BY DEF AsyncEnter
  <2> HIDE DEF f, g
  <2> QED BY <2>1, <2>2, <1>1, <1>2, <1>3, GoesOn2
<1>5. /\ lock' = [lock EXCEPT ![Root] = [owner |-> Issuer, depth |-> 1]]
      /\ UNCHANGED ref
      /\ UNCHANGED <<life, canceled, called, child, handle, io_type, timer, io,
                     completed, missed, early, asked, stale>>
      /\ Issuer \in Threads
  BY <1>3 DEF AsyncEnter, Enter, request, rest, history, Threads
<1> HIDE DEF f, g
<1>6. /\ Frames(Holding, Root)' = Frames(Holding, Root)
      /\ Frames({"callback"}, Root)' = Frames({"callback"}, Root)
      /\ Frames({"destroy"}, Root)' = Frames({"destroy"}, Root)
      /\ Frames(Starting, Root)' = Frames(Starting, Root) - 1
      /\ Frames(Reporting, Root)' = Frames(Reporting, Root) + 1
      /\ Frames(Starting, Root) >= 1
      /\ Doing(Issuer, 1)' = "notify"
  <2>1. Doing(Issuer, 1)' = "notify"
    BY <1>4 DEF Todo
  <2>2. Frames(Holding, Root)' = Frames(Holding, Root)
    BY <1>1, <1>3, <1>4 DEF Holding, Starting, One
  <2>3. Frames({"callback"}, Root)' = Frames({"callback"}, Root)
    BY <1>1, <1>3, <1>4 DEF Starting, One
  <2>4. Frames({"destroy"}, Root)' = Frames({"destroy"}, Root)
    BY <1>1, <1>3, <1>4 DEF Starting, One
  <2>5. Frames(Starting, Root)' = Frames(Starting, Root) - 1
    BY <1>1, <1>3, <1>4 DEF Starting, One
  <2>6. Frames(Reporting, Root)' = Frames(Reporting, Root) + 1
    BY <1>1, <1>3, <1>4 DEF Starting, Reporting, One
  <2>7. Frames(Starting, Root) >= 1
    BY <1>1, <1>3, <1>4 DEF Starting, One
  <2> QED BY <2>1, <2>2, <2>3, <2>4, <2>5, <2>6, <2>7
<1>7. TypeOK'
  <2>1. lock' \in [Asyncs -> [owner : Threads \union {None}, depth : Nat]]
    BY <1>5 DEF IInv, TypeOK
  <2>2. ref' \in [Asyncs -> Nat]
    BY <1>5 DEF IInv, TypeOK, Asyncs
  <2> QED BY <1>4, <1>5, <2>1, <2>2 DEF IInv, TypeOK, Stacks
<1>8. OnlyRoot'
  BY <1>1, <1>2, <1>3, <1>4, <1>5, <1>6 DEF IInv, OnlyRoot
<1>9. FollowPrograms'
  <2>1. Todo(Issuer)' \in Programs(Issuer)
    BY <1>1, <1>2, <1>3, <1>4, <1>5, <1>6 DEF Programs, IssuerPrograms, Ending, LockedEnding,
       Calling, Submitting, Leaving
  <2> QED BY <1>4, <1>5, <2>1, OthersFollow
<1>10. MonitorHeld'
  <2>1. lock'[Root] = [owner |-> Issuer, depth |-> 1]
    BY <1>5 DEF IInv, TypeOK, Asyncs
  <2> QED BY <1>1, <1>2, <1>3, <1>4, <1>5, <1>6, <2>1 DEF IInv, MonitorHeld, Inside,
       Ending, LockedEnding, Submitting, Leaving
<1>11. Unseen'
  BY <1>1, <1>2, <1>3, <1>4, <1>5, <1>6 DEF IInv, Unseen, Birth, OthersStay, Threads
<1>12. Owed'
  <2>1. ref'[Root] = ref[Root] /\ ref[Root] \in Nat
    BY <1>5 DEF IInv, TypeOK, Asyncs
  <2> QED BY <1>1, <1>5, <1>6, <2>1 DEF IInv, Owed, One
<1>13. EndsOnce'
  BY <1>1, <1>5, <1>6 DEF IInv, EndsOnce, Ends, One
<1>14. Abortable'
  BY <1>1, <1>2, <1>3, <1>4, <1>5, <1>6 DEF IInv, Abortable
<1>15. CallStarted'
  BY <1>1, <1>2, <1>3, <1>4, <1>5, <1>6 DEF IInv, CallStarted, OthersStay, Threads
<1>16. LateUsesConfined'
  BY <1>1, <1>2, <1>3, <1>4, <1>5, <1>6 DEF LateUsesConfined
<1> QED BY <1>4, <1>7, <1>8, <1>9, <1>10, <1>11, <1>12, <1>13, <1>14, <1>15, <1>16 DEF IInv

\* xf_async_enter: from here on the issuer is inside the monitor and has a reference.
LEMMA EnterPreserves ==
  ASSUME IInv, NEW op, NEW next,
         <<op, next>> \in {<<"receive", "recv">>, <<"send_enter", "submit">>,
                          <<"disconnect", "disconnectex">>},
         At(Issuer, op, Root), AsyncEnter(Issuer, Root, next), ~canceled[Root],
         UNCHANGED <<life, canceled, called, child, request, timer, io, rest>>
  PROVE  IInv'
<1> DEFINE f == Frame(next, Root)
<1>1. /\ stale = {} /\ stack[Issuer] # << >> /\ life[Root] = "live" /\ stack \in Stacks
      /\ Doing(Issuer, 1) = op /\ Todo(Issuer) = <<op, "-", "-">> /\ Doing(Issuer, 4) = "-"
      /\ \A ops : Frames(ops, Root) \in Nat /\ (op \in ops => Frames(ops, Root) >= 1)
  <2>1. op \notin Outside \union {"new"} /\ op \in Starting /\ Issuer \in Threads
    BY DEF Starting, Outside, Threads
  <2> QED BY <2>1, Known, Starter
<1>2. f \in FrameType /\ f.op = next /\ f.async = Root
  <2>1. next \in Operations
    BY DEF Operations
  <2> QED BY <2>1, FrameTypes
<1>3. /\ Doing(Issuer, 2) = "-" /\ Doing(Issuer, 3) = "-" /\ io[Root] = "none"
      /\ lock[Root] = [owner |-> None, depth |-> 0] /\ op \in Starting
      /\ \/ op = "receive" /\ next = "recv"
         \/ op = "send_enter" /\ next = "submit"
         \/ op = "disconnect" /\ next = "disconnectex"
  BY <1>1 DEF Todo, IInv, MonitorHeld, Inside, Submitting, Leaving, LockedEnding, CallStarted,
     Starting
<1>4. /\ stack' \in Stacks /\ Finite(stack') /\ AllOfRoot' /\ OthersStay(Issuer)
      /\ Todo(Issuer)' = <<next, "-", "-">> /\ Doing(Issuer, 4)' = "-"
      /\ \A ops : Frames(ops, Root)' = Frames(ops, Root) - One(op \in ops)
                     + One(next \in ops)
  <2>1. Issuer \in Threads /\ Finite(stack) /\ AllOfRoot
    BY DEF IInv, OnlyRoot, Threads
  <2>2. Call(Issuer, <<f>>)
    BY DEF AsyncEnter
  <2> HIDE DEF f
  <2> QED BY <2>1, <2>2, <1>1, <1>2, <1>3, GoesOn1
<1>5. /\ lock' = [lock EXCEPT ![Root] = [owner |-> Issuer, depth |-> 1]]
      /\ ref' = [ref EXCEPT ![Root] = @ + 1]
      /\ UNCHANGED <<life, canceled, called, child, handle, io_type, timer, io,
                     completed, missed, early, asked, stale>>
      /\ Issuer \in Threads
  BY <1>3 DEF AsyncEnter, Enter, request, rest, history, Threads
<1> HIDE DEF f
<1>6. /\ Frames(Holding, Root)' = Frames(Holding, Root) + 1
      /\ Frames({"callback"}, Root)' = Frames({"callback"}, Root)
      /\ Frames({"destroy"}, Root)' = Frames({"destroy"}, Root)
      /\ Frames(Starting, Root)' = Frames(Starting, Root)
      /\ Frames(Reporting, Root)' = Frames(Reporting, Root)
      /\ Frames(Starting, Root) >= 1
      /\ Doing(Issuer, 1)' = next
  <2>1. Doing(Issuer, 1)' = next
    BY <1>4 DEF Todo
  <2> QED BY <1>1, <1>3, <1>4, <2>1, SMTT(30) DEF Holding, Starting, Reporting, One
<1>7. TypeOK'
  <2>1. lock' \in [Asyncs -> [owner : Threads \union {None}, depth : Nat]]
    BY <1>5 DEF IInv, TypeOK
  <2>2. ref' \in [Asyncs -> Nat]
    BY <1>5 DEF IInv, TypeOK, Asyncs
  <2> QED BY <1>4, <1>5, <2>1, <2>2 DEF IInv, TypeOK, Stacks
<1>8. OnlyRoot'
  BY <1>1, <1>2, <1>3, <1>4, <1>5, <1>6 DEF IInv, OnlyRoot
<1>9. FollowPrograms'
  <2>1. Todo(Issuer)' \in Programs(Issuer)
    BY <1>1, <1>2, <1>3, <1>4, <1>5, <1>6 DEF Programs, IssuerPrograms, Ending, LockedEnding,
       Calling, Submitting, Leaving
  <2> QED BY <1>4, <1>5, <2>1, OthersFollow
<1>10. MonitorHeld'
  <2>1. lock'[Root] = [owner |-> Issuer, depth |-> 1]
    BY <1>5 DEF IInv, TypeOK, Asyncs
  <2> QED BY <1>1, <1>2, <1>3, <1>4, <1>5, <1>6, <2>1 DEF IInv, MonitorHeld, Inside,
       Ending, LockedEnding, Submitting, Leaving
<1>11. Unseen'
  BY <1>1, <1>2, <1>3, <1>4, <1>5, <1>6 DEF IInv, Unseen, Birth, OthersStay, Threads
<1>12. Owed'
  <2>1. ref'[Root] = ref[Root] + 1 /\ ref[Root] \in Nat
    BY <1>5 DEF IInv, TypeOK, Asyncs
  <2>2. Owed
    BY DEF IInv
  <2>3. ~called[Root]
    BY <1>1, <1>6 DEF IInv, EndsOnce, Ends, One
  <2> QED BY <1>1, <1>5, <1>6, <2>1, <2>2, <2>3 DEF Owed, One
<1>13. EndsOnce'
  BY <1>1, <1>5, <1>6 DEF IInv, EndsOnce, Ends, One
<1>14. Abortable'
  BY <1>1, <1>2, <1>3, <1>4, <1>5, <1>6 DEF IInv, Abortable
<1>15. CallStarted'
  BY <1>1, <1>2, <1>3, <1>4, <1>5, <1>6 DEF IInv, CallStarted, OthersStay, Threads
<1>16. LateUsesConfined'
  BY <1>1, <1>2, <1>3, <1>4, <1>5, <1>6 DEF LateUsesConfined
<1> QED BY <1>4, <1>7, <1>8, <1>9, <1>10, <1>11, <1>12, <1>13, <1>14, <1>15, <1>16 DEF IInv

\* The socket call starts: the issuer leaves the monitor.
LEMMA SubmitPreserves ==
  ASSUME IInv, NEW op \in {"recv", "submit", "disconnectex"}, At(Issuer, op, Root),
         handle' \in [Asyncs -> BOOLEAN], io_type' \in [Asyncs -> {"phase1", "phase2",
           "receive", "send", "accept", "disconnect"}],
         io_type'[Root] \in {"receive", "send"} => handle'[Root], io_type'[Root] # "accept",
         Call(Issuer, AsyncLeave(Root)), io' = [io EXCEPT ![Root] = "pending"],
         UNCHANGED <<life, ref, lock, canceled, called, child, timer, rest>>
  PROVE  IInv'
<1> DEFINE f == Frame("unlock", Root)
           g == Frame("release", Root)
<1>1. /\ stale = {} /\ stack[Issuer] # << >> /\ life[Root] = "live" /\ stack \in Stacks
      /\ Doing(Issuer, 1) = op /\ Todo(Issuer) = <<op, "-", "-">> /\ Doing(Issuer, 4) = "-"
      /\ \A ops : Frames(ops, Root) \in Nat /\ (op \in ops => Frames(ops, Root) >= 1)
  <2>1. op \notin Outside \union {"new"} /\ op \in Starting /\ Issuer \in Threads
    BY DEF Starting, Outside, Threads
  <2> QED BY <2>1, Known, Starter
<1>2. /\ f \in FrameType /\ f.op = "unlock" /\ f.async = Root
      /\ g \in FrameType /\ g.op = "release" /\ g.async = Root
  BY FrameTypes DEF Operations
<1>3. /\ Doing(Issuer, 2) = "-" /\ Doing(Issuer, 3) = "-" /\ io[Root] = "none"
      /\ op \in Starting /\ Todo(Issuer) \in Submitting /\ ~canceled[Root]
  BY <1>1 DEF Todo, IInv, MonitorHeld, Submitting, CallStarted, Starting
<1>4. /\ stack' \in Stacks /\ Finite(stack') /\ AllOfRoot' /\ OthersStay(Issuer)
      /\ Todo(Issuer)' = <<"unlock", "release", "-">> /\ Doing(Issuer, 4)' = "-"
      /\ \A ops : Frames(ops, Root)' = Frames(ops, Root) - One(op \in ops)
                     + One("unlock" \in ops) + One("release" \in ops)
  <2>1. Issuer \in Threads /\ Finite(stack) /\ AllOfRoot
    BY DEF IInv, OnlyRoot, Threads
  <2>2. Call(Issuer, <<f, g>>)
    BY DEF AsyncLeave
  <2> HIDE DEF f, g
  <2> QED BY <2>1, <2>2, <1>1, <1>2, <1>3, GoesOn2
<1>5. /\ UNCHANGED <<life, ref, lock, canceled, called, child, timer,
                     completed, missed, early, asked, stale>>
      /\ Issuer \in Threads /\ io'[Root] = "pending" /\ io' = [io EXCEPT ![Root] = "pending"]
  BY DEF rest, history, Threads, IInv, TypeOK, Asyncs
<1> HIDE DEF f, g
<1>6. /\ Frames(Holding, Root)' = Frames(Holding, Root)
      /\ Frames({"callback"}, Root)' = Frames({"callback"}, Root)
      /\ Frames({"destroy"}, Root)' = Frames({"destroy"}, Root)
      /\ Frames(Starting, Root)' = Frames(Starting, Root) - 1
      /\ Frames(Reporting, Root)' = Frames(Reporting, Root)
      /\ Frames(Starting, Root) >= 1
      /\ Doing(Issuer, 1)' = "unlock"
  <2>1. Doing(Issuer, 1)' = "unlock"
    BY <1>4 DEF Todo
  <2>2. Frames(Holding, Root)' = Frames(Holding, Root)
    BY <1>1, <1>4 DEF Holding, One
  <2>3. Frames(Starting, Root)' = Frames(Starting, Root) - 1 /\ Frames(Starting, Root) >= 1
    BY <1>1, <1>3, <1>4, SMTT(30) DEF Starting, One
  <2>4. Frames(Reporting, Root)' = Frames(Reporting, Root)
    BY <1>1, <1>4 DEF Reporting, One
  <2> QED BY <1>1, <1>4, <2>1, <2>2, <2>3, <2>4 DEF One
<1>7. TypeOK'
  <2>1. io' \in [Asyncs -> {"none", "pending", "queued", "done"}]
    BY DEF IInv, TypeOK
  <2> QED BY <1>4, <1>5, <2>1 DEF IInv, TypeOK, Stacks
<1>8. OnlyRoot'
  BY <1>1, <1>2, <1>3, <1>4, <1>5, <1>6 DEF IInv, OnlyRoot
<1>9. FollowPrograms'
  <2>1. Todo(Issuer)' \in Programs(Issuer)
    BY <1>1, <1>2, <1>3, <1>4, <1>5, <1>6 DEF Programs, IssuerPrograms, Ending, LockedEnding,
       Calling, Submitting, Leaving
  <2> QED BY <1>4, <1>5, <2>1, OthersFollow
<1>10. MonitorHeld'
  BY <1>1, <1>2, <1>3, <1>4, <1>5, <1>6 DEF IInv, MonitorHeld, Inside,
     LockedEnding, Submitting, Leaving
<1>11. Unseen'
  BY <1>1, <1>2, <1>3, <1>4, <1>5, <1>6 DEF IInv, Unseen, Birth, OthersStay, Threads
<1>12. Owed'
  BY <1>1, <1>5, <1>6 DEF IInv, TypeOK, Owed, One, Asyncs
<1>13. EndsOnce'
  BY <1>1, <1>3, <1>5, <1>6 DEF IInv, EndsOnce, Ends, One
<1>14. Abortable'
  BY <1>1, <1>2, <1>3, <1>4, <1>5, <1>6 DEF IInv, Abortable
<1>15. CallStarted'
  BY <1>1, <1>2, <1>3, <1>4, <1>5, <1>6 DEF IInv, CallStarted, OthersStay, Threads
<1>16. LateUsesConfined'
  BY <1>1, <1>2, <1>3, <1>4, <1>5, <1>6 DEF LateUsesConfined
<1> QED BY <1>4, <1>7, <1>8, <1>9, <1>10, <1>11, <1>12, <1>13, <1>14, <1>15, <1>16 DEF IInv

\* The socket call fails: the issuer leaves the monitor, then reports it.
LEMMA SubmitFailsPreserves ==
  ASSUME IInv, NEW op \in {"recv", "submit", "disconnectex"}, At(Issuer, op, Root),
         handle' \in [Asyncs -> BOOLEAN], io_type' \in [Asyncs -> {"phase1", "phase2",
           "receive", "send", "accept", "disconnect"}],
         Call(Issuer, AsyncLeave(Root) \o <<Frame("notify", Root)>>), UNCHANGED io,
         UNCHANGED <<life, ref, lock, canceled, called, child, timer, rest>>
  PROVE  IInv'
<1> DEFINE f == Frame("unlock", Root)
           g == Frame("release", Root)
           h == Frame("notify", Root)
<1>1. /\ stale = {} /\ stack[Issuer] # << >> /\ life[Root] = "live" /\ stack \in Stacks
      /\ Doing(Issuer, 1) = op /\ Todo(Issuer) = <<op, "-", "-">> /\ Doing(Issuer, 4) = "-"
      /\ \A ops : Frames(ops, Root) \in Nat /\ (op \in ops => Frames(ops, Root) >= 1)
  <2>1. op \notin Outside \union {"new"} /\ op \in Starting /\ Issuer \in Threads
    BY DEF Starting, Outside, Threads
  <2> QED BY <2>1, Known, Starter
<1>2. /\ f \in FrameType /\ f.op = "unlock" /\ f.async = Root
      /\ g \in FrameType /\ g.op = "release" /\ g.async = Root
      /\ h \in FrameType /\ h.op = "notify" /\ h.async = Root
  BY FrameTypes DEF Operations
<1>3. /\ Doing(Issuer, 2) = "-" /\ Doing(Issuer, 3) = "-" /\ io[Root] = "none"
      /\ op \in Starting /\ Todo(Issuer) \in Submitting /\ ~canceled[Root]
  BY <1>1 DEF Todo, IInv, MonitorHeld, Submitting, CallStarted, Starting
<1>4. /\ stack' \in Stacks /\ Finite(stack') /\ AllOfRoot' /\ OthersStay(Issuer)
      /\ Todo(Issuer)' = <<"unlock", "release", "notify">> /\ Doing(Issuer, 4)' = "-"
      /\ \A ops : Frames(ops, Root)' = Frames(ops, Root) - One(op \in ops)
                     + One("unlock" \in ops) + One("release" \in ops) + One("notify" \in ops)
  <2>1. Issuer \in Threads /\ Finite(stack) /\ AllOfRoot
    BY DEF IInv, OnlyRoot, Threads
  <2>2. Call(Issuer, <<f, g, h>>)
    BY Triples DEF AsyncLeave
  <2> HIDE DEF f, g, h
  <2> QED BY <2>1, <2>2, <1>1, <1>2, <1>3, GoesOn3
<1>5. /\ UNCHANGED <<life, ref, lock, canceled, called, child, timer,
                     completed, missed, early, asked, stale>>
      /\ Issuer \in Threads /\ UNCHANGED io
  BY DEF rest, history, Threads, IInv, TypeOK, Asyncs
<1> HIDE DEF f, g, h
<1>6. /\ Frames(Holding, Root)' = Frames(Holding, Root)
      /\ Frames({"callback"}, Root)' = Frames({"callback"}, Root)
      /\ Frames({"destroy"}, Root)' = Frames({"destroy"}, Root)
      /\ Frames(Starting, Root)' = Frames(Starting, Root) - 1
      /\ Frames(Reporting, Root)' = Frames(Reporting, Root) + 1
      /\ Frames(Starting, Root) >= 1
      /\ Doing(Issuer, 1)' = "unlock"
  <2>1. Doing(Issuer, 1)' = "unlock"
    BY <1>4 DEF Todo
  <2>2. Frames(Holding, Root)' = Frames(Holding, Root)
    BY <1>1, <1>4 DEF Holding, One
  <2>3. Frames(Starting, Root)' = Frames(Starting, Root) - 1 /\ Frames(Starting, Root) >= 1
    BY <1>1, <1>3, <1>4 DEF Starting, One
  <2>4. op \notin Reporting
    BY <1>3 DEF Starting, Reporting
  <2>5. Frames(Reporting, Root)' = Frames(Reporting, Root) + 1
    BY <1>1, <1>4, <2>4 DEF Reporting, One
  <2>6. op \notin {"callback", "destroy"}
    BY <1>3 DEF Starting
  <2>7. Frames({"callback"}, Root)' = Frames({"callback"}, Root)
    BY <1>1, <1>4, <2>6 DEF One
  <2>8. Frames({"destroy"}, Root)' = Frames({"destroy"}, Root)
    BY <1>1, <1>4, <2>6 DEF One
  <2> QED BY <2>1, <2>2, <2>3, <2>5, <2>7, <2>8
<1>7. TypeOK'
  <2>1. io' \in [Asyncs -> {"none", "pending", "queued", "done"}]
    BY DEF IInv, TypeOK
  <2> QED BY <1>4, <1>5, <2>1 DEF IInv, TypeOK, Stacks
<1>8. OnlyRoot'
  BY <1>1, <1>2, <1>3, <1>4, <1>5, <1>6 DEF IInv, OnlyRoot
<1>9. FollowPrograms'
  <2>1. Todo(Issuer)' \in Programs(Issuer)
    BY <1>1, <1>2, <1>3, <1>4, <1>5, <1>6 DEF Programs, IssuerPrograms, Ending, LockedEnding,
       Calling, Submitting, Leaving
  <2> QED BY <1>4, <1>5, <2>1, OthersFollow
<1>10. MonitorHeld'
  BY <1>1, <1>2, <1>3, <1>4, <1>5, <1>6 DEF IInv, MonitorHeld, Inside,
     LockedEnding, Submitting, Leaving
<1>11. Unseen'
  BY <1>1, <1>2, <1>3, <1>4, <1>5, <1>6 DEF IInv, Unseen, Birth, OthersStay, Threads
<1>12. Owed'
  BY <1>1, <1>5, <1>6 DEF IInv, TypeOK, Owed, One, Asyncs
<1>13. EndsOnce'
  BY <1>1, <1>3, <1>5, <1>6 DEF IInv, EndsOnce, Ends, One
<1>14. Abortable'
  BY <1>1, <1>2, <1>3, <1>4, <1>5, <1>6 DEF IInv, Abortable
<1>15. CallStarted'
  BY <1>1, <1>2, <1>3, <1>4, <1>5, <1>6 DEF IInv, CallStarted, OthersStay, Threads
<1>16. LateUsesConfined'
  BY <1>1, <1>2, <1>3, <1>4, <1>5, <1>6 DEF LateUsesConfined
<1> QED BY <1>4, <1>7, <1>8, <1>9, <1>10, <1>11, <1>12, <1>13, <1>14, <1>15, <1>16 DEF IInv

\* AcceptEx starts, with no monitor to leave.
LEMMA AcceptExPreserves ==
  ASSUME IInv, At(Issuer, "acceptex", Root), Return(Issuer),
         io' = [io EXCEPT ![Root] = "pending"], early' = [early EXCEPT ![Root] = canceled[Root]],
         UNCHANGED <<operation, completed, missed, asked, stale>>
  PROVE  IInv'
<1> DEFINE op == "acceptex"
<1>1. /\ stale = {} /\ stack[Issuer] # << >> /\ life[Root] = "live" /\ stack \in Stacks
      /\ Doing(Issuer, 1) = op /\ Todo(Issuer) = <<op, "-", "-">> /\ Doing(Issuer, 4) = "-"
      /\ \A ops : Frames(ops, Root) \in Nat /\ (op \in ops => Frames(ops, Root) >= 1)
  <2>1. op \notin Outside \union {"new"} /\ op \in Starting /\ Issuer \in Threads
    BY DEF Starting, Outside, Threads
  <2> QED BY <2>1, Known, Starter
<1>3. /\ Doing(Issuer, 2) = "-" /\ Doing(Issuer, 3) = "-" /\ io[Root] = "none"
      /\ io_type[Root] = "accept" /\ handle[Root] /\ ~missed[Root]
  BY <1>1 DEF Todo, IInv, CallStarted, Abortable
<1>4. /\ stack' \in Stacks /\ Finite(stack') /\ AllOfRoot' /\ OthersStay(Issuer)
      /\ Todo(Issuer)' = <<"-", "-", "-">> /\ Doing(Issuer, 4)' = "-"
      /\ \A ops : Frames(ops, Root)' = Frames(ops, Root) - One(op \in ops)
  <2>1. Issuer \in Threads /\ Finite(stack) /\ AllOfRoot /\ Call(Issuer, << >>)
    BY DEF IInv, OnlyRoot, Threads, Return
  <2> QED BY <2>1, <1>1, <1>3, Returns
<1>5. /\ UNCHANGED <<life, ref, lock, canceled, called, child, handle, io_type, timer,
                     completed, missed, asked, stale>>
      /\ Issuer \in Threads /\ io'[Root] = "pending" /\ io' = [io EXCEPT ![Root] = "pending"]
      /\ early' \in [Asyncs -> BOOLEAN] /\ early'[Root] = canceled[Root]
  BY DEF operation, request, Threads, IInv, TypeOK, Asyncs
<1>6. /\ Frames(Holding, Root)' = Frames(Holding, Root)
      /\ Frames({"callback"}, Root)' = Frames({"callback"}, Root)
      /\ Frames({"destroy"}, Root)' = Frames({"destroy"}, Root)
      /\ Frames(Starting, Root)' = Frames(Starting, Root) - 1
      /\ Frames(Reporting, Root)' = Frames(Reporting, Root)
      /\ Frames(Starting, Root) >= 1
      /\ Doing(Issuer, 1)' = "-"
  <2>1. Doing(Issuer, 1)' = "-"
    BY <1>4 DEF Todo
  <2> QED BY <1>1, <1>3, <1>4, <2>1 DEF Holding, Starting, Reporting, One
<1>7. TypeOK'
  <2>1. io' \in [Asyncs -> {"none", "pending", "queued", "done"}]
    BY DEF IInv, TypeOK
  <2> QED BY <1>4, <1>5, <2>1 DEF IInv, TypeOK, Stacks
<1>8. OnlyRoot'
  BY <1>1, <1>3, <1>4, <1>5, <1>6 DEF IInv, OnlyRoot
<1>9. FollowPrograms'
  <2>1. Todo(Issuer)' \in Programs(Issuer)
    BY <1>1, <1>3, <1>4, <1>5, <1>6 DEF Programs, IssuerPrograms, Ending, LockedEnding,
       Calling, Submitting, Leaving
  <2> QED BY <1>4, <1>5, <2>1, OthersFollow
<1>10. MonitorHeld'
  BY <1>1, <1>3, <1>4, <1>5, <1>6 DEF IInv, MonitorHeld, Inside,
     Ending, LockedEnding, Submitting, Leaving
<1>11. Unseen'
  BY <1>1, <1>3, <1>4, <1>5, <1>6 DEF IInv, Unseen, Birth, OthersStay, Threads
<1>12. Owed'
  BY <1>1, <1>5, <1>6 DEF IInv, TypeOK, Owed, One, Asyncs
<1>13. EndsOnce'
  BY <1>1, <1>3, <1>5, <1>6 DEF IInv, EndsOnce, Ends, One
<1>14. Abortable'
  BY <1>1, <1>3, <1>4, <1>5, <1>6 DEF IInv, Abortable
<1>15. CallStarted'
  BY <1>1, <1>3, <1>4, <1>5, <1>6 DEF IInv, CallStarted, OthersStay, Threads
<1>16. LateUsesConfined'
  BY <1>1, <1>3, <1>4, <1>5, <1>6 DEF LateUsesConfined
<1> QED BY <1>4, <1>7, <1>8, <1>9, <1>10, <1>11, <1>12, <1>13, <1>14, <1>15, <1>16 DEF IInv

\* Nothing else happens while the operation is being created.
LEMMA Newborn ==
  ASSUME IInv, NEW th \in Threads, NEW op \in {"new", "add_timer_ref", "schedule"}, At(th, op, Root)
  PROVE  /\ th = Issuer /\ Todo(Issuer) = <<op, "start", "-">> /\ Doing(Issuer, 1) = op
         /\ stale = {} /\ stack[Issuer] # << >> /\ stack \in Stacks /\ Doing(Issuer, 4) = "-"
         /\ Doing(Issuer, 2) = "start" /\ Doing(Issuer, 3) = "-"
         /\ \A ops : Frames(ops, Root) \in Nat /\ (op \in ops => Frames(ops, Root) >= 1)
         /\ \A other \in Threads \ {Issuer} : stack[other] = << >>
         /\ asked = {} /\ ~called[Root] /\ ~canceled[Root] /\ timer[Root] = "idle"
         /\ io[Root] = "none" /\ completed[Root] = 0
         /\ life[Root] = IF op = "new" THEN "none" ELSE "live"
<1>1. /\ stale = {} /\ stack[th] # << >> /\ Doing(th, 1) = op /\ Todo(th) \in Programs(th)
      /\ stack \in Stacks /\ Doing(th, 4) = "-"
      /\ \A ops : Frames(ops, Root) \in Nat /\ (op \in ops => Frames(ops, Root) >= 1)
      /\ op # "new" => life[Root] = "live"
  <2>1. op # "new" => op \notin Outside \union {"new"}
    BY DEF Outside
  <2> QED BY <2>1, Known
<1>2. th = Issuer
  BY <1>1 DEF Todo, Programs, PollerPrograms, CancellerPrograms, WorkerPrograms, Ending
<1>3. Todo(Issuer) = <<op, "start", "-">>
  BY <1>1, <1>2 DEF Todo, Programs, IssuerPrograms, Ending, LockedEnding, Birth, Calling,
     Submitting, Leaving
<1>4. Doing(Issuer, 2) = "start" /\ Doing(Issuer, 3) = "-"
  BY <1>3 DEF Todo
<1>5. Todo(Issuer) \in Birth
  BY <1>3 DEF Birth
<1>6. life[Root] = "none" <=> Doing(Issuer, 1) = "new"
  BY DEF IInv, Unseen
<1>7. /\ \A other \in Threads \ {Issuer} : stack[other] = << >>
      /\ asked = {} /\ ~called[Root] /\ ~canceled[Root] /\ timer[Root] = "idle"
      /\ io[Root] = "none" /\ completed[Root] = 0
  BY <1>5 DEF IInv, Unseen
<1> QED BY <1>1, <1>2, <1>3, <1>4, <1>6, <1>7

\* xf_async_new makes the operation, and its timer if it has a timeout.
LEMMA NewPreserves ==
  ASSUME IInv, NEW th \in Threads, New(th, Root)
  PROVE  IInv'
<1> DEFINE timed == Root \in Timed
           f == Frame("add_timer_ref", Root)
<1>1. /\ th = Issuer /\ Todo(Issuer) = <<"new", "start", "-">> /\ Doing(Issuer, 1) = "new"
      /\ stale = {} /\ stack[Issuer] # << >> /\ stack \in Stacks /\ Doing(Issuer, 4) = "-"
      /\ Doing(Issuer, 2) = "start" /\ Doing(Issuer, 3) = "-"
      /\ \A ops : Frames(ops, Root) \in Nat /\ ("new" \in ops => Frames(ops, Root) >= 1)
      /\ \A other \in Threads \ {Issuer} : stack[other] = << >>
      /\ asked = {} /\ ~called[Root] /\ ~canceled[Root] /\ timer[Root] = "idle"
      /\ io[Root] = "none" /\ completed[Root] = 0
      /\ life[Root] = "none"
  BY Newborn DEF New
<1>2. f \in FrameType /\ f.op = "add_timer_ref" /\ f.async = Root
  BY FrameTypes DEF Operations
<1>4. /\ stack' \in Stacks /\ Finite(stack') /\ AllOfRoot' /\ OthersStay(th)
      /\ Todo(th)' = IF timed THEN <<"add_timer_ref", "start", "-">> ELSE <<"start", "-", "-">>
      /\ Doing(th, 4)' = "-"
      /\ \A ops : Frames(ops, Root)' = Frames(ops, Root) - One("new" \in ops)
                                            + One(timed /\ "add_timer_ref" \in ops)
  <2> USE DEF IInv, OnlyRoot, One
  <2>1. CASE timed
    <3>1. Call(th, <<f>>)
      BY <2>1 DEF New
    <3> HIDE DEF f
    <3> QED BY <1>1, <1>2, <2>1, <3>1, GoesOn1
  <2>2. CASE ~timed
    <3>1. Call(th, << >>)
      BY <2>2 DEF New
    <3> HIDE DEF f
    <3> QED BY <1>1, <1>2, <2>2, <3>1, Returns
  <2> QED BY <2>1, <2>2
<1>5. /\ life' = [life EXCEPT ![Root] = "live"] /\ ref' = [ref EXCEPT ![Root] = 1] /\ child' = child
      /\ life'[Root] = "live" /\ ref'[Root] = 1
      /\ UNCHANGED <<lock, canceled, called, handle, io_type, timer, io,
                     completed, missed, early, asked, stale>>
  <2>1. Parent(Root) = None /\ None \notin Asyncs
    BY AsyncAssumption DEF Parent
  <2>2. child' = child
    BY <2>1 DEF New, IInv, TypeOK
  <2>3. life'[Root] = "live" /\ ref'[Root] = 1
    BY DEF New, IInv, TypeOK, Asyncs
  <2> QED BY <2>2, <2>3 DEF New, request, rest, history
<1> HIDE DEF f
<1>6. /\ Frames(Holding, Root)' = Frames(Holding, Root)
      /\ Frames({"callback"}, Root)' = Frames({"callback"}, Root)
      /\ Frames({"destroy"}, Root)' = Frames({"destroy"}, Root)
      /\ Frames(Starting, Root)' = Frames(Starting, Root)
      /\ Frames(Reporting, Root)' = Frames(Reporting, Root)
      /\ Doing(Issuer, 1)' \in {"add_timer_ref", "start"}
  <2>1. Doing(Issuer, 1)' \in {"add_timer_ref", "start"}
    BY <1>1, <1>4 DEF Todo
  <2>2. CASE timed
    <3>1. \A ops : /\ Frames(ops, Root) \in Nat
                   /\ Frames(ops, Root)' = Frames(ops, Root) - One("new" \in ops)
                                              + One("add_timer_ref" \in ops)
      BY <1>1, <1>4, <2>2 DEF One
    <3> QED BY <2>1, <3>1 DEF Holding, Starting, Reporting, One
  <2>3. CASE ~timed
    <3>1. \A ops : /\ Frames(ops, Root) \in Nat
                   /\ Frames(ops, Root)' = Frames(ops, Root) - One("new" \in ops)
      BY <1>1, <1>4, <2>3 DEF One
    <3> QED BY <2>1, <3>1 DEF Holding, Starting, Reporting, One
  <2> QED BY <2>2, <2>3
<1>7. TypeOK'
  BY <1>4, <1>5 DEF IInv, TypeOK, Stacks
<1>8. OnlyRoot'
  BY <1>4, <1>5 DEF IInv, OnlyRoot, TypeOK
<1>9. FollowPrograms'
  <2>1. Todo(th)' \in Programs(th)
    BY <1>1, <1>4 DEF Programs, IssuerPrograms, Birth, Calling
  <2> QED BY <1>4, <2>1, OthersFollow
<1>10. MonitorHeld'
  BY <1>1, <1>4, <1>5 DEF IInv, MonitorHeld, Inside, Ending, LockedEnding,
     Submitting, Leaving
<1>11. Unseen'
  BY <1>1, <1>4, <1>5, <1>6 DEF IInv, Unseen, Birth, OthersStay, Threads
<1>12. Owed'
  BY <1>1, <1>5, <1>6 DEF IInv, TypeOK, Owed, One, Asyncs
<1>13. EndsOnce'
  BY <1>1, <1>5, <1>6 DEF IInv, EndsOnce, Ends
<1>14. Abortable'
  BY <1>1, <1>2, <1>4, <1>5, <1>6 DEF IInv, Abortable
<1>15. CallStarted'
  BY <1>1, <1>2, <1>4, <1>5, <1>6 DEF IInv, CallStarted, OthersStay, Threads
<1>16. LateUsesConfined'
  BY <1>1, <1>2, <1>4, <1>5, <1>6 DEF LateUsesConfined
<1> QED BY <1>4, <1>7, <1>8, <1>9, <1>10, <1>11, <1>12, <1>13, <1>14, <1>15, <1>16 DEF IInv

\* The timer gets a reference.
LEMMA AddTimerRefPreserves ==
  ASSUME IInv, NEW th \in Threads, AddTimerRef(th, Root)
  PROVE  IInv'
<1> DEFINE f == Frame("schedule", Root)
<1>1. /\ th = Issuer /\ Todo(Issuer) = <<"add_timer_ref", "start", "-">> /\ Doing(Issuer, 1) = "add_timer_ref"
      /\ stale = {} /\ stack[Issuer] # << >> /\ stack \in Stacks /\ Doing(Issuer, 4) = "-"
      /\ Doing(Issuer, 2) = "start" /\ Doing(Issuer, 3) = "-"
      /\ \A ops : Frames(ops, Root) \in Nat /\ ("add_timer_ref" \in ops => Frames(ops, Root) >= 1)
      /\ \A other \in Threads \ {Issuer} : stack[other] = << >>
      /\ asked = {} /\ ~called[Root] /\ ~canceled[Root] /\ timer[Root] = "idle"
      /\ io[Root] = "none" /\ completed[Root] = 0
      /\ life[Root] = "live"
  BY Newborn DEF AddTimerRef
<1>2. f \in FrameType /\ f.op = "schedule" /\ f.async = Root
  BY FrameTypes DEF Operations
<1>4. /\ stack' \in Stacks /\ Finite(stack') /\ AllOfRoot' /\ OthersStay(th)
      /\ Todo(th)' = <<"schedule", "start", "-">> /\ Doing(th, 4)' = "-"
      /\ \A ops : Frames(ops, Root)' = Frames(ops, Root) - One("add_timer_ref" \in ops)
                                            + One("schedule" \in ops)
  <2>1. Call(th, <<f>>)
    BY DEF AddTimerRef
  <2> HIDE DEF f
  <2> QED BY <1>1, <1>2, <2>1, GoesOn1 DEF IInv, OnlyRoot
<1>5. /\ ref' = [ref EXCEPT ![Root] = @ + 1] /\ ref'[Root] = ref[Root] + 1
      /\ UNCHANGED <<life, lock, canceled, called, child, handle, io_type, timer, io,
                     completed, missed, early, asked, stale>>
  BY DEF AddTimerRef, request, rest, history, IInv, TypeOK, Asyncs
<1> HIDE DEF f
<1>6. /\ Frames(Holding, Root)' = Frames(Holding, Root) + 1
      /\ Frames({"callback"}, Root)' = Frames({"callback"}, Root)
      /\ Frames({"destroy"}, Root)' = Frames({"destroy"}, Root)
      /\ Frames(Starting, Root)' = Frames(Starting, Root)
      /\ Frames(Reporting, Root)' = Frames(Reporting, Root)
      /\ Doing(Issuer, 1)' = "schedule"
  <2>1. Doing(Issuer, 1)' = "schedule"
    BY <1>1, <1>4 DEF Todo
  <2>2. \A ops : /\ Frames(ops, Root) \in Nat
                 /\ Frames(ops, Root)' = Frames(ops, Root) - One("add_timer_ref" \in ops)
                                            + One("schedule" \in ops)
    BY <1>1, <1>4
  <2> QED BY <2>1, <2>2 DEF Holding, Starting, Reporting, One
<1>7. TypeOK'
  <2>1. ref' \in [Asyncs -> Nat]
    BY <1>5 DEF IInv, TypeOK, Asyncs
  <2> QED BY <1>4, <1>5, <2>1 DEF IInv, TypeOK, Stacks
<1>8. OnlyRoot'
  BY <1>1, <1>2, <1>4, <1>5, <1>6 DEF IInv, OnlyRoot
<1>9. FollowPrograms'
  <2>1. Todo(th)' \in Programs(th)
    BY <1>1, <1>4 DEF Programs, IssuerPrograms, Birth, Calling
  <2> QED BY <1>4, <2>1, OthersFollow
<1>10. MonitorHeld'
  BY <1>1, <1>4, <1>5 DEF IInv, MonitorHeld, Inside, Ending, LockedEnding,
     Submitting, Leaving
<1>11. Unseen'
  BY <1>1, <1>4, <1>5, <1>6 DEF IInv, Unseen, Birth, OthersStay, Threads
<1>12. Owed'
  BY <1>1, <1>5, <1>6 DEF IInv, TypeOK, Owed, One, Asyncs
<1>13. EndsOnce'
  BY <1>1, <1>5, <1>6 DEF IInv, EndsOnce, Ends
<1>14. Abortable'
  BY <1>1, <1>2, <1>4, <1>5, <1>6 DEF IInv, Abortable
<1>15. CallStarted'
  BY <1>1, <1>2, <1>4, <1>5, <1>6 DEF IInv, CallStarted, OthersStay, Threads
<1>16. LateUsesConfined'
  BY <1>1, <1>2, <1>4, <1>5, <1>6 DEF LateUsesConfined
<1> QED BY <1>4, <1>7, <1>8, <1>9, <1>10, <1>11, <1>12, <1>13, <1>14, <1>15, <1>16 DEF IInv

\* It is scheduled, and the reference is its own.
LEMMA SchedulePreserves ==
  ASSUME IInv, NEW th \in Threads, Schedule(th, Root)
  PROVE  IInv'
<1>1. /\ th = Issuer /\ Todo(Issuer) = <<"schedule", "start", "-">> /\ Doing(Issuer, 1) = "schedule"
      /\ stale = {} /\ stack[Issuer] # << >> /\ stack \in Stacks /\ Doing(Issuer, 4) = "-"
      /\ Doing(Issuer, 2) = "start" /\ Doing(Issuer, 3) = "-"
      /\ \A ops : Frames(ops, Root) \in Nat /\ ("schedule" \in ops => Frames(ops, Root) >= 1)
      /\ \A other \in Threads \ {Issuer} : stack[other] = << >>
      /\ asked = {} /\ ~called[Root] /\ ~canceled[Root] /\ timer[Root] = "idle"
      /\ io[Root] = "none" /\ completed[Root] = 0
      /\ life[Root] = "live"
  BY Newborn DEF Schedule
<1>4. /\ stack' \in Stacks /\ Finite(stack') /\ AllOfRoot' /\ OthersStay(th)
      /\ Todo(th)' = <<"start", "-", "-">> /\ Doing(th, 4)' = "-"
      /\ \A ops : Frames(ops, Root)' = Frames(ops, Root) - One("schedule" \in ops)
  <2>1. Call(th, << >>)
    BY DEF Schedule, Return
  <2> QED BY <1>1, <2>1, Returns DEF IInv, OnlyRoot
<1>5. /\ timer' = [timer EXCEPT ![Root] = "armed"] /\ timer'[Root] = "armed"
      /\ UNCHANGED <<life, ref, lock, canceled, called, child, handle, io_type, io,
                     completed, missed, early, asked, stale>>
  BY DEF Schedule, request, rest, history, IInv, TypeOK, Asyncs
<1>6. /\ Frames(Holding, Root)' = Frames(Holding, Root) - 1
      /\ Frames({"callback"}, Root)' = Frames({"callback"}, Root)
      /\ Frames({"destroy"}, Root)' = Frames({"destroy"}, Root)
      /\ Frames(Starting, Root)' = Frames(Starting, Root)
      /\ Frames(Reporting, Root)' = Frames(Reporting, Root)
      /\ Doing(Issuer, 1)' = "start" /\ Frames(Holding, Root) >= 1
  <2>1. Doing(Issuer, 1)' = "start"
    BY <1>1, <1>4 DEF Todo
  <2> QED BY <1>1, <1>4, <2>1 DEF Holding, Starting, Reporting, One
<1>7. TypeOK'
  BY <1>4, <1>5 DEF IInv, TypeOK, Stacks
<1>8. OnlyRoot'
  BY <1>1, <1>4, <1>5, <1>6 DEF IInv, OnlyRoot
<1>9. FollowPrograms'
  <2>1. Todo(th)' \in Programs(th)
    BY <1>1, <1>4 DEF Programs, IssuerPrograms, Birth, Calling
  <2> QED BY <1>4, <2>1, OthersFollow
<1>10. MonitorHeld'
  <2>1. ~Inside /\ ~Inside'
    BY <1>1, <1>4 DEF Inside, LockedEnding, Submitting, Leaving
  <2>2. Todo(Issuer)' \notin Submitting \union LockedEnding
    BY <1>1, <1>4 DEF LockedEnding, Submitting
  <2> QED BY <1>5, <2>1, <2>2 DEF IInv, MonitorHeld
<1>11. Unseen'
  <2>1. Todo(Issuer)' \notin Birth
    BY <1>1, <1>4 DEF Birth
  <2>2. Doing(Issuer, 1)' # "new" /\ life'[Root] # "none"
    BY <1>1, <1>5, <1>6
  <2>3. \A t \in Cancellers : stack'[t] = stack[t]
    BY <1>1, <1>4, AsyncAssumption DEF OthersStay, Threads
  <2> QED BY <1>5, <2>1, <2>2, <2>3 DEF IInv, Unseen
<1>12. Owed'
  BY <1>1, <1>5, <1>6 DEF IInv, TypeOK, Owed, One, Asyncs
<1>13. EndsOnce'
  BY <1>1, <1>5, <1>6 DEF IInv, EndsOnce, Ends
<1>14. Abortable'
  BY <1>1, <1>4, <1>5, <1>6 DEF IInv, Abortable
<1>15. CallStarted'
  BY <1>1, <1>4, <1>5, <1>6 DEF IInv, CallStarted, OthersStay, Threads
<1>16. LateUsesConfined'
  BY <1>1, <1>4, <1>5, <1>6 DEF LateUsesConfined
<1> QED BY <1>4, <1>7, <1>8, <1>9, <1>10, <1>11, <1>12, <1>13, <1>14, <1>15, <1>16 DEF IInv

\* _xf_async_async_notify: only the first thread here calls back.
LEMMA AsyncNotifyPreserves ==
  ASSUME IInv, NEW th \in Threads, AsyncNotify(th, Root)
  PROVE  IInv'
<1> DEFINE again == called[Root]
           f == Carry(th, "callback", Root)
           r == Frame("release", Root)
<1>1. /\ stale = {} /\ stack[th] # << >> /\ Doing(th, 1) = "async_notify" /\ life[Root] = "live"
      /\ stack \in Stacks /\ Todo(th) \in Programs(th) /\ Doing(th, 4) = "-"
      /\ \A ops : Frames(ops, Root) \in Nat /\ ("async_notify" \in ops => Frames(ops, Root) >= 1)
  BY Known DEF AsyncNotify, Outside
<1>2. /\ f \in FrameType /\ f.op = "callback" /\ f.async = Root
      /\ r \in FrameType /\ r.op = "release" /\ r.async = Root
  <2>1. f \in FrameType /\ f.op = "callback" /\ f.async = Root
    BY <1>1, CarryTypes DEF Operations
  <2>2. r \in FrameType /\ r.op = "release" /\ r.async = Root
    BY FrameTypes DEF Operations
  <2> QED BY <2>1, <2>2
<1>3. Doing(th, 3) = "-"
  BY <1>1 DEF Todo, Programs, IssuerPrograms, PollerPrograms, CancellerPrograms, WorkerPrograms,
     Ending, LockedEnding, Birth, Calling, Submitting, Leaving
<1>4. /\ stack' \in Stacks /\ Finite(stack') /\ AllOfRoot' /\ OthersStay(th)
      /\ Todo(th)' = IF again THEN <<Doing(th, 2), "-", "-">>
                     ELSE <<"callback", "release", Doing(th, 2)>>
      /\ Doing(th, 4)' = "-"
      /\ \A ops : Frames(ops, Root)' = Frames(ops, Root) - One("async_notify" \in ops)
                     + One(~again /\ "callback" \in ops) + One(~again /\ "release" \in ops)
  <2> USE DEF IInv, OnlyRoot, One
  <2>1. CASE ~again
    <3>1. Call(th, <<f, r>>)
      BY <2>1 DEF AsyncNotify
    <3> HIDE DEF f, r
    <3> QED BY <1>1, <1>2, <1>3, <2>1, <3>1, GoesOn2
  <2>2. CASE again
    <3>1. Call(th, << >>)
      BY <2>2 DEF AsyncNotify
    <3> HIDE DEF f, r
    <3> QED BY <1>1, <1>3, <2>2, <3>1, Returns
  <2> QED BY <2>1, <2>2
<1>5. /\ called' = [called EXCEPT ![Root] = TRUE] /\ called'[Root] = TRUE
      /\ UNCHANGED <<life, ref, lock, canceled, child, handle, io_type, timer, io,
                     completed, missed, early, asked, stale>>
  BY DEF AsyncNotify, request, rest, history, IInv, TypeOK, Asyncs
<1> HIDE DEF f, r
<1>6. /\ Frames(Holding, Root)' = Frames(Holding, Root) + One(~again)
      /\ Frames({"callback"}, Root)' = Frames({"callback"}, Root) + One(~again)
      /\ Frames({"destroy"}, Root)' = Frames({"destroy"}, Root)
      /\ Frames(Starting, Root)' = Frames(Starting, Root)
      /\ Frames(Reporting, Root)' = Frames(Reporting, Root) - 1
      /\ Frames(Reporting, Root) >= 1
  <2>1. CASE again
    <3>1. \A ops : /\ Frames(ops, Root) \in Nat
                   /\ "async_notify" \in ops => Frames(ops, Root) >= 1
                   /\ Frames(ops, Root)' = Frames(ops, Root) - One("async_notify" \in ops)
      BY <1>1, <1>4, <2>1 DEF One
    <3> QED BY <2>1, <3>1 DEF Holding, Starting, Reporting, One
  <2>2. CASE ~again
    <3>1. \A ops : /\ Frames(ops, Root) \in Nat
                   /\ "async_notify" \in ops => Frames(ops, Root) >= 1
                   /\ Frames(ops, Root)' = Frames(ops, Root) - One("async_notify" \in ops)
                        + One("callback" \in ops) + One("release" \in ops)
      BY <1>1, <1>4, <2>2 DEF One
    <3> QED BY <2>2, <3>1 DEF Holding, Starting, Reporting, One
  <2> QED BY <2>1, <2>2
<1>7. /\ th # Issuer => Todo(Issuer)' = Todo(Issuer) /\ Doing(Issuer, 1)' = Doing(Issuer, 1)
      /\ th = Issuer => Todo(Issuer) \in
           {<<"async_notify", "-", "-">>, <<"async_notify", "unlock", "-">>}
      /\ th = Issuer => Doing(Issuer, 1)' \in {"callback", "-", "unlock", "release"}
  <2>1. th # Issuer => Todo(Issuer)' = Todo(Issuer) /\ Doing(Issuer, 1)' = Doing(Issuer, 1)
    BY <1>4, StaysSame DEF OthersStay, Threads
  <2>2. th = Issuer => Todo(Issuer) \in
           {<<"async_notify", "-", "-">>, <<"async_notify", "unlock", "-">>}
    BY <1>1 DEF Todo, Programs, IssuerPrograms,
       Ending, LockedEnding, Birth, Calling, Submitting, Leaving
  <2>3. th = Issuer => Doing(Issuer, 1)' \in {"callback", "-", "unlock", "release"}
    BY <1>3, <1>4, <2>2 DEF Todo
  <2> QED BY <2>1, <2>2, <2>3
<1>8. TypeOK'
  BY <1>4, <1>5 DEF IInv, TypeOK, Stacks
<1>9. OnlyRoot'
  BY <1>4, <1>5 DEF IInv, OnlyRoot
<1>10. FollowPrograms'
  <2>1. Todo(th)' \in Programs(th)
    BY <1>1, <1>3, <1>4 DEF Todo, Programs, IssuerPrograms, PollerPrograms, CancellerPrograms, WorkerPrograms,
       Ending, LockedEnding, Birth, Calling, Submitting, Leaving
  <2> QED BY <1>4, <2>1, OthersFollow
<1>11. MonitorHeld'
  BY <1>1, <1>3, <1>4, <1>5, <1>7 DEF IInv, MonitorHeld, Inside, Todo,
     Ending, LockedEnding, Submitting, Leaving
<1>12. Unseen'
  BY <1>1, <1>4, <1>5, <1>7 DEF IInv, Unseen, Birth, OthersStay, Threads
<1>13. Owed'
  <2>1. CASE again
    BY <1>1, <1>5, <1>6, <2>1 DEF IInv, TypeOK, Owed, One, Asyncs
  <2>2. CASE ~again
    <3>1. /\ Frames(Holding, Root)' = Frames(Holding, Root) + 1
          /\ Frames({"callback"}, Root)' = Frames({"callback"}, Root) + 1
      BY <1>6, <2>2 DEF One
    <3>2. /\ Frames(Holding, Root) \in Nat /\ Frames({"callback"}, Root) \in Nat
          /\ Frames({"destroy"}, Root) \in Nat
          /\ ref[Root] \in Nat /\ completed[Root] \in Nat
      BY <1>1 DEF IInv, TypeOK, Asyncs
    <3>3. /\ ~called[Root] /\ called'[Root] /\ life'[Root] = "live"
          /\ ref[Root] = 1 + One(timer[Root] = "armed") + Frames(Holding, Root)
          /\ Frames({"callback"}, Root) + completed[Root] = 0
          /\ Frames({"destroy"}, Root) = 0
      BY <1>1, <1>5, <2>2, <3>2 DEF IInv, Owed, One
    <3>4. ref'[Root] = One(~called'[Root]) + One(timer'[Root] = "armed") + Frames(Holding, Root)'
      BY <1>5, <3>1, <3>2, <3>3 DEF One
    <3>5. Frames({"callback"}, Root)' + completed'[Root] = One(called'[Root])
      BY <1>5, <3>1, <3>2, <3>3 DEF One
    <3> QED BY <1>5, <1>6, <3>3, <3>4, <3>5 DEF Owed, One
  <2> QED BY <2>1, <2>2
<1>14. EndsOnce'
  BY <1>1, <1>5, <1>6 DEF IInv, EndsOnce, Ends, One
<1>15. Abortable'
  BY <1>1, <1>5, <1>7 DEF IInv, Abortable
<1>16. CallStarted'
  BY <1>1, <1>4, <1>5, <1>7 DEF IInv, CallStarted, OthersStay, Threads
<1>17. LateUsesConfined'
  BY <1>1, <1>5 DEF LateUsesConfined
<1> QED BY <1>4, <1>8, <1>9, <1>10, <1>11, <1>12, <1>13, <1>14, <1>15, <1>16, <1>17 DEF IInv

\* The callback runs.
LEMMA CallbackPreserves ==
  ASSUME IInv, NEW th \in Threads, Callback(th, Root)
  PROVE  IInv'
<1>1. /\ stale = {} /\ stack[th] # << >> /\ Doing(th, 1) = "callback" /\ life[Root] = "live"
      /\ stack \in Stacks /\ Todo(th) \in Programs(th) /\ Doing(th, 4) = "-"
      /\ \A ops : Frames(ops, Root) \in Nat /\ ("callback" \in ops => Frames(ops, Root) >= 1)
  BY Known DEF Callback, CallbackThen, Outside
<1>3. Doing(th, 2) = "release"
  BY <1>1 DEF Todo, Programs, IssuerPrograms, PollerPrograms, CancellerPrograms, WorkerPrograms,
     Ending, LockedEnding, Birth, Calling, Submitting, Leaving
<1>4. /\ stack' \in Stacks /\ Finite(stack') /\ AllOfRoot' /\ OthersStay(th)
      /\ Todo(th)' = <<"release", Doing(th, 3), "-">> /\ Doing(th, 4)' = "-"
      /\ \A ops : Frames(ops, Root)' = Frames(ops, Root) - One("callback" \in ops)
  <2>1. Call(th, << >>)
    BY DEF Callback, CallbackThen
  <2> QED BY <1>1, <1>3, <2>1, Returns DEF IInv, OnlyRoot
<1>5. /\ completed' = [completed EXCEPT ![Root] = @ + 1] /\ completed'[Root] = completed[Root] + 1
      /\ completed[Root] \in Nat
      /\ UNCHANGED <<life, ref, lock, canceled, called, child, handle, io_type, timer, io,
                     missed, early, asked, stale>>
  BY DEF Callback, CallbackThen, operation, request, IInv, TypeOK, Asyncs
<1>6. /\ Frames(Holding, Root)' = Frames(Holding, Root)
      /\ Frames({"callback"}, Root)' = Frames({"callback"}, Root) - 1
      /\ Frames({"destroy"}, Root)' = Frames({"destroy"}, Root)
      /\ Frames(Starting, Root)' = Frames(Starting, Root)
      /\ Frames(Reporting, Root)' = Frames(Reporting, Root)
      /\ Frames({"callback"}, Root) >= 1
  BY <1>1, <1>4 DEF Holding, Starting, Reporting, One
<1>7. /\ th # Issuer => Todo(Issuer)' = Todo(Issuer) /\ Doing(Issuer, 1)' = Doing(Issuer, 1)
      /\ th = Issuer => Todo(Issuer) \in
           {<<"callback", "release", "-">>, <<"callback", "release", "unlock">>}
      /\ th = Issuer => Doing(Issuer, 1)' \in {"release"}
  <2>1. th # Issuer => Todo(Issuer)' = Todo(Issuer) /\ Doing(Issuer, 1)' = Doing(Issuer, 1)
    BY <1>4, StaysSame DEF OthersStay, Threads
  <2>2. th = Issuer => Todo(Issuer) \in
           {<<"callback", "release", "-">>, <<"callback", "release", "unlock">>}
    BY <1>1 DEF Todo, Programs, IssuerPrograms,
       Ending, LockedEnding, Birth, Calling, Submitting, Leaving
  <2>3. th = Issuer => Doing(Issuer, 1)' \in {"release"}
    BY <1>3, <1>4, <2>2 DEF Todo
  <2> QED BY <2>1, <2>2, <2>3
<1>8. TypeOK'
  <2>1. completed' \in [Asyncs -> Nat]
    BY <1>5 DEF IInv, TypeOK, Asyncs
  <2> QED BY <1>4, <1>5, <2>1 DEF IInv, TypeOK, Stacks
<1>9. OnlyRoot'
  BY <1>4, <1>5 DEF IInv, OnlyRoot
<1>10. FollowPrograms'
  <2>1. Todo(th)' \in Programs(th)
    BY <1>1, <1>3, <1>4 DEF Todo, Programs, IssuerPrograms, PollerPrograms, CancellerPrograms, WorkerPrograms,
       Ending, LockedEnding, Birth, Calling, Submitting, Leaving
  <2> QED BY <1>4, <2>1, OthersFollow
<1>11. MonitorHeld'
  BY <1>1, <1>3, <1>4, <1>5, <1>7 DEF IInv, MonitorHeld, Inside, Todo,
     Ending, LockedEnding, Submitting, Leaving
<1>12. Unseen'
  BY <1>1, <1>4, <1>5, <1>7 DEF IInv, Unseen, Birth, OthersStay, Threads
<1>13. Owed'
  <2>1. Owed
    BY DEF IInv
  <2>2. /\ Frames({"callback"}, Root) + completed[Root] = One(called[Root])
        /\ Frames({"destroy"}, Root) > 0 => completed[Root] = 1
        /\ Frames({"destroy"}, Root) \in Nat /\ Frames({"callback"}, Root) \in Nat
        /\ completed[Root] \in Nat
    BY <1>1, <1>5, <2>1 DEF Owed
  <2>3. Frames({"destroy"}, Root) = 0
    BY <1>6, <2>2 DEF One
  <2> QED BY <1>1, <1>5, <1>6, <2>1, <2>2, <2>3 DEF Owed
<1>14. EndsOnce'
  BY <1>1, <1>5, <1>6 DEF IInv, EndsOnce, Ends, One
<1>15. Abortable'
  BY <1>1, <1>5, <1>7 DEF IInv, Abortable
<1>16. CallStarted'
  BY <1>1, <1>4, <1>5, <1>7 DEF IInv, CallStarted, OthersStay, Threads
<1>17. LateUsesConfined'
  BY <1>1, <1>5 DEF LateUsesConfined
<1> QED BY <1>4, <1>8, <1>9, <1>10, <1>11, <1>12, <1>13, <1>14, <1>15, <1>16, <1>17 DEF IInv

\* xf_async_cancel takes the timer's reference, if there is one.
LEMMA AsyncCancelPreserves ==
  ASSUME IInv, NEW th \in Threads, AsyncCancel(th, Root)
  PROVE  IInv'
<1> DEFINE armed == timer[Root] = "armed"
           f == Frame("_cancel", Root)
           r == Frame("release", Root)
<1>1. /\ stale = {} /\ stack[th] # << >> /\ Doing(th, 1) = "cancel" /\ life[Root] = "live"
      /\ stack \in Stacks /\ Todo(th) \in Programs(th) /\ Doing(th, 4) = "-"
      /\ \A ops : Frames(ops, Root) \in Nat /\ ("cancel" \in ops => Frames(ops, Root) >= 1)
  BY Known DEF AsyncCancel, Outside
<1>2. /\ f \in FrameType /\ f.op = "_cancel" /\ f.async = Root
      /\ r \in FrameType /\ r.op = "release" /\ r.async = Root
  BY FrameTypes DEF Operations
<1>3. Doing(th, 2) = "-" /\ Doing(th, 3) = "-"
  BY <1>1 DEF Todo, Programs, IssuerPrograms, PollerPrograms, CancellerPrograms, WorkerPrograms,
     Ending, LockedEnding, Birth, Calling, Submitting, Leaving
<1>4. /\ stack' \in Stacks /\ Finite(stack') /\ AllOfRoot' /\ OthersStay(th)
      /\ Todo(th)' = IF armed THEN <<"release", "_cancel", "-">> ELSE <<"_cancel", "-", "-">>
      /\ Doing(th, 4)' = "-"
      /\ \A ops : Frames(ops, Root)' = Frames(ops, Root) - One("cancel" \in ops)
                     + One(armed /\ "release" \in ops) + One("_cancel" \in ops)
  <2> USE DEF IInv, OnlyRoot, One
  <2>1. CASE armed
    <3>1. Call(th, <<r, f>>)
      <4>1. <<r>> \o <<f>> = <<r, f>>
        BY Tuples
      <4> QED BY <2>1, <4>1 DEF AsyncCancel, CancelTimerThen
    <3> HIDE DEF f, r
    <3> QED BY <1>1, <1>2, <1>3, <2>1, <3>1, GoesOn2
  <2>2. CASE ~armed
    <3>1. Call(th, <<f>>)
      BY <2>2 DEF AsyncCancel, CancelTimerThen
    <3> HIDE DEF f
    <3> QED BY <1>1, <1>2, <1>3, <2>2, <3>1, GoesOn1
  <2> QED BY <2>1, <2>2
<1>5. /\ timer' = [timer EXCEPT ![Root] = IF @ = "armed" THEN "gone" ELSE @]
      /\ UNCHANGED <<life, ref, lock, canceled, called, child, handle, io_type, io,
                     completed, missed, early, asked, stale>>
  BY DEF AsyncCancel, CancelTimerThen, request, rest, history
<1> HIDE DEF f, r
<1>6. /\ Frames(Holding, Root)' = Frames(Holding, Root) + One(armed)
      /\ Frames({"callback"}, Root)' = Frames({"callback"}, Root)
      /\ Frames({"destroy"}, Root)' = Frames({"destroy"}, Root)
      /\ Frames(Starting, Root)' = Frames(Starting, Root)
      /\ Frames(Reporting, Root)' = Frames(Reporting, Root)
  <2>1. Frames(Holding, Root)' = Frames(Holding, Root) + One(armed)
    BY <1>1, <1>4 DEF Holding, One
  <2>2. Frames({"callback"}, Root)' = Frames({"callback"}, Root)
    BY <1>1, <1>4 DEF One
  <2>3. Frames({"destroy"}, Root)' = Frames({"destroy"}, Root)
    BY <1>1, <1>4 DEF One
  <2>4. Frames(Starting, Root)' = Frames(Starting, Root)
    BY <1>1, <1>4 DEF Starting, One
  <2>5. Frames(Reporting, Root)' = Frames(Reporting, Root)
    BY <1>1, <1>4 DEF Reporting, One
  <2> QED BY <2>1, <2>2, <2>3, <2>4, <2>5
<1>7. th # Issuer /\ Todo(Issuer)' = Todo(Issuer) /\ Doing(Issuer, 1)' = Doing(Issuer, 1)
  <2>1. th # Issuer
    BY <1>1 DEF Todo, Programs, IssuerPrograms,
       Ending, LockedEnding, Birth, Calling, Submitting, Leaving
  <2> QED BY <1>4, <2>1, StaysSame DEF OthersStay, Threads
<1>8. TypeOK'
  BY <1>4, <1>5 DEF IInv, TypeOK, Stacks
<1>9. OnlyRoot'
  BY <1>4, <1>5 DEF IInv, OnlyRoot
<1>10. FollowPrograms'
  <2>1. Todo(th)' \in Programs(th)
    BY <1>1, <1>3, <1>4 DEF Todo, Programs, IssuerPrograms, PollerPrograms, CancellerPrograms, WorkerPrograms,
       Ending, LockedEnding, Birth, Calling, Submitting, Leaving
  <2> QED BY <1>4, <2>1, OthersFollow
<1>11. MonitorHeld'
  BY <1>1, <1>3, <1>4, <1>5, <1>7 DEF IInv, MonitorHeld, Inside, Todo,
     Ending, LockedEnding, Submitting, Leaving
<1>12. Unseen'
  BY <1>1, <1>4, <1>5, <1>7 DEF IInv, Unseen, Birth, OthersStay, Threads
<1>13. Owed'
  <2>1. timer'[Root] = IF timer[Root] = "armed" THEN "gone" ELSE timer[Root]
    BY <1>5 DEF IInv, TypeOK, Asyncs
  <2>2. Owed
    BY DEF IInv
  <2> QED BY <1>1, <1>5, <1>6, <2>1, <2>2 DEF Owed, One
<1>14. EndsOnce'
  BY <1>1, <1>5, <1>6 DEF IInv, EndsOnce, Ends, One
<1>15. Abortable'
  BY <1>1, <1>5, <1>7 DEF IInv, Abortable
<1>16. CallStarted'
  BY <1>1, <1>4, <1>5, <1>7 DEF IInv, CallStarted, OthersStay, Threads
<1>17. LateUsesConfined'
  BY <1>1, <1>5 DEF LateUsesConfined
<1> QED BY <1>4, <1>8, <1>9, <1>10, <1>11, <1>12, <1>13, <1>14, <1>15, <1>16, <1>17 DEF IInv

\* The issuer leaves the monitor.
LEMMA UnlockPreserves ==
  ASSUME IInv, NEW th \in Threads, Unlock(th, Root)
  PROVE  IInv'
<1>1. /\ stale = {} /\ stack[th] # << >> /\ Doing(th, 1) = "unlock" /\ life[Root] = "live"
      /\ stack \in Stacks /\ Todo(th) \in Programs(th) /\ Doing(th, 4) = "-"
      /\ \A ops : Frames(ops, Root) \in Nat /\ ("unlock" \in ops => Frames(ops, Root) >= 1)
  BY Known DEF Unlock, Outside
<1>3. /\ th = Issuer
      /\ Todo(Issuer) \in {<<"unlock", "release", "-">>, <<"unlock", "release", "notify">>,
                           <<"unlock", "-", "-">>}
  <2>1. th = Issuer
    BY <1>1 DEF Todo, Programs, PollerPrograms, CancellerPrograms, WorkerPrograms, Ending
  <2> QED BY <1>1, <2>1 DEF Todo, Programs, IssuerPrograms, PollerPrograms, CancellerPrograms, WorkerPrograms,
     Ending, LockedEnding, Birth, Calling, Submitting, Leaving
<1>4. /\ stack' \in Stacks /\ Finite(stack') /\ AllOfRoot' /\ OthersStay(th)
      /\ Todo(th)' = <<Doing(th, 2), Doing(th, 3), "-">> /\ Doing(th, 4)' = "-"
      /\ \A ops : Frames(ops, Root)' = Frames(ops, Root) - One("unlock" \in ops)
  <2>1. Call(th, << >>)
    BY DEF Unlock, Return
  <2> QED BY <1>1, <2>1, Returns DEF IInv, OnlyRoot
<1>5. /\ lock' = [lock EXCEPT ![Root] = [owner |-> None, depth |-> 0]]
      /\ lock'[Root] = [owner |-> None, depth |-> 0]
      /\ UNCHANGED <<life, ref, canceled, called, child, handle, io_type, timer, io,
                     completed, missed, early, asked, stale>>
  <2>1. lock[Root] = [owner |-> Issuer, depth |-> 1]
    BY <1>3 DEF IInv, MonitorHeld, Inside, Leaving, LockedEnding
  <2>2. lock' = [lock EXCEPT ![Root] = [owner |-> None, depth |-> 0]]
    BY <2>1 DEF Unlock, Leave
  <2> QED BY <2>2 DEF Unlock, request, rest, history, IInv, TypeOK, Asyncs
<1>6. /\ Frames(Holding, Root)' = Frames(Holding, Root)
      /\ Frames({"callback"}, Root)' = Frames({"callback"}, Root)
      /\ Frames({"destroy"}, Root)' = Frames({"destroy"}, Root)
      /\ Frames(Starting, Root)' = Frames(Starting, Root)
      /\ Frames(Reporting, Root)' = Frames(Reporting, Root)
  BY <1>1, <1>4 DEF Holding, Starting, Reporting, One
<1>7. /\ \/ Todo(Issuer) = <<"unlock", "release", "-">> /\ Todo(Issuer)' = <<"release", "-", "-">>
         \/ /\ Todo(Issuer) = <<"unlock", "release", "notify">>
            /\ Todo(Issuer)' = <<"release", "notify", "-">>
         \/ Todo(Issuer) = <<"unlock", "-", "-">> /\ Todo(Issuer)' = <<"-", "-", "-">>
      /\ Doing(Issuer, 1)' \in {"release", "-"}
  <2>1. \/ Todo(Issuer) = <<"unlock", "release", "-">> /\ Todo(Issuer)' = <<"release", "-", "-">>
        \/ /\ Todo(Issuer) = <<"unlock", "release", "notify">>
           /\ Todo(Issuer)' = <<"release", "notify", "-">>
        \/ Todo(Issuer) = <<"unlock", "-", "-">> /\ Todo(Issuer)' = <<"-", "-", "-">>
    BY <1>3, <1>4 DEF Todo
  <2> QED BY <2>1 DEF Todo
<1>8. TypeOK'
  BY <1>4, <1>5 DEF IInv, TypeOK, Stacks
<1>9. OnlyRoot'
  BY <1>4, <1>5 DEF IInv, OnlyRoot
<1>10. FollowPrograms'
  <2>1. Todo(th)' \in Programs(th)
    BY <1>1, <1>3, <1>4 DEF Todo, Programs, IssuerPrograms, PollerPrograms, CancellerPrograms, WorkerPrograms,
       Ending, LockedEnding, Birth, Calling, Submitting, Leaving
  <2> QED BY <1>4, <2>1, OthersFollow
<1>11. MonitorHeld'
  BY <1>1, <1>3, <1>4, <1>5, <1>7 DEF IInv, MonitorHeld, Inside, Todo,
     Ending, LockedEnding, Submitting, Leaving
<1>12. Unseen'
  BY <1>1, <1>4, <1>5, <1>7 DEF IInv, Unseen, Birth, OthersStay, Threads
<1>13. Owed'
  BY <1>1, <1>5, <1>6 DEF IInv, TypeOK, Owed, One, Asyncs
<1>14. EndsOnce'
  BY <1>1, <1>5, <1>6 DEF IInv, EndsOnce, Ends, One
<1>15. Abortable'
  BY <1>1, <1>5, <1>7 DEF IInv, Abortable
<1>16. CallStarted'
  BY <1>1, <1>4, <1>5, <1>7 DEF IInv, CallStarted, OthersStay, Threads
<1>17. LateUsesConfined'
  BY <1>1, <1>5 DEF LateUsesConfined
<1> QED BY <1>4, <1>8, <1>9, <1>10, <1>11, <1>12, <1>13, <1>14, <1>15, <1>16, <1>17 DEF IInv

\* _cancel aborts the call: its packet will report it.
LEMMA CancelCallPreserves ==
  ASSUME IInv, NEW th \in Threads, Cancel(th, Root), CancelCall(th, Root)
  PROVE  IInv'
<1>1. /\ stale = {} /\ stack[th] # << >> /\ Doing(th, 1) = "_cancel" /\ life[Root] = "live"
      /\ stack \in Stacks /\ Todo(th) \in Programs(th) /\ Doing(th, 4) = "-"
      /\ \A ops : Frames(ops, Root) \in Nat /\ ("_cancel" \in ops => Frames(ops, Root) >= 1)
  BY Known DEF Cancel, Outside
<1>2. th # Issuer /\ Doing(th, 3) = "-" /\ th \notin Workers /\ Doing(th, 2) \in {"-", "release"}
  <2>1. th # Issuer /\ Doing(th, 3) = "-" /\ Doing(th, 2) \in {"-", "release"}
    BY <1>1 DEF Todo, Programs, IssuerPrograms, PollerPrograms, CancellerPrograms, WorkerPrograms,
       Ending, LockedEnding, Birth, Calling, Submitting, Leaving
  <2>2. Todo(th) \notin WorkerPrograms
    BY <1>1 DEF Todo, WorkerPrograms, Ending
  <2>3. Poller \notin Workers
    BY AsyncAssumption
  <2>4. Todo(th) # <<"-", "-", "-">>
    BY <1>1 DEF Todo
  <2> QED BY <1>1, <2>1, <2>2, <2>3, <2>4, AsyncAssumption DEF Programs
<1>3. Todo(Issuer) \notin Submitting \union Leaving \union LockedEnding
  <2>1. lock[Root].owner # Issuer
    BY <1>2, AsyncAssumption DEF Cancel, CanEnter, Threads
  <2> QED BY <2>1 DEF IInv, MonitorHeld, Inside
<1>4. /\ stack' \in Stacks /\ Finite(stack') /\ AllOfRoot' /\ OthersStay(th)
      /\ Todo(th)' = <<Doing(th, 2), "-", "-">> /\ Doing(th, 4)' = "-"
      /\ \A ops : Frames(ops, Root)' = Frames(ops, Root) - One("_cancel" \in ops)
  <2>1. Call(th, << >>)
    BY DEF CancelCall, Return
  <2> QED BY <1>1, <1>2, <2>1, Returns DEF IInv, OnlyRoot
<1>5. /\ io[Root] = "pending" /\ io' = [io EXCEPT ![Root] = "queued"] /\ io'[Root] = "queued"
      /\ handle' = [handle EXCEPT ![Root] = FALSE]
      /\ canceled' = [canceled EXCEPT ![Root] = TRUE] /\ canceled'[Root] = TRUE
      /\ UNCHANGED <<life, ref, lock, called, child, io_type, timer, completed, missed, early, asked, stale>>
  BY DEF Cancel, CancelCall, IInv, TypeOK, Asyncs
<1>6. /\ Frames(Holding, Root)' = Frames(Holding, Root)
      /\ Frames({"callback"}, Root)' = Frames({"callback"}, Root)
      /\ Frames({"destroy"}, Root)' = Frames({"destroy"}, Root)
      /\ Frames(Starting, Root)' = Frames(Starting, Root)
      /\ Frames(Reporting, Root)' = Frames(Reporting, Root)
  BY <1>1, <1>4 DEF Holding, Starting, Reporting, One
<1>7. th # Issuer /\ Todo(Issuer)' = Todo(Issuer) /\ Doing(Issuer, 1)' = Doing(Issuer, 1)
  BY <1>2, <1>4, StaysSame DEF OthersStay, Threads
<1>8. TypeOK'
  <2>1. io' \in [Asyncs -> {"none", "pending", "queued", "done"}]
    BY <1>5 DEF IInv, TypeOK
  <2>2. handle' \in [Asyncs -> BOOLEAN] /\ canceled' \in [Asyncs -> BOOLEAN]
    BY <1>5 DEF IInv, TypeOK
  <2> QED BY <1>4, <1>5, <2>1, <2>2 DEF IInv, TypeOK, Stacks
<1>9. OnlyRoot'
  BY <1>4, <1>5 DEF IInv, OnlyRoot
<1>10. FollowPrograms'
  <2>1. Todo(th)' \in Programs(th)
    BY <1>1, <1>3, <1>4 DEF Todo, Programs, IssuerPrograms, PollerPrograms, CancellerPrograms, WorkerPrograms,
       Ending, LockedEnding, Birth, Calling, Submitting, Leaving
  <2> QED BY <1>4, <2>1, OthersFollow
<1>11. MonitorHeld'
  BY <1>3, <1>5, <1>7 DEF IInv, MonitorHeld, Inside
<1>12. Unseen'
  BY <1>1, <1>4, <1>5, <1>7 DEF IInv, Unseen, Birth, OthersStay, Threads
<1>13. Owed'
  BY <1>1, <1>5, <1>6 DEF IInv, TypeOK, Owed, One, Asyncs
<1>14. EndsOnce'
  BY <1>1, <1>5, <1>6 DEF IInv, EndsOnce, Ends, One
<1>15. Abortable'
  <2>1. Doing(Issuer, 1) \notin {"send_enter", "submit", "acceptex"}
    BY <1>5 DEF IInv, CallStarted, Todo
  <2> QED BY <1>5, <1>7, <2>1 DEF IInv, Abortable
<1>16. CallStarted'
  BY <1>2, <1>4, <1>5, <1>7 DEF IInv, CallStarted, OthersStay, Threads
<1>17. LateUsesConfined'
  BY <1>1, <1>5 DEF LateUsesConfined
<1> QED BY <1>4, <1>8, <1>9, <1>10, <1>11, <1>12, <1>13, <1>14, <1>15, <1>16, <1>17 DEF IInv

\* Or it finds nothing to abort, and reports by itself.
LEMMA CancelDirectlyPreserves ==
  ASSUME IInv, NEW th \in Threads, Cancel(th, Root), CancelDirectly(th, Root)
  PROVE  IInv'
<1> DEFINE f == Frame("notify", Root)
<1>1. /\ stale = {} /\ stack[th] # << >> /\ Doing(th, 1) = "_cancel" /\ life[Root] = "live"
      /\ stack \in Stacks /\ Todo(th) \in Programs(th) /\ Doing(th, 4) = "-"
      /\ \A ops : Frames(ops, Root) \in Nat /\ ("_cancel" \in ops => Frames(ops, Root) >= 1)
  BY Known DEF Cancel, Outside
<1>2. th # Issuer /\ Doing(th, 3) = "-" /\ th \notin Workers /\ Doing(th, 2) \in {"-", "release"}
  <2>1. th # Issuer /\ Doing(th, 3) = "-" /\ Doing(th, 2) \in {"-", "release"}
    BY <1>1 DEF Todo, Programs, IssuerPrograms, PollerPrograms, CancellerPrograms, WorkerPrograms,
       Ending, LockedEnding, Birth, Calling, Submitting, Leaving
  <2>2. Todo(th) \notin WorkerPrograms
    BY <1>1 DEF Todo, WorkerPrograms, Ending
  <2>3. Poller \notin Workers
    BY AsyncAssumption
  <2>4. Todo(th) # <<"-", "-", "-">>
    BY <1>1 DEF Todo
  <2> QED BY <1>1, <2>1, <2>2, <2>3, <2>4, AsyncAssumption DEF Programs
<1>3. Todo(Issuer) \notin Submitting \union Leaving \union LockedEnding
  <2>1. lock[Root].owner # Issuer
    BY <1>2, AsyncAssumption DEF Cancel, CanEnter, Threads
  <2> QED BY <2>1 DEF IInv, MonitorHeld, Inside
<1>4. /\ stack' \in Stacks /\ Finite(stack') /\ AllOfRoot' /\ OthersStay(th)
      /\ Todo(th)' = <<"notify", Doing(th, 2), "-">> /\ Doing(th, 4)' = "-"
      /\ \A ops : Frames(ops, Root)' = Frames(ops, Root) - One("_cancel" \in ops)
                                            + One("notify" \in ops)
  <2>1. Call(th, <<f>>)
    BY DEF CancelDirectly
  <2>2. f \in FrameType /\ f.op = "notify" /\ f.async = Root
    BY FrameTypes DEF Operations
  <2> HIDE DEF f
  <2> QED BY <1>1, <1>2, <2>1, <2>2, GoesOn1 DEF IInv, OnlyRoot
<1>5. /\ ~(handle[Root] /\ io[Root] = "pending")
      /\ missed' = [missed EXCEPT ![Root] = @ \/ io[Root] # "none"]
      /\ missed'[Root] = (missed[Root] \/ io[Root] # "none")
      /\ canceled' = [canceled EXCEPT ![Root] = TRUE] /\ canceled'[Root] = TRUE
      /\ UNCHANGED <<life, ref, lock, called, child, handle, io_type, timer, io,
                     completed, early, asked, stale>>
  BY DEF Cancel, CancelDirectly, IInv, TypeOK, Asyncs
<1> HIDE DEF f
<1>6. /\ Frames(Holding, Root)' = Frames(Holding, Root)
      /\ Frames({"callback"}, Root)' = Frames({"callback"}, Root)
      /\ Frames({"destroy"}, Root)' = Frames({"destroy"}, Root)
      /\ Frames(Starting, Root)' = Frames(Starting, Root)
      /\ Frames(Reporting, Root)' = Frames(Reporting, Root) + 1
  <2>1. Frames(Holding, Root)' = Frames(Holding, Root)
    BY <1>1, <1>4 DEF Holding, One
  <2>2. Frames({"callback"}, Root)' = Frames({"callback"}, Root)
    BY <1>1, <1>4 DEF One
  <2>3. Frames({"destroy"}, Root)' = Frames({"destroy"}, Root)
    BY <1>1, <1>4 DEF One
  <2>4. Frames(Starting, Root)' = Frames(Starting, Root)
    BY <1>1, <1>4 DEF Starting, One
  <2>5. Frames(Reporting, Root)' = Frames(Reporting, Root) + 1
    BY <1>1, <1>4 DEF Reporting, One
  <2> QED BY <2>1, <2>2, <2>3, <2>4, <2>5
<1>7. th # Issuer /\ Todo(Issuer)' = Todo(Issuer) /\ Doing(Issuer, 1)' = Doing(Issuer, 1)
  BY <1>2, <1>4, StaysSame DEF OthersStay, Threads
<1>8. TypeOK'
  <2>1. missed' \in [Asyncs -> BOOLEAN]
    BY <1>5 DEF IInv, TypeOK
  <2>2. canceled' \in [Asyncs -> BOOLEAN]
    BY <1>5 DEF IInv, TypeOK
  <2> QED BY <1>4, <1>5, <2>1, <2>2 DEF IInv, TypeOK, Stacks
<1>9. OnlyRoot'
  BY <1>4, <1>5 DEF IInv, OnlyRoot
<1>10. FollowPrograms'
  <2>1. Todo(th)' \in Programs(th)
    BY <1>1, <1>3, <1>4 DEF Todo, Programs, IssuerPrograms, PollerPrograms, CancellerPrograms, WorkerPrograms,
       Ending, LockedEnding, Birth, Calling, Submitting, Leaving
  <2> QED BY <1>4, <2>1, OthersFollow
<1>11. MonitorHeld'
  BY <1>3, <1>5, <1>7 DEF IInv, MonitorHeld, Inside
<1>12. Unseen'
  BY <1>1, <1>4, <1>5, <1>7 DEF IInv, Unseen, Birth, OthersStay, Threads
<1>13. Owed'
  BY <1>1, <1>5, <1>6 DEF IInv, TypeOK, Owed, One, Asyncs
<1>14. EndsOnce'
  BY <1>1, <1>5, <1>6 DEF IInv, EndsOnce, Ends, One
<1>15. Abortable'
  BY <1>1, <1>5, <1>7 DEF IInv, Abortable
<1>16. CallStarted'
  BY <1>2, <1>4, <1>5, <1>7 DEF IInv, CallStarted, OthersStay, Threads
<1>17. LateUsesConfined'
  BY <1>1, <1>5 DEF LateUsesConfined
<1> QED BY <1>4, <1>8, <1>9, <1>10, <1>11, <1>12, <1>13, <1>14, <1>15, <1>16, <1>17 DEF IInv

\* If there is no such frame, no thread has one to do.
LEMMA NothingToDo ==
  ASSUME stack \in Stacks, Finite(stack), AllOfRoot, NEW ops, "-" \notin ops,
         Frames(ops, Root) = 0
  PROVE  \A th \in Threads : \A k : Doing(th, k) \notin ops
<1>1. \A th \in Threads : \A k \in DOMAIN stack[th] : ~IsOf(stack[th][k], ops, Root)
  BY NoFrames
<1> QED BY <1>1 DEF Doing, IsOf, AllOfRoot

Unheld ==
  stack \in Stacks /\ Finite(stack) /\ AllOfRoot /\ FollowPrograms /\ Frames(Holding, Root) = 0

\* A thread that is about to call back has a reference.
LEMMA CallbackHolds == Unheld => Frames({"callback"}, Root) = 0
<1> SUFFICES ASSUME stack \in Stacks, Finite(stack), AllOfRoot, FollowPrograms,
                    Frames(Holding, Root) = 0
             PROVE  Frames({"callback"}, Root) = 0
  BY DEF Unheld
<1>1. \A th \in Threads : \A k : Doing(th, k) \notin Holding
  <2>1. "-" \notin Holding
    BY DEF Holding
  <2> QED BY <2>1, NothingToDo
<1>2. ASSUME NEW th \in Threads, NEW k \in DOMAIN stack[th], IsOf(stack[th][k], {"callback"}, Root)
      PROVE  FALSE
  <2>1. Doing(th, k) = "callback"
    BY <1>2 DEF Doing, IsOf
  <2>2. /\ Len(stack[th]) \in Nat /\ k \in 1..Len(stack[th])
        /\ 4 > Len(stack[th])
    <3>1. Doing(th, 4) = "-"
      BY DEF FollowPrograms
    <3>2. /\ Len(stack[th]) \in Nat
          /\ \A j \in Nat \ {0} : Doing(th, j) = "-" <=> j > Len(stack[th])
      BY DoingType
    <3> QED BY <3>1, <3>2, <1>2 DEF Stacks
  <2>3. k = 1 \/ k = 2 \/ k = 3
    BY <2>2
  <2>4. Todo(th) \in Programs(th)
    BY DEF FollowPrograms
  <2>5. Doing(th, 2) # "release" /\ Doing(th, 1) # "release" /\ Doing(th, 3) # "release"
    BY <1>1 DEF Holding
  <2> QED BY <2>1, <2>3, <2>4, <2>5 DEF Todo, Programs, IssuerPrograms, PollerPrograms, CancellerPrograms, WorkerPrograms,
     Ending, LockedEnding, Birth, Calling, Submitting, Leaving
<1> QED BY <1>2, NoFrames

\* xf_async_release: whoever gives up the last reference destroys the operation.
LEMMA ReleasePreserves ==
  ASSUME IInv, NEW th \in Threads, Release(th, Root)
  PROVE  IInv'
<1> DEFINE more == ref[Root] > 1
           f == Frame("destroy", Root)
<1>1. /\ stale = {} /\ stack[th] # << >> /\ Doing(th, 1) = "release" /\ life[Root] = "live"
      /\ stack \in Stacks /\ Todo(th) \in Programs(th) /\ Doing(th, 4) = "-"
      /\ \A ops : Frames(ops, Root) \in Nat /\ ("release" \in ops => Frames(ops, Root) >= 1)
  BY Known DEF Release, Outside
<1>2. f \in FrameType /\ f.op = "destroy" /\ f.async = Root
  BY FrameTypes DEF Operations
<1>3. /\ ref[Root] = One(~called[Root]) + One(timer[Root] = "armed") + Frames(Holding, Root)
      /\ Frames(Holding, Root) >= 1 /\ Frames(Holding, Root) \in Nat /\ ref[Root] \in Nat
      /\ Frames({"destroy"}, Root) = 0 /\ Frames({"callback"}, Root) \in Nat
      /\ completed[Root] \in Nat
      /\ ~more => ref[Root] = 1 /\ called[Root] /\ timer[Root] # "armed" /\ Frames(Holding, Root) = 1
  <2>1. /\ ref[Root] = One(~called[Root]) + One(timer[Root] = "armed") + Frames(Holding, Root)
        /\ Frames(Holding, Root) >= 1 /\ Frames(Holding, Root) \in Nat /\ ref[Root] \in Nat
        /\ Frames({"callback"}, Root) \in Nat /\ Frames({"destroy"}, Root) \in Nat
        /\ completed[Root] \in Nat
    BY <1>1 DEF IInv, Owed, Holding, TypeOK, Asyncs
  <2>2. Frames({"destroy"}, Root) = 0
    BY <2>1 DEF IInv, Owed
  <2> QED BY <2>1, <2>2 DEF One
<1>4. /\ stack' \in Stacks /\ Finite(stack') /\ AllOfRoot' /\ OthersStay(th)
      /\ Todo(th)' = IF more THEN <<Doing(th, 2), Doing(th, 3), "-">>
                     ELSE <<"destroy", Doing(th, 2), Doing(th, 3)>>
      /\ Doing(th, 4)' = "-"
      /\ \A ops : Frames(ops, Root)' = Frames(ops, Root) - One("release" \in ops)
                                            + One(~more /\ "destroy" \in ops)
  <2> USE DEF IInv, OnlyRoot, One
  <2>1. CASE more
    <3>1. Call(th, << >>)
      BY <2>1 DEF Release
    <3> HIDE DEF f
    <3> QED BY <1>1, <2>1, <3>1, Returns
  <2>2. CASE ~more
    <3>1. Call(th, <<f>>)
      BY <2>2 DEF Release
    <3> HIDE DEF f
    <3> QED BY <1>1, <1>2, <2>2, <3>1, GoesOn1
  <2> QED BY <2>1, <2>2
<1>5. /\ ref' = [ref EXCEPT ![Root] = @ - 1] /\ ref'[Root] = ref[Root] - 1
      /\ UNCHANGED <<life, lock, canceled, called, child, handle, io_type, timer, io,
                     completed, missed, early, asked, stale>>
  BY DEF Release, request, rest, history, IInv, TypeOK, Asyncs
<1> HIDE DEF f
<1>6. /\ Frames(Holding, Root)' = Frames(Holding, Root) - 1
      /\ Frames({"callback"}, Root)' = Frames({"callback"}, Root)
      /\ Frames({"destroy"}, Root)' = Frames({"destroy"}, Root) + One(~more)
      /\ Frames(Starting, Root)' = Frames(Starting, Root)
      /\ Frames(Reporting, Root)' = Frames(Reporting, Root)
  <2>1. CASE more
    <3>1. \A ops : /\ Frames(ops, Root) \in Nat
                   /\ Frames(ops, Root)' = Frames(ops, Root) - One("release" \in ops)
      BY <1>1, <1>4, <2>1 DEF One
    <3> QED BY <2>1, <3>1 DEF Holding, Starting, Reporting, One
  <2>2. CASE ~more
    <3>1. \A ops : /\ Frames(ops, Root) \in Nat
                   /\ Frames(ops, Root)' = Frames(ops, Root) - One("release" \in ops)
                                              + One("destroy" \in ops)
      BY <1>1, <1>4, <2>2 DEF One
    <3> QED BY <2>2, <3>1 DEF Holding, Starting, Reporting, One
  <2> QED BY <2>1, <2>2
<1>7. /\ th # Issuer => Todo(Issuer)' = Todo(Issuer) /\ Doing(Issuer, 1)' = Doing(Issuer, 1)
      /\ th = Issuer =>
           /\ Todo(Issuer) \in {<<"release", "-", "-">>, <<"release", "notify", "-">>,
                <<"release", "async_notify", "-">>, <<"release", "async_notify", "unlock">>,
                <<"release", "unlock", "-">>}
           /\ Doing(Issuer, 1)' \in {"destroy", "-", "notify", "async_notify", "unlock"}
  <2>1. th # Issuer => Todo(Issuer)' = Todo(Issuer) /\ Doing(Issuer, 1)' = Doing(Issuer, 1)
    BY <1>4, StaysSame DEF OthersStay, Threads
  <2>2. th = Issuer => Todo(Issuer) \in {<<"release", "-", "-">>, <<"release", "notify", "-">>,
                <<"release", "async_notify", "-">>, <<"release", "async_notify", "unlock">>,
                <<"release", "unlock", "-">>}
    BY <1>1 DEF Todo, Programs, IssuerPrograms,
       Ending, LockedEnding, Birth, Calling, Submitting, Leaving
  <2>3. th = Issuer => Doing(Issuer, 1)' \in {"destroy", "-", "notify", "async_notify", "unlock"}
    BY <1>4, <2>2 DEF Todo
  <2> QED BY <2>1, <2>2, <2>3
<1>8. TypeOK'
  <2>1. ref' \in [Asyncs -> Nat]
    BY <1>3, <1>5 DEF IInv, TypeOK, Asyncs
  <2> QED BY <1>4, <1>5, <2>1 DEF IInv, TypeOK, Stacks
<1>9. OnlyRoot'
  BY <1>4, <1>5 DEF IInv, OnlyRoot
<1>10. FollowPrograms'
  <2>1. Todo(th)' \in Programs(th)
    BY <1>1, <1>4 DEF Todo, Programs, IssuerPrograms, PollerPrograms, CancellerPrograms, WorkerPrograms,
       Ending, LockedEnding, Birth, Calling, Submitting, Leaving
  <2> QED BY <1>4, <2>1, OthersFollow
<1>11. MonitorHeld'
  <2>1. CASE th # Issuer
    BY <1>5, <1>7, <2>1 DEF IInv, MonitorHeld, Inside
  <2>2. CASE th = Issuer
    <3>1. /\ Todo(Issuer) \notin Submitting \union Leaving
          /\ Todo(Issuer) \in LockedEnding <=> Doing(Issuer, 2) = "unlock" \/ Doing(Issuer, 3) = "unlock"
      BY <1>7, <2>2 DEF Todo, LockedEnding, Submitting, Leaving
    <3>2. /\ Todo(Issuer)' \notin Submitting \union Leaving
          /\ Todo(Issuer)' \in LockedEnding <=> Doing(Issuer, 2) = "unlock" \/ Doing(Issuer, 3) = "unlock"
      BY <1>4, <1>7, <2>2 DEF Todo, LockedEnding, Submitting, Leaving
    <3> QED BY <1>5, <3>1, <3>2 DEF IInv, MonitorHeld, Inside
  <2> QED BY <2>1, <2>2
<1>12. Unseen'
  <2>1. Doing(Issuer, 1)' # "new" /\ Doing(Issuer, 1) # "new"
    BY <1>1, <1>7 DEF IInv, Unseen
  <2>2. Todo(Issuer)' \notin Birth
    <3>1. CASE th = Issuer
      BY <1>7, <3>1 DEF Todo, Birth
    <3>2. CASE th # Issuer
      BY <1>1, <1>7, <3>2 DEF IInv, Unseen
    <3> QED BY <3>1, <3>2
  <2> QED BY <1>1, <1>4, <1>5, <2>1, <2>2 DEF IInv, Unseen, OthersStay, Threads
<1>13. Owed'
  <2>1. ref'[Root] = One(~called'[Root]) + One(timer'[Root] = "armed") + Frames(Holding, Root)'
    BY <1>3, <1>5, <1>6 DEF One
  <2>2. ~more => Frames({"callback"}, Root)' = 0
    <3>1. Unheld' => (Frames({"callback"}, Root) = 0)'
      BY CallbackHolds, PTL
    <3>2. ~more => Unheld'
      BY <1>3, <1>4, <1>6, <1>10 DEF Unheld
    <3> QED BY <3>1, <3>2
  <2>3. ~more => completed[Root] = 1
    BY <1>3, <1>6, <2>2 DEF IInv, Owed, One
  <2>4. Owed
    BY DEF IInv
  <2>5. ~more => called[Root] /\ Frames(Holding, Root)' = 0 /\ timer[Root] # "armed"
    BY <1>3, <1>6 DEF One
  <2>6. Frames({"destroy"}, Root)' <= 1 /\ life'[Root] = "live"
    BY <1>1, <1>3, <1>5, <1>6 DEF One
  <2>7. Frames({"callback"}, Root)' + completed'[Root] = One(called'[Root])
    BY <1>5, <1>6, <2>4 DEF Owed
  <2> QED BY <1>3, <1>5, <1>6, <2>1, <2>3, <2>5, <2>6, <2>7 DEF Owed, One
<1>14. EndsOnce'
  BY <1>1, <1>5, <1>6 DEF IInv, EndsOnce, Ends, One
<1>15. Abortable'
  BY <1>1, <1>5, <1>7 DEF IInv, Abortable
<1>16. CallStarted'
  BY <1>1, <1>4, <1>5, <1>7 DEF IInv, CallStarted, OthersStay, Threads, Todo
<1>17. LateUsesConfined'
  BY <1>1, <1>5 DEF LateUsesConfined
<1> QED BY <1>4, <1>8, <1>9, <1>10, <1>11, <1>12, <1>13, <1>14, <1>15, <1>16, <1>17 DEF IInv

\* The operation is freed, once.
LEMMA DestroyPreserves ==
  ASSUME IInv, NEW th \in Threads, Destroy(th, Root)
  PROVE  IInv'
<1>1. /\ stale = {} /\ stack[th] # << >> /\ Doing(th, 1) = "destroy" /\ life[Root] = "live"
      /\ stack \in Stacks /\ Todo(th) \in Programs(th) /\ Doing(th, 4) = "-"
      /\ \A ops : Frames(ops, Root) \in Nat /\ ("destroy" \in ops => Frames(ops, Root) >= 1)
  BY Known DEF Destroy, Outside
<1>3. /\ Frames({"destroy"}, Root) >= 1 /\ Frames({"destroy"}, Root) \in Nat
      /\ called[Root] /\ completed[Root] = 1 /\ Frames(Holding, Root) = 0 /\ timer[Root] # "armed"
  BY <1>1 DEF IInv, Owed
<1>4. /\ stack' \in Stacks /\ Finite(stack') /\ AllOfRoot' /\ OthersStay(th)
      /\ Todo(th)' = <<Doing(th, 2), Doing(th, 3), "-">> /\ Doing(th, 4)' = "-"
      /\ \A ops : Frames(ops, Root)' = Frames(ops, Root) - One("destroy" \in ops)
  <2>1. Call(th, << >>)
    BY DEF Destroy, Return
  <2> QED BY <1>1, <2>1, Returns DEF IInv, OnlyRoot
<1>5. /\ life' = [life EXCEPT ![Root] = "freed"] /\ life'[Root] = "freed" /\ child' = child
      /\ UNCHANGED <<ref, lock, canceled, called, handle, io_type, timer, io,
                     completed, missed, early, asked, stale>>
  <2>1. Parent(Root) = None /\ None \notin Asyncs
    BY AsyncAssumption DEF Parent
  <2>2. child' = child
    BY <2>1 DEF Destroy, IInv, TypeOK
  <2>3. timer' = timer
    BY <1>3 DEF Destroy, IInv, TypeOK
  <2>4. life'[Root] = "freed"
    BY DEF Destroy, IInv, TypeOK, Asyncs
  <2> QED BY <2>2, <2>3, <2>4 DEF Destroy, request, rest, history
<1>6. /\ Frames(Holding, Root)' = Frames(Holding, Root)
      /\ Frames({"callback"}, Root)' = Frames({"callback"}, Root)
      /\ Frames({"destroy"}, Root)' = Frames({"destroy"}, Root) - 1
      /\ Frames(Starting, Root)' = Frames(Starting, Root)
      /\ Frames(Reporting, Root)' = Frames(Reporting, Root)
  <2>1. Frames(Holding, Root)' = Frames(Holding, Root)
    BY <1>1, <1>4 DEF Holding, One
  <2>2. Frames({"callback"}, Root)' = Frames({"callback"}, Root)
    BY <1>1, <1>4 DEF One
  <2>3. Frames({"destroy"}, Root)' = Frames({"destroy"}, Root) - 1
    BY <1>1, <1>4 DEF One
  <2>4. Frames(Starting, Root)' = Frames(Starting, Root)
    BY <1>1, <1>4 DEF Starting, One
  <2>5. Frames(Reporting, Root)' = Frames(Reporting, Root)
    BY <1>1, <1>4 DEF Reporting, One
  <2> QED BY <2>1, <2>2, <2>3, <2>4, <2>5
<1>7. /\ th # Issuer => Todo(Issuer)' = Todo(Issuer) /\ Doing(Issuer, 1)' = Doing(Issuer, 1)
      /\ th = Issuer =>
           /\ Todo(Issuer) \in {<<"destroy", "-", "-">>, <<"destroy", "notify", "-">>,
                <<"destroy", "async_notify", "-">>, <<"destroy", "async_notify", "unlock">>,
                <<"destroy", "unlock", "-">>}
           /\ Doing(Issuer, 1)' \in {"-", "notify", "async_notify", "unlock"}
  <2>1. th # Issuer => Todo(Issuer)' = Todo(Issuer) /\ Doing(Issuer, 1)' = Doing(Issuer, 1)
    BY <1>4, StaysSame DEF OthersStay, Threads
  <2>2. th = Issuer => Todo(Issuer) \in {<<"destroy", "-", "-">>, <<"destroy", "notify", "-">>,
                <<"destroy", "async_notify", "-">>, <<"destroy", "async_notify", "unlock">>,
                <<"destroy", "unlock", "-">>}
    BY <1>1 DEF Todo, Programs, IssuerPrograms,
       Ending, LockedEnding, Birth, Calling, Submitting, Leaving
  <2>3. th = Issuer => Doing(Issuer, 1)' \in {"-", "notify", "async_notify", "unlock"}
    BY <1>4, <2>2 DEF Todo
  <2> QED BY <2>1, <2>2, <2>3
<1>8. TypeOK'
  <2>1. life' \in [Asyncs -> {"none", "live", "freed"}]
    BY <1>5 DEF IInv, TypeOK
  <2> QED BY <1>4, <1>5, <2>1 DEF IInv, TypeOK, Stacks
<1>9. OnlyRoot'
  BY <1>4, <1>5 DEF IInv, OnlyRoot
<1>10. FollowPrograms'
  <2>1. Todo(th)' \in Programs(th)
    BY <1>1, <1>4 DEF Todo, Programs, IssuerPrograms, PollerPrograms, CancellerPrograms, WorkerPrograms,
       Ending, LockedEnding, Birth, Calling, Submitting, Leaving
  <2> QED BY <1>4, <2>1, OthersFollow
<1>11. MonitorHeld'
  <2>1. CASE th # Issuer
    BY <1>5, <1>7, <2>1 DEF IInv, MonitorHeld, Inside
  <2>2. CASE th = Issuer
    <3>1. /\ Todo(Issuer) \notin Submitting \union Leaving
          /\ Todo(Issuer) \in LockedEnding <=> Doing(Issuer, 2) = "unlock" \/ Doing(Issuer, 3) = "unlock"
      BY <1>7, <2>2 DEF Todo, LockedEnding, Submitting, Leaving
    <3>2. /\ Todo(Issuer)' \notin Submitting \union Leaving
          /\ Todo(Issuer)' \in LockedEnding <=> Doing(Issuer, 2) = "unlock" \/ Doing(Issuer, 3) = "unlock"
      BY <1>4, <1>7, <2>2 DEF Todo, LockedEnding, Submitting, Leaving
    <3> QED BY <1>5, <3>1, <3>2 DEF IInv, MonitorHeld, Inside
  <2> QED BY <2>1, <2>2
<1>12. Unseen'
  <2>1. Doing(Issuer, 1)' # "new"
    BY <1>1, <1>7 DEF IInv, Unseen
  <2>2. Todo(Issuer)' \notin Birth
    <3>1. CASE th = Issuer
      BY <1>7, <3>1 DEF Todo, Birth
    <3>2. CASE th # Issuer
      BY <1>1, <1>7, <3>2 DEF IInv, Unseen
    <3> QED BY <3>1, <3>2
  <2> QED BY <1>1, <1>4, <1>5, <2>1, <2>2 DEF IInv, Unseen, OthersStay, Threads
<1>13. Owed'
  <2>1. Frames({"callback"}, Root) + completed[Root] = One(called[Root])
    BY DEF IInv, Owed
  <2>2. Frames({"destroy"}, Root) = 1
    BY <1>1, <1>3 DEF IInv, Owed, One
  <2>3. Frames(Holding, Root)' = 0 /\ Frames({"destroy"}, Root)' = 0
    BY <1>3, <1>6, <2>2
  <2>4. Frames({"callback"}, Root)' + completed'[Root] = One(called'[Root])
    BY <1>5, <1>6, <2>1
  <2> QED BY <1>3, <1>5, <2>3, <2>4 DEF Owed, One
<1>14. EndsOnce'
  BY <1>1, <1>5, <1>6 DEF IInv, EndsOnce, Ends, One
<1>15. Abortable'
  BY <1>1, <1>5, <1>7 DEF IInv, Abortable
<1>16. CallStarted'
  BY <1>1, <1>4, <1>5, <1>7 DEF IInv, CallStarted, OthersStay, Threads, Todo
<1>17. LateUsesConfined'
  BY <1>1, <1>5 DEF LateUsesConfined
<1> QED BY <1>4, <1>8, <1>9, <1>10, <1>11, <1>12, <1>13, <1>14, <1>15, <1>16, <1>17 DEF IInv

\* What the stacks tell stays the same if they do.
LEMMA StacksSame ==
  ASSUME stack' = stack
  PROVE  /\ stack \in Stacks => stack' \in Stacks
         /\ Finite(stack)' = Finite(stack) /\ AllOfRoot' = AllOfRoot
         /\ \A th \in Threads : Todo(th)' = Todo(th)
         /\ \A th \in Threads, k \in Nat : Doing(th, k)' = Doing(th, k)
         /\ FollowPrograms' = FollowPrograms
         /\ \A ops : Frames(ops, Root)' = Frames(ops, Root)
<1>1. /\ \A th \in Threads : Todo(th)' = Todo(th)
      /\ \A th \in Threads, k \in Nat : Doing(th, k)' = Doing(th, k)
  BY DEF Todo, Doing
<1>2. FollowPrograms' = FollowPrograms
  BY <1>1 DEF FollowPrograms, Programs
<1> QED BY <1>1, <1>2 DEF Finite, Places, AllOfRoot, Frames

\* The kernel ends the call.
LEMMA IoEndsPreserves ==
  ASSUME IInv, IoEnds(Root)
  PROVE  IInv'
<1>4. /\ stack' = stack /\ stack' \in Stacks /\ Finite(stack)' /\ AllOfRoot' /\ FollowPrograms'
      /\ Todo(Issuer)' = Todo(Issuer) /\ Doing(Issuer, 1)' = Doing(Issuer, 1)
      /\ \A ops : Frames(ops, Root)' = Frames(ops, Root)
  BY StacksSame DEF IoEnds, IInv, OnlyRoot, TypeOK, Stacks, Threads
<1>5. /\ stale = {} /\ io[Root] = "pending" /\ io' = [io EXCEPT ![Root] = "queued"]
      /\ io'[Root] = "queued"
      /\ UNCHANGED <<life, ref, lock, canceled, called, child, handle, io_type, timer,
                     completed, missed, early, asked, stale>>
  BY DEF IoEnds, operation, request, rest, history, IInv, TypeOK, Asyncs
<1>6. TypeOK'
  <2>1. io' \in [Asyncs -> {"none", "pending", "queued", "done"}]
    BY <1>5 DEF IInv, TypeOK
  <2> QED BY <1>4, <1>5, <2>1 DEF IInv, TypeOK, Stacks
<1>7. OnlyRoot'
  BY <1>4, <1>5 DEF IInv, OnlyRoot
<1>8. FollowPrograms'
  BY <1>4
<1>9. MonitorHeld'
  BY <1>4, <1>5 DEF IInv, MonitorHeld, Inside
<1>10. Unseen'
  BY <1>4, <1>5 DEF IInv, Unseen
<1>11. Owed'
  BY <1>4, <1>5 DEF IInv, Owed
<1>12. EndsOnce'
  BY <1>4, <1>5 DEF IInv, EndsOnce, Ends, One
<1>13. Abortable'
  <2>1. Doing(Issuer, 1) \notin {"send_enter", "submit"}
    BY <1>5 DEF IInv, CallStarted, Todo
  <2> QED BY <1>4, <1>5, <2>1 DEF IInv, Abortable
<1>14. CallStarted'
  BY <1>4, <1>5 DEF IInv, CallStarted
<1>15. LateUsesConfined'
  BY <1>5 DEF LateUsesConfined
<1> QED BY <1>4, <1>6, <1>7, <1>8, <1>9, <1>10, <1>11, <1>12, <1>13, <1>14, <1>15 DEF IInv

\* The poll thread takes the timer out of the tree, and its reference.
LEMMA TimeoutFiresPreserves ==
  ASSUME IInv, TimeoutFires(Root)
  PROVE  IInv'
<1> DEFINE f == Frame("_cancel", Root)
           r == Frame("release", Root)
<1>1. /\ stale = {} /\ stack[Poller] = << >> /\ timer[Root] = "armed" /\ stack \in Stacks
      /\ Poller \in Threads /\ Poller # Issuer /\ Poller \notin Workers \union Cancellers
      /\ \A ops : Frames(ops, Root) \in Nat
  <2>1. stack \in Stacks /\ Finite(stack)
    BY DEF IInv, TypeOK, Stacks
  <2> QED BY <2>1, FramesType, AsyncAssumption DEF TimeoutFires, Threads
<1>2. /\ f \in FrameType /\ f.op = "_cancel" /\ f.async = Root
      /\ r \in FrameType /\ r.op = "release" /\ r.async = Root
  BY FrameTypes DEF Operations
<1>3. life[Root] # "none" /\ Todo(Issuer) \notin Birth
  <2>1. Todo(Issuer) \notin Birth
    BY <1>1 DEF IInv, Unseen
  <2>2. Doing(Issuer, 1) = "new" => Todo(Issuer) \in Birth
    BY DEF IInv, FollowPrograms, Todo, Programs, IssuerPrograms, Threads,
       Ending, LockedEnding, Birth, Calling, Submitting, Leaving
  <2> QED BY <2>1, <2>2 DEF IInv, Unseen
<1>4. /\ stack' \in Stacks /\ Finite(stack') /\ AllOfRoot' /\ OthersStay(Poller)
      /\ Todo(Poller)' = <<"_cancel", "release", "-">> /\ Doing(Poller, 4)' = "-"
      /\ \A ops : Frames(ops, Root)' = Frames(ops, Root) + One("_cancel" \in ops)
                                            + One("release" \in ops)
  <2>1. stack' = [stack EXCEPT ![Poller] = <<f, r>>]
    BY DEF TimeoutFires
  <2> HIDE DEF f, r
  <2>2. Finite(stack) /\ AllOfRoot
    BY DEF IInv, OnlyRoot
  <2>3. /\ stack' \in Stacks /\ Finite(stack') /\ AllOfRoot' /\ OthersStay(Poller)
        /\ Todo(Poller)' = <<f.op, r.op, "-">> /\ Doing(Poller, 4)' = "-"
        /\ \A ops : Frames(ops, Root)' = Frames(ops, Root) + One(f.op \in ops) + One(r.op \in ops)
    <3>1. f.op # "-" /\ r.op # "-"
      BY <1>2
    <3> QED BY ONLY <1>1, <1>2, <2>1, <2>2, <3>1, GoesIn2
  <2> QED BY <1>2, <2>3
<1>5. /\ timer' = [timer EXCEPT ![Root] = "gone"] /\ timer'[Root] = "gone"
      /\ UNCHANGED <<life, ref, lock, canceled, called, child, handle, io_type, io,
                     completed, missed, early, asked, stale>>
  BY DEF TimeoutFires, request, rest, history, IInv, TypeOK, Asyncs
<1> HIDE DEF f, r
<1>6. /\ Frames(Holding, Root)' = Frames(Holding, Root) + 1
      /\ Frames({"callback"}, Root)' = Frames({"callback"}, Root)
      /\ Frames({"destroy"}, Root)' = Frames({"destroy"}, Root)
      /\ Frames(Starting, Root)' = Frames(Starting, Root)
      /\ Frames(Reporting, Root)' = Frames(Reporting, Root)
  BY <1>1, <1>4 DEF Holding, Starting, Reporting, One
<1>7. Todo(Issuer)' = Todo(Issuer) /\ Doing(Issuer, 1)' = Doing(Issuer, 1)
  BY <1>1, <1>4, StaysSame DEF OthersStay, Threads
<1>8. TypeOK'
  <2>1. timer' \in [Asyncs -> {"idle", "armed", "gone"}]
    BY <1>5 DEF IInv, TypeOK
  <2> QED BY <1>4, <1>5, <2>1 DEF IInv, TypeOK, Stacks
<1>9. OnlyRoot'
  BY <1>4, <1>5 DEF IInv, OnlyRoot
<1>10. FollowPrograms'
  <2>1. Todo(Poller)' \in Programs(Poller)
    BY <1>1, <1>4 DEF Programs, PollerPrograms
  <2> QED BY <1>1, <1>4, <2>1, OthersFollow
<1>11. MonitorHeld'
  BY <1>5, <1>7 DEF IInv, MonitorHeld, Inside
<1>12. Unseen'
  BY <1>1, <1>3, <1>4, <1>5, <1>7 DEF IInv, Unseen, OthersStay, Threads
<1>13. Owed'
  BY <1>1, <1>3, <1>5, <1>6 DEF IInv, Owed, One, TypeOK, Asyncs
<1>14. EndsOnce'
  BY <1>1, <1>5, <1>6 DEF IInv, EndsOnce, Ends, One
<1>15. Abortable'
  BY <1>1, <1>5, <1>7 DEF IInv, Abortable
<1>16. CallStarted'
  BY <1>1, <1>4, <1>5, <1>7 DEF IInv, CallStarted, OthersStay, Threads
<1>17. LateUsesConfined'
  BY <1>1, <1>5 DEF LateUsesConfined
<1> QED BY <1>4, <1>8, <1>9, <1>10, <1>11, <1>12, <1>13, <1>14, <1>15, <1>16, <1>17 DEF IInv

\* A worker gets the packet of the call and has something to do.
LEMMA PacketPreserves ==
  ASSUME IInv, NEW th \in Workers, stale = {}, stack[th] = << >>, io[Root] = "queued",
         NEW f \in FrameType, f.op \in {"notify", "accepted"}, f.async = Root,
         stack' = [stack EXCEPT ![th] = <<f>>], io' = [io EXCEPT ![Root] = "done"],
         UNCHANGED <<operation, rest>>
  PROVE  IInv'
<1>1. /\ stale = {} /\ stack[th] = << >> /\ io[Root] = "queued" /\ stack \in Stacks
      /\ th \in Threads /\ th # Issuer /\ th # Poller /\ th \notin Cancellers
      /\ \A ops : Frames(ops, Root) \in Nat
  <2>1. stack \in Stacks /\ Finite(stack)
    BY DEF IInv, TypeOK, Stacks
  <2> QED BY <2>1, FramesType, AsyncAssumption DEF Threads
<1>4. /\ stack' \in Stacks /\ Finite(stack') /\ AllOfRoot' /\ OthersStay(th)
      /\ Todo(th)' = <<f.op, "-", "-">> /\ Doing(th, 4)' = "-"
      /\ \A ops : Frames(ops, Root)' = Frames(ops, Root) + One(f.op \in ops)
  <2>1. Finite(stack) /\ AllOfRoot /\ f.op # "-"
    BY DEF IInv, OnlyRoot
  <2> QED BY <1>1, <2>1, GoesIn1
<1>5. /\ io' = [io EXCEPT ![Root] = "done"] /\ io'[Root] = "done"
      /\ UNCHANGED <<life, ref, lock, canceled, called, child, handle, io_type, timer,
                     completed, missed, early, asked, stale>>
  BY DEF operation, request, rest, history, IInv, TypeOK, Asyncs
<1>6. /\ Frames(Holding, Root)' = Frames(Holding, Root)
      /\ Frames({"callback"}, Root)' = Frames({"callback"}, Root)
      /\ Frames({"destroy"}, Root)' = Frames({"destroy"}, Root)
      /\ Frames(Starting, Root)' = Frames(Starting, Root)
      /\ Frames(Reporting, Root)' = Frames(Reporting, Root) + 1
  BY <1>1, <1>4 DEF Holding, Starting, Reporting, One
<1>7. Todo(Issuer)' = Todo(Issuer) /\ Doing(Issuer, 1)' = Doing(Issuer, 1)
  BY <1>1, <1>4, StaysSame DEF OthersStay, Threads
<1>8. TypeOK'
  <2>1. io' \in [Asyncs -> {"none", "pending", "queued", "done"}]
    BY <1>5 DEF IInv, TypeOK
  <2> QED BY <1>4, <1>5, <2>1 DEF IInv, TypeOK, Stacks
<1>9. OnlyRoot'
  BY <1>4, <1>5 DEF IInv, OnlyRoot
<1>10. FollowPrograms'
  <2>1. Todo(th)' \in Programs(th)
    BY <1>1, <1>4 DEF Programs, WorkerPrograms, Ending
  <2> QED BY <1>1, <1>4, <2>1, OthersFollow
<1>11. MonitorHeld'
  BY <1>5, <1>7 DEF IInv, MonitorHeld, Inside
<1>12. Unseen'
  BY <1>1, <1>4, <1>5, <1>7 DEF IInv, Unseen, OthersStay, Threads
<1>13. Owed'
  BY <1>1, <1>5, <1>6 DEF IInv, TypeOK, Owed, One, Asyncs
<1>14. EndsOnce'
  BY <1>1, <1>5, <1>6 DEF IInv, EndsOnce, Ends, One
<1>15. Abortable'
  <2>1. Doing(Issuer, 1) \notin {"send_enter", "submit"}
    BY <1>1 DEF IInv, CallStarted, Todo
  <2> QED BY <1>1, <1>5, <1>7, <2>1 DEF IInv, Abortable
<1>16. CallStarted'
  BY <1>1, <1>5, <1>7 DEF IInv, CallStarted
<1>17. LateUsesConfined'
  BY <1>1, <1>5 DEF LateUsesConfined
<1> QED BY <1>4, <1>8, <1>9, <1>10, <1>11, <1>12, <1>13, <1>14, <1>15, <1>16, <1>17 DEF IInv

\* It notifies the operation.
LEMMA DequeuePreserves ==
  ASSUME IInv, NEW th \in Workers, Dequeue(th, Root)
  PROVE  IInv'
<1>1. PICK f \in {Frame("notify", Root), Success("notify", Root)} : stack' = [stack EXCEPT ![th] = <<f>>]
  BY DEF Dequeue
<1>2. f \in FrameType /\ f.op = "notify" /\ f.async = Root
  BY FrameTypes DEF Operations
<1> QED BY <1>1, <1>2, PacketPreserves DEF Dequeue

\* A user calls xf_async_cancel.
LEMMA AskPreserves ==
  ASSUME IInv, NEW th \in Cancellers, Ask(th)
  PROVE  IInv'
<1> DEFINE f == Frame("cancel", Root)
<1>1. /\ stale = {} /\ stack[th] = << >> /\ life[Root] = "live" /\ stack \in Stacks
      /\ th \in Threads /\ th # Issuer /\ th # Poller /\ th \notin Workers
      /\ \A ops : Frames(ops, Root) \in Nat
  <2>1. stack \in Stacks /\ Finite(stack)
    BY DEF IInv, TypeOK, Stacks
  <2> QED BY <2>1, FramesType, AsyncAssumption DEF Ask, Threads, IInv, Unseen
<1>2. f \in FrameType /\ f.op = "cancel" /\ f.async = Root
  BY FrameTypes DEF Operations
<1>3. Todo(Issuer) \notin Birth
  <2>1. Doing(Issuer, 1) # "new"
    BY <1>1 DEF IInv, Unseen
  <2>2. Doing(Issuer, 1) \notin {"add_timer_ref", "schedule"}
    BY DEF Ask, Doing, IInv, OnlyRoot, AllOfRoot, Threads
  <2> QED BY <2>1, <2>2 DEF Todo, Birth
<1>4. /\ stack' \in Stacks /\ Finite(stack') /\ AllOfRoot' /\ OthersStay(th)
      /\ Todo(th)' = <<"cancel", "-", "-">> /\ Doing(th, 4)' = "-"
      /\ \A ops : Frames(ops, Root)' = Frames(ops, Root) + One("cancel" \in ops)
  <2>1. stack' = [stack EXCEPT ![th] = <<f>>]
    BY DEF Ask
  <2> HIDE DEF f
  <2>2. Finite(stack) /\ AllOfRoot /\ f.op # "-"
    BY <1>2 DEF IInv, OnlyRoot
  <2> QED BY <1>1, <1>2, <2>1, <2>2, GoesIn1
<1>5. /\ asked' = asked \union {th}
      /\ UNCHANGED <<life, ref, lock, canceled, called, child, handle, io_type, timer, io,
                     completed, missed, early, stale>>
  BY DEF Ask, operation, request, history
<1> HIDE DEF f
<1>6. /\ Frames(Holding, Root)' = Frames(Holding, Root)
      /\ Frames({"callback"}, Root)' = Frames({"callback"}, Root)
      /\ Frames({"destroy"}, Root)' = Frames({"destroy"}, Root)
      /\ Frames(Starting, Root)' = Frames(Starting, Root)
      /\ Frames(Reporting, Root)' = Frames(Reporting, Root)
  BY <1>1, <1>4 DEF Holding, Starting, Reporting, One
<1>7. Todo(Issuer)' = Todo(Issuer) /\ Doing(Issuer, 1)' = Doing(Issuer, 1)
  BY <1>1, <1>4, StaysSame DEF OthersStay, Threads
<1>8. TypeOK'
  BY <1>4, <1>5 DEF IInv, TypeOK, Stacks
<1>9. OnlyRoot'
  BY <1>4, <1>5 DEF IInv, OnlyRoot
<1>10. FollowPrograms'
  <2>1. Todo(th)' \in Programs(th)
    BY <1>1, <1>4 DEF Programs, CancellerPrograms
  <2> QED BY <1>1, <1>4, <2>1, OthersFollow
<1>11. MonitorHeld'
  BY <1>5, <1>7 DEF IInv, MonitorHeld, Inside
<1>12. Unseen'
  BY <1>1, <1>3, <1>4, <1>5, <1>7 DEF IInv, Unseen, OthersStay, Threads
<1>13. Owed'
  BY <1>1, <1>5, <1>6 DEF IInv, TypeOK, Owed, One, Asyncs
<1>14. EndsOnce'
  BY <1>1, <1>5, <1>6 DEF IInv, EndsOnce, Ends, One
<1>15. Abortable'
  BY <1>1, <1>5, <1>7 DEF IInv, Abortable
<1>16. CallStarted'
  BY <1>1, <1>4, <1>5, <1>7 DEF IInv, CallStarted, OthersStay, Threads
<1>17. LateUsesConfined'
  BY <1>1, <1>5 DEF LateUsesConfined
<1> QED BY <1>4, <1>8, <1>9, <1>10, <1>11, <1>12, <1>13, <1>14, <1>15, <1>16, <1>17 DEF IInv

\* What is known when a thread is about to use the operation after it was freed.
LEMMA KnownLate ==
  ASSUME IInv, NEW th \in Threads, UseAfterFree(th)
  PROVE  /\ Head(stack[th]).async = Root /\ Todo(th) # <<"-", "-", "-">>
         /\ life[Root] = "freed" /\ called[Root] /\ Todo(th) \in Programs(th)
         /\ \A k : Doing(th, k) \notin Holding \union {"callback", "destroy"}
<1>1. /\ stack \in Stacks /\ Finite(stack) /\ AllOfRoot /\ stack[th] # << >>
      /\ Doing(th, 1) = Head(stack[th]).op /\ Head(stack[th]).async = Root /\ Doing(th, 1) # "-"
  <2>1. stack \in Stacks /\ Finite(stack) /\ AllOfRoot /\ stack[th] # << >>
    BY DEF IInv, TypeOK, Stacks, OnlyRoot, UseAfterFree
  <2> QED BY <2>1, DoingType
<1>2. Todo(th) \in Programs(th) /\ Todo(th) # <<"-", "-", "-">>
  BY <1>1 DEF Todo, IInv, FollowPrograms
<1>3. Doing(th, 1) # "new" /\ life[Root] # "live"
  BY <1>1, AsyncAssumption DEF UseAfterFree, Uses, Parent, Asyncs
<1>4. life[Root] = "freed"
  <2>1. Doing(Issuer, 1) # "new"
    <3>1. Doing(Issuer, 1) = "new" => Todo(Issuer) \in Birth
      BY DEF IInv, FollowPrograms, Todo, Programs, IssuerPrograms, Threads,
         Ending, LockedEnding, Birth, Calling, Submitting, Leaving
    <3> QED BY <1>1, <1>3, <3>1 DEF IInv, Unseen
  <2> QED BY <1>3, <2>1 DEF IInv, Unseen, TypeOK, Asyncs
<1>5. /\ called[Root] /\ Frames(Holding, Root) = 0 /\ Frames({"callback"}, Root) = 0
      /\ Frames({"destroy"}, Root) = 0
  <2>1. Frames({"callback"}, Root) \in Nat /\ Frames({"destroy"}, Root) \in Nat
    BY <1>1, FramesType
  <2> QED BY <1>4, <2>1 DEF IInv, Owed, One
<1>6. \A k : Doing(th, k) \notin Holding \union {"callback", "destroy"}
  <2>1. "-" \notin Holding /\ "-" \notin {"callback"} /\ "-" \notin {"destroy"}
    BY DEF Holding
  <2>2. \A k : Doing(th, k) \notin Holding
    BY <1>1, <1>5, <2>1, NothingToDo
  <2>3. \A k : Doing(th, k) \notin {"callback"}
    BY <1>1, <1>5, <2>1, NothingToDo
  <2>4. \A k : Doing(th, k) \notin {"destroy"}
    BY <1>1, <1>5, <2>1, NothingToDo
  <2> QED BY <2>2, <2>3, <2>4
<1> QED BY <1>1, <1>2, <1>4, <1>5, <1>6

\* It is not the only one that reports: somebody has cancelled the operation.
LEMMA LateIfCanceled ==
  ASSUME IInv, NEW th \in Threads, UseAfterFree(th), Ends = 1
  PROVE  Todo(th) \in Programs(th) \ (WorkerPrograms \union Calling \union Submitting)
<1>1. /\ Todo(th) # <<"-", "-", "-">> /\ called[Root] /\ Todo(th) \in Programs(th)
      /\ \A k : Doing(th, k) \notin Holding \union {"callback", "destroy"}
  BY KnownLate
<1>2. stack \in Stacks /\ Finite(stack) /\ AllOfRoot
  BY DEF IInv, TypeOK, Stacks, OnlyRoot
<1>3. Frames(Starting, Root) = 0 /\ Frames(Reporting, Root) = 0
  <2>1. Frames(Starting, Root) \in Nat /\ Frames(Reporting, Root) \in Nat
    BY <1>2, FramesType
  <2> QED BY <1>1, <2>1 DEF Ends, One
<1>4. \A k : Doing(th, k) \notin Starting
  <2>1. "-" \notin Starting
    BY DEF Starting
  <2> QED BY <1>2, <1>3, <2>1, NothingToDo
<1>5. \A k : Doing(th, k) \notin Reporting
  <2>1. "-" \notin Reporting
    BY DEF Reporting
  <2> QED BY <1>2, <1>3, <2>1, NothingToDo
<1> QED BY <1>1, <1>4, <1>5 DEF Todo, WorkerPrograms, Ending, Calling, Submitting,
       Starting, Reporting, Holding

\* A thread uses the operation after it was freed: the behaviour ends here.
LEMMA UseAfterFreePreserves ==
  ASSUME IInv, NEW th \in Threads, UseAfterFree(th)
  PROVE  IInv'
<1>1. /\ stack' = stack /\ stack' \in Stacks /\ Finite(stack)' /\ AllOfRoot' /\ FollowPrograms'
      /\ Todo(Issuer)' = Todo(Issuer) /\ Doing(Issuer, 1)' = Doing(Issuer, 1)
      /\ \A ops : Frames(ops, Root)' = Frames(ops, Root)
  BY StacksSame DEF UseAfterFree, IInv, OnlyRoot, TypeOK, Stacks, Threads
<1>2. /\ stale' = {[thread |-> th, frame |-> Head(stack[th])]}
      /\ UNCHANGED <<life, ref, lock, canceled, called, child, handle, io_type, timer, io,
                     completed, missed, early, asked>>
  BY DEF UseAfterFree, operation, request, history
<1>3. /\ Head(stack[th]).async = Root /\ Todo(th) # <<"-", "-", "-">>
      /\ called[Root] /\ Todo(th) \in Programs(th)
      /\ \A k : Doing(th, k) \notin Holding \union {"callback", "destroy"}
  BY KnownLate
<1>4. th # Poller
  <2>1. Poller # Issuer
    BY AsyncAssumption
  <2>2. Todo(th) \notin PollerPrograms
    BY <1>3 DEF Todo, PollerPrograms, Holding
  <2> QED BY <1>3, <2>1, <2>2 DEF Programs
<1>5. th \in Cancellers \/ canceled[Root]
  <2> SUFFICES ASSUME th \notin Cancellers, ~canceled[Root]
               PROVE  FALSE
    OBVIOUS
  <2>1. Todo(th) \in Programs(th) \ (WorkerPrograms \union Calling \union Submitting)
    BY LateIfCanceled DEF IInv, EndsOnce
  <2>2. th = Issuer
    BY <1>3, <1>4, <2>1 DEF Programs
  <2>3. Todo(Issuer) \notin LockedEnding
    BY DEF IInv, MonitorHeld
  <2>4. Todo(Issuer) \notin Birth
    BY <1>3 DEF IInv, Unseen
  <2>5. Todo(Issuer) \in Leaving \union {<<"release", "notify", "-">>, <<"destroy", "notify", "-">>}
    BY <2>1, <2>2, <2>3, <2>4 DEF Programs, IssuerPrograms, WorkerPrograms
  <2> QED BY <1>3, <2>2, <2>5 DEF Todo, Leaving, Holding
<1>6. th = Issuer => io[Root] = "none"
  BY <1>3 DEF IInv, CallStarted, Todo, Holding
<1>7. th \in Workers => missed[Root] \/ early[Root]
  <2> SUFFICES ASSUME th \in Workers, ~missed[Root], ~early[Root]
               PROVE  FALSE
    OBVIOUS
  <2>1. io[Root] # "none"
    BY DEF IInv, CallStarted, UseAfterFree
  <2>2. Todo(th) \notin WorkerPrograms
    BY <2>1, LateIfCanceled DEF IInv, EndsOnce
  <2>3. th # Issuer /\ th \notin Cancellers
    BY AsyncAssumption
  <2> QED BY <1>3, <1>4, <2>2, <2>3 DEF Programs
<1>8. LateUsesConfined'
  BY <1>2, <1>3, <1>4, <1>5, <1>6, <1>7 DEF LateUsesConfined
<1>9. TypeOK' /\ OnlyRoot'
  BY <1>1, <1>2 DEF IInv, TypeOK, Stacks, OnlyRoot
<1>10. MonitorHeld' /\ Unseen'
  BY <1>1, <1>2 DEF IInv, MonitorHeld, Inside, Unseen
<1>11. Owed' /\ EndsOnce'
  BY <1>1, <1>2 DEF IInv, Owed, EndsOnce, Ends
<1>12. Abortable' /\ CallStarted'
  BY <1>1, <1>2 DEF IInv, Abortable, CallStarted
<1> QED BY <1>1, <1>8, <1>9, <1>10, <1>11, <1>12 DEF IInv

-----------------------------------------------------------------------------
(* The invariant is inductive *)

\* Nobody executes frames of other operations.
LEMMA OfRoot ==
  ASSUME IInv, NEW th \in Threads, NEW a, NEW op, At(th, op, a)
  PROVE  a = Root
<1>1. 1 \in DOMAIN stack[th] /\ Head(stack[th]) = stack[th][1]
  BY DEF IInv, TypeOK, At
<1> QED BY <1>1 DEF IInv, OnlyRoot, AllOfRoot, At

\* The frames of the issuer's calls are on its own stack.
LEMMA StartedByIssuer ==
  ASSUME IInv, NEW th \in Threads, NEW op \in Starting, At(th, op, Root)
  PROVE  th = Issuer
BY Known, Starter

\* A socket call, from the start to the overlapped call or the failure.
LEMMA CallsPreserve ==
  ASSUME IInv, Ops \subseteq SocketCalls, NEW th \in Threads,
         \/ Start(th, Root) \/ Receive(th, Root) \/ Send(th, Root) \/ SendEnter(th, Root)
         \/ Disconnect(th, Root) \/ Accept(th, Root) \/ Recv(th, Root) \/ SubmitSend(th, Root)
         \/ DisconnectEx(th, Root) \/ AcceptEx(th, Root)
  PROVE  IInv'
<1>1. th = Issuer
  <2>1. {"start", "receive", "send", "send_enter", "disconnect", "accept", "recv", "submit",
         "disconnectex", "acceptex"} = Starting
    BY DEF Starting
  <2>2. \E op \in Starting : At(th, op, Root)
    BY <2>1 DEF Start, Receive, Send, SendEnter, Disconnect, Accept, Recv, SubmitSend,
       DisconnectEx, AcceptEx
  <2> QED BY <2>2, StartedByIssuer
<1>2. /\ handle \in [Asyncs -> BOOLEAN] /\ Root \in Asyncs
      /\ io_type \in [Asyncs -> {"phase1", "phase2", "receive", "send", "accept", "disconnect"}]
  BY DEF IInv, TypeOK, Asyncs
<1>14. UNCHANGED rest => early' \in [Asyncs -> BOOLEAN] /\ UNCHANGED <<completed, missed, asked, stale>>
  BY DEF IInv, TypeOK, rest, history
<1>3. ASSUME NEW type \in {"receive", "send", "accept"}, SetRequest(Root, type)
      PROVE  /\ handle' \in [Asyncs -> BOOLEAN] /\ handle'[Root] /\ io_type'[Root] = type
             /\ io_type' \in [Asyncs -> {"phase1", "phase2", "receive", "send", "accept",
                                         "disconnect"}]
  BY <1>2, <1>3 DEF SetRequest
<1>4. CASE Start(th, Root)
  <2>1. PICK op \in Ops : Call(th, <<Frame(op, Root)>>)
    BY <1>4 DEF Start
  <2>2. op \in {"receive", "send", "send_enter", "disconnect", "accept", "acceptex", "notify"}
        /\ op \notin {"send_enter", "acceptex"}
    BY DEF SocketCalls
  <2>3. "start" \in Starting \ {"recv", "submit", "disconnectex"}
    BY DEF Starting
  <2>4. /\ UNCHANGED <<handle, io_type>>
        /\ UNCHANGED <<life, ref, lock, canceled, called, child, timer, io, rest>>
    BY <1>4 DEF Start, operation, request
  <2>5. At(Issuer, "start", Root)
    BY <1>1, <1>4 DEF Start
  <2> QED BY <1>14, <1>1, <1>2, <2>1, <2>2, <2>3, <2>4, <2>5, MovesOnPreserves
<1>5. CASE Receive(th, Root)
  <2>1. /\ At(Issuer, "receive", Root) /\ AsyncEnter(Issuer, Root, "recv")
        /\ UNCHANGED <<life, canceled, called, child, request, timer, io, rest>>
    BY <1>1, <1>5 DEF Receive
  <2> QED BY <2>1, EnterPreserves, EnterCanceledPreserves
<1>6. CASE Send(th, Root)
  <2>1. /\ At(Issuer, "send", Root) /\ SetRequest(Root, "send")
        /\ Call(Issuer, <<Frame("send_enter", Root)>>)
        /\ UNCHANGED <<life, ref, lock, canceled, called, child, timer, io, rest>>
    BY <1>1, <1>6 DEF Send
  <2>2. "send" \in Starting \ {"recv", "submit", "disconnectex"}
    BY DEF Starting
  <2>3. /\ handle' \in [Asyncs -> BOOLEAN] /\ handle'[Root] /\ io_type'[Root] = "send"
        /\ io_type' \in [Asyncs -> {"phase1", "phase2", "receive", "send", "accept", "disconnect"}]
    BY <2>1, <1>3
  <2> QED BY <1>14, <2>1, <2>2, <2>3, MovesOnPreserves
<1>7. CASE SendEnter(th, Root)
  <2>1. /\ At(Issuer, "send_enter", Root) /\ AsyncEnter(Issuer, Root, "submit")
        /\ UNCHANGED <<life, canceled, called, child, request, timer, io, rest>>
    BY <1>1, <1>7 DEF SendEnter
  <2> QED BY <2>1, EnterPreserves, EnterCanceledPreserves
<1>8. CASE Disconnect(th, Root)
  <2>1. /\ At(Issuer, "disconnect", Root)
        /\ UNCHANGED <<life, canceled, called, child, request, timer, io, rest>>
    BY <1>1, <1>8 DEF Disconnect
  <2>2. CASE AsyncEnter(Issuer, Root, "disconnectex")
    BY <2>1, <2>2, EnterPreserves, EnterCanceledPreserves
  <2>3. CASE Call(Issuer, <<Frame("notify", Root)>>) /\ UNCHANGED <<lock, ref>>
    <3>1. "disconnect" \in Starting \ {"recv", "submit", "disconnectex"}
      BY DEF Starting
    <3>2. /\ UNCHANGED <<handle, io_type>>
          /\ UNCHANGED <<life, ref, lock, canceled, called, child, timer, io, rest>>
      BY <2>1, <2>3 DEF request
    <3> QED BY <1>14, <1>2, <2>1, <2>3, <3>1, <3>2, MovesOnPreserves
  <2> QED BY <1>1, <1>8, <2>2, <2>3 DEF Disconnect
<1>9. CASE Accept(th, Root)
  <2>1. /\ At(Issuer, "accept", Root)
        /\ UNCHANGED <<life, ref, lock, canceled, called, child, timer, io, rest>>
        /\ "accept" \in Starting \ {"recv", "submit", "disconnectex"}
    BY <1>1, <1>9 DEF Accept, Starting
  <2>2. ASSUME SetRequest(Root, "accept"), NEW next \in {"acceptex", "notify"},
               Call(Issuer, <<Frame(next, Root)>>)
        PROVE  IInv'
    <3>1. /\ handle' \in [Asyncs -> BOOLEAN] /\ handle'[Root] /\ io_type'[Root] = "accept"
          /\ io_type' \in [Asyncs -> {"phase1", "phase2", "receive", "send", "accept",
                                      "disconnect"}]
      BY <2>2, <1>3
    <3> QED BY <1>14, <2>1, <2>2, <3>1, MovesOnPreserves
  <2>3. CASE Call(Issuer, <<Frame("notify", Root)>>) /\ UNCHANGED request
    <3>1. UNCHANGED <<handle, io_type>>
      BY <2>3 DEF request
    <3> QED BY <1>14, <1>2, <2>1, <2>3, <3>1, MovesOnPreserves
  <2> QED BY <1>1, <1>9, <2>2, <2>3 DEF Accept
<1>10. CASE Recv(th, Root)
  <2>1. /\ At(Issuer, "recv", Root) /\ SetRequest(Root, "receive")
        /\ Submit(Issuer, Root, AsyncLeave(Root))
        /\ UNCHANGED <<life, ref, lock, canceled, called, child, timer, rest>>
    BY <1>1, <1>10 DEF Recv
  <2>2. /\ handle' \in [Asyncs -> BOOLEAN] /\ handle'[Root] /\ io_type'[Root] = "receive"
        /\ io_type' \in [Asyncs -> {"phase1", "phase2", "receive", "send", "accept", "disconnect"}]
    BY <2>1, <1>3
  <2> QED BY <2>1, <2>2, SubmitPreserves, SubmitFailsPreserves DEF Submit
<1>11. CASE SubmitSend(th, Root)
  <2>1. /\ At(Issuer, "submit", Root) /\ Submit(Issuer, Root, AsyncLeave(Root))
        /\ UNCHANGED <<handle, io_type>>
        /\ UNCHANGED <<life, ref, lock, canceled, called, child, timer, rest>>
    BY <1>1, <1>11 DEF SubmitSend, operation, request
  <2>2. handle[Root] /\ io_type[Root] = "send"
    <3>1. Doing(Issuer, 1) = "submit" /\ Issuer \in Threads
      BY <2>1, Known DEF Threads
    <3> QED BY <3>1 DEF IInv, Abortable
  <2> QED BY <1>2, <2>1, <2>2, SubmitPreserves, SubmitFailsPreserves DEF Submit
<1>12. CASE DisconnectEx(th, Root)
  <2>1. /\ At(Issuer, "disconnectex", Root) /\ Submit(Issuer, Root, AsyncLeave(Root))
        /\ UNCHANGED handle /\ io_type' = [io_type EXCEPT ![Root] = "disconnect"]
        /\ UNCHANGED <<life, ref, lock, canceled, called, child, timer, rest>>
    BY <1>1, <1>12 DEF DisconnectEx
  <2>2. /\ io_type'[Root] = "disconnect" /\ handle' \in [Asyncs -> BOOLEAN]
        /\ io_type' \in [Asyncs -> {"phase1", "phase2", "receive", "send", "accept", "disconnect"}]
    BY <1>2, <2>1
  <2> QED BY <2>1, <2>2, SubmitPreserves, SubmitFailsPreserves DEF Submit
<1>13. CASE AcceptEx(th, Root)
  <2>1. /\ At(Issuer, "acceptex", Root) /\ Submit(Issuer, Root, << >>)
        /\ early' = [early EXCEPT ![Root] = canceled[Root]] /\ early' \in [Asyncs -> BOOLEAN]
        /\ UNCHANGED <<operation, completed, missed, asked, stale>>
    BY <1>1, <1>2, <1>13 DEF AcceptEx, IInv, TypeOK
  <2>2. CASE io' = [io EXCEPT ![Root] = "pending"] /\ Call(Issuer, << >>)
    BY <2>1, <2>2, AcceptExPreserves DEF Return
  <2>3. CASE UNCHANGED io /\ Call(Issuer, << >> \o <<Frame("notify", Root)>>)
    <3>1. Call(Issuer, <<Frame("notify", Root)>>)
      <4>1. << >> \o <<Frame("notify", Root)>> = <<Frame("notify", Root)>>
        OBVIOUS
      <4> QED BY <2>3, <4>1
    <3>2. "acceptex" \in Starting \ {"recv", "submit", "disconnectex"}
      BY DEF Starting
    <3>3. /\ UNCHANGED <<handle, io_type>>
          /\ UNCHANGED <<life, ref, lock, canceled, called, child, timer, io, completed, missed,
                         asked, stale>>
      BY <2>1, <2>3 DEF operation, request
    <3> QED BY <1>14, <1>2, <2>1, <3>1, <3>2, <3>3, MovesOnPreserves
  <2> QED BY <2>1, <2>2, <2>3 DEF Submit
<1> QED BY <1>4, <1>5, <1>6, <1>7, <1>8, <1>9, <1>10, <1>11, <1>12, <1>13

\* _cancel: there is no child to cancel.
LEMMA CancelPreserves ==
  ASSUME IInv, NEW th \in Threads, Cancel(th, Root)
  PROVE  IInv'
<1>1. ~CancelChild(th, Root)
  BY DEF CancelChild, IInv, OnlyRoot, Asyncs
<1> QED BY <1>1, CancelCallPreserves, CancelDirectlyPreserves DEF Cancel

\* The steps of a thread.
LEMMA StepPreserves ==
  ASSUME IInv, Ops \subseteq SocketCalls, NEW th \in Threads, Step(th)
  PROVE  IInv'
<1>1. CASE UseAfterFree(th)
  BY <1>1, UseAfterFreePreserves
<1>2. ASSUME NEW a \in Asyncs, Execute(th, a)
      PROVE  IInv'
  <2>1. \E op : At(th, op, a)
    BY <1>2 DEF Execute, New, AddTimerRef, Schedule, Start, Receive, Send, SendEnter,
       Disconnect, Accept, Recv, SubmitSend, DisconnectEx, AcceptEx, Notify, AsyncNotify,
       Callback, CallbackThen, AsyncCancel, Cancel, Release, Destroy, Unlock
  <2>2. Execute(th, Root)
    BY <1>2, <2>1, OfRoot
  <2>3. CASE \/ Start(th, Root) \/ Receive(th, Root) \/ Send(th, Root) \/ SendEnter(th, Root)
             \/ Disconnect(th, Root) \/ Accept(th, Root) \/ Recv(th, Root)
             \/ SubmitSend(th, Root) \/ DisconnectEx(th, Root) \/ AcceptEx(th, Root)
    BY <2>3, CallsPreserve
  <2>4. CASE New(th, Root) \/ AddTimerRef(th, Root) \/ Schedule(th, Root)
    BY <2>4, NewPreserves, AddTimerRefPreserves, SchedulePreserves
  <2>5. CASE Notify(th, Root) \/ AsyncNotify(th, Root) \/ Callback(th, Root)
    BY <2>5, NotifyPreserves, AsyncNotifyPreserves, CallbackPreserves
  <2>6. CASE AsyncCancel(th, Root) \/ Cancel(th, Root)
    BY <2>6, AsyncCancelPreserves, CancelPreserves
  <2>7. CASE Release(th, Root) \/ Destroy(th, Root) \/ Unlock(th, Root)
    BY <2>7, ReleasePreserves, DestroyPreserves, UnlockPreserves
  <2> QED BY <2>2, <2>3, <2>4, <2>5, <2>6, <2>7 DEF Execute
<1> QED BY <1>1, <1>2 DEF Step

\* Every step preserves the invariant.
LEMMA Inductive ==
  ASSUME Ops \subseteq SocketCalls, IInv, [Next]_vars
  PROVE  IInv'
<1>1. CASE UNCHANGED vars
  <2>1. /\ stack' = stack
        /\ UNCHANGED <<life, ref, lock, canceled, called, child, handle, io_type, timer, io,
                       completed, missed, early, asked, stale>>
    BY <1>1 DEF vars, operation, request, history
  <2>2. /\ stack' \in Stacks /\ Finite(stack)' /\ AllOfRoot' /\ FollowPrograms'
        /\ Todo(Issuer)' = Todo(Issuer) /\ Doing(Issuer, 1)' = Doing(Issuer, 1)
        /\ \A ops : Frames(ops, Root)' = Frames(ops, Root)
    BY <2>1, StacksSame DEF IInv, OnlyRoot, TypeOK, Stacks, Threads
  <2>3. TypeOK' /\ OnlyRoot'
    BY <2>1, <2>2 DEF IInv, TypeOK, Stacks, OnlyRoot
  <2>4. MonitorHeld' /\ Unseen'
    BY <2>1, <2>2 DEF IInv, MonitorHeld, Inside, Unseen
  <2>5. Owed' /\ EndsOnce'
    BY <2>1, <2>2 DEF IInv, Owed, EndsOnce, Ends
  <2>6. Abortable' /\ CallStarted' /\ LateUsesConfined'
    BY <2>1, <2>2 DEF IInv, Abortable, CallStarted, LateUsesConfined
  <2> QED BY <2>2, <2>3, <2>4, <2>5, <2>6 DEF IInv
<1>2. CASE Next
  <2>1. ASSUME NEW th \in Threads, Step(th) PROVE IInv'
    BY <2>1, StepPreserves
  <2>2. ASSUME NEW a \in Asyncs, IoEnds(a) PROVE IInv'
    <3>1. a = Root
      BY <2>2 DEF IoEnds, IInv, OnlyRoot
    <3> QED BY <2>2, <3>1, IoEndsPreserves
  <2>3. ASSUME NEW a \in Asyncs, TimeoutFires(a) PROVE IInv'
    <3>1. a = Root
      BY <2>3 DEF TimeoutFires, IInv, OnlyRoot
    <3> QED BY <2>3, <3>1, TimeoutFiresPreserves
  <2>4. ASSUME NEW a \in Asyncs, NEW th \in Workers, Dequeue(th, a) PROVE IInv'
    <3>1. a = Root
      BY <2>4 DEF Dequeue, IInv, OnlyRoot
    <3> QED BY <2>4, <3>1, DequeuePreserves
  <2>5. ASSUME NEW th \in Cancellers, Ask(th) PROVE IInv'
    BY <2>5, AskPreserves
  <2> QED BY <1>2, <2>1, <2>2, <2>3, <2>4, <2>5 DEF Next
<1> QED BY <1>1, <1>2

\* The invariant holds at the start.
LEMMA Initially == Init => IInv
<1> SUFFICES ASSUME Init PROVE IInv
  OBVIOUS
<1> DEFINE f == Frame("new", Root)
           g == Frame("start", Root)
<1>1. /\ f.op = "new" /\ f.async = Root /\ g.op = "start" /\ g.async = Root
      /\ Issuer \in Threads
  BY FrameTypes DEF Operations, Threads
<1>2. /\ stack = [th \in Threads |-> IF th = Issuer THEN <<f, g>> ELSE << >>]
      /\ stack[Issuer] = <<f, g>> /\ \A th \in Threads \ {Issuer} : stack[th] = << >>
  BY <1>1 DEF Init
<1> HIDE DEF f, g
<1>3. stack \in Stacks /\ Finite(stack)
  BY FirstFrames
<1>4. \A ops : Frames(ops, Root) = One("start" \in ops) + One("new" \in ops)
  BY FirstFrames
<1>5. /\ Frames(Holding, Root) = 0 /\ Frames({"callback"}, Root) = 0
      /\ Frames({"destroy"}, Root) = 0 /\ Frames(Starting, Root) = 1
      /\ Frames(Reporting, Root) = 0
  BY <1>4 DEF Holding, Starting, Reporting, One
<1>6. /\ Todo(Issuer) = <<"new", "start", "-">> /\ Doing(Issuer, 1) = "new" /\ Doing(Issuer, 4) = "-"
      /\ \A th \in Threads \ {Issuer} : Todo(th) = <<"-", "-", "-">> /\ Doing(th, 4) = "-"
      /\ AllOfRoot
  <2>1. DOMAIN stack[Issuer] = 1..2 /\ \A th \in Threads \ {Issuer} : DOMAIN stack[th] = {}
    BY <1>2
  <2> QED BY <1>1, <1>2, <2>1 DEF Todo, Doing, AllOfRoot
<1>7. NoneYet /\ Root \in Asyncs
  BY DEF Init, Asyncs
<1>8. TypeOK
  BY <1>3, <1>7 DEF NoneYet, TypeOK, Stacks
<1>9. OnlyRoot
  BY <1>6, <1>7 DEF NoneYet, OnlyRoot
<1>10. FollowPrograms
  BY <1>6 DEF FollowPrograms, Programs, IssuerPrograms, PollerPrograms, CancellerPrograms, WorkerPrograms,
     Ending, Birth
<1>11. MonitorHeld
  BY <1>6, <1>7 DEF NoneYet, MonitorHeld, Inside, Submitting, Leaving, LockedEnding
<1>12. Unseen
  BY <1>2, <1>6, <1>7, AsyncAssumption DEF NoneYet, Unseen, Threads
<1>13. Owed
  BY <1>5, <1>7 DEF NoneYet, Owed, One
<1>14. EndsOnce
  BY <1>5, <1>7 DEF NoneYet, EndsOnce, Ends, One
<1>15. Abortable
  BY <1>6, <1>7 DEF NoneYet, Abortable
<1>16. CallStarted
  BY <1>2, <1>7, AsyncAssumption DEF NoneYet, CallStarted, Threads
<1>17. LateUsesConfined
  BY <1>7 DEF NoneYet, LateUsesConfined
<1> QED BY <1>3, <1>8, <1>9, <1>10, <1>11, <1>12, <1>13, <1>14, <1>15, <1>16, <1>17 DEF IInv

\* The inductive invariant is an invariant.
LEMMA Invariant ==
  ASSUME Ops \subseteq SocketCalls
  PROVE  SafeSpec => []IInv
<1>1. Init => IInv
  BY Initially
<1>2. IInv /\ [Next]_vars => IInv'
  BY Inductive
<1> QED BY <1>1, <1>2, PTL DEF SafeSpec

-----------------------------------------------------------------------------
(* Theorems *)

\* Every variable has a value of its kind.
THEOREM TypeCorrect ==
  ASSUME Ops \subseteq SocketCalls
  PROVE  SafeSpec => []TypeOK
<1>1. IInv => TypeOK
  BY DEF IInv
<1> QED BY <1>1, Invariant, PTL

\* The reference count of an operation is exact at every moment, however its
\* timer, its packet, its issuer and the threads that cancel it interleave.
THEOREM ReferencesAreExact ==
  ASSUME Ops \subseteq SocketCalls
  PROVE  SafeSpec => []RefCountExact
<1>1. IInv => RefCountExact
  BY DEF IInv, OnlyRoot, Owed, RefCountExact
<1> QED BY <1>1, Invariant, PTL

\* The completion callback runs at most once, and before the operation is freed.
THEOREM CalledBackOnce ==
  ASSUME Ops \subseteq SocketCalls
  PROVE  SafeSpec => []OneCallback
<1>1. IInv => OneCallback
  <2> SUFFICES ASSUME IInv, NEW a \in Asyncs
               PROVE  completed[a] <= 1 /\ (life[a] = "freed" => completed[a] = 1)
    BY DEF OneCallback
  <2>1. CASE a = Root
    <3>1. Frames({"callback"}, Root) \in Nat /\ completed[Root] \in Nat
      BY FramesType DEF IInv, TypeOK, Stacks, Asyncs
    <3> QED BY <2>1, <3>1 DEF IInv, Owed, One
  <2>2. CASE a # Root
    BY <2>2 DEF IInv, OnlyRoot
  <2> QED BY <2>1, <2>2
<1> QED BY <1>1, Invariant, PTL

\* The caller gets its buffer back before it is told that its receive or send is
\* over: a cancelled call is reported by its packet, or it never started.
THEOREM BufferComesBack ==
  ASSUME Ops \subseteq SocketCalls
  PROVE  SafeSpec => []BufferIsReturned
<1>1. IInv => BufferIsReturned
  <2> SUFFICES ASSUME IInv, NEW a \in Asyncs, completed[a] = 1, io_type[a] \in {"receive", "send"},
                      io[a] = "pending"
               PROVE  FALSE
    BY DEF BufferIsReturned
  <2>1. a = Root
    BY DEF IInv, OnlyRoot
  <2>2. \A ops : Frames(ops, Root) \in Nat
    BY FramesType DEF IInv, TypeOK, Stacks
  <2>3. ~missed[Root] /\ Ends = 1
    BY <2>1 DEF IInv, Abortable, EndsOnce
  <2>4. ~called[Root]
    BY <2>1, <2>2, <2>3 DEF Ends, One
  <2> QED BY <2>1, <2>2, <2>4 DEF IInv, Owed, One
<1> QED BY <1>1, Invariant, PTL

\* The library uses a freed operation only after a timeout or a user cancelled
\* it, never on the poll thread, on the issuer only if its call never started,
\* and on a worker only if _cancel had found nothing to abort.
THEOREM LateUsesAreConfined ==
  ASSUME Ops \subseteq SocketCalls
  PROVE  SafeSpec => []LateUsesConfined
<1>1. IInv => LateUsesConfined
  BY DEF IInv
<1> QED BY <1>1, Invariant, PTL

-----------------------------------------------------------------------------
(* The operation is that of module Operation, as far as safety goes *)

\* Nothing that can be seen from outside.
Quiet ==
  /\ UNCHANGED <<completed, canceled, asked, stale>>
  /\ life'[Root] = life[Root] \/ (life[Root] = "none" /\ life'[Root] = "live")

\* Nor in the operation's state.
LEMMA QuietStutters ==
  ASSUME Quiet
  PROVE  UNCHANGED Op!vars
BY DEF Quiet, Op!vars

\* Most steps of a thread are of that kind.
LEMMA QuietSteps ==
  ASSUME IInv, NEW th \in Threads, Execute(th, Root),
         ~Callback(th, Root), ~Cancel(th, Root), ~Destroy(th, Root)
  PROVE  Quiet
<1> USE DEF Quiet, rest, history, operation
<1>1. CASE New(th, Root)
  <2>1. life[Root] = "none"
    BY <1>1, Newborn DEF New
  <2> QED BY <1>1, <2>1 DEF New, IInv, TypeOK, Asyncs
<1>2. CASE AddTimerRef(th, Root) \/ Schedule(th, Root) \/ Start(th, Root)
  BY <1>2 DEF AddTimerRef, Schedule, Start
<1>3. CASE \/ Receive(th, Root) \/ Send(th, Root) \/ SendEnter(th, Root) \/ Disconnect(th, Root)
           \/ Accept(th, Root)
  BY <1>3 DEF Receive, Send, SendEnter, Disconnect, Accept
<1>4. CASE \/ Recv(th, Root) \/ SubmitSend(th, Root) \/ DisconnectEx(th, Root) \/ AcceptEx(th, Root)
  BY <1>4 DEF Recv, SubmitSend, DisconnectEx, AcceptEx
<1>5. CASE Notify(th, Root) \/ AsyncNotify(th, Root) \/ AsyncCancel(th, Root)
  BY <1>5 DEF Notify, AsyncNotify, AsyncCancel
<1>6. CASE Release(th, Root) \/ Unlock(th, Root)
  BY <1>6 DEF Release, Unlock
<1> QED BY <1>1, <1>2, <1>3, <1>4, <1>5, <1>6 DEF Execute

\* Every step is a step of the operation, or nothing it knows of.
LEMMA Simulates ==
  ASSUME IInv, [Next]_vars
  PROVE  [Op!Next]_(Op!vars)
<1> USE DEF Op!Next, Op!vars
<1>1. CASE UNCHANGED vars
  BY <1>1, QuietStutters DEF vars, operation, history, Quiet
<1>2. ASSUME NEW th \in Threads, UseAfterFree(th)
      PROVE  Op!Misuse
  <2>1. life[Root] = "freed" /\ stale = {} /\ stale' # {} /\ UNCHANGED <<canceled, asked>>
    BY <1>2, KnownLate DEF UseAfterFree, operation
  <2>2. LateUsesConfined' /\ stale' = {[thread |-> th, frame |-> Head(stack[th])]}
    BY <1>2, UseAfterFreePreserves DEF IInv, UseAfterFree
  <2>3. th \in Cancellers \/ canceled[Root]
    BY <2>1, <2>2, <1>2, KnownLate DEF LateUsesConfined
  <2>4. th \in Cancellers => asked # {}
    BY <1>2 DEF IInv, Unseen, UseAfterFree
  <2>5. stale' # {} /\ stale = {} /\ life[Root] = "freed" /\ (canceled[Root] \/ asked # {})
    BY <2>1, <2>3, <2>4
  <2>6. canceled' = canceled /\ asked' = asked
    BY <2>1
  <2> QED BY <2>5, <2>6 DEF Op!Misuse
<1>3. ASSUME NEW th \in Threads, Callback(th, Root)
      PROVE  Op!Report
  <2>0. completed[Root] \in Nat
    BY DEF IInv, TypeOK, Asyncs
  <2>1. /\ stale = {} /\ life[Root] = "live" /\ Frames({"callback"}, Root) \in Nat
        /\ Frames({"callback"}, Root) >= 1 /\ completed[Root] \in Nat
    BY <1>3, <2>0, Known DEF Callback, CallbackThen, Outside
  <2>2. completed[Root] = 0
    BY <2>1 DEF IInv, Owed, One
  <2>3. completed'[Root] = 1 /\ UNCHANGED <<life, canceled, asked, stale>>
    BY <1>3, <2>2 DEF Callback, CallbackThen, operation, IInv, TypeOK, Asyncs
  <2> QED BY <2>1, <2>2, <2>3 DEF Op!Report
<1>4. ASSUME NEW th \in Threads, Destroy(th, Root)
      PROVE  Op!Free
  <2>1. /\ stale = {} /\ life[Root] = "live" /\ Frames({"destroy"}, Root) >= 1
        /\ Frames({"destroy"}, Root) \in Nat
    BY <1>4, Known DEF Destroy, Outside
  <2>2. completed[Root] = 1
    BY <2>1 DEF IInv, Owed
  <2>3. life'[Root] = "freed" /\ UNCHANGED <<completed, canceled, asked, stale>>
    BY <1>4 DEF Destroy, rest, history, IInv, TypeOK, Asyncs
  <2>4. life[Root] # "freed" /\ completed[Root] > 0
    BY <2>1, <2>2
  <2> QED BY <2>1, <2>3, <2>4 DEF Op!Free
<1>5. ASSUME NEW th \in Threads, Cancel(th, Root)
      PROVE  Op!End
  <2>1. canceled'[Root] = TRUE /\ UNCHANGED <<life, completed, stale>>
    BY <1>5 DEF Cancel, IInv, TypeOK, Asyncs
  <2> QED BY <2>1 DEF Op!End
<1>6. ASSUME NEW th \in Cancellers, Ask(th)
      PROVE  Op!End
  <2>1. asked' # {} /\ UNCHANGED <<life, completed, stale>>
    BY <1>6 DEF Ask, operation, history
  <2> QED BY <2>1 DEF Op!End
<1>7. ASSUME NEW th \in Threads, NEW a \in Asyncs, Execute(th, a)
      PROVE  [Op!Next]_(Op!vars)
  <2>1. \E op : At(th, op, a)
    BY <1>7 DEF Execute, New, AddTimerRef, Schedule, Start, Receive, Send, SendEnter,
       Disconnect, Accept, Recv, SubmitSend, DisconnectEx, AcceptEx, Notify, AsyncNotify,
       Callback, CallbackThen, AsyncCancel, Cancel, Release, Destroy, Unlock
  <2>2. Execute(th, Root)
    BY <1>7, <2>1, OfRoot
  <2> QED BY <2>2, <1>3, <1>4, <1>5, QuietSteps, QuietStutters
<1>8. ASSUME NEW a \in Asyncs, IoEnds(a) \/ TimeoutFires(a) \/ \E th \in Workers : Dequeue(th, a)
      PROVE  Quiet
  BY <1>8 DEF IoEnds, TimeoutFires, Dequeue, Quiet, operation, rest, history
<1> QED BY <1>1, <1>2, <1>3, <1>4, <1>5, <1>6, <1>7, <1>8, QuietStutters DEF Next, Step

\* Seen from outside an operation reports once, is freed after that, and is used
\* later only if it was ended: the safety part of ImplementsOperation.
THEOREM ImplementsOperationSafely ==
  ASSUME Ops \subseteq SocketCalls
  PROVE  SafeSpec => Op!Init /\ [][Op!Next]_(Op!vars)
<1>1. Init => Op!Init
  BY DEF Init, NoneYet, Op!Init, Asyncs
<1>2. IInv /\ [Next]_vars => [Op!Next]_(Op!vars)
  BY Simulates
<1> QED BY <1>1, <1>2, Invariant, PTL DEF SafeSpec
===============================================================================
