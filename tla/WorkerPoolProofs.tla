--------------------------- MODULE WorkerPoolProofs ---------------------------
(***************************************************************************)
(* Proofs about module WorkerPool, for every set of registering threads,   *)
(* every set of limits and every bound on registrations and packets.       *)
(***************************************************************************)
EXTENDS WorkerPool, TLAPS

Total == starting + current

\* The limits so far have a least and a greatest one: they are added one by one.
LimitsAreBounded ==
  /\ limit \in limits
  /\ \E low \in limits : \A n \in limits : low <= n
  /\ \E high \in limits : \A n \in limits : high >= n

\* A registration that starts workers has as many as it has counted, unless it
\* has enough, as one has that found no worker missing.  What a lowered limit
\* takes away is never below that limit.
EnoughIsCounted ==
  \A r \in Registrars :
    /\ pc[r] \in {"compare", "shrink", "posting"} => Total >= Min(limits)
    /\ pc[r] = "starting" => Total >= Min(limits) \/ Total >= i[r]

\* If no registration was hasty there is one at a time, and the worker it is
\* about to start is in its count.
NobodyElseCounts ==
  ~hasty =>
    /\ \A r, s \in Registrars : pc[r] # "out" /\ pc[s] # "out" => r = s
    /\ \A r \in Registrars : /\ pc[r] = "grow" => starting = 0
                             /\ pc[r] = "starting" => Total <= i[r]

IInv ==
  /\ TypeOK
  /\ LimitsAreBounded
  /\ EnoughIsCounted
  /\ NeverTooFew
  /\ NobodyElseCounts
  /\ TooManyOnlyIfHasty

-----------------------------------------------------------------------------
(* Lemmas about limits *)

\* A set of limits with a least and a greatest one has them as Min and Max.
LEMMA MinMax ==
  ASSUME NEW S \in SUBSET Int,
         \E low \in S : \A n \in S : low <= n, \E high \in S : \A n \in S : high >= n
  PROVE  /\ Min(S) \in S /\ \A n \in S : Min(S) <= n
         /\ Max(S) \in S /\ \A n \in S : Max(S) >= n
<1>1. Min(S) \in S /\ \A n \in S : Min(S) <= n
  BY DEF Min
<1>2. Max(S) \in S /\ \A n \in S : Max(S) >= n
  BY DEF Max
<1> QED BY <1>1, <1>2

\* The current limit is between them.
LEMMA LimitBetween ==
  ASSUME TypeOK, LimitsAreBounded
  PROVE  /\ limit \in Nat /\ Min(limits) \in Nat /\ Max(limits) \in Nat
         /\ Min(limits) <= limit /\ limit <= Max(limits)
<1>1. limits \subseteq Nat /\ limits \subseteq Int /\ limit \in limits
  BY WorkerPoolAssumption DEF TypeOK, LimitsAreBounded
<1> QED BY <1>1, MinMax DEF LimitsAreBounded

\* A new limit lowers the least and raises the greatest one, if anything.
LEMMA NewLimit ==
  ASSUME TypeOK, LimitsAreBounded, NEW n \in Limits, SetMaxWorkers(n)
  PROVE  /\ LimitsAreBounded'
         /\ Min(limits)' \in Nat /\ Max(limits)' \in Nat
         /\ Min(limits)' <= Min(limits) /\ Max(limits) <= Max(limits)'
<1>1. limits \subseteq Int /\ limits' = limits \union {n} /\ limit' = n /\ n \in Nat
  BY WorkerPoolAssumption DEF TypeOK, SetMaxWorkers
<1>2. limits' \subseteq Nat /\ limits' \subseteq Int
  BY <1>1, WorkerPoolAssumption DEF TypeOK
<1>3. \E low \in limits' : \A m \in limits' : low <= m
  <2>1. PICK low \in limits : \A m \in limits : low <= m
    BY DEF LimitsAreBounded
  <2> QED BY <1>1, <2>1
<1>4. \E high \in limits' : \A m \in limits' : high >= m
  <2>1. PICK high \in limits : \A m \in limits : high >= m
    BY DEF LimitsAreBounded
  <2> QED BY <1>1, <2>1
<1>5. LimitsAreBounded'
  BY <1>1, <1>3, <1>4 DEF LimitsAreBounded
<1>6. /\ Min(limits') \in limits' /\ \A m \in limits' : Min(limits') <= m
      /\ Max(limits') \in limits' /\ \A m \in limits' : Max(limits') >= m
  BY <1>2, <1>3, <1>4, MinMax
<1>7. Min(limits) \in limits /\ Max(limits) \in limits
  BY <1>1, MinMax DEF LimitsAreBounded
<1>8. limits \subseteq limits'
  BY <1>1
<1> QED BY <1>2, <1>5, <1>6, <1>7, <1>8

-----------------------------------------------------------------------------
(* Inductiveness *)

\* The inductive invariant holds at the start.
LEMMA InitEstablishes == Init => IInv
<1> SUFFICES ASSUME Init PROVE IInv
  OBVIOUS
<1> USE WorkerPoolAssumption DEF Init
<1>1. TypeOK
  <2>1. granted \in BOOLEAN /\ hasty \in BOOLEAN
    OBVIOUS
  <2>2. pc \in [Registrars -> {"out", "compare", "grow", "shrink", "starting", "posting"}]
    OBVIOUS
  <2>3. i \in [Registrars -> Nat] /\ limit \in Limits /\ limits \subseteq Limits
    OBVIOUS
  <2>4. /\ current \in Nat /\ starting \in Nat /\ exits \in Nat /\ packets \in Nat
        /\ busy \in 0..current
        /\ registrations \in 0..MaxRegistrations /\ arrived \in 0..MaxPackets
    OBVIOUS
  <2> QED BY <2>1, <2>2, <2>3, <2>4 DEF TypeOK
<1>2. LimitsAreBounded
  BY <1>1 DEF LimitsAreBounded, TypeOK
<1>3. EnoughIsCounted /\ NeverTooFew /\ NobodyElseCounts
  BY DEF EnoughIsCounted, NeverTooFew, NobodyElseCounts
<1>4. TooManyOnlyIfHasty
  BY <1>1, <1>2, LimitBetween DEF TooManyOnlyIfHasty
<1> QED BY <1>1, <1>2, <1>3, <1>4 DEF IInv

\* A registration that finds enough workers has counted as many as the limit.
LEMMA RegisterPreserves ==
  ASSUME IInv, NEW r \in Registrars, Register(r)
  PROVE  IInv'
<1> USE DEF IInv, Register, Goto, work, history
<1>0. limit \in Nat /\ Min(limits) \in Nat /\ Min(limits) <= limit
  BY LimitBetween
<1>1. TypeOK'
  <2>1. hasty' \in BOOLEAN
    BY ZenonT(30) DEF TypeOK
  <2>2. registrations' \in 0..MaxRegistrations
    BY WorkerPoolAssumption DEF TypeOK
  <2>3. pc' \in [Registrars -> {"out", "compare", "grow", "shrink", "starting", "posting"}]
    BY DEF TypeOK
  <2> HIDE DEF Register
  <2>4. UNCHANGED <<limit, limits, current, starting, exits, packets, busy, i, arrived, granted>>
    BY DEF Register
  <2> QED BY <2>1, <2>2, <2>3, <2>4 DEF TypeOK
<1>2. LimitsAreBounded'
  BY DEF LimitsAreBounded
<1>3. EnoughIsCounted' /\ NeverTooFew'
  BY <1>0 DEF TypeOK, EnoughIsCounted, NeverTooFew, Total
<1>4. ~hasty' => ~hasty /\ ~(starting > 0) /\ \A o \in Registrars : pc[o] = "out"
  BY ZenonT(30)
<1>5. NobodyElseCounts'
  <2> SUFFICES ASSUME ~hasty' PROVE NobodyElseCounts'
    BY DEF NobodyElseCounts
  <2>1. starting = 0 /\ \A o \in Registrars \ {r} : pc'[o] = "out"
    BY <1>4 DEF TypeOK
  <2>2. pc'[r] \in {"grow", "compare"} /\ starting' = starting
    BY DEF TypeOK
  <2> QED BY <2>1, <2>2 DEF NobodyElseCounts
<1>6. TooManyOnlyIfHasty'
  <2> HIDE DEF Register
  <2>1. UNCHANGED <<starting, current, limits>>
    BY DEF Register
  <2> QED BY <2>1, <1>4 DEF TooManyOnlyIfHasty
<1> QED BY <1>1, <1>2, <1>3, <1>5, <1>6

\* The second comparison adds nothing that the first did not show.
LEMMA ComparePreserves ==
  ASSUME IInv, NEW r \in Registrars, Compare(r)
  PROVE  IInv'
<1> USE DEF IInv, Compare, Goto, work
<1>1. TypeOK'
  BY DEF TypeOK
<1>2. LimitsAreBounded'
  BY DEF LimitsAreBounded
<1>3. EnoughIsCounted' /\ NeverTooFew'
  BY DEF TypeOK, EnoughIsCounted, NeverTooFew, Total
<1>4. NobodyElseCounts' /\ TooManyOnlyIfHasty'
  BY DEF TypeOK, NobodyElseCounts, TooManyOnlyIfHasty, Total
<1> QED BY <1>1, <1>2, <1>3, <1>4

\* The loop variable starts at the count, which without haste is the total.
LEMMA BeginLoopPreserves ==
  ASSUME IInv, NEW r \in Registrars, BeginLoop(r)
  PROVE  IInv'
<1> USE DEF IInv, BeginLoop, Goto, work, history
<1>0. limit \in Nat
  BY LimitBetween
<1>1. TypeOK'
  BY <1>0 DEF TypeOK
<1>2. LimitsAreBounded'
  BY DEF LimitsAreBounded
<1>3. EnoughIsCounted' /\ NeverTooFew'
  BY DEF TypeOK, EnoughIsCounted, NeverTooFew, Total
<1>4. NobodyElseCounts' /\ TooManyOnlyIfHasty'
  BY DEF TypeOK, NobodyElseCounts, TooManyOnlyIfHasty, Total
<1> QED BY <1>1, <1>2, <1>3, <1>4

\* A worker is started below the limit, and the loop variable keeps up with it.
LEMMA StartWorkerPreserves ==
  ASSUME IInv, NEW r \in Registrars, StartWorker(r)
  PROVE  IInv'
<1> USE DEF IInv, StartWorker, Goto, work, history
<1>0. limit \in Nat /\ Min(limits) \in Nat /\ Max(limits) \in Nat /\ limit <= Max(limits)
  BY LimitBetween
<1>1. TypeOK'
  BY DEF TypeOK
<1>2. LimitsAreBounded'
  BY DEF LimitsAreBounded
<1>3. EnoughIsCounted' /\ NeverTooFew'
  BY <1>0 DEF TypeOK, EnoughIsCounted, NeverTooFew, Total
<1>4. NobodyElseCounts'
  BY DEF TypeOK, NobodyElseCounts, Total
<1>5. TooManyOnlyIfHasty'
  BY <1>0 DEF TypeOK, NobodyElseCounts, TooManyOnlyIfHasty, Total
<1> QED BY <1>1, <1>2, <1>3, <1>4, <1>5

\* Exit packets are only posted, nobody leaves yet.
LEMMA PostExitPreserves ==
  ASSUME IInv, NEW r \in Registrars, PostExit(r)
  PROVE  IInv'
<1> USE DEF IInv, PostExit, work, history
<1>1. TypeOK'
  BY DEF TypeOK
<1>2. LimitsAreBounded'
  BY DEF LimitsAreBounded
<1>3. EnoughIsCounted' /\ NeverTooFew'
  BY DEF TypeOK, EnoughIsCounted, NeverTooFew, Total
<1>4. NobodyElseCounts' /\ TooManyOnlyIfHasty'
  BY DEF TypeOK, NobodyElseCounts, TooManyOnlyIfHasty, Total
<1> QED BY <1>1, <1>2, <1>3, <1>4

\* When the loop ends its variable has reached a limit, and so has the total.
LEMMA EndLoopPreserves ==
  ASSUME IInv, NEW r \in Registrars, EndLoop(r)
  PROVE  IInv'
<1> USE DEF IInv, EndLoop, Goto, work
<1>0. limit \in Nat /\ Min(limits) \in Nat /\ Min(limits) <= limit
  BY LimitBetween
<1>1. TypeOK'
  BY DEF TypeOK
<1>2. LimitsAreBounded'
  BY DEF LimitsAreBounded
<1>3. EnoughIsCounted' /\ NeverTooFew'
  BY <1>0 DEF TypeOK, EnoughIsCounted, NeverTooFew, Total
<1>4. NobodyElseCounts' /\ TooManyOnlyIfHasty'
  BY DEF TypeOK, NobodyElseCounts, TooManyOnlyIfHasty, Total
<1> QED BY <1>1, <1>2, <1>3, <1>4

\* What is promised for the limits so far is promised for one limit more.
LEMMA SetMaxWorkersPreserves ==
  ASSUME IInv, NEW n \in Limits, SetMaxWorkers(n)
  PROVE  IInv'
<1> USE DEF IInv, SetMaxWorkers, work
<1>0. /\ LimitsAreBounded'
      /\ Min(limits) \in Nat /\ Min(limits') \in Nat /\ Min(limits') <= Min(limits)
      /\ Max(limits) \in Nat /\ Max(limits') \in Nat /\ Max(limits) <= Max(limits')
  BY LimitBetween, NewLimit
<1>1. TypeOK'
  BY DEF TypeOK
<1>2. EnoughIsCounted' /\ NeverTooFew'
  BY <1>0 DEF TypeOK, EnoughIsCounted, NeverTooFew, Total
<1>3. NobodyElseCounts'
  BY DEF TypeOK, NobodyElseCounts, Total
<1>4. TooManyOnlyIfHasty'
  BY <1>0 DEF TypeOK, TooManyOnlyIfHasty
<1> QED BY <1>0, <1>1, <1>2, <1>3, <1>4

\* A worker that counts itself moves inside the total.
LEMMA WorkerBeginsPreserves ==
  ASSUME IInv, WorkerBegins
  PROVE  IInv'
<1> USE DEF IInv, WorkerBegins, work, history
<1>1. TypeOK' /\ Total' = Total
  BY DEF TypeOK, Total
<1>2. LimitsAreBounded'
  BY DEF LimitsAreBounded
<1>3. EnoughIsCounted' /\ NeverTooFew'
  BY <1>1 DEF EnoughIsCounted, NeverTooFew, Total
<1>4. NobodyElseCounts' /\ TooManyOnlyIfHasty'
  BY <1>1 DEF TypeOK, NobodyElseCounts, TooManyOnlyIfHasty, Total
<1> QED BY <1>1, <1>2, <1>3, <1>4

\* A worker that leaves leaves as many as the limit behind.
LEMMA WorkerTakesExitPreserves ==
  ASSUME IInv, WorkerTakesExit
  PROVE  IInv'
<1> USE DEF IInv, WorkerTakesExit, work, history
<1>0. limit \in Nat /\ Min(limits) \in Nat /\ Max(limits) \in Nat /\ Min(limits) <= limit
  BY LimitBetween
<1>1. TypeOK'
  BY <1>0 DEF TypeOK
<1>2. LimitsAreBounded'
  BY DEF LimitsAreBounded
<1>3. EnoughIsCounted' /\ NeverTooFew'
  BY <1>0 DEF TypeOK, EnoughIsCounted, NeverTooFew, Total
<1>4. NobodyElseCounts' /\ TooManyOnlyIfHasty'
  BY <1>0 DEF TypeOK, NobodyElseCounts, TooManyOnlyIfHasty, Total
<1> QED BY <1>1, <1>2, <1>3, <1>4

\* Serving packets changes neither workers nor limits.
LEMMA ServingPreserves ==
  ASSUME IInv, WorkerTakesPacket \/ WorkerReturns \/ PacketArrives \/ UNCHANGED vars
  PROVE  IInv'
<1> USE DEF IInv, WorkerTakesPacket, WorkerReturns, PacketArrives, vars, work, history
<1>1. TypeOK'
  <2>1. CASE WorkerTakesPacket
    BY <2>1 DEF TypeOK
  <2>2. CASE WorkerReturns
    BY <2>2 DEF TypeOK
  <2>3. CASE PacketArrives
    BY <2>3, WorkerPoolAssumption DEF TypeOK
  <2>4. CASE UNCHANGED vars
    BY <2>4 DEF TypeOK
  <2> QED BY <2>1, <2>2, <2>3, <2>4
<1>2. LimitsAreBounded'
  BY DEF LimitsAreBounded
<1>3. EnoughIsCounted' /\ NeverTooFew'
  BY DEF EnoughIsCounted, NeverTooFew, Total
<1>4. NobodyElseCounts' /\ TooManyOnlyIfHasty'
  BY DEF NobodyElseCounts, TooManyOnlyIfHasty, Total
<1> QED BY <1>1, <1>2, <1>3, <1>4

\* The conjunction is inductive.
LEMMA Inductive == SafeSpec => []IInv
<1>1. IInv /\ [Next]_vars => IInv'
  <2> SUFFICES ASSUME IInv, [Next]_vars PROVE IInv'
    OBVIOUS
  <2>1. ASSUME NEW r \in Registrars, Register(r) PROVE IInv'
    BY <2>1, RegisterPreserves
  <2>2. ASSUME NEW r \in Registrars, Compare(r) PROVE IInv'
    BY <2>2, ComparePreserves
  <2>3. ASSUME NEW r \in Registrars, BeginLoop(r) PROVE IInv'
    BY <2>3, BeginLoopPreserves
  <2>4. ASSUME NEW r \in Registrars, StartWorker(r) PROVE IInv'
    BY <2>4, StartWorkerPreserves
  <2>5. ASSUME NEW r \in Registrars, PostExit(r) PROVE IInv'
    BY <2>5, PostExitPreserves
  <2>6. ASSUME NEW r \in Registrars, EndLoop(r) PROVE IInv'
    BY <2>6, EndLoopPreserves
  <2>7. ASSUME NEW n \in Limits, SetMaxWorkers(n) PROVE IInv'
    BY <2>7, SetMaxWorkersPreserves
  <2>8. CASE Work
    BY <2>8, WorkerBeginsPreserves, WorkerTakesExitPreserves, ServingPreserves DEF Work
  <2>9. CASE PacketArrives \/ UNCHANGED vars
    BY <2>9, ServingPreserves
  <2> QED BY <2>1, <2>2, <2>3, <2>4, <2>5, <2>6, <2>7, <2>8, <2>9 DEF Next
<1> QED BY InitEstablishes, <1>1, PTL DEF SafeSpec

-----------------------------------------------------------------------------
(* Theorems *)

\* Every variable keeps its type; no more workers serve packets than run.
THEOREM TypeCorrect == SafeSpec => []TypeOK
<1>1. IInv => TypeOK
  BY DEF IInv
<1> QED BY <1>1, Inductive, PTL

\* However the exit packets of several registrations meet changes of the limit,
\* a registered handle has as many workers as the lowest limit so far.
THEOREM EnoughWorkers == SafeSpec => []NeverTooFew
<1>1. IInv => NeverTooFew
  BY DEF IInv
<1> QED BY <1>1, Inductive, PTL

\* As long as no registration runs while another does or while workers start,
\* there are never more workers than the highest limit so far.
THEOREM NoSurplusWithoutHaste == SafeSpec => []TooManyOnlyIfHasty
<1>1. IInv => TooManyOnlyIfHasty
  BY DEF IInv
<1> QED BY <1>1, Inductive, PTL
===============================================================================
