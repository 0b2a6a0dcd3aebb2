-------------------------- MODULE HubAndPanelsProofs --------------------------
(***************************************************************************)
(* Proofs about what a client is told, for any number of bots, rows, lost  *)
(* connections, raiders, events and weeks.                                 *)
(*                                                                         *)
(* The hub loses no wakeup.  That a promised row has a signal somewhere is *)
(* not inductive: which signal it is must be known, and Accounted says it. *)
(*                                                                         *)
(* A panel's numbers hold together.  What a panel holds between its two    *)
(* statements is part of the invariant, and that an answer once given      *)
(* stays true while the tables move on.  The sums and the percentiles of   *)
(* the model are folds and CHOOSEs: what they compute comes first.         *)
(***************************************************************************)
EXTENDS NotifyHub, Analysis, FiniteSetTheorems, WellFoundedInduction, TLAPS

IInv == TypeOK /\ Accounted

-----------------------------------------------------------------------------
(* What an insert, a broadcast and a lost connection do to what is not     *)
(* broadcast yet.                                                          *)

\* Appending a notification adds its rows.
LEMMA HeardGrows ==
  ASSUME NEW S, NEW s \in Seq(SUBSET S), NEW new \in SUBSET S
  PROVE  UNION {Append(s, new)[i] : i \in DOMAIN Append(s, new)}
           = (UNION {s[i] : i \in DOMAIN s}) \union new
<1>1. DOMAIN Append(s, new) = 1..(Len(s) + 1) /\ DOMAIN s = 1..Len(s) /\ Len(s) \in Nat
  OBVIOUS
<1>2. Append(s, new)[Len(s) + 1] = new
  OBVIOUS
<1>3. \A i \in DOMAIN s : Append(s, new)[i] = s[i]
  OBVIOUS
<1>4. \A i \in DOMAIN Append(s, new) : i \in DOMAIN s \/ i = Len(s) + 1
  BY <1>1
<1> QED BY <1>1, <1>2, <1>3, <1>4

\* An empty queue speaks for no row.
LEMMA NothingHeard == ASSUME heard = <<>> PROVE Unbroadcast = {}
  BY DEF Unbroadcast

-----------------------------------------------------------------------------
(* Types.                                                                  *)

\* An insert's rows are new ones.
LEMMA InsertTypeOK == ASSUME HubAssumption, TypeOK, Insert PROVE TypeOK'
<1> USE HubAssumption DEF HubAssumption
<1>1. PICK k \in 1..2 :
        LET new == (made + 1)..(made + k)
        IN /\ made + k <= MaxRows
           /\ made' = made + k
           /\ waiting' = waiting \union new
           /\ heard' = IF listening THEN Append(heard, new) ELSE heard
           /\ promised' = [b \in Bots |-> IF listening /\ stream[b] # "none"
                                          THEN promised[b] \union new ELSE promised[b]]
           /\ UNCHANGED <<listening, stream, buffer, told, losses>>
  BY DEF Insert
<1> DEFINE new == (made + 1)..(made + k)
<1>2. made \in Nat /\ made' \in 0..MaxRows /\ made < made'
  BY <1>1 DEF TypeOK
<1>3. 1..made \subseteq 1..made' /\ new \subseteq 1..made'
  BY <1>1, <1>2
<1>4. heard' \in Seq(SUBSET (1..made'))
  <2> DEFINE Notes == SUBSET (1..made')
  <2>1. heard \in Seq(Notes)
    BY <1>3 DEF TypeOK
  <2>2. new \in Notes /\ heard' = IF listening THEN Append(heard, new) ELSE heard
    BY <1>1, <1>3
  <2> HIDE DEF Notes, new
  <2>3. heard' \in Seq(Notes)
    BY <2>1, <2>2
  <2> QED BY <2>3 DEF Notes
<1>5. waiting' \subseteq 1..made'
  BY <1>1, <1>3 DEF TypeOK
<1>6. promised' \in [Bots -> SUBSET waiting']
  BY <1>1 DEF TypeOK
<1> QED BY <1>1, <1>2, <1>4, <1>5, <1>6 DEF TypeOK

\* What the Listener and a lost connection leave typed.
LEMMA HubTypeOK ==
  ASSUME HubAssumption, TypeOK, Broadcast \/ ListenerLost \/ Redial
  PROVE  TypeOK'
<1> USE HubAssumption DEF HubAssumption
<1>1. CASE Broadcast
  <2>1. heard' \in Seq(SUBSET (1..made)) BY <1>1 DEF Broadcast, TypeOK
  <2> QED BY <2>1, <1>1 DEF Broadcast, Signalled, table, TypeOK
<1>2. CASE ListenerLost
  <2>1. heard' \in Seq(SUBSET (1..made')) /\ losses' \in 0..MaxLosses
    <3>1. heard' = <<>> /\ losses' = losses + 1 /\ losses < MaxLosses
      BY <1>2 DEF ListenerLost, Lose
    <3> QED BY <3>1 DEF TypeOK
  <2>2. promised' \in [Bots -> SUBSET waiting']
    BY <1>2 DEF ListenerLost, table, TypeOK
  <2> QED BY <1>2, <2>1, <2>2 DEF ListenerLost, table, TypeOK
<1>3. CASE Redial
  BY <1>3 DEF Redial, table, TypeOK
<1> QED BY <1>1, <1>2, <1>3

\* A stream's steps keep the types.
LEMMA StreamTypeOK ==
  ASSUME HubAssumption, TypeOK, NEW b \in Bots, Connect(b) \/ StreamStep(b) \/ StreamLost(b)
  PROVE  TypeOK'
<1> USE HubAssumption DEF HubAssumption, table, signal, TypeOK
<1>1. CASE Connect(b)    BY <1>1 DEF Connect, Opening
<1>2. CASE TakeSignal(b) BY <1>2 DEF TakeSignal
<1>3. CASE WriteEvent(b) BY <1>3 DEF WriteEvent
<1>4. CASE BackToWait(b) BY <1>4 DEF BackToWait
<1>5. CASE StreamLost(b)
  <2>1. told' \in [Bots -> BOOLEAN]
    BY <1>5 DEF StreamLost
  <2> QED BY <2>1, <1>5 DEF StreamLost, Lose
<1> QED BY <1>1, <1>2, <1>3, <1>4, <1>5 DEF StreamStep

\* So does a claim.
LEMMA ClaimTypeOK ==
  ASSUME HubAssumption, TypeOK, NEW b \in Bots, ClaimWoken(b) \/ Poll(b) \/ ClaimFails(b)
  PROVE  TypeOK'
<1> USE HubAssumption DEF HubAssumption, table, signal, TypeOK
<1>1. CASE ClaimWoken(b)
  <2>1. PICK batch \in Batches :
          /\ waiting' = waiting \ batch
          /\ promised' = [c \in Bots |-> IF c = b THEN {} ELSE promised[c] \ batch]
    BY <1>1 DEF ClaimWoken
  <2>2. promised' \in [Bots -> SUBSET waiting']
    BY <2>1
  <2> QED BY <1>1, <2>1, <2>2 DEF ClaimWoken
<1>2. CASE Poll(b)
  <2>1. PICK batch \in Batches :
          /\ waiting' = waiting \ batch
          /\ promised' = [c \in Bots |-> promised[c] \ batch]
    BY <1>2 DEF Poll
  <2>2. promised' \in [Bots -> SUBSET waiting']
    BY <2>1
  <2> QED BY <1>2, <2>1, <2>2 DEF Poll
<1>3. CASE ClaimFails(b) BY <1>3 DEF ClaimFails, Lose
<1> QED BY <1>1, <1>2, <1>3

-----------------------------------------------------------------------------
(* Whose signal is where.                                                  *)

\* What an insert adds to a promise it adds to what is to be broadcast.
LEMMA InsertAccounts == ASSUME IInv, Insert PROVE Accounted'
<1>1. PICK k \in 1..2 :
        LET new == (made + 1)..(made + k)
        IN /\ made' = made + k
           /\ heard' = IF listening THEN Append(heard, new) ELSE heard
           /\ promised' = [b \in Bots |-> IF listening /\ stream[b] # "none"
                                          THEN promised[b] \union new ELSE promised[b]]
           /\ UNCHANGED <<stream, buffer, told>>
  BY DEF Insert
<1> DEFINE new == (made + 1)..(made + k)
<1>2. listening => Unbroadcast' = Unbroadcast \union new
  <2>1. made \in Nat /\ heard \in Seq(SUBSET (1..(made + k))) /\ new \in SUBSET (1..(made + k))
    <3>1. made \in Nat /\ 1..made \subseteq 1..(made + k) /\ new \subseteq 1..(made + k)
      BY DEF IInv, TypeOK
    <3> QED BY <3>1 DEF IInv, TypeOK
  <2> HIDE DEF new
  <2>2. UNION {Append(heard, new)[i] : i \in DOMAIN Append(heard, new)}
          = (UNION {heard[i] : i \in DOMAIN heard}) \union new
    <3> DEFINE S == 1..(made + k)
    <3>1. heard \in Seq(SUBSET S) /\ new \in SUBSET S
      BY <2>1
    <3> HIDE DEF S
    <3> QED BY ONLY <3>1, HeardGrows
  <2> QED BY <1>1, <2>2 DEF Unbroadcast, new
<1>3. ~listening => Unbroadcast' = Unbroadcast
  BY <1>1 DEF Unbroadcast
<1> SUFFICES ASSUME NEW b \in Bots
             PROVE  /\ promised'[b] \subseteq Unbroadcast' \/ Signal(b)'
                    /\ promised'[b] # {} => stream'[b] # "none"
  BY DEF Accounted
<1>4. Signal(b)' <=> Signal(b)
  BY <1>1 DEF Signal
<1> HIDE DEF new
<1>5. promised'[b] = IF listening /\ stream[b] # "none" THEN promised[b] \union new
                                                        ELSE promised[b]
  BY <1>1 DEF new
<1> QED BY <1>1, <1>2, <1>3, <1>4, <1>5 DEF IInv, Accounted

\* A broadcast leaves a signal in every open stream, and nothing is promised to the others.
LEMMA BroadcastAccounts == ASSUME IInv, Broadcast PROVE Accounted'
<1> SUFFICES ASSUME NEW b \in Bots, promised[b] # {}
             PROVE  Signal(b)' /\ stream'[b] # "none"
  BY DEF Accounted, Broadcast
<1>1. stream[b] # "none" /\ buffer[b] \in 0..1
  BY DEF IInv, Accounted, TypeOK
<1> QED BY <1>1 DEF Broadcast, Signal, Signalled

\* A lost Listener breaks the promises it had not passed on, and no other.
LEMMA ListenerAccounts == ASSUME IInv, ListenerLost \/ Redial PROVE Accounted'
<1>1. CASE ListenerLost
  <2> SUFFICES ASSUME NEW b \in Bots, promised'[b] # {}
               PROVE  Signal(b)' /\ stream'[b] # "none"
    BY DEF Accounted
  <2>1. promised'[b] = promised[b] \ Unbroadcast
    BY <1>1 DEF ListenerLost
  <2>2. Signal(b) /\ stream[b] # "none"
    BY <2>1 DEF IInv, Accounted
  <2> QED BY <1>1, <2>2 DEF ListenerLost, Signal
<1>2. CASE Redial
  BY <1>2 DEF IInv, Accounted, Redial, Signal, Unbroadcast
<1> QED BY <1>1, <1>2

\* A handler hands its signal on before it lets go of it.
LEMMA StreamAccounts ==
  ASSUME IInv, NEW b \in Bots, Connect(b) \/ StreamStep(b) \/ StreamLost(b)
  PROVE  Accounted'
<1>1. Unbroadcast' = Unbroadcast
  BY DEF Connect, StreamStep, TakeSignal, WriteEvent, BackToWait, StreamLost, signal, Unbroadcast
<1> SUFFICES ASSUME NEW c \in Bots
             PROVE  /\ promised'[c] \subseteq Unbroadcast \/ Signal(c)'
                    /\ promised'[c] # {} => stream'[c] # "none"
  BY <1>1 DEF Accounted
<1>2. /\ promised[c] \subseteq Unbroadcast \/ Signal(c)
      /\ promised[c] # {} => stream[c] # "none"
  BY DEF IInv, Accounted
<1> USE <1>2 DEF IInv, TypeOK, Signal
<1>3. CASE Connect(b)    BY <1>3 DEF Connect, Opening
<1>4. CASE TakeSignal(b) BY <1>4 DEF TakeSignal
<1>5. CASE WriteEvent(b) BY <1>5 DEF WriteEvent
<1>6. CASE BackToWait(b) BY <1>6 DEF BackToWait
<1>7. CASE StreamLost(b) BY <1>7 DEF StreamLost
<1> QED BY <1>3, <1>4, <1>5, <1>6, <1>7 DEF StreamStep

\* A claim uses up the promises of the bot that makes it, and the rows of the others'.
LEMMA ClaimAccounts ==
  ASSUME IInv, NEW b \in Bots, ClaimWoken(b) \/ Poll(b) \/ ClaimFails(b)
  PROVE  Accounted'
<1>1. Unbroadcast' = Unbroadcast
  BY DEF ClaimWoken, Poll, ClaimFails, signal, Unbroadcast
<1> SUFFICES ASSUME NEW c \in Bots
             PROVE  /\ promised'[c] \subseteq Unbroadcast \/ Signal(c)'
                    /\ promised'[c] # {} => stream'[c] # "none"
  BY <1>1 DEF Accounted
<1>2. /\ promised[c] \subseteq Unbroadcast \/ Signal(c)
      /\ promised[c] # {} => stream[c] # "none"
  BY DEF IInv, Accounted
<1>3. promised'[c] \subseteq promised[c] /\ stream' = stream /\ buffer' = buffer
  BY DEF ClaimWoken, Poll, ClaimFails, IInv, TypeOK
<1>4. promised'[c] = {} \/ told'[c] = told[c]
  BY DEF ClaimWoken, Poll, ClaimFails, IInv, TypeOK
<1> QED BY <1>2, <1>3, <1>4 DEF Signal

-----------------------------------------------------------------------------
(* The theorems.                                                           *)

\* The hub's invariant.
LEMMA HubInvariance == Spec => []IInv
<1>1. Init => IInv
  <2> SUFFICES ASSUME Init PROVE TypeOK /\ Accounted
    BY DEF IInv
  <2>1. heard \in Seq(SUBSET (1..made))
    BY DEF Init
  <2>2. /\ promised \in [Bots -> SUBSET waiting]
        /\ stream \in [Bots -> {"none", "greeting", "waiting", "writing", "written"}]
        /\ buffer \in [Bots -> 0..1]
        /\ told \in [Bots -> BOOLEAN]
    BY DEF Init
  <2>3. made \in 0..MaxRows /\ waiting \subseteq 1..made /\ losses \in 0..MaxLosses
    BY HubAssumption DEF HubAssumption, Init
  <2>4. listening \in BOOLEAN
    BY DEF Init
  <2>5. TypeOK
    BY <2>1, <2>2, <2>3, <2>4 DEF TypeOK
  <2>6. Accounted
    BY DEF Init, Accounted
  <2> QED BY <2>5, <2>6
<1>2. IInv /\ [Next]_vars => IInv'
  <2> SUFFICES ASSUME IInv, [Next]_vars PROVE IInv'
    OBVIOUS
  <2>0. HubAssumption /\ TypeOK
    BY HubAssumption DEF IInv
  <2>1. CASE Insert
    BY <2>0, <2>1, InsertTypeOK, InsertAccounts DEF IInv
  <2>2. CASE Broadcast
    BY <2>0, <2>2, HubTypeOK, BroadcastAccounts DEF IInv
  <2>3. CASE ListenerLost \/ Redial
    BY <2>0, <2>3, HubTypeOK, ListenerAccounts DEF IInv
  <2>4. ASSUME NEW b \in Bots, Connect(b) \/ StreamStep(b) \/ StreamLost(b)
        PROVE  IInv'
    BY <2>0, <2>4, StreamTypeOK, StreamAccounts DEF IInv
  <2>5. ASSUME NEW b \in Bots, ClaimWoken(b) \/ Poll(b) \/ ClaimFails(b)
        PROVE  IInv'
    BY <2>0, <2>5, ClaimTypeOK, ClaimAccounts DEF IInv
  <2>6. CASE UNCHANGED vars
    BY <2>6 DEF IInv, TypeOK, Accounted, Signal, Unbroadcast, vars
  <2> QED BY <2>1, <2>2, <2>3, <2>4, <2>5, <2>6 DEF Next
<1> QED BY <1>1, <1>2, PTL DEF Spec

\* The types hold: in particular no channel ever holds more than one signal (Subscribe).
THEOREM HubTypeCorrect == Spec => []TypeOK
<1>1. IInv => TypeOK BY DEF IInv
<1> QED BY <1>1, HubInvariance, PTL

\* Every signal on its way is accounted for by the rows it speaks for (Hub, Listener and
\* streamNotificationsHandler together).
THEOREM SignalsAccounted == Spec => []Accounted
<1>1. IInv => Accounted BY DEF IInv
<1> QED BY <1>1, HubInvariance, PTL

\* No wakeup is lost: a row inserted while the Listener listened, or waiting when a bot
\* connected, has a signal on its way to that bot until it is claimed.
THEOREM NoWakeupIsLost == Spec => []NoRowSleeps
<1>1. IInv => NoRowSleeps
  BY NothingHeard DEF IInv, Accounted, NoRowSleeps
<1> QED BY <1>1, HubInvariance, PTL

-----------------------------------------------------------------------------
(* Sums.                                                                   *)

\* A set of natural numbers has a least one.
LEMMA LeastNat ==
  ASSUME NEW S, S \subseteq Nat, S # {}
  PROVE  \E n \in S : \A m \in S : n <= m
<1> DEFINE Less == {ss \in Nat \X Nat : ss[1] < ss[2]}
<1>1. IsWellFoundedOn(Less, Nat)
  BY NatLessThanWellFounded DEF OpToRel
<1>2. PICK n \in S : \A m \in S : ~ (<<m, n>> \in Less)
  <2> HIDE DEF Less
  <2> QED BY <1>1, WFMin
<1>3. ASSUME NEW m \in S PROVE n <= m
  <2>1. m \in Nat /\ n \in Nat /\ ~(<<m, n>> \in Less)
    BY <1>2
  <2> QED BY <2>1
<1> QED BY <1>3

\* Among subsets of a finite set one loses membership with any of its elements.
LEMMA SmallestSubset ==
  ASSUME NEW S, IsFiniteSet(S), NEW B, B \subseteq SUBSET S, B # {}
  PROVE  \E T \in B : \A x \in T : T \ {x} \notin B
<1> DEFINE Sizes == {Cardinality(T) : T \in B}
<1>1. \A T \in B : IsFiniteSet(T) /\ Cardinality(T) \in Nat
  BY FS_Subset, FS_CardinalityType
<1>2. PICK n \in Sizes : \A m \in Sizes : n <= m
  <2>1. Sizes \subseteq Nat /\ Sizes # {}
    BY <1>1
  <2> HIDE DEF Sizes
  <2> QED BY <2>1, LeastNat
<1>3. PICK T \in B : n = Cardinality(T)
  OBVIOUS
<1>4. ASSUME NEW x \in T, T \ {x} \in B PROVE FALSE
  <2>1. Cardinality(T \ {x}) = n - 1
    BY <1>1, <1>3, FS_RemoveElement
  <2>2. n <= Cardinality(T \ {x})
    BY <1>2, <1>4
  <2>3. n \in Nat
    BY <1>1, <1>3
  <2> QED BY <2>1, <2>2, <2>3
<1> QED BY <1>4

\* SumFunction adds the elements up one by one, in some order.
LEMMA SumUnfolds ==
  ASSUME NEW S, IsFiniteSet(S), NEW f \in [S -> Int]
  PROVE  \E g \in [SUBSET S -> Int] :
           /\ SumFunction(f) = g[S] /\ g[{}] = 0
           /\ \A T \in SUBSET S : T # {} => \E x \in T : g[T] = f[x] + g[T \ {x}]
<1> DEFINE Any(T) == CHOOSE x \in T : TRUE
           Body(g, T) == IF T = {} THEN 0 ELSE f[Any(T)] + g[T \ {Any(T)}]
           UpTo(n) == {g \in [SUBSET S -> Int] : \A T \in SUBSET S : Cardinality(T) <= n => g[T] = Body(g, T)}
           Missed == {n \in Nat : UpTo(n) = {}}
<1>1. ASSUME NEW T \in SUBSET S
      PROVE  /\ IsFiniteSet(T) /\ Cardinality(T) \in Nat /\ Cardinality(T) <= Cardinality(S)
             /\ Cardinality(T) = 0 <=> T = {}
             /\ T # {} => /\ Any(T) \in T /\ T \ {Any(T)} \in SUBSET S
                          /\ Cardinality(T \ {Any(T)}) = Cardinality(T) - 1
  <2>1. IsFiniteSet(T) /\ Cardinality(T) \in Nat /\ Cardinality(T) <= Cardinality(S)
    BY FS_Subset, FS_CardinalityType
  <2>2. Cardinality(T) = 0 <=> T = {}
    BY <2>1, FS_EmptySet
  <2>3. T # {} => Any(T) \in T
    OBVIOUS
  <2> QED BY <2>1, <2>2, <2>3, FS_RemoveElement
<1> HIDE DEF Any
<1>2. ASSUME NEW g \in [SUBSET S -> Int], NEW T \in SUBSET S PROVE Body(g, T) \in Int
  <2>1. CASE T = {}
    BY <2>1
  <2>2. CASE T # {}
    <3>1. Any(T) \in S /\ T \ {Any(T)} \in SUBSET S
      BY <1>1, <2>2
    <3> QED BY <2>2, <3>1
  <2> QED BY <2>1, <2>2
<1>3. Missed = {}
  <2> SUFFICES ASSUME Missed # {} PROVE FALSE
    OBVIOUS
  <2>1. PICK n \in Missed : \A m \in Missed : n <= m
    <3> Missed \subseteq Nat
      OBVIOUS
    <3> HIDE DEF Missed
    <3> QED BY LeastNat
  <2>2. n \in Nat /\ UpTo(n) = {}
    OBVIOUS
  <2>3. CASE n = 0
    <3> DEFINE z == [T \in SUBSET S |-> 0]
    <3>1. ASSUME NEW T \in SUBSET S, Cardinality(T) <= n PROVE z[T] = Body(z, T)
      <4>1. Cardinality(T) \in Nat /\ (Cardinality(T) = 0 => T = {})
        BY <1>1
      <4>2. Cardinality(T) <= 0
        BY <2>3, <3>1
      <4>3. T = {}
        BY <4>1, <4>2
      <4> QED BY <4>3
    <3>2. z \in UpTo(n)
      <4>1. z \in [SUBSET S -> Int]
        OBVIOUS
      <4> HIDE DEF Body, z
      <4> QED BY <3>1, <4>1
    <3> QED BY <2>2, <3>2
  <2>4. CASE n # 0
    <3>1. n - 1 \in Nat /\ n - 1 \notin Missed
      <4> HIDE DEF Missed
      <4>1. n - 1 \in Nat /\ ~(n <= n - 1)
        BY <2>2, <2>4
      <4> QED BY <2>1, <4>1
    <3>2. PICK h \in [SUBSET S -> Int] : \A T \in SUBSET S : Cardinality(T) <= n - 1 => h[T] = Body(h, T)
      BY <3>1
    <3> DEFINE g == [T \in SUBSET S |-> Body(h, T)]
    <3>3. g \in [SUBSET S -> Int]
      <4> HIDE DEF Body
      <4> QED BY <1>2
    <3>4. ASSUME NEW T \in SUBSET S, Cardinality(T) <= n PROVE g[T] = Body(g, T)
      <4>1. CASE T = {}
        BY <4>1
      <4>2. CASE T # {}
        <5>1. T \ {Any(T)} \in SUBSET S /\ Cardinality(T \ {Any(T)}) <= n - 1
          BY <1>1, <2>2, <3>4, <4>2
        <5>2. g[T \ {Any(T)}] = h[T \ {Any(T)}]
          BY <3>2, <5>1
        <5> QED BY <4>2, <5>2
      <4> QED BY <4>1, <4>2
    <3>5. g \in UpTo(n)
      <4> HIDE DEF Body, g
      <4> QED BY <3>3, <3>4
    <3> QED BY <2>2, <3>5
  <2> QED BY <2>3, <2>4
<1>4. Cardinality(S) \in Nat
  BY FS_CardinalityType
<1>5. PICK h \in [SUBSET S -> Int] : \A T \in SUBSET S : h[T] = Body(h, T)
  <2>1. PICK h \in UpTo(Cardinality(S)) : TRUE
    BY <1>3, <1>4
  <2>2. ASSUME NEW T \in SUBSET S PROVE h[T] = Body(h, T)
    <3>1. Cardinality(T) <= Cardinality(S)
      BY <1>1
    <3> HIDE DEF Body
    <3> QED BY <3>1
  <2> QED BY <2>2
<1> DEFINE G == CHOOSE g : g = [T \in SUBSET S |-> Body(g, T)]
<1>6. G = [T \in SUBSET S |-> Body(G, T)]
  <2>1. h = [T \in SUBSET S |-> Body(h, T)]
    <3> HIDE DEF Body
    <3> QED BY <1>5
  <2> HIDE DEF Body
  <2> QED BY <2>1
<1>7. SumFunction(f) = G[S]
  BY DEF SumFunction, SumFunctionOnSet, FoldFunctionOnSet, MapThenFoldSet, Any
<1> HIDE DEF G
<1>8. \A T \in SUBSET S : G[T] = Body(G, T)
  BY <1>6
<1>9. \A T \in SUBSET S : G[T] \in Int
  <2> DEFINE Odd == {T \in SUBSET S : G[T] \notin Int}
  <2> SUFFICES ASSUME Odd # {} PROVE FALSE
    OBVIOUS
  <2>1. PICK T \in Odd : \A x \in T : T \ {x} \notin Odd
    <3>1. Odd \subseteq SUBSET S
      OBVIOUS
    <3> HIDE DEF Odd
    <3> QED BY <3>1, SmallestSubset
  <2>2. CASE T = {}
    <3>1. G[T] = 0 /\ G[T] \notin Int
      BY <1>8, <2>2
    <3> QED BY <3>1
  <2>3. CASE T # {}
    <3>1. Any(T) \in T /\ T \ {Any(T)} \in SUBSET S
      BY <1>1, <2>3
    <3>2. G[T \ {Any(T)}] \in Int
      BY <2>1, <3>1
    <3>3. G[T] = f[Any(T)] + G[T \ {Any(T)}]
      BY <1>8, <2>3
    <3> QED BY <3>1, <3>2, <3>3
  <2> QED BY <2>2, <2>3
<1>10. \A T \in SUBSET S : T # {} => \E x \in T : G[T] = f[x] + G[T \ {x}]
  BY <1>1, <1>8
<1>11. G \in [SUBSET S -> Int]
  BY <1>6, <1>9
<1>12. G[{}] = 0
  BY <1>8
<1> QED BY <1>7, <1>10, <1>11, <1>12

\* The sizes of the parts of a set add up to its size.
LEMMA PartsAddUp ==
  ASSUME NEW U, IsFiniteSet(U), NEW D, IsFiniteSet(D), NEW P \in [D -> SUBSET U],
         \A u \in U : \E d \in D : u \in P[d],
         \A c, d \in D : c # d => P[c] \cap P[d] = {}
  PROVE  SumFunction([d \in D |-> Cardinality(P[d])]) = Cardinality(U)
<1> DEFINE f == [d \in D |-> Cardinality(P[d])]
           Of(E) == UNION {P[d] : d \in E}
<1>1. \A V \in SUBSET U : IsFiniteSet(V) /\ Cardinality(V) \in Nat
  BY FS_Subset, FS_CardinalityType
<1>2. f \in [D -> Int]
  BY <1>1
<1>3. PICK g \in [SUBSET D -> Int] :
        /\ SumFunction(f) = g[D] /\ g[{}] = 0
        /\ \A T \in SUBSET D : T # {} => \E x \in T : g[T] = f[x] + g[T \ {x}]
  <2>1. \A h \in [D -> Int] : \E g \in [SUBSET D -> Int] :
          /\ SumFunction(h) = g[D] /\ g[{}] = 0
          /\ \A T \in SUBSET D : T # {} => \E x \in T : g[T] = h[x] + g[T \ {x}]
    BY SumUnfolds, Zenon
  <2> HIDE DEF f
  <2> QED BY <1>2, <2>1
<1>4. \A E \in SUBSET D : g[E] = Cardinality(Of(E))
  <2> DEFINE Odd == {E \in SUBSET D : g[E] # Cardinality(Of(E))}
  <2> SUFFICES ASSUME Odd # {} PROVE FALSE
    OBVIOUS
  <2>1. PICK E \in Odd : \A d \in E : E \ {d} \notin Odd
    <3>1. Odd \subseteq SUBSET D
      OBVIOUS
    <3> HIDE DEF Odd
    <3> QED BY <3>1, SmallestSubset
  <2>2. E \in SUBSET D /\ g[E] # Cardinality(Of(E))
    OBVIOUS
  <2>3. CASE E = {}
    <3>1. Of(E) = {}
      BY <2>3
    <3> QED BY <1>3, <2>2, <2>3, <3>1, FS_EmptySet
  <2>4. CASE E # {}
    <3>1. PICK d \in E : g[E] = f[d] + g[E \ {d}]
      BY <1>3, <2>2, <2>4
    <3>2. g[E \ {d}] = Cardinality(Of(E \ {d}))
      BY <2>1, <2>2
    <3>3. Of(E) = P[d] \cup Of(E \ {d}) /\ P[d] \cap Of(E \ {d}) = {}
      BY <2>2
    <3>4. P[d] \in SUBSET U /\ Of(E \ {d}) \in SUBSET U
      BY <2>2
    <3>5. Cardinality(Of(E)) = Cardinality(P[d]) + Cardinality(Of(E \ {d}))
      <4>1. Cardinality(P[d] \cap Of(E \ {d})) = 0
        BY <3>3, FS_EmptySet
      <4>2. \A A, B : IsFiniteSet(A) /\ IsFiniteSet(B) /\ Cardinality(A \cap B) = 0
                        => (Cardinality(A) \in Nat /\ Cardinality(B) \in Nat
                             => Cardinality(A \cup B) = Cardinality(A) + Cardinality(B))
        BY FS_Union
      <4>3. IsFiniteSet(P[d]) /\ IsFiniteSet(Of(E \ {d})) /\ Cardinality(P[d]) \in Nat /\ Cardinality(Of(E \ {d})) \in Nat
        <5> HIDE DEF Of
        <5> QED BY <1>1, <3>4
      <4> HIDE DEF Of
      <4> QED BY <3>3, <4>1, <4>2, <4>3
    <3>6. f[d] = Cardinality(P[d])
      BY <2>2
    <3> QED BY <2>2, <3>1, <3>2, <3>5, <3>6
  <2> QED BY <2>3, <2>4
<1>5. Of(D) = U
  OBVIOUS
<1> QED BY <1>3, <1>4, <1>5

-----------------------------------------------------------------------------
(* Counting.                                                               *)

\* A subset of a finite set has a size, and no larger one.
LEMMA Counts ==
  ASSUME NEW S, IsFiniteSet(S)
  PROVE  \A T \in SUBSET S : IsFiniteSet(T) /\ Cardinality(T) \in 0..Cardinality(S)
<1>1. Cardinality(S) \in Nat
  BY FS_CardinalityType
<1>2. ASSUME NEW T \in SUBSET S PROVE IsFiniteSet(T) /\ Cardinality(T) \in 0..Cardinality(S)
  <2>1. IsFiniteSet(T) /\ Cardinality(T) <= Cardinality(S)
    BY FS_Subset
  <2>2. Cardinality(T) \in Nat
    BY <2>1, FS_CardinalityType
  <2> QED BY <1>1, <2>1, <2>2
<1> QED BY <1>2

\* What is true of fewer is counted in fewer.
LEMMA TwoParts ==
  ASSUME NEW S, IsFiniteSet(S), NEW A \in SUBSET S, NEW B \in SUBSET S, A \cap B = {}
  PROVE  Cardinality(A \cup B) = Cardinality(A) + Cardinality(B)
<1>1. IsFiniteSet(A) /\ IsFiniteSet(B) /\ Cardinality(A) \in Nat /\ Cardinality(B) \in Nat
  BY Counts
<1>2. Cardinality(A \cap B) = 0
  BY FS_EmptySet
<1>3. Cardinality(A \cup B) = Cardinality(A) + Cardinality(B) - Cardinality(A \cap B)
  BY <1>1, FS_Union
<1> QED BY <1>1, <1>2, <1>3

-----------------------------------------------------------------------------
(* The statements.                                                         *)

\* What is counted of a window is no more than its events.
LEMMA WindowCounts ==
  ASSUME AnalysisAssumption, NEW u
  PROVE  \A T \in SUBSET InWindow(u) : IsFiniteSet(T) /\ Cardinality(T) \in 0..Cardinality(InWindow(u))
<1>1. IsFiniteSet(InWindow(u))
  BY FS_Subset DEF InWindow, AnalysisAssumption
<1> QED BY <1>1, Counts

\* Every answer is one of six, so that a raider's answers are no more than the events.
LEMMA AnswersFitTheWindow ==
  ASSUME AnalysisAssumption, NEW u, NEW c \in Characters
  PROVE  LET row == AttendanceByCharacter(u)[c] IN
         /\ \A s \in Statuses : row[s] \in 0..Cardinality(InWindow(u))
         /\ Cardinality(InWindow(u)) \in Nat
         /\ row["CONFIRMED"] + row["TENTATIVE"] + row["DECLINED"] + row["LATE"] + row["ABSENT"] + row["NO_SHOW"]
              <= Cardinality(InWindow(u))
<1> DEFINE W == InWindow(u)
           T(s) == {e \in W : answer[e][c] = s}
           row == AttendanceByCharacter(u)[c]
<1>1. \A s \in Statuses : row[s] = Cardinality(T(s))
  BY DEF AttendanceByCharacter, Quantify
<1>2. \A s : T(s) \in SUBSET W
  OBVIOUS
<1>3. IsFiniteSet(W) /\ Cardinality(W) \in Nat
  BY WindowCounts, FS_CardinalityType
<1>4. \A V \in SUBSET W : IsFiniteSet(V) /\ Cardinality(V) \in Nat /\ Cardinality(V) <= Cardinality(W)
  BY <1>3, WindowCounts
<1>5. \A s, t : s # t => T(s) \cap T(t) = {}
  OBVIOUS
<1> DEFINE T2 == T("CONFIRMED") \cup T("TENTATIVE")
           T3 == T2 \cup T("DECLINED")
           T4 == T3 \cup T("LATE")
           T5 == T4 \cup T("ABSENT")
           T6 == T5 \cup T("NO_SHOW")
<1>6. T2 \in SUBSET W /\ T3 \in SUBSET W /\ T4 \in SUBSET W /\ T5 \in SUBSET W /\ T6 \in SUBSET W
  BY <1>2
<1>7. /\ T("CONFIRMED") \cap T("TENTATIVE") = {} /\ T2 \cap T("DECLINED") = {} /\ T3 \cap T("LATE") = {}
      /\ T4 \cap T("ABSENT") = {} /\ T5 \cap T("NO_SHOW") = {}
  OBVIOUS
<1>8. Cardinality(T2) = Cardinality(T("CONFIRMED")) + Cardinality(T("TENTATIVE"))
  <2> HIDE DEF W, T
  <2> QED BY <1>2, <1>3, <1>7, TwoParts
<1>9. Cardinality(T3) = Cardinality(T2) + Cardinality(T("DECLINED"))
  <2> HIDE DEF W, T, T2
  <2> QED BY <1>2, <1>3, <1>6, <1>7, TwoParts
<1>10. Cardinality(T4) = Cardinality(T3) + Cardinality(T("LATE"))
  <2> HIDE DEF W, T, T3
  <2> QED BY <1>2, <1>3, <1>6, <1>7, TwoParts
<1>11. Cardinality(T5) = Cardinality(T4) + Cardinality(T("ABSENT"))
  <2> HIDE DEF W, T, T4
  <2> QED BY <1>2, <1>3, <1>6, <1>7, TwoParts
<1>12. Cardinality(T6) = Cardinality(T5) + Cardinality(T("NO_SHOW"))
  <2> HIDE DEF W, T, T5
  <2> QED BY <1>2, <1>3, <1>6, <1>7, TwoParts
<1>13. Cardinality(T6) <= Cardinality(W)
  <2> HIDE DEF W, T6
  <2> QED BY <1>4, <1>6
<1>14. \A s \in Statuses : row[s] \in Nat /\ row[s] <= Cardinality(W)
  <2> HIDE DEF W, T, row
  <2> QED BY <1>1, <1>2, <1>4
<1>15. row["CONFIRMED"] + row["TENTATIVE"] + row["DECLINED"] + row["LATE"] + row["ABSENT"] + row["NO_SHOW"]
         = Cardinality(T6)
  <2>1. {"CONFIRMED", "TENTATIVE", "DECLINED", "LATE", "ABSENT", "NO_SHOW"} \subseteq Statuses
    BY DEF Statuses
  <2> HIDE DEF T, T2, T3, T4, T5, T6, row
  <2> QED BY <1>1, <1>8, <1>9, <1>10, <1>11, <1>12, <2>1
<1> QED
  <2> HIDE DEF T, T6, W, row
  <2> USE DEF row, W
  <2> QED BY <1>3, <1>13, <1>14, <1>15

\* The seats of the boards in the window.
LEMMA SlotsAreFinite == ASSUME AnalysisAssumption, NEW u PROVE IsFiniteSet(Slots(u))
<1>1. IsFiniteSet(InWindow(u)) /\ IsFiniteSet(Characters)
  BY WindowCounts DEF AnalysisAssumption
<1>2. IsFiniteSet(InWindow(u) \X Characters)
  BY <1>1, FS_Product
<1> QED BY <1>2, FS_Subset DEF Slots

\* A seat is its role, on the bench or not.
LEMMA SeatIs ==
  \A s \in Seat : \A r : s.role = r <=> s = [role |-> r, bench |-> FALSE] \/ s = [role |-> r, bench |-> TRUE]
<1>1. SUFFICES ASSUME NEW s \in Seat, NEW r
               PROVE  s.role = r <=> s = [role |-> r, bench |-> FALSE] \/ s = [role |-> r, bench |-> TRUE]
  OBVIOUS
<1>2. s = [role |-> s.role, bench |-> s.bench] /\ s.bench \in BOOLEAN
  BY DEF Seat
<1>3. CASE s.bench = TRUE
  BY <1>2, <1>3
<1>4. CASE s.bench = FALSE
  BY <1>2, <1>4
<1> QED BY <1>2, <1>3, <1>4

\* The role totals are those of the boards, seat by seat.
LEMMA TotalsAddUp ==
  ASSUME AnalysisAssumption, AnalysisTypeOK, NEW u
  PROVE  LET roles == CompRoleTotals(u) IN
         /\ roles \in [Roles -> [placed : Nat, benched : Nat]]
         /\ SumFunction([r \in Roles |-> roles[r].placed + roles[r].benched]) = Cardinality(Slots(u))
<1> DEFINE S == Slots(u)
           roles == CompRoleTotals(u)
           On(r) == {x \in S : seat[x[1]][x[2]] = [role |-> r, bench |-> FALSE]}
           Off(r) == {x \in S : seat[x[1]][x[2]] = [role |-> r, bench |-> TRUE]}
           P == [r \in Roles |-> {x \in S : seat[x[1]][x[2]].role = r}]
<1>1. IsFiniteSet(S) /\ IsFiniteSet(Roles)
  BY SlotsAreFinite DEF AnalysisAssumption
<1>2. \A T \in SUBSET S : Cardinality(T) \in Nat
  BY <1>1, Counts
<1>3. \A x \in S : seat[x[1]][x[2]] \in Seat
  BY DEF Slots, AnalysisTypeOK, Boards, InWindow
<1>4. ASSUME NEW r \in Roles
      PROVE  /\ roles[r] = [placed |-> roles[r].placed, benched |-> roles[r].benched]
             /\ roles[r].placed = Cardinality(On(r))
             /\ roles[r].benched = Cardinality(Off(r))
  BY DEF CompRoleTotals, Quantify
<1>5. \A r \in Roles : On(r) \in SUBSET S /\ Off(r) \in SUBSET S /\ On(r) \cap Off(r) = {}
  OBVIOUS
<1>6. \A r \in Roles : P[r] = On(r) \cup Off(r)
  <2>1. \A x \in S : \A r : seat[x[1]][x[2]].role = r
                              <=> \/ seat[x[1]][x[2]] = [role |-> r, bench |-> FALSE]
                                  \/ seat[x[1]][x[2]] = [role |-> r, bench |-> TRUE]
    <3> HIDE DEF S
    <3> QED BY <1>3, SeatIs
  <2>2. ASSUME NEW r \in Roles PROVE P[r] = On(r) \cup Off(r)
    <3>1. P[r] = {x \in S : seat[x[1]][x[2]].role = r}
      <4> HIDE DEF S
      <4> QED OBVIOUS
    <3>2. \A x : x \in P[r] <=> x \in On(r) \/ x \in Off(r)
      <4> HIDE DEF S, P
      <4> QED BY <2>1, <3>1
    <3> HIDE DEF P, On, Off
    <3> QED BY <3>2
  <2> HIDE DEF S, P, On, Off
  <2> QED BY <2>2
<1>7. P \in [Roles -> SUBSET S]
  OBVIOUS
<1>8. \A x \in S : \E r \in Roles : x \in P[r]
  BY <1>3 DEF Seat
<1>9. \A r, q \in Roles : r # q => P[r] \cap P[q] = {}
  OBVIOUS
<1>10. SumFunction([r \in Roles |-> Cardinality(P[r])]) = Cardinality(S)
  <2> HIDE DEF S, P
  <2> QED BY <1>1, <1>7, <1>8, <1>9, PartsAddUp
<1>11. \A r \in Roles : Cardinality(P[r]) = roles[r].placed + roles[r].benched
  <2>1. ASSUME NEW r \in Roles PROVE Cardinality(P[r]) = roles[r].placed + roles[r].benched
    <3>1. Cardinality(On(r) \cup Off(r)) = Cardinality(On(r)) + Cardinality(Off(r))
      <4> HIDE DEF S, On, Off
      <4> QED BY <1>1, <1>5, TwoParts
    <3> HIDE DEF S, P, On, Off, roles
    <3> QED BY <1>4, <1>6, <3>1
  <2> QED BY <2>1
<1>12. roles \in [Roles -> [placed : Nat, benched : Nat]]
  <2>1. roles = [r \in Roles |-> roles[r]]
    BY DEF CompRoleTotals
  <2>2. ASSUME NEW r \in Roles PROVE roles[r] \in [placed : Nat, benched : Nat]
    <3>1. roles[r].placed \in Nat /\ roles[r].benched \in Nat
      <4> HIDE DEF S, On, Off, roles
      <4> QED BY <1>2, <1>4, <1>5
    <3>2. roles[r] = [placed |-> roles[r].placed, benched |-> roles[r].benched]
      <4> HIDE DEF S, On, Off, roles
      <4> QED BY <1>4
    <3> HIDE DEF roles
    <3> QED BY <3>1, <3>2
  <2> HIDE DEF roles
  <2> QED BY <2>1, <2>2
<1> HIDE DEF P
<1> QED BY <1>10, <1>11, <1>12

\* So is the bench tracker.
LEMMA BenchAddsUp ==
  ASSUME AnalysisAssumption, NEW u
  PROVE  LET bench == BenchByCharacter(u) IN
         /\ \A c \in Characters : bench[c].boards \in Nat /\ bench[c].benched \in Nat
         /\ SumFunction([c \in Characters |-> bench[c].boards]) = Cardinality(Slots(u))
<1> DEFINE S == Slots(u)
           bench == BenchByCharacter(u)
           P == [c \in Characters |-> {x \in S : x[2] = c}]
<1>1. IsFiniteSet(S) /\ IsFiniteSet(Characters)
  BY SlotsAreFinite DEF AnalysisAssumption
<1>2. \A T \in SUBSET S : Cardinality(T) \in Nat
  BY <1>1, Counts
<1>3. \A c \in Characters : bench[c].boards = Cardinality(P[c])
  BY DEF BenchByCharacter, Quantify
<1>4. \A c \in Characters : bench[c].benched = Cardinality({x \in S : x[2] = c /\ seat[x[1]][c].bench})
  BY DEF BenchByCharacter, Quantify
<1>5. P \in [Characters -> SUBSET S]
  OBVIOUS
<1>6. \A x \in S : \E c \in Characters : x \in P[c]
  BY DEF Slots
<1>7. \A c, d \in Characters : c # d => P[c] \cap P[d] = {}
  OBVIOUS
<1>8. SumFunction([c \in Characters |-> Cardinality(P[c])]) = Cardinality(S)
  <2> HIDE DEF S, P
  <2> QED BY <1>1, <1>5, <1>6, <1>7, PartsAddUp
<1>9. \A c \in Characters : bench[c].boards \in Nat /\ bench[c].benched \in Nat
  <2> HIDE DEF bench
  <2> QED BY <1>2, <1>3, <1>4
<1> HIDE DEF P
<1> QED BY <1>3, <1>8, <1>9

\* However the join multiplies the rows, the people in them are on the roster.
LEMMA WeeksCount ==
  ASSUME AnalysisAssumption, NEW u, NEW w \in DOMAIN EventThroughput(u),
         NEW count \in {"confirmed", "declined", "noShow", "placed", "benched"}
  PROVE  EventThroughput(u)[w][count] \in 0..Cardinality(Characters)
<1> DEFINE rows == {x \in Joined(u) : Week(starts[x[1]]) = w}
           Said(s) == {x \in rows : x[2] # NONE /\ answer[x[1]][x[2]] = s}
           On == {x \in rows : x[3] # NONE /\ seat[x[1]][x[3]].bench = FALSE}
           Off == {x \in rows : x[3] # NONE /\ seat[x[1]][x[3]].bench = TRUE}
           week == EventThroughput(u)[w]
<1>1. \A x \in Joined(u) : (x[2] # NONE => x[2] \in Characters) /\ (x[3] # NONE => x[3] \in Characters)
  <2>1. SUFFICES ASSUME NEW e \in InWindow(u),
                        NEW x \in {e} \X OrNull({c \in Characters : answer[e][c] # NONE})
                                      \X OrNull({c \in Characters : seat[e][c] # Empty})
                 PROVE  (x[2] # NONE => x[2] \in Characters) /\ (x[3] # NONE => x[3] \in Characters)
    BY DEF Joined
  <2> QED BY DEF OrNull
<1>2. /\ \A s : {x[2] : x \in Said(s)} \in SUBSET Characters
      /\ {x[3] : x \in On} \in SUBSET Characters /\ {x[3] : x \in Off} \in SUBSET Characters
  <2> HIDE DEF week
  <2> QED BY <1>1
<1>3. \A T \in SUBSET Characters : Cardinality(T) \in 0..Cardinality(Characters)
  BY Counts DEF AnalysisAssumption
<1>4. /\ week.confirmed = Cardinality({x[2] : x \in Said("CONFIRMED")})
      /\ week.declined = Cardinality({x[2] : x \in Said("DECLINED")})
      /\ week.noShow = Cardinality({x[2] : x \in Said("NO_SHOW")})
      /\ week.placed = Cardinality({x[3] : x \in On})
      /\ week.benched = Cardinality({x[3] : x \in Off})
  BY DEF EventThroughput, People
<1>5. /\ week.confirmed \in 0..Cardinality(Characters) /\ week.declined \in 0..Cardinality(Characters)
      /\ week.noShow \in 0..Cardinality(Characters)
      /\ week.placed \in 0..Cardinality(Characters) /\ week.benched \in 0..Cardinality(Characters)
  <2> HIDE DEF Said, On, Off, week
  <2> QED BY <1>2, <1>3, <1>4
<1>6. week[count] \in 0..Cardinality(Characters)
  <2> HIDE DEF week
  <2> QED BY <1>5
<1> QED BY <1>6

-----------------------------------------------------------------------------
(* Order statistics.                                                       *)

\* The rows whose item level is no more than v.
Below(rows, v) == {k \in rows : snapshots[k].ilvl <= v}

\* The item levels that i of the rows do not exceed.
Reached(rows, i) == {v \in {snapshots[k].ilvl : k \in rows} : Cardinality(Below(rows, v)) >= i}

\* Some item level is the highest.
LEMMA HighestIlvl ==
  ASSUME NEW rows, IsFiniteSet(rows), rows # {}, \A k \in rows : snapshots[k].ilvl \in Nat
  PROVE  \E m \in rows : \A k \in rows : snapshots[k].ilvl <= snapshots[m].ilvl
<1> DEFINE Above(m) == {k \in rows : snapshots[k].ilvl > snapshots[m].ilvl}
           Sizes == {Cardinality(Above(m)) : m \in rows}
<1>1. \A m \in rows : Above(m) \in SUBSET rows
  OBVIOUS
<1>2. \A m \in rows : IsFiniteSet(Above(m)) /\ Cardinality(Above(m)) \in Nat
  <2> HIDE DEF Above
  <2> QED BY <1>1, Counts
<1>3. PICK n \in Sizes : \A m \in Sizes : n <= m
  <2>1. Sizes \subseteq Nat /\ Sizes # {}
    BY <1>2
  <2> HIDE DEF Sizes
  <2> QED BY <2>1, LeastNat
<1>4. PICK m \in rows : n = Cardinality(Above(m))
  OBVIOUS
<1>5. ASSUME NEW k \in rows, ~(snapshots[k].ilvl <= snapshots[m].ilvl) PROVE FALSE
  <2>1. snapshots[k].ilvl > snapshots[m].ilvl /\ k \in Above(m)
    BY <1>5
  <2>2. Above(k) \in SUBSET (Above(m) \ {k})
    BY <2>1
  <2>3. IsFiniteSet(Above(m) \ {k}) /\ Cardinality(Above(m) \ {k}) = n - 1
    <3> HIDE DEF Above
    <3> QED BY <1>2, <1>4, <2>1, FS_RemoveElement
  <2>4. Cardinality(Above(k)) <= n - 1
    <3> HIDE DEF Above
    <3> QED BY <2>2, <2>3, FS_Subset
  <2>5. n <= Cardinality(Above(k)) /\ Cardinality(Above(k)) \in Nat /\ n \in Nat
    BY <1>2, <1>3, <1>4
  <2> QED BY <2>4, <2>5
<1> QED BY <1>5

\* The i-th lowest is the least of the item levels that i of the rows do not exceed.
LEMMA NthIsLeast ==
  ASSUME NEW rows, IsFiniteSet(rows), \A k \in rows : snapshots[k].ilvl \in Nat,
         NEW i \in 1..Cardinality(rows)
  PROVE  /\ Nth(rows, i) \in Nat /\ Nth(rows, i) \in Reached(rows, i)
         /\ \A u \in Reached(rows, i) : Nth(rows, i) <= u
<1>1. rows # {}
  BY FS_EmptySet
<1>2. PICK m \in rows : \A k \in rows : snapshots[k].ilvl <= snapshots[m].ilvl
  BY <1>1, HighestIlvl
<1>3. Below(rows, snapshots[m].ilvl) = rows
  BY <1>2 DEF Below
<1>4. snapshots[m].ilvl \in Reached(rows, i)
  <2>1. Cardinality(rows) \in Nat /\ Cardinality(rows) >= i
    BY FS_CardinalityType
  <2> QED BY <1>3, <2>1 DEF Reached
<1>5. Reached(rows, i) \subseteq Nat /\ Reached(rows, i) # {}
  BY <1>4 DEF Reached
<1>6. \E n \in Reached(rows, i) : \A u \in Reached(rows, i) : n <= u
  BY <1>5, LeastNat
<1>7. Nth(rows, i) = CHOOSE v \in {snapshots[k].ilvl : k \in rows} :
                       /\ Cardinality(Below(rows, v)) >= i
                       /\ \A u \in {snapshots[k].ilvl : k \in rows} : Cardinality(Below(rows, u)) >= i => v <= u
  BY DEF Nth, Quantify, Below
<1>8. \E v \in {snapshots[k].ilvl : k \in rows} :
                       /\ Cardinality(Below(rows, v)) >= i
                       /\ \A u \in {snapshots[k].ilvl : k \in rows} : Cardinality(Below(rows, u)) >= i => v <= u
  BY <1>6 DEF Reached
<1>9. /\ Nth(rows, i) \in {snapshots[k].ilvl : k \in rows}
      /\ Cardinality(Below(rows, Nth(rows, i))) >= i
      /\ \A u \in {snapshots[k].ilvl : k \in rows} : Cardinality(Below(rows, u)) >= i => Nth(rows, i) <= u
  <2> HIDE DEF Below
  <2> QED BY <1>7, <1>8
<1> QED BY <1>9 DEF Reached

\* A later place is no lower.
LEMMA NthGrows ==
  ASSUME NEW rows, IsFiniteSet(rows), \A k \in rows : snapshots[k].ilvl \in Nat,
         NEW i \in 1..Cardinality(rows), NEW j \in i..Cardinality(rows)
  PROVE  Nth(rows, i) <= Nth(rows, j)
<1>1. Cardinality(rows) \in Nat /\ i \in Nat /\ j \in Nat /\ i <= j /\ j \in 1..Cardinality(rows)
  BY FS_CardinalityType
<1>2. \A v : Below(rows, v) \in SUBSET rows
  BY DEF Below
<1>3. \A v : Cardinality(Below(rows, v)) \in Nat
  BY <1>2, Counts
<1>4. \A v \in Reached(rows, j) : v \in Reached(rows, i)
  BY <1>1, <1>3 DEF Reached
<1>5. Nth(rows, j) \in Reached(rows, j)
  BY <1>1, NthIsLeast
<1> QED BY <1>4, <1>5, NthIsLeast

\* A higher percentile is no lower.
LEMMA PercentilesInOrder ==
  ASSUME NEW rows, IsFiniteSet(rows), rows # {}, \A k \in rows : snapshots[k].ilvl \in Nat,
         NEW p \in 1..3, NEW q \in p..3
  PROVE  PercentileCont(p, rows) <= PercentileCont(q, rows)
<1> DEFINE n == Cardinality(rows)
           low(r) == (r * (n - 1)) \div 4
           off(r) == (r * (n - 1)) % 4
           A(r) == Nth(rows, low(r) + 1)
           B(r) == Nth(rows, low(r) + 2)
<1>1. n \in Nat \ {0}
  BY FS_CardinalityType, FS_EmptySet
<1>2. \A r \in 1..3 : PercentileCont(r, rows) = (4 - off(r)) * A(r) + (IF off(r) = 0 THEN 0 ELSE off(r) * B(r))
  BY DEF PercentileCont
<1>3. ASSUME NEW r \in 1..3
      PROVE  /\ low(r) \in Nat /\ off(r) \in 0..3 /\ low(r) + 1 \in 1..n
             /\ off(r) # 0 => low(r) + 2 \in 1..n
             /\ r * (n - 1) = 4 * low(r) + off(r)
  <2>1. CASE r = 1
    BY <1>1, <2>1
  <2>2. CASE r = 2
    BY <1>1, <2>2
  <2>3. CASE r = 3
    BY <1>1, <2>3
  <2> QED BY <2>1, <2>2, <2>3
<1>4. p * (n - 1) <= q * (n - 1)
  <2>1. CASE p = 1
    BY <1>1, <2>1
  <2>2. CASE p = 2
    BY <1>1, <2>2
  <2>3. CASE p = 3
    BY <1>1, <2>3
  <2> QED BY <2>1, <2>2, <2>3
<1>5. \A i \in 1..n, j \in 1..n : i <= j => Nth(rows, i) \in Nat /\ Nth(rows, j) \in Nat /\ Nth(rows, i) <= Nth(rows, j)
  <2>1. \A i \in 1..n, j \in 1..n : i <= j => j \in i..n
    BY <1>1
  <2> QED BY <2>1, NthIsLeast, NthGrows
<1>6. p \in 1..3 /\ q \in 1..3
  OBVIOUS
<1> HIDE DEF n, low, off
\* Between two neighbours.
<1>7. ASSUME NEW r \in 1..3
      PROVE  /\ A(r) \in Nat /\ PercentileCont(r, rows) \in Nat /\ 4 * A(r) <= PercentileCont(r, rows)
             /\ off(r) = 0 => PercentileCont(r, rows) = 4 * A(r)
             /\ off(r) # 0 => /\ B(r) \in Nat /\ A(r) <= B(r) /\ PercentileCont(r, rows) <= 4 * B(r)
                              /\ PercentileCont(r, rows) = (4 - off(r)) * A(r) + off(r) * B(r)
  <2>1. A(r) \in Nat
    BY <1>3, <1>5
  <2>2. CASE off(r) = 0
    BY <1>2, <2>1, <2>2
  <2>3. CASE off(r) # 0
    <3>1. B(r) \in Nat /\ A(r) <= B(r)
      BY <1>1, <1>3, <1>5, <2>3
    <3>2. PercentileCont(r, rows) = (4 - off(r)) * A(r) + off(r) * B(r)
      BY <1>2, <2>3
    <3> HIDE DEF A, B
    <3>3. off(r) \in 1..3
      BY <1>3, <2>3
    <3>4. CASE off(r) = 1
      BY <2>1, <3>1, <3>2, <3>4
    <3>5. CASE off(r) = 2
      BY <2>1, <3>1, <3>2, <3>5
    <3>6. CASE off(r) = 3
      BY <2>1, <3>1, <3>2, <3>6
    <3> QED BY <3>3, <3>4, <3>5, <3>6
  <2> QED BY <2>2, <2>3, <2>1
<1>8. CASE low(p) = low(q)
  <2>1. A(p) = A(q) /\ B(p) = B(q) /\ off(p) <= off(q)
    BY <1>1, <1>3, <1>4, <1>6, <1>8
  <2>2. CASE off(p) = 0
    <3> HIDE DEF A, B
    <3> QED BY <1>6, <1>7, <2>1, <2>2
  <2>3. CASE off(p) # 0
    <3>1. off(p) \in 1..3 /\ off(q) \in 1..3 /\ off(q) # 0
      BY <1>3, <1>6, <2>1, <2>3
    <3> HIDE DEF A, B
    <3>2. /\ A(p) \in Nat /\ B(p) \in Nat /\ A(p) <= B(p)
          /\ PercentileCont(p, rows) = (4 - off(p)) * A(p) + off(p) * B(p)
          /\ PercentileCont(q, rows) = (4 - off(q)) * A(p) + off(q) * B(p)
      BY <1>6, <1>7, <2>1, <2>3, <3>1
    <3>3. \A a, b \in Nat, o, s \in 1..3 : a <= b /\ o <= s => (4 - o) * a + o * b <= (4 - s) * a + s * b
      <4> SUFFICES ASSUME NEW a \in Nat, NEW b \in Nat, NEW o \in 1..3, NEW s \in 1..3, a <= b, o <= s
                   PROVE  (4 - o) * a + o * b <= (4 - s) * a + s * b
        OBVIOUS
      <4>1. CASE o = 1 /\ s = 1
        BY <4>1
      <4>2. CASE o = 1 /\ s = 2
        BY <4>2
      <4>3. CASE o = 1 /\ s = 3
        BY <4>3
      <4>4. CASE o = 2 /\ s = 2
        BY <4>4
      <4>5. CASE o = 2 /\ s = 3
        BY <4>5
      <4>6. CASE o = 3 /\ s = 3
        BY <4>6
      <4> QED BY <4>1, <4>2, <4>3, <4>4, <4>5, <4>6
    <3> QED BY <2>1, <3>1, <3>2, <3>3
  <2> QED BY <2>2, <2>3
<1>9. CASE low(p) # low(q)
  <2>1. low(p) < low(q)
    <3>1. /\ low(p) \in Nat /\ low(q) \in Nat /\ off(p) \in 0..3 /\ off(q) \in 0..3
          /\ 4 * low(p) + off(p) <= 4 * low(q) + off(q)
      BY <1>3, <1>4, <1>6
    <3> QED BY <1>9, <3>1
  <2>2. 4 * A(q) <= PercentileCont(q, rows) /\ A(q) \in Nat
    BY <1>6, <1>7
  <2>3. CASE off(p) = 0
    <3>1. A(p) <= A(q) /\ A(p) \in Nat
      BY <1>3, <1>5, <1>6, <2>1
    <3>2. PercentileCont(p, rows) = 4 * A(p)
      BY <1>6, <1>7, <2>3
    <3> HIDE DEF A
    <3> QED BY <1>6, <1>7, <2>2, <3>1, <3>2
  <2>4. CASE off(p) # 0
    <3>1. low(p) + 2 \in 1..n /\ low(q) + 1 \in 1..n /\ low(p) + 2 <= low(q) + 1
      BY <1>3, <1>6, <2>1, <2>4
    <3>2. B(p) <= A(q) /\ B(p) \in Nat
      BY <1>5, <3>1
    <3>3. PercentileCont(p, rows) <= 4 * B(p)
      BY <1>6, <1>7, <2>4
    <3> HIDE DEF A, B
    <3> QED BY <1>6, <1>7, <2>2, <3>2, <3>3
  <2> QED BY <2>3, <2>4
<1> QED BY <1>8, <1>9

\* The mains whose level was captured in a week.
Captured(w) == {c \in Mains : \E k \in DOMAIN snapshots :
  snapshots[k].char = c /\ snapshots[k].ilvl # NoLevel /\ Week(snapshots[k].at) = w}

\* What IlvlSeries promises of a week, on the tables it reads.
Readings(week, w) ==
  LET captured == Captured(w)
  IN /\ week.characters \in 1..Cardinality(captured)
     /\ week.p25 <= week.median /\ week.median <= week.p75

\* IlvlSeries keeps that promise: the last snapshot of a week is one per raider.
LEMMA IlvlWeeks ==
  ASSUME AnalysisAssumption, AnalysisTypeOK, NEW u, NEW w \in DOMAIN IlvlSeries(u)
  PROVE  Readings(IlvlSeries(u)[w], w)
<1> DEFINE All == {k \in DOMAIN snapshots : /\ snapshots[k].char \in Mains /\ snapshots[k].ilvl # NoLevel
                                            /\ snapshots[k].at >= u - Window /\ snapshots[k].at < u}
           S == LastOfWeek(All)
           rows == {k \in S : Week(snapshots[k].at) = w}
           captured == Captured(w)
           char == [k \in rows |-> snapshots[k].char]
<1>1. /\ w \in {Week(snapshots[k].at) : k \in S}
      /\ IlvlSeries(u)[w] = [characters |-> Cardinality(rows), p25 |-> PercentileCont(1, rows),
                             median |-> PercentileCont(2, rows), p75 |-> PercentileCont(3, rows)]
  BY DEF IlvlSeries
<1>2. DOMAIN snapshots = 1..Len(snapshots) /\ Len(snapshots) \in Nat
  BY DEF AnalysisTypeOK
<1>3. \A k \in DOMAIN snapshots : snapshots[k] \in Snapshot
  BY DEF AnalysisTypeOK
<1>4. rows \subseteq DOMAIN snapshots /\ rows \subseteq S /\ S \subseteq All
  BY DEF LastOfWeek
<1>5. rows # {}
  BY <1>1
<1>6. IsFiniteSet(rows)
  <2>1. IsFiniteSet(DOMAIN snapshots)
    <3>1. Len(snapshots) \in Int /\ 1 \in Int
      BY <1>2
    <3>2. IsFiniteSet(1..Len(snapshots))
      BY ONLY <3>1, FS_Interval
    <3> QED BY <1>2, <3>2
  <2> HIDE DEF rows
  <2> QED BY <1>4, <2>1, FS_Subset
<1>7. \A k \in rows : snapshots[k].ilvl \in Nat
  <2> HIDE DEF rows
  <2> QED BY <1>3, <1>4 DEF Snapshot
<1>8. IsFiniteSet(captured)
  <2>1. IsFiniteSet(Mains)
    BY FS_Subset DEF AnalysisAssumption
  <2> QED BY <2>1, FS_Subset DEF Captured
<1>9. char \in Injection(rows, captured)
  <2>1. \A k \in rows : k \in All /\ snapshots[k].char \in captured
    BY <1>4 DEF Captured
  <2>2. ASSUME NEW k \in rows, NEW l \in rows, snapshots[k].char = snapshots[l].char PROVE k = l
    <3>1. k \in S /\ l \in S /\ k \in All /\ l \in All /\ Week(snapshots[k].at) = Week(snapshots[l].at)
      BY <1>4
    <3>2. k <= l /\ l <= k /\ k \in Nat /\ l \in Nat
      <4>1. k \in Nat /\ l \in Nat
        BY <1>2, <3>1
      <4> HIDE DEF All
      <4> QED BY <2>2, <3>1, <4>1 DEF LastOfWeek
    <3> QED BY <3>2
  <2> HIDE DEF rows, captured
  <2> QED BY <2>1, <2>2 DEF Injection, IsInjective
<1> HIDE DEF rows, captured, char
<1>10. Cardinality(rows) <= Cardinality(captured)
  BY <1>8, <1>9, FS_Injection
<1>11. Cardinality(rows) \in 1..Cardinality(captured)
  <2>1. Cardinality(captured) \in Nat /\ Cardinality(rows) \in Nat /\ Cardinality(rows) # 0
    BY <1>5, <1>6, <1>8, FS_CardinalityType, FS_EmptySet
  <2> QED BY <1>10, <2>1
<1>12. PercentileCont(1, rows) <= PercentileCont(2, rows) /\ PercentileCont(2, rows) <= PercentileCont(3, rows)
  <2>1. 1 \in 1..3 /\ 2 \in 1..3 /\ 2 \in 1..3 /\ 3 \in 2..3
    OBVIOUS
  <2> QED BY <1>5, <1>6, <1>7, PercentilesInOrder
<1> USE DEF captured
<1> QED BY <1>1, <1>11, <1>12 DEF Readings

\* What was read stays true of a longer history.
LEMMA ReadingsLast ==
  ASSUME AnalysisAssumption, AnalysisTypeOK, NEW week, NEW w, Readings(week, w),
         \/ snapshots' = snapshots
         \/ \E row : snapshots' = Append(snapshots, row)
  PROVE  Readings(week, w)'
<1> DEFINE captured == Captured(w)
<1>1. \A k \in DOMAIN snapshots : k \in DOMAIN snapshots' /\ snapshots'[k] = snapshots[k]
  <2>1. snapshots \in Seq(Snapshot)
    BY DEF AnalysisTypeOK
  <2>2. CASE \E row : snapshots' = Append(snapshots, row)
    BY <2>1, <2>2
  <2> QED BY <2>2
<1>2. captured \subseteq captured'
  BY <1>1 DEF Captured
<1>3. IsFiniteSet(captured')
  <2>1. IsFiniteSet(Mains)
    BY FS_Subset DEF AnalysisAssumption
  <2> QED BY <2>1, FS_Subset DEF Captured
<1>4. Cardinality(captured) <= Cardinality(captured') /\ Cardinality(captured) \in Nat /\ Cardinality(captured') \in Nat
  <2> HIDE DEF captured
  <2> QED BY <1>2, <1>3, FS_Subset, FS_CardinalityType
<1>5. week.characters \in 1..Cardinality(captured) /\ week.p25 <= week.median /\ week.median <= week.p75
  BY DEF Readings
<1>6. week.characters \in 1..Cardinality(captured')
  <2> HIDE DEF captured
  <2> QED BY <1>4, <1>5
<1> QED BY <1>5, <1>6 DEF Readings

-----------------------------------------------------------------------------
(* The invariant.                                                          *)

\* What a request has at each of its stages.
Fields ==
  /\ "at" \in DOMAIN request
  /\ request.at = "waiting" => request = Waiting
  /\ request.at # "waiting" => {"panel", "quiet"} \subseteq DOMAIN request
  /\ request.at \in {"first", "second", "served"} => "until" \in DOMAIN request
  /\ request.at = "second" => "seen" \in DOMAIN request
  /\ request.at = "served" => "body" \in DOMAIN request

\* Between its two statements a panel has numbers in its hands, and what it saw is still
\* so unless something was written since.
Seen ==
  request.at = "second" =>
    /\ request.panel = "attendance" => request.seen \in Nat
    /\ request.panel = "comp-balance" => request.seen \in [Roles -> [placed : Nat, benched : Nat]]
    /\ request.quiet =>
         /\ request.panel = "attendance" => request.seen = Cardinality(InWindow(request.until))
         /\ request.panel = "comp-balance" => request.seen = CompRoleTotals(request.until)

\* Links that are still news are what the tier opens now.
LinksAreCurrent == index.news => index.links = AnalysisLinks(For)

Answered == Fields /\ Seen /\ PanelsAddUp /\ WeeksCountPeople /\ OneReadingPerMain

AnalysisInv == AnalysisTypeOK /\ LinksAreCurrent /\ Answered

-----------------------------------------------------------------------------
(* Types.                                                                  *)

\* What the tables hold to begin with.
LEMMA AnalysisInitTyped == ASSUME AnalysisAssumption, AnalysisInit PROVE AnalysisTypeOK
<1>1. starts \in [Events -> 0..Horizon] /\ answer \in Answers /\ seat \in Boards
  BY DEF AnalysisInit, AnalysisAssumption
<1>2. snapshots \in Seq(Snapshot)
  BY DEF AnalysisInit
<1> QED BY <1>1, <1>2 DEF AnalysisInit, AnalysisTypeOK, AnalysisAssumption, OldNews

\* A write tells the request that is being read, and changes nothing else of it.
LEMMA WriteTells ==
  ASSUME Fields, Write, request # Waiting
  PROVE  /\ DOMAIN request' = DOMAIN request /\ request'.at = request.at /\ request.at # "waiting"
         /\ request'.panel = request.panel /\ request'.quiet = FALSE
         /\ request.at \in {"first", "second", "served"} => request'.until = request.until
         /\ request.at = "second" => request'.seen = request.seen
         /\ request.at = "served" => request'.body = request.body
<1>1. request' = [request EXCEPT !.quiet = FALSE]
  BY DEF Write
<1> QED BY <1>1 DEF Fields

\* A request that was interrupted is still one.
LEMMA WriteTyped ==
  ASSUME AnalysisAssumption, AnalysisTypeOK, Fields, Write
  PROVE  /\ writes' \in 0..MaxWrites
         /\ \/ request' = Waiting
            \/ /\ request'.panel \in Panels /\ request'.quiet \in BOOLEAN
               /\ request'.at \in {"first", "second", "served", "refused"}
<1>1. writes' \in 0..MaxWrites
  BY DEF Write, AnalysisTypeOK, AnalysisAssumption
<1>2. CASE request = Waiting
  BY <1>1, <1>2 DEF Write
<1>3. CASE request # Waiting
  BY <1>1, <1>3, WriteTells DEF AnalysisTypeOK
<1> QED BY <1>2, <1>3

\* A row of the boards is written as a seat or as nothing.
LEMMA BoardsTyped ==
  ASSUME seat \in Boards, NEW e \in Events, NEW c \in Characters, NEW s \in Seat \union {Empty}
  PROVE  [seat EXCEPT ![e][c] = s] \in Boards
BY DEF Boards

\* An answer is written as one of the statuses.
LEMMA AnswersTyped ==
  ASSUME answer \in Answers, NEW e \in Events, NEW c \in Characters, NEW s \in Statuses
  PROVE  [answer EXCEPT ![e][c] = s] \in Answers
BY DEF Answers

\* What a panel's step leaves alone.
LEMMA ReadTyped ==
  ASSUME AnalysisAssumption, AnalysisTypeOK, Fields, Read, UNCHANGED <<now, tables, bought, index, writes>>
  PROVE  AnalysisTypeOK'
<1>1. \/ request' = Waiting
      \/ /\ request'.panel \in Panels /\ request'.quiet \in BOOLEAN
         /\ request'.at \in {"first", "second", "served", "refused"}
  <2>1. ASSUME NEW panel \in Panels, Ask(panel)
        PROVE  /\ request'.panel \in Panels /\ request'.quiet \in BOOLEAN
               /\ request'.at \in {"first", "second", "served", "refused"}
    BY <2>1 DEF Ask
  <2>2. ASSUME NEW seen, FirstOfTwo(seen), request.at = "first"
        PROVE  /\ request'.panel \in Panels /\ request'.quiet \in BOOLEAN
               /\ request'.at \in {"first", "second", "served", "refused"}
    BY <2>2 DEF FirstOfTwo, AnalysisTypeOK, Waiting
  <2>3. ASSUME NEW body, Serve(body), request.at \in {"first", "second"}
        PROVE  /\ request'.panel \in Panels /\ request'.quiet \in BOOLEAN
               /\ request'.at \in {"first", "second", "served", "refused"}
    BY <2>3 DEF Serve, AnalysisTypeOK, Waiting
  <2>4. CASE CountEvents \/ RoleTotals \/ ReadActivity
    BY <2>2, <2>4 DEF CountEvents, RoleTotals, ReadActivity, Asked
  <2>5. CASE Attendance \/ CompBalance \/ RosterHealth \/ Throughput \/ Ilvl
    BY <2>3, <2>5 DEF Attendance, CompBalance, RosterHealth, Throughput, Ilvl, Asked
  <2>6. CASE Close
    BY <2>6 DEF Close
  <2> QED BY <2>1, <2>4, <2>5, <2>6 DEF Read
<1>2. UNCHANGED <<now, starts, answer, seat, snapshots, bought, index, writes>>
  BY DEF tables
<1> QED BY <1>1, <1>2 DEF AnalysisTypeOK, Answers, Boards

\* Every step keeps the types.
LEMMA StepTyped ==
  ASSUME AnalysisAssumption, AnalysisTypeOK, Fields, [AnalysisNext]_analysisVars
  PROVE  AnalysisTypeOK'
<1>1. CASE Read /\ UNCHANGED <<now, tables, bought, index, writes>>
  BY <1>1, ReadTyped
<1>2. CASE GetIndex
  <2>1. index'.links \subseteq Panels /\ index'.news \in BOOLEAN
    BY <1>2 DEF GetIndex, AnalysisLinks, Panels
  <2>2. UNCHANGED <<now, starts, answer, seat, snapshots, bought, request, writes>>
    BY <1>2 DEF GetIndex, tables
  <2> QED BY <2>1, <2>2 DEF AnalysisTypeOK, Answers, Boards
<1>3. CASE Subscribe
  <2>1. index'.links \subseteq Panels /\ index'.news \in BOOLEAN /\ bought' \in Subscriptions
    BY <1>3 DEF Subscribe, OldNews
  <2>2. UNCHANGED <<now, starts, answer, seat, snapshots>>
    BY <1>3 DEF Subscribe, tables
  <2>3. Write
    BY <1>3 DEF Subscribe
  <2> QED BY <2>1, <2>2, <2>3, WriteTyped DEF AnalysisTypeOK, Answers, Boards
<1>4. CASE Tick
  <2>1. index'.links \subseteq Panels /\ index'.news \in BOOLEAN
    BY <1>4 DEF Tick, OldNews
  <2>2. now' \in 0..Horizon
    BY <1>4 DEF Tick, AnalysisTypeOK, AnalysisAssumption
  <2>3. UNCHANGED <<starts, answer, seat, snapshots, bought, request, writes>>
    BY <1>4 DEF Tick, tables
  <2> QED BY <2>1, <2>2, <2>3 DEF AnalysisTypeOK, Answers, Boards
<1>5. ASSUME NEW c \in Characters, Capture(c) PROVE AnalysisTypeOK'
  <2>1. PICK i \in Ilvls : snapshots' = Append(snapshots, [char |-> c, at |-> now, ilvl |-> i])
    BY <1>5 DEF Capture
  <2>2. [char |-> c, at |-> now, ilvl |-> i] \in Snapshot
    BY DEF Snapshot, AnalysisTypeOK, AnalysisAssumption
  <2>3. snapshots' \in Seq(Snapshot)
    BY <2>1, <2>2 DEF AnalysisTypeOK
  <2>4. Write /\ UNCHANGED <<now, starts, answer, seat, bought, index>>
    BY <1>5 DEF Capture
  <2> QED BY <2>3, <2>4, WriteTyped DEF AnalysisTypeOK, Answers, Boards
<1>6. ASSUME NEW c \in Characters, NEW e \in Events, SignUp(e, c) PROVE AnalysisTypeOK'
  <2>1. PICK status \in Offered :
          /\ answer' = [answer EXCEPT ![e][c] = status]
          /\ seat' = IF status \in {"CONFIRMED", "LATE"} THEN seat ELSE [seat EXCEPT ![e][c] = Empty]
    BY <1>6 DEF SignUp
  <2>2. answer' \in Answers
    BY <2>1, AnswersTyped DEF AnalysisTypeOK, AnalysisAssumption
  <2>3. seat' \in Boards
    <3>1. CASE status \in {"CONFIRMED", "LATE"}
      BY <2>1, <3>1 DEF AnalysisTypeOK
    <3>2. CASE status \notin {"CONFIRMED", "LATE"}
      BY <2>1, <3>2, BoardsTyped DEF AnalysisTypeOK
    <3> QED BY <3>1, <3>2
  <2>4. Write /\ UNCHANGED <<now, starts, snapshots, bought, index>>
    BY <1>6 DEF SignUp
  <2> QED BY <2>2, <2>3, <2>4, WriteTyped DEF AnalysisTypeOK, Answers, Boards
<1>7. ASSUME NEW c \in Characters, NEW e \in Events, Place(e, c) PROVE AnalysisTypeOK'
  <2>1. seat' \in Boards
    <3>1. PICK s \in Seat \union {Empty} : seat' = [seat EXCEPT ![e][c] = s]
      BY <1>7 DEF Place
    <3> QED BY <3>1, BoardsTyped DEF AnalysisTypeOK
  <2>2. Write /\ UNCHANGED <<now, starts, answer, snapshots, bought, index>>
    BY <1>7 DEF Place
  <2> QED BY <2>1, <2>2, WriteTyped DEF AnalysisTypeOK, Answers, Boards
<1>8. ASSUME NEW e \in Events, MoveEvent(e) PROVE AnalysisTypeOK'
  <2>1. starts' \in [Events -> 0..Horizon]
    BY <1>8 DEF MoveEvent, AnalysisTypeOK
  <2>2. Write /\ UNCHANGED <<now, answer, seat, snapshots, bought, index>>
    BY <1>8 DEF MoveEvent
  <2> QED BY <2>1, <2>2, WriteTyped DEF AnalysisTypeOK, Answers, Boards
<1>9. CASE UNCHANGED analysisVars
  BY <1>9 DEF analysisVars, tables, AnalysisTypeOK, Answers, Boards
<1> QED BY <1>1, <1>2, <1>3, <1>4, <1>5, <1>6, <1>7, <1>8, <1>9 DEF AnalysisNext

-----------------------------------------------------------------------------
(* Whatever happens to the tables, an answer stays what it was.            *)

\* The same rows give the same numbers.
LEMMA SameTables ==
  ASSUME request'.until = request.until, UNCHANGED tables
  PROVE  /\ InWindow(request.until)' = InWindow(request.until)
         /\ CompRoleTotals(request.until)' = CompRoleTotals(request.until)
<1>1. starts' = starts /\ seat' = seat
  BY DEF tables
<1>2. InWindow(request.until)' = InWindow(request.until)
  BY <1>1 DEF InWindow
<1>3. Slots(request.until)' = Slots(request.until)
  BY <1>1 DEF Slots, InWindow
<1>4. CompRoleTotals(request.until)' = CompRoleTotals(request.until)
  BY <1>1, <1>3 DEF CompRoleTotals, Quantify
<1> QED BY <1>2, <1>4

\* A step of something else.
Elsewhere ==
  \/ request' = request /\ UNCHANGED tables
  \/ Write /\ (snapshots' = snapshots \/ \E row : snapshots' = Append(snapshots, row))

\* An answer that was given stays what it was, and so does what a panel saw if nothing was written.
LEMMA AnswersStay ==
  ASSUME AnalysisAssumption, AnalysisTypeOK, Answered, Elsewhere
  PROVE  Answered'
<1>1. CASE request' = request /\ UNCHANGED tables
  <2>1. UNCHANGED <<request, starts, answer, seat, snapshots>>
    BY <1>1 DEF tables
  <2>2. Fields' /\ PanelsAddUp' /\ WeeksCountPeople' /\ OneReadingPerMain'
    BY <2>1 DEF Answered, Fields, PanelsAddUp, WeeksCountPeople, OneReadingPerMain, Served
  <2>3. Seen'
    <3>1. Seen
      BY DEF Answered
    <3> QED BY <1>1, <2>1, <3>1, SameTables DEF Seen
  <2> QED BY <2>2, <2>3 DEF Answered
<1>2. CASE Write /\ (snapshots' = snapshots \/ \E row : snapshots' = Append(snapshots, row))
  <2>1. CASE request = Waiting
    <3>1. request' = Waiting
      BY <1>2, <2>1 DEF Write
    <3> QED BY <3>1 DEF Waiting, Answered, Fields, Seen, PanelsAddUp, WeeksCountPeople,
          OneReadingPerMain, Served
  <2>2. CASE request # Waiting
    <3>1. /\ DOMAIN request' = DOMAIN request /\ request'.at = request.at /\ request.at # "waiting"
          /\ request'.panel = request.panel /\ request'.quiet = FALSE
          /\ request.at \in {"first", "second", "served"} => request'.until = request.until
          /\ request.at = "second" => request'.seen = request.seen
          /\ request.at = "served" => request'.body = request.body
      BY <1>2, <2>2, WriteTells DEF Answered
    <3>2. Fields'
      BY <3>1 DEF Answered, Fields
    <3>3. Seen'
      BY <3>1 DEF Answered, Seen
    <3>4. PanelsAddUp'
      BY <3>1 DEF PanelsAddUp
    <3>5. WeeksCountPeople'
      BY <3>1 DEF Answered, WeeksCountPeople, Served
    <3>6. OneReadingPerMain'
      <4>1. ASSUME request'.at = "served", request'.panel = "ilvl", NEW w \in DOMAIN request'.body,
                   NEW week, week = request'.body[w]
            PROVE  Readings(week, w)'
        <5>1. Readings(week, w)
          BY <3>1, <4>1 DEF Answered, OneReadingPerMain, Served, Readings, Captured
        <5> QED BY <1>2, <5>1, ReadingsLast
      <4> QED BY <4>1 DEF OneReadingPerMain, Served, Readings, Captured
    <3> QED BY <3>2, <3>3, <3>4, <3>5, <3>6 DEF Answered
  <2> QED BY <2>1, <2>2
<1> QED BY <1>1, <1>2 DEF Elsewhere

-----------------------------------------------------------------------------
(* Reading a panel.                                                        *)

\* A refused or finished request says nothing, and an accepted one nothing yet.
LEMMA AskAnswers ==
  ASSUME NEW panel \in Panels, Ask(panel)
  PROVE  Answered'
BY DEF Ask, Waiting, Answered, Fields, Seen, PanelsAddUp, WeeksCountPeople, OneReadingPerMain, Served

\* A closed request is none.
LEMMA CloseAnswers == ASSUME Close PROVE Answered'
BY DEF Close, Waiting, Answered, Fields, Seen, PanelsAddUp, WeeksCountPeople, OneReadingPerMain, Served

\* A first statement leaves what it saw.
LEMMA FirstAnswers ==
  ASSUME AnalysisAssumption, AnalysisTypeOK, UNCHANGED tables, CountEvents \/ RoleTotals \/ ReadActivity
  PROVE  Answered'
<1>1. request'.at = "second" /\ {"at", "panel", "until", "quiet", "seen"} = DOMAIN request'
      /\ request'.panel = request.panel /\ request'.until = request.until
  BY DEF CountEvents, RoleTotals, ReadActivity, FirstOfTwo
<1>2. Fields' /\ PanelsAddUp' /\ WeeksCountPeople' /\ OneReadingPerMain'
  BY <1>1 DEF Fields, PanelsAddUp, WeeksCountPeople, OneReadingPerMain, Served
<1>3. Seen'
  <2>1. CASE CountEvents
    <3>1. request'.panel = "attendance" /\ request'.seen = Cardinality(InWindow(request.until))
      BY <2>1 DEF CountEvents, FirstOfTwo, Asked
    <3>2. Cardinality(InWindow(request.until)) \in Nat
      <4>1. IsFiniteSet(InWindow(request.until))
        BY FS_Subset DEF InWindow, AnalysisAssumption
      <4> QED BY <4>1, FS_CardinalityType
    <3> QED BY <1>1, <3>1, <3>2, SameTables DEF Seen
  <2>2. CASE RoleTotals
    <3>1. request'.panel = "comp-balance" /\ request'.seen = CompRoleTotals(request.until)
      BY <2>2 DEF RoleTotals, FirstOfTwo, Asked
    <3>2. CompRoleTotals(request.until) \in [Roles -> [placed : Nat, benched : Nat]]
      BY TotalsAddUp
    <3> QED BY <1>1, <3>1, <3>2, SameTables DEF Seen
  <2>3. CASE ReadActivity
    <3>1. request'.panel = "roster-health"
      BY <2>3 DEF ReadActivity, FirstOfTwo, Asked
    <3> QED BY <3>1 DEF Seen
  <2> QED BY <2>1, <2>2, <2>3
<1> QED BY <1>2, <1>3 DEF Answered

\* An answer of its panel.
LEMMA ServedFields ==
  ASSUME NEW body, Serve(body)
  PROVE  /\ Fields' /\ Seen'
         /\ request'.at = "served" /\ request'.panel = request.panel /\ request'.quiet = request.quiet
         /\ request'.body = body
BY DEF Serve, Fields, Seen

\* Attendance: the events were counted by the first statement, the answers are counted now.
LEMMA AttendanceAnswers ==
  ASSUME AnalysisAssumption, AnalysisTypeOK, Answered, Attendance
  PROVE  Answered'
<1> DEFINE u == request.until
           events == request.seen
           row == AttendanceByCharacter(u)
           answered == [c \in Characters |->
             row[c]["CONFIRMED"] + row[c]["TENTATIVE"] + row[c]["DECLINED"] + row[c]["LATE"]
               + row[c]["ABSENT"] + row[c]["NO_SHOW"]]
<1>1. Serve([events |-> events, answered |-> answered]) /\ request.at = "second" /\ request.panel = "attendance"
  BY DEF Attendance, Asked
<1>2. /\ events \in Nat
      /\ request.quiet => events = Cardinality(InWindow(u))
  BY <1>1 DEF Answered, Seen
<1>3. ASSUME NEW c \in Characters
      PROVE  /\ \A s \in Statuses : row[c][s] \in Nat
             /\ answered[c] \in Nat /\ answered[c] <= Cardinality(InWindow(u))
  <2>1. /\ \A s \in Statuses : row[c][s] \in 0..Cardinality(InWindow(u))
        /\ Cardinality(InWindow(u)) \in Nat
        /\ row[c]["CONFIRMED"] + row[c]["TENTATIVE"] + row[c]["DECLINED"] + row[c]["LATE"] + row[c]["ABSENT"]
             + row[c]["NO_SHOW"] <= Cardinality(InWindow(u))
    BY AnswersFitTheWindow
  <2>2. {"CONFIRMED", "TENTATIVE", "DECLINED", "LATE", "ABSENT", "NO_SHOW"} \subseteq Statuses
    BY DEF Statuses
  <2> HIDE DEF row
  <2> QED BY <2>1, <2>2
<1> HIDE DEF answered, row
<1>4. /\ Fields' /\ Seen'
      /\ request'.at = "served" /\ request'.panel = "attendance" /\ request'.quiet = request.quiet
      /\ request'.body = [events |-> events, answered |-> answered]
  BY <1>1, ServedFields
<1>5. PanelsAddUp'
  BY <1>2, <1>3, <1>4 DEF PanelsAddUp
<1>6. WeeksCountPeople' /\ OneReadingPerMain'
  BY <1>4 DEF WeeksCountPeople, OneReadingPerMain, Served
<1> QED BY <1>4, <1>5, <1>6 DEF Answered

\* Comp balance: the roles were totalled by the first statement, the bench is counted now.
LEMMA CompBalanceAnswers ==
  ASSUME AnalysisAssumption, AnalysisTypeOK, Answered, CompBalance
  PROVE  Answered'
<1> DEFINE u == request.until
           roles == request.seen
           bench == BenchByCharacter(u)
<1>1. Serve([roles |-> roles, bench |-> bench]) /\ request.at = "second" /\ request.panel = "comp-balance"
  BY DEF CompBalance, Asked
<1>2. /\ roles \in [Roles -> [placed : Nat, benched : Nat]]
      /\ request.quiet => roles = CompRoleTotals(u)
  BY <1>1 DEF Answered, Seen
<1>3. SumFunction([r \in Roles |-> CompRoleTotals(u)[r].placed + CompRoleTotals(u)[r].benched]) = Cardinality(Slots(u))
  BY TotalsAddUp
<1>4. /\ \A c \in Characters : bench[c].boards \in Nat /\ bench[c].benched \in Nat
      /\ SumFunction([c \in Characters |-> bench[c].boards]) = Cardinality(Slots(u))
  BY BenchAddsUp
<1> HIDE DEF bench
<1>5. /\ Fields' /\ Seen'
      /\ request'.at = "served" /\ request'.panel = "comp-balance" /\ request'.quiet = request.quiet
      /\ request'.body = [roles |-> roles, bench |-> bench]
  BY <1>1, ServedFields
<1>6. PanelsAddUp'
  BY <1>2, <1>3, <1>4, <1>5 DEF PanelsAddUp
<1>7. WeeksCountPeople' /\ OneReadingPerMain'
  BY <1>5 DEF WeeksCountPeople, OneReadingPerMain, Served
<1> QED BY <1>5, <1>6, <1>7 DEF Answered

\* Roster health: its two statements have no number in common.
LEMMA RosterHealthAnswers == ASSUME RosterHealth PROVE Answered'
<1>1. PICK body : Serve(body) /\ request.panel = "roster-health"
  BY DEF RosterHealth, Asked
<1>2. Fields' /\ Seen' /\ request'.panel = "roster-health"
  BY <1>1, ServedFields
<1> QED BY <1>2 DEF Answered, PanelsAddUp, WeeksCountPeople, OneReadingPerMain, Served

\* Throughput: one statement, and every number of a week counts people.
LEMMA ThroughputAnswers ==
  ASSUME AnalysisAssumption, AnalysisTypeOK, Throughput
  PROVE  Answered'
<1> DEFINE weeks == EventThroughput(request.until)
<1>1. Serve(weeks) /\ request.panel = "throughput"
  BY DEF Throughput, Asked
<1>2. \A w \in DOMAIN weeks, count \in {"confirmed", "declined", "noShow", "placed", "benched"} :
        weeks[w][count] \in 0..Cardinality(Characters)
  BY WeeksCount
<1>3. Cardinality(Characters) \in Nat
  BY FS_CardinalityType DEF AnalysisAssumption
<1> HIDE DEF weeks
<1>4. /\ Fields' /\ Seen'
      /\ request'.at = "served" /\ request'.panel = "throughput"
      /\ request'.body = weeks
  BY <1>1, ServedFields
<1>5. WeeksCountPeople'
  BY <1>2, <1>3, <1>4 DEF WeeksCountPeople, Served
<1>6. PanelsAddUp' /\ OneReadingPerMain'
  BY <1>4 DEF PanelsAddUp, OneReadingPerMain, Served
<1> QED BY <1>4, <1>5, <1>6 DEF Answered

\* Item levels: one statement.
LEMMA IlvlAnswers ==
  ASSUME AnalysisAssumption, AnalysisTypeOK, UNCHANGED tables, Ilvl
  PROVE  Answered'
<1> DEFINE weeks == IlvlSeries(request.until)
<1>1. Serve(weeks) /\ request.panel = "ilvl"
  BY DEF Ilvl, Asked
<1>2. \A w \in DOMAIN weeks : Readings(weeks[w], w)
  BY IlvlWeeks
<1> HIDE DEF weeks
<1>3. /\ Fields' /\ Seen'
      /\ request'.at = "served" /\ request'.panel = "ilvl"
      /\ request'.body = weeks
  BY <1>1, ServedFields
<1>4. OneReadingPerMain'
  BY <1>2, <1>3 DEF OneReadingPerMain, Readings, Captured, Served, tables
<1> QED BY <1>3, <1>4 DEF Answered, PanelsAddUp, WeeksCountPeople, Served

\* Reading a panel answers it as it should be.
LEMMA ReadAnswers ==
  ASSUME AnalysisAssumption, AnalysisTypeOK, Answered, Read, UNCHANGED tables
  PROVE  Answered'
BY AskAnswers, FirstAnswers, AttendanceAnswers, CompBalanceAnswers, RosterHealthAnswers, ThroughputAnswers, IlvlAnswers,
   CloseAnswers DEF Read

-----------------------------------------------------------------------------
(* Every step.                                                             *)

\* The links stay what the tier opens, or stop being news.
LEMMA LinksStay ==
  ASSUME LinksAreCurrent, [AnalysisNext]_analysisVars
  PROVE  LinksAreCurrent'
<1>1. CASE UNCHANGED <<now, bought, index>>
  BY <1>1 DEF LinksAreCurrent, For, Effective
<1>2. CASE GetIndex
  <2>1. index'.links = AnalysisLinks(For)
    BY <1>2 DEF GetIndex
  <2> QED BY <1>2, <2>1 DEF GetIndex, LinksAreCurrent, For, Effective, AnalysisLinks
<1>3. CASE index' = OldNews
  BY <1>3 DEF LinksAreCurrent, OldNews
<1>4. \/ UNCHANGED <<now, bought, index>> \/ GetIndex \/ index' = OldNews
  BY DEF AnalysisNext, Subscribe, Tick, Capture, SignUp, Place, MoveEvent, analysisVars
<1> QED BY <1>1, <1>2, <1>3, <1>4

\* Every step keeps the answers.
LEMMA StepAnswers ==
  ASSUME AnalysisAssumption, AnalysisTypeOK, Answered, [AnalysisNext]_analysisVars
  PROVE  Answered'
<1>1. CASE Read /\ UNCHANGED <<now, tables, bought, index, writes>>
  BY <1>1, ReadAnswers
<1>2. CASE GetIndex \/ Tick \/ UNCHANGED analysisVars
  BY <1>2, AnswersStay DEF GetIndex, Tick, analysisVars, Elsewhere
<1>3. CASE Subscribe
  BY <1>3, AnswersStay DEF Subscribe, tables, Elsewhere
<1>4. ASSUME NEW c \in Characters, Capture(c) PROVE Answered'
  BY <1>4, AnswersStay DEF Capture, Elsewhere
<1>5. ASSUME NEW c \in Characters, NEW e \in Events, SignUp(e, c) \/ Place(e, c) PROVE Answered'
  BY <1>5, AnswersStay DEF SignUp, Place, Elsewhere
<1>6. ASSUME NEW e \in Events, MoveEvent(e) PROVE Answered'
  BY <1>6, AnswersStay DEF MoveEvent, Elsewhere
<1> QED BY <1>1, <1>2, <1>3, <1>4, <1>5, <1>6 DEF AnalysisNext

\* The invariant.
LEMMA AnalysisInvHolds == AnalysisSpec => []AnalysisInv
<1>1. ASSUME AnalysisInit PROVE AnalysisInv
  <2>1. Answered
    BY <1>1 DEF AnalysisInit, Waiting, Answered, Fields, Seen, PanelsAddUp, WeeksCountPeople,
       OneReadingPerMain, Served
  <2>2. LinksAreCurrent
    BY <1>1 DEF AnalysisInit, OldNews, LinksAreCurrent
  <2> QED BY <1>1, <2>1, <2>2, AnalysisAssumption, AnalysisInitTyped DEF AnalysisInv
<1>2. AnalysisInv /\ [AnalysisNext]_analysisVars => AnalysisInv'
  BY AnalysisAssumption, StepTyped, StepAnswers, LinksStay DEF AnalysisInv, Answered
<1> QED BY <1>1, <1>2, PTL DEF AnalysisSpec

-----------------------------------------------------------------------------
(* The theorems.                                                           *)

\* Types, of the tables, the links and the request.
THEOREM AnalysisTyped == AnalysisSpec => []AnalysisTypeOK
<1>1. AnalysisInv => AnalysisTypeOK
  BY DEF AnalysisInv
<1> QED BY <1>1, AnalysisInvHolds, PTL

\* An attendance table never has a raider answering more events than there were, and the bench
\* tracker adds up to the role totals, unless something was written between the statements.
THEOREM StatementsAgree == AnalysisSpec => []PanelsAddUp
<1>1. AnalysisInv => PanelsAddUp
  BY DEF AnalysisInv, Answered
<1> QED BY <1>1, AnalysisInvHolds, PTL

\* A week counts people, not rows of the join.
THEOREM PeopleNotRows == AnalysisSpec => []WeeksCountPeople
<1>1. AnalysisInv => WeeksCountPeople
  BY DEF AnalysisInv, Answered
<1> QED BY <1>1, AnalysisInvHolds, PTL

\* A week has one reading per main whose level was captured in it, and its quartiles are in order.
THEOREM OneReadingEach == AnalysisSpec => []OneReadingPerMain
<1>1. AnalysisInv => OneReadingPerMain
  BY DEF AnalysisInv, Answered
<1> QED BY <1>1, AnalysisInvHolds, PTL

\* A link in a fresh index opens, and a panel without one is refused.
THEOREM LinksAreTheGate == AnalysisSpec => LinksAreHonoured
<1> DEFINE Honoured == \A panel \in Panels :
       index.news /\ request = Waiting /\ request' # Waiting /\ request'.panel = panel
         => (panel \in index.links <=> request'.at # "refused")
<1>1. ASSUME AnalysisInv, [AnalysisNext]_analysisVars PROVE Honoured
  <2>1. SUFFICES ASSUME NEW panel \in Panels, index.news, request = Waiting, request' # Waiting, request'.panel = panel
                 PROVE  panel \in index.links <=> request'.at # "refused"
    OBVIOUS
  <2>2. PICK p \in Panels : Ask(p)
    BY <1>1, <2>1 DEF AnalysisNext, Read, GetIndex, Subscribe, Tick, Capture, SignUp, Place, MoveEvent, Write, analysisVars,
       CountEvents, Attendance, RoleTotals, CompBalance, ReadActivity, RosterHealth, Throughput, Ilvl, Close, Asked, Waiting
  <2>3. p = panel /\ (request'.at # "refused" <=> Granted(panel))
    BY <2>1, <2>2 DEF Ask
  <2>4. index.links = AnalysisLinks(For)
    BY <1>1, <2>1 DEF AnalysisInv, LinksAreCurrent
  <2> QED BY <2>3, <2>4 DEF Granted, AnalysisLinks, Panels, Premium
<1> QED BY <1>1, AnalysisInvHolds, PTL DEF AnalysisSpec, LinksAreHonoured
=============================================================================
