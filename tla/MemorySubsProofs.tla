-------------------------- MODULE MemorySubsProofs --------------------------
(***************************************************************************)
(* Proofs about MemorySubs, for any number of connections, data channels,  *)
(* subscriptions and containers.                                           *)
(***************************************************************************)
EXTENDS MemorySubs, TLAPS

(* Writing a half of a container, or marking a copy free, leaves a         *)
(* container.                                                              *)
LEMMA ContainerWrites ==
    ASSUME NEW k \in Container
    PROVE  /\ \A s \in Subs \cup {NoSub}, i \in Nat, f \in {0, 1} :
                HeadOf(k, s, i, f) \in Container
           /\ \A d \in Conns \cup {NoFd}, f \in Nat : TailOf(k, d, f) \in Container
           /\ FreedCopy(k) \in Container
<1>1. ASSUME NEW s \in Subs \cup {NoSub}, NEW i \in Nat, NEW f \in {0, 1}
      PROVE  HeadOf(k, s, i, f) \in Container
  BY DEF HeadOf, Container
<1>2. ASSUME NEW d \in Conns \cup {NoFd}, NEW f \in Nat
      PROVE  TailOf(k, d, f) \in Container
  BY DEF TailOf, Container
<1>3. FreedCopy(k) \in Container
  BY DEF FreedCopy, Container
<1>4. QED
  BY <1>1, <1>2, <1>3

(* A thread that has got past the first allocation has passed containers   *)
(* that are all in use.                                                    *)
LEMMA FullWhenPast ==
    ASSUME TypeOK, WellFormed, NEW n \in Nat, n >= InitSlots, Reached(n)
    PROVE  \A i \in 0 .. InitSlots - 1 : InUse(i)
<1>1. n > 0 /\ n - 1 \in Index /\ InUse(n - 1)
  BY SlotsAssumption DEF Reached
<1>2. \A j \in 0 .. (n - 1) - 1 : InUse(j)
  BY <1>1 DEF WellFormed
<1>3. TAKE i \in 0 .. InitSlots - 1
<1>4. i = n - 1 \/ i \in 0 .. (n - 1) - 1
  BY SlotsAssumption
<1>5. QED
  BY <1>1, <1>2, <1>4

(* Where a thread is that has just followed fwd out of container n.        *)
LEMMA FollowFwd ==
    ASSUME TypeOK, WellFormed, NEW n \in Index, InUse(n)
    PROVE  area[n].fwd = n + 1 /\ Reached(n + 1)
BY SlotsAssumption DEF WellFormed, Reached, Index

(* A write to container n that leaves it in use, or out of use as it was,  *)
(* keeps the table well formed and every container in use that was.        *)
LEMMA TableWrite ==
    ASSUME IndInv, NEW n \in Index, Reached(n),
           area' \in [Index -> Container],
           \A i \in Index : i # n => area'[i] = area[i],
           \/ area'[n].fwd = area[n].fwd /\ area'[n].fd = area[n].fd
           \/ area'[n].fwd = n + 1,
           area'[n].fwd # NULL => area'[n].id = n /\ area'[n].sub \in Subs,
           area'[n].free = 1 => area'[n].fwd # NULL,
           \A d \in Conns : pc'[d] = "undefined" => pc[d] = "undefined"
    PROVE  TableInv' /\ (\A i \in Index : InUse(i) => InUse(i)')
<1> USE DEF Index, NULL
<1>1. \A i \in Index : InUse(i) => InUse(i)'
  <2> TAKE i \in Index
  <2>1. CASE i = n
    BY <2>1 DEF InUse
  <2>2. CASE i # n
    BY <2>2 DEF InUse
  <2>3. QED
    BY <2>1, <2>2
<1>2. WellFormed'
  <2> SUFFICES ASSUME NEW i \in Index
               PROVE  /\ InUse(i)' => /\ area'[i].fwd = i + 1 /\ area'[i].id = i
                                      /\ area'[i].sub # NoSub
                      /\ InUse(i)' => \A j \in 0 .. i - 1 : InUse(j)'
                      /\ area'[i].free = 1 => InUse(i)'
    BY DEF WellFormed
  <2>1. CASE i # n
    <3>1. area'[i] = area[i]
      BY <2>1
    <3>2. QED
      BY <3>1, <1>1, SlotsAssumption DEF IndInv, TableInv, WellFormed, InUse
  <2>2. CASE i = n
    <3>1. InUse(n)' => /\ area'[n].fwd = n + 1 /\ area'[n].id = n
                       /\ area'[n].sub # NoSub
      BY SubsAssumption DEF IndInv, TableInv, WellFormed, InUse
    <3>2. ASSUME NEW j \in 0 .. n - 1 PROVE InUse(j)
      <4>1. InUse(n - 1) /\ n - 1 \in Index
        BY <3>2 DEF Reached
      <4>2. j = n - 1 \/ j \in 0 .. (n - 1) - 1
        BY <3>2
      <4>3. QED
        BY <4>1, <4>2 DEF IndInv, TableInv, WellFormed
    <3>3. \A j \in 0 .. n - 1 : j \in Index
      BY SlotsAssumption
    <3>4. QED
      BY <2>2, <3>1, <3>2, <3>3, <1>1 DEF InUse
  <2>3. QED
    BY <2>1, <2>2
<1>3. UnusedHasNoOwner'
  <2> SUFFICES ASSUME NEW i \in Index
               PROVE  ~ InUse(i)' => area'[i].fd = NoFd
    BY DEF UnusedHasNoOwner
  <2>1. CASE i # n
    BY <2>1 DEF IndInv, TableInv, UnusedHasNoOwner, InUse
  <2>2. CASE i = n
    BY <2>2 DEF IndInv, TableInv, UnusedHasNoOwner, InUse
  <2>3. QED
    BY <2>1, <2>2
<1>4. UndefinedOnlyWhenFull'
  BY <1>1, SlotsAssumption DEF IndInv, TableInv, UndefinedOnlyWhenFull
<1>5. QED
  BY <1>1, <1>2, <1>3, <1>4 DEF TableInv

(* A thread leaves the block when it has got past the first allocation.    *)
LEMMA LeaveKeepsInv ==
    ASSUME IndInv, LeaveHeap, NEW n \in Nat, n >= InitSlots, Reached(n)
    PROVE  IndInv'
<1> USE SlotsAssumption DEF Index, NULL, heapVars, LeaveHeap
<1>1. TypeOK'
  BY DEF IndInv, TypeOK, ConnPC, WalkerPC
<1>2. TableInv'
  <2>1. \A i \in 0 .. InitSlots - 1 : InUse(i)
    BY FullWhenPast DEF IndInv, TableInv
  <2>2. QED
    BY <2>1 DEF IndInv, TableInv, WellFormed, UnusedHasNoOwner, UndefinedOnlyWhenFull,
           InUse, TypeOK
<1>3. ASSUME NEW d \in Conns PROVE ConnInv(d)'
  BY DEF IndInv, ConnInv, AddInv, RemoveInv, HeldInUse, InUse, TypeOK, Adding, Growing,
         Removing
<1>4. ASSUME NEW v \in Walkers PROVE WalkerInv(v)'
  BY DEF IndInv, WalkerInv, TypeOK
<1>5. QED
  BY <1>1, <1>2, <1>3, <1>4 DEF IndInv

(* Init establishes the invariant.                                         *)
LEMMA InitInv == Init => IndInv
<1> SUFFICES ASSUME Init PROVE IndInv
  OBVIOUS
<1> USE SlotsAssumption DEF Init, Index, NULL, ZeroContainer, InUse
<1>1. TypeOK
  BY DEF TypeOK, Container, ConnPC, WalkerPC
<1>2. TableInv
  BY DEF TableInv, WellFormed, UnusedHasNoOwner, UndefinedOnlyWhenFull
<1>3. ASSUME NEW c \in Conns PROVE ConnInv(c)
  BY DEF ConnInv, AddInv, RemoveInv, HeldInUse, Adding, Growing, Removing
<1>4. ASSUME NEW w \in Walkers PROVE WalkerInv(w)
  BY DEF WalkerInv
<1>5. QED
  BY <1>1, <1>2, <1>3, <1>4 DEF IndInv

(* What a client asks for.                                                 *)
LEMMA CommandKeepsInv ==
    ASSUME IndInv, NEW c \in Conns, Command(c)
    PROVE  IndInv'
<1> USE SlotsAssumption, ConnsAssumption, SubsAssumption
<1> USE DEF Index, NULL, connVars, walkVars, heapVars, Goto, Return, InBlock, Adding, Growing, Removing, WalkerPC
<1>1. CASE Accept(c)
  <2> USE <1>1 DEF Accept
  <2>1. TypeOK'
    BY DEF IndInv, ConnInv, AddInv, RemoveInv, TypeOK, Container, ConnPC, InUse
  <2>2. TableInv'
    BY DEF IndInv, TableInv, WellFormed, UnusedHasNoOwner, UndefinedOnlyWhenFull,
           InUse, TypeOK
  <2>3. ASSUME NEW d \in Conns PROVE ConnInv(d)'
    <3>1. CASE d = c
      BY <3>1 DEF IndInv, ConnInv, AddInv, RemoveInv, HeldInUse, Reached, InUse, TypeOK
    <3>2. CASE d # c
      BY <3>2 DEF IndInv, ConnInv, AddInv, RemoveInv, HeldInUse, Reached, InUse, TypeOK
    <3>3. QED
      BY <3>1, <3>2
  <2>4. ASSUME NEW v \in Walkers PROVE WalkerInv(v)'
    BY DEF IndInv, TableInv, WellFormed, WalkerInv, Reached, InUse, TypeOK, Container
  <2>5. QED
    BY <2>1, <2>2, <2>3, <2>4 DEF IndInv
<1>2. CASE Disconnect(c)
  <2> USE <1>2 DEF Disconnect, GiveUp
  <2>1. TypeOK'
    BY DEF IndInv, ConnInv, AddInv, RemoveInv, TypeOK, Container, ConnPC, InUse
  <2>2. TableInv'
    BY DEF IndInv, TableInv, WellFormed, UnusedHasNoOwner, UndefinedOnlyWhenFull,
           InUse, TypeOK
  <2>3. ASSUME NEW d \in Conns PROVE ConnInv(d)'
    <3>1. CASE d = c
      BY <3>1 DEF IndInv, ConnInv, AddInv, RemoveInv, HeldInUse, Reached, InUse, TypeOK
    <3>2. CASE d # c
      BY <3>2 DEF IndInv, ConnInv, AddInv, RemoveInv, HeldInUse, Reached, InUse, TypeOK
    <3>3. QED
      BY <3>1, <3>2
  <2>4. ASSUME NEW v \in Walkers PROVE WalkerInv(v)'
    BY DEF IndInv, TableInv, WellFormed, WalkerInv, Reached, InUse, TypeOK, Container
  <2>5. QED
    BY <2>1, <2>2, <2>3, <2>4 DEF IndInv
<1>3. ASSUME NEW s \in Subs, SubMem(c, s) PROVE IndInv'
  <2> USE <1>3 DEF SubMem
  <2>1. TypeOK'
    BY DEF IndInv, ConnInv, AddInv, RemoveInv, TypeOK, Container, ConnPC, InUse
  <2>2. TableInv'
    BY DEF IndInv, TableInv, WellFormed, UnusedHasNoOwner, UndefinedOnlyWhenFull,
           InUse, TypeOK
  <2>3. ASSUME NEW d \in Conns PROVE ConnInv(d)'
    <3>1. CASE d = c
      BY <3>1 DEF IndInv, ConnInv, AddInv, RemoveInv, HeldInUse, Reached, InUse, TypeOK
    <3>2. CASE d # c
      BY <3>2 DEF IndInv, ConnInv, AddInv, RemoveInv, HeldInUse, Reached, InUse, TypeOK
    <3>3. QED
      BY <3>1, <3>2
  <2>4. ASSUME NEW v \in Walkers PROVE WalkerInv(v)'
    BY DEF IndInv, TableInv, WellFormed, WalkerInv, Reached, InUse, TypeOK, Container
  <2>5. QED
    BY <2>1, <2>2, <2>3, <2>4 DEF IndInv
<1>4. ASSUME NEW i \in held[c], FreeSub(c, i) PROVE IndInv'
  <2> USE <1>4 DEF FreeSub, GiveUp
  <2>1. TypeOK'
    BY DEF IndInv, ConnInv, AddInv, RemoveInv, TypeOK, Container, ConnPC, InUse,
           HeldInUse
  <2>2. TableInv'
    BY DEF IndInv, TableInv, WellFormed, UnusedHasNoOwner, UndefinedOnlyWhenFull,
           InUse, TypeOK
  <2>3. ASSUME NEW d \in Conns PROVE ConnInv(d)'
    <3>1. CASE d = c
      BY <3>1 DEF IndInv, ConnInv, AddInv, RemoveInv, HeldInUse, Reached, InUse, TypeOK
    <3>2. CASE d # c
      BY <3>2 DEF IndInv, ConnInv, AddInv, RemoveInv, HeldInUse, Reached, InUse, TypeOK
    <3>3. QED
      BY <3>1, <3>2
  <2>4. ASSUME NEW v \in Walkers PROVE WalkerInv(v)'
    BY DEF IndInv, TableInv, WellFormed, WalkerInv, Reached, InUse, TypeOK, Container
  <2>5. QED
    BY <2>1, <2>2, <2>3, <2>4 DEF IndInv
<1>5. ASSUME NEW w \in Walkers, OpenAsync(c, w) PROVE IndInv'
  <2> USE <1>5 DEF OpenAsync
  <2>1. TypeOK'
    BY DEF IndInv, ConnInv, AddInv, RemoveInv, TypeOK, Container, ConnPC, InUse
  <2>2. TableInv'
    BY DEF IndInv, TableInv, WellFormed, UnusedHasNoOwner, UndefinedOnlyWhenFull,
           InUse, TypeOK
  <2>3. ASSUME NEW d \in Conns PROVE ConnInv(d)'
    <3>1. CASE d = c
      BY <3>1 DEF IndInv, ConnInv, AddInv, RemoveInv, HeldInUse, Reached, InUse, TypeOK
    <3>2. CASE d # c
      BY <3>2 DEF IndInv, ConnInv, AddInv, RemoveInv, HeldInUse, Reached, InUse, TypeOK
    <3>3. QED
      BY <3>1, <3>2
  <2>4. ASSUME NEW v \in Walkers PROVE WalkerInv(v)'
    BY DEF IndInv, TableInv, WellFormed, WalkerInv, Reached, InUse, TypeOK, Container
  <2>5. QED
    BY <2>1, <2>2, <2>3, <2>4 DEF IndInv
<1>6. QED
  BY <1>1, <1>2, <1>3, <1>4, <1>5 DEF Command

(* add_memory_sub.                                                         *)
LEMMA AddKeepsInv ==
    ASSUME IndInv, NEW c \in Conns, AddStep(c)
    PROVE  IndInv'
<1> USE SlotsAssumption, ConnsAssumption, SubsAssumption
<1> USE DEF Index, NULL, connVars, walkVars, heapVars, Goto, Return, InBlock, Adding, Growing, Removing, WalkerPC
<1>1. CASE HasRoom(c)
  <2> USE <1>1 DEF HasRoom
  <2>1. TypeOK'
    BY DEF IndInv, ConnInv, AddInv, RemoveInv, TypeOK, Container, ConnPC, InUse
  <2>2. TableInv'
    BY DEF IndInv, TableInv, WellFormed, UnusedHasNoOwner, UndefinedOnlyWhenFull,
           InUse, TypeOK
  <2>3. ASSUME NEW d \in Conns PROVE ConnInv(d)'
    <3>1. CASE d = c
      BY <3>1 DEF IndInv, ConnInv, AddInv, RemoveInv, HeldInUse, Reached, InUse, TypeOK
    <3>2. CASE d # c
      BY <3>2 DEF IndInv, ConnInv, AddInv, RemoveInv, HeldInUse, Reached, InUse, TypeOK
    <3>3. QED
      BY <3>1, <3>2
  <2>4. ASSUME NEW v \in Walkers PROVE WalkerInv(v)'
    BY DEF IndInv, TableInv, WellFormed, WalkerInv, Reached, InUse, TypeOK, Container
  <2>5. QED
    BY <2>1, <2>2, <2>3, <2>4 DEF IndInv
<1>2. CASE Hop(c)
  <2> USE <1>2 DEF Hop, Claimable
  <2>a. cur[c] \in Index /\ InUse(cur[c])
    BY DEF IndInv, TypeOK, Claimable, InUse
  <2>b. area[cur[c]].fwd = cur[c] + 1 /\ Reached(cur[c] + 1)
    BY <2>a, FollowFwd DEF IndInv, TableInv
  <2>1. TypeOK'
    BY <2>a, <2>b DEF IndInv, TypeOK, ConnPC
  <2>2. TableInv'
    BY DEF IndInv, TableInv, WellFormed, UnusedHasNoOwner, UndefinedOnlyWhenFull,
           InUse, TypeOK
  <2>3. ASSUME NEW d \in Conns PROVE ConnInv(d)'
    <3>1. CASE d = c
      <4>1. cur[c] \in Nat /\ cur[c] \in Index /\ area'[cur[c]].fwd # NULL
        BY <2>a DEF InUse
      <4>2. /\ pc'[c] = "walk" /\ cur'[c] = cur[c] + 1 /\ id'[c] = cur[c] + 1
            /\ new'[c] \in Subs
        BY <2>a, <2>b DEF IndInv, ConnInv, AddInv, TypeOK
      <4>3. QED
        BY <3>1, <4>1, <4>2
        DEF IndInv, ConnInv, AddInv, RemoveInv, HeldInUse, Reached, InUse
    <3>2. CASE d # c
      BY <3>2 DEF IndInv, ConnInv, AddInv, RemoveInv, HeldInUse, Reached, InUse, TypeOK
    <3>3. QED
      BY <3>1, <3>2
  <2>4. ASSUME NEW v \in Walkers PROVE WalkerInv(v)'
    BY DEF IndInv, TableInv, WellFormed, WalkerInv, Reached, InUse, TypeOK, Container
  <2>5. QED
    BY <2>1, <2>2, <2>3, <2>4 DEF IndInv
<1>3. CASE Claim(c)
  <2> USE <1>3 DEF Claim, Claimable
  <2>1. TypeOK'
    BY DEF IndInv, ConnInv, AddInv, RemoveInv, TypeOK, Container, ConnPC, InUse
  <2>2. TableInv'
    BY DEF IndInv, TableInv, WellFormed, UnusedHasNoOwner, UndefinedOnlyWhenFull,
           InUse, TypeOK
  <2>3. ASSUME NEW d \in Conns PROVE ConnInv(d)'
    <3>1. CASE d = c
      BY <3>1 DEF IndInv, ConnInv, AddInv, RemoveInv, HeldInUse, Reached, InUse, TypeOK
    <3>2. CASE d # c
      BY <3>2 DEF IndInv, ConnInv, AddInv, RemoveInv, HeldInUse, Reached, InUse, TypeOK
    <3>3. QED
      BY <3>1, <3>2
  <2>4. ASSUME NEW v \in Walkers PROVE WalkerInv(v)'
    BY DEF IndInv, TableInv, WellFormed, WalkerInv, Reached, InUse, TypeOK, Container
  <2>5. QED
    BY <2>1, <2>2, <2>3, <2>4 DEF IndInv
<1>4. CASE WriteHead(c)
  <2> USE <1>4 DEF WriteHead
  <2>1. TypeOK'
    <3>1. area[cur[c]] \in Container /\ cur[c] \in Index
      BY DEF IndInv, ConnInv, AddInv, RemoveInv, TypeOK
    <3>2. HeadOf(area[cur[c]], new[c], id[c], 0) \in Container
      BY <3>1, ContainerWrites DEF IndInv, TypeOK
    <3>3. area' \in [Index -> Container]
      BY <3>2 DEF IndInv, TypeOK
    <3>4. QED
      BY <3>3 DEF IndInv, TypeOK, ConnPC, ConnInv, AddInv
  <2>2. TableInv' /\ (\A i \in Index : InUse(i) => InUse(i)')
    <3>1. cur[c] \in Index /\ Reached(cur[c])
      BY DEF IndInv, ConnInv, AddInv
    <3>2. /\ \A i \in Index : i # cur[c] => area'[i] = area[i]
          /\ area'[cur[c]].fwd = area[cur[c]].fwd /\ area'[cur[c]].fd = area[cur[c]].fd
          /\ area'[cur[c]].id = cur[c] /\ area'[cur[c]].sub \in Subs
          /\ area'[cur[c]].free = 1 => area'[cur[c]].fwd # NULL
      BY <3>1 DEF HeadOf, IndInv, TypeOK, Container, ConnInv, AddInv
    <3>3. \A d \in Conns : pc'[d] = "undefined" => pc[d] = "undefined"
      BY DEF IndInv, TypeOK
    <3>4. QED
      BY <2>1, <3>1, <3>2, <3>3, TableWrite DEF TypeOK
  <2>3. ASSUME NEW d \in Conns PROVE ConnInv(d)'
    <3>1. CASE d = c
      BY <2>2, <3>1 DEF IndInv, TableInv, WellFormed, ConnInv, AddInv, RemoveInv,
             HeldInUse, Reached, InUse, TypeOK, Container, TailOf, HeadOf
    <3>2. CASE d # c
      <4>1. /\ pc'[d] = pc[d] /\ cur'[d] = cur[d] /\ id'[d] = id[d] /\ new'[d] = new[d]
            /\ was'[d] = was[d] /\ copy'[d] = copy[d] /\ held'[d] = held[d]
        BY <3>2 DEF IndInv, TypeOK
      <4>2. cur[d] \in Index /\ pc[d] = "tail" =>
              area'[cur[d]].id = cur[d] /\ area'[cur[d]].sub \in Subs
        <5>1. CASE cur[d] = cur[c]
          BY <5>1, <2>2 DEF IndInv, TypeOK, Container, HeadOf, ConnInv, AddInv, RemoveInv
        <5>2. CASE cur[d] # cur[c]
          BY <5>2 DEF IndInv, TypeOK, ConnInv, AddInv
        <5>3. QED
          BY <5>1, <5>2
      <4>3. QED
        BY <2>2, <4>1, <4>2 DEF IndInv, ConnInv, AddInv, RemoveInv, HeldInUse, Reached
    <3>3. QED
      BY <3>1, <3>2
  <2>4. ASSUME NEW v \in Walkers PROVE WalkerInv(v)'
    BY <2>2 DEF IndInv, WalkerInv, Reached, TypeOK
  <2>5. QED
    BY <2>1, <2>2, <2>3, <2>4 DEF IndInv
<1>5. CASE WriteTail(c)
  <2> USE <1>5 DEF WriteTail
  <2>1. TypeOK'
    <3>1. area[cur[c]] \in Container /\ cur[c] \in Index
      BY DEF IndInv, ConnInv, AddInv, RemoveInv, TypeOK
    <3>2. TailOf(area[cur[c]], c, cur[c] + 1) \in Container
      <4>1. cur[c] + 1 \in Nat
        BY <3>1
      <4>2. QED
        BY <3>1, <4>1, ContainerWrites
    <3>3. area' \in [Index -> Container]
      BY <3>2 DEF IndInv, TypeOK
    <3>4. QED
      BY <3>3 DEF IndInv, TypeOK, ConnPC, ConnInv, AddInv
  <2>2. TableInv' /\ (\A i \in Index : InUse(i) => InUse(i)')
    <3>1. cur[c] \in Index /\ Reached(cur[c])
      BY DEF IndInv, ConnInv, AddInv
    <3>2. /\ \A i \in Index : i # cur[c] => area'[i] = area[i]
          /\ area'[cur[c]].fwd = cur[c] + 1 /\ area'[cur[c]].fwd # NULL
          /\ area'[cur[c]].id = cur[c] /\ area'[cur[c]].sub \in Subs
      BY <3>1 DEF TailOf, IndInv, TypeOK, Container, ConnInv, AddInv
    <3>3. \A d \in Conns : pc'[d] = "undefined" => pc[d] = "undefined"
      BY DEF IndInv, TypeOK
    <3>4. QED
      BY <2>1, <3>1, <3>2, <3>3, TableWrite DEF TypeOK
  <2>3. ASSUME NEW d \in Conns PROVE ConnInv(d)'
    <3>1. CASE d = c
      BY <2>2, <3>1 DEF IndInv, TableInv, WellFormed, ConnInv, AddInv, RemoveInv,
             HeldInUse, Reached, InUse, TypeOK, Container, TailOf, HeadOf
    <3>2. CASE d # c
      BY <2>2, <3>2 DEF IndInv, TableInv, WellFormed, ConnInv, AddInv, RemoveInv,
             HeldInUse, Reached, TypeOK, Container, TailOf, HeadOf
    <3>3. QED
      BY <3>1, <3>2
  <2>4. ASSUME NEW v \in Walkers PROVE WalkerInv(v)'
    BY <2>2 DEF IndInv, WalkerInv, Reached, TypeOK
  <2>5. QED
    BY <2>1, <2>2, <2>3, <2>4 DEF IndInv
<1>6. QED
  BY <1>1, <1>2, <1>3, <1>4, <1>5 DEF AddStep

(* add_memory_sub where the area is full: a thread that grows it has passed *)
(* the first allocation, whatever the other threads make of the size.      *)
LEMMA GrowKeepsInv ==
    ASSUME IndInv, NEW c \in Conns, GrowStep(c)
    PROVE  IndInv'
<1> USE SlotsAssumption, ConnsAssumption, SubsAssumption
<1> USE DEF Index, NULL, connVars, walkVars, heapVars, Goto, Return, InBlock, Adding, Growing, Removing, WalkerPC
<1>1. CASE NoRoom(c)
  <2> USE <1>1 DEF NoRoom
  <2>1. TypeOK'
    BY DEF IndInv, ConnInv, AddInv, RemoveInv, TypeOK, Container, ConnPC, InUse
  <2>2. TableInv'
    BY DEF IndInv, TableInv, WellFormed, UnusedHasNoOwner, UndefinedOnlyWhenFull,
           InUse, TypeOK
  <2>3. ASSUME NEW d \in Conns PROVE ConnInv(d)'
    <3>1. CASE d = c
      BY <3>1 DEF IndInv, ConnInv, AddInv, RemoveInv, HeldInUse, Reached, InUse, TypeOK
    <3>2. CASE d # c
      BY <3>2 DEF IndInv, ConnInv, AddInv, RemoveInv, HeldInUse, Reached, InUse, TypeOK
    <3>3. QED
      BY <3>1, <3>2
  <2>4. ASSUME NEW v \in Walkers PROVE WalkerInv(v)'
    BY DEF IndInv, TableInv, WellFormed, WalkerInv, Reached, InUse, TypeOK, Container
  <2>5. QED
    BY <2>1, <2>2, <2>3, <2>4 DEF IndInv
<1>2. CASE GrowRead(c)
  <2> USE <1>2 DEF GrowRead
  <2>1. TypeOK'
    <3>1. size \in Nat
      BY DEF IndInv, TypeOK
    <3>2. QED
      BY <3>1 DEF IndInv, TypeOK, ConnPC
  <2>2. TableInv'
    BY DEF IndInv, TableInv, WellFormed, UnusedHasNoOwner, UndefinedOnlyWhenFull,
           InUse, TypeOK
  <2>3. ASSUME NEW d \in Conns PROVE ConnInv(d)'
    <3>1. CASE d = c
      BY <3>1 DEF IndInv, ConnInv, AddInv, RemoveInv, HeldInUse, Reached, InUse, TypeOK
    <3>2. CASE d # c
      BY <3>2 DEF IndInv, ConnInv, AddInv, RemoveInv, HeldInUse, Reached, InUse, TypeOK
    <3>3. QED
      BY <3>1, <3>2
  <2>4. ASSUME NEW v \in Walkers PROVE WalkerInv(v)'
    BY DEF IndInv, TableInv, WellFormed, WalkerInv, Reached, InUse, TypeOK, Container
  <2>5. QED
    BY <2>1, <2>2, <2>3, <2>4 DEF IndInv
<1>3. CASE GrowWrite(c)
  <2> USE <1>3 DEF GrowWrite
  <2>1. TypeOK'
    <3>1. was[c] \in InitSlots .. MaxSlots - GrowSlots
      BY DEF IndInv, ConnInv, AddInv
    <3>2. was[c] + GrowSlots \in InitSlots .. MaxSlots
      BY <3>1
    <3>3. QED
      BY <3>2 DEF IndInv, TypeOK, ConnPC
  <2>2. TableInv'
    BY DEF IndInv, TableInv, WellFormed, UnusedHasNoOwner, UndefinedOnlyWhenFull,
           InUse, TypeOK
  <2>3. ASSUME NEW d \in Conns PROVE ConnInv(d)'
    <3>1. CASE d = c
      BY <3>1 DEF IndInv, ConnInv, AddInv, RemoveInv, HeldInUse, Reached, InUse, TypeOK
    <3>2. CASE d # c
      BY <3>2 DEF IndInv, ConnInv, AddInv, RemoveInv, HeldInUse, Reached, InUse, TypeOK
    <3>3. QED
      BY <3>1, <3>2
  <2>4. ASSUME NEW v \in Walkers PROVE WalkerInv(v)'
    BY DEF IndInv, TableInv, WellFormed, WalkerInv, Reached, InUse, TypeOK, Container
  <2>5. QED
    BY <2>1, <2>2, <2>3, <2>4 DEF IndInv
<1>4. CASE GrowFlag(c)
  <2> USE <1>4 DEF GrowFlag
  <2>1. TypeOK'
    BY DEF IndInv, ConnInv, AddInv, RemoveInv, TypeOK, Container, ConnPC, InUse
  <2>2. TableInv'
    BY DEF IndInv, TableInv, WellFormed, UnusedHasNoOwner, UndefinedOnlyWhenFull,
           InUse, TypeOK
  <2>3. ASSUME NEW d \in Conns PROVE ConnInv(d)'
    <3>1. CASE d = c
      BY <3>1 DEF IndInv, ConnInv, AddInv, RemoveInv, HeldInUse, Reached, InUse, TypeOK
    <3>2. CASE d # c
      BY <3>2 DEF IndInv, ConnInv, AddInv, RemoveInv, HeldInUse, Reached, InUse, TypeOK
    <3>3. QED
      BY <3>1, <3>2
  <2>4. ASSUME NEW v \in Walkers PROVE WalkerInv(v)'
    BY DEF IndInv, TableInv, WellFormed, WalkerInv, Reached, InUse, TypeOK, Container
  <2>5. QED
    BY <2>1, <2>2, <2>3, <2>4 DEF IndInv
<1>5. CASE GrowInPlace(c)
  <2> USE <1>5 DEF GrowInPlace
  <2>1. TypeOK'
    BY DEF IndInv, ConnInv, AddInv, RemoveInv, TypeOK, Container, ConnPC, InUse
  <2>2. TableInv'
    BY DEF IndInv, TableInv, WellFormed, UnusedHasNoOwner, UndefinedOnlyWhenFull,
           InUse, TypeOK
  <2>3. ASSUME NEW d \in Conns PROVE ConnInv(d)'
    <3>1. CASE d = c
      BY <3>1 DEF IndInv, ConnInv, AddInv, RemoveInv, HeldInUse, Reached, InUse, TypeOK
    <3>2. CASE d # c
      BY <3>2 DEF IndInv, ConnInv, AddInv, RemoveInv, HeldInUse, Reached, InUse, TypeOK
    <3>3. QED
      BY <3>1, <3>2
  <2>4. ASSUME NEW v \in Walkers PROVE WalkerInv(v)'
    BY DEF IndInv, TableInv, WellFormed, WalkerInv, Reached, InUse, TypeOK, Container
  <2>5. QED
    BY <2>1, <2>2, <2>3, <2>4 DEF IndInv
<1>6. CASE GrowElse(c)
  <2>1. LeaveHeap /\ cur[c] \in Nat /\ cur[c] >= InitSlots /\ Reached(cur[c])
    BY <1>6 DEF GrowElse, IndInv, ConnInv, AddInv, TypeOK
  <2>2. QED
    BY <2>1, LeaveKeepsInv
<1>7. CASE Fix(c)
  <2> USE <1>7 DEF Fix
  <2>1. TypeOK'
    BY DEF IndInv, ConnInv, AddInv, RemoveInv, TypeOK, Container, ConnPC, InUse
  <2>2. TableInv'
    BY DEF IndInv, TableInv, WellFormed, UnusedHasNoOwner, UndefinedOnlyWhenFull,
           InUse, TypeOK
  <2>3. ASSUME NEW d \in Conns PROVE ConnInv(d)'
    <3>1. CASE d = c
      BY <3>1 DEF IndInv, ConnInv, AddInv, RemoveInv, HeldInUse, Reached, InUse, TypeOK
    <3>2. CASE d # c
      BY <3>2 DEF IndInv, ConnInv, AddInv, RemoveInv, HeldInUse, Reached, InUse, TypeOK
    <3>3. QED
      BY <3>1, <3>2
  <2>4. ASSUME NEW v \in Walkers PROVE WalkerInv(v)'
    BY DEF IndInv, TableInv, WellFormed, WalkerInv, Reached, InUse, TypeOK, Container
  <2>5. QED
    BY <2>1, <2>2, <2>3, <2>4 DEF IndInv
<1>8. CASE FixOut(c)
  <2>1. LeaveHeap /\ cur[c] \in Nat /\ cur[c] >= InitSlots /\ Reached(cur[c])
    BY <1>8 DEF FixOut, IndInv, ConnInv, AddInv, TypeOK
  <2>2. QED
    BY <2>1, LeaveKeepsInv
<1>9. CASE Unflag(c)
  <2> USE <1>9 DEF Unflag
  <2>1. TypeOK'
    BY DEF IndInv, ConnInv, AddInv, RemoveInv, TypeOK, Container, ConnPC, InUse
  <2>2. TableInv'
    BY DEF IndInv, TableInv, WellFormed, UnusedHasNoOwner, UndefinedOnlyWhenFull,
           InUse, TypeOK
  <2>3. ASSUME NEW d \in Conns PROVE ConnInv(d)'
    <3>1. CASE d = c
      BY <3>1 DEF IndInv, ConnInv, AddInv, RemoveInv, HeldInUse, Reached, InUse, TypeOK
    <3>2. CASE d # c
      BY <3>2 DEF IndInv, ConnInv, AddInv, RemoveInv, HeldInUse, Reached, InUse, TypeOK
    <3>3. QED
      BY <3>1, <3>2
  <2>4. ASSUME NEW v \in Walkers PROVE WalkerInv(v)'
    BY DEF IndInv, TableInv, WellFormed, WalkerInv, Reached, InUse, TypeOK, Container
  <2>5. QED
    BY <2>1, <2>2, <2>3, <2>4 DEF IndInv
<1>10. QED
  BY <1>1, <1>2, <1>3, <1>4, <1>5, <1>6, <1>7, <1>8, <1>9 DEF GrowStep

(* remove_memory_sub.                                                      *)
LEMMA RemoveKeepsInv ==
    ASSUME IndInv, NEW c \in Conns, RemoveStep(c)
    PROVE  IndInv'
<1> USE SlotsAssumption, ConnsAssumption, SubsAssumption
<1> USE DEF Index, NULL, connVars, walkVars, heapVars, Goto, Return, InBlock, Adding, Growing, Removing, WalkerPC
<1>1. CASE RemoveRead(c)
  <2> USE <1>1 DEF RemoveRead
  <2>1. TypeOK'
    <3>1. area[id[c]] \in Container /\ FreedCopy(area[id[c]]) \in Container
      BY ContainerWrites DEF IndInv, ConnInv, RemoveInv, TypeOK
    <3>2. QED
      BY <3>1 DEF IndInv, TypeOK, ConnPC
  <2>2. TableInv'
    BY DEF IndInv, TableInv, WellFormed, UnusedHasNoOwner, UndefinedOnlyWhenFull,
           InUse, TypeOK
  <2>3. ASSUME NEW d \in Conns PROVE ConnInv(d)'
    <3>1. CASE d = c
      BY <3>1 DEF IndInv, TableInv, WellFormed, ConnInv, AddInv, RemoveInv, HeldInUse,
             Reached, InUse, TypeOK, Container, FreedCopy
    <3>2. CASE d # c
      BY <3>2 DEF IndInv, ConnInv, AddInv, RemoveInv, HeldInUse, Reached, InUse, TypeOK
    <3>3. QED
      BY <3>1, <3>2
  <2>4. ASSUME NEW v \in Walkers PROVE WalkerInv(v)'
    BY DEF IndInv, TableInv, WellFormed, WalkerInv, Reached, InUse, TypeOK, Container
  <2>5. QED
    BY <2>1, <2>2, <2>3, <2>4 DEF IndInv
<1>2. CASE RemoveHead(c)
  <2> USE <1>2 DEF RemoveHead
  <2>1. TypeOK'
    <3>1. area[id[c]] \in Container /\ id[c] \in Index
      BY DEF IndInv, ConnInv, AddInv, RemoveInv, TypeOK
    <3>2. HeadOf(area[id[c]], copy[c].sub, copy[c].id, copy[c].free) \in Container
      <4>1. copy[c].sub \in Subs \cup {NoSub} /\ copy[c].id \in Nat /\ copy[c].free \in {0, 1}
        BY DEF IndInv, TypeOK, Container
      <4>2. QED
        BY <3>1, <4>1, ContainerWrites
    <3>3. area' \in [Index -> Container]
      BY <3>2 DEF IndInv, TypeOK
    <3>4. QED
      BY <3>3 DEF IndInv, TypeOK, ConnPC, ConnInv, AddInv
  <2>2. TableInv' /\ (\A i \in Index : InUse(i) => InUse(i)')
    <3>1. id[c] \in Index /\ InUse(id[c]) /\ Reached(id[c])
      <4>1. id[c] \in Index /\ InUse(id[c])
        BY DEF IndInv, ConnInv, RemoveInv
      <4>2. QED
        BY <4>1 DEF IndInv, TableInv, WellFormed, UnusedHasNoOwner, Reached
    <3>2. /\ \A i \in Index : i # id[c] => area'[i] = area[i]
          /\ area'[id[c]].fwd = area[id[c]].fwd /\ area'[id[c]].fd = area[id[c]].fd
          /\ area'[id[c]].id = id[c] /\ area'[id[c]].sub \in Subs
          /\ area'[id[c]].fwd # NULL
      BY <3>1 DEF HeadOf, InUse, IndInv, TypeOK, Container, ConnInv, RemoveInv
    <3>3. \A d \in Conns : pc'[d] = "undefined" => pc[d] = "undefined"
      BY DEF IndInv, TypeOK
    <3>4. QED
      BY <2>1, <3>1, <3>2, <3>3, TableWrite DEF TypeOK
  <2>3. ASSUME NEW d \in Conns PROVE ConnInv(d)'
    <3>1. CASE d = c
      BY <2>2, <3>1 DEF IndInv, TableInv, WellFormed, ConnInv, AddInv, RemoveInv,
             HeldInUse, Reached, InUse, TypeOK, Container, TailOf, HeadOf
    <3>2. CASE d # c
      BY <2>2, <3>2 DEF IndInv, TableInv, WellFormed, ConnInv, AddInv, RemoveInv,
             HeldInUse, Reached, TypeOK, Container, TailOf, HeadOf
    <3>3. QED
      BY <3>1, <3>2
  <2>4. ASSUME NEW v \in Walkers PROVE WalkerInv(v)'
    BY <2>2 DEF IndInv, WalkerInv, Reached, TypeOK
  <2>5. QED
    BY <2>1, <2>2, <2>3, <2>4 DEF IndInv
<1>3. CASE RemoveTail(c)
  <2> USE <1>3 DEF RemoveTail
  <2>1. TypeOK'
    <3>1. area[id[c]] \in Container /\ id[c] \in Index
      BY DEF IndInv, ConnInv, AddInv, RemoveInv, TypeOK
    <3>2. TailOf(area[id[c]], copy[c].fd, copy[c].fwd) \in Container
      BY <3>1, ContainerWrites DEF IndInv, TypeOK, Container
    <3>3. area' \in [Index -> Container]
      BY <3>2 DEF IndInv, TypeOK
    <3>4. QED
      BY <3>3 DEF IndInv, TypeOK, ConnPC, ConnInv, AddInv, ZeroContainer, Container
  <2>2. TableInv' /\ (\A i \in Index : InUse(i) => InUse(i)')
    <3>1. id[c] \in Index /\ InUse(id[c]) /\ Reached(id[c])
      <4>1. id[c] \in Index /\ InUse(id[c])
        BY DEF IndInv, ConnInv, RemoveInv
      <4>2. QED
        BY <4>1 DEF IndInv, TableInv, WellFormed, UnusedHasNoOwner, Reached
    <3>2. /\ \A i \in Index : i # id[c] => area'[i] = area[i]
          /\ area'[id[c]].fwd = id[c] + 1 /\ area'[id[c]].fwd # NULL
          /\ area'[id[c]].id = id[c] /\ area'[id[c]].sub \in Subs
      <4>1. area[id[c]] \in Container
        BY <3>1 DEF IndInv, TypeOK
      <4>2. area[id[c]].id = id[c] /\ area[id[c]].sub \in Subs
        BY <3>1, <4>1 DEF IndInv, TableInv, WellFormed, Container
      <4>3. copy[c].fwd = id[c] + 1
        BY DEF IndInv, ConnInv, RemoveInv
      <4>4. QED
        BY <3>1, <4>1, <4>2, <4>3 DEF TailOf, IndInv, TypeOK, Container
    <3>3. \A d \in Conns : pc'[d] = "undefined" => pc[d] = "undefined"
      BY DEF IndInv, TypeOK
    <3>4. QED
      BY <2>1, <3>1, <3>2, <3>3, TableWrite DEF TypeOK
  <2>3. ASSUME NEW d \in Conns PROVE ConnInv(d)'
    <3>1. CASE d = c
      BY <2>2, <3>1 DEF IndInv, TableInv, WellFormed, ConnInv, AddInv, RemoveInv,
             HeldInUse, Reached, InUse, TypeOK, Container, TailOf, HeadOf
    <3>2. CASE d # c
      <4>1. /\ pc'[d] = pc[d] /\ cur'[d] = cur[d] /\ id'[d] = id[d] /\ new'[d] = new[d]
            /\ was'[d] = was[d] /\ copy'[d] = copy[d] /\ held'[d] = held[d]
        BY <3>2 DEF IndInv, TypeOK
      <4>2. cur[d] \in Index /\ pc[d] = "tail" =>
              area'[cur[d]].id = cur[d] /\ area'[cur[d]].sub \in Subs
        <5>1. CASE cur[d] = id[c]
          <6>1. area[id[c]] \in Container /\ id[c] \in Index
            BY DEF IndInv, TypeOK, ConnInv, RemoveInv
          <6>2. area'[id[c]] = TailOf(area[id[c]], copy[c].fd, copy[c].fwd)
            BY <6>1 DEF IndInv, TypeOK
          <6>3. area'[id[c]].id = area[id[c]].id /\ area'[id[c]].sub = area[id[c]].sub
            BY <6>1, <6>2 DEF Container, TailOf
          <6>4. QED
            BY <5>1, <6>3 DEF IndInv, ConnInv, AddInv
        <5>2. CASE cur[d] # id[c]
          BY <5>2 DEF IndInv, TypeOK, ConnInv, AddInv
        <5>3. QED
          BY <5>1, <5>2
      <4>3. QED
        BY <2>2, <4>1, <4>2 DEF IndInv, ConnInv, AddInv, RemoveInv, HeldInUse, Reached
    <3>3. QED
      BY <3>1, <3>2
  <2>4. ASSUME NEW v \in Walkers PROVE WalkerInv(v)'
    BY <2>2 DEF IndInv, WalkerInv, Reached, TypeOK
  <2>5. QED
    BY <2>1, <2>2, <2>3, <2>4 DEF IndInv
<1>4. QED
  BY <1>1, <1>2, <1>3 DEF RemoveStep

(* remove_memory_sub_by_sock_fd and the end of a connection.               *)
LEMMA DropKeepsInv ==
    ASSUME IndInv, NEW c \in Conns, DropStep(c)
    PROVE  IndInv'
<1> USE SlotsAssumption, ConnsAssumption, SubsAssumption
<1> USE DEF Index, NULL, connVars, walkVars, heapVars, Goto, Return, InBlock, Adding, Growing, Removing, WalkerPC, LeaveHeap
<1>1. CASE DropFree(c)
  <2> USE <1>1 DEF DropFree
  <2>a. cur[c] \in Index /\ InUse(cur[c])
    BY DEF IndInv, TypeOK, InUse
  <2>b. area[cur[c]].fwd = cur[c] + 1 /\ Reached(cur[c] + 1)
    BY <2>a, FollowFwd DEF IndInv, TableInv
  <2>1. TypeOK'
    BY <2>a, <2>b DEF IndInv, TypeOK
  <2>2. TableInv'
    BY DEF IndInv, TableInv, WellFormed, UnusedHasNoOwner, UndefinedOnlyWhenFull,
           InUse, TypeOK
  <2>3. ASSUME NEW d \in Conns PROVE ConnInv(d)'
    <3>1. CASE d = c
      <4>1. cur[c] \in Nat /\ cur[c] \in Index /\ area'[cur[c]].fwd # NULL
        BY <2>a DEF InUse
      <4>2. pc'[c] = "drop" /\ cur'[c] = cur[c] + 1
        BY <2>a, <2>b DEF IndInv, TypeOK
      <4>3. QED
        BY <3>1, <4>1, <4>2
        DEF IndInv, ConnInv, AddInv, RemoveInv, HeldInUse, Reached, InUse
    <3>2. CASE d # c
      BY <3>2 DEF IndInv, ConnInv, AddInv, RemoveInv, HeldInUse, Reached, InUse, TypeOK
    <3>3. QED
      BY <3>1, <3>2
  <2>4. ASSUME NEW v \in Walkers PROVE WalkerInv(v)'
    BY DEF IndInv, TableInv, WellFormed, WalkerInv, Reached, InUse, TypeOK, Container
  <2>5. QED
    BY <2>1, <2>2, <2>3, <2>4 DEF IndInv
<1>2. CASE DropMatch(c)
  <2> USE <1>2 DEF DropMatch
  <2>1. TypeOK'
    <3>1. area[cur[c]] \in Container
      BY DEF IndInv, TypeOK
    <3>2. area[cur[c]].id \in Nat
      BY <3>1 DEF Container
    <3>3. QED
      BY <3>2 DEF IndInv, TypeOK, ConnPC
  <2>2. TableInv'
    BY DEF IndInv, TableInv, WellFormed, UnusedHasNoOwner, UndefinedOnlyWhenFull,
           InUse, TypeOK
  <2>3. ASSUME NEW d \in Conns PROVE ConnInv(d)'
    <3>1. CASE d = c
      <4>1. cur[c] \in Index /\ InUse(cur[c]) /\ area[cur[c]].id = cur[c]
        BY DEF IndInv, TypeOK, TableInv, UnusedHasNoOwner, WellFormed
      <4>2. Reached(cur[c])
        BY DEF IndInv, ConnInv, RemoveInv
      <4>3. pc'[c] = "dropRead" /\ id'[c] = cur[c]
        BY <4>1 DEF IndInv, TypeOK
      <4>4. QED
        BY <3>1, <4>1, <4>2, <4>3
        DEF IndInv, ConnInv, AddInv, RemoveInv, HeldInUse, Reached, InUse
    <3>2. CASE d # c
      BY <3>2 DEF IndInv, ConnInv, AddInv, RemoveInv, HeldInUse, Reached, InUse, TypeOK
    <3>3. QED
      BY <3>1, <3>2
  <2>4. ASSUME NEW v \in Walkers PROVE WalkerInv(v)'
    BY DEF IndInv, TableInv, WellFormed, WalkerInv, Reached, InUse, TypeOK, Container
  <2>5. QED
    BY <2>1, <2>2, <2>3, <2>4 DEF IndInv
<1>3. CASE DropOther(c)
  <2> USE <1>3 DEF DropOther
  <2>a. cur[c] \in Index
    BY DEF IndInv, ConnInv, RemoveInv, TypeOK
  <2>b. InUse(cur[c]) => area[cur[c]].fwd = cur[c] + 1 /\ Reached(cur[c] + 1)
    BY <2>a, FollowFwd DEF IndInv, TableInv
  <2>1. TypeOK'
    <3>1. area[cur[c]].fwd \in Nat
      BY <2>a DEF IndInv, TypeOK, Container
    <3>2. cur' \in [Conns -> Nat] /\ pc' \in [Conns -> ConnPC]
      <4>1. CASE area[cur[c]].fwd = NULL
        BY <4>1 DEF Advance, IndInv, TypeOK, ConnPC
      <4>2. CASE area[cur[c]].fwd # NULL
        BY <3>1, <4>2 DEF Advance, IndInv, TypeOK, ConnPC
      <4>3. QED
        BY <4>1, <4>2
    <3>3. QED
      BY <3>2 DEF IndInv, TypeOK
  <2>2. TableInv'
    BY DEF IndInv, TableInv, WellFormed, UnusedHasNoOwner, UndefinedOnlyWhenFull,
           InUse, TypeOK, Advance
  <2>3. ASSUME NEW d \in Conns PROVE ConnInv(d)'
    <3>1. CASE d = c
      <4>1. CASE area[cur[c]].fwd = NULL
        BY <3>1, <4>1 DEF Advance, IndInv, ConnInv, AddInv, RemoveInv, HeldInUse,
               InUse, TypeOK
      <4>2. CASE area[cur[c]].fwd # NULL
        <5>1. pc'[c] = "drop" /\ cur'[c] = cur[c] + 1
          BY <2>a, <2>b, <4>2 DEF Advance, InUse, IndInv, TypeOK
        <5>2. cur[c] \in Nat /\ cur[c] \in Index /\ area'[cur[c]].fwd # NULL
          BY <2>a, <4>2
        <5>3. QED
          BY <3>1, <5>1, <5>2
          DEF IndInv, ConnInv, AddInv, RemoveInv, HeldInUse, Reached, InUse
      <4>3. QED
        BY <4>1, <4>2
    <3>2. CASE d # c
      <4>1. pc'[d] = pc[d] /\ cur'[d] = cur[d]
        BY <3>2 DEF Advance, IndInv, TypeOK
      <4>2. QED
        BY <4>1 DEF IndInv, ConnInv, AddInv, RemoveInv, HeldInUse, Reached, InUse
    <3>3. QED
      BY <3>1, <3>2
  <2>4. ASSUME NEW v \in Walkers PROVE WalkerInv(v)'
    BY DEF IndInv, TableInv, WellFormed, WalkerInv, Reached, InUse, TypeOK, Container,
           Advance
  <2>5. QED
    BY <2>1, <2>2, <2>3, <2>4 DEF IndInv
<1>4. CASE DropNext(c)
  <2> USE <1>4 DEF DropNext
  <2>a. cur[c] \in Index
    BY DEF IndInv, ConnInv, RemoveInv, TypeOK
  <2>b. InUse(cur[c]) => area[cur[c]].fwd = cur[c] + 1 /\ Reached(cur[c] + 1)
    BY <2>a, FollowFwd DEF IndInv, TableInv
  <2>1. TypeOK'
    <3>1. area[cur[c]].fwd \in Nat
      BY <2>a DEF IndInv, TypeOK, Container
    <3>2. QED
      BY <3>1 DEF Advance, IndInv, TypeOK, ConnPC
  <2>2. TableInv'
    BY DEF IndInv, TableInv, WellFormed, UnusedHasNoOwner, UndefinedOnlyWhenFull,
           InUse, TypeOK, Advance
  <2>3. ASSUME NEW d \in Conns PROVE ConnInv(d)'
    <3>1. CASE d = c
      <4>1. CASE area[cur[c]].fwd = NULL
        BY <3>1, <4>1 DEF Advance, IndInv, ConnInv, AddInv, RemoveInv, HeldInUse,
               InUse, TypeOK
      <4>2. CASE area[cur[c]].fwd # NULL
        <5>1. pc'[c] = "drop" /\ cur'[c] = cur[c] + 1
          BY <2>a, <2>b, <4>2 DEF Advance, InUse, IndInv, TypeOK
        <5>2. cur[c] \in Nat /\ cur[c] \in Index /\ area'[cur[c]].fwd # NULL
          BY <2>a, <4>2
        <5>3. QED
          BY <3>1, <5>1, <5>2
          DEF IndInv, ConnInv, AddInv, RemoveInv, HeldInUse, Reached, InUse
      <4>3. QED
        BY <4>1, <4>2
    <3>2. CASE d # c
      <4>1. pc'[d] = pc[d] /\ cur'[d] = cur[d]
        BY <3>2 DEF Advance, IndInv, TypeOK
      <4>2. QED
        BY <4>1 DEF IndInv, ConnInv, AddInv, RemoveInv, HeldInUse, Reached, InUse
    <3>3. QED
      BY <3>1, <3>2
  <2>4. ASSUME NEW v \in Walkers PROVE WalkerInv(v)'
    BY DEF IndInv, TableInv, WellFormed, WalkerInv, Reached, InUse, TypeOK, Container,
           Advance
  <2>5. QED
    BY <2>1, <2>2, <2>3, <2>4 DEF IndInv
<1>5. CASE Sclose(c)
  <2> USE <1>5 DEF Sclose
  <2>1. TypeOK'
    BY DEF IndInv, ConnInv, AddInv, RemoveInv, TypeOK, Container, ConnPC, InUse
  <2>2. TableInv'
    BY DEF IndInv, TableInv, WellFormed, UnusedHasNoOwner, UndefinedOnlyWhenFull,
           InUse, TypeOK
  <2>3. ASSUME NEW d \in Conns PROVE ConnInv(d)'
    <3>1. CASE d = c
      BY <3>1 DEF IndInv, ConnInv, AddInv, RemoveInv, HeldInUse, Reached, InUse, TypeOK
    <3>2. CASE d # c
      BY <3>2 DEF IndInv, ConnInv, AddInv, RemoveInv, HeldInUse, Reached, InUse, TypeOK
    <3>3. QED
      BY <3>1, <3>2
  <2>4. ASSUME NEW v \in Walkers PROVE WalkerInv(v)'
    BY DEF IndInv, TableInv, WellFormed, WalkerInv, Reached, InUse, TypeOK, Container
  <2>5. QED
    BY <2>1, <2>2, <2>3, <2>4 DEF IndInv
<1>6. QED
  BY <1>1, <1>2, <1>3, <1>4, <1>5 DEF DropStep

(* Wherever a connection's thread leaves the block, it is past the first   *)
(* allocation, and it never follows NULL: a free container has a fwd.      *)
LEMMA OutKeepsInv ==
    ASSUME IndInv, NEW c \in Conns, ConnOut(c)
    PROVE  IndInv'
<1> USE SlotsAssumption DEF Index, InBlock, Removing, Adding
<1>1. LeaveHeap
  BY DEF ConnOut
<1>2. CASE pc[c] \in {"look", "head", "tail", "drop", "dropNext"} /\ ~ InBlock(cur[c])
  <2>1. cur[c] \in Nat /\ cur[c] >= InitSlots /\ Reached(cur[c])
    BY <1>2 DEF IndInv, TypeOK, ConnInv, AddInv, RemoveInv
  <2>2. QED
    BY <1>1, <2>1, LeaveKeepsInv
<1>3. CASE pc[c] \in Removing /\ ~ InBlock(id[c])
  <2>1. id[c] \in Index /\ InUse(id[c]) /\ id[c] >= InitSlots
    BY <1>3 DEF IndInv, TypeOK, ConnInv, RemoveInv
  <2>2. Reached(id[c])
    BY <2>1 DEF IndInv, TableInv, WellFormed, Reached
  <2>3. QED
    BY <1>1, <2>1, <2>2, LeaveKeepsInv
<1>4. CASE pc[c] = "drop" /\ InBlock(cur[c]) /\ FreeLast(area[cur[c]])
  <2>1. cur[c] \in Index
    BY <1>4 DEF IndInv, TypeOK
  <2>2. FALSE
    BY <1>4, <2>1 DEF FreeLast, IndInv, TableInv, WellFormed, InUse
  <2>3. QED
    BY <2>2
<1>5. QED
  BY <1>2, <1>3, <1>4 DEF ConnOut

(* async_data_handle.                                                      *)
LEMMA WalkerKeepsInv ==
    ASSUME IndInv, NEW w \in Walkers, WalkerStep(w)
    PROVE  IndInv'
<1> USE SlotsAssumption, ConnsAssumption, SubsAssumption
<1> USE DEF Index, NULL, connVars, walkVars, heapVars, Goto, Return, InBlock, Adding, Growing, Removing, WalkerPC, Skipped, LeaveHeap
<1>1. CASE WalkerStop(w)
  <2> USE <1>1 DEF WalkerStop
  <2>1. TypeOK'
    BY DEF IndInv, ConnInv, AddInv, RemoveInv, TypeOK, Container, ConnPC, InUse
  <2>2. TableInv'
    BY DEF IndInv, TableInv, WellFormed, UnusedHasNoOwner, UndefinedOnlyWhenFull,
           InUse, TypeOK
  <2>3. ASSUME NEW d \in Conns PROVE ConnInv(d)'
    BY DEF IndInv, ConnInv, AddInv, RemoveInv, HeldInUse, Reached, InUse
  <2>4. ASSUME NEW v \in Walkers PROVE WalkerInv(v)'
    BY DEF IndInv, TableInv, WellFormed, WalkerInv, Reached, InUse, TypeOK, Container
  <2>5. QED
    BY <2>1, <2>2, <2>3, <2>4 DEF IndInv
<1>2. CASE PassBegin(w)
  <2> USE <1>2 DEF PassBegin
  <2>1. TypeOK'
    BY DEF IndInv, TypeOK, Owed
  <2>2. TableInv'
    BY DEF IndInv, TableInv, WellFormed, UnusedHasNoOwner, UndefinedOnlyWhenFull,
           InUse, TypeOK
  <2>3. ASSUME NEW d \in Conns PROVE ConnInv(d)'
    BY DEF IndInv, ConnInv, AddInv, RemoveInv, HeldInUse, Reached, InUse
  <2>4. ASSUME NEW v \in Walkers PROVE WalkerInv(v)'
    BY DEF IndInv, TableInv, WellFormed, WalkerInv, Reached, InUse, TypeOK, Container
  <2>5. QED
    BY <2>1, <2>2, <2>3, <2>4 DEF IndInv
<1>3. CASE Skip(w)
  <2> USE <1>3 DEF Skip
  <2>a. wcur[w] \in Index /\ InUse(wcur[w])
    BY DEF IndInv, TypeOK, InUse
  <2>b. area[wcur[w]].fwd = wcur[w] + 1 /\ Reached(wcur[w] + 1)
    BY <2>a, FollowFwd DEF IndInv, TableInv
  <2>1. TypeOK'
    BY <2>a, <2>b DEF IndInv, TypeOK
  <2>2. TableInv'
    BY DEF IndInv, TableInv, WellFormed, UnusedHasNoOwner, UndefinedOnlyWhenFull,
           InUse, TypeOK
  <2>3. ASSUME NEW d \in Conns PROVE ConnInv(d)'
    BY DEF IndInv, ConnInv, AddInv, RemoveInv, HeldInUse, Reached, InUse
  <2>4. ASSUME NEW v \in Walkers PROVE WalkerInv(v)'
    BY <2>a, <2>b DEF IndInv, WalkerInv, Reached, InUse, TypeOK
  <2>5. QED
    BY <2>1, <2>2, <2>3, <2>4 DEF IndInv
<1>4. CASE Pick(w)
  <2> USE <1>4 DEF Pick
  <2>1. TypeOK'
    BY DEF IndInv, ConnInv, AddInv, RemoveInv, TypeOK, Container, ConnPC, InUse
  <2>2. TableInv'
    BY DEF IndInv, TableInv, WellFormed, UnusedHasNoOwner, UndefinedOnlyWhenFull,
           InUse, TypeOK
  <2>3. ASSUME NEW d \in Conns PROVE ConnInv(d)'
    BY DEF IndInv, ConnInv, AddInv, RemoveInv, HeldInUse, Reached, InUse
  <2>4. ASSUME NEW v \in Walkers PROVE WalkerInv(v)'
    BY DEF IndInv, TableInv, WellFormed, WalkerInv, Reached, InUse, TypeOK, Container
  <2>5. QED
    BY <2>1, <2>2, <2>3, <2>4 DEF IndInv
<1>5. CASE Copy(w)
  <2> USE <1>5 DEF Copy
  <2>1. TypeOK'
    <3>1. area[wcur[w]] \in Container
      BY DEF IndInv, WalkerInv, TypeOK
    <3>2. area[wcur[w]].sub \in Subs \cup {NoSub}
      BY <3>1 DEF Container
    <3>3. QED
      BY <3>2 DEF IndInv, TypeOK
  <2>2. TableInv'
    BY DEF IndInv, TableInv, WellFormed, UnusedHasNoOwner, UndefinedOnlyWhenFull,
           InUse, TypeOK
  <2>3. ASSUME NEW d \in Conns PROVE ConnInv(d)'
    BY DEF IndInv, ConnInv, AddInv, RemoveInv, HeldInUse, Reached, InUse
  <2>4. ASSUME NEW v \in Walkers PROVE WalkerInv(v)'
    <3>1. area[wcur[w]] \in Container /\ area[wcur[w]].sub \in Subs
      BY DEF IndInv, WalkerInv, TableInv, WellFormed, TypeOK, Container
    <3>2. QED
      BY <3>1 DEF IndInv, WalkerInv, Reached, InUse, TypeOK
  <2>5. QED
    BY <2>1, <2>2, <2>3, <2>4 DEF IndInv
<1>6. CASE Send(w)
  <2> USE <1>6 DEF Send
  <2>1. TypeOK'
    BY DEF IndInv, ConnInv, AddInv, RemoveInv, TypeOK, Container, ConnPC, InUse
  <2>2. TableInv'
    BY DEF IndInv, TableInv, WellFormed, UnusedHasNoOwner, UndefinedOnlyWhenFull,
           InUse, TypeOK
  <2>3. ASSUME NEW d \in Conns PROVE ConnInv(d)'
    BY DEF IndInv, ConnInv, AddInv, RemoveInv, HeldInUse, Reached, InUse
  <2>4. ASSUME NEW v \in Walkers PROVE WalkerInv(v)'
    BY DEF IndInv, TableInv, WellFormed, WalkerInv, Reached, InUse, TypeOK, Container
  <2>5. QED
    BY <2>1, <2>2, <2>3, <2>4 DEF IndInv
<1>7. CASE Follow(w)
  <2> USE <1>7 DEF Follow
  <2>a. wcur[w] \in Index /\ InUse(wcur[w])
    BY DEF IndInv, WalkerInv
  <2>b. area[wcur[w]].fwd = wcur[w] + 1 /\ Reached(wcur[w] + 1)
    BY <2>a, FollowFwd DEF IndInv, TableInv
  <2>1. TypeOK'
    BY <2>a, <2>b DEF IndInv, TypeOK
  <2>2. TableInv'
    BY DEF IndInv, TableInv, WellFormed, UnusedHasNoOwner, UndefinedOnlyWhenFull,
           InUse, TypeOK
  <2>3. ASSUME NEW d \in Conns PROVE ConnInv(d)'
    BY DEF IndInv, ConnInv, AddInv, RemoveInv, HeldInUse, Reached, InUse
  <2>4. ASSUME NEW v \in Walkers PROVE WalkerInv(v)'
    BY <2>a, <2>b DEF IndInv, WalkerInv, Reached, InUse, TypeOK
  <2>5. QED
    BY <2>1, <2>2, <2>3, <2>4 DEF IndInv
<1>8. CASE PassEnd(w)
  <2> USE <1>8 DEF PassEnd
  <2>1. TypeOK'
    BY DEF IndInv, ConnInv, AddInv, RemoveInv, TypeOK, Container, ConnPC, InUse
  <2>2. TableInv'
    BY DEF IndInv, TableInv, WellFormed, UnusedHasNoOwner, UndefinedOnlyWhenFull,
           InUse, TypeOK
  <2>3. ASSUME NEW d \in Conns PROVE ConnInv(d)'
    BY DEF IndInv, ConnInv, AddInv, RemoveInv, HeldInUse, Reached, InUse
  <2>4. ASSUME NEW v \in Walkers PROVE WalkerInv(v)'
    BY DEF IndInv, TableInv, WellFormed, WalkerInv, Reached, InUse, TypeOK, Container
  <2>5. QED
    BY <2>1, <2>2, <2>3, <2>4 DEF IndInv
<1>9. CASE PassCut(w)
  <2> USE <1>9 DEF PassCut
  <2>1. TypeOK'
    BY DEF IndInv, ConnInv, AddInv, RemoveInv, TypeOK, Container, ConnPC, InUse
  <2>2. TableInv'
    BY DEF IndInv, TableInv, WellFormed, UnusedHasNoOwner, UndefinedOnlyWhenFull,
           InUse, TypeOK
  <2>3. ASSUME NEW d \in Conns PROVE ConnInv(d)'
    BY DEF IndInv, ConnInv, AddInv, RemoveInv, HeldInUse, Reached, InUse
  <2>4. ASSUME NEW v \in Walkers PROVE WalkerInv(v)'
    BY DEF IndInv, TableInv, WellFormed, WalkerInv, Reached, InUse, TypeOK, Container
  <2>5. QED
    BY <2>1, <2>2, <2>3, <2>4 DEF IndInv
<1>10. CASE WalkerOut(w)
  <2>1. LeaveHeap /\ wcur[w] \in Nat /\ wcur[w] >= InitSlots /\ Reached(wcur[w])
    BY <1>10 DEF WalkerOut, IndInv, WalkerInv, TypeOK
  <2>2. QED
    BY <2>1, LeaveKeepsInv
<1>11. QED
  BY <1>1, <1>2, <1>3, <1>4, <1>5, <1>6, <1>7, <1>8, <1>9, <1>10 DEF WalkerStep

(* The last step of a connection's thread.                                 *)
LEMMA ClearOpenKeepsInv ==
    ASSUME IndInv, NEW w \in Walkers, ClearOpen(w)
    PROVE  IndInv'
<1> USE DEF Index, NULL, connVars, walkVars, heapVars, Goto, Return, InBlock, Adding, Growing, Removing, WalkerPC, ClearOpen
<1>1. TypeOK'
  BY DEF IndInv, TypeOK
<1>2. TableInv'
  BY DEF IndInv, TableInv, WellFormed, UnusedHasNoOwner, UndefinedOnlyWhenFull, InUse,
         TypeOK
<1>3. ASSUME NEW d \in Conns PROVE ConnInv(d)'
  BY DEF IndInv, TableInv, WellFormed, UnusedHasNoOwner, ConnInv, AddInv, RemoveInv,
           HeldInUse, Reached, InUse, TypeOK, Container
<1>4. ASSUME NEW v \in Walkers PROVE WalkerInv(v)'
  BY DEF IndInv, TableInv, WellFormed, WalkerInv, Reached, InUse, TypeOK, Container
<1>5. QED
  BY <1>1, <1>2, <1>3, <1>4 DEF IndInv

(* The invariant of the table, for any number of threads.                  *)
THEOREM Invariance == Spec => []IndInv
<1>1. Init => IndInv
  BY InitInv
<1>2. IndInv /\ [Next]_vars => IndInv'
  <2> SUFFICES ASSUME IndInv, [Next]_vars PROVE IndInv'
    OBVIOUS
  <2>1. ASSUME NEW c \in Conns, ConnStep(c) PROVE IndInv'
    BY <2>1, AddKeepsInv, GrowKeepsInv, RemoveKeepsInv, DropKeepsInv, OutKeepsInv
    DEF ConnStep
  <2>2. ASSUME NEW c \in Conns, Command(c) PROVE IndInv'
    BY <2>2, CommandKeepsInv
  <2>3. ASSUME NEW w \in Walkers, WalkerStep(w) PROVE IndInv'
    BY <2>3, WalkerKeepsInv
  <2>4. ASSUME NEW w \in Walkers, ClearOpen(w) PROVE IndInv'
    BY <2>4, ClearOpenKeepsInv
  <2>5. CASE UNCHANGED vars
    BY <2>5 DEF vars, connVars, walkVars, heapVars, IndInv, TypeOK, TableInv,
           WellFormed,
           UnusedHasNoOwner, UndefinedOnlyWhenFull, ConnInv, AddInv, RemoveInv,
           HeldInUse, WalkerInv, Reached, InUse, Adding, Growing, Removing
  <2>6. QED
    BY <2>1, <2>2, <2>3, <2>4, <2>5 DEF Next
<1>3. QED
  BY <1>1, <1>2, PTL DEF Spec

(* Every variable keeps its type: however many threads grow the area at    *)
(* once, and whichever updates of memory_sub_size are lost, neither it nor *)
(* the block falls below the first allocation.                             *)
THEOREM TypeCorrect == Spec => []TypeOK
<1>1. IndInv => TypeOK
  BY DEF IndInv
<1>2. QED
  BY <1>1, Invariance, PTL

(* Whatever the interleaving of any number of clients and channels, the    *)
(* table stays a prefix of whole, linked containers whose ids are their    *)
(* indexes.                                                                *)
THEOREM TableIsWellFormed == Spec => []WellFormed
<1>1. IndInv => WellFormed
  BY DEF IndInv, TableInv
<1>2. QED
  BY <1>1, Invariance, PTL

(* No thread leaves the table's memory before the containers of the first  *)
(* allocation are all in use.                                              *)
THEOREM MemorySafeUntilFull == Spec => []UndefinedOnlyWhenFull
<1>1. IndInv => UndefinedOnlyWhenFull
  BY DEF IndInv, TableInv
<1>2. QED
  BY <1>1, Invariance, PTL
=============================================================================
