---------------------------- MODULE RegistryProofs ----------------------------
(***************************************************************************)
(* Proofs about MemorySubs where clients come one after another: the table *)
(* grows no larger than what one client may hold, and it implements the    *)
(* registry of module SubRegistry.                                         *)
(***************************************************************************)
EXTENDS SerialProofs, FiniteSetTheorems

(* The ids a client holds are containers, and no more than the table has.  *)
LEMMA HeldIsFinite ==
    ASSUME IndInv, NEW c \in Conns
    PROVE  IsFiniteSet(held[c]) /\ Cardinality(held[c]) \in Nat
<1>1. held[c] \subseteq 0 .. MaxSlots - 1
  BY DEF IndInv, ConnInv, HeldInUse, Index
<1>2. IsFiniteSet(0 .. MaxSlots - 1)
  BY SlotsAssumption, FS_Interval
<1>3. QED
  BY <1>1, <1>2, FS_Subset, FS_CardinalityType

(* A client that holds the containers 0 .. n - 1 holds at least n.         *)
LEMMA HeldAtLeast ==
    ASSUME NEW S, IsFiniteSet(S), NEW n \in Nat, 0 .. n - 1 \subseteq S
    PROVE  n <= Cardinality(S)
<1>1. IsFiniteSet(0 .. n - 1) /\ Cardinality(0 .. n - 1) = n
  BY FS_Interval
<1>2. QED
  BY <1>1, FS_Subset, FS_CardinalityType

(* add_memory_sub.                                                         *)
LEMMA AddKeepsBound ==
    ASSUME IndInv, IndInv', NEW c \in Conns, SerialInv(c), OnlyFor(c), BoundInv(c),
           InUseBound, AddStep(c)
    PROVE  BoundInv(c)' /\ InUseBound'
<1> USE DEF Index, NULL, connVars, walkVars, heapVars, Goto, Return, InBlock, Adding, Growing
<1>1. CASE Hop(c)
  <2> USE <1>1 DEF Hop
  <2>1. cur[c] \in Index /\ area[cur[c]] \in Container
    BY SlotsAssumption DEF IndInv, TypeOK
  <2>2. InUse(cur[c]) /\ area[cur[c]].free = 0
    BY <2>1 DEF Claimable, InUse, Container
  <2>3. cur[c] \in held[c]
    BY <2>1, <2>2 DEF OnlyFor, LiveFor, Accounts
  <2>4. cur'[c] = cur[c] + 1
    BY <2>1, <2>2 DEF IndInv, TypeOK, TableInv, WellFormed
  <2>5. 0 .. cur'[c] - 1 \subseteq held[c]
    BY <2>1, <2>3, <2>4 DEF BoundInv
  <2>6. QED
    BY <2>5 DEF BoundInv, InUseBound, InUse
<1>2. CASE Claim(c)
  BY <1>2 DEF Claim, BoundInv, InUseBound, InUse, IndInv, TypeOK
<1>3. CASE HasRoom(c)
  BY <1>3 DEF HasRoom, BoundInv, InUseBound, InUse, IndInv, TypeOK
<1>4. CASE WriteHead(c)
  <2> USE <1>4 DEF WriteHead
  <2>1. cur[c] \in Index /\ area[cur[c]] \in Container
    BY DEF IndInv, TypeOK, ConnInv, AddInv
  <2>2. \A i \in Index : area'[i].fwd = area[i].fwd
    BY <2>1 DEF HeadOf, IndInv, TypeOK, Container
  <2>3. QED
    BY <2>1, <2>2 DEF BoundInv, InUseBound, InUse, IndInv, TypeOK
<1>5. CASE WriteTail(c)
  <2> USE <1>5 DEF WriteTail
  <2>1. cur[c] \in Index
    BY DEF IndInv, TypeOK, ConnInv, AddInv
  <2>2. cur[c] < MaxHeld
    <3>1. CASE InUse(cur[c])
      BY <2>1, <3>1 DEF InUseBound
    <3>2. CASE ~ InUse(cur[c])
      <4>1. 0 .. cur[c] - 1 \subseteq held[c] /\ Cardinality(held[c]) < MaxHeld
        BY <3>2 DEF BoundInv
      <4>2. cur[c] <= Cardinality(held[c]) /\ Cardinality(held[c]) \in Nat
        BY <2>1, <4>1, HeldIsFinite, HeldAtLeast
      <4>3. QED
        BY <2>1, <4>1, <4>2, HeldAssumption
    <3>3. QED
      BY <3>1, <3>2
  <2>3. \A i \in Index : i # cur[c] => area'[i] = area[i]
    BY DEF IndInv, TypeOK
  <2>4. \A i \in Index : InUse(i)' => i < MaxHeld
    BY <2>2, <2>3 DEF InUseBound, InUse
  <2>5. QED
    BY <2>4 DEF BoundInv, InUseBound, IndInv, TypeOK
<1>6. QED
  BY <1>1, <1>2, <1>3, <1>4, <1>5 DEF AddStep

(* Growing the area takes no step through the list.                        *)
LEMMA GrowKeepsBound ==
    ASSUME IndInv, NEW c \in Conns, BoundInv(c), InUseBound, GrowStep(c), ~ LeaveHeap
    PROVE  BoundInv(c)' /\ InUseBound'
<1> USE DEF Goto, connVars, IndInv, TypeOK, Growing
<1>1. /\ area' = area /\ cur' = cur /\ held' = held
      /\ pc[c] \in {"walk"} \cup Growing
      /\ pc'[c] \in {"look"} \cup Growing
  BY DEF GrowStep, NoRoom, GrowRead, GrowWrite, GrowFlag, GrowInPlace, GrowElse, Fix, FixOut,
         Unflag
<1>2. QED
  BY <1>1 DEF BoundInv, InUseBound, InUse, Adding

(* What the client asks for.                                               *)
LEMMA CommandKeepsBound ==
    ASSUME IndInv, NEW c \in Conns, BoundInv(c), InUseBound, Command(c)
    PROVE  BoundInv(c)' /\ InUseBound'
<1> USE DEF Index, NULL, connVars, walkVars, heapVars, Goto, Adding, Growing
<1>1. CASE Accept(c)
  BY <1>1 DEF Accept, BoundInv, InUseBound, InUse, IndInv, TypeOK
<1>2. CASE Disconnect(c)
  BY <1>2 DEF Disconnect, GiveUp, BoundInv, InUseBound, InUse, IndInv, TypeOK
<1>3. ASSUME NEW s \in Subs, SubMem(c, s) PROVE BoundInv(c)' /\ InUseBound'
  <2>1. cur[c] = 0
    BY <1>3 DEF SubMem, IndInv, ConnInv, RemoveInv
  <2>2. 0 .. cur[c] - 1 \subseteq held[c]
    BY <2>1
  <2>3. QED
    BY <1>3, <2>2 DEF SubMem, BoundInv, InUseBound, InUse, IndInv, TypeOK
<1>4. ASSUME NEW i \in held[c], FreeSub(c, i) PROVE BoundInv(c)' /\ InUseBound'
  BY <1>4 DEF FreeSub, GiveUp, BoundInv, InUseBound, InUse, IndInv, TypeOK
<1>5. ASSUME NEW w \in Walkers, OpenAsync(c, w) PROVE BoundInv(c)' /\ InUseBound'
  BY <1>5 DEF OpenAsync, BoundInv, InUseBound, InUse
<1>6. QED
  BY <1>1, <1>2, <1>3, <1>4, <1>5 DEF Command

(* remove_memory_sub: no container comes into use.                         *)
LEMMA RemoveKeepsBound ==
    ASSUME IndInv, NEW c \in Conns, BoundInv(c), InUseBound, RemoveStep(c)
    PROVE  BoundInv(c)' /\ InUseBound'
<1> USE DEF Index, NULL, connVars, walkVars, heapVars, Goto, Adding, Growing
<1>1. CASE RemoveRead(c)
  BY <1>1 DEF RemoveRead, BoundInv, InUseBound, InUse, IndInv, TypeOK
<1>2. CASE RemoveHead(c)
  <2> USE <1>2 DEF RemoveHead
  <2>1. id[c] \in Index /\ area[id[c]] \in Container
    BY DEF IndInv, TypeOK, ConnInv, RemoveInv, Removing
  <2>2. \A i \in Index : area'[i].fwd = area[i].fwd
    BY <2>1 DEF HeadOf, IndInv, TypeOK, Container
  <2>3. QED
    BY <2>2 DEF BoundInv, InUseBound, InUse, IndInv, TypeOK
<1>3. CASE RemoveTail(c)
  <2> USE <1>3 DEF RemoveTail
  <2>1. id[c] \in Index /\ InUse(id[c])
    BY DEF IndInv, ConnInv, RemoveInv, Removing
  <2>2. \A i \in Index : InUse(i)' => InUse(i)
    BY <2>1 DEF InUse, IndInv, TypeOK
  <2>3. QED
    BY <2>2 DEF BoundInv, InUseBound, IndInv, TypeOK
<1>4. QED
  BY <1>1, <1>2, <1>3 DEF RemoveStep

(* The end of the connection.                                              *)
LEMMA DropKeepsBound ==
    ASSUME IndInv, NEW c \in Conns, BoundInv(c), InUseBound, DropStep(c)
    PROVE  BoundInv(c)' /\ InUseBound'
<1> USE DEF Index, NULL, connVars, walkVars, heapVars, Goto, Return, Adding, Growing
<1>1. CASE DropFree(c)
  BY <1>1 DEF DropFree, BoundInv, InUseBound, InUse
<1>2. CASE DropMatch(c)
  BY <1>2 DEF DropMatch, BoundInv, InUseBound, InUse, IndInv, TypeOK
<1>3. CASE DropOther(c)
  BY <1>3 DEF DropOther, Advance, BoundInv, InUseBound, InUse, IndInv, TypeOK
<1>4. CASE DropNext(c)
  BY <1>4 DEF DropNext, Advance, BoundInv, InUseBound, InUse, IndInv, TypeOK
<1>5. CASE Sclose(c)
  BY <1>5 DEF Sclose, BoundInv, InUseBound, InUse, IndInv, TypeOK
<1>6. QED
  BY <1>1, <1>2, <1>3, <1>4, <1>5 DEF DropStep

(* A step that leaves the table and the connections as they are.           *)
LEMMA UnchangedKeepsBound ==
    ASSUME BoundInvariant, UNCHANGED <<area, connVars>>
    PROVE  BoundInvariant'
BY DEF BoundInvariant, InUseBound, BoundInv, InUse, connVars, Adding, Growing

(* When a thread leaves the heap block, nobody is in add_memory_sub.       *)
LEMMA LeaveHeapKeepsBound ==
    ASSUME BoundInvariant, LeaveHeap
    PROVE  BoundInvariant'
BY DEF BoundInvariant, InUseBound, BoundInv, InUse, LeaveHeap, Adding, Growing

(* A thread that has no connection waits for one.                          *)
LEMMA OnlyCommandOpens ==
    ASSUME NEW c \in Conns, ConnStep(c)
    PROVE  pc[c] # "closed"
BY DEF ConnStep, AddStep, HasRoom, Hop, Claim, WriteHead, WriteTail,
       GrowStep, NoRoom, GrowRead, GrowWrite, GrowFlag, GrowInPlace, GrowElse, Fix, FixOut, Unflag,
       RemoveStep, RemoveRead, RemoveHead, RemoveTail,
       DropStep, DropFree, DropMatch, DropOther, DropNext, Sclose,
       ConnOut, Removing

(* A step of one connection's thread, while no other is open.              *)
LEMMA ClientKeepsBound ==
    ASSUME IndInv, IndInv', SerialInvariant, SerialInvariant', BoundInvariant,
           NEW c \in Conns, ConnStep(c) \/ Command(c), ~ LeaveHeap
    PROVE  BoundInvariant'
<1>1. BoundInv(c) /\ InUseBound /\ SerialInv(c)
  BY DEF BoundInvariant, SerialInvariant
<1>2. BoundInv(c)' /\ InUseBound'
  <2>1. ASSUME ConnStep(c) PROVE OnlyFor(c)
    <3>1. pc[c] # "closed"
      BY <2>1, OnlyCommandOpens
    <3>2. QED
      BY <3>1, StepOfOne, OpenIsAlone
  <2>2. CASE ConnStep(c)
    BY <1>1, <2>1, <2>2, AddKeepsBound, GrowKeepsBound, RemoveKeepsBound, DropKeepsBound
    DEF ConnStep, ConnOut
  <2>3. CASE Command(c)
    BY <1>1, <2>3, CommandKeepsBound
  <2>4. QED
    BY <2>2, <2>3
<1>3. ASSUME NEW d \in Conns \ {c} PROVE BoundInv(d)'
  <2>1. pc'[c] \notin {"closed", "undefined"} => pc'[d] = "closed"
    BY DEF SerialInvariant, OneAtATime
  <2>2. pc'[d] = pc[d]
    BY StepOfOne
  <2>3. pc[c] \notin {"closed", "undefined"} => pc[d] = "closed"
    BY DEF SerialInvariant, OneAtATime
  <2>4. pc[c] = "closed" => pc'[c] = "recv"
    BY StepOfOne DEF Accept, Goto, IndInv, TypeOK
  <2>5. pc'[d] = "closed"
    BY <2>1, <2>2, <2>3, <2>4, StepOfOne
  <2>6. QED
    BY <2>5 DEF BoundInv, Adding, Growing
<1>4. QED
  BY <1>2, <1>3 DEF BoundInvariant

(* Where clients come one after another the containers in use are the      *)
(* first of the table, and no more than the bound on what one client       *)
(* holds, whatever was subscribed and freed before.                        *)
THEOREM SerialBound == SerialSpec => []BoundInvariant
<1>1. Init => BoundInvariant
  BY DEF Init, BoundInvariant, InUseBound, BoundInv, InUse, ZeroContainer, Adding, Growing
<1>2. /\ IndInv /\ IndInv' /\ SerialInvariant /\ SerialInvariant' /\ BoundInvariant
      /\ [Next]_vars
      => BoundInvariant'
  <2> SUFFICES ASSUME IndInv, IndInv', SerialInvariant, SerialInvariant', BoundInvariant,
                      [Next]_vars
               PROVE  BoundInvariant'
    OBVIOUS
  <2>1. CASE LeaveHeap
    BY <2>1, LeaveHeapKeepsBound
  <2>2. ASSUME NEW c \in Conns, ConnStep(c) \/ Command(c), ~ LeaveHeap PROVE BoundInvariant'
    BY <2>2, ClientKeepsBound
  <2>3. ASSUME NEW w \in Walkers, WalkerStep(w) \/ ClearOpen(w), ~ LeaveHeap
        PROVE  BoundInvariant'
    BY <2>3, WalkerLeavesTable, UnchangedKeepsBound
  <2>4. CASE UNCHANGED vars
    BY <2>4, UnchangedKeepsBound DEF vars
  <2>5. QED
    BY <2>1, <2>2, <2>3, <2>4 DEF Next
<1>3. QED
  BY <1>1, <1>2, SerialIsSpec, Invariance, SerialInvariance, PTL DEF Spec

(* Containers are reused: those in use are no more than the subscriptions  *)
(* one client may hold at a time.                                          *)
THEOREM SerialTableBounded == SerialSpec => []TableBounded
<1>1. BoundInvariant => TableBounded
  <2> SUFFICES ASSUME BoundInvariant PROVE TableBounded
    OBVIOUS
  <2> DEFINE used == {i \in Index : InUse(i)}
  <2>1. used \subseteq 0 .. MaxHeld - 1
    BY SlotsAssumption, HeldAssumption DEF Index, BoundInvariant, InUseBound
  <2>2. IsFiniteSet(0 .. MaxHeld - 1) /\ Cardinality(0 .. MaxHeld - 1) = MaxHeld
    BY HeldAssumption, FS_Interval
  <2>3. QED
    BY <2>1, <2>2, FS_Subset DEF TableBounded
<1>2. QED
  BY <1>1, SerialBound, PTL

-----------------------------------------------------------------------------
(* With room in the first allocation for one more than a client may hold,  *)
(* no thread ever leaves the table's memory, and it is never reallocated.  *)
NeverFull == \A c \in Conns : pc[c] \notin {"undefined"} \cup Growing

THEOREM SerialNeverFull ==
    ASSUME MaxHeld < InitSlots
    PROVE  SerialSpec => []NeverFull
<1>1. IndInv /\ BoundInvariant => NeverFull
  <2> SUFFICES ASSUME IndInv, BoundInvariant, NEW c \in Conns
               PROVE  pc[c] \notin {"undefined"} \cup Growing
    BY DEF NeverFull
  <2>1. BoundInv(c) /\ InUseBound
    BY DEF BoundInvariant
  <2>2. ASSUME pc[c] = "undefined" PROVE FALSE
    <3>1. InUse(InitSlots - 1)
      BY <2>2, SlotsAssumption DEF IndInv, TableInv, UndefinedOnlyWhenFull
    <3>2. InitSlots - 1 < MaxHeld
      BY <2>1, <3>1, SlotsAssumption DEF InUseBound, Index
    <3>3. QED
      BY <3>2, SlotsAssumption, HeldAssumption
  <2>3. ASSUME pc[c] \in Growing PROVE FALSE
    <3>1. cur[c] \in Nat /\ cur[c] >= InitSlots
      BY <2>3 DEF IndInv, TypeOK, ConnInv, AddInv
    <3>2. 0 .. cur[c] - 1 \subseteq held[c] /\ Cardinality(held[c]) < MaxHeld
      BY <2>1, <2>3 DEF BoundInv, Adding
    <3>3. cur[c] <= Cardinality(held[c]) /\ Cardinality(held[c]) \in Nat
      BY <3>1, <3>2, HeldIsFinite, HeldAtLeast
    <3>4. QED
      BY <3>1, <3>2, <3>3, SlotsAssumption, HeldAssumption
  <2>4. QED
    BY <2>2, <2>3
<1>2. QED
  BY <1>1, SerialIsSpec, Invariance, SerialBound, PTL

-----------------------------------------------------------------------------
(* What the registry sees of a step: one that writes no container and has  *)
(* nothing to do with the last write of add_memory_sub changes nothing.    *)
LEMMA SameMeaning ==
    ASSUME area' = area,
           \A d \in Conns : "tail" \in {pc[d], pc'[d]} => pc'[d] = pc[d] /\ cur'[d] = cur[d]
    PROVE  Meaning' = Meaning
<1>1. \A i \in Index : Writing(i)' <=> Writing(i)
  BY DEF Writing
<1>2. \A i \in Index : Live(i)' <=> Live(i)
  BY <1>1 DEF Live, InUse
<1>3. QED
  BY <1>2 DEF Meaning

(* A step that opens and closes no connection leaves those that are open   *)
(* as they are.                                                            *)
LEMMA SameOnline ==
    ASSUME \A d \in Conns : pc'[d] = "closed" <=> pc[d] = "closed"
    PROVE  {d \in Conns : pc[d] # "closed"}' = {d \in Conns : pc[d] # "closed"}
OBVIOUS

(* A step that leaves the table, the threads' places and the ids held      *)
(* alone: the registry does not see it.                                    *)
LEMMA Unseen ==
    ASSUME UNCHANGED <<area, pc, cur, held>>
    PROVE  UNCHANGED Registry!vars
BY DEF Registry!vars, Meaning, Live, Writing, InUse

(* What the client asks for: it connects, gives up one id or all of them.  *)
LEMMA CommandRefines ==
    ASSUME IndInv, NEW c \in Conns, Command(c)
    PROVE  [Registry!Next]_(Registry!vars)
<1> USE DEF Goto, connVars, walkVars, heapVars
<1>1. CASE Accept(c)
  <2> USE <1>1 DEF Accept
  <2>1. Meaning' = Meaning
    BY SameMeaning DEF IndInv, TypeOK
  <2>2. {d \in Conns : pc[d] # "closed"}' = {d \in Conns : pc[d] # "closed"} \cup {c}
    BY DEF IndInv, TypeOK
  <2>3. Registry!Connect(c)
    BY <2>1, <2>2 DEF Registry!Connect
  <2>4. QED
    BY <2>3 DEF Registry!Next
<1>2. CASE Disconnect(c)
  <2> USE <1>2 DEF Disconnect, GiveUp
  <2>1. Meaning' = Meaning
    BY SameMeaning DEF IndInv, TypeOK
  <2>2. {d \in Conns : pc[d] # "closed"}' = {d \in Conns : pc[d] # "closed"}
    BY SameOnline DEF IndInv, TypeOK
  <2>3. held' = [held EXCEPT ![c] = @ \ held[c]]
    BY DEF IndInv, TypeOK
  <2>4. Registry!GiveUp(c, held[c])
    BY <2>1, <2>2, <2>3 DEF Registry!GiveUp
  <2>5. QED
    BY <2>4 DEF Registry!Next
<1>3. ASSUME NEW s \in Subs, SubMem(c, s) PROVE UNCHANGED Registry!vars
  <2> USE <1>3 DEF SubMem
  <2>1. Meaning' = Meaning
    BY SameMeaning DEF IndInv, TypeOK
  <2>2. {d \in Conns : pc[d] # "closed"}' = {d \in Conns : pc[d] # "closed"}
    BY SameOnline DEF IndInv, TypeOK
  <2>3. QED
    BY <2>1, <2>2 DEF Registry!vars
<1>4. ASSUME NEW i \in held[c], FreeSub(c, i) PROVE Registry!Next
  <2> USE <1>4 DEF FreeSub, GiveUp
  <2>1. Meaning' = Meaning
    BY SameMeaning DEF IndInv, TypeOK
  <2>2. {d \in Conns : pc[d] # "closed"}' = {d \in Conns : pc[d] # "closed"}
    BY SameOnline DEF IndInv, TypeOK
  <2>3. Registry!GiveUp(c, {i}) /\ {i} \in SUBSET held[c]
    BY <2>1, <2>2 DEF Registry!GiveUp
  <2>4. QED
    BY <2>3 DEF Registry!Next
<1>5. ASSUME NEW w \in Walkers, OpenAsync(c, w) PROVE UNCHANGED Registry!vars
  BY <1>5, Unseen DEF OpenAsync
<1>6. QED
  BY <1>1, <1>2, <1>3, <1>4, <1>5 DEF Command

(* add_memory_sub: a container is not live while it is written; the last   *)
(* write and the answer make it the client's subscription.                 *)
LEMMA AddRefines ==
    ASSUME IndInv, NEW c \in Conns, Alone(c), OnlyFor(c), SerialInv(c),
           AddStep(c)
    PROVE  [Registry!Next]_(Registry!vars)
<1> USE DEF Goto, Return, InBlock, connVars, walkVars, heapVars
<1>1. CASE Hop(c)
  <2> USE <1>1 DEF Hop
  <2>1. Meaning' = Meaning
    BY SameMeaning DEF IndInv, TypeOK
  <2>2. QED
    BY <2>1, SameOnline DEF Registry!vars
<1>2. CASE Claim(c)
  <2> USE <1>2 DEF Claim
  <2>1. Meaning' = Meaning
    BY SameMeaning DEF IndInv, TypeOK
  <2>2. QED
    BY <2>1, SameOnline DEF Registry!vars, IndInv, TypeOK
<1>3. CASE HasRoom(c)
  <2> USE <1>3 DEF HasRoom
  <2>1. Meaning' = Meaning
    BY SameMeaning DEF IndInv, TypeOK
  <2>2. QED
    BY <2>1, SameOnline DEF Registry!vars, IndInv, TypeOK
<1>4. CASE WriteHead(c)
  <2> USE <1>4 DEF WriteHead
  <2>1. cur[c] \in Index /\ area[cur[c]] \in Container
    BY DEF IndInv, TypeOK, ConnInv, AddInv
  <2>2. \A i \in Index : i # cur[c] => area'[i] = area[i]
    BY DEF IndInv, TypeOK
  <2>3. ~ Live(cur[c])
    <3>1. CASE InUse(cur[c])
      BY <2>1, <3>1 DEF SerialInv, OnlyFor, LiveFor, Accounts, Live
    <3>2. CASE ~ InUse(cur[c])
      BY <3>2 DEF Live
    <3>3. QED
      BY <3>1, <3>2
  <2>4. pc'[c] = "tail" /\ cur' = cur /\ (\A d \in Conns \ {c} : pc'[d] = pc[d])
    BY DEF IndInv, TypeOK
  <2>5. Writing(cur[c])' /\ ~ Live(cur[c])'
    BY <2>4 DEF Writing, Live
  <2>6. \A i \in Index : i # cur[c] => (Writing(i)' <=> Writing(i))
    BY <2>4 DEF Writing
  <2>7. \A i \in Index : i # cur[c] => (Live(i)' <=> Live(i))
    BY <2>2, <2>6 DEF Live, InUse
  <2>8. Meaning' = Meaning
    BY <2>2, <2>3, <2>5, <2>7 DEF Meaning
  <2>9. QED
    BY <2>4, <2>8, SameOnline DEF Registry!vars
<1>5. CASE WriteTail(c)
  <2> USE <1>5 DEF WriteTail
  <2>0. PICK n : n = cur[c]
    OBVIOUS
  <2> DEFINE e == [owner |-> c, sub |-> area[n].sub]
  <2>1. n \in Index /\ id[c] = n /\ area[n] \in Container /\ area[n].sub \in Subs
    BY <2>0 DEF IndInv, TypeOK, ConnInv, AddInv, Adding
  <2>2. \A i \in Index : i # n => area'[i] = area[i]
    BY <2>0 DEF IndInv, TypeOK
  <2>3. /\ area'[n].fd = c /\ area'[n].fwd = n + 1 /\ area'[n].free = 0
        /\ area'[n].sub = area[n].sub
    BY <2>0, <2>1 DEF TailOf, IndInv, TypeOK, Container, SerialInv
  <2>4. pc'[c] = "recv" /\ (\A d \in Conns \ {c} : pc[d] = "closed" /\ pc'[d] = "closed")
    BY DEF Alone, IndInv, TypeOK
  <2>5. (\A i \in Index : ~ Writing(i)') /\ (\A i \in Index : Writing(i) <=> i = n)
    BY <2>0, <2>4 DEF Writing
  <2>6. ~ Live(n) /\ Live(n)'
    <3>1. n + 1 # 0
      BY <2>1 DEF Index
    <3>2. Writing(n) /\ ~ Writing(n)'
      BY <2>1, <2>5
    <3>3. QED
      BY <2>3, <3>1, <3>2 DEF Live, InUse, NULL
  <2>7. \A i \in Index : i # n => (Live(i)' <=> Live(i))
    BY <2>2, <2>5 DEF Live, InUse
  <2>8. Meaning[n] = NothingHere /\ Meaning'[n] = e
    <3>1. Meaning'[n] = [owner |-> area'[n].fd, sub |-> area'[n].sub]
      BY <2>1, <2>6 DEF Meaning
    <3>2. QED
      BY <2>1, <2>3, <2>6, <3>1 DEF Meaning
  <2>9. Meaning' = [Meaning EXCEPT ![n] = e]
    BY <2>2, <2>7, <2>8 DEF Meaning
  <2>10. c \in {d \in Conns : pc[d] # "closed"}
    OBVIOUS
  <2>11. {d \in Conns : pc[d] # "closed"}' = {d \in Conns : pc[d] # "closed"}
    BY <2>4, SameOnline
  <2>12. Registry!Subscribe(c, area[n].sub, n)
    BY <2>1, <2>8, <2>9, <2>10, <2>11 DEF Registry!Subscribe
  <2>13. QED
    BY <2>1, <2>12 DEF Registry!Next
<1>6. QED
  BY <1>1, <1>2, <1>3, <1>4, <1>5 DEF AddStep

(* remove_memory_sub: the subscription ends with the write of free; the    *)
(* read before it and the write of the tail change nothing.                *)
LEMMA RemoveRefines ==
    ASSUME IndInv, NEW c \in Conns, Alone(c), OnlyFor(c), SerialInv(c), RemoveStep(c)
    PROVE  [Registry!Next]_(Registry!vars)
<1> USE DEF Goto, connVars, walkVars, heapVars
<1>1. CASE RemoveRead(c)
  <2> USE <1>1 DEF RemoveRead
  <2>1. Meaning' = Meaning
    BY SameMeaning DEF IndInv, TypeOK
  <2>2. QED
    BY <2>1, SameOnline DEF Registry!vars, IndInv, TypeOK
<1>2. CASE RemoveHead(c)
  <2> USE <1>2 DEF RemoveHead
  <2> DEFINE n == id[c]
  <2>1. /\ n \in Index /\ InUse(n) /\ area[n] \in Container
        /\ copy[c].free = 1 /\ area[n].fd = c
    BY DEF IndInv, TypeOK, ConnInv, RemoveInv, SerialInv, Removing
  <2>2. n \notin held[c]
    BY DEF SerialInv, Dropping
  <2>3. \A i \in Index : i # n => area'[i] = area[i]
    BY DEF IndInv, TypeOK
  <2>4. area'[n].free = 1
    BY <2>1 DEF HeadOf, IndInv, TypeOK, Container
  <2>5. \A i \in Index : ~ Writing(i) /\ ~ Writing(i)'
    BY DEF Alone, Writing, IndInv, TypeOK
  <2>6. ~ Live(n)' /\ (\A i \in Index : i # n => (Live(i)' <=> Live(i)))
    BY <2>3, <2>4, <2>5 DEF Live, InUse
  <2>7. {d \in Conns : pc[d] # "closed"}' = {d \in Conns : pc[d] # "closed"}
    BY SameOnline DEF IndInv, TypeOK
  <2>8. CASE Live(n)
    <3>1. Meaning' = [Meaning EXCEPT ![n] = NothingHere]
      BY <2>3, <2>6 DEF Meaning
    <3>2. Meaning[n] = [owner |-> c, sub |-> area[n].sub]
      BY <2>1, <2>8 DEF Meaning
    <3>3. Meaning[n] # NothingHere /\ Meaning[n].owner = c
      BY <3>2 DEF NothingHere
    <3>4. Registry!Retire(c, n)
      BY <2>1, <2>2, <2>7, <3>1, <3>3 DEF Registry!Retire, Registry!OwnedBy
    <3>5. QED
      BY <2>1, <3>4 DEF Registry!Next
  <2>9. CASE ~ Live(n)
    <3>1. Meaning' = Meaning
      BY <2>3, <2>6, <2>9 DEF Meaning
    <3>2. QED
      BY <2>7, <3>1 DEF Registry!vars
  <2>10. QED
    BY <2>8, <2>9
<1>3. CASE RemoveTail(c)
  <2> USE <1>3 DEF RemoveTail
  <2>1. area' = area
    BY TailRewritten
  <2>2. Meaning' = Meaning
    BY <2>1, SameMeaning DEF IndInv, TypeOK
  <2>3. QED
    BY <2>2, SameOnline DEF Registry!vars, IndInv, TypeOK
<1>4. QED
  BY <1>1, <1>2, <1>3 DEF RemoveStep

(* The end of the connection: when the walk is over nothing is owned by    *)
(* it any more, and it leaves.                                             *)
LEMMA DropRefines ==
    ASSUME IndInv, NEW c \in Conns, OnlyFor(c), SerialInv(c), NeverFull', DropStep(c)
    PROVE  [Registry!Next]_(Registry!vars)
<1> USE DEF Goto, Return, connVars, walkVars, heapVars
<1>1. CASE DropFree(c) \/ DropMatch(c) \/ DropOther(c) \/ DropNext(c)
  <2>1. /\ area' = area /\ held' = held
        /\ pc[c] \in Dropping /\ pc'[c] \in Dropping \cup {"sclose"}
        /\ \A d \in Conns \ {c} : pc'[d] = pc[d] /\ cur'[d] = cur[d]
    BY <1>1 DEF DropFree, DropMatch, DropOther, DropNext, Advance, Dropping, IndInv, TypeOK
  <2>2. Meaning' = Meaning
    BY <2>1, SameMeaning DEF Dropping
  <2>3. QED
    BY <2>1, <2>2, SameOnline DEF Registry!vars, Dropping
<1>2. CASE Sclose(c)
  <2> USE <1>2 DEF Sclose
  <2>1. Meaning' = Meaning
    BY SameMeaning DEF IndInv, TypeOK
  <2>2. \A i \in Index : ~ Live(i)
    BY DEF SerialInv, OnlyFor, LiveFor, Accounts, Live
  <2>3. Registry!OwnedBy(c) = {}
    BY <2>2 DEF Registry!OwnedBy, Meaning
  <2>4. {d \in Conns : pc[d] # "closed"}' = {d \in Conns : pc[d] # "closed"} \ {c}
    BY DEF IndInv, TypeOK
  <2>5. Registry!Leave(c)
    BY <2>1, <2>3, <2>4 DEF Registry!Leave
  <2>6. QED
    BY <2>5 DEF Registry!Next
<1>3. QED
  BY <1>1, <1>2 DEF DropStep

(* The registry does not see the data channels.                            *)
LEMMA WalkerRefines ==
    ASSUME NEW w \in Walkers, WalkerStep(w) \/ ClearOpen(w), ~ LeaveHeap
    PROVE  UNCHANGED Registry!vars
BY WalkerLeavesTable, Unseen DEF connVars

(* Where clients come one after another, and the first allocation has room *)
(* for one subscription more than a client may hold, the table implements  *)
(* the registry: an id names the client's subscription from the answer to  *)
(* CLT_CMD_SUB_MEM until the client gives it up, and a connection that has *)
(* ended leaves nothing behind.  (With a full table a data channel leaves  *)
(* the block, and nothing is promised.)                                    *)
THEOREM SerialImplementsRegistry ==
    ASSUME MaxHeld < InitSlots
    PROVE  SerialSpec => ImplementsRegistry
<1>1. Init => Registry!Init
  <2> SUFFICES ASSUME Init PROVE Registry!Init
    OBVIOUS
  <2>1. \A i \in Index : ~ Live(i)
    BY DEF Init, ZeroContainer, NULL, Live, InUse
  <2>2. QED
    BY <2>1 DEF Init, Registry!Init, Meaning
<1>2. IndInv /\ SerialInvariant /\ NeverFull /\ NeverFull' /\ [Next]_vars
      => [Registry!Next]_(Registry!vars)
  <2> SUFFICES ASSUME IndInv, SerialInvariant, NeverFull, NeverFull', [Next]_vars
               PROVE  [Registry!Next]_(Registry!vars)
    OBVIOUS
  <2>1. ASSUME NEW c \in Conns, ConnStep(c) PROVE [Registry!Next]_(Registry!vars)
    <3>1. ~ LeaveHeap
      BY DEF LeaveHeap, NeverFull
    <3>2. pc[c] # "closed"
      BY <2>1, OnlyCommandOpens
    <3>3. Alone(c) /\ OnlyFor(c) /\ SerialInv(c)
      BY <2>1, <3>1, <3>2, StepOfOne, OpenIsAlone
    <3>4. QED
      <4>1. ~ GrowStep(c)
        BY DEF GrowStep, NoRoom, GrowRead, GrowWrite, GrowFlag, GrowInPlace, GrowElse, Fix,
               FixOut, Unflag, Goto, NeverFull, Growing, IndInv, TypeOK
      <4>2. QED
        BY <2>1, <3>1, <3>3, <4>1, AddRefines, RemoveRefines, DropRefines DEF ConnStep, ConnOut
  <2>2. ASSUME NEW c \in Conns, Command(c) PROVE [Registry!Next]_(Registry!vars)
    BY <2>2, CommandRefines
  <2>3. ASSUME NEW w \in Walkers, WalkerStep(w) \/ ClearOpen(w)
        PROVE  [Registry!Next]_(Registry!vars)
    <3>1. CASE LeaveHeap
      <4>1. Conns = {}
        BY <3>1 DEF LeaveHeap, NeverFull
      <4>2. UNCHANGED Registry!vars
        BY <3>1, <4>1 DEF LeaveHeap, Registry!vars, Meaning, Live, Writing, InUse
      <4>3. QED
        BY <4>2
    <3>2. CASE ~ LeaveHeap
      BY <2>3, <3>2, WalkerRefines
    <3>3. QED
      BY <3>1, <3>2
  <2>4. CASE UNCHANGED vars
    BY <2>4, Unseen DEF vars, connVars
  <2>5. QED
    BY <2>1, <2>2, <2>3, <2>4 DEF Next
<1>3. QED
  BY <1>1, <1>2, SerialIsSpec, Invariance, SerialInvariance, SerialNeverFull, PTL
  DEF Spec, ImplementsRegistry, Registry!Spec
=============================================================================
