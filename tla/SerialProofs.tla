----------------------------- MODULE SerialProofs -----------------------------
(***************************************************************************)
(* Proofs about MemorySubs where clients come one after another, on any    *)
(* descriptors, for any number of data channels, subscriptions and         *)
(* containers.                                                             *)
(***************************************************************************)
EXTENDS MemorySubsProofs

(* The live containers are those of the connection on c.                   *)
OnlyFor(c) ==
    \A i \in Index : InUse(i) /\ area[i].free = 0 => LiveFor(c, i)

(* No other connection is open.                                            *)
Alone(c) ==
    \A d \in Conns \ {c} : pc[d] = "closed" /\ held[d] = {}

(* Clients that come one after another are clients.                        *)
LEMMA SerialIsSpec == SerialSpec => Spec
<1>1. [Next /\ OneAtATime']_vars => [Next]_vars
  OBVIOUS
<1>2. QED
  BY <1>1, PTL DEF SerialSpec, Spec

(* While a connection is open it is alone, and every live container is     *)
(* its.                                                                    *)
LEMMA OpenIsAlone ==
    ASSUME IndInv, SerialInvariant, NEW c \in Conns, pc[c] \notin {"closed", "undefined"}
    PROVE  Alone(c) /\ OnlyFor(c) /\ SerialInv(c)
<1>1. \A d \in Conns \ {c} : pc[d] = "closed"
  BY DEF SerialInvariant, OneAtATime
<1>2. Alone(c)
  BY <1>1 DEF Alone, SerialInvariant, SerialInv
<1>3. OnlyFor(c)
  BY <1>2 DEF Alone, OnlyFor, SerialInvariant, LiveAccounted, LiveFor, Accounts
<1>4. QED
  BY <1>2, <1>3 DEF SerialInvariant

(* While none is, no container is live.                                    *)
LEMMA NoneOpen ==
    ASSUME SerialInvariant, \A d \in Conns : pc[d] = "closed", NEW i \in Index
    PROVE  ~ (InUse(i) /\ area[i].free = 0)
BY DEF SerialInvariant, LiveAccounted, LiveFor, Accounts, SerialInv, Removing

(* What the client asks for.                                               *)
LEMMA CommandKeepsSerial ==
    ASSUME IndInv, IndInv', NEW c \in Conns, SerialInv(c), OnlyFor(c), ~ Accept(c), Command(c)
    PROVE  SerialInv(c)' /\ OnlyFor(c)'
<1> USE ConnsAssumption DEF Index, NULL, connVars, walkVars, heapVars, Goto, Return, InBlock,
        Dropping, OnlyFor, LiveFor, Accounts, Removing
<1>1. CASE Disconnect(c)
  BY <1>1 DEF Disconnect, GiveUp, SerialInv, InUse, IndInv, TypeOK, ConnInv, RemoveInv
<1>2. ASSUME NEW s \in Subs, SubMem(c, s) PROVE SerialInv(c)' /\ OnlyFor(c)'
  <2>1. pc[c] = "recv" /\ pc'[c] = "walk" /\ UNCHANGED <<area, cur, id, copy, held>>
    BY <1>2 DEF SubMem, IndInv, TypeOK
  <2>2. OnlyFor(c)'
    BY <2>1 DEF InUse
  <2>3. SerialInv(c)'
    BY <2>1 DEF SerialInv
  <2>4. QED
    BY <2>2, <2>3
<1>3. ASSUME NEW i \in held[c], FreeSub(c, i) PROVE SerialInv(c)' /\ OnlyFor(c)'
  BY <1>3 DEF FreeSub, GiveUp, SerialInv, InUse, IndInv, TypeOK
<1>4. ASSUME NEW w \in Walkers, OpenAsync(c, w) PROVE SerialInv(c)' /\ OnlyFor(c)'
  BY <1>4 DEF OpenAsync, SerialInv, InUse, IndInv, TypeOK
<1>5. QED
  BY <1>1, <1>2, <1>3, <1>4 DEF Command

(* add_memory_sub.                                                         *)
LEMMA AddKeepsSerial ==
    ASSUME IndInv, IndInv', NEW c \in Conns, SerialInv(c), OnlyFor(c), AddStep(c)
    PROVE  SerialInv(c)' /\ OnlyFor(c)'
<1> USE ConnsAssumption DEF Index, NULL, connVars, walkVars, heapVars, Goto, Return, InBlock,
        Dropping, OnlyFor, LiveFor, Accounts, Removing
<1>1. CASE Hop(c)
  BY <1>1 DEF Hop, SerialInv, InUse, IndInv, TypeOK
<1>2. CASE Claim(c)
  <2>1. pc[c] = "look" /\ pc'[c] = "head" /\ UNCHANGED <<area, cur, id, copy, held>>
    BY <1>2 DEF Claim, IndInv, TypeOK
  <2>2. OnlyFor(c)'
    BY <2>1 DEF InUse
  <2>3. cur[c] \notin held[c]
    BY <1>2 DEF Claim, Claimable, SerialInv, InUse, IndInv, ConnInv, HeldInUse
  <2>4. SerialInv(c)'
    BY <2>1, <2>3 DEF SerialInv
  <2>5. QED
    BY <2>2, <2>4
<1>3. CASE HasRoom(c)
  BY <1>3 DEF HasRoom, SerialInv, InUse, IndInv, TypeOK
<1>4. CASE WriteHead(c)
  <2> USE <1>4 DEF WriteHead
  <2>1. cur[c] \in Index /\ cur[c] \notin held[c] /\ area[cur[c]] \in Container
    BY DEF IndInv, TypeOK, ConnInv, AddInv, SerialInv
  <2>2. /\ \A i \in Index : i # cur[c] => area'[i] = area[i]
        /\ area'[cur[c]].free = 0
    BY <2>1 DEF HeadOf, IndInv, TypeOK, Container
  <2>3. pc'[c] = "tail"
    BY DEF IndInv, TypeOK
  <2>4. OnlyFor(c)'
    BY <2>1, <2>2, <2>3 DEF InUse
  <2>5. \A i \in held[c] : area'[i].free = 0 /\ area'[i].fd = c
    BY <2>1, <2>2 DEF SerialInv, IndInv, ConnInv, HeldInUse
  <2>6. QED
    BY <2>1, <2>2, <2>3, <2>4, <2>5 DEF SerialInv
<1>5. CASE WriteTail(c)
  <2> USE <1>5 DEF WriteTail
  <2>1. cur[c] \in Index /\ id[c] = cur[c] /\ area[cur[c]] \in Container
    BY DEF IndInv, TypeOK, ConnInv, AddInv, Adding
  <2>2. /\ \A i \in Index : i # cur[c] => area'[i] = area[i]
        /\ area'[cur[c]].fd = c /\ area'[cur[c]].free = 0
    BY <2>1 DEF TailOf, IndInv, TypeOK, Container, SerialInv
  <2>3. pc'[c] = "recv" /\ held'[c] = held[c] \cup {cur[c]}
    BY <2>1 DEF IndInv, TypeOK
  <2>4. OnlyFor(c)'
    BY <2>1, <2>2, <2>3 DEF InUse
  <2>5. \A i \in held'[c] : area'[i].free = 0 /\ area'[i].fd = c
    BY <2>1, <2>2, <2>3 DEF SerialInv, IndInv, ConnInv, HeldInUse
  <2>6. QED
    BY <2>3, <2>4, <2>5 DEF SerialInv
<1>6. QED
  BY <1>1, <1>2, <1>3, <1>4, <1>5 DEF AddStep

(* add_memory_sub where the area is full: nothing is written to it.        *)
LEMMA GrowKeepsSerial ==
    ASSUME IndInv, NEW c \in Conns, SerialInv(c), OnlyFor(c), GrowStep(c), ~ LeaveHeap
    PROVE  SerialInv(c)' /\ OnlyFor(c)'
<1> USE DEF OnlyFor, LiveFor, Accounts
<1>1. /\ pc[c] \in {"walk"} \cup Growing /\ pc'[c] \in {"look"} \cup Growing
      /\ UNCHANGED <<area, cur, id, copy, held>>
  BY DEF GrowStep, NoRoom, GrowRead, GrowWrite, GrowFlag, GrowInPlace, GrowElse, Fix, FixOut,
         Unflag, Goto, Growing, IndInv, TypeOK
<1>2. OnlyFor(c)'
  BY <1>1 DEF InUse, Growing
<1>3. SerialInv(c)'
  BY <1>1 DEF SerialInv, Growing, Dropping, Removing
<1>4. QED
  BY <1>2, <1>3

(* remove_memory_sub: the write of the tail changes nothing any more.      *)
LEMMA TailRewritten ==
    ASSUME IndInv, NEW c \in Conns, SerialInv(c), RemoveTail(c)
    PROVE  area' = area
<1>1. /\ id[c] \in Index /\ InUse(id[c]) /\ area[id[c]] \in Container
      /\ copy[c].fd = c /\ area[id[c]].fd = c
      /\ copy[c].fwd = id[c] + 1 /\ area[id[c]].fwd = id[c] + 1
  BY DEF RemoveTail, IndInv, TypeOK, ConnInv, RemoveInv, SerialInv, TableInv, WellFormed,
         Removing
<1>2. TailOf(area[id[c]], copy[c].fd, copy[c].fwd) = area[id[c]]
  BY <1>1 DEF TailOf, Container
<1>3. QED
  BY <1>2 DEF RemoveTail, IndInv, TypeOK

LEMMA RemoveKeepsSerial ==
    ASSUME IndInv, IndInv', NEW c \in Conns, SerialInv(c), OnlyFor(c), RemoveStep(c)
    PROVE  SerialInv(c)' /\ OnlyFor(c)'
<1> USE ConnsAssumption DEF Index, NULL, connVars, walkVars, heapVars, Goto, Return, InBlock,
        Dropping, OnlyFor, LiveFor, Accounts, Removing
<1>1. CASE RemoveRead(c)
  BY <1>1 DEF RemoveRead, SerialInv, InUse, IndInv, TypeOK, ConnInv, RemoveInv, Container,
         FreedCopy
<1>2. CASE RemoveHead(c)
  <2> USE <1>2 DEF RemoveHead
  <2>1. id[c] \in Index /\ id[c] \notin held[c] /\ area[id[c]] \in Container
    BY DEF IndInv, TypeOK, ConnInv, RemoveInv, SerialInv
  <2>2. /\ \A i \in Index : i # id[c] => area'[i] = area[i]
        /\ area'[id[c]].fwd = area[id[c]].fwd /\ area'[id[c]].fd = area[id[c]].fd
        /\ area'[id[c]].free = 1
    BY <2>1 DEF HeadOf, IndInv, TypeOK, Container, SerialInv
  <2>3. OnlyFor(c)'
    <3>1. CASE pc[c] = "freeHead"
      BY <2>2, <3>1 DEF InUse, IndInv, TypeOK
    <3>2. CASE pc[c] = "dropHead"
      BY <2>2, <3>2 DEF SerialInv, InUse, IndInv, TypeOK
    <3>3. QED
      BY <3>1, <3>2
  <2>4. \A i \in held[c] : area'[i].free = 0 /\ area'[i].fd = c
    BY <2>1, <2>2 DEF SerialInv, IndInv, ConnInv, HeldInUse
  <2>5. QED
    BY <2>2, <2>3, <2>4 DEF SerialInv, IndInv, TypeOK
<1>3. CASE RemoveTail(c)
  <2> USE <1>3 DEF RemoveTail
  <2>1. area' = area
    BY TailRewritten
  <2>2. \A i \in Index : (InUse(i)' <=> InUse(i)) /\ area'[i] = area[i]
    BY <2>1 DEF InUse
  <2>3. OnlyFor(c)'
    <3>1. CASE pc[c] = "freeTail"
      BY <2>2, <3>1 DEF IndInv, TypeOK
    <3>2. CASE pc[c] = "dropTail"
      BY <2>2, <3>2 DEF IndInv, TypeOK
    <3>3. QED
      BY <3>1, <3>2
  <2>4. pc'[c] \in {"recv", "dropNext"} /\ (pc'[c] = "dropNext" => pc[c] = "dropTail")
    BY DEF IndInv, TypeOK
  <2>5. QED
    BY <2>1, <2>3, <2>4 DEF SerialInv
<1>4. QED
  BY <1>1, <1>2, <1>3 DEF RemoveStep


(* The end of the connection.                                              *)
LEMMA DropKeepsSerial ==
    ASSUME IndInv, IndInv', NEW c \in Conns, SerialInv(c), OnlyFor(c), DropStep(c)
    PROVE  SerialInv(c)' /\ OnlyFor(c)'
<1> USE ConnsAssumption DEF Index, NULL, connVars, walkVars, heapVars, Goto, Return, InBlock,
        Dropping, OnlyFor, LiveFor, Accounts, Removing
<1>1. CASE DropFree(c)
  <2> USE <1>1 DEF DropFree
  <2>1. cur[c] \in Index /\ area[cur[c]].fwd = cur[c] + 1
    BY SlotsAssumption DEF IndInv, TypeOK, TableInv, WellFormed, InUse
  <2>2. pc'[c] = "drop" /\ cur'[c] = cur[c] + 1
    BY <2>1 DEF IndInv, TypeOK
  <2>3. OnlyFor(c)'
    BY <2>1, <2>2 DEF InUse
  <2>4. QED
    BY <2>2, <2>3 DEF SerialInv
<1>2. CASE DropMatch(c)
  <2> USE <1>2 DEF DropMatch
  <2>1. cur[c] \in Index /\ area[cur[c]].id = cur[c]
    BY SlotsAssumption DEF IndInv, TypeOK, TableInv, UnusedHasNoOwner, WellFormed
  <2>2. pc'[c] = "dropRead" /\ id'[c] = cur[c]
    BY <2>1 DEF IndInv, TypeOK
  <2>3. OnlyFor(c)'
    BY <2>2 DEF InUse
  <2>4. QED
    BY <2>2, <2>3 DEF SerialInv
<1>3. CASE DropOther(c)
  <2> USE <1>3 DEF DropOther
  <2>1. cur[c] \in Index
    BY SlotsAssumption DEF IndInv, TypeOK
  <2>2. ~ InUse(cur[c])
    BY <2>1
  <2>3. \A i \in Index : i >= cur[c] => ~ InUse(i)
    BY <2>1, <2>2 DEF IndInv, TableInv, WellFormed
  <2>4. pc'[c] = "sclose" /\ cur' = cur
    BY <2>2 DEF Advance, InUse, IndInv, TypeOK
  <2>5. OnlyFor(c)'
    <3>1. \A i \in Index : ~ (InUse(i) /\ area[i].free = 0)
      BY <2>1, <2>3 DEF SerialInv
    <3>2. QED
      BY <3>1 DEF InUse
  <2>6. QED
    BY <2>4, <2>5 DEF SerialInv
<1>4. CASE DropNext(c)
  <2> USE <1>4 DEF DropNext
  <2>1. cur[c] \in Index /\ held[c] = {}
    BY DEF IndInv, TypeOK, ConnInv, RemoveInv, SerialInv
  <2>2. CASE area[cur[c]].fwd = NULL
    <3>1. pc'[c] = "sclose" /\ cur' = cur
      BY <2>2 DEF Advance, IndInv, TypeOK
    <3>2. \A i \in Index : i > cur[c] => ~ InUse(i)
      BY <2>1, <2>2 DEF IndInv, TableInv, WellFormed, InUse
    <3>3. OnlyFor(c)'
      BY <2>1, <3>1, <3>2 DEF InUse
    <3>4. QED
      BY <2>1, <3>1, <3>3 DEF SerialInv
  <2>3. CASE area[cur[c]].fwd # NULL
    <3>1. area[cur[c]].fwd = cur[c] + 1
      BY <2>1, <2>3 DEF IndInv, TableInv, WellFormed, InUse
    <3>2. pc'[c] = "drop" /\ cur'[c] = cur[c] + 1
      BY <2>3, <3>1 DEF Advance, IndInv, TypeOK
    <3>3. OnlyFor(c)'
      BY <2>1, <3>2 DEF InUse
    <3>4. QED
      BY <2>1, <3>2, <3>3 DEF SerialInv
  <2>4. QED
    BY <2>2, <2>3
<1>5. CASE Sclose(c)
  <2> USE <1>5 DEF Sclose
  <2>1. pc'[c] = "closed" /\ UNCHANGED <<area, held, copy>>
    BY DEF IndInv, TypeOK
  <2>2. \A i \in Index : ~ (InUse(i) /\ area[i].free = 0)
    BY DEF SerialInv
  <2>3. OnlyFor(c)'
    BY <2>1, <2>2 DEF InUse
  <2>4. QED
    BY <2>1, <2>3 DEF SerialInv
<1>6. QED
  BY <1>1, <1>2, <1>3, <1>4, <1>5 DEF DropStep


(* When a thread leaves the heap block, every thread's place is undefined.  *)
LEMMA LeaveHeapKeepsSerial ==
    ASSUME SerialInvariant, LeaveHeap
    PROVE  SerialInvariant'
<1> USE DEF LeaveHeap, SerialInvariant
<1>1. ASSUME NEW c \in Conns PROVE SerialInv(c)'
  BY DEF SerialInv, Dropping, Removing
<1>2. LiveAccounted'
  <2> SUFFICES ASSUME NEW i \in Index, InUse(i)', area'[i].free = 0
               PROVE  \E c \in Conns : LiveFor(c, i)'
    BY DEF LiveAccounted
  <2>1. PICK c \in Conns : LiveFor(c, i)
    BY DEF LiveAccounted, InUse
  <2>2. LiveFor(c, i)'
    BY DEF LiveFor
  <2>3. QED
    BY <2>2
<1>3. OneAtATime'
  BY DEF OneAtATime
<1>4. QED
  BY <1>1, <1>2, <1>3

(* What one connection's thread does, the others do not notice, unless it  *)
(* leaves the heap block.                                                  *)
LEMMA StepOfOne ==
    ASSUME IndInv, NEW c \in Conns, ConnStep(c) \/ Command(c), ~ LeaveHeap
    PROVE  /\ \A d \in Conns \ {c} : pc'[d] = pc[d] /\ held'[d] = held[d]
           /\ pc[c] # "undefined" /\ pc'[c] # "undefined"
           /\ pc[c] = "closed" => Accept(c)
<1> USE DEF Goto, Return, connVars, IndInv, TypeOK
<1>1. CASE AddStep(c)
  BY <1>1 DEF AddStep, HasRoom, Hop, Claim, WriteHead, WriteTail
<1>2. CASE RemoveStep(c)
  BY <1>2 DEF RemoveStep, RemoveRead, RemoveHead, RemoveTail
<1>3. CASE DropStep(c)
  BY <1>3 DEF DropStep, DropFree, DropMatch, DropOther, DropNext, Sclose, Advance
<1>4. CASE Command(c)
  BY <1>4 DEF Command, Accept, Disconnect, SubMem, FreeSub, GiveUp, OpenAsync
<1>5. CASE GrowStep(c)
  BY <1>5 DEF GrowStep, NoRoom, GrowRead, GrowWrite, GrowFlag, GrowInPlace, GrowElse, Fix,
         FixOut, Unflag
<1>6. QED
  BY <1>1, <1>2, <1>3, <1>4, <1>5 DEF ConnStep, ConnOut

(* A client that is connected keeps the invariant.                         *)
LEMMA ClientKeepsSerial ==
    ASSUME IndInv, IndInv', SerialInvariant, NEW c \in Conns, ConnStep(c) \/ Command(c),
           ~ Accept(c), ~ LeaveHeap
    PROVE  SerialInvariant'
<1>1. /\ pc[c] \notin {"closed", "undefined"} /\ pc'[c] # "undefined"
      /\ \A d \in Conns \ {c} : pc'[d] = pc[d] /\ held'[d] = held[d]
  BY StepOfOne
<1>2. Alone(c) /\ OnlyFor(c) /\ SerialInv(c)
  BY <1>1, OpenIsAlone
<1>3. SerialInv(c)' /\ OnlyFor(c)'
  BY <1>2, CommandKeepsSerial, AddKeepsSerial, GrowKeepsSerial, RemoveKeepsSerial,
     DropKeepsSerial
  DEF ConnStep, ConnOut
<1>4. \A d \in Conns \ {c} : pc'[d] = "closed" /\ held'[d] = {}
  BY <1>1, <1>2 DEF Alone
<1>5. ASSUME NEW d \in Conns PROVE SerialInv(d)'
  BY <1>3, <1>4 DEF SerialInv, Dropping, Removing
<1>6. OneAtATime'
  <2> SUFFICES ASSUME NEW d \in Conns, NEW e \in Conns,
                      pc'[d] \notin {"closed", "undefined"}, pc'[e] \notin {"closed", "undefined"}
               PROVE  d = e
    BY DEF OneAtATime
  <2>1. QED
    BY <1>4
<1>7. LiveAccounted'
  BY <1>3 DEF OnlyFor, LiveAccounted
<1>8. QED
  BY <1>1, <1>4, <1>5, <1>6, <1>7 DEF SerialInvariant

(* A client connects: nobody else is there, and nothing in the table is    *)
(* live.                                                                   *)
LEMMA AcceptKeepsSerial ==
    ASSUME IndInv, SerialInvariant, NEW c \in Conns, Accept(c), OneAtATime'
    PROVE  SerialInvariant'
<1> USE DEF Accept, Goto
<1>1. pc'[c] = "recv" /\ (\A d \in Conns \ {c} : pc'[d] = pc[d])
  BY DEF IndInv, TypeOK
<1>2. \A d \in Conns : pc[d] = "closed"
  BY <1>1 DEF SerialInvariant, OneAtATime
<1>3. \A i \in Index : ~ (InUse(i) /\ area[i].free = 0)
  BY <1>2, NoneOpen
<1>4. LiveAccounted'
  BY <1>3 DEF LiveAccounted, InUse
<1>5. ASSUME NEW d \in Conns PROVE SerialInv(d)'
  BY <1>1, <1>2 DEF SerialInvariant, SerialInv, Dropping, Removing
<1>6. QED
  BY <1>1, <1>2, <1>4, <1>5 DEF SerialInvariant

(* async_data_handle and the last step of a connection's thread leave the  *)
(* table and the connections as they are, or the heap block.               *)
LEMMA WalkerLeavesTable ==
    ASSUME NEW w \in Walkers, WalkerStep(w) \/ ClearOpen(w)
    PROVE  UNCHANGED <<area, heapVars, connVars>> \/ LeaveHeap
BY DEF WalkerStep, WalkerStop, PassBegin, Skip, Pick, Copy, Send, Follow, PassEnd, PassCut,
       WalkerOut, ClearOpen, heapVars, connVars

LEMMA UnchangedKeepsSerial ==
    ASSUME SerialInvariant, UNCHANGED <<area, connVars>>
    PROVE  SerialInvariant'
<1> USE DEF connVars, SerialInvariant
<1>1. ASSUME NEW c \in Conns PROVE SerialInv(c)'
  BY DEF SerialInv
<1>2. LiveAccounted'
  BY DEF LiveAccounted, LiveFor, Accounts, InUse
<1>3. OneAtATime'
  BY DEF OneAtATime
<1>4. QED
  BY <1>1, <1>2, <1>3

(* Where clients come one after another, a live container is one that the  *)
(* client that is there holds, is writing, is removing or has still to     *)
(* remove: without a client there is none, whoever was there before.       *)
THEOREM SerialInvariance == SerialSpec => []SerialInvariant
<1>1. Init => SerialInvariant
  <2> SUFFICES ASSUME Init PROVE SerialInvariant
    OBVIOUS
  <2>1. \A c \in Conns : pc[c] = "closed" /\ held[c] = {}
    BY DEF Init
  <2>2. \A i \in Index : ~ InUse(i)
    BY DEF Init, InUse, ZeroContainer
  <2>3. QED
    BY <2>1, <2>2 DEF SerialInvariant, SerialInv, OneAtATime, LiveAccounted, Dropping,
         Removing
<1>2. IndInv /\ IndInv' /\ SerialInvariant /\ [Next /\ OneAtATime']_vars => SerialInvariant'
  <2> SUFFICES ASSUME IndInv, IndInv', SerialInvariant, [Next /\ OneAtATime']_vars
               PROVE  SerialInvariant'
    OBVIOUS
  <2>1. CASE LeaveHeap
    BY <2>1, LeaveHeapKeepsSerial
  <2>2. ASSUME NEW c \in Conns, ConnStep(c) \/ Command(c), OneAtATime', ~ LeaveHeap
        PROVE  SerialInvariant'
    BY <2>2, ClientKeepsSerial, AcceptKeepsSerial
  <2>3. ASSUME NEW w \in Walkers, WalkerStep(w) \/ ClearOpen(w), ~ LeaveHeap
        PROVE  SerialInvariant'
    BY <2>3, WalkerLeavesTable, UnchangedKeepsSerial
  <2>4. CASE UNCHANGED vars
    BY <2>4, UnchangedKeepsSerial DEF vars
  <2>5. QED
    BY <2>1, <2>2, <2>3, <2>4 DEF Next
<1>3. QED
  BY <1>1, <1>2, SerialIsSpec, Invariance, PTL DEF SerialSpec

(* An id its client was given and has not given up names a live            *)
(* subscription of that client.                                            *)
THEOREM SerialHeldIsLive == SerialSpec => []HeldIsLive
<1>1. IndInv /\ SerialInvariant => HeldIsLive
  BY DEF IndInv, ConnInv, HeldInUse, SerialInvariant, SerialInv, HeldIsLive
<1>2. QED
  BY <1>1, SerialIsSpec, Invariance, SerialInvariance, PTL

(* A closed connection has no live subscription in the table, so that the  *)
(* next one on its descriptor starts with none.                            *)
THEOREM SerialLeavesNothing == SerialSpec => []LeavesNothing
<1>1. IndInv /\ SerialInvariant => LeavesNothing
  <2> SUFFICES ASSUME IndInv, SerialInvariant, NEW c \in Conns, pc[c] = "closed",
                      NEW i \in Index, Live(i)
               PROVE  area[i].fd # c
    BY DEF LeavesNothing
  <2>1. PICK d \in Conns : LiveFor(d, i)
    BY DEF SerialInvariant, LiveAccounted, Live
  <2>2. pc[d] # "undefined" /\ ~ (pc[d] = "tail" /\ i = cur[d])
    BY DEF SerialInvariant, Live, Writing
  <2>3. area[i].fd = d /\ Accounts(d, i)
    BY <2>1, <2>2 DEF LiveFor
  <2>4. d # c
    BY <2>3 DEF Accounts, SerialInvariant, SerialInv
  <2>5. QED
    BY <2>3, <2>4
<1>2. QED
  BY <1>1, SerialIsSpec, Invariance, SerialInvariance, PTL
-----------------------------------------------------------------------------
(* Passes over the table miss nothing.                                     *)

(* What a connection's thread does besides opening or closing the channel  *)
(* and giving ids up takes nothing away from the channels.                 *)
LEMMA ThreadKeepsPasses ==
    ASSUME IndInv, PassInvariant, UNCHANGED <<chan, wpc, wcur, wown, due, desc>>,
           \A c \in Conns : held[c] \subseteq held'[c]
    PROVE  PassInvariant'
BY DEF PassInvariant, ChannelInv, PassInv, Owed, Index

(* The client gives ids up, or opens a data channel.                       *)
LEMMA CommandKeepsPasses ==
    ASSUME IndInv, PassInvariant, NEW c \in Conns, Command(c)
    PROVE  PassInvariant'
<1> USE DEF PassInvariant, ChannelInv, PassInv, Owed, Index
<1>1. ASSUME NEW I, GiveUp(c, I), UNCHANGED <<chan, wpc, wcur, wown, desc>>
      PROVE  PassInvariant'
  <2>1. ASSUME NEW w \in Walkers PROVE PassInv(w)'
    <3>1. CASE chan[c] = w
      <4>1. due'[w] = due[w] \ I /\ held'[c] = held[c] \ I
        BY <1>1, <3>1 DEF GiveUp, IndInv, TypeOK
      <4>2. \A d \in Conns : chan[d] = w => d = c
        BY <3>1
      <4>3. QED
        BY <1>1, <3>1, <4>1, <4>2
    <3>2. CASE chan[c] # w
      <4>1. due'[w] = due[w] /\ \A d \in Conns \ {c} : held'[d] = held[d]
        BY <1>1, <3>2 DEF GiveUp, IndInv, TypeOK
      <4>2. QED
        BY <1>1, <3>2, <4>1
    <3>3. QED
      BY <3>1, <3>2
  <2>2. QED
    BY <1>1, <2>1
<1>2. CASE Accept(c)
  BY <1>2, ThreadKeepsPasses DEF Accept, connVars, walkVars
<1>3. CASE Disconnect(c)
  BY <1>1, <1>3 DEF Disconnect
<1>4. ASSUME NEW s \in Subs, SubMem(c, s) PROVE PassInvariant'
  BY <1>4, ThreadKeepsPasses DEF SubMem, walkVars
<1>5. ASSUME NEW i \in held[c], FreeSub(c, i) PROVE PassInvariant'
  BY <1>1, <1>5 DEF FreeSub
<1>6. ASSUME NEW w \in Walkers, OpenAsync(c, w) PROVE PassInvariant'
  <2> USE <1>6 DEF OpenAsync, connVars
  <2>1. \A d \in Conns : chan[d] # w
    OBVIOUS
  <2>2. /\ chan'[c] = w /\ wown'[w] = c /\ wpc'[w] = "top" /\ desc'[w] = "open"
        /\ \A d \in Conns \ {c} : chan'[d] = chan[d]
        /\ \A v \in Walkers \ {w} :
              wown'[v] = wown[v] /\ wpc'[v] = wpc[v] /\ desc'[v] = desc[v]
    BY DEF IndInv, TypeOK
  <2>3. ChannelInv'
    BY <2>1, <2>2
  <2>4. ASSUME NEW v \in Walkers PROVE PassInv(v)'
    <3>1. CASE v = w
      BY <2>2, <3>1
    <3>2. CASE v # w
      BY <2>2, <3>2, WalkersAssumption
    <3>3. QED
      BY <3>1, <3>2
  <2>5. QED
    BY <2>3, <2>4
<1>7. QED
  BY <1>2, <1>3, <1>4, <1>5, <1>6 DEF Command

(* The channel's own steps: what is due is live and its client's, so that  *)
(* the pass does not skip it, and does not end before it.                  *)
LEMMA WalkerKeepsPasses ==
    ASSUME IndInv, IndInv', SerialInvariant, PassInvariant, NEW w \in Walkers, WalkerStep(w),
           ~ LeaveHeap
    PROVE  PassInvariant'
<1> USE DEF PassInvariant, ChannelInv, PassInv, Owed, connVars
<1>0. ASSUME NEW i \in due[w]
      PROVE  i \in Index /\ InUse(i) /\ area[i].free = 0 /\ area[i].fd = wown[w]
  <2>1. PICK c \in Conns : chan[c] = w /\ i \in held[c]
    BY <1>0
  <2>2. i \in Index /\ InUse(i) /\ wown[w] = c
    BY <2>1 DEF IndInv, ConnInv, HeldInUse
  <2>3. QED
    BY <2>1, <2>2 DEF SerialInvariant, SerialInv
<1>1. ASSUME UNCHANGED <<chan, held, wown, desc>>,
             \A v \in Walkers \ {w} : wpc'[v] = wpc[v] /\ wcur'[v] = wcur[v] /\ due'[v] = due[v],
             wpc[w] # "off", wpc[w] # "undefined", wpc'[w] # "off", PassInv(w)'
      PROVE  PassInvariant'
  BY <1>1 DEF Index
<1>2. ASSUME NEW n \in Index, InUse(n)
      PROVE  n \in Nat /\ area[n].fwd = n + 1
  BY <1>2 DEF IndInv, TableInv, WellFormed, Index
<1>3. wcur[w] \in Nat
  BY DEF IndInv, TypeOK
<1>4. CASE WalkerStop(w)
  <2> USE <1>4 DEF WalkerStop
  <2>1. \A c \in Conns : chan[c] # w
    OBVIOUS
  <2>2. \A v \in Walkers \ {w} : wpc'[v] = wpc[v] /\ wown'[v] = wown[v]
    BY DEF IndInv, TypeOK
  <2>3. ASSUME NEW v \in Walkers PROVE PassInv(v)'
    BY <2>2 DEF IndInv, TypeOK, Index
  <2>4. ChannelInv'
    BY <2>1, <2>2
  <2>5. QED
    BY <2>3, <2>4
<1>5. CASE PassBegin(w)
  <2> USE <1>5 DEF PassBegin
  <2>1. wpc'[w] = "scan" /\ due'[w] = Owed(w) /\ wcur'[w] = 0 /\ Owed(w)' = Owed(w)
    BY DEF IndInv, TypeOK, WalkerInv
  <2>2. PassInv(w)'
    BY <2>1 DEF Index
  <2>3. QED
    BY <1>1, <2>2 DEF IndInv, TypeOK
<1>6. CASE Skip(w)
  <2> USE <1>6 DEF Skip
  <2>1. wcur[w] \in Index /\ InUse(wcur[w])
    BY SlotsAssumption DEF InUse, InBlock, Index, IndInv, TypeOK
  <2>2. wcur'[w] = wcur[w] + 1 /\ wpc'[w] = "scan" /\ due' = due
    BY <1>2, <2>1 DEF IndInv, TypeOK
  <2>3. wcur[w] \notin due[w]
    BY <1>0 DEF Skipped
  <2>4. \A i \in due[w] : i >= wcur'[w]
    BY <1>0, <1>3, <2>2, <2>3 DEF Index
  <2>5. PassInv(w)'
    BY <2>2, <2>4
  <2>6. QED
    BY <1>1, <2>2, <2>5 DEF IndInv, TypeOK
<1>7. CASE Pick(w)
  <2>1. wpc'[w] = "serve" /\ UNCHANGED <<due, wcur>> /\ wpc[w] = "scan"
    BY <1>7 DEF Pick, IndInv, TypeOK
  <2>2. PassInv(w)'
    BY <1>7, <2>1 DEF Pick
  <2>3. QED
    BY <1>1, <1>7, <2>1, <2>2 DEF Pick, IndInv, TypeOK
<1>8. CASE Copy(w)
  <2> USE <1>8 DEF Copy
  <2>1. wpc'[w] = "send" /\ due'[w] = due[w] \ {wcur[w]} /\ wcur' = wcur
    BY DEF IndInv, TypeOK
  <2>2. \A i \in due'[w] : i > wcur[w]
    BY <1>0, <1>3, <2>1 DEF Index
  <2>3. PassInv(w)'
    BY <2>1, <2>2
  <2>4. QED
    BY <1>1, <2>1, <2>3 DEF IndInv, TypeOK
<1>9. CASE Send(w)
  <2>1. wpc'[w] = "next" /\ UNCHANGED <<due, wcur>> /\ wpc[w] = "send"
    BY <1>9 DEF Send, IndInv, TypeOK
  <2>2. PassInv(w)'
    BY <1>9, <2>1 DEF Send
  <2>3. QED
    BY <1>1, <1>9, <2>1, <2>2 DEF Send, IndInv, TypeOK
<1>10. CASE Follow(w)
  <2> USE <1>10 DEF Follow
  <2>1. wcur[w] \in Index /\ InUse(wcur[w])
    BY DEF IndInv, WalkerInv
  <2>2. wcur'[w] = wcur[w] + 1 /\ wpc'[w] = "scan" /\ due' = due
    BY <1>2, <2>1 DEF IndInv, TypeOK
  <2>3. \A i \in due[w] : i >= wcur'[w]
    BY <1>0, <1>3, <2>2 DEF Index
  <2>4. PassInv(w)'
    BY <2>2, <2>3
  <2>5. QED
    BY <1>1, <2>2, <2>4 DEF IndInv, TypeOK
<1>11. CASE PassEnd(w)
  <2> USE <1>11 DEF PassEnd
  <2>1. wcur[w] \in Index /\ ~ InUse(wcur[w])
    BY SlotsAssumption DEF IndInv, TypeOK, InBlock, InUse, Index
  <2>2. ASSUME NEW i \in due[w] PROVE FALSE
    <3>1. i \in Index /\ InUse(i) /\ i >= wcur[w]
      BY <1>0
    <3>2. i = wcur[w] \/ wcur[w] \in 0 .. i - 1
      BY <2>1, <3>1 DEF Index
    <3>3. QED
      BY <2>1, <3>1, <3>2 DEF IndInv, TableInv, WellFormed
  <2>3. due[w] = {}
    BY <2>2
  <2>4. wpc'[w] = "top" /\ due' = due
    BY DEF IndInv, TypeOK
  <2>5. PassInv(w)'
    BY <2>3, <2>4
  <2>6. QED
    BY <1>1, <2>4, <2>5 DEF IndInv, TypeOK
<1>12. CASE PassCut(w)
  <2>1. wpc'[w] = "top" /\ due'[w] = {}
    BY <1>12 DEF PassCut, IndInv, TypeOK
  <2>2. PassInv(w)'
    BY <2>1
  <2>3. QED
    BY <1>1, <1>12, <2>1, <2>2 DEF PassCut, IndInv, TypeOK
<1>13. CASE WalkerOut(w)
  BY <1>13 DEF WalkerOut
<1>14. QED
  BY <1>4, <1>5, <1>6, <1>7, <1>8, <1>9, <1>10, <1>11, <1>12, <1>13 DEF WalkerStep

(* The end of a connection closes its channel when it holds nothing.       *)
LEMMA ScloseKeepsPasses ==
    ASSUME IndInv, SerialInvariant, PassInvariant, NEW c \in Conns, Sclose(c)
    PROVE  PassInvariant'
<1> USE DEF Sclose, Return, PassInvariant, ChannelInv, PassInv, Owed, Index, walkVars
<1>1. held[c] = {}
  BY DEF SerialInvariant, SerialInv
<1>2. chan'[c] = NoWalker /\ \A d \in Conns \ {c} : chan'[d] = chan[d]
  BY DEF IndInv, TypeOK
<1>3. \A w \in Walkers : w # chan[c] => desc'[w] = desc[w]
  BY DEF IndInv, TypeOK
<1>4. ChannelInv'
  BY <1>2, <1>3, WalkersAssumption
<1>5. ASSUME NEW w \in Walkers PROVE PassInv(w)'
  BY <1>1, <1>2, WalkersAssumption
<1>6. QED
  BY <1>4, <1>5

(* A pass that goes to the end of the list has served every subscription   *)
(* its client held all along: in any table, however the client's           *)
(* subscriptions and removals fall between the steps of the pass.          *)
THEOREM SerialMissesNothing == SerialSpec => []MissesNothing
<1>1. Init => PassInvariant
  BY WalkersAssumption DEF Init, PassInvariant, ChannelInv, PassInv
<1>2. /\ IndInv /\ IndInv' /\ SerialInvariant
      /\ PassInvariant /\ [Next /\ OneAtATime']_vars
      => PassInvariant'
  <2> SUFFICES ASSUME IndInv, IndInv', SerialInvariant, PassInvariant,
                      [Next /\ OneAtATime']_vars
               PROVE  PassInvariant'
    OBVIOUS
  <2>1. CASE LeaveHeap
    BY <2>1 DEF LeaveHeap, PassInvariant, ChannelInv, PassInv, Owed, Index
  <2>2. ASSUME NEW c \in Conns, ConnStep(c), ~ LeaveHeap PROVE PassInvariant'
    <3>1. CASE Sclose(c)
      BY <3>1, ScloseKeepsPasses
    <3>2. CASE ~ Sclose(c)
      <4> USE <2>2, <3>2 DEF ConnStep, walkVars, Goto, Return
      <4>1. UNCHANGED <<chan, wpc, wcur, wown, due, desc>>
        <5>1. CASE AddStep(c)
          BY <5>1 DEF AddStep, HasRoom, Hop, Claim, WriteHead, WriteTail
        <5>2. CASE GrowStep(c)
          BY <5>2 DEF GrowStep, NoRoom, GrowRead, GrowWrite, GrowFlag, GrowInPlace,
                 GrowElse, Fix, FixOut, Unflag
        <5>3. CASE RemoveStep(c)
          BY <5>3 DEF RemoveStep, RemoveRead, RemoveHead, RemoveTail
        <5>4. CASE DropStep(c)
          BY <5>4 DEF DropStep, DropFree, DropMatch, DropOther, DropNext
        <5>5. QED
          BY <5>1, <5>2, <5>3, <5>4 DEF ConnOut
      <4>2. \A d \in Conns : held[d] \subseteq held'[d]
        <5>1. CASE AddStep(c)
          <6>1. CASE WriteTail(c)
            BY <6>1 DEF WriteTail, IndInv, TypeOK
          <6>2. CASE ~ WriteTail(c)
            BY <5>1, <6>2 DEF AddStep, HasRoom, Hop, Claim, WriteHead
          <6>3. QED
            BY <6>1, <6>2
        <5>2. CASE GrowStep(c)
          BY <5>2 DEF GrowStep, NoRoom, GrowRead, GrowWrite, GrowFlag, GrowInPlace,
                 GrowElse, Fix, FixOut, Unflag
        <5>3. CASE RemoveStep(c)
          BY <5>3 DEF RemoveStep, RemoveRead, RemoveHead, RemoveTail
        <5>4. CASE DropStep(c)
          BY <5>4 DEF DropStep, DropFree, DropMatch, DropOther, DropNext
        <5>5. QED
          BY <5>1, <5>2, <5>3, <5>4 DEF ConnOut
      <4>3. QED
        BY <4>1, <4>2, ThreadKeepsPasses
    <3>3. QED
      BY <3>1, <3>2
  <2>3. ASSUME NEW c \in Conns, Command(c) PROVE PassInvariant'
    BY <2>3, CommandKeepsPasses
  <2>4. ASSUME NEW w \in Walkers, WalkerStep(w), ~ LeaveHeap PROVE PassInvariant'
    BY <2>4, WalkerKeepsPasses
  <2>5. ASSUME NEW w \in Walkers, ClearOpen(w) PROVE PassInvariant'
    BY <2>5 DEF ClearOpen, connVars, walkVars, IndInv, TypeOK, PassInvariant, ChannelInv,
           PassInv, Owed, Index
  <2>6. CASE UNCHANGED vars
    BY <2>6 DEF vars, connVars, walkVars, PassInvariant, ChannelInv, PassInv, Owed
  <2>7. QED
    BY <2>1, <2>2, <2>3, <2>4, <2>5, <2>6 DEF Next
<1>3. PassInvariant => MissesNothing
  BY DEF PassInvariant, PassInv, MissesNothing
<1>4. QED
  BY <1>1, <1>2, <1>3, SerialIsSpec, Invariance, SerialInvariance, PTL DEF SerialSpec
=============================================================================
