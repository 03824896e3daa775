----------------------------- MODULE MemorySubs -----------------------------
(***************************************************************************)
(* The table of memory subscriptions (memory_sub_area in ratchetron.c) and *)
(* the threads that share it with no lock: one handleclient_ps3mapi thread *)
(* per connection, which adds and removes subscriptions, and one           *)
(* async_data_handle thread per data channel, which walks the table.       *)
(*                                                                         *)
(* A thread's step is one access to a container that another thread can    *)
(* touch.  A write of a whole container (72 bytes, doubleword by           *)
(* doubleword) takes two steps, because a reader or another writer can     *)
(* come between them: the head, [memory_sub, id, free], is at the lower    *)
(* addresses and is written before the tail, [sock_fd, ..., fwd].          *)
(*                                                                         *)
(* A pointer into the table is the index of its container.  NULL is 0: no  *)
(* fwd ever points at container 0.  A connection is named by its socket    *)
(* descriptor, so that one accepted after another was closed can have its  *)
(* descriptor.  The ticks and the last value of a container are left to    *)
(* module PollLoop.                                                        *)
(*                                                                         *)
(* The counter memory_sub_size and the flag reallocating are shared with   *)
(* no lock either: a thread that finds the area full reads the counter,    *)
(* writes it, sets the flag and reallocates in steps of their own, so that *)
(* two threads may grow the area together and one update may be lost.      *)
(***************************************************************************)
EXTENDS Naturals, FiniteSets

CONSTANTS
    Conns,      \* the socket descriptors a connection can have
    Walkers,    \* the data-channel threads
    Subs,       \* the subscriptions a client can ask for (struct MemorySub)
    NoFd,       \* the sock_fd of a container nobody has written: 0
    NoSub,      \* the memory_sub of such a container
    NoWalker,   \* async_t_id of a connection with no data channel
    InitSlots,  \* containers that fit into the area allocated at start
    GrowSlots,  \* containers each reallocation adds
    MaxSlots,   \* bound: the area never grows beyond this
    MaxHeld     \* bound: subscriptions a client holds at a time

ASSUME ConnsAssumption == NoFd \notin Conns
ASSUME WalkersAssumption == NoWalker \notin Walkers
ASSUME SubsAssumption == NoSub \notin Subs
ASSUME SlotsAssumption ==
    /\ InitSlots \in Nat \ {0}
    /\ GrowSlots \in Nat \ {0}
    /\ MaxSlots \in Nat
    /\ InitSlots <= MaxSlots
ASSUME HeldAssumption == MaxHeld \in Nat

VARIABLES
    area,           \* memory_sub_area: the containers
    size,           \* memory_sub_size, in containers
    allocated,      \* the containers the heap block really holds
    reallocating,   \* the flag of that name
    pc,             \* where each connection's thread is
    cur,            \* its current_btrfly or memorySubContainer
    id,             \* its btrfly.id, or the id it removes
    new,            \* the subscription it adds
    was,            \* the memory_sub_size it has read, to add to it
    copy,           \* its copy of the container it removes
    held,           \* the ids its client was given and has not given up
    chan,           \* its async_t_id
    wpc,            \* where each data-channel thread is
    wcur,           \* its memorySubContainer
    wown,           \* its owning_sock
    wsub,           \* its memorySub, the copy of the container it serves
    due,            \* (history) what its pass has still to serve
    desc            \* its AsyncDataDesc: "open"; "late" when the socket is
                    \* closed but open is still 1; "shut" when open is 0

connVars == <<pc, cur, id, new, copy, held>>
walkVars == <<wpc, wcur, wown, wsub, due>>
heapVars == <<size, allocated, reallocating, was>>
vars == <<area, heapVars, connVars, chan, walkVars, desc>>

Index == 0 .. MaxSlots - 1
NULL == 0

Container == [sub : Subs \cup {NoSub}, id : Nat, free : {0, 1},
              fd : Conns \cup {NoFd}, fwd : Nat]

(* What memset leaves in every container.                                  *)
ZeroContainer == [sub |-> NoSub, id |-> 0, free |-> 0, fd |-> NoFd, fwd |-> NULL]

ConnPC == {"closed", "recv", "walk", "look", "head", "tail",
           "growRead", "growWrite", "growFlag", "grow", "fix", "unflag",
           "freeRead", "freeHead", "freeTail",
           "drop", "dropRead", "dropHead", "dropTail", "dropNext", "sclose",
           "undefined"}

WalkerPC == {"off", "top", "scan", "serve", "send", "next", "undefined"}

TypeOK ==
    /\ area \in [Index -> Container]
    /\ size \in InitSlots .. MaxSlots
    /\ allocated \in InitSlots .. MaxSlots
    /\ reallocating \in {0, 1}
    /\ pc \in [Conns -> ConnPC]
    /\ cur \in [Conns -> Nat]
    /\ id \in [Conns -> Nat]
    /\ new \in [Conns -> Subs \cup {NoSub}]
    /\ was \in [Conns -> Nat]
    /\ copy \in [Conns -> Container]
    /\ held \in [Conns -> SUBSET Nat]
    /\ chan \in [Conns -> Walkers \cup {NoWalker}]
    /\ wpc \in [Walkers -> WalkerPC]
    /\ wcur \in [Walkers -> Nat]
    /\ wown \in [Walkers -> Conns \cup {NoFd}]
    /\ wsub \in [Walkers -> Subs \cup {NoSub}]
    /\ due \in [Walkers -> SUBSET Nat]
    /\ desc \in [Walkers -> {"open", "late", "shut"}]

Init ==
    /\ area = [i \in Index |-> ZeroContainer]
    /\ size = InitSlots
    /\ allocated = InitSlots
    /\ reallocating = 0
    /\ pc = [c \in Conns |-> "closed"]
    /\ cur = [c \in Conns |-> 0]
    /\ id = [c \in Conns |-> 0]
    /\ new = [c \in Conns |-> NoSub]
    /\ was = [c \in Conns |-> 0]
    /\ copy = [c \in Conns |-> ZeroContainer]
    /\ held = [c \in Conns |-> {}]
    /\ chan = [c \in Conns |-> NoWalker]
    /\ wpc = [w \in Walkers |-> "off"]
    /\ wcur = [w \in Walkers |-> 0]
    /\ wown = [w \in Walkers |-> NoFd]
    /\ wsub = [w \in Walkers |-> NoSub]
    /\ due = [w \in Walkers |-> {}]
    /\ desc = [w \in Walkers |-> "shut"]

-----------------------------------------------------------------------------
(* Helpers.                                                                *)

InBlock(i) == i < allocated

Goto(c, label) == pc' = [pc EXCEPT ![c] = label]

(* The locals of a call are gone when it returns.                          *)
Return(c) ==
    /\ cur' = [cur EXCEPT ![c] = 0]
    /\ id' = [id EXCEPT ![c] = 0]
    /\ new' = [new EXCEPT ![c] = NoSub]

(* A thread reads or writes memory outside the heap block, or through      *)
(* NULL: what follows is undefined, and the model stops there.             *)
LeaveHeap ==
    /\ pc' = [c \in Conns |-> "undefined"]
    /\ wpc' = [w \in Walkers |-> "undefined"]
    /\ desc' = [w \in Walkers |-> "shut"]
    /\ UNCHANGED <<area, heapVars, cur, id, new, copy, held, chan, wcur, wown, wsub, due>>

(* What channel w owes its client's subscriptions: they are taken from the *)
(* pass as they are given up.                                              *)
Owed(w) == {i \in Index : \E c \in Conns : chan[c] = w /\ i \in held[c]}

GiveUp(c, I) ==
    /\ held' = [held EXCEPT ![c] = @ \ I]
    /\ due' = [w \in Walkers |-> IF chan[c] = w THEN due[w] \ I ELSE due[w]]

(* The two halves of a write of a container.                               *)
HeadOf(k, s, i, f) == [k EXCEPT !.sub = s, !.id = i, !.free = f]
TailOf(k, d, f) == [k EXCEPT !.fd = d, !.fwd = f]

-----------------------------------------------------------------------------
(* Connections: ps3mapi_thread accepts one, its client sends commands.     *)

Accept(c) ==
    /\ pc[c] = "closed"
    /\ Goto(c, "recv")
    /\ UNCHANGED <<area, heapVars, cur, id, new, copy, held, chan, walkVars, desc>>

SubMem(c, s) ==
    /\ pc[c] = "recv"
    /\ Cardinality(held[c]) < MaxHeld
    /\ Goto(c, "walk")
    /\ new' = [new EXCEPT ![c] = s]
    /\ UNCHANGED <<area, heapVars, cur, id, copy, held, chan, walkVars, desc>>

FreeSub(c, i) ==
    /\ pc[c] = "recv"
    /\ i \in held[c]
    /\ Goto(c, "freeRead")
    /\ id' = [id EXCEPT ![c] = i]
    /\ GiveUp(c, {i})
    /\ UNCHANGED <<area, heapVars, cur, new, copy, chan, wpc, wcur, wown, wsub, desc>>

Disconnect(c) ==
    /\ pc[c] = "recv"
    /\ Goto(c, "drop")
    /\ GiveUp(c, held[c])
    /\ UNCHANGED <<area, heapVars, cur, id, new, copy, chan, wpc, wcur, wown, wsub, desc>>

OpenAsync(c, w) ==
    /\ pc[c] = "recv"
    /\ chan[c] = NoWalker
    /\ wpc[w] = "off"
    /\ chan' = [chan EXCEPT ![c] = w]
    /\ wpc' = [wpc EXCEPT ![w] = "top"]
    /\ wown' = [wown EXCEPT ![w] = c]
    /\ desc' = [desc EXCEPT ![w] = "open"]
    /\ UNCHANGED <<area, heapVars, connVars, wcur, wsub, due>>

-----------------------------------------------------------------------------
(* add_memory_sub.                                                         *)

(* Mutants: free containers are not reused; a live container is claimed.   *)
ClaimableAfterLast(k) == k.fwd = NULL
ClaimableAny(k) == TRUE

(* The first free container, or else the one after the last.               *)
Claimable(k) == k.fwd = NULL \/ k.free = 1

(* The container lies within memory_sub_size, or more is allocated: once,  *)
(* and the container is looked at without asking again.                    *)
HasRoom(c) ==
    /\ pc[c] = "walk"
    /\ cur[c] < size
    /\ Goto(c, "look")
    /\ UNCHANGED <<area, heapVars, cur, id, new, copy, held, chan, walkVars, desc>>

NoRoom(c) ==
    /\ pc[c] = "walk"
    /\ cur[c] >= size
    /\ Goto(c, "growRead")
    /\ UNCHANGED <<area, heapVars, cur, id, new, copy, held, chan, walkVars, desc>>

(* Mutant: the loop goes round without its last two lines.                 *)
HopNowhere(c) ==
    /\ pc[c] = "look"
    /\ InBlock(cur[c])
    /\ ~ Claimable(area[cur[c]])
    /\ Goto(c, "walk")
    /\ UNCHANGED <<area, heapVars, cur, id, new, copy, held, chan, walkVars, desc>>

Hop(c) ==
    /\ pc[c] = "look"
    /\ InBlock(cur[c])
    /\ ~ Claimable(area[cur[c]])
    /\ Goto(c, "walk")
    /\ id' = [id EXCEPT ![c] = @ + 1]
    /\ cur' = [cur EXCEPT ![c] = area[cur[c]].fwd]
    /\ UNCHANGED <<area, heapVars, new, copy, held, chan, walkVars, desc>>

Claim(c) ==
    /\ pc[c] = "look"
    /\ InBlock(cur[c])
    /\ Claimable(area[cur[c]])
    /\ Goto(c, "head")
    /\ UNCHANGED <<area, heapVars, cur, id, new, copy, held, chan, walkVars, desc>>

(* memory_sub_size = memory_sub_size + 1024: two accesses.                 *)
GrowRead(c) ==
    /\ pc[c] = "growRead"
    /\ size + GrowSlots <= MaxSlots
    /\ was' = [was EXCEPT ![c] = size]
    /\ Goto(c, "growWrite")
    /\ UNCHANGED <<area, size, allocated, reallocating>>
    /\ UNCHANGED <<cur, id, new, copy, held, chan, walkVars, desc>>

GrowWrite(c) ==
    /\ pc[c] = "growWrite"
    /\ size' = was[c] + GrowSlots
    /\ was' = [was EXCEPT ![c] = 0]
    /\ Goto(c, "growFlag")
    /\ UNCHANGED <<area, allocated, reallocating>>
    /\ UNCHANGED <<cur, id, new, copy, held, chan, walkVars, desc>>

(* Mutant: the flag counts the threads that reallocate.                    *)
GrowFlagCounts(c) ==
    /\ pc[c] = "growFlag"
    /\ reallocating' = reallocating + 1
    /\ Goto(c, "grow")
    /\ UNCHANGED <<area, size, allocated, was>>
    /\ UNCHANGED <<cur, id, new, copy, held, chan, walkVars, desc>>

(* reallocate_memory_sub_area: the flag is set, the block is reallocated,  *)
(* the loop over the containers writes the fwd they have and stops at the  *)
(* first that has none, and the flag is cleared.                           *)
GrowFlag(c) ==
    /\ pc[c] = "growFlag"
    /\ reallocating' = 1
    /\ Goto(c, "grow")
    /\ UNCHANGED <<area, size, allocated, was>>
    /\ UNCHANGED <<cur, id, new, copy, held, chan, walkVars, desc>>

(* realloc leaves the block where it is, with what it held: longer than it *)
(* was, or shorter where this thread's update of the size was late.        *)
GrowInPlace(c) ==
    /\ pc[c] = "grow"
    /\ allocated' = size
    /\ Goto(c, "fix")
    /\ UNCHANGED <<area, size, reallocating, was>>
    /\ UNCHANGED <<cur, id, new, copy, held, chan, walkVars, desc>>

(* realloc fails, or moves the block away from current_btrfly and from the *)
(* walkers, or adds bytes to it that are not zero.                         *)
GrowElse(c) ==
    /\ pc[c] = "grow"
    /\ LeaveHeap

EndInBlock == \E i \in Index : InBlock(i) /\ area[i].fwd = NULL

Fix(c) ==
    /\ pc[c] = "fix"
    /\ EndInBlock
    /\ Goto(c, "unflag")
    /\ UNCHANGED <<area, heapVars, cur, id, new, copy, held, chan, walkVars, desc>>

FixOut(c) ==
    /\ pc[c] = "fix"
    /\ ~ EndInBlock
    /\ LeaveHeap

Unflag(c) ==
    /\ pc[c] = "unflag"
    /\ reallocating' = 0
    /\ Goto(c, "look")
    /\ UNCHANGED <<area, size, allocated, was>>
    /\ UNCHANGED <<cur, id, new, copy, held, chan, walkVars, desc>>

(* Mutant: a container that is reused stays free.                          *)
WriteHeadKeepsFree(c) ==
    /\ pc[c] = "head"
    /\ InBlock(cur[c])
    /\ area' = [area EXCEPT ![cur[c]] = HeadOf(@, new[c], id[c], @.free)]
    /\ Goto(c, "tail")
    /\ UNCHANGED <<heapVars, cur, id, new, copy, held, chan, walkVars, desc>>

WriteHead(c) ==
    /\ pc[c] = "head"
    /\ InBlock(cur[c])
    /\ area' = [area EXCEPT ![cur[c]] = HeadOf(@, new[c], id[c], 0)]
    /\ Goto(c, "tail")
    /\ UNCHANGED <<heapVars, cur, id, new, copy, held, chan, walkVars, desc>>

(* The last write, and the id sent to the client.                          *)
WriteTail(c) ==
    /\ pc[c] = "tail"
    /\ InBlock(cur[c])
    /\ area' = [area EXCEPT ![cur[c]] = TailOf(@, c, cur[c] + 1)]
    /\ held' = [held EXCEPT ![c] = @ \cup {id[c]}]
    /\ Goto(c, "recv")
    /\ Return(c)
    /\ UNCHANGED <<heapVars, copy, chan, walkVars, desc>>

-----------------------------------------------------------------------------
(* Mutants: the copy is not marked; the container is taken off the list.   *)
FreedCopyUnmarked(k) == k
FreedCopyUnlinked(k) == [k EXCEPT !.free = 1, !.fwd = NULL]

(* remove_memory_sub, for CLT_CMD_FREE_SUB and for the end of a            *)
(* connection: copy the container, mark the copy free, write it back.      *)

FreedCopy(k) == [k EXCEPT !.free = 1]

Removing == {"freeRead", "freeHead", "freeTail", "dropRead", "dropHead", "dropTail"}

RemoveRead(c) ==
    /\ pc[c] \in {"freeRead", "dropRead"}
    /\ InBlock(id[c])
    /\ copy' = [copy EXCEPT ![c] = FreedCopy(area[id[c]])]
    /\ Goto(c, IF pc[c] = "freeRead" THEN "freeHead" ELSE "dropHead")
    /\ UNCHANGED <<area, heapVars, cur, id, new, held, chan, walkVars, desc>>

RemoveHead(c) ==
    /\ pc[c] \in {"freeHead", "dropHead"}
    /\ InBlock(id[c])
    /\ area' = [area EXCEPT ![id[c]] = HeadOf(@, copy[c].sub, copy[c].id, copy[c].free)]
    /\ Goto(c, IF pc[c] = "freeHead" THEN "freeTail" ELSE "dropTail")
    /\ UNCHANGED <<heapVars, cur, id, new, copy, held, chan, walkVars, desc>>

(* The last write, and for CLT_CMD_FREE_SUB the client is answered.        *)
RemoveTail(c) ==
    /\ pc[c] \in {"freeTail", "dropTail"}
    /\ InBlock(id[c])
    /\ area' = [area EXCEPT ![id[c]] = TailOf(@, copy[c].fd, copy[c].fwd)]
    /\ Goto(c, IF pc[c] = "freeTail" THEN "recv" ELSE "dropNext")
    /\ id' = [id EXCEPT ![c] = 0]
    /\ copy' = [copy EXCEPT ![c] = ZeroContainer]
    /\ UNCHANGED <<heapVars, cur, new, held, chan, walkVars, desc>>

-----------------------------------------------------------------------------
(* remove_memory_sub_by_sock_fd, and the rest of the end of a connection.  *)

(* To the next container, or out of the loop after the last.               *)
Advance(c) ==
    IF area[cur[c]].fwd = NULL
    THEN Goto(c, "sclose") /\ UNCHANGED cur
    ELSE Goto(c, "drop") /\ cur' = [cur EXCEPT ![c] = area[cur[c]].fwd]

(* A free container that has no fwd.                                       *)
FreeLast(k) == k.free = 1 /\ k.fwd = NULL

(* Mutant: continue without the step to fwd.                               *)
DropFreeStays(c) ==
    /\ pc[c] = "drop"
    /\ InBlock(cur[c])
    /\ area[cur[c]].free = 1
    /\ area[cur[c]].fwd # NULL
    /\ UNCHANGED vars

(* A container that is free: fwd is followed (NULL too: see ConnOut).      *)
DropFree(c) ==
    /\ pc[c] = "drop"
    /\ InBlock(cur[c])
    /\ area[cur[c]].free = 1
    /\ area[cur[c]].fwd # NULL
    /\ cur' = [cur EXCEPT ![c] = area[cur[c]].fwd]
    /\ UNCHANGED <<area, heapVars, pc, id, new, copy, held, chan, walkVars, desc>>

DropMatch(c) ==
    /\ pc[c] = "drop"
    /\ InBlock(cur[c])
    /\ area[cur[c]].free = 0
    /\ area[cur[c]].fd = c
    /\ id' = [id EXCEPT ![c] = area[cur[c]].id]
    /\ Goto(c, "dropRead")
    /\ UNCHANGED <<area, heapVars, cur, new, copy, held, chan, walkVars, desc>>

DropOther(c) ==
    /\ pc[c] = "drop"
    /\ InBlock(cur[c])
    /\ area[cur[c]].free = 0
    /\ area[cur[c]].fd # c
    /\ Advance(c)
    /\ UNCHANGED <<area, heapVars, id, new, copy, held, chan, walkVars, desc>>

DropNext(c) ==
    /\ pc[c] = "dropNext"
    /\ InBlock(cur[c])
    /\ Advance(c)
    /\ UNCHANGED <<area, heapVars, id, new, copy, held, chan, walkVars, desc>>

(* Mutant: nobody tells the data-channel thread.                           *)
ScloseOnly(c) ==
    /\ pc[c] = "sclose"
    /\ Goto(c, "closed")
    /\ Return(c)
    /\ chan' = [chan EXCEPT ![c] = NoWalker]
    /\ UNCHANGED <<area, heapVars, copy, held, walkVars, desc>>

(* From here the descriptor can be accepted again, while this thread still *)
(* has to clear open.                                                      *)
Sclose(c) ==
    /\ pc[c] = "sclose"
    /\ Goto(c, "closed")
    /\ Return(c)
    /\ chan' = [chan EXCEPT ![c] = NoWalker]
    /\ desc' = IF chan[c] = NoWalker THEN desc
               ELSE [desc EXCEPT ![chan[c]] = "late"]
    /\ UNCHANGED <<area, heapVars, copy, held, walkVars>>

(* memory_sub_size grows before the block does, and a late update of it    *)
(* takes containers away: the thread's next access is outside the block.   *)
(* Or it is through NULL, where the walk of a connection that ends is at a *)
(* free container, whose fwd is followed without a test (225-228).         *)
ConnOut(c) ==
    /\ \/ pc[c] \in {"look", "head", "tail", "drop", "dropNext"} /\ ~ InBlock(cur[c])
       \/ pc[c] \in Removing /\ ~ InBlock(id[c])
       \/ pc[c] = "drop" /\ InBlock(cur[c]) /\ FreeLast(area[cur[c]])
    /\ LeaveHeap

ClearOpen(w) ==
    /\ desc[w] = "late"
    /\ desc' = [desc EXCEPT ![w] = "shut"]
    /\ UNCHANGED <<area, heapVars, connVars, chan, walkVars>>

-----------------------------------------------------------------------------
(* async_data_handle, as far as it shares the table: a pass from the first *)
(* container to the last, cut short when no game runs any more.            *)

WalkerStop(w) ==
    /\ wpc[w] = "top"
    /\ desc[w] = "shut"
    /\ wpc' = [wpc EXCEPT ![w] = "off"]
    /\ wown' = [wown EXCEPT ![w] = NoFd]
    /\ UNCHANGED <<area, heapVars, connVars, chan, wcur, wsub, due, desc>>

PassBegin(w) ==
    /\ wpc[w] = "top"
    /\ desc[w] # "shut"
    /\ reallocating = 0
    /\ wpc' = [wpc EXCEPT ![w] = "scan"]
    /\ due' = [due EXCEPT ![w] = Owed(w)]
    /\ UNCHANGED <<area, heapVars, connVars, chan, wcur, wown, wsub, desc>>

(* What the thread does not serve: free containers, and those of another   *)
(* connection.                                                             *)
Skipped(w, k) == k.free = 1 \/ k.fd # wown[w]

Skip(w) ==
    /\ wpc[w] = "scan"
    /\ InBlock(wcur[w])
    /\ area[wcur[w]].fwd # NULL
    /\ Skipped(w, area[wcur[w]])
    /\ wcur' = [wcur EXCEPT ![w] = area[wcur[w]].fwd]
    /\ UNCHANGED <<area, heapVars, connVars, chan, wpc, wown, wsub, due, desc>>

Pick(w) ==
    /\ wpc[w] = "scan"
    /\ InBlock(wcur[w])
    /\ area[wcur[w]].fwd # NULL
    /\ ~ Skipped(w, area[wcur[w]])
    /\ wpc' = [wpc EXCEPT ![w] = "serve"]
    /\ UNCHANGED <<area, heapVars, connVars, chan, wcur, wown, wsub, due, desc>>

(* memory_sub is copied, and the game's memory is read as the copy says.   *)
Copy(w) ==
    /\ wpc[w] = "serve"
    /\ InBlock(wcur[w])
    /\ wsub' = [wsub EXCEPT ![w] = area[wcur[w]].sub]
    /\ due' = [due EXCEPT ![w] = @ \ {wcur[w]}]
    /\ wpc' = [wpc EXCEPT ![w] = "send"]
    /\ UNCHANGED <<area, heapVars, connVars, chan, wcur, wown, desc>>

(* The sample goes out with the id that the container has by now, or the   *)
(* copy is patched into the game, or there is nothing to do.               *)
Send(w) ==
    /\ wpc[w] = "send"
    /\ InBlock(wcur[w])
    /\ wsub' = [wsub EXCEPT ![w] = NoSub]
    /\ wpc' = [wpc EXCEPT ![w] = "next"]
    /\ UNCHANGED <<area, heapVars, connVars, chan, wcur, wown, due, desc>>

Follow(w) ==
    /\ wpc[w] = "next"
    /\ InBlock(wcur[w])
    /\ wcur' = [wcur EXCEPT ![w] = area[wcur[w]].fwd]
    /\ wpc' = [wpc EXCEPT ![w] = "scan"]
    /\ UNCHANGED <<area, heapVars, connVars, chan, wown, wsub, due, desc>>

(* Mutant: the pass ends at the first free container.                      *)
PassEndAtFree(w) ==
    /\ wpc[w] = "scan"
    /\ InBlock(wcur[w])
    /\ area[wcur[w]].fwd = NULL \/ area[wcur[w]].free = 1
    /\ wpc' = [wpc EXCEPT ![w] = "top"]
    /\ wcur' = [wcur EXCEPT ![w] = 0]
    /\ UNCHANGED <<area, heapVars, connVars, chan, wown, wsub, due, desc>>

PassEnd(w) ==
    /\ wpc[w] = "scan"
    /\ InBlock(wcur[w])
    /\ area[wcur[w]].fwd = NULL
    /\ wpc' = [wpc EXCEPT ![w] = "top"]
    /\ wcur' = [wcur EXCEPT ![w] = 0]
    /\ UNCHANGED <<area, heapVars, connVars, chan, wown, wsub, due, desc>>

(* No game runs any more: the rest of the pass is not due.                 *)
PassCut(w) ==
    /\ wpc[w] = "scan"
    /\ InBlock(wcur[w])
    /\ area[wcur[w]].fwd # NULL
    /\ wpc' = [wpc EXCEPT ![w] = "top"]
    /\ wcur' = [wcur EXCEPT ![w] = 0]
    /\ due' = [due EXCEPT ![w] = {}]
    /\ UNCHANGED <<area, heapVars, connVars, chan, wown, wsub, desc>>

WalkerOut(w) ==
    /\ wpc[w] \in {"scan", "serve", "send", "next"}
    /\ ~ InBlock(wcur[w])
    /\ LeaveHeap

-----------------------------------------------------------------------------
(* The steps of a connection's thread that no client has to trigger.       *)
AddStep(c) ==
    \/ HasRoom(c) \/ Hop(c) \/ Claim(c) \/ WriteHead(c) \/ WriteTail(c)

GrowStep(c) ==
    \/ NoRoom(c) \/ GrowRead(c) \/ GrowWrite(c)
    \/ GrowFlag(c) \/ GrowInPlace(c) \/ GrowElse(c)
    \/ Fix(c) \/ FixOut(c) \/ Unflag(c)

RemoveStep(c) == RemoveRead(c) \/ RemoveHead(c) \/ RemoveTail(c)

DropStep(c) ==
    \/ DropFree(c) \/ DropMatch(c) \/ DropOther(c) \/ DropNext(c)
    \/ Sclose(c)

ConnStep(c) ==
    \/ AddStep(c) \/ GrowStep(c) \/ RemoveStep(c) \/ DropStep(c)
    \/ ConnOut(c)

(* What a client asks for.                                                 *)
Command(c) ==
    \/ Accept(c)
    \/ Disconnect(c)
    \/ \E s \in Subs : SubMem(c, s)
    \/ \E i \in held[c] : FreeSub(c, i)
    \/ \E w \in Walkers : OpenAsync(c, w)

WalkerStep(w) ==
    \/ WalkerStop(w) \/ PassBegin(w)
    \/ Skip(w) \/ Pick(w) \/ Copy(w) \/ Send(w) \/ Follow(w)
    \/ PassEnd(w) \/ PassCut(w) \/ WalkerOut(w)

Next ==
    \/ \E c \in Conns : ConnStep(c) \/ Command(c)
    \/ \E w \in Walkers : WalkerStep(w) \/ ClearOpen(w)

Spec == Init /\ [][Next]_vars

(* The scheduler lets every thread run (ClearOpen is the last step of a     *)
(* connection's thread).  No client has to send anything.                  *)
Fairness ==
    /\ \A c \in Conns : WF_vars(ConnStep(c))
    /\ \A w \in Walkers : WF_vars(WalkerStep(w)) /\ WF_vars(ClearOpen(w))

FairSpec == Spec /\ Fairness

(* Clients that come one after another, on any descriptor.                 *)
OneAtATime ==
    \A c, d \in Conns :
        {pc[c], pc[d]} \cap {"closed", "undefined"} = {} => c = d

SerialSpec == Init /\ [][Next /\ OneAtATime']_vars

FairSerialSpec == SerialSpec /\ Fairness

-----------------------------------------------------------------------------
(* Properties.                                                             *)

InUse(i) == area[i].fwd # NULL

Writing(i) == \E c \in Conns : pc[c] = "tail" /\ cur[c] = i

Live(i) == InUse(i) /\ area[i].free = 0 /\ ~ Writing(i)

(* The ids the protocol hands out are the indexes remove_memory_sub uses,  *)
(* fwd leads to the next container, the containers in use come first and   *)
(* hold a subscription that is written whole, and a free one has a fwd to  *)
(* follow: whatever the threads do, an id never names another container,   *)
(* and no walk of the table is cut short, skips a container or sees one    *)
(* before its memory_sub is there.                                         *)
WellFormed ==
    \A i \in Index :
        /\ InUse(i) => area[i].fwd = i + 1 /\ area[i].id = i /\ area[i].sub # NoSub
        /\ InUse(i) => \A j \in 0 .. i - 1 : InUse(j)
        /\ area[i].free = 1 => InUse(i)

(* Until every container of the first allocation is in use, no thread      *)
(* leaves the block: neither add_memory_sub, nor the walks that look for   *)
(* the end of the table (which is a container of its own).                 *)
UndefinedOnlyWhenFull ==
    (\E c \in Conns : pc[c] = "undefined") => \A i \in 0 .. InitSlots - 1 : InUse(i)

(* Containers are reused: where clients come one after another the table   *)
(* never holds more of them than one client may have subscriptions at a    *)
(* time, so that a server whose clients hold fewer than the first          *)
(* allocation never reallocates.                                           *)
TableBounded == Cardinality({i \in Index : InUse(i)}) <= MaxHeld

(* An id its client was given and has not given up names a subscription of *)
(* that client in the table.                                               *)
HeldIsLive ==
    \A c \in Conns : \A i \in held[c] :
        /\ InUse(i)
        /\ area[i].free = 0
        /\ area[i].fd = c

(* A closed connection has no subscription in the table, so that the next  *)
(* one on its descriptor starts with none.                                 *)
LeavesNothing ==
    \A c \in Conns : pc[c] = "closed" =>
        \A i \in Index : Live(i) => area[i].fd # c

(* A pass that goes to the end of the list has served every subscription   *)
(* that the channel's client held when it began and has not given up       *)
(* since, whatever the client subscribed and freed while it was under way. *)
MissesNothing == \A w \in Walkers : wpc[w] \in {"top", "off"} => due[w] = {}

-----------------------------------------------------------------------------
(* What the threads rely on, for any number of them: with WellFormed it is *)
(* inductive.                                                              *)

(* Container i may be looked at: it is the first, or the one before it is  *)
(* in use, so that every container before it is.                           *)
Reached(i) == i > 0 => i - 1 \in Index /\ InUse(i - 1)

(* A container nobody has finished writing has no owner, so that a walk    *)
(* for an owner never stops at it.                                         *)
UnusedHasNoOwner ==
    \A i \in Index :
        ~ InUse(i) => area[i].fd = NoFd

Growing == {"growRead", "growWrite", "growFlag", "grow", "fix", "unflag"}
Adding == {"walk", "look", "head", "tail"} \cup Growing

AddInv(c) ==
    /\ pc[c] \in Adding => id[c] = cur[c] /\ Reached(cur[c]) /\ new[c] \in Subs
    /\ pc[c] \in Growing => cur[c] >= InitSlots
    /\ pc[c] = "growWrite" => was[c] \in InitSlots .. MaxSlots - GrowSlots
    /\ pc[c] \in {"head", "tail"} => cur[c] \in Index
    /\ pc[c] = "tail" => area[cur[c]].id = cur[c] /\ area[cur[c]].sub \in Subs

RemoveInv(c) ==
    /\ pc[c] \in {"closed", "recv"} => cur[c] = 0 /\ id[c] = 0
    /\ pc[c] \in {"freeRead", "freeHead", "freeTail"} => cur[c] = 0
    /\ pc[c] \in {"drop", "dropRead", "dropHead", "dropTail", "dropNext"} =>
        Reached(cur[c])
    /\ pc[c] \in {"dropRead", "dropHead", "dropTail", "dropNext"} => cur[c] \in Index
    /\ pc[c] \in Removing =>
        id[c] \in Index /\ InUse(id[c])
    /\ pc[c] \in {"freeHead", "freeTail", "dropHead", "dropTail"} =>
        /\ copy[c].id = id[c]
        /\ copy[c].sub \in Subs
        /\ copy[c].fwd = id[c] + 1

HeldInUse(c) == \A i \in held[c] : i \in Index /\ InUse(i)

WalkerInv(w) ==
    /\ wpc[w] \in {"off", "top"} => wcur[w] = 0
    /\ wpc[w] \in {"scan", "serve", "send", "next"} => Reached(wcur[w])
    /\ wpc[w] \in {"serve", "send", "next"} => wcur[w] \in Index /\ InUse(wcur[w])
    /\ wpc[w] = "send" => wsub[w] \in Subs

TableInv == WellFormed /\ UnusedHasNoOwner /\ UndefinedOnlyWhenFull

ConnInv(c) == AddInv(c) /\ RemoveInv(c) /\ HeldInUse(c)

IndInv ==
    /\ TypeOK
    /\ TableInv
    /\ \A c \in Conns : ConnInv(c)
    /\ \A w \in Walkers : WalkerInv(w)

(* What holds besides where clients come one after another: a container    *)
(* that is live, and not just being written for the client that is there,  *)
(* is that client's, and is one it holds, the one being removed, or at the *)
(* end of the connection one its walk has still to come to.                *)
Dropping == {"drop", "dropRead", "dropHead", "dropTail", "dropNext"}

Accounts(c, i) ==
    \/ i \in held[c]
    \/ pc[c] \in {"freeRead", "freeHead"} /\ i = id[c]
    \/ pc[c] \in {"drop", "dropRead", "dropHead"} /\ i >= cur[c]
    \/ pc[c] \in {"dropTail", "dropNext"} /\ i > cur[c]

LiveFor(c, i) ==
    \/ area[i].fd = c /\ Accounts(c, i)
    \/ pc[c] = "tail" /\ i = cur[c]
    \/ pc[c] = "undefined"

LiveAccounted ==
    \A i \in Index : InUse(i) /\ area[i].free = 0 => \E c \in Conns : LiveFor(c, i)

SerialInv(c) ==
    /\ \A i \in held[c] : area[i].free = 0 /\ area[i].fd = c
    /\ pc[c] \in Dropping \cup {"sclose", "closed"} => held[c] = {}
    /\ pc[c] \in {"head", "tail"} => cur[c] \notin held[c]
    /\ pc[c] = "tail" => area[cur[c]].free = 0
    /\ pc[c] \in {"freeRead", "freeHead", "freeTail"} => id[c] \notin held[c]
    /\ pc[c] \in {"dropRead", "dropHead", "dropTail"} => id[c] = cur[c]
    /\ pc[c] \in Removing =>
        area[id[c]].fd = c
    /\ pc[c] \in {"freeHead", "freeTail", "dropHead", "dropTail"} =>
        copy[c].free = 1 /\ copy[c].fd = c

SerialInvariant ==
    /\ OneAtATime
    /\ \A c, d \in Conns : pc[c] = "undefined" => pc[d] = "undefined"
    /\ LiveAccounted
    /\ \A c \in Conns : SerialInv(c)

(* Why a pass misses nothing: a channel that a connection knows is its own *)
(* and runs, and what a pass still owes is held and lies ahead of it.      *)
ChannelInv ==
    \A c \in Conns, w \in Walkers : chan[c] = w =>
        /\ wown[w] = c
        /\ wpc[w] # "off"
        /\ wpc[w] # "undefined" => desc[w] = "open"

PassInv(w) ==
    /\ wpc[w] \in {"off", "top"} => due[w] = {}
    /\ due[w] \subseteq Owed(w)
    /\ wpc[w] \in {"scan", "serve"} => \A i \in due[w] : i >= wcur[w]
    /\ wpc[w] \in {"send", "next"} => \A i \in due[w] : i > wcur[w]

PassInvariant == ChannelInv /\ \A w \in Walkers : PassInv(w)

(* Why the table stays as small as what the client holds: add_memory_sub   *)
(* passes only containers its client holds, so that one it has to take     *)
(* from behind the last has fewer than MaxHeld before it.                  *)
BoundInv(c) ==
    /\ pc[c] \in Adding => Cardinality(held[c]) < MaxHeld
    /\ \/ pc[c] \in {"walk", "look"} \cup Growing
       \/ pc[c] \in {"head", "tail"} /\ ~ InUse(cur[c])
       => 0 .. cur[c] - 1 \subseteq held[c]

InUseBound == \A i \in Index : InUse(i) => i < MaxHeld

BoundInvariant == InUseBound /\ \A c \in Conns : BoundInv(c)

-----------------------------------------------------------------------------
(* A data channel serves no subscription of another connection ("we don't  *)
(* do anything with free'd stuff or stuff that doesn't belong to this      *)
(* connection"): not even when the descriptor is the same again.           *)
ServesOwnConnection ==
    [][\A w \in Walkers :
        /\ wpc[w] = "serve" /\ wpc'[w] = "send"
        /\ Live(wcur[w]) /\ area[wcur[w]].fd = wown[w]
        => chan[wown[w]] = w]_vars

(* The end of a connection comes to its end, whatever clients before it    *)
(* left in the table (clients come one after another; data channels run).  *)
Departs == \A c \in Conns : pc[c] = "drop" ~> pc[c] = "closed"

(* A subscription is answered.                                             *)
Answered == \A c \in Conns : pc[c] = "walk" ~> pc[c] = "recv"

(* When a connection ends, so does the thread of its data channel, which   *)
(* is what frees its AsyncDataDesc.                                        *)
WalkerEnds ==
    \A c \in Conns, w \in Walkers :
        pc[c] = "sclose" /\ chan[c] = w ~> wpc[w] = "off"

(* What the table means as a registry.                                     *)
NothingHere == [sub |-> NoSub]

Meaning == [i \in Index |->
    IF Live(i) THEN [owner |-> area[i].fd, sub |-> area[i].sub] ELSE NothingHere]

Registry == INSTANCE SubRegistry WITH
    Ids <- Index,
    Nothing <- NothingHere,
    registry <- Meaning,
    online <- {c \in Conns : pc[c] # "closed"}

(* Where clients come one after another the table implements the           *)
(* registry: an id names the client's subscription from add_memory_sub's   *)
(* answer until the client gives it up, and then nothing does.             *)
ImplementsRegistry == Registry!Spec
=============================================================================
