---------------------------- MODULE SubRegistry ----------------------------
(***************************************************************************)
(* What the subscription table of ratchetron.c promises a client, with no  *)
(* table, no pointers and no threads: a registry of subscriptions, each    *)
(* under an id that names it until its owner gives the id up, and a        *)
(* connection that leaves nothing behind.  MemorySubs implements it where  *)
(* clients come one after another.                                         *)
(***************************************************************************)

CONSTANTS
    Conns,      \* the socket descriptors a connection can have
    Subs,       \* the subscriptions a client can ask for
    Ids,        \* the ids a subscription can get
    Nothing     \* the registry's value at an id that names no subscription

VARIABLES
    registry,   \* what each id names
    held,       \* the ids each client was given and has not given up
    online      \* the connections that are open

vars == <<registry, held, online>>

Entry == [owner : Conns, sub : Subs]

TypeOK ==
    /\ registry \in [Ids -> Entry \cup {Nothing}]
    /\ held \in [Conns -> SUBSET Ids]
    /\ online \subseteq Conns

OwnedBy(c) == {i \in Ids : registry[i] # Nothing /\ registry[i].owner = c}

Init ==
    /\ registry = [i \in Ids |-> Nothing]
    /\ held = [c \in Conns |-> {}]
    /\ online = {}

Connect(c) ==
    /\ c \notin online
    /\ online' = online \cup {c}
    /\ UNCHANGED <<registry, held>>

(* Any id that names nothing may be given out.                             *)
Subscribe(c, s, i) ==
    /\ c \in online
    /\ registry[i] = Nothing
    /\ registry' = [registry EXCEPT ![i] = [owner |-> c, sub |-> s]]
    /\ held' = [held EXCEPT ![c] = @ \cup {i}]
    /\ UNCHANGED online

(* The client gives up one id, or all of them when it disconnects.         *)
GiveUp(c, I) ==
    /\ held' = [held EXCEPT ![c] = @ \ I]
    /\ UNCHANGED <<registry, online>>

(* The subscription under an id that was given up ends.                    *)
Retire(c, i) ==
    /\ i \in OwnedBy(c) \ held[c]
    /\ registry' = [registry EXCEPT ![i] = Nothing]
    /\ UNCHANGED <<held, online>>

Leave(c) ==
    /\ c \in online
    /\ OwnedBy(c) = {}
    /\ online' = online \ {c}
    /\ UNCHANGED <<registry, held>>

Next ==
    \E c \in Conns :
        \/ Connect(c)
        \/ Leave(c)
        \/ \E I \in SUBSET held[c] : GiveUp(c, I)
        \/ \E i \in Ids : Retire(c, i)
        \/ \E i \in Ids, s \in Subs : Subscribe(c, s, i)

Spec == Init /\ [][Next]_vars

-----------------------------------------------------------------------------
(* An id a client was given and has not given up names a subscription of   *)
(* that client, whatever other clients do.                                 *)
HeldIsOwned == \A c \in Conns : held[c] \subseteq OwnedBy(c)

(* No two clients have an id in common.                                    *)
HeldByOne == \A c, d \in Conns : c # d => held[c] \cap held[d] = {}

(* A client that is not there owns nothing.                                *)
AbsentOwnNothing == \A c \in Conns \ online : OwnedBy(c) = {}

(* No step changes what an id names that a client holds.                   *)
MeaningIsKept == [][\A c \in Conns : \A i \in held[c] : registry'[i] = registry[i]]_vars
=============================================================================
