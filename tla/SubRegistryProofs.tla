-------------------------- MODULE SubRegistryProofs --------------------------
(***************************************************************************)
(* Proofs about SubRegistry: what any implementation of the registry       *)
(* promises its clients.                                                   *)
(***************************************************************************)
EXTENDS SubRegistry, TLAPS

(* What the steps rely on.                                                 *)
RegistryInv == TypeOK /\ HeldIsOwned /\ AbsentOwnNothing

(* A client is given an id that names nothing, and is the only one to give *)
(* it up.                                                                  *)
LEMMA StepKeepsRegistry ==
    ASSUME Nothing \notin Entry, RegistryInv, NEW c \in Conns,
           \/ Connect(c)
           \/ Leave(c)
           \/ \E I \in SUBSET held[c] : GiveUp(c, I)
           \/ \E i \in Ids : Retire(c, i)
           \/ \E i \in Ids, s \in Subs : Subscribe(c, s, i)
    PROVE  RegistryInv' /\ (\A d \in Conns : \A i \in held[d] : registry'[i] = registry[i])
<1> USE DEF RegistryInv, TypeOK, HeldIsOwned, AbsentOwnNothing, OwnedBy
<1>1. CASE Connect(c)
  BY <1>1 DEF Connect
<1>2. CASE Leave(c)
  BY <1>2 DEF Leave
<1>3. ASSUME NEW I \in SUBSET held[c], GiveUp(c, I)
      PROVE  RegistryInv' /\ (\A d \in Conns : \A i \in held[d] : registry'[i] = registry[i])
  BY <1>3 DEF GiveUp
<1>4. ASSUME NEW i \in Ids, Retire(c, i)
      PROVE  RegistryInv' /\ (\A d \in Conns : \A j \in held[d] : registry'[j] = registry[j])
  BY <1>4 DEF Retire
<1>5. ASSUME NEW i \in Ids, NEW s \in Subs, Subscribe(c, s, i)
      PROVE  RegistryInv' /\ (\A d \in Conns : \A j \in held[d] : registry'[j] = registry[j])
  <2> USE <1>5 DEF Subscribe
  <2>1. [owner |-> c, sub |-> s] \in Entry /\ [owner |-> c, sub |-> s] # Nothing
    BY DEF Entry
  <2>2. \A d \in Conns : i \notin held[d]
    OBVIOUS
  <2>3. TypeOK'
    BY <2>1
  <2>4. \A d \in Conns : \A j \in held[d] : registry'[j] = registry[j]
    BY <2>2
  <2>5. HeldIsOwned'
    BY <2>1, <2>2
  <2>6. AbsentOwnNothing'
    BY <2>1
  <2>7. QED
    BY <2>3, <2>4, <2>5, <2>6
<1>6. QED
  BY <1>1, <1>2, <1>3, <1>4, <1>5

(* The registry's invariant.                                               *)
THEOREM RegistryInvariance ==
    ASSUME Nothing \notin Entry
    PROVE  Spec => []RegistryInv
<1>1. Init => RegistryInv
  BY DEF Init, RegistryInv, TypeOK, HeldIsOwned, AbsentOwnNothing, OwnedBy
<1>2. RegistryInv /\ [Next]_vars => RegistryInv'
  <2> SUFFICES ASSUME RegistryInv, [Next]_vars PROVE RegistryInv'
    OBVIOUS
  <2>1. CASE Next
    BY <2>1, StepKeepsRegistry DEF Next
  <2>2. CASE UNCHANGED vars
    BY <2>2 DEF vars, RegistryInv, TypeOK, HeldIsOwned, AbsentOwnNothing, OwnedBy
  <2>3. QED
    BY <2>1, <2>2
<1>3. QED
  BY <1>1, <1>2, PTL DEF Spec

(* An id a client holds names a subscription of its own, and no two hold   *)
(* the same.                                                               *)
THEOREM HeldIdsAreOwned ==
    ASSUME Nothing \notin Entry
    PROVE  Spec => [](HeldIsOwned /\ HeldByOne /\ AbsentOwnNothing)
<1>1. RegistryInv => HeldIsOwned /\ HeldByOne /\ AbsentOwnNothing
  BY DEF RegistryInv, HeldIsOwned, HeldByOne, OwnedBy
<1>2. QED
  BY <1>1, RegistryInvariance, PTL

(* What an id names does not change while its client holds it.             *)
THEOREM HeldIdsKeepTheirMeaning ==
    ASSUME Nothing \notin Entry
    PROVE  Spec => MeaningIsKept
<1>1. RegistryInv /\ [Next]_vars
      => [\A c \in Conns : \A i \in held[c] : registry'[i] = registry[i]]_vars
  BY StepKeepsRegistry DEF Next
<1>2. QED
  BY <1>1, RegistryInvariance, PTL DEF Spec, MeaningIsKept
=============================================================================
