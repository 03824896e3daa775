---------------------------- MODULE RmdirProofs -----------------------------
(***************************************************************************)
(* Proofs about RmdirRecursive: its recursive functions compute what a     *)
(* closed form says, on every tree.                                        *)
(*                                                                         *)
(* That a recursive function has a closed form is shown in two steps: the  *)
(* closed form satisfies the recursion, so that there is a function that   *)
(* does; and any two that do agree, as otherwise there is a node where     *)
(* they differ and from which the recursion leads only to nodes where they *)
(* do not (up the tree for Above, down for Left).                          *)
(***************************************************************************)
EXTENDS RmdirRecursive, FiniteSetTheorems, WellFoundedInduction, TLAPS

(* The nodes from n up to the root, as the nodes in all sets that have n   *)
(* and the parents of what they have.                                      *)
Ups(t, n) ==
    {S \in SUBSET Nodes : n \in S /\ \A m \in S : t.parent[m] \in S}
Up(t, n) == {a \in Nodes : \A S \in Ups(t, n) : a \in S}

(* Every set of nodes has one that leads out of it, or nowhere.            *)
LEMMA WayUp ==
    ASSUME NEW t \in Tree, NEW S \in SUBSET Nodes, S # {}
    PROVE  \E n \in S : t.parent[n] = n \/ t.parent[n] \notin S
BY DEF Tree

(* A parent is a node.                                                     *)
LEMMA ParentType ==
    ASSUME NEW t \in Tree, NEW n \in Nodes
    PROVE  t.parent[n] \in Nodes
BY DEF Tree

(* A node is above itself.                                                 *)
LEMMA UpSelf ==
    ASSUME NEW t \in Tree, NEW n \in Nodes
    PROVE  n \in Up(t, n) /\ Up(t, n) \subseteq Nodes
BY DEF Up, Ups

(* What is above a node above n is above n.                                *)
LEMMA UpTransitive ==
    ASSUME NEW t \in Tree, NEW n \in Nodes, NEW a \in Up(t, n)
    PROVE  Up(t, a) \subseteq Up(t, n)
BY DEF Up, Ups

(* Above n are n and what is above its parent.                             *)
LEMMA UpStep ==
    ASSUME NEW t \in Tree, NEW n \in Nodes
    PROVE  Up(t, n) = {n} \cup Up(t, t.parent[n])
<1>. DEFINE p == t.parent[n]
            S == {n} \cup Up(t, p)
<1>1. p \in Nodes
  BY ParentType
<1>2. p \in Up(t, n)
  BY <1>1 DEF Up, Ups
<1>3. S \subseteq Up(t, n)
  BY <1>2, UpSelf, UpTransitive
<1>4. S \in Ups(t, n)
  <2>1. S \in SUBSET Nodes
    BY <1>1, UpSelf
  <2>2. ASSUME NEW m \in S
        PROVE  t.parent[m] \in S
    <3>1. CASE m = n
      BY <1>1, <3>1, UpSelf
    <3>2. CASE m \in Up(t, p)
      <4>1. t.parent[m] \in Nodes
        BY <2>1, <2>2, ParentType
      <4>. QED
        BY <3>2, <4>1 DEF Up, Ups
    <3>. QED
      BY <2>2, <3>1, <3>2
  <2>. QED
    BY <2>1, <2>2 DEF Ups
<1>5. Up(t, n) \subseteq S
  BY <1>4 DEF Up
<1>. QED
  BY <1>3, <1>5

(* Above a root is the root alone.                                         *)
LEMMA UpRoot ==
    ASSUME NEW t \in Tree, NEW n \in Nodes, t.parent[n] = n
    PROVE  Up(t, n) = {n}
<1>1. {n} \in Ups(t, n)
  BY DEF Ups
<1>. QED
  BY <1>1, UpSelf DEF Up

(* Nothing but a node itself is both above and below it.                   *)
LEMMA UpAntisymmetric ==
    ASSUME NEW t \in Tree, NEW a \in Nodes, NEW b \in Nodes,
           a \in Up(t, b), b \in Up(t, a)
    PROVE  a = b
<1>. SUFFICES ASSUME a # b PROVE FALSE
  OBVIOUS
<1>. DEFINE S == {x \in Up(t, a) : a \in Up(t, x)}
<1>1. S \in SUBSET Nodes /\ S # {}
  BY UpSelf
<1>2. PICK m \in S : t.parent[m] = m \/ t.parent[m] \notin S
  BY <1>1, WayUp
<1>3. m \in Nodes /\ a \in Up(t, m) /\ m \in Up(t, a)
  BY <1>1, <1>2
<1>4. t.parent[m] \in Nodes /\ t.parent[m] \in Up(t, a)
  BY <1>3, ParentType, UpStep, UpSelf, UpTransitive
<1>5. m = a
  <2>1. CASE t.parent[m] = m
    BY <1>3, <2>1, UpRoot
  <2>2. CASE t.parent[m] \notin S
    <3>1. a \notin Up(t, t.parent[m])
      BY <1>4, <2>2
    <3>. QED
      BY <1>3, <3>1, UpStep
  <2>. QED
    BY <1>2, <2>1, <2>2
<1>6. CASE t.parent[a] = a
  BY <1>6, UpRoot
<1>7. CASE t.parent[a] \notin S
  <2>1. b \in Up(t, t.parent[a])
    BY UpStep
  <2>2. a \in Up(t, t.parent[a])
    BY <1>4, <1>5, <2>1, UpTransitive
  <2>. QED
    BY <1>4, <1>5, <1>7, <2>2
<1>. QED
  BY <1>2, <1>5, <1>6, <1>7

(* Two nodes above one are above one another.                              *)
LEMMA UpLinear ==
    ASSUME NEW t \in Tree, NEW a \in Nodes, NEW b \in Nodes, NEW n \in Nodes,
           a \in Up(t, n), b \in Up(t, n)
    PROVE  a \in Up(t, b) \/ b \in Up(t, a)
<1>. SUFFICES ASSUME a \notin Up(t, b), b \notin Up(t, a) PROVE FALSE
  OBVIOUS
<1>. DEFINE S == {x \in Nodes : a \in Up(t, x) /\ b \in Up(t, x)}
<1>1. S \in SUBSET Nodes /\ S # {}
  OBVIOUS
<1>2. PICK m \in S : t.parent[m] = m \/ t.parent[m] \notin S
  BY <1>1, WayUp
<1>3. a # m /\ b # m
  BY <1>2
<1>4. t.parent[m] \in S
  BY <1>2, <1>3, UpStep, ParentType
<1>5. t.parent[m] = m
  BY <1>2, <1>4
<1>. QED
  BY <1>2, <1>3, <1>5, UpRoot


(* What above[..] in Above is defined to satisfy.                          *)
AboveStep(t, f) ==
    f = [m \in Nodes |->
            IF t.parent[m] = m THEN {m} ELSE {m} \cup f[t.parent[m]]]

(* The recursive function of Above has the closed form.                    *)
LEMMA AboveIsUp ==
    ASSUME NEW t \in Tree, NEW n \in Nodes
    PROVE  Above(t, n) = Up(t, n)
<1>. DEFINE up == [m \in Nodes |-> Up(t, m)]
            f == CHOOSE g : AboveStep(t, g)
<1>1. AboveStep(t, up)
  <2>. SUFFICES ASSUME NEW m \in Nodes
                PROVE  up[m] = IF t.parent[m] = m THEN {m}
                               ELSE {m} \cup up[t.parent[m]]
    BY DEF AboveStep
  <2>. QED
    BY ParentType, UpStep, UpRoot
<1>2. AboveStep(t, f)
  BY <1>1
<1>3. \A m \in Nodes : f[m] = Up(t, m)
  <2>. SUFFICES ASSUME NEW k \in Nodes, f[k] # Up(t, k)
                PROVE  FALSE
    OBVIOUS
  <2>. DEFINE S == {m \in Nodes : f[m] # Up(t, m)}
  <2>1. PICK m \in S : t.parent[m] = m \/ t.parent[m] \notin S
    BY WayUp
  <2>2. f[m] = IF t.parent[m] = m THEN {m} ELSE {m} \cup f[t.parent[m]]
    BY <1>2 DEF AboveStep
  <2>3. t.parent[m] # m => f[t.parent[m]] = Up(t, t.parent[m])
    BY <2>1, ParentType
  <2>. QED
    BY <2>1, <2>2, <2>3, UpStep, UpRoot
<1>4. Above(t, n) = f[n]
  BY DEF Above, AboveStep
<1>. QED
  BY <1>3, <1>4

-----------------------------------------------------------------------------
(* What is below a node.                                                   *)
LEMMA BelowUp ==
    ASSUME NEW t \in Tree, NEW d \in Nodes, NEW n \in Nodes
    PROVE  n \in Below(t, d) <=> d \in Up(t, n)
BY AboveIsUp DEF Below

(* A node is below itself; below is a set of nodes.                        *)
LEMMA BelowSelf ==
    ASSUME NEW t \in Tree, NEW d \in Nodes
    PROVE  d \in Below(t, d) /\ Below(t, d) \subseteq Nodes
BY BelowUp, UpSelf DEF Below

(* What is below a node below d is below d.                                *)
LEMMA BelowTransitive ==
    ASSUME NEW t \in Tree, NEW d \in Nodes, NEW n \in Below(t, d)
    PROVE  Below(t, n) \subseteq Below(t, d)
<1>1. n \in Nodes /\ d \in Up(t, n)
  BY BelowSelf, BelowUp
<1>. SUFFICES ASSUME NEW m \in Below(t, n) PROVE m \in Below(t, d)
  OBVIOUS
<1>2. m \in Nodes /\ n \in Up(t, m)
  BY <1>1, BelowSelf, BelowUp
<1>. QED
  BY <1>1, <1>2, UpTransitive, BelowUp

(* Two nodes below one another are one.                                    *)
LEMMA BelowAntisymmetric ==
    ASSUME NEW t \in Tree, NEW d \in Nodes, NEW n \in Below(t, d),
           d \in Below(t, n)
    PROVE  n = d
BY BelowSelf, BelowUp, UpAntisymmetric

(* Of two nodes that a third is below, one is below the other.             *)
LEMMA BelowLinear ==
    ASSUME NEW t \in Tree, NEW a \in Nodes, NEW b \in Nodes,
           NEW n \in Below(t, a), n \in Below(t, b)
    PROVE  a \in Below(t, b) \/ b \in Below(t, a)
BY BelowSelf, BelowUp, UpLinear

(* An entry of d is a node below d, and d is not below it.                 *)
LEMMA EntryBelow ==
    ASSUME NEW t \in Tree, NEW d \in Nodes, NEW e \in Entries(t, d)
    PROVE  e \in Nodes /\ e \in Below(t, d) /\ d \notin Below(t, e)
<1>1. e \in Nodes /\ e # d /\ t.parent[e] = d
  BY DEF Entries
<1>2. d \in Up(t, e)
  BY <1>1, UpStep, UpSelf
<1>3. e \in Below(t, d)
  BY <1>1, <1>2, BelowUp
<1>. QED
  BY <1>1, <1>3, BelowAntisymmetric

(* Below d are d and what is below its entries.                            *)
LEMMA BelowStep ==
    ASSUME NEW t \in Tree, NEW d \in Nodes
    PROVE  Below(t, d) = {d} \cup UNION {Below(t, e) : e \in Entries(t, d)}
<1>. DEFINE inEntries == UNION {Below(t, e) : e \in Entries(t, d)}
            S == {m \in Below(t, d) : m # d /\ m \notin inEntries}
<1>1. {d} \cup inEntries \subseteq Below(t, d)
  BY BelowSelf, EntryBelow, BelowTransitive
<1>2. S = {}
  <2>. SUFFICES ASSUME S # {} PROVE FALSE
    OBVIOUS
  <2>1. S \in SUBSET Nodes
    BY BelowSelf
  <2>2. PICK m \in S : t.parent[m] = m \/ t.parent[m] \notin S
    BY <2>1, WayUp
  <2>3. m \in Nodes /\ m # d /\ m \notin inEntries /\ d \in Up(t, m)
    BY <2>1, <2>2, BelowUp
  <2>. DEFINE p == t.parent[m]
  <2>4. p # m
    BY <2>3, UpRoot
  <2>5. p \in Nodes /\ p \in Below(t, d)
    BY <2>3, UpStep, ParentType, BelowUp
  <2>6. m \in Below(t, p)
    BY <2>3, <2>5, UpStep, UpSelf, BelowUp
  <2>7. CASE p = d
    <3>1. m \in Entries(t, d)
      BY <2>3, <2>7 DEF Entries
    <3>. QED
      BY <2>3, <3>1, BelowSelf
  <2>8. CASE p \in inEntries
    <3>1. PICK e \in Entries(t, d) : p \in Below(t, e)
      BY <2>8
    <3>2. m \in Below(t, e)
      BY <2>6, <3>1, EntryBelow, BelowTransitive
    <3>. QED
      BY <2>3, <3>2
  <2>. QED
    BY <2>2, <2>4, <2>5, <2>7, <2>8
<1>. QED
  BY <1>1, <1>2

(* Every set of nodes has one none of whose entries is in it: one with as  *)
(* few nodes below it as any.                                              *)
LEMMA WayDown ==
    ASSUME NEW t \in Tree, NEW S \in SUBSET Nodes, S # {}
    PROVE  \E n \in S : Entries(t, n) \cap S = {}
<1>. DEFINE size(n) == Cardinality(Below(t, n))
            sizes == {size(n) : n \in S}
<1>1. \A n \in Nodes : IsFiniteSet(Below(t, n)) /\ size(n) \in Nat
  BY NodesAssumption, BelowSelf, FS_Subset, FS_CardinalityType
<1>2. sizes \subseteq Nat /\ sizes # {}
  BY <1>1
<1>3. PICK s \in sizes : \A k \in sizes : ~ (<<k, s>> \in OpToRel(<, Nat))
  BY <1>2, NatLessThanWellFounded, WFMin
<1>4. \A k \in sizes : ~ (k < s)
  BY <1>2, <1>3 DEF OpToRel
<1>5. PICK n \in S : size(n) = s
  BY <1>3
<1>6. ASSUME NEW e \in Entries(t, n), e \in S
      PROVE  FALSE
  <2>1. /\ Below(t, e) \in SUBSET Below(t, n)
        /\ Below(t, e) # Below(t, n)
    BY EntryBelow, BelowSelf, BelowTransitive
  <2>2. size(e) <= size(n) /\ size(e) # size(n)
    BY <1>1, <2>1, FS_Subset
  <2>3. size(e) \in sizes /\ size(e) \in Nat /\ size(n) \in Nat
    BY <1>1, <1>6
  <2>. QED
    BY <1>4, <1>5, <2>2, <2>3
<1>. QED
  BY <1>6

-----------------------------------------------------------------------------
(* What rmdir_recursive leaves.                                            *)

(* What has to stay below d: what is stuck, and what the walk does not     *)
(* reach; and with it the directories around it.                           *)
Stays(t, d) ==
    {n \in Below(t, d) :
        n \in t.stuck \/ \E u \in t.unread \cap Below(t, d) : n \in Below(t, u)}
Kept(t, d) == {n \in Below(t, d) : Below(t, n) \cap Stays(t, d) # {}}

(* What of d has to stay does for each directory d is in.                  *)
LEMMA StaysMonotone ==
    ASSUME NEW t \in Tree, NEW d \in Nodes, NEW e \in Below(t, d)
    PROVE  Stays(t, e) \subseteq Stays(t, d)
BY BelowTransitive DEF Stays

(* A directory that the walk gets past keeps what each entry keeps.        *)
LEMMA StaysInEntry ==
    ASSUME NEW t \in Tree, NEW d \in Nodes, d \notin t.unread,
           NEW e \in Entries(t, d), NEW m \in Below(t, e), m \in Stays(t, d)
    PROVE  m \in Stays(t, e)
<1>1. CASE m \in t.stuck
  BY <1>1 DEF Stays
<1>2. ASSUME NEW u \in t.unread \cap Below(t, d), m \in Below(t, u)
      PROVE  u \in Below(t, e)
  <2>1. e \in Nodes /\ u \in Nodes /\ u # d
    BY EntryBelow, BelowSelf
  <2>2. u \in Below(t, e) \/ e \in Below(t, u)
    BY <1>2, <2>1, BelowLinear
  <2>3. CASE e \in Below(t, u) /\ u # e
    <3>1. u \in Up(t, e) /\ t.parent[e] = d
      BY <2>1, <2>3, BelowUp DEF Entries
    <3>2. u \in Up(t, d)
      BY <2>1, <2>3, <3>1, UpStep
    <3>3. d \in Below(t, u)
      BY <2>1, <3>2, BelowUp
    <3>. QED
      BY <2>1, <3>3, BelowAntisymmetric
  <2>. QED
    BY <2>1, <2>2, <2>3, BelowSelf
<1>. QED
  BY <1>1, <1>2 DEF Stays

(* What left[..] in Left is defined to satisfy.                            *)
LeftStep(t, f) ==
    f = [n \in Nodes |->
            IF n \in t.unread THEN Below(t, n)
            ELSE IF n \notin t.dirs THEN {n} \cap t.stuck
            ELSE LET below == UNION {f[m] : m \in Entries(t, n)}
                 IN  IF below = {} /\ n \notin t.stuck THEN {}
                     ELSE {n} \cup below]

(* Where the walk does not get in, everything is kept.                     *)
LEMMA KeptUnread ==
    ASSUME NEW t \in Tree, NEW d \in t.unread
    PROVE  Kept(t, d) = Below(t, d)
<1>1. d \in Nodes /\ d \in Below(t, d)
  BY BelowSelf DEF Tree
<1>2. \A n \in Below(t, d) : n \in Below(t, n) /\ n \in Stays(t, d)
  BY <1>1, BelowSelf DEF Stays
<1>. QED
  BY <1>2 DEF Kept

(* A file is kept if it is stuck.                                          *)
LEMMA KeptFile ==
    ASSUME NEW t \in Tree, NEW d \in Nodes, d \notin t.unread, d \notin t.dirs
    PROVE  Kept(t, d) = {d} \cap t.stuck
<1>1. Entries(t, d) = {}
  BY DEF Entries, Tree
<1>2. Below(t, d) = {d}
  BY <1>1, BelowStep
<1>. QED
  BY <1>2 DEF Kept, Stays

(* A directory is kept if it is stuck or something in it is kept.          *)
LEMMA KeptDir ==
    ASSUME NEW t \in Tree, NEW d \in Nodes, d \notin t.unread
    PROVE  LET below == UNION {Kept(t, e) : e \in Entries(t, d)}
           IN  Kept(t, d) = IF below = {} /\ d \notin t.stuck THEN {}
                            ELSE {d} \cup below
<1>. DEFINE below == UNION {Kept(t, e) : e \in Entries(t, d)}
<1>1. ASSUME NEW e \in Entries(t, d), NEW n \in Below(t, e)
      PROVE  n \in Kept(t, e) <=> n \in Kept(t, d)
  <2>1. e \in Nodes /\ n \in Below(t, d) /\ Below(t, n) \subseteq Below(t, e)
    BY EntryBelow, BelowTransitive
  <2>2. \A m \in Below(t, n) : m \in Stays(t, e) <=> m \in Stays(t, d)
    BY <2>1, StaysInEntry, StaysMonotone, EntryBelow
  <2>. QED
    BY <2>1, <2>2 DEF Kept
<1>2. \A n \in Nodes : n # d => (n \in below <=> n \in Kept(t, d))
  <2>. SUFFICES ASSUME NEW n \in Nodes, n # d
                PROVE  n \in below <=> n \in Kept(t, d)
    OBVIOUS
  <2>1. n \in below => n \in Kept(t, d)
    BY <1>1 DEF Kept
  <2>2. ASSUME n \in Kept(t, d)
        PROVE  n \in below
    <3>1. PICK e \in Entries(t, d) : n \in Below(t, e)
      BY <2>2, BelowStep DEF Kept
    <3>. QED
      BY <1>1, <2>2, <3>1
  <2>. QED
    BY <2>1, <2>2
<1>3. d \notin below
  BY EntryBelow DEF Kept
<1>4. Kept(t, d) \subseteq Nodes /\ below \subseteq Nodes
  BY BelowSelf, EntryBelow DEF Kept
<1>5. d \in t.stuck => d \in Kept(t, d)
  BY BelowSelf DEF Kept, Stays
<1>6. ASSUME NEW n \in Kept(t, d)
      PROVE  d \in Kept(t, d)
  BY BelowSelf, BelowTransitive DEF Kept
<1>7. ASSUME d \in Kept(t, d), d \notin t.stuck
      PROVE  below # {}
  <2>1. PICK m \in Stays(t, d) : m \in Below(t, d)
    BY <1>7 DEF Kept
  <2>2. m # d
    <3>. SUFFICES ASSUME m = d PROVE FALSE
      OBVIOUS
    <3>1. PICK u \in t.unread \cap Below(t, d) : d \in Below(t, u)
      BY <1>7, <2>1 DEF Stays
    <3>. QED
      BY <3>1, BelowAntisymmetric
  <2>3. m \in Kept(t, d)
    BY <2>1, BelowSelf DEF Kept
  <2>. QED
    BY <1>2, <1>4, <2>2, <2>3
<1>8. CASE below = {} /\ d \notin t.stuck
  <2>1. Kept(t, d) = {}
    BY <1>6, <1>7, <1>8
  <2>. QED
    BY <1>8, <2>1
<1>9. CASE ~ (below = {} /\ d \notin t.stuck)
  <2>1. d \in Kept(t, d)
    <3>1. CASE d \in t.stuck
      BY <1>5, <3>1
    <3>2. CASE below # {}
      <4>1. PICK n \in below : TRUE
        BY <3>2
      <4>. QED
        BY <1>2, <1>3, <1>4, <1>6, <4>1
    <3>. QED
      BY <1>9, <3>1, <3>2
  <2>2. Kept(t, d) = {d} \cup below
    BY <1>2, <1>3, <1>4, <2>1
  <2>. QED
    BY <1>9, <2>2
<1>. QED
  BY <1>8, <1>9

(* The recursive function of Left leaves what is to be kept: what is stuck *)
(* or not reached and the directories around it, on every tree.            *)
LEMMA LeftIsKept ==
    ASSUME NEW t \in Tree, NEW d \in Nodes
    PROVE  Left(t, d) = Kept(t, d)
<1>. DEFINE kept == [n \in Nodes |-> Kept(t, n)]
            f == CHOOSE g : LeftStep(t, g)
<1>0. \A n \in Nodes : Entries(t, n) \subseteq Nodes
  BY DEF Entries
<1>1. LeftStep(t, kept)
  <2>. DEFINE inside(n) == UNION {kept[m] : m \in Entries(t, n)}
  <2>. SUFFICES ASSUME NEW n \in Nodes
                PROVE  kept[n] =
                          IF n \in t.unread THEN Below(t, n)
                          ELSE IF n \notin t.dirs THEN {n} \cap t.stuck
                          ELSE IF inside(n) = {} /\ n \notin t.stuck THEN {}
                               ELSE {n} \cup inside(n)
    BY DEF LeftStep
  <2>1. inside(n) = UNION {Kept(t, e) : e \in Entries(t, n)}
    BY <1>0
  <2>2. CASE n \in t.unread
    BY <2>2, KeptUnread
  <2>3. CASE n \notin t.unread /\ n \notin t.dirs
    BY <2>3, KeptFile
  <2>4. CASE n \notin t.unread /\ n \in t.dirs
    BY <2>1, <2>4, KeptDir
  <2>. QED
    BY <2>2, <2>3, <2>4
<1>2. LeftStep(t, f)
  BY <1>1
<1>3. \A n \in Nodes : f[n] = Kept(t, n)
  <2>. SUFFICES ASSUME NEW k \in Nodes, f[k] # Kept(t, k)
                PROVE  FALSE
    OBVIOUS
  <2>. DEFINE S == {n \in Nodes : f[n] # Kept(t, n)}
  <2>1. PICK n \in S : Entries(t, n) \cap S = {}
    BY WayDown
  <2>2. \A e \in Entries(t, n) : f[e] = kept[e]
    BY <1>0, <2>1
  <2>3. UNION {f[e] : e \in Entries(t, n)} = UNION {kept[e] : e \in Entries(t, n)}
    BY <2>2
  <2>. DEFINE step(inside) ==
                  IF n \in t.unread THEN Below(t, n)
                  ELSE IF n \notin t.dirs THEN {n} \cap t.stuck
                  ELSE IF inside = {} /\ n \notin t.stuck THEN {}
                       ELSE {n} \cup inside
  <2>4. f[n] = step(UNION {f[e] : e \in Entries(t, n)})
    BY <1>2 DEF LeftStep
  <2>5. kept[n] = step(UNION {kept[e] : e \in Entries(t, n)})
    BY <1>1 DEF LeftStep
  <2>6. f[n] = kept[n]
    BY <2>3, <2>4, <2>5
  <2>. QED
    BY <2>1, <2>6
<1>4. Left(t, d) = f[d]
  BY DEF Left, LeftStep
<1>. QED
  BY <1>3, <1>4


(* rmdir_recursive leaves, of the directory it is given, what is stuck or  *)
(* not reached and the directories around it, and all that is not in it;   *)
(* it fails if, and only if, it leaves something of the directory.         *)
THEOREM RmdirLeavesWhatStays ==
    ASSUME NEW t \in Tree, NEW d \in Nodes
    PROVE  /\ Rmdir(t, d).left = {n \in Nodes : n \in Below(t, d) => n \in Kept(t, d)}
           /\ Rmdir(t, d).err = 0 <=> Rmdir(t, d).left \cap Below(t, d) = {}
<1>1. Rmdir(t, d).left = {n \in Nodes : n \in Below(t, d) => n \in Kept(t, d)}
  BY LeftIsKept DEF Rmdir
<1>2. Rmdir(t, d).err = IF d \in Kept(t, d) THEN -1 ELSE 0
  BY LeftIsKept DEF Rmdir
<1>3. Rmdir(t, d).left \cap Below(t, d) = Kept(t, d)
  BY <1>1, BelowSelf DEF Kept
<1>4. d \in Kept(t, d) <=> Kept(t, d) # {}
  BY BelowSelf, BelowTransitive DEF Kept
<1>. QED
  BY <1>1, <1>2, <1>3, <1>4
=============================================================================
