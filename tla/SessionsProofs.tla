--------------------------- MODULE SessionsProofs ---------------------------
(***************************************************************************)
(* Proofs about Sessions, for any number of threads and descriptors.       *)
(***************************************************************************)
EXTENDS Sessions, FiniteSetTheorems, TLAPS

(* A channel's descriptor is allocated, and open as long as a connection   *)
(* holds it; that connection knows of the channel.                         *)
ChannelInv ==
    \A w \in Channels : wpc[w] # "off" =>
        /\ heap[own[w]] # "free"
        /\ \A h \in Handlers : pc[h] \in Holding /\ desc[h] = own[w] =>
            async_t_id[h] /\ heap[own[w]] = "open"

(* Connections that run hold descriptors of their own; the others have     *)
(* started no channel.                                                     *)
HandlerInv ==
    /\ \A h \in Handlers : pc[h] \in Holding => heap[desc[h]] # "free"
    /\ \A h \in Handlers : pc[h] \notin Holding => ~ async_t_id[h]
    /\ \A g, h \in Handlers :
        pc[g] \in Holding /\ pc[h] \in Holding /\ desc[g] = desc[h] => g = h

(* So do channels.                                                         *)
UniqueInv ==
    \A v, w \in Channels :
        wpc[v] # "off" /\ wpc[w] # "off" /\ own[v] = own[w] => v = w

(* Without a server that listens there is no connection and no channel.    *)
ServerInv ==
    /\ mpc = "loading" => spc = "none"
    /\ mpc \in {"unload", "unloaded"} => spc \in {"none", "ended"}
    /\ spc \in {"none", "start", "ended"} =>
        /\ list_s = "none"
        /\ \A h \in Handlers : pc[h] = "idle"
        /\ \A w \in Channels : wpc[w] = "off"

IndInv ==
    /\ TypeOK /\ SocketsAccounted /\ ServerInv
    /\ ChannelInv /\ HandlerInv /\ UniqueInv
-----------------------------------------------------------------------------
(* The invariant holds at the start.                                       *)
LEMMA InitIndInv == Init => IndInv
<1> SUFFICES ASSUME Init PROVE IndInv
  OBVIOUS
<1>1. Connections = {}
  BY DEF Init, Connections, Connected
<1>2. Cardinality(Connections) = 0
  BY <1>1, FS_EmptySet
<1>3. SocketsAccounted
  BY <1>2 DEF Init, SocketsAccounted
<1>. QED
  BY <1>3, SessionsAssumption
  DEF Init, IndInv, TypeOK, ChannelInv, HandlerInv, UniqueInv,
      ServerInv, Holding, Connected

(* What a step of the module, the server or the network can disturb: only  *)
(* Spawn touches a connection, and no such step a descriptor or a channel. *)
LEMMA ServerSteps ==
    ASSUME Module \/ Server \/ NetworkDown \/ NetworkUp
    PROVE  /\ UNCHANGED <<desc, async_t_id, heap, channelVars>>
           /\ UNCHANGED pc \/ \E h \in Handlers : Spawn(h)
<1> USE DEF moduleVars, serverVars, connVars, channelVars
<1>1. CASE Module
  BY <1>1 DEF Module, Load, Stop, Join, Unload, StopThread
<1>2. CASE Server
  BY <1>2 DEF Server, CoreVersion, Slisten, Listen, ListenDeaf, Accept,
              AcceptFails, SpawnFails, Spawn
<1>3. CASE NetworkDown \/ NetworkUp
  BY <1>3 DEF NetworkDown, NetworkUp
<1>. QED
  BY <1>1, <1>2, <1>3

(* The number of connections with an open socket, when one of them starts  *)
(* or ends to have one.                                                    *)
LEMMA ConnectionsChange ==
    ASSUME TypeOK, NEW h \in Handlers, NEW l, pc' = [pc EXCEPT ![h] = l]
    PROVE  /\ Cardinality(Connections) \in Nat
           /\ pc[h] \in Connected => Cardinality(Connections) > 0
           /\ l \in Connected /\ pc[h] \notin Connected =>
                Cardinality(Connections') = Cardinality(Connections) + 1
           /\ l \notin Connected /\ pc[h] \in Connected =>
                Cardinality(Connections') = Cardinality(Connections) - 1
           /\ (l \in Connected <=> pc[h] \in Connected) =>
                Connections' = Connections
<1>1. IsFiniteSet(Connections) /\ Cardinality(Connections) \in Nat
  BY SessionsAssumption, FS_Subset, FS_CardinalityType DEF Connections
<1>2. h \in Connections <=> pc[h] \in Connected
  BY DEF Connections
<1>3. pc[h] \in Connected => Cardinality(Connections) > 0
  <2>1. SUFFICES ASSUME Cardinality(Connections) = 0 PROVE h \notin Connections
    BY <1>1, <1>2
  <2>. QED
    BY <1>1, <2>1, FS_EmptySet
<1>4. CASE l \in Connected
  <2>1. Connections' = Connections \cup {h}
    BY <1>4 DEF TypeOK, Connections
  <2>2. h \notin Connections => Cardinality(Connections') = Cardinality(Connections) + 1
    BY <1>1, <2>1, FS_AddElement
  <2>3. h \in Connections => Connections' = Connections
    BY <2>1
  <2>. QED
    BY <1>1, <1>2, <1>3, <1>4, <2>2, <2>3
<1>5. CASE l \notin Connected
  <2>1. Connections' = Connections \ {h}
    BY <1>5 DEF TypeOK, Connections
  <2>2. h \in Connections => Cardinality(Connections') = Cardinality(Connections) - 1
    BY <1>1, <2>1, FS_RemoveElement
  <2>3. h \notin Connections => Connections' = Connections
    BY <2>1
  <2>. QED
    BY <1>1, <1>2, <1>3, <1>5, <2>2, <2>3
<1>. QED
  BY <1>4, <1>5

(* Types are kept by every step.                                           *)
LEMMA TypeKept == TypeOK /\ [Next]_vars => TypeOK'
<1> SUFFICES ASSUME TypeOK, [Next]_vars PROVE TypeOK'
  OBVIOUS
<1> USE DEF moduleVars, serverVars, connVars, channelVars, TypeOK
<1>1. CASE Module
  BY <1>1 DEF Module, Load, Stop, Join, Unload, StopThread
<1>2. CASE NetworkDown \/ NetworkUp \/ UNCHANGED vars
  <2>1. CASE NetworkDown
    BY <2>1 DEF NetworkDown
  <2>2. CASE NetworkUp
    BY <2>2 DEF NetworkUp
  <2>3. CASE UNCHANGED vars
    BY <2>3 DEF vars
  <2>. QED
    BY <1>2, <2>1, <2>2, <2>3
<1>3. CASE Server
  <2>1. CASE CoreVersion \/ Listen \/ ListenDeaf \/ Accept \/ AcceptFails \/ SpawnFails
    BY <2>1 DEF CoreVersion, Slisten, Listen, ListenDeaf, Accept, AcceptFails,
                SpawnFails
  <2>2. CASE \E h \in Handlers : Spawn(h)
    BY <2>2 DEF Spawn, Holding, Connected
  <2>. QED
    BY <1>3, <2>1, <2>2 DEF Server
<1>4. ASSUME NEW h \in Handlers, Handler(h)
      PROVE  TypeOK'
  <2>1. CASE NoBuffer(h) \/ Disconnect(h) \/ Sclose(h)
    BY <2>1 DEF NoBuffer, Disconnect, Sclose, Holding, Connected
  <2>2. CASE Begin(h)
    BY <2>2 DEF Begin, Holding, Connected
  <2>3. CASE OpenAsyncFails(h)
    BY <2>3 DEF OpenAsyncFails, Holding
  <2>4. CASE \E w \in Channels : OpenAsync(h, w)
    BY <2>4 DEF OpenAsync, StartChannel, Holding
  <2>5. CASE ClearOpen(h)
    BY <2>5 DEF ClearOpen, Holding, Connected
  <2>. QED
    BY <1>4, <2>1, <2>2, <2>3, <2>4, <2>5 DEF Handler
<1>5. ASSUME NEW w \in Channels, Channel(w)
      PROVE  TypeOK'
  BY <1>5 DEF Channel, ChannelSocket, ChannelNoSocket, ChannelEnds
<1>. QED
  BY <1>1, <1>2, <1>3, <1>4, <1>5 DEF Next

(* So is the count of sockets.                                             *)
LEMMA CountKept ==
    ASSUME TypeOK, SocketsAccounted, mpc = "loading" => spc = "none", [Next]_vars
    PROVE  SocketsAccounted'
<1> USE DEF moduleVars, serverVars, connVars, channelVars
<1>1. Cardinality(Connections) \in Nat
  BY SessionsAssumption, FS_Subset, FS_CardinalityType DEF Connections
<1>0. /\ "idle" \notin Connected /\ "clear" \notin Connected
      /\ "start" \in Connected /\ "recv" \in Connected /\ "sclose" \in Connected
  BY DEF Connected
<1>2. CASE Module
  BY <1>2 DEF Module, Load, Stop, Join, Unload, StopThread, SocketsAccounted,
              Connections
<1>7. CASE NetworkDown \/ NetworkUp \/ UNCHANGED vars
  BY <1>7 DEF NetworkDown, NetworkUp, vars, SocketsAccounted, Connections
<1>3. CASE CoreVersion \/ Listen \/ ListenDeaf \/ Accept \/ AcceptFails \/ SpawnFails
  <2> USE DEF CoreVersion, Slisten, Listen, ListenDeaf, Accept, AcceptFails,
              SpawnFails
  <2>1. Connections' = Connections
    BY <1>3 DEF Connections
  <2>. QED
    BY <1>1, <1>3, <2>1 DEF TypeOK, SocketsAccounted
<1>4. ASSUME NEW h \in Handlers, Spawn(h)
      PROVE  SocketsAccounted'
  <2>1. pc' = [pc EXCEPT ![h] = "start"] /\ pc[h] = "idle"
    BY <1>4 DEF Spawn
  <2>2. Cardinality(Connections') = Cardinality(Connections) + 1
    BY <2>1, <1>0, ConnectionsChange
  <2>. QED
    BY <1>1, <1>4, <2>2 DEF Spawn, TypeOK, SocketsAccounted
<1>5. ASSUME NEW h \in Handlers, Handler(h)
      PROVE  SocketsAccounted'
  <2>1. CASE NoBuffer(h)
    <3>1. pc' = [pc EXCEPT ![h] = "idle"] /\ pc[h] = "start"
      BY <2>1 DEF NoBuffer, TypeOK
    <3>2. Cardinality(Connections') = Cardinality(Connections) - 1
      BY <3>1, <1>0, ConnectionsChange
    <3>. QED
      BY <1>1, <2>1, <3>2 DEF NoBuffer, TypeOK, SocketsAccounted
  <2>2. CASE Begin(h)
    <3>1. pc' = [pc EXCEPT ![h] = "recv"] /\ pc[h] = "start"
      BY <2>2 DEF Begin, TypeOK
    <3>2. Connections' = Connections
      BY <3>1, <1>0, ConnectionsChange
    <3>. QED
      BY <1>1, <2>2, <3>2 DEF Begin, TypeOK, SocketsAccounted
  <2>3. CASE Disconnect(h)
    <3>1. pc' = [pc EXCEPT ![h] = "sclose"] /\ pc[h] = "recv"
      BY <2>3 DEF Disconnect, TypeOK
    <3>2. Connections' = Connections
      BY <3>1, <1>0, ConnectionsChange
    <3>. QED
      BY <1>1, <2>3, <3>2 DEF Disconnect, TypeOK, SocketsAccounted
  <2>4. CASE Sclose(h)
    <3>1. pc' = [pc EXCEPT ![h] = "clear"] /\ pc[h] = "sclose"
      BY <2>4 DEF Sclose, TypeOK
    <3>2. Cardinality(Connections') = Cardinality(Connections) - 1
      BY <3>1, <1>0, ConnectionsChange
    <3>. QED
      BY <1>1, <2>4, <3>2 DEF Sclose, TypeOK, SocketsAccounted
  <2>5. CASE ClearOpen(h)
    <3>1. pc' = [pc EXCEPT ![h] = "idle"] /\ pc[h] = "clear"
      BY <2>5 DEF ClearOpen, TypeOK
    <3>2. Connections' = Connections
      BY <3>1, <1>0, ConnectionsChange
    <3>. QED
      BY <1>1, <2>5, <3>2 DEF ClearOpen, TypeOK, SocketsAccounted
  <2>6. CASE OpenAsyncFails(h) \/ \E w \in Channels : OpenAsync(h, w)
    BY <2>6
    DEF OpenAsyncFails, OpenAsync, StartChannel, SocketsAccounted, Connections
  <2>. QED
    BY <1>5, <2>1, <2>2, <2>3, <2>4, <2>5, <2>6 DEF Handler
<1>6. ASSUME NEW w \in Channels, Channel(w)
      PROVE  SocketsAccounted'
  BY <1>6
  DEF Channel, ChannelSocket, ChannelNoSocket, ChannelEnds, SocketsAccounted,
      Connections
<1>. QED
  BY <1>2, <1>3, <1>4, <1>5, <1>6, <1>7 DEF Next, Server

(* No connection before the server listens, and no stop after.             *)
LEMMA ServerKept ==
    ASSUME TypeOK, HandlerInv, ServerInv, [Next]_vars
    PROVE  ServerInv'
<1> USE DEF moduleVars, serverVars, connVars, channelVars, ServerInv
<1>1. CASE Module
  BY <1>1 DEF Module, Load, Stop, Join, Unload, StopThread
<1>2. CASE NetworkDown \/ NetworkUp \/ UNCHANGED vars
  BY <1>2 DEF NetworkDown, NetworkUp, vars
<1>3. CASE Server
  BY <1>3 DEF Server, CoreVersion, Slisten, Listen, ListenDeaf, Accept,
              AcceptFails, SpawnFails, Spawn
<1>4. ASSUME NEW h \in Handlers, Handler(h)
      PROVE  ServerInv'
  <2>1. spc \notin {"none", "start", "ended"}
    BY <1>4 DEF Handler, NoBuffer, Begin, OpenAsyncFails, OpenAsync, Disconnect,
                Sclose, ClearOpen
  <2>2. UNCHANGED <<mpc, spc>>
    BY <1>4 DEF Handler, NoBuffer, Begin, OpenAsyncFails, OpenAsync,
                StartChannel, Disconnect, Sclose, ClearOpen
  <2>. QED
    BY <2>1, <2>2
<1>5. ASSUME NEW w \in Channels, Channel(w)
      PROVE  ServerInv'
  <2>1. spc \notin {"none", "start", "ended"}
    BY <1>5 DEF Channel, ChannelSocket, ChannelNoSocket, ChannelEnds
  <2>2. UNCHANGED <<mpc, spc>>
    BY <1>5 DEF Channel, ChannelSocket, ChannelNoSocket, ChannelEnds
  <2>. QED
    BY <2>1, <2>2
<1>. QED
  BY <1>1, <1>2, <1>3, <1>4, <1>5 DEF Next

(* Who uses which descriptor, step by step.                                *)
LEMMA OwnersKept ==
    ASSUME TypeOK, ChannelInv, HandlerInv, UniqueInv, [Next]_vars
    PROVE  ChannelInv' /\ HandlerInv' /\ UniqueInv'
<1> DEFINE Owners == ChannelInv /\ HandlerInv /\ UniqueInv
<1> USE DEF moduleVars, serverVars, connVars, channelVars,
            ChannelInv, HandlerInv, UniqueInv
<1>1. CASE UNCHANGED <<connVars, heap, channelVars>>
  BY <1>1
<1>2. ASSUME NEW h \in Handlers, Spawn(h)
      PROVE  Owners'
  BY <1>2 DEF Spawn, Holding, TypeOK
<1>3. ASSUME NEW h \in Handlers, Handler(h)
      PROVE  Owners'
  <2>1. CASE NoBuffer(h)
    BY <2>1 DEF NoBuffer, Holding, TypeOK
  <2>2. CASE Begin(h)
    BY <2>2 DEF Begin, Holding, TypeOK
  <2>3. CASE OpenAsyncFails(h)
    BY <2>3 DEF OpenAsyncFails, Holding, TypeOK
  <2>4. ASSUME NEW w \in Channels, OpenAsync(h, w)
        PROVE  Owners'
    BY <2>4 DEF OpenAsync, StartChannel, Holding, TypeOK
  <2>5. CASE Disconnect(h)
    BY <2>5 DEF Disconnect, Holding, TypeOK
  <2>6. CASE Sclose(h)
    BY <2>6 DEF Sclose, Holding, TypeOK
  <2>7. CASE ClearOpen(h)
    BY <2>7 DEF ClearOpen, Holding, TypeOK
  <2>. QED
    BY <1>3, <2>1, <2>2, <2>3, <2>4, <2>5, <2>6, <2>7 DEF Handler
<1>4. ASSUME NEW w \in Channels, Channel(w)
      PROVE  Owners'
  <2>1. CASE ChannelSocket(w)
    BY <2>1 DEF ChannelSocket, Holding, TypeOK
  <2>2. CASE ChannelNoSocket(w)
    BY <2>2 DEF ChannelNoSocket, Holding, TypeOK
  <2>3. CASE ChannelEnds(w)
    BY <2>3 DEF ChannelEnds, Holding, TypeOK
  <2>. QED
    BY <1>4, <2>1, <2>2, <2>3 DEF Channel
<1>5. CASE Module \/ Server \/ NetworkDown \/ NetworkUp
  BY <1>1, <1>2, <1>5, ServerSteps
<1>6. CASE UNCHANGED vars
  BY <1>1, <1>6 DEF vars
<1>. QED
  BY <1>3, <1>4, <1>5, <1>6 DEF Next
-----------------------------------------------------------------------------
(* The inductive invariant holds in every state.                           *)
THEOREM SessionsInvariant == Spec => []IndInv
<1>1. IndInv /\ [Next]_vars => IndInv'
  BY TypeKept, CountKept, ServerKept, OwnersKept DEF IndInv, ServerInv
<1>. QED
  BY <1>1, InitIndInv, PTL DEF Spec

(* TypeOK, for any number of threads and descriptors.                      *)
THEOREM SessionsTypeCorrect == Spec => []TypeOK
  BY SessionsInvariant, PTL DEF IndInv

(* An AsyncDataDesc is freed by its last user only, and once.              *)
THEOREM DescriptorsLive == Spec => []DescLives
<1>1. IndInv => DescLives
  BY DEF IndInv, ChannelInv, HandlerInv, UniqueInv, DescLives, HoldersOf,
         ChannelsOf
<1>. QED
  BY <1>1, SessionsInvariant, PTL

(* Sockets leak for want of a thread or a buffer, and not otherwise.       *)
THEOREM SocketsCounted == Spec => []SocketsAccounted
  BY SessionsInvariant, PTL DEF IndInv

(* The memory of the module is not released under its server, connections  *)
(* and channels.                                                           *)
THEOREM UnloadIsSafe == Spec => []UnloadsUnused
<1>1. IndInv => UnloadsUnused
  BY DEF IndInv, ServerInv, UnloadsUnused
<1>. QED
  BY <1>1, SessionsInvariant, PTL
=============================================================================
