------------------------------ MODULE Sessions ------------------------------
(***************************************************************************)
(* The life of everything Ratchetron starts: the module (main.c), the      *)
(* server's thread and its listening socket (ps3mapi_thread, socket.h),    *)
(* the connections' threads (handleclient_ps3mapi) with their sockets and  *)
(* their AsyncDataDesc, and the data channels' threads                     *)
(* (async_data_handle), which free that structure.  What a connection's    *)
(* commands do is left to MemorySubs and CommandStream.                    *)
(*                                                                         *)
(* Nothing in the source writes `working', which starts as 1: the branches *)
(* that test it for 0 are never taken and are left out.  An action that    *)
(* would change nothing (a refused OPEN_ASYNC_DATA, another error of       *)
(* accept, a socket that fails, a pass of a channel) is left out too.      *)
(***************************************************************************)
EXTENDS Integers, FiniteSets

CONSTANTS
    Handlers,   \* threads for connections
    Channels,   \* threads for data channels
    Cells,      \* places on the heap for an AsyncDataDesc
    MaxLost,    \* bound: connections no thread serves
    None        \* no cell

ASSUME SessionsAssumption ==
    /\ IsFiniteSet(Handlers)
    /\ MaxLost \in Nat
    /\ None \notin Cells

VARIABLES
    mpc,        \* the module: where ratchetron_start or ratchetron_stop is
    tpc,        \* where ratchetron_stop_thread is
    compatible, \* core_minversion is the one expected
    spc,        \* where ps3mapi_thread is
    list_s,     \* the listening socket: "deaf" where bind or listen failed
    up,         \* the console's network
    pc,         \* where each connection's thread is
    desc,       \* its async_desc, None out of scope
    async_t_id, \* whether it holds the id of a data channel's thread
    heap,       \* each cell: not allocated, or allocated with open = 0 or 1
    wpc,        \* where each data channel's thread is
    own,        \* its desc, None out of scope
    sockets,    \* connections' sockets that are open
    (* History. *)
    lost,       \* those whose thread could not be created or gave up
    served      \* cells whose channel has its socket

moduleVars == <<mpc, tpc, compatible>>
serverVars == <<spc, list_s>>
connVars == <<pc, desc, async_t_id>>
channelVars == <<wpc, own, served>>
vars == <<moduleVars, serverVars, up, connVars, heap, channelVars, sockets, lost>>

(* Labels at which a connection's thread has its descriptor, and at which  *)
(* its socket is open.                                                     *)
Holding == {"recv", "sclose", "clear"}
Connected == {"start", "recv", "sclose"}

HoldersOf(c) == {h \in Handlers : pc[h] \in Holding /\ desc[h] = c}
Connections == {h \in Handlers : pc[h] \in Connected}
ChannelsOf(c) == {w \in Channels : wpc[w] # "off" /\ own[w] = c}

(* Every variable holds a value of its kind; a thread that uses a          *)
(* descriptor has one.                                                     *)
TypeOK ==
    /\ mpc \in {"loading", "resident", "join", "unload", "unloaded"}
    /\ tpc \in {"none", "sleep"}
    /\ compatible \in BOOLEAN
    /\ spc \in {"none", "start", "relisten", "accept", "spawn", "ended"}
    /\ list_s \in {"none", "listening", "deaf", "dead"}
    /\ up \in BOOLEAN
    /\ pc \in [Handlers -> {"idle"} \cup Holding \cup Connected]
    /\ desc \in [Handlers -> Cells \cup {None}]
    /\ \A h \in Handlers : pc[h] \in Holding => desc[h] \in Cells
    /\ async_t_id \in [Handlers -> BOOLEAN]
    /\ heap \in [Cells -> {"free", "shut", "open"}]
    /\ wpc \in [Channels -> {"off", "socket", "check"}]
    /\ own \in [Channels -> Cells \cup {None}]
    /\ \A w \in Channels : wpc[w] # "off" => own[w] \in Cells
    /\ sockets \in Int
    /\ lost \in Nat
    /\ served \subseteq Cells

Init ==
    /\ mpc = "loading" /\ tpc = "none"
    /\ compatible \in BOOLEAN
    /\ spc = "none" /\ list_s = "none"
    /\ up \in BOOLEAN
    /\ pc = [h \in Handlers |-> "idle"]
    /\ desc = [h \in Handlers |-> None]
    /\ async_t_id = [h \in Handlers |-> FALSE]
    /\ heap = [c \in Cells |-> "free"]
    /\ wpc = [w \in Channels |-> "off"]
    /\ own = [w \in Channels |-> None]
    /\ sockets = 0 /\ lost = 0 /\ served = {}
-----------------------------------------------------------------------------
(* main.c.  Where the server's thread cannot be created, thread_id_ps3mapi *)
(* stays SYS_PPU_THREAD_NONE, and a join returns at once.                  *)

Load ==
    /\ mpc = "loading"
    /\ mpc' = "resident"
    /\ spc' \in {"none", "start"}
    /\ UNCHANGED <<tpc, compatible, list_s, up, connVars, heap, channelVars,
                   sockets, lost>>

Stop ==
    /\ mpc = "resident"
    /\ mpc' = "join"
    /\ tpc' \in {"none", "sleep"}
    /\ UNCHANGED <<compatible, serverVars, up, connVars, heap, channelVars,
                   sockets, lost>>

(* Mutant: a stop that does not wait for the server's thread.              *)
JoinNobody ==
    /\ mpc = "join"
    /\ mpc' = "unload"
    /\ UNCHANGED <<tpc, compatible, serverVars, up, connVars, heap,
                   channelVars, sockets, lost>>

Join ==
    /\ mpc = "join"
    /\ spc \in {"none", "ended"}
    /\ mpc' = "unload"
    /\ UNCHANGED <<tpc, compatible, serverVars, up, connVars, heap,
                   channelVars, sockets, lost>>

(* Half a second later the module's memory is released.                    *)
Unload ==
    /\ mpc = "unload"
    /\ mpc' = "unloaded"
    /\ UNCHANGED <<tpc, compatible, serverVars, up, connVars, heap,
                   channelVars, sockets, lost>>

(* The stop thread sleeps two seconds; its join comes after the one of     *)
(* ratchetron_stop, is refused or waits like it, and is not looked at.     *)
(* Nothing is said of what it does in a module that is gone.               *)
StopThread ==
    /\ tpc = "sleep"
    /\ mpc # "unloaded"
    /\ tpc' = "none"
    /\ UNCHANGED <<mpc, compatible, serverVars, up, connVars, heap,
                   channelVars, sockets, lost>>
-----------------------------------------------------------------------------
(* ps3mapi_thread and slisten.                                             *)

CoreVersion ==
    /\ spc = "start"
    /\ spc' = IF compatible THEN "relisten" ELSE "ended"
    /\ UNCHANGED <<moduleVars, list_s, up, connVars, heap, channelVars,
                   sockets, lost>>

(* slisten, where socket succeeds: bind and listen are not looked at.      *)
Slisten(result) ==
    /\ spc = "relisten"
    /\ spc' = "accept"
    /\ list_s' = result
    /\ UNCHANGED <<moduleVars, up, connVars, heap, channelVars, sockets, lost>>

Listen == Slisten(IF up THEN "listening" ELSE "dead")
ListenDeaf == Slisten("deaf")

(* accept returns a connection.  Bound: there is a cell for each           *)
(* connection to come.                                                     *)
Accept ==
    /\ spc = "accept"
    /\ list_s = "listening" /\ up
    /\ \E h \in Handlers : pc[h] = "idle"
    /\ Cardinality({c \in Cells : heap[c] = "free"})
         > Cardinality({h \in Handlers : pc[h] = "start"})
    /\ spc' = "spawn"
    /\ sockets' = sockets + 1
    /\ UNCHANGED <<moduleVars, list_s, up, connVars, heap, channelVars, lost>>

(* Mutant: an error of accept closes the socket, and accept is tried again.*)
AcceptFailsAndLoops ==
    /\ spc = "accept"
    /\ list_s = "dead"
    /\ list_s' = "none"
    /\ UNCHANGED <<moduleVars, spc, up, connVars, heap, channelVars, sockets,
                   lost>>

(* accept fails with EBADF or ENETDOWN.                                    *)
AcceptFails ==
    /\ spc = "accept"
    /\ list_s = "dead"
    /\ list_s' = "none"
    /\ spc' = "relisten"
    /\ UNCHANGED <<moduleVars, up, connVars, heap, channelVars, sockets, lost>>

Spawn(h) ==
    /\ spc = "spawn"
    /\ pc[h] = "idle"
    /\ spc' = "accept"
    /\ pc' = [pc EXCEPT ![h] = "start"]
    /\ UNCHANGED <<moduleVars, list_s, up, desc, async_t_id, heap, channelVars,
                   sockets, lost>>

(* The result of sys_ppu_thread_create is not looked at.                   *)
SpawnFails ==
    /\ spc = "spawn"
    /\ lost < MaxLost
    /\ spc' = "accept"
    /\ lost' = lost + 1
    /\ UNCHANGED <<moduleVars, list_s, up, connVars, heap, channelVars, sockets>>

(* External: the network goes down, and what was listening is of no use    *)
(* any more, or comes up.                                                  *)
NetworkDown ==
    /\ up
    /\ up' = FALSE
    /\ list_s' = IF list_s = "none" THEN "none" ELSE "dead"
    /\ UNCHANGED <<moduleVars, spc, connVars, heap, channelVars, sockets, lost>>

NetworkUp ==
    /\ ~ up
    /\ up' = TRUE
    /\ UNCHANGED <<moduleVars, serverVars, connVars, heap, channelVars, sockets,
                   lost>>
-----------------------------------------------------------------------------
(* handleclient_ps3mapi.                                                   *)

(* sys_memory_allocate fails: the thread returns, its socket stays open.   *)
NoBuffer(h) ==
    /\ pc[h] = "start"
    /\ lost < MaxLost
    /\ pc' = [pc EXCEPT ![h] = "idle"]
    /\ lost' = lost + 1
    /\ UNCHANGED <<moduleVars, serverVars, up, desc, async_t_id, heap,
                   channelVars, sockets>>

(* Mutant: the descriptor is allocated with the channel, not before.       *)
BeginWithout(h) ==
    /\ pc[h] = "start"
    /\ pc' = [pc EXCEPT ![h] = "recv"]
    /\ UNCHANGED <<moduleVars, serverVars, up, desc, async_t_id, heap,
                   channelVars, sockets, lost>>

Begin(h) ==
    /\ pc[h] = "start"
    /\ \E c \in Cells :
        /\ heap[c] = "free"
        /\ desc' = [desc EXCEPT ![h] = c]
        /\ heap' = [heap EXCEPT ![c] = "shut"]
    /\ pc' = [pc EXCEPT ![h] = "recv"]
    /\ UNCHANGED <<moduleVars, serverVars, up, async_t_id, channelVars, sockets,
                   lost>>

(* CLT_CMD_OPEN_ASYNC_DATA, where the thread is created.                   *)
StartChannel(h, w) ==
    /\ wpc[w] = "off"
    /\ wpc' = [wpc EXCEPT ![w] = "socket"]
    /\ own' = [own EXCEPT ![w] = desc[h]]
    /\ async_t_id' = [async_t_id EXCEPT ![h] = TRUE]
    /\ heap' = [heap EXCEPT ![desc[h]] = "open"]
    /\ UNCHANGED <<moduleVars, serverVars, up, pc, desc, served, sockets, lost>>

(* Mutant: a second channel is not refused.                                *)
OpenAsyncAgain(h, w) == pc[h] = "recv" /\ StartChannel(h, w)

OpenAsync(h, w) == pc[h] = "recv" /\ ~ async_t_id[h] /\ StartChannel(h, w)

(* The same where it is not: open is set for nobody.                       *)
OpenAsyncFails(h) ==
    /\ pc[h] = "recv" /\ ~ async_t_id[h]
    /\ heap' = [heap EXCEPT ![desc[h]] = "open"]
    /\ UNCHANGED <<moduleVars, serverVars, up, connVars, channelVars, sockets,
                   lost>>

(* recv returns 0 or fails, or a file command sets connactive to 0.        *)
Disconnect(h) ==
    /\ pc[h] = "recv"
    /\ pc' = [pc EXCEPT ![h] = "sclose"]
    /\ UNCHANGED <<moduleVars, serverVars, up, desc, async_t_id, heap,
                   channelVars, sockets, lost>>

(* Mutant: a descriptor that is forgotten, not closed.                     *)
ScloseForgets(h) ==
    /\ pc[h] = "sclose"
    /\ pc' = [pc EXCEPT ![h] = "clear"]
    /\ UNCHANGED <<moduleVars, serverVars, up, desc, async_t_id, heap,
                   channelVars, sockets, lost>>

Sclose(h) ==
    /\ pc[h] = "sclose"
    /\ pc' = [pc EXCEPT ![h] = "clear"]
    /\ sockets' = sockets - 1
    /\ UNCHANGED <<moduleVars, serverVars, up, desc, async_t_id, heap,
                   channelVars, lost>>

(* Mutant: open is left as it is.                                          *)
ClearNothing(h) ==
    /\ pc[h] = "clear"
    /\ pc' = [pc EXCEPT ![h] = "idle"]
    /\ desc' = [desc EXCEPT ![h] = None]
    /\ async_t_id' = [async_t_id EXCEPT ![h] = FALSE]
    /\ UNCHANGED <<moduleVars, serverVars, up, heap, channelVars,
                   sockets, lost>>

(* async_desc->open = 0, and the thread ends.                              *)
ClearOpen(h) ==
    /\ pc[h] = "clear"
    /\ pc' = [pc EXCEPT ![h] = "idle"]
    /\ desc' = [desc EXCEPT ![h] = None]
    /\ async_t_id' = [async_t_id EXCEPT ![h] = FALSE]
    /\ heap' = [heap EXCEPT ![desc[h]] = "shut"]
    /\ UNCHANGED <<moduleVars, serverVars, up, channelVars, sockets, lost>>
-----------------------------------------------------------------------------
(* async_data_handle.                                                      *)

ChannelSocket(w) ==
    /\ wpc[w] = "socket"
    /\ wpc' = [wpc EXCEPT ![w] = "check"]
    /\ served' = served \cup {own[w]}
    /\ UNCHANGED <<moduleVars, serverVars, up, connVars, heap, own, sockets, lost>>

(* "Failed to open data channel": desc is not freed.                       *)
ChannelNoSocket(w) ==
    /\ wpc[w] = "socket"
    /\ wpc' = [wpc EXCEPT ![w] = "off"]
    /\ own' = [own EXCEPT ![w] = None]
    /\ UNCHANGED <<moduleVars, serverVars, up, connVars, heap, served,
                   sockets, lost>>

(* desc->open is not 1 any more: free(desc), and the thread ends.          *)
ChannelEnds(w) ==
    /\ wpc[w] = "check"
    /\ heap[own[w]] # "open"
    /\ wpc' = [wpc EXCEPT ![w] = "off"]
    /\ own' = [own EXCEPT ![w] = None]
    /\ heap' = [heap EXCEPT ![own[w]] = "free"]
    /\ served' = served \ {own[w]}
    /\ UNCHANGED <<moduleVars, serverVars, up, connVars, sockets, lost>>
-----------------------------------------------------------------------------
Module == Load \/ Stop \/ Join \/ Unload \/ StopThread

Server ==
    \/ CoreVersion \/ Listen \/ ListenDeaf
    \/ Accept \/ AcceptFails
    \/ SpawnFails \/ \E h \in Handlers : Spawn(h)

Handler(h) ==
    \/ NoBuffer(h) \/ Begin(h)
    \/ OpenAsyncFails(h) \/ \E w \in Channels : OpenAsync(h, w)
    \/ Disconnect(h) \/ Sclose(h) \/ ClearOpen(h)

Channel(w) == ChannelSocket(w) \/ ChannelNoSocket(w) \/ ChannelEnds(w)

Next ==
    \/ Module
    \/ Server
    \/ NetworkDown \/ NetworkUp
    \/ \E h \in Handlers : Handler(h)
    \/ \E w \in Channels : Channel(w)

Spec == Init /\ [][Next]_vars

(* The threads run.  socket succeeds for a server that asks again and      *)
(* again.  Nobody has to connect, to open a channel, to leave, or to stop  *)
(* the module.                                                             *)
Fairness ==
    /\ WF_vars(Load) /\ WF_vars(Join) /\ WF_vars(Unload)
    /\ WF_vars(CoreVersion) /\ WF_vars(Listen) /\ WF_vars(AcceptFails)
    /\ WF_vars(SpawnFails \/ \E h \in Handlers : Spawn(h))
    /\ \A h \in Handlers :
        WF_vars(NoBuffer(h) \/ Begin(h) \/ Sclose(h) \/ ClearOpen(h))
    /\ \A w \in Channels : WF_vars(Channel(w))

FairSpec == Spec /\ Fairness
-----------------------------------------------------------------------------
(* A thread never uses an AsyncDataDesc that has been freed, two           *)
(* connections never share one, and no two channels would both free one:   *)
(* the connection's thread and the channel's never agree on who is last,   *)
(* except through `open'.                                                  *)
DescLives ==
    \A c \in Cells :
        /\ HoldersOf(c) \cup ChannelsOf(c) # {} => heap[c] # "free"
        /\ \A g, h \in HoldersOf(c) : g = h
        /\ \A v, w \in ChannelsOf(c) : v = w

(* Every open socket belongs to a connection that is served, about to be,  *)
(* or was lost for want of a thread or of a buffer: nothing else leaks.    *)
SocketsAccounted ==
    sockets = lost + Cardinality(Connections) + (IF spc = "spawn" THEN 1 ELSE 0)

(* ratchetron_stop goes on to release the module's memory only where no    *)
(* server, connection or channel runs in it: that is, as nothing ends a    *)
(* server that listens, never once one has listened.                       *)
UnloadsUnused ==
    mpc \in {"unload", "unloaded"} =>
        /\ spc \in {"none", "ended"} /\ list_s = "none"
        /\ \A h \in Handlers : pc[h] = "idle"
        /\ \A w \in Channels : wpc[w] = "off"

(* Once its connection has ended, a channel that runs notices, and its     *)
(* descriptor is freed.                                                    *)
Reclaimed == \A c \in Cells : (c \in served /\ HoldersOf(c) = {}) ~> heap[c] = "free"

(* When the network stays up and the port can be bound, the server ends up *)
(* listening for good, however often the network went down before.         *)
ListensAgain ==
    <>[](up /\ list_s # "deaf")
        => <>[](list_s = "listening" \/ spc \in {"none", "ended"})

(* "Prevent unload too fast (give time to other threads to finish)"        *)
(* (main.c): no thread of the module is left when its memory is released.  *)
UnloadedAlone == mpc = "unloaded" => UnloadsUnused /\ tpc # "sleep"
=============================================================================
