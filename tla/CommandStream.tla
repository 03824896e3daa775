--------------------------- MODULE CommandStream ----------------------------
(***************************************************************************)
(* One connection of Ratchetron as its thread sees it: the loop of         *)
(* handleclient_ps3mapi that takes commands, and what follows them, out of *)
(* a TCP stream that comes in pieces and may end anywhere.                 *)
(*                                                                         *)
(* The stream is a sequence of units.  A header (no = 0) is a command's    *)
(* byte with its fields of fixed size and paths; its payload is `size'     *)
(* units more.  `of', `cmd' and `size' of a unit tell    *)
(* what it was sent for: the code sees those of a header only, and takes   *)
(* for a header whatever it receives where it expects one.                 *)
(*                                                                         *)
(* FREEZE_MEM receives as SUB_MEM does; "QUERY" is any command without     *)
(* payload that keeps no state here; "ALLOC_PAGE" (or LV2_POKE) is one     *)
(* that is declared but not handled, and its fields are its payload.       *)
(***************************************************************************)
EXTENDS RmdirRecursive, Sequences

CONSTANTS
    Streams,    \* what a client may send before it leaves
    MaxText,    \* 2048, the limit of a notification's text
    MaxValue,   \* 8, of a subscription's value
    MaxSet,     \* 64 K, of what MEMSET sets
    CHUNK,      \* 64 K, the buffer of WRITE_FILE
    U32,        \* 2^32
    Trees, Dir, \* file systems and the directory to delete
    None        \* no result

Commands == {"NOTIFY", "SUB_MEM", "MEMSET", "OPEN_FILE", "WRITE_FILE",
             "DELETE_DIR", "QUERY", "ALLOC_PAGE"}
Unit == [of : Nat, no : Nat, cmd : Commands, size : Nat]

Payload(h) == [k \in 1 .. h.size |-> [h EXCEPT !.no = k]]

Bare == {"OPEN_FILE", "DELETE_DIR", "QUERY"}

(* Each header is followed by its payload, if its command has one, and by  *)
(* a header, as far as the stream goes.                                    *)
Framed(s) ==
    \A i \in 1 .. Len(s) : s[i].no = 0 =>
        /\ s[i].cmd \in Bare => s[i].size = 0
        /\ \A k \in 1 .. s[i].size :
            i + k <= Len(s) => s[i + k] = Payload(s[i])[k]
        /\ i + s[i].size < Len(s) => s[i + s[i].size + 1].no = 0

(* A stream is below 2 GB, so that sizes and their sums fit an int.        *)
ASSUME StreamAssumption ==
    /\ \A s \in Streams :
        /\ s \in Seq(Unit) /\ Framed(s)
        /\ s # <<>> => s[1].no = 0
    /\ MaxText \in Nat /\ MaxValue \in Nat /\ MaxSet \in Nat
    /\ CHUNK \in Nat \ {0}
    /\ U32 \in Nat /\ 0 < U32 /\ 2 * MaxSet <= U32
    /\ Trees \subseteq Tree /\ Dir \in Nodes
    /\ None \notin [err : {0, -1}, tree : Tree, left : SUBSET Nodes]
    /\ None \notin [header : Unit, bytes : Seq(Unit), pieces : Nat]

VARIABLES
    net,        \* what has been sent and not received
    broken,     \* at its end recv fails; otherwise it returns 0
    pc,         \* where the thread is; "astray": it takes a payload for a command
    cur,        \* the header of the MEMSET or WRITE_FILE at work
    n_bytes,    \* MEMSET's count, a u32
    memory,     \* what was received into sysmem
    chunk,      \* WRITE_FILE's data, its length is `buffered'
    received,
    fd,         \* whether the client's descriptor is open
    file,       \* what has been written to it
    (* History. *)
    pieces,     \* the recvs of this MEMSET that returned something
    turn,       \* changes with each recv of MEMSET that returned nothing
    meant,      \* what the client sends for that file
    patched,    \* the last ps3mapi_patch_process
    deleted,    \* the last result of rmdir_recursive
    refused,    \* a command was dropped and its payload not received
    short       \* outside WRITE_FILE a recv returned less than it was asked for

memsetVars == <<n_bytes, memory, pieces, turn, patched>>
fileVars == <<chunk, received, fd, file, meant>>
causes == <<refused, short>>
vars == <<net, broken, pc, cur, memsetVars, fileVars, deleted, causes>>

(* Every variable holds a value of its kind; the count of MEMSET stays a   *)
(* u32.                                                                    *)
TypeOK ==
    /\ net \in Seq(Unit)
    /\ broken \in BOOLEAN
    /\ pc \in {"recv", "memset", "write", "ended", "astray"}
    /\ pc \in {"memset", "write"} => cur \in Unit
    /\ n_bytes \in 0 .. U32 - 1
    /\ memory \in Seq(Unit)
    /\ pieces \in Nat
    /\ turn \in BOOLEAN
    /\ chunk \in Seq(Unit)
    /\ received \in Nat
    /\ fd \in BOOLEAN
    /\ file \in Seq(Unit)
    /\ meant \in Seq(Unit)
    /\ patched \in [header : Unit, bytes : Seq(Unit), pieces : Nat] \cup {None}
    /\ deleted \in [err : {0, -1}, tree : Tree, left : SUBSET Nodes] \cup {None}
    /\ refused \in BOOLEAN
    /\ short \in BOOLEAN

Init ==
    /\ net \in Streams
    /\ broken \in BOOLEAN
    /\ pc = "recv" /\ cur = None
    /\ n_bytes = 0 /\ memory = <<>> /\ pieces = 0 /\ turn = FALSE
    /\ chunk = <<>> /\ received = 0
    /\ fd = FALSE /\ file = <<>> /\ meant = <<>>
    /\ patched = None /\ deleted = None /\ refused = FALSE /\ short = FALSE
-----------------------------------------------------------------------------
(* recv.                                                                   *)

Lesser(m, n) == IF m <= n THEN m ELSE n

(* How many units a recv of n units may return from s.  Only WRITE_FILE's  *)
(* waits for all of them (MSG_WAITALL), and its loop does not rely on it.  *)
Pieces(n, s) ==
    LET most == Lesser(n, Len(s))
    IN  IF most > 0 THEN 1 .. most ELSE {0}

First(s, n) == SubSeq(s, 1, Lesser(n, Len(s)))
After(s, n) == SubSeq(s, n + 1, Len(s))

Header == Head(net)

(* The top of the loop receives a header, of one of the commands.          *)
Command(commands) ==
    /\ pc = "recv"
    /\ net # <<>>
    /\ Header.no = 0 /\ Header.cmd \in commands

(* It has received part of a payload: what it does is anybody's guess, and *)
(* the model stops.                                                        *)
Stray ==
    /\ pc = "recv"
    /\ net # <<>> /\ Header.no # 0
    /\ pc' = "astray"
    /\ UNCHANGED <<net, broken, cur, memsetVars, fileVars, deleted, causes>>

(* A recv of one of its fields returns less than it was asked for.  The    *)
(* rest is taken for the next field or for a command, and the model stops. *)
Torn ==
    /\ Command(Commands)
    /\ net' = Tail(net)
    /\ pc' = "astray"
    /\ short' = TRUE
    /\ UNCHANGED <<broken, cur, memsetVars, fileVars, deleted, refused>>

(* Nothing more can be received.                                           *)
Leave ==
    /\ pc = "recv"
    /\ net = <<>>
    /\ pc' = "ended"
    /\ UNCHANGED <<net, broken, cur, memsetVars, fileVars, deleted, causes>>
-----------------------------------------------------------------------------
(* Commands that are received at once.                                     *)

TooLong(h) ==
    \/ h.cmd = "NOTIFY" /\ h.size >= MaxText
    \/ h.cmd = "SUB_MEM" /\ h.size > MaxValue
    \/ h.cmd = "MEMSET" /\ h.size >= MaxSet

(* The command is dropped, its payload is not.                             *)
Refuse ==
    /\ Command({"NOTIFY", "SUB_MEM", "MEMSET"})
    /\ TooLong(Header)
    /\ net' = Tail(net)
    /\ refused' = TRUE
    /\ UNCHANGED <<broken, pc, cur, memsetVars, fileVars, deleted, short>>

(* Mutant: a value of the largest size is accepted, but not received.      *)
AcceptsWithoutValue ==
    /\ Command({"NOTIFY", "SUB_MEM"})
    /\ ~ TooLong(Header)
    /\ \E k \in Pieces(Header.size, Tail(net)) :
        /\ net' = IF Header.cmd = "SUB_MEM" /\ Header.size = MaxValue
                  THEN Tail(net) ELSE After(net, 1 + k)
        /\ short' = (short \/ k < Header.size)
    /\ UNCHANGED <<broken, pc, cur, memsetVars, fileVars, deleted, refused>>

(* CLT_CMD_NOTIFY, CLT_CMD_SUB_MEM and CLT_CMD_FREEZE_MEM receive their    *)
(* payload with one recv and do not look at its result: what it leaves is  *)
(* taken for the next command.                                             *)
Accepts ==
    /\ Command({"NOTIFY", "SUB_MEM"})
    /\ ~ TooLong(Header)
    /\ \E k \in Pieces(Header.size, Tail(net)) :
        /\ net' = After(net, 1 + k)
        /\ short' = (short \/ k < Header.size)
    /\ UNCHANGED <<broken, pc, cur, memsetVars, fileVars, deleted, refused>>

(* The default case of the switch: nothing is done.                        *)
Default ==
    /\ Command({"ALLOC_PAGE"})
    /\ net' = Tail(net)
    /\ refused' = TRUE
    /\ UNCHANGED <<broken, pc, cur, memsetVars, fileVars, deleted, short>>

Query ==
    /\ Command({"QUERY"})
    /\ net' = Tail(net)
    /\ UNCHANGED <<broken, pc, cur, memsetVars, fileVars, deleted, causes>>

(* CLT_CMD_DELETE_DIR, on any file system.                                 *)
DeleteDir ==
    /\ Command({"DELETE_DIR"})
    /\ net' = Tail(net)
    /\ \E t \in Trees : deleted' = Rmdir(t, Dir)
    /\ UNCHANGED <<broken, pc, cur, memsetVars, fileVars, causes>>
-----------------------------------------------------------------------------
(* CLT_CMD_MEMSET: each recv asks for all of it, at the start of sysmem.   *)

MemsetBegin ==
    /\ Command({"MEMSET"})
    /\ ~ TooLong(Header)
    /\ net' = Tail(net)
    /\ cur' = Header
    /\ n_bytes' = 0 /\ pieces' = 0
    /\ pc' = "memset"
    /\ UNCHANGED <<broken, memory, turn, patched, fileVars, deleted, causes>>

MemsetRecv ==
    /\ pc = "memset" /\ n_bytes < cur.size
    /\ net # <<>>
    /\ \E k \in Pieces(cur.size, net) :
        /\ memory' = First(net, k) \o After(memory, k)
        /\ n_bytes' = (n_bytes + k) % U32
        /\ net' = After(net, k)
        /\ short' = (short \/ k < cur.size)
    /\ pieces' = pieces + 1
    /\ UNCHANGED <<broken, pc, cur, turn, patched, fileVars, deleted, refused>>

(* Mutant: the count as a signed integer.                                  *)
MemsetErrorSigned ==
    /\ pc = "memset" /\ n_bytes < cur.size
    /\ net = <<>> /\ broken
    /\ n_bytes' = n_bytes - 1
    /\ UNCHANGED <<net, broken, pc, cur, memory, pieces, turn, patched, fileVars,
                   deleted, causes>>

(* recv returns -1, which counts as 2^32 - 1.                              *)
MemsetError ==
    /\ pc = "memset" /\ n_bytes < cur.size
    /\ net = <<>> /\ broken
    /\ n_bytes' = (n_bytes + U32 - 1) % U32
    /\ UNCHANGED <<net, broken, pc, cur, memory, pieces, turn, patched, fileVars,
                   deleted, causes>>

(* The client has closed the connection: recv returns 0, and the thread    *)
(* tries again.                                                            *)
MemsetSpin ==
    /\ pc = "memset" /\ n_bytes < cur.size
    /\ net = <<>> /\ ~ broken
    /\ turn' = ~ turn
    /\ UNCHANGED <<net, broken, pc, cur, n_bytes, memory, pieces, patched, fileVars,
                   deleted, causes>>

Patch == [header |-> cur, bytes |-> First(memory, cur.size), pieces |-> pieces]

(* Mutant: one recv is enough, whatever it returned.                       *)
MemsetDoneAnyhow ==
    /\ pc = "memset" /\ (pieces > 0 \/ n_bytes >= cur.size)
    /\ patched' = Patch
    /\ pc' = "recv"
    /\ UNCHANGED <<net, broken, cur, n_bytes, memory, pieces, turn, fileVars, deleted,
                   causes>>

(* The game's memory is patched, if a game runs.                           *)
MemsetDone ==
    /\ pc = "memset" /\ n_bytes >= cur.size
    /\ patched' \in {patched, Patch}
    /\ pc' = "recv"
    /\ UNCHANGED <<net, broken, cur, n_bytes, memory, pieces, turn, fileVars, deleted,
                   causes>>
-----------------------------------------------------------------------------
(* CLT_CMD_OPEN_FILE and CLT_CMD_WRITE_FILE.                               *)

OpenFile ==
    /\ Command({"OPEN_FILE"})
    /\ net' = Tail(net)
    /\ fd' = TRUE
    /\ file' = <<>> /\ meant' = <<>>
    /\ UNCHANGED <<broken, pc, cur, memsetVars, chunk, received, deleted, causes>>

(* The client is answered -1, and may use that as its descriptor.          *)
OpenFails ==
    /\ Command({"OPEN_FILE"})
    /\ net' = Tail(net)
    /\ fd' = FALSE
    /\ UNCHANGED <<broken, pc, cur, memsetVars, chunk, received, file, meant,
                   deleted, causes>>

CloseFile ==
    /\ Command({"WRITE_FILE"})
    /\ Header.size = 0
    /\ net' = Tail(net)
    /\ fd' = FALSE
    /\ UNCHANGED <<broken, pc, cur, memsetVars, chunk, received, file, meant,
                   deleted, causes>>

(* malloc fails, and the connection ends.                                  *)
WriteNoMemory ==
    /\ Command({"WRITE_FILE"})
    /\ Header.size > 0
    /\ net' = Tail(net)
    /\ pc' = "ended"
    /\ UNCHANGED <<broken, cur, memsetVars, fileVars, deleted, causes>>

WriteBegin ==
    /\ Command({"WRITE_FILE"})
    /\ Header.size > 0
    /\ net' = Tail(net)
    /\ cur' = Header
    /\ chunk' = <<>> /\ received' = 0
    /\ meant' = meant \o Payload(Header)
    /\ pc' = "write"
    /\ UNCHANGED <<broken, memsetVars, fd, file, deleted, causes>>

(* Mutant: a recv of what the chunk still holds, whatever remains.         *)
WantWhole == CHUNK - Len(chunk)

(* What the next recv asks for.                                            *)
Want == Lesser(CHUNK - Len(chunk), cur.size - received)

Receiving == pc = "write" /\ net # <<>>

(* recv returns k units.                                                   *)
Receive(k) ==
    /\ net' = After(net, k)
    /\ received' = received + k

Got(k) == chunk \o First(net, k)
IsFull(k) == Len(chunk) + k >= CHUNK \/ received + k >= cur.size

WriteFill ==
    /\ Receiving
    /\ \E k \in Pieces(Want, net) :
        /\ Receive(k) /\ ~ IsFull(k)
        /\ chunk' = Got(k)
        /\ UNCHANGED <<broken, pc, cur, memsetVars, fd, file, meant, deleted,
                       causes>>

(* Mutant: buffered is not reset.                                          *)
WriteChunkAgain ==
    /\ Receiving
    /\ \E k \in Pieces(Want, net) :
        /\ Receive(k) /\ IsFull(k)
        /\ fd
        /\ file' = file \o Got(k)
        /\ chunk' = Got(k)
        /\ pc' = IF received + k >= cur.size THEN "recv" ELSE "write"
        /\ UNCHANGED <<broken, cur, memsetVars, fd, meant, deleted, causes>>

(* The chunk is full or the last: it is written.                           *)
WriteChunk ==
    /\ Receiving
    /\ \E k \in Pieces(Want, net) :
        /\ Receive(k) /\ IsFull(k)
        /\ fd
        /\ file' = file \o Got(k)
        /\ chunk' = <<>>
        /\ pc' = IF received + k >= cur.size THEN "recv" ELSE "write"
        /\ UNCHANGED <<broken, cur, memsetVars, fd, meant, deleted, causes>>

(* It is not, or not all of it, and the connection ends.                   *)
WriteFails ==
    /\ Receiving
    /\ \E k \in Pieces(Want, net) :
        /\ Receive(k) /\ IsFull(k)
        /\ \E n \in 0 .. (IF fd THEN Len(chunk) + k - 1 ELSE 0) :
            file' = file \o First(Got(k), n)
        /\ chunk' = <<>>
        /\ pc' = "ended"
        /\ UNCHANGED <<broken, cur, memsetVars, fd, meant, deleted, causes>>

(* Mutant: a recv that fails is tried again.                               *)
WriteLostRetries ==
    /\ pc = "write"
    /\ net = <<>>
    /\ UNCHANGED vars

(* Mutant: a recv that fails makes the loop begin anew.                    *)
WriteLostRestarts ==
    /\ pc = "write"
    /\ net = <<>>
    /\ chunk' = <<>> /\ received' = 0
    /\ UNCHANGED <<net, broken, pc, cur, memsetVars, fd, file, meant, deleted,
                   causes>>

(* recv returns 0 or fails, and the connection ends.                       *)
WriteLost ==
    /\ pc = "write"
    /\ net = <<>>
    /\ chunk' = <<>>
    /\ pc' = "ended"
    /\ UNCHANGED <<net, broken, cur, memsetVars, received, fd, file, meant,
                   deleted, causes>>
-----------------------------------------------------------------------------
File == OpenFile \/ OpenFails \/ CloseFile
Write ==
    \/ WriteNoMemory \/ WriteBegin \/ WriteFill
    \/ WriteChunk \/ WriteFails \/ WriteLost
Memset == MemsetBegin \/ MemsetRecv \/ MemsetError \/ MemsetSpin \/ MemsetDone

Next ==
    \/ Stray \/ Torn \/ Leave
    \/ Refuse \/ Accepts \/ Default \/ Query \/ DeleteDir
    \/ File \/ Write \/ Memset

Spec == Init /\ [][Next]_vars

(* The thread runs, and what the client has sent arrives.                  *)
FairSpec == Spec /\ WF_vars(Next)
-----------------------------------------------------------------------------
(* The thread takes something else than a command for one only after it    *)
(* has dropped a command whose payload was still to come, or a recv other  *)
(* than WRITE_FILE's has returned less than it was asked for.              *)
StraysForCause == pc = "astray" => refused \/ short

(* A file is a prefix of what the client sends for it, whatever the pieces *)
(* and wherever the transfer breaks off, and it is all of that when the    *)
(* next command is taken.                                                  *)
FileIsPrefix ==
    /\ file \o chunk = First(meant, Len(file) + Len(chunk))
    /\ pc = "recv" => chunk = <<>> /\ file = meant

(* The loop of WRITE_FILE asks for at least one byte, never for more than  *)
(* fit the buffer, and stops at the size it was told.                      *)
ChunkBounded ==
    pc = "write" =>
        /\ Want >= 1
        /\ Len(chunk) + Want <= CHUNK
        /\ received + Want <= cur.size

(* "CLT_CMD_MEMSET ... <CMD|B:1><PID|I:4><ADDR|I:4><SIZE|I:4><MEMORY:SIZE>" *)
(* (ratchetron.c): on a connection that is not reset, what is written to   *)
(* the game is the memory that was sent.                                   *)
MemoryIsSet ==
    patched # None /\ ~ broken => patched.bytes = Payload(patched.header)

(* It is if that came in one piece; else it never is.                      *)
MemoryIsSetIfWhole ==
    patched # None /\ ~ broken =>
        (patched.bytes = Payload(patched.header) <=> patched.pieces <= 1)

(* r, a result, leaves what is stuck or was not reached and the            *)
(* directories around it; and it says so.                                  *)
AsTold(r) ==
    LET t == r.tree
        below == [n \in Nodes |-> Below(t, n)]
        reached(n) == \A u \in t.unread \cap below[Dir] : n \notin below[u]
        stays == {n \in below[Dir] : n \in t.stuck \/ ~ reached(n)}
    IN  /\ r.left = {n \in Nodes : n \in below[Dir] => below[n] \cap stays # {}}
        /\ r.err = 0 <=> r.left \cap below[Dir] = {}

(* What rmdir_recursive leaves is what had to stay: what is stuck or was   *)
(* not reached, and the directories around it; and it says so.             *)
DeletedAsTold == deleted # None => AsTold(deleted)

(* The thread turns round a loop only with something it has received, or   *)
(* finitely often: MEMSET's, which counts an error as 2^32 - 1, counts     *)
(* n_bytes down to 0 and then past the size.  The one loop that goes round *)
(* without end is MEMSET's when the client has closed the connection.      *)
RoundsLeft ==
    CASE pc = "memset" -> IF n_bytes < cur.size THEN 3 + n_bytes ELSE 2
      [] pc = "write" -> 2
      [] pc = "recv" -> 1
      [] OTHER -> 0

LoopsRunOut ==
    [][\/ Len(net') < Len(net)
       \/ net' = net /\ RoundsLeft' < RoundsLeft
       \/ pc = "memset" /\ net = <<>> /\ ~ broken]_vars

(* The thread comes to an end with the stream, except that it spins in     *)
(* MEMSET for ever when the client closes the connection in the middle of  *)
(* that: this is what the code does, not what it should.                   *)
Ends ==
    <>(pc \in {"ended", "astray"})
        \/ <>[](pc = "memset" /\ net = <<>> /\ ~ broken)
=============================================================================
