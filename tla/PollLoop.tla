------------------------------ MODULE PollLoop ------------------------------
(***************************************************************************)
(* The loop of async_data_handle in ratchetron.c for one data channel: 120 *)
(* times a second it reads the game's memory for each subscription of its  *)
(* connection, and notifies the client over UDP, patches the memory, or    *)
(* reminds the client of a value.  Which containers it walks is the        *)
(* subject of MemorySubs; here they are the channel's own, in order.       *)
(*                                                                         *)
(* A value of eight bytes is a pair: the bytes a short subscription        *)
(* (size < 8) reads, and the rest.  The console is big-endian, so that the *)
(* first are the high digit of the u64 they are read into; the rest of     *)
(* that u64 is what the stack held, which may be anything at each read.    *)
(***************************************************************************)
EXTENDS Integers, FiniteSets

CONSTANTS
    NSubs,          \* the subscriptions of the channel
    Subscriptions,  \* what each of them may be: a set of struct MemorySub
    Addrs,          \* the addresses they watch
    Pids,           \* the ids a game's process may have
    NoPid,          \* GetGameProcessID() when no game runs: 0
    High, Low,      \* the digits of a value
    TickMod,        \* 2^32: tick, tick_updated and sent_last_tick are u32
    RemindAfter,    \* 60: ticks after which the client is reminded
    MaxNet,         \* bound: datagrams in flight; what exceeds it is lost
    None            \* no value, datagram or status

VARIABLES
    sub,            \* memory_sub of each container
    last_value, tick_updated, sent_last_tick,
    mem,            \* the game's memory
    pid,            \* GetGameProcessID()
    ingame,         \* IS_INGAME
    ingame_status,  \* the global of that name, which every channel sets
    pc,             \* where the thread is
    at,             \* its memorySubContainer
    curr_value,     \* None where it is out of scope
    current_pid,    \* NoPid where it is out of scope
    asked,          \* the mode it asked for, to set ingame_status to it
    tick,
    net,            \* the datagrams in flight
    known,          \* the value the client received last for each subscription
    (* History. *)
    sent,           \* the datagram the last step sent
    silent,         \* consecutive passes that served it and sent nothing
    notified,       \* tick and value of its last notification
    announced       \* the status the channel sent last, or None once another
                    \* channel has set ingame_status since

subVars == <<last_value, tick_updated, sent_last_tick>>
gameVars == <<mem, pid, ingame>>
localVars == <<at, curr_value, current_pid, tick>>
statusVars == <<ingame_status, asked, announced>>
noteVars == <<silent, notified>>
vars == <<sub, subVars, gameVars, pc, localVars, net, known, statusVars,
          noteVars, sent>>

Slots == 1 .. NSubs
Ticks == 0 .. TickMod - 1
Values == High \X Low
Conds == {"ANY", "CHANGED", "ABOVE", "BELOW", "EQUAL", "NOT_EQUAL"}

MemorySub == [pid : Pids, addr : Addrs, size : {"short", "full"}, cond : Conds,
              value : Values, type : {"FREEZE", "NOTIFY"}]

Datagram == [slot : Slots, tick : Ticks, value : Values]

(* SUB_MEM and FREEZE_MEM clear memory_sub before they receive the value,  *)
(* so that a short one is followed by zeros.                               *)
ASSUME PollAssumption ==
    /\ NSubs \in Nat \ {0}
    /\ TickMod \in Nat /\ RemindAfter \in Nat
    /\ RemindAfter + 1 < TickMod
    /\ High \subseteq Nat /\ Low \subseteq Nat /\ 0 \in Low
    /\ Subscriptions \subseteq MemorySub
    /\ \A m \in Subscriptions : m.size = "short" => m.value[2] = 0
    /\ NoPid \notin Pids
    /\ None \notin Values \cup Datagram \cup (Ticks \X Values) \cup BOOLEAN

(* The rest of a u64 may be anything below the weight of its first bytes.  *)
ASSUME LowAssumption ==
    /\ Cardinality(Low) \in Nat
    /\ Low = 0 .. Cardinality(Low) - 1

(* Every variable holds a value of its kind: ticks stay below 2^32.        *)
TypeOK ==
    /\ sub \in [Slots -> Subscriptions]
    /\ last_value \in [Slots -> Values]
    /\ tick_updated \in [Slots -> Ticks]
    /\ sent_last_tick \in [Slots -> Ticks]
    /\ mem \in [Addrs -> Values]
    /\ pid \in Pids \cup {NoPid}
    /\ ingame \in BOOLEAN /\ ingame_status \in BOOLEAN
    /\ pc \in {"check", "ask", "set", "say", "gate", "pid", "scan", "read", "act"}
    /\ asked \in BOOLEAN \cup {None}
    /\ pc = "set" => asked # None
    /\ at \in 1 .. NSubs + 1
    /\ pc \in {"read", "act"} => at \in Slots
    /\ curr_value \in Values \cup {None}
    /\ pc = "act" => curr_value # None
    /\ current_pid \in Pids \cup {NoPid}
    /\ tick \in Ticks
    /\ net \subseteq Datagram
    /\ known \in [Slots -> Values \cup {None}]
    /\ sent \in Datagram \cup {None}
    /\ silent \in [Slots -> Nat]
    /\ notified \in [Slots -> (Ticks \X Values) \cup {None}]
    /\ announced \in BOOLEAN \cup {None}

(* add_memory_sub leaves last_value and the ticks of a container as they   *)
(* were on its stack, and ingame_status is what an earlier channel left.   *)
(* A freeze never uses its ticks.                                          *)
Init ==
    /\ sub \in [Slots -> Subscriptions]
    /\ last_value \in [Slots -> Values]
    /\ tick_updated \in [Slots -> Ticks]
    /\ sent_last_tick \in [Slots -> Ticks]
    /\ \A s \in Slots : sub[s].type = "FREEZE" =>
        tick_updated[s] = 0 /\ sent_last_tick[s] = 0
    /\ mem \in [Addrs -> Values]
    /\ pid \in Pids \cup {NoPid}
    /\ ingame \in BOOLEAN /\ ingame_status \in BOOLEAN
    /\ pc = "check" /\ at = 1
    /\ curr_value = None /\ current_pid = NoPid /\ asked = None
    /\ tick = 0
    /\ net = {} /\ sent = None
    /\ known = [s \in Slots |-> None]
    /\ silent = [s \in Slots |-> 0]
    /\ notified = [s \in Slots |-> None]
    /\ announced = None
-----------------------------------------------------------------------------
(* Arithmetic of the loop, on u32 ticks and big-endian u64 values.         *)

(* Mutant: a tick that does not wrap.                                      *)
NextTickUnbounded(t) == t + 1

NextTick(t) == IF t + 1 = TickMod THEN 0 ELSE t + 1

(* Mutant: t - s as a signed difference.                                   *)
ElapsedSigned(t, s) == t - s

(* t - s on 32 bits.                                                       *)
Elapsed(t, s) == IF s <= t THEN t - s ELSE t - s + TickMod

Due(s) == Elapsed(tick, sent_last_tick[s]) > RemindAfter

(* Mutant: the rest compared before the first digit.                       *)
GreaterSwapped(v, w) == v[2] > w[2] \/ (v[2] = w[2] /\ v[1] > w[1])

Greater(v, w) == v[1] > w[1] \/ (v[1] = w[1] /\ v[2] > w[2])

(* What the size bytes at curr_value are.                                  *)
Payload(s, v) == IF sub[s].size = "short" THEN <<v[1], 0>> ELSE v

(* Whether v satisfies the condition of s, last being the value before.    *)
Satisfies(s, v, last) ==
    LET is(cond) == sub[s].cond = cond
        bound == sub[s].value
    IN  \/ is("ANY")
        \/ is("CHANGED") /\ v # last
        \/ is("ABOVE") /\ Greater(v, bound)
        \/ is("BELOW") /\ Greater(bound, v)
        \/ is("EQUAL") /\ v = bound
        \/ is("NOT_EQUAL") /\ v # bound

hit_conditional(s) == Satisfies(s, curr_value, last_value[s])
-----------------------------------------------------------------------------
(* The thread.                                                             *)

Quietly == sent' = None /\ UNCHANGED <<sub, subVars, gameVars, net, known, noteVars>>

Check ==
    /\ pc = "check"
    /\ pc' = IF ingame_status # ingame THEN "ask" ELSE "gate"
    /\ Quietly /\ UNCHANGED <<localVars, statusVars>>

(* IS_INGAME is asked again, and may have changed.                         *)
Ask ==
    /\ pc = "ask"
    /\ asked' = ingame
    /\ pc' = "set"
    /\ Quietly /\ UNCHANGED <<localVars, ingame_status, announced>>

Set ==
    /\ pc = "set"
    /\ ingame_status' = asked
    /\ asked' = None
    /\ pc' = "say"
    /\ Quietly /\ UNCHANGED <<localVars, announced>>

(* Mutant: the mode is asked a third time for the message.                 *)
SayAskedAgain ==
    /\ pc = "say"
    /\ announced' = ingame
    /\ pc' = "gate"
    /\ Quietly /\ UNCHANGED <<localVars, ingame_status, asked>>

(* ingame_status is read for the message, whoever set it last.             *)
Say ==
    /\ pc = "say"
    /\ announced' = ingame_status
    /\ pc' = "gate"
    /\ Quietly /\ UNCHANGED <<localVars, ingame_status, asked>>

(* Out of the game the pass ends here, and does not count as a tick.       *)
Gate ==
    /\ pc = "gate"
    /\ pc' = IF ingame THEN "pid" ELSE "check"
    /\ Quietly /\ UNCHANGED <<localVars, statusVars>>

AskPid ==
    /\ pc = "pid"
    /\ current_pid' = pid
    /\ pc' = "scan"
    /\ Quietly /\ UNCHANGED <<at, curr_value, tick, statusVars>>

(* Mutants: the last subscription taken for the end of the table; the      *)
(* statuses GAME_STATUS_NONE and GAME_STATUS_IN_GAME confused.             *)
ServingButLast == at < NSubs /\ ingame /\ current_pid # NoPid
ServingNoGame == at \in Slots /\ ingame /\ current_pid = NoPid

Serving == at \in Slots /\ ingame /\ current_pid # NoPid

Scan ==
    /\ pc = "scan"
    /\ Serving
    /\ pc' = "read"
    /\ Quietly /\ UNCHANGED <<localVars, statusVars>>

(* The subscriptions the pass did not reach have no run of silent passes.  *)
PassEnd ==
    /\ pc = "scan"
    /\ ~Serving
    /\ tick' = NextTick(tick)
    /\ silent' = [s \in Slots |-> IF s < at THEN silent[s] ELSE 0]
    /\ at' = 1
    /\ current_pid' = NoPid
    /\ pc' = "check"
    /\ sent' = None
    /\ UNCHANGED <<sub, subVars, gameVars, curr_value, net, known, statusVars,
                   notified>>

(* ps3mapi_get_memory writes size bytes of curr_value, or none when there  *)
(* is no such process; its result is not looked at.                        *)
Read ==
    /\ pc = "read"
    /\ \E left \in Values :
        LET m == mem[sub[at].addr]
        IN  curr_value' = IF pid # sub[at].pid THEN left
                          ELSE IF sub[at].size = "short" THEN <<m[1], left[2]>>
                          ELSE m
    /\ pc' = "act"
    /\ Quietly /\ UNCHANGED <<at, current_pid, tick, statusVars>>

(* The end of the loop's body, whatever it did.                            *)
NextSub ==
    /\ last_value' = [last_value EXCEPT ![at] = curr_value]
    /\ at' = at + 1
    /\ curr_value' = None
    /\ pc' = "scan"
    /\ UNCHANGED <<sub, pid, ingame, current_pid, tick, known, statusVars>>

(* What ps3mapi_patch_process makes of the memory: size bytes are written. *)
Patched(s) ==
    IF sub[s].size = "short" THEN <<sub[s].value[1], mem[sub[s].addr][2]>>
    ELSE sub[s].value

(* There may be no such process any more.                                  *)
Patch ==
    /\ pc = "act"
    /\ sub[at].type = "FREEZE"
    /\ hit_conditional(at)
    /\ mem' = IF pid # sub[at].pid THEN mem
              ELSE [mem EXCEPT ![sub[at].addr] = Patched(at)]
    /\ sent' = None
    /\ NextSub
    /\ UNCHANGED <<tick_updated, sent_last_tick, net, noteVars>>

SendTo(s, t) ==
    LET d == [slot |-> s, tick |-> t, value |-> Payload(s, curr_value)]
    IN  /\ sent' = d
        /\ net' = IF Cardinality(net) < MaxNet THEN net \cup {d} ELSE net
        /\ silent' = [silent EXCEPT ![s] = 0]

(* Mutant: a notification that does not note when the value was new.        *)
NotifyUntimed ==
    /\ pc = "act"
    /\ sub[at].type = "NOTIFY"
    /\ hit_conditional(at)
    /\ sent_last_tick' = [sent_last_tick EXCEPT ![at] = tick]
    /\ SendTo(at, tick)
    /\ notified' = [notified EXCEPT ![at] = <<tick, Payload(at, curr_value)>>]
    /\ NextSub
    /\ UNCHANGED <<mem, tick_updated>>

Notify ==
    /\ pc = "act"
    /\ sub[at].type = "NOTIFY"
    /\ hit_conditional(at)
    /\ tick_updated' = [tick_updated EXCEPT ![at] = tick]
    /\ sent_last_tick' = [sent_last_tick EXCEPT ![at] = tick]
    /\ SendTo(at, tick)
    /\ notified' = [notified EXCEPT ![at] = <<tick, Payload(at, curr_value)>>]
    /\ NextSub
    /\ UNCHANGED mem

(* After a notification nothing is due: sent_last_tick is tick.            *)
Remind ==
    /\ pc = "act"
    /\ sub[at].type = "NOTIFY"
    /\ ~hit_conditional(at)
    /\ Due(at)
    /\ sent_last_tick' = [sent_last_tick EXCEPT ![at] = tick]
    /\ SendTo(at, tick_updated[at])
    /\ NextSub
    /\ UNCHANGED <<mem, tick_updated, notified>>

(* Bound: how far silent passes are counted.                               *)
MaxSilent == RemindAfter + 2

Quiet ==
    /\ pc = "act"
    /\ ~hit_conditional(at)
    /\ ~(sub[at].type = "NOTIFY" /\ Due(at))
    /\ silent' = IF sub[at].type = "NOTIFY" /\ silent[at] < MaxSilent
                 THEN [silent EXCEPT ![at] = @ + 1] ELSE silent
    /\ sent' = None
    /\ NextSub
    /\ UNCHANGED <<mem, tick_updated, sent_last_tick, net, notified>>

Thread ==
    \/ Check \/ Ask \/ Set \/ Say \/ Gate \/ AskPid \/ Scan \/ PassEnd
    \/ Read \/ Patch \/ Notify \/ Remind \/ Quiet
-----------------------------------------------------------------------------
(* Other channels do as Check, Ask, Set and Say do, with no lock: any of   *)
(* them may set ingame_status to a mode that it asked for a while ago, and *)
(* tells its own client.                                                   *)
OtherSets ==
    /\ ingame_status' \in BOOLEAN
    /\ announced' = None
    /\ Quietly /\ UNCHANGED <<pc, localVars, asked>>

-----------------------------------------------------------------------------
(* The console and the network.                                            *)

Outside ==
    sent' = None /\ UNCHANGED <<sub, subVars, pc, localVars, statusVars, noteVars>>

ModeChanges ==
    /\ ingame' = ~ingame
    /\ Outside /\ UNCHANGED <<mem, pid, net, known>>

GameStarts ==
    /\ pid' \in Pids \ {pid}
    /\ mem' \in [Addrs -> Values]
    /\ Outside /\ UNCHANGED <<ingame, net, known>>

GameEnds ==
    /\ pid # NoPid
    /\ pid' = NoPid
    /\ Outside /\ UNCHANGED <<mem, ingame, net, known>>

GameWrites ==
    /\ pid # NoPid
    /\ \E a \in Addrs, v \in Values : v # mem[a] /\ mem' = [mem EXCEPT ![a] = v]
    /\ Outside /\ UNCHANGED <<pid, ingame, net, known>>

Deliver(d) ==
    /\ d \in net
    /\ net' = net \ {d}
    /\ known' = [known EXCEPT ![d.slot] = d.value]
    /\ Outside /\ UNCHANGED gameVars

Lose(d) ==
    /\ d \in net
    /\ net' = net \ {d}
    /\ Outside /\ UNCHANGED <<gameVars, known>>

Next ==
    \/ Thread
    \/ OtherSets
    \/ ModeChanges \/ GameStarts \/ GameEnds \/ GameWrites
    \/ \E d \in net : Deliver(d) \/ Lose(d)

Spec == Init /\ [][Next]_vars

(* The thread runs, and the network does not lose for ever what is sent    *)
(* for a subscription again and again; the game owes nothing, and other    *)
(* channels neither.                                                       *)
FairSpec ==
    /\ Spec
    /\ WF_vars(Thread)
    /\ \A s \in Slots : SF_vars(\E d \in net : d.slot = s /\ Deliver(d))
-----------------------------------------------------------------------------
(* Safety.                                                                 *)

(* A subscription to be notified is never passed over in silence for more  *)
(* than 61 ticks in a row, whatever its uninitialised ticks held at first  *)
(* and across the wrap of the tick: the reminder of a lost packet comes    *)
(* every half second.                                                      *)
SilenceBounded == \A s \in Slots : silent[s] <= RemindAfter + 1

(* Every datagram about a CHANGED subscription carries the tick and the    *)
(* value of its last notification, so that a reminder is never taken for a *)
(* change, and no change goes untold between two of them.                  *)
ReminderRepeats ==
    sent # None =>
        LET last == notified[sent.slot]
        IN  (sub[sent.slot].cond = "CHANGED" /\ last # None)
                => last = <<sent.tick, sent.value>>

(* Why SilenceBounded holds: the ticks since the last datagram count the   *)
(* silent passes, and a pass that is over made them one more.              *)
CountedFor(s) ==
    LET passed == Elapsed(tick, sent_last_tick[s])
    IN  silent[s] > 0 =>
            /\ sub[s].type = "NOTIFY"
            /\ s < at => silent[s] <= passed + 1 /\ passed <= RemindAfter
            /\ s >= at => silent[s] <= passed /\ passed <= RemindAfter + 1

SilenceCounted == \A s \in Slots : CountedFor(s)

(* Why ReminderRepeats holds: the container of a CHANGED subscription      *)
(* keeps what its last notification said.                                  *)
NotificationKept ==
    \A s \in Slots :
        notified[s] # None =>
            /\ sub[s].type = "NOTIFY"
            /\ sub[s].cond = "CHANGED" =>
                notified[s] = <<tick_updated[s], Payload(s, last_value[s])>>

Number(v) == v[1] * Cardinality(Low) + v[2]

(* The condition on the size bytes that were read, as the client meant it. *)
Meant(s) ==
    LET cond == sub[s].cond
        v == Number(Payload(s, curr_value))
        bound == Number(sub[s].value)
    IN  CASE cond = "ANY" -> TRUE
          [] cond = "CHANGED" -> Payload(s, curr_value) # Payload(s, last_value[s])
          [] cond = "ABOVE" -> v > bound
          [] cond = "BELOW" -> v < bound
          [] cond = "EQUAL" -> v = bound
          [] cond = "NOT_EQUAL" -> v # bound

(* The code tests the whole u64, the rest of which is not the game's when  *)
(* the subscription is short.  It still tests what the client meant when   *)
(* the subscription is full or for ANY or BELOW; otherwise EQUAL can only  *)
(* miss and the others can only hit where they should not.                 *)
ConditionsAsMeant ==
    pc = "act" =>
        LET hit == hit_conditional(at)
            cond == sub[at].cond
            exact == sub[at].size = "full" \/ cond \in {"ANY", "BELOW"}
        IN  /\ (exact \/ cond = "EQUAL") => (hit => Meant(at))
            /\ (exact \/ cond # "EQUAL") => (Meant(at) => hit)

(* Refuted: a CHANGED subscription is notified only of a value other than  *)
(* the one it was notified of last.                                        *)
NotifiedOfChanges ==
    (/\ pc = "act" /\ hit_conditional(at)
     /\ sub[at].cond = "CHANGED" /\ sub[at].type = "NOTIFY"
     /\ notified[at] # None)
        => Payload(at, curr_value) # notified[at][2]

(* Refuted: nothing is sent for a process other than the one the pass      *)
(* found: current_pid is compared with 0 only.                             *)
SentForThisGame == sent # None => sub[sent.slot].pid = current_pid
-----------------------------------------------------------------------------
(* Liveness.                                                               *)

Plays(p) == ingame /\ pid = p

(* However many datagrams are lost or late, the client ends up with the    *)
(* value of the memory it watches once the game plays on and leaves it.    *)
ClientLearns ==
    \A s \in Slots, v \in Values :
        sub[s].type = "NOTIFY" =>
            (<>[](Plays(sub[s].pid) /\ mem[sub[s].addr] = v)
                => <>[](known[s] = Payload(s, v)))

(* A frozen value is restored again and again while the game plays,        *)
(* however often the game overwrites it.                                   *)
FreezeRestores ==
    \A s \in Slots :
        sub[s].type = "FREEZE" /\ sub[s].cond \in {"ANY", "NOT_EQUAL"} =>
            (<>[]Plays(sub[s].pid)
                => []<>(Payload(s, mem[sub[s].addr]) = sub[s].value))

(* Once the console stays in a game, or out of it, and other channels no   *)
(* longer set ingame_status, it comes to say so and stays, and what this   *)
(* channel told its client last, unless another has set the status since,  *)
(* is that: the test and the assignment ask for the mode one after the     *)
(* other, the message is of what is remembered by then, and the console    *)
(* can change its mind, and another channel set what it asked for before,  *)
(* at any moment between them.                                             *)
StatusAnnounced ==
    \A b \in BOOLEAN :
        <>[](ingame = b) /\ <>[][~OtherSets]_vars
            => <>[](ingame_status = b /\ announced \in {b, None})
=============================================================================
