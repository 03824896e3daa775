--------------------------- MODULE PollLoopProofs ---------------------------
(***************************************************************************)
(* Proofs about PollLoop, for any number of subscriptions, any digits and  *)
(* any width of the tick.                                                  *)
(***************************************************************************)
EXTENDS PollLoop, TLAPS

USE PollAssumption DEF Ticks, Values

(* The size bytes of a value, with zeros, are a value.                     *)
LEMMA PayloadType ==
    ASSUME NEW s, NEW v \in Values PROVE Payload(s, v) \in Values
BY DEF Payload

(* A tick is followed by a tick.                                           *)
LEMMA NextTickType == ASSUME NEW t \in Ticks PROVE NextTick(t) \in Ticks
BY DEF NextTick

(* A datagram about a subscription, and what sending it leaves.            *)
LEMMA SendToType ==
    ASSUME TypeOK, NEW s \in Slots, NEW t \in Ticks, curr_value \in Values,
           SendTo(s, t)
    PROVE  /\ net' \subseteq Datagram
           /\ sent' \in Datagram
           /\ sent' = [slot |-> s, tick |-> t, value |-> Payload(s, curr_value)]
           /\ silent' \in [Slots -> Nat]
           /\ silent' = [silent EXCEPT ![s] = 0]
<1> DEFINE d == [slot |-> s, tick |-> t, value |-> Payload(s, curr_value)]
<1>1. d \in Datagram
  BY PayloadType DEF Datagram
<1>2. sent' = d /\ silent' = [silent EXCEPT ![s] = 0]
  BY DEF SendTo
<1>3. net' \subseteq Datagram
  BY <1>1 DEF SendTo, TypeOK
<1>4. silent' \in [Slots -> Nat]
  BY <1>2 DEF TypeOK
<1> QED BY <1>1, <1>2, <1>3, <1>4

(* Initially every variable has its type.                                  *)
LEMMA TypeInit == Init => TypeOK
<1> SUFFICES ASSUME Init PROVE TypeOK
  OBVIOUS
<1>1. 0 \in Ticks /\ 1 \in 1 .. NSubs + 1
  OBVIOUS
<1> QED BY <1>1 DEF Init, TypeOK, Slots

(* A step of the thread that reads keeps the types.                        *)
LEMMA TypeThreadMoves ==
    ASSUME TypeOK, Check \/ Ask \/ Set \/ Say \/ Gate \/ AskPid \/ Scan \/ Read
    PROVE  TypeOK'
<1>1. CASE Check
  BY <1>1 DEF TypeOK, Check, Quietly, subVars, gameVars, localVars, statusVars, noteVars
<1>2. CASE Ask \/ Set \/ Say
  BY <1>2 DEF TypeOK, Ask, Set, Say, Quietly, subVars, gameVars, localVars, noteVars
<1>3. CASE Gate
  BY <1>3 DEF TypeOK, Gate, Quietly, subVars, gameVars, localVars, statusVars, noteVars
<1>4. CASE AskPid
  BY <1>4 DEF TypeOK, AskPid, Quietly, subVars, gameVars, statusVars, noteVars
<1>5. CASE Scan
  BY <1>5 DEF TypeOK, Scan, Serving, Quietly, subVars, gameVars, localVars, statusVars, noteVars
<1>6. CASE Read
  <2>1. at \in Slots /\ sub[at].addr \in Addrs
    BY <1>6 DEF Read, TypeOK, MemorySub
  <2>2. mem[sub[at].addr] \in Values
    BY <2>1 DEF TypeOK
  <2>3. curr_value' \in Values
    BY <1>6, <2>2 DEF Read
  <2> QED BY <1>6, <2>1, <2>3 DEF TypeOK, Read, Quietly, subVars, gameVars, statusVars, noteVars
<1> QED BY <1>1, <1>2, <1>3, <1>4, <1>5, <1>6

(* What the end of the body does to the variables it sets.                 *)
LEMMA NextSubType ==
    ASSUME TypeOK, pc = "act", NextSub
    PROVE  /\ at \in Slots /\ curr_value \in Values
           /\ last_value' \in [Slots -> Values]
           /\ at' \in 1 .. NSubs + 1 /\ pc' = "scan" /\ curr_value' = None
<1>1. at \in Slots /\ curr_value \in Values
  BY DEF TypeOK
<1>2. at + 1 \in 1 .. NSubs + 1
  BY <1>1 DEF Slots
<1> QED BY <1>1, <1>2 DEF NextSub, TypeOK

(* A step of the thread that serves a subscription keeps the types.        *)
LEMMA TypeThreadActs ==
    ASSUME TypeOK, Patch \/ Notify \/ Remind \/ Quiet
    PROVE  TypeOK'
<1>0. pc = "act" /\ NextSub
  BY DEF Patch, Notify, Remind, Quiet
<1>1. /\ at \in Slots /\ curr_value \in Values
      /\ last_value' \in [Slots -> Values]
      /\ at' \in 1 .. NSubs + 1 /\ pc' = "scan" /\ curr_value' = None
  BY <1>0, NextSubType
<1>2. CASE Patch
  <2>1. sub[at] \in MemorySub
    BY <1>1 DEF TypeOK
  <2>2. sub[at].addr \in Addrs /\ sub[at].value \in Values
    BY <2>1 DEF MemorySub
  <2>3. Patched(at) \in Values
    BY <2>2 DEF Patched, TypeOK
  <2>4. mem' \in [Addrs -> Values]
    BY <1>2, <2>2, <2>3 DEF Patch, TypeOK
  <2> QED BY <1>1, <1>2, <2>4 DEF TypeOK, Patch, NextSub, noteVars, statusVars
<1>3. CASE Notify
  <2>1. <<tick, Payload(at, curr_value)>> \in Ticks \X Values
    BY <1>1, PayloadType DEF TypeOK
  <2>2. notified' \in [Slots -> (Ticks \X Values) \cup {None}]
    BY <1>1, <1>3, <2>1 DEF TypeOK, Notify
  <2>3. net' \subseteq Datagram /\ sent' \in Datagram /\ silent' \in [Slots -> Nat]
    BY <1>1, <1>3, SendToType DEF Notify, TypeOK
  <2>4. /\ tick_updated' \in [Slots -> Ticks]
        /\ sent_last_tick' \in [Slots -> Ticks]
    BY <1>1, <1>3 DEF TypeOK, Notify
  <2> QED BY <1>1, <1>3, <2>2, <2>3, <2>4 DEF TypeOK, Notify, NextSub, statusVars
<1>4. CASE Remind
  <2>1. tick_updated[at] \in Ticks
    BY <1>1 DEF TypeOK
  <2>2. net' \subseteq Datagram /\ sent' \in Datagram /\ silent' \in [Slots -> Nat]
    BY <1>1, <1>4, <2>1, SendToType DEF Remind
  <2>3. sent_last_tick' \in [Slots -> Ticks]
    BY <1>1, <1>4 DEF TypeOK, Remind
  <2> QED BY <1>1, <1>4, <2>2, <2>3 DEF TypeOK, Remind, NextSub, statusVars
<1>5. CASE Quiet
  <2>1. silent' \in [Slots -> Nat]
    BY <1>1, <1>5 DEF TypeOK, Quiet
  <2> QED BY <1>1, <1>5, <2>1 DEF TypeOK, Quiet, NextSub, statusVars
<1> QED BY <1>2, <1>3, <1>4, <1>5

(* A step of the console or of the network keeps the types.                *)
LEMMA TypeOutside ==
    ASSUME TypeOK,
           \/ ModeChanges \/ GameStarts \/ GameEnds \/ GameWrites
           \/ \E d \in net : Deliver(d) \/ Lose(d)
    PROVE  TypeOK'
<1>1. CASE ModeChanges
  BY <1>1 DEF TypeOK, ModeChanges, Outside, subVars, localVars, statusVars, noteVars
<1>2. CASE GameStarts
  BY <1>2 DEF TypeOK, GameStarts, Outside, subVars, localVars, statusVars, noteVars
<1>3. CASE GameEnds
  BY <1>3 DEF TypeOK, GameEnds, Outside, subVars, localVars, statusVars, noteVars
<1>4. CASE GameWrites
  <2>1. mem' \in [Addrs -> Values]
    BY <1>4 DEF TypeOK, GameWrites
  <2> QED BY <1>4, <2>1 DEF TypeOK, GameWrites, Outside, subVars, localVars, statusVars, noteVars
<1>5. ASSUME NEW d \in net, Deliver(d) \/ Lose(d) PROVE TypeOK'
  <2>1. d \in Datagram
    BY <1>5 DEF TypeOK
  <2>2. d.slot \in Slots /\ d.value \in Values
    BY <2>1 DEF Datagram
  <2>3. net' \subseteq Datagram /\ known' \in [Slots -> Values \cup {None}]
    BY <1>5, <2>2 DEF TypeOK, Deliver, Lose
  <2> QED BY <1>5, <2>3 DEF TypeOK, Deliver, Lose, Outside, gameVars, subVars,
                            localVars, statusVars, noteVars
<1> QED BY <1>1, <1>2, <1>3, <1>4, <1>5

(* Another channel only sets the status.                                   *)
LEMMA TypeOtherSets == ASSUME TypeOK, OtherSets PROVE TypeOK'
BY DEF TypeOK, OtherSets, Quietly, subVars, gameVars, localVars, noteVars

(* Every step keeps the types.                                             *)
LEMMA TypeStep == ASSUME TypeOK, [Next]_vars PROVE TypeOK'
<1>1. CASE Thread
  <2>1. CASE PassEnd
    <3>1. tick' \in Ticks
      BY <2>1, NextTickType DEF TypeOK, PassEnd
    <3>2. silent' \in [Slots -> Nat]
      BY <2>1 DEF TypeOK, PassEnd
    <3>3. 1 \in 1 .. NSubs + 1
      OBVIOUS
    <3> QED BY <2>1, <3>1, <3>2, <3>3
            DEF TypeOK, PassEnd, subVars, gameVars, statusVars
  <2> QED BY <1>1, <2>1, TypeThreadMoves, TypeThreadActs DEF Thread
<1>2. CASE UNCHANGED vars
  BY <1>2 DEF TypeOK, vars, subVars, gameVars, localVars, statusVars, noteVars
<1> QED BY <1>1, <1>2, TypeOtherSets, TypeOutside DEF Next

(* Every variable keeps its type; the ticks stay below the modulus.        *)
THEOREM PollTypeCorrect == Spec => []TypeOK
<1>1. TypeOK /\ [Next]_vars => TypeOK'
  BY TypeStep
<1> QED BY TypeInit, <1>1, PTL DEF Spec
-----------------------------------------------------------------------------
(* One more tick after at most RemindAfter of them: the modulus is larger, *)
(* so that the wrap loses none.                                            *)
LEMMA ElapsedNext ==
    ASSUME NEW t \in Ticks, NEW s \in Ticks, Elapsed(t, s) <= RemindAfter
    PROVE  Elapsed(NextTick(t), s) = Elapsed(t, s) + 1
BY DEF Elapsed, NextTick

(* No time has elapsed since the tick itself, and never less than none.    *)
LEMMA ElapsedNat ==
    ASSUME NEW t \in Ticks, NEW s \in Ticks
    PROVE  Elapsed(t, s) \in Nat /\ Elapsed(t, t) = 0
BY DEF Elapsed

(* No pass was silent yet.                                                 *)
LEMMA SilenceInit == Init => SilenceCounted
BY DEF Init, SilenceCounted, CountedFor

(* The end of a pass: one more tick has elapsed for what it served.        *)
LEMMA SilencePassEnd == ASSUME TypeOK, SilenceCounted, PassEnd PROVE SilenceCounted'
<1> SUFFICES ASSUME NEW s \in Slots, silent'[s] > 0
             PROVE  /\ sub[s].type = "NOTIFY"
                    /\ silent'[s] <= Elapsed(tick', sent_last_tick[s])
                    /\ Elapsed(tick', sent_last_tick[s]) <= RemindAfter + 1
  <2>1. at' = 1 /\ sub' = sub /\ sent_last_tick' = sent_last_tick
    BY DEF PassEnd, subVars
  <2>2. \A s \in Slots : ~(s < at') /\ s >= at'
    BY <2>1 DEF Slots
  <2> QED BY <2>1, <2>2 DEF SilenceCounted, CountedFor
<1>1. s < at /\ silent'[s] = silent[s]
  BY DEF PassEnd, TypeOK
<1>2. tick \in Ticks /\ sent_last_tick[s] \in Ticks /\ silent[s] \in Nat
  BY DEF TypeOK
<1>3. /\ sub[s].type = "NOTIFY"
      /\ silent[s] <= Elapsed(tick, sent_last_tick[s]) + 1
      /\ Elapsed(tick, sent_last_tick[s]) <= RemindAfter
  BY <1>1 DEF SilenceCounted, CountedFor
<1>4. Elapsed(tick', sent_last_tick[s]) = Elapsed(tick, sent_last_tick[s]) + 1
  BY <1>2, <1>3, ElapsedNext DEF PassEnd
<1>5. Elapsed(tick, sent_last_tick[s]) \in Nat
  BY <1>2, ElapsedNat
<1> QED BY <1>1, <1>2, <1>3, <1>4, <1>5

(* Serving a subscription: silence is one longer, or over.                 *)
LEMMA SilenceServe ==
    ASSUME TypeOK, SilenceCounted, Patch \/ Notify \/ Remind \/ Quiet
    PROVE  SilenceCounted'
<1>0. pc = "act" /\ NextSub
  BY DEF Patch, Notify, Remind, Quiet
<1>1. at \in Slots /\ at' = at + 1 /\ sub' = sub /\ tick' = tick
  BY <1>0 DEF NextSub, TypeOK
<1> SUFFICES ASSUME NEW s \in Slots
             PROVE  CountedFor(s)'
  BY DEF SilenceCounted
<1>2. /\ tick \in Ticks /\ sent_last_tick[s] \in Ticks /\ silent[s] \in Nat
      /\ s \in Int /\ at \in Int
  BY <1>1 DEF TypeOK, Slots
<1>3. Elapsed(tick, sent_last_tick[s]) \in Nat
  BY <1>2, ElapsedNat
<1>4. CASE s # at
  <2>1. silent'[s] = silent[s] /\ sent_last_tick'[s] = sent_last_tick[s]
    BY <1>1, <1>4 DEF TypeOK, Patch, Notify, Remind, Quiet, SendTo, noteVars
  <2>2. (s < at') <=> (s < at)
    BY <1>1, <1>2, <1>4
  <2>3. (s >= at') <=> (s >= at)
    BY <1>1, <1>2, <1>4
  <2>4. CountedFor(s)
    BY DEF SilenceCounted
  <2> QED BY <1>1, <2>1, <2>2, <2>3, <2>4 DEF CountedFor
<1>5. CASE s = at /\ (Notify \/ Remind)
  <2>1. silent'[s] = 0
    BY <1>5, <1>1 DEF TypeOK, Notify, Remind, SendTo
  <2> QED BY <2>1 DEF CountedFor
<1>6. CASE s = at /\ (Patch \/ Quiet) /\ sub[s].type # "NOTIFY"
  <2>1. silent'[s] = silent[s]
    BY <1>6, <1>1 DEF TypeOK, Patch, Quiet, noteVars
  <2>2. silent[s] = 0
    BY <1>6, <1>2 DEF SilenceCounted, CountedFor
  <2> QED BY <2>1, <2>2 DEF CountedFor
<1>7. CASE s = at /\ Quiet /\ sub[s].type = "NOTIFY"
  <2>1. Elapsed(tick, sent_last_tick[s]) <= RemindAfter
    BY <1>7, <1>3 DEF Quiet, Due
  <2>2. silent[s] <= Elapsed(tick, sent_last_tick[s])
    BY <1>7, <1>2, <1>3 DEF SilenceCounted, CountedFor
  <2>3. silent'[s] = silent[s] + 1 /\ sent_last_tick'[s] = sent_last_tick[s]
    <3>1. silent[s] < MaxSilent
      BY <1>2, <1>3, <2>1, <2>2 DEF MaxSilent
    <3> QED BY <1>7, <1>1, <3>1 DEF TypeOK, Quiet
  <2>4. s < at' /\ ~(s >= at')
    BY <1>1, <1>2, <1>7
  <2> QED BY <1>1, <1>2, <1>3, <1>7, <2>3, <2>1, <2>2, <2>4 DEF CountedFor
<1>8. ~(Patch /\ sub[at].type = "NOTIFY")
  BY DEF Patch
<1> QED BY <1>4, <1>5, <1>6, <1>7, <1>8

(* Every step keeps the count of silent passes.                            *)
LEMMA SilenceStep ==
    ASSUME TypeOK, SilenceCounted, [Next]_vars PROVE SilenceCounted'
<1>1. CASE PassEnd
  BY <1>1, SilencePassEnd
<1>2. CASE Patch \/ Notify \/ Remind \/ Quiet
  BY <1>2, SilenceServe
<1>3. CASE Check \/ Ask \/ Set \/ Say \/ Gate \/ AskPid \/ Scan \/ Read \/ OtherSets
  <2>1. UNCHANGED <<sub, sent_last_tick, silent, at, tick>>
    BY <1>3 DEF Check, Ask, Set, Say, Gate, AskPid, Scan, Read, OtherSets, Quietly,
                subVars, localVars, noteVars
  <2> QED BY <2>1 DEF SilenceCounted, CountedFor
<1>4. CASE UNCHANGED vars \/ Outside
  <2>1. UNCHANGED <<sub, sent_last_tick, silent, at, tick>>
    BY <1>4 DEF Outside, vars, subVars, localVars, noteVars
  <2> QED BY <2>1 DEF SilenceCounted, CountedFor
<1> QED BY <1>1, <1>2, <1>3, <1>4
        DEF Next, Thread, ModeChanges, GameStarts, GameEnds, GameWrites, Deliver, Lose

(* A subscription to be notified is never silent for more than             *)
(* RemindAfter + 1 passes in a row.                                        *)
THEOREM ReminderComes == Spec => []SilenceBounded
<1>1. TypeOK /\ SilenceCounted => SilenceBounded
  <2> SUFFICES ASSUME TypeOK, SilenceCounted, NEW s \in Slots
               PROVE  silent[s] <= RemindAfter + 1
    BY DEF SilenceBounded
  <2>0. /\ silent[s] \in Nat /\ s \in Int /\ at \in Int
        /\ tick \in Ticks /\ sent_last_tick[s] \in Ticks
    BY DEF TypeOK, Slots
  <2>1. Elapsed(tick, sent_last_tick[s]) \in Nat
    BY <2>0, ElapsedNat
  <2>2. CountedFor(s)
    BY DEF SilenceCounted
  <2>3. CASE s < at
    BY <2>0, <2>1, <2>2, <2>3 DEF CountedFor
  <2>4. CASE s >= at
    BY <2>0, <2>1, <2>2, <2>4 DEF CountedFor
  <2> QED BY <2>0, <2>3, <2>4
<1>2. TypeOK /\ SilenceCounted /\ [Next]_vars => TypeOK' /\ SilenceCounted'
  BY TypeStep, SilenceStep
<1> QED BY TypeInit, SilenceInit, <1>1, <1>2, PTL DEF Spec
-----------------------------------------------------------------------------
(* What a notification or a reminder of a CHANGED subscription says is     *)
(* what its container keeps.                                               *)
RemindInv == NotificationKept /\ ReminderRepeats

(* Nothing was sent or notified yet.                                       *)
LEMMA RemindInit == Init => RemindInv
BY DEF Init, RemindInv, NotificationKept, ReminderRepeats

(* Every step keeps it.                                                    *)
LEMMA RemindStep == ASSUME TypeOK, RemindInv, [Next]_vars PROVE RemindInv'
<1>1. CASE Patch \/ Quiet
  <2>1. at \in Slots /\ sent' = None /\ UNCHANGED <<sub, tick_updated, notified>>
    BY <1>1 DEF TypeOK, Patch, Quiet, NextSub, noteVars
  <2>2. last_value' = [last_value EXCEPT ![at] = curr_value]
    BY <1>1 DEF Patch, Quiet, NextSub
  <2>3. ~hit_conditional(at) \/ sub[at].type = "FREEZE"
    BY <1>1 DEF Patch, Quiet
  <2>4. sub[at].type = "NOTIFY" /\ sub[at].cond = "CHANGED" => last_value[at] = curr_value
    BY <2>3 DEF hit_conditional, Satisfies
  <2>5. NotificationKept'
    <3> SUFFICES ASSUME NEW s \in Slots, notified[s] # None
                 PROVE  /\ sub[s].type = "NOTIFY"
                        /\ sub[s].cond = "CHANGED" =>
                            notified[s] = <<tick_updated[s], Payload(s, last_value'[s])>>
      BY <2>1 DEF NotificationKept, Payload
    <3>1. /\ sub[s].type = "NOTIFY"
          /\ sub[s].cond = "CHANGED" =>
                notified[s] = <<tick_updated[s], Payload(s, last_value[s])>>
      BY DEF RemindInv, NotificationKept
    <3>2. sub[s].cond = "CHANGED" => last_value'[s] = last_value[s]
      BY <2>1, <2>2, <2>4, <3>1 DEF TypeOK
    <3> QED BY <3>1, <3>2
  <2> QED BY <2>1, <2>5 DEF RemindInv, ReminderRepeats
<1>2. CASE Notify
  <2> DEFINE said == <<tick, Payload(at, curr_value)>>
  <2>1. at \in Slots /\ sub[at].type = "NOTIFY" /\ UNCHANGED sub
    BY <1>2 DEF TypeOK, Notify, NextSub
  <2>2. /\ notified' = [notified EXCEPT ![at] = said]
        /\ tick_updated' = [tick_updated EXCEPT ![at] = tick]
        /\ last_value' = [last_value EXCEPT ![at] = curr_value]
        /\ sent' = [slot |-> at, tick |-> tick, value |-> Payload(at, curr_value)]
    BY <1>2 DEF Notify, NextSub, SendTo
  <2>3. NotificationKept'
    <3> SUFFICES ASSUME NEW s \in Slots, notified'[s] # None
                 PROVE  /\ sub[s].type = "NOTIFY"
                        /\ sub[s].cond = "CHANGED" =>
                            notified'[s] = <<tick_updated'[s], Payload(s, last_value'[s])>>
      BY <2>1 DEF NotificationKept, Payload
    <3>1. CASE s = at
      BY <2>1, <2>2, <3>1 DEF TypeOK
    <3>2. CASE s # at
      BY <2>2, <3>2 DEF TypeOK, RemindInv, NotificationKept
    <3> QED BY <3>1, <3>2
  <2>4. notified'[at] = said
    BY <2>1, <2>2 DEF TypeOK
  <2>5. ReminderRepeats'
    BY <2>2, <2>4 DEF ReminderRepeats
  <2> QED BY <2>3, <2>5 DEF RemindInv
<1>3. CASE Remind
  <2>1. at \in Slots /\ ~hit_conditional(at) /\ UNCHANGED <<sub, tick_updated, notified>>
    BY <1>3 DEF TypeOK, Remind, NextSub
  <2>2. /\ last_value' = [last_value EXCEPT ![at] = curr_value]
        /\ sent' = [slot |-> at, tick |-> tick_updated[at],
                    value |-> Payload(at, curr_value)]
    BY <1>3 DEF Remind, NextSub, SendTo
  <2>3. sub[at].cond = "CHANGED" => last_value[at] = curr_value
    BY <2>1 DEF hit_conditional, Satisfies
  <2>4. sub[at].cond = "CHANGED" => last_value' = last_value
    BY <2>1, <2>2, <2>3 DEF TypeOK
  <2>5. NotificationKept'
    <3> SUFFICES ASSUME NEW s \in Slots, notified[s] # None
                 PROVE  /\ sub[s].type = "NOTIFY"
                        /\ sub[s].cond = "CHANGED" =>
                            notified[s] = <<tick_updated[s], Payload(s, last_value'[s])>>
      BY <2>1 DEF NotificationKept, Payload
    <3>1. /\ sub[s].type = "NOTIFY"
          /\ sub[s].cond = "CHANGED" =>
                notified[s] = <<tick_updated[s], Payload(s, last_value[s])>>
      BY DEF RemindInv, NotificationKept
    <3>2. sub[s].cond = "CHANGED" => last_value'[s] = last_value[s]
      BY <2>1, <2>2, <2>3 DEF TypeOK
    <3> QED BY <3>1, <3>2
  <2>6. (sub[at].cond = "CHANGED" /\ notified[at] # None)
            => notified[at] = <<tick_updated[at], Payload(at, curr_value)>>
    BY <2>1, <2>3 DEF RemindInv, NotificationKept
  <2>7. ReminderRepeats'
    BY <2>1, <2>2, <2>6 DEF ReminderRepeats
  <2> QED BY <2>5, <2>7 DEF RemindInv
<1>4. CASE \/ Check \/ Ask \/ Set \/ Say \/ Gate \/ AskPid \/ Scan \/ Read \/ PassEnd
           \/ OtherSets \/ Outside
  <2>1. sent' = None /\ UNCHANGED <<sub, notified, tick_updated, last_value>>
    BY <1>4 DEF Check, Ask, Set, Say, Gate, AskPid, Scan, Read, PassEnd, OtherSets, Quietly,
                Outside, subVars, noteVars
  <2>2. \A s : Payload(s, last_value[s])' = Payload(s, last_value[s])
    BY <2>1 DEF Payload
  <2> QED BY <2>1, <2>2 DEF RemindInv, NotificationKept, ReminderRepeats
<1>5. CASE UNCHANGED vars
  BY <1>5 DEF vars, subVars, noteVars, RemindInv, NotificationKept, ReminderRepeats, Payload
<1> QED BY <1>1, <1>2, <1>3, <1>4, <1>5
        DEF Next, Thread, ModeChanges, GameStarts, GameEnds, GameWrites, Deliver, Lose

(* Every datagram about a CHANGED subscription repeats its last            *)
(* notification.                                                           *)
THEOREM RemindersRepeat == Spec => []ReminderRepeats
<1>1. TypeOK /\ RemindInv /\ [Next]_vars => TypeOK' /\ RemindInv'
  BY TypeStep, RemindStep
<1>2. RemindInv => ReminderRepeats
  BY DEF RemindInv
<1> QED BY TypeInit, RemindInit, <1>1, <1>2, PTL DEF Spec

-----------------------------------------------------------------------------
(* A number with a greater first digit is greater, whatever the others.    *)
LEMMA FirstDigitDecides ==
    ASSUME NEW k \in Nat, NEW a \in Nat, NEW b \in Nat, NEW c \in Nat, NEW d \in Nat,
           a > b, d < k
    PROVE  a * k + c > b * k + d
<1>1. PICK e \in Nat : a = b + 1 + e
  <2>1. a - (b + 1) \in Nat /\ a = b + 1 + (a - (b + 1))
    OBVIOUS
  <2> QED BY <2>1, Zenon
<1>2. (b + 1 + e) * k = b * k + k + e * k
  OBVIOUS
<1>3. a * k = b * k + k + e * k
  BY <1>1, <1>2, Zenon
<1>4. e * k \in Nat /\ b * k \in Nat
  OBVIOUS
<1> QED BY <1>3, <1>4

(* Comparing two values digit by digit compares the numbers they are.      *)
LEMMA GreaterIsGreater ==
    ASSUME NEW v \in Values, NEW w \in Values
    PROVE  /\ Number(v) \in Nat
           /\ Greater(v, w) <=> Number(v) > Number(w)
           /\ v = w <=> Number(v) = Number(w)
<1>1. PICK k \in Nat : k = Cardinality(Low) /\ Low = 0 .. k - 1
  BY LowAssumption
<1>2. PICK a \in Nat, b \in Nat, c \in Nat, d \in Nat :
        v = <<a, c>> /\ w = <<b, d>> /\ c < k /\ d < k
  <2>1. \A u \in Values : \E x \in High, y \in Low : u = <<x, y>>
    <3> SUFFICES ASSUME NEW u \in Values PROVE \E x \in High, y \in Low : u = <<x, y>>
      OBVIOUS
    <3>1. u[1] \in High /\ u[2] \in Low
      OBVIOUS
    <3>2. u = <<u[1], u[2]>>
      OBVIOUS
    <3> QED BY <3>1, <3>2, Zenon
  <2>2. \A l \in 0 .. k - 1 : l \in Nat /\ l < k
    OBVIOUS
  <2>3. (\A y \in Low : y \in Nat /\ y < k) /\ (\A x \in High : x \in Nat)
    BY <1>1, <2>2
  <2> QED BY <2>1, <2>3, Zenon
<1>3. Number(v) = a * k + c /\ Number(w) = b * k + d
  BY <1>1, <1>2 DEF Number
<1>4. Greater(v, w) <=> a > b \/ (a = b /\ c > d)
  BY <1>2 DEF Greater
<1>5. v = w <=> a = b /\ c = d
  BY <1>2
<1>6. a * k \in Nat /\ b * k \in Nat
  OBVIOUS
<1>7. CASE a > b
  BY <1>2, <1>3, <1>4, <1>5, <1>6, <1>7, FirstDigitDecides
<1>8. CASE b > a
  BY <1>2, <1>3, <1>4, <1>5, <1>6, <1>8, FirstDigitDecides
<1>9. CASE a = b
  BY <1>2, <1>3, <1>4, <1>5, <1>6, <1>9
<1> QED BY <1>7, <1>8, <1>9

(* The test of the whole u64 is what the client meant when the             *)
(* subscription is full or for ANY or BELOW; otherwise EQUAL can only miss *)
(* and the others can only hit where they should not, for values of any    *)
(* width and a rest of any width.                                          *)
THEOREM ConditionsKeepTheirMeaning == Spec => []ConditionsAsMeant
<1>1. ASSUME TypeOK, pc = "act"
      PROVE  LET hit == hit_conditional(at)
                 cond == sub[at].cond
                 exact == sub[at].size = "full" \/ cond \in {"ANY", "BELOW"}
             IN  /\ (exact \/ cond = "EQUAL") => (hit => Meant(at))
                 /\ (exact \/ cond # "EQUAL") => (Meant(at) => hit)
  <2>1. /\ at \in Slots /\ curr_value \in Values /\ last_value[at] \in Values
        /\ sub[at] \in Subscriptions
    BY <1>1 DEF TypeOK
  <2>2. /\ sub[at].value \in Values /\ sub[at].cond \in Conds
        /\ sub[at].size \in {"short", "full"}
        /\ sub[at].size = "short" => sub[at].value[2] = 0
    BY <2>1 DEF MemorySub
  <2>3. PICK v, w, b : v = curr_value /\ w = last_value[at] /\ b = sub[at].value
    OBVIOUS
  <2>4. v \in Values /\ w \in Values /\ b \in Values
    BY <2>1, <2>2, <2>3
  <2>5. PICK p \in Values, q \in Values : p = Payload(at, v) /\ q = Payload(at, w)
    BY <2>4, PayloadType
  <2>6. /\ Number(p) \in Nat /\ Number(b) \in Nat
        /\ Number(p) > Number(b) <=> Greater(p, b)
        /\ Number(p) < Number(b) <=> Greater(b, p)
        /\ Number(p) = Number(b) <=> p = b
    BY <2>4, <2>5, GreaterIsGreater
  <2>7. /\ sub[at].cond = "ANY" => Meant(at)
        /\ sub[at].cond = "CHANGED" => (Meant(at) <=> p # q)
        /\ sub[at].cond = "ABOVE" => (Meant(at) <=> Greater(p, b))
        /\ sub[at].cond = "BELOW" => (Meant(at) <=> Greater(b, p))
        /\ sub[at].cond = "EQUAL" => (Meant(at) <=> p = b)
        /\ sub[at].cond = "NOT_EQUAL" => (Meant(at) <=> p # b)
    BY <2>3, <2>5, <2>6 DEF Meant
  <2>8. /\ sub[at].cond = "ANY" => hit_conditional(at)
        /\ sub[at].cond = "CHANGED" => (hit_conditional(at) <=> v # w)
        /\ sub[at].cond = "ABOVE" => (hit_conditional(at) <=> Greater(v, b))
        /\ sub[at].cond = "BELOW" => (hit_conditional(at) <=> Greater(b, v))
        /\ sub[at].cond = "EQUAL" => (hit_conditional(at) <=> v = b)
        /\ sub[at].cond = "NOT_EQUAL" => (hit_conditional(at) <=> v # b)
    BY <2>3 DEF hit_conditional, Satisfies
  <2>9. CASE sub[at].size = "full"
    <3>1. p = v /\ q = w
      BY <2>5, <2>9 DEF Payload
    <3> QED BY <2>2, <2>7, <2>8, <3>1 DEF Conds
  <2>10. CASE sub[at].size = "short"
    <3>1. p = <<v[1], 0>> /\ q = <<w[1], 0>> /\ b[2] = 0
      BY <2>2, <2>3, <2>5, <2>10 DEF Payload
    <3>0. /\ v[1] \in Nat /\ v[2] \in Nat /\ b[1] \in Nat
          /\ p[1] = v[1] /\ p[2] = 0
      BY <2>4, <3>1
    <3>2. Greater(b, p) <=> Greater(b, v)
      BY <3>0, <3>1 DEF Greater
    <3>3. Greater(p, b) => Greater(v, b)
      BY <3>0, <3>1 DEF Greater
    <3>4. (v = b => p = b) /\ (p # q => v # w)
      BY <2>4, <3>1
    <3> QED BY <2>2, <2>7, <2>8, <2>10, <3>2, <3>3, <3>4 DEF Conds
  <2> QED BY <2>2, <2>9, <2>10
<1>2. TypeOK => ConditionsAsMeant
  BY <1>1 DEF ConditionsAsMeant
<1> QED BY <1>2, PollTypeCorrect, PTL
=============================================================================
