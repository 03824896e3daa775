-------------------------- MODULE MCCommandStream ---------------------------
(***************************************************************************)
(* What the clients of CommandStream send, and the directories they delete.*)
(***************************************************************************)
EXTENDS CommandStream, SequencesExt

(* Commands with the sizes at which something changes.                     *)
Simple ==
    {<<"QUERY", 0>>, <<"ALLOC_PAGE", 1>>, <<"OPEN_FILE", 0>>}
    \cup {"NOTIFY"} \X {0, MaxText - 1, MaxText}
    \cup {"SUB_MEM"} \X {MaxValue, MaxValue + 1}
    \cup {"MEMSET"} \X {0, MaxSet - 1, MaxSet}

Writes == {"WRITE_FILE"} \X {0, 1, CHUNK, CHUNK + 1, 2 * CHUNK + 1}

Scripts ==
    (Simple \X Simple)
    \cup ({<<"OPEN_FILE", 0>>} \X Writes \X (Writes \cup Simple))
    \cup ({<<"OPEN_FILE", 0>>} \X Writes \X {<<"OPEN_FILE", 0>>} \X Writes)
    \cup {<<w, <<"QUERY", 0>>>> : w \in Writes}
    \cup {<<<<"DELETE_DIR", 0>>>>}

Units(script) ==
    FlattenSeq([i \in DOMAIN script |->
        LET h == [of |-> i, no |-> 0, cmd |-> script[i][1], size |-> script[i][2]]
        IN  <<h>> \o Payload(h)])

(* The client may leave anywhere.                                          *)
MCStreams == UNION {{SubSeq(Units(s), 1, n) : n \in 0 .. Len(Units(s))} : s \in Scripts}

(* Every tree of a root, Dir, a node in it, and one anywhere.              *)
MCNodes == 0 .. 3
MCDir == 1
Parents == {p \in [MCNodes -> MCNodes] :
    p[0] = 0 /\ p[1] = 0 /\ p[2] = 1 /\ p[3] < 3}
MCTrees ==
    UNION {
        LET inner == {p[n] : n \in MCNodes} \cup {MCDir}
        IN  [parent : {p}, dirs : {d \in SUBSET MCNodes : inner \subseteq d},
             stuck : SUBSET (MCNodes \ {0}), unread : SUBSET (MCNodes \ {0})]
        : p \in Parents}
=============================================================================
