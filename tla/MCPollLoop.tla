----------------------------- MODULE MCPollLoop -----------------------------
(***************************************************************************)
(* PollLoop for TLC: the subscriptions a client can ask for on the game's  *)
(* process "p".                                                            *)
(***************************************************************************)
EXTENDS PollLoop

AnyOf(conds, sizes, types) ==
    {m \in [pid : {"p"}, addr : Addrs, size : sizes, cond : conds,
            value : {<<1, 0>>, <<0, 1>>}, type : types] :
        m.size = "short" <=> m.value = <<1, 0>>}

Everything == AnyOf(Conds, {"short", "full"}, {"FREEZE", "NOTIFY"})
Watched == AnyOf({"CHANGED"}, {"short"}, {"NOTIFY"})
Frozen == AnyOf({"NOT_EQUAL"}, {"short"}, {"FREEZE"})
Lasting == Watched \cup Frozen
ShortChanged == AnyOf({"CHANGED"}, {"short"}, {"NOTIFY"})
=============================================================================
