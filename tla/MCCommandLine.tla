----------------------------- MODULE MCCommandLine ----------------------------
(* Three invocations that share a registry, where one name is the end of
   another; and every text of up to MaxText characters as a topic. *)
EXTENDS CommandLineProperties, TLC

CONSTANTS tcp, unix, noport, MaxText

Short == <<"f">>
Long == <<"s", "f">>

MCAddrs == {tcp, unix, noport}

Cmd(op, name, default, addrs_) ==
    [op |-> op, name |-> name, default |-> default, addrs |-> addrs_,
     topic |-> <<"f", ":">>, number |-> TRUE]

RegistryCommands == {
    Cmd("register", Short, FALSE, <<tcp>>),
    Cmd("register", Short, TRUE, <<unix>>),
    Cmd("register", Long, FALSE, <<noport>>),
    Cmd("register", Long, TRUE, <<Named(Short)>>),
    Cmd("unregister", Short, FALSE, <<>>),
    Cmd("sub", <<>>, FALSE, <<Default>>),
    Cmd("serve", <<>>, FALSE, <<Named(Long), Named(Short)>>)}

TopicCommand(op, text, number) ==
    [Cmd(op, <<>>, FALSE, <<tcp>>) EXCEPT !.topic = text, !.number = number]

TopicCommands ==
    {TopicCommand("sub", text, TRUE) : text \in SeqOf(Chars, MaxText)}
    \cup {TopicCommand("pub", text, number) :
            number \in BOOLEAN, text \in SeqOf(Chars, MaxText - 1)}

MCEarlier == {<<>>, <<Entry(Long, tcp), Entry(Short, unix)>>}

MCCommands == RegistryCommands \cup TopicCommands

MCJobs ==
    [Procs -> RegistryCommands]
    \cup {[p \in Procs |-> IF p = q THEN cmd ELSE Idle] : q \in Procs, cmd \in TopicCommands}

Symmetry == Permutations(Procs)
=============================================================================
