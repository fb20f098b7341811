---------------------------- MODULE MCLifecycle -----------------------------
(* A server that takes over the path of another one, and servers alone, on
   each transport, with clients that come and go. *)
EXTENDS LifecycleProperties

MCServes == << <<"memory", "tcp">>, <<"unix">>, <<"tls">>, <<"unix">> >>
MCConns == {1, 2}

Scenario(servers, connections) == [servers |-> servers, conns |-> connections]

MCScenarios ==
    {Scenario({2, 4}, {1}), Scenario({1}, {1}), Scenario({2}, MCConns), Scenario({3}, MCConns)}
=============================================================================
