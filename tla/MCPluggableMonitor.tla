---------------------------- MODULE MCPluggableMonitor ----------------------------
(***************************************************************************)
(* A Monitor call with two settings, one of the request and one that the   *)
(* client sends later, against a tool that behaves, refuses, fails or is   *)
(* slow.                                                                   *)
(***************************************************************************)
EXTENDS PluggableMonitor

CONSTANTS baud, parity

MCSettings == {baud, parity}

Behaving == [first |-> {baud}, later |-> {parity}, closes |-> TRUE, slow |-> FALSE,
             refuses |-> {}, fails |-> {}]

MCWorlds == {
    [Behaving EXCEPT !.first = {}, !.later = {baud, parity}, !.refuses = {"configure"},
                     !.fails = {"leave", "unplug"}],
    [Behaving EXCEPT !.first = {baud, parity}, !.later = {}, !.refuses = Commands],
    [Behaving EXCEPT !.fails = {"crash"}, !.refuses = {"configure", "close"}],
    [Behaving EXCEPT !.slow = TRUE],
    [Behaving EXCEPT !.slow = TRUE, !.fails = {"leave"}],
    [Behaving EXCEPT !.closes = FALSE, !.slow = TRUE, !.fails = {"crash", "unplug"}] }
=============================================================================
