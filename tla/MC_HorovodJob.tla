---------------------------- MODULE MC_HorovodJob ----------------------------
EXTENDS HorovodJob

\* The comm arguments: none (all ranks) and the world in another order.
MCJobComms == {<<>>, <<2, 0, 1>>}

\* process_sets: "dynamic", None, and initial sets with a duplicate.
MCJobSetsArgs == {Dynamic, None, <<<<0>>, <<1, 2>>, <<2, 1>>>>}

\* Add a set, remove it, add another: a removed id must not come back.
MCScript == << [op |-> "add", arg |-> <<2, 1>>],
               [op |-> "remove", arg |-> 1],
               [op |-> "remove", arg |-> 0],
               [op |-> "add", arg |-> <<0, 2>>] >>
=============================================================================
