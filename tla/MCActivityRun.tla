---------------------------- MODULE MCActivityRun ----------------------------
(* Three addresses, of which the third may be added later; pages of two. *)
EXTENDS ActivityRun

MCCutoffBlock == [s \in {0, 1} |-> 8]

\* Entries by age: block and time grow together, and the cutoff lies at 8.
Entry(n, canonical) == [time |-> n, block |-> n, id |-> n, canonical |-> canonical]

MCHistories == {
    <<Entry(8, TRUE)>>,
    <<Entry(7, FALSE), Entry(6, FALSE), Entry(5, FALSE), Entry(4, TRUE)>>,
    <<Entry(9, TRUE), Entry(7, FALSE), Entry(5, TRUE)>>,
    <<Entry(7, FALSE), Entry(6, FALSE), Entry(5, FALSE), Entry(4, FALSE), Entry(3, TRUE)>> }

World(h, quiet, signed, out) ==
    [history |-> [a \in 1 .. 3 |->
        [s \in {0, 1} |-> [spec \in source_specs(s) |->
            IF a = 2 /\ s = 0 /\ spec = "regular" THEN h
            ELSE IF spec = "staking" THEN <<Entry(2, TRUE)>> ELSE quiet]]],
     directional |-> [a \in 1 .. 3 |-> IF a = 2 THEN signed ELSE {}],
     rejected |-> out]

Signed(n) == {[time |-> n, shard |-> 1, block |-> n, id |-> 10, canonical |-> TRUE],
              [time |-> 1, shard |-> 0, block |-> 1, id |-> 11, canonical |-> TRUE]}

MCWorlds ==
    {World(h, <<>>, {}, {}) : h \in MCHistories}
    \cup {World(<<Entry(7, TRUE)>>, <<Entry(3, TRUE)>>, Signed(n), {}) : n \in {8}}
    \cup {World(<<Entry(7, TRUE), Entry(6, TRUE)>>, <<Entry(3, TRUE)>>, {},
                {[shard |-> 0, address |-> 2, id |-> 7]})}
=============================================================================
