------------------------------ MODULE MCChacoLib ------------------------------
(* Sessions over ChacoLib: every image of one sector, and images of two with *)
(* a run of erased bytes that ends in every place relative to the blocks.    *)
EXTENDS ChacoLib

Other == CHOOSE v \in Bytes : v # FF

Job(c, b, n) == [call |-> c, base |-> b, size |-> n]
Write(c, b, n, d) ==
    [call |-> c, base |-> b, size |-> n, data |-> [k \in 0 .. n - 1 |-> d[k]]]

Images == [0 .. Sector - 1 -> Bytes]
Run(i, n) == [k \in 0 .. 2 * Sector - 1 |-> IF k \in i .. n THEN FF ELSE Other]
Runs == {Run(i, n) : i \in {1, 4}, n \in Sector .. 2 * Sector - 1}

MCJobs ==
    {Job(c, 0, 0) : c \in Single \cup {"bootloader"}}
    \cup {Job("erase", 0, Sector), Job("erase", Sector, 2 * Sector), Job("erase", 1, Sector)}
    \cup {Job("read", Sector, Block + 1), Job("readmem", 1, Block + 1)}
    \cup {Write("writemem", 1, Block + 1, Run(i, i)) : i \in 0 .. Block}
    \cup {Write("write", Sector, Sector, d) : d \in Images}
    \cup {Write("write", Sector, 2 * Sector, d) : d \in Runs}
==============================================================================
