---------------------------- MODULE MCRunControl ----------------------------
(***************************************************************************)
(* Instances of RunControl for TLC.  Each family of definitions names the   *)
(* strands, the process each belongs to and the group it executes.          *)
(***************************************************************************)
EXTENDS RunControl, TLC

CONSTANTS m1, m2, s1, s2, g, h

\* One group with one strand on the master and two on its only slave.
Follow_Strand   == {m1, s1, s2}
Follow_Home     == [s \in Follow_Strand |-> IF s = m1 THEN 0 ELSE 1]
Follow_Symmetry == Permutations({s1, s2})

\* One strand on the master and one on its only slave.
Pair_Strand == {m1, s1}
Pair_Home   == [s \in Pair_Strand |-> IF s = m1 THEN 0 ELSE 1]

\* One group whose only strand on the master talks to two slaves.
Fan_Strand     == {m1, s1, s2}
Fan_Home       == [s \in Fan_Strand |-> IF s = m1 THEN 0 ELSE IF s = s1 THEN 1 ELSE 2]
Fan_SlaveGroup == <<g, g>>

\* Two groups with one strand each on the master; only the first has a slave.
Uneven_Strand     == {m1, m2, s1}
Uneven_Home       == [s \in Uneven_Strand |-> IF s = s1 THEN 1 ELSE 0]
Uneven_GroupOf    == [s \in Uneven_Strand |-> IF s = m2 THEN h ELSE g]

OneGroup_GroupOf    == [s \in Strand |-> g]
OneGroup_SlaveGroup == <<g>>

\* Transactions per group.
Ntxn_1   == [x \in {g} |-> 1]
Ntxn_2   == [x \in {g} |-> 2]
Ntxn_1_3 == [x \in {g, h} |-> IF x = g THEN 1 ELSE 3]
=============================================================================
