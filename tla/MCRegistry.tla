------------------------------- MODULE MCRegistry -------------------------------
(* Instances of Registry for TLC. *)
EXTENDS Registry, TLC

CONSTANTS api, web, here, there, c1, c2, i1, i2, i3

TwoNames == {api, web}
TwoPaths == {here, there}
TwoClis == {c1, c2}
ThreeInodes == {i1, i2, i3}
AllFaults == {"crash", "write"}

\* Nothing distinguishes names, directories, commands or inodes.
Alike == Permutations(Name) \union Permutations(Path) \union Permutations(Cli)
           \union Permutations(Inode)

(***************************************************************************)
(* Bound: once two saves have overlapped, only registries of at most one   *)
(* entry are followed further.                                             *)
(***************************************************************************)
Entries(text) == IF text \in Registries THEN Cardinality(DOMAIN text) ELSE 0

SmallAfterOverlap ==
    overlap => /\ \A c \in Cli : Entries(mem[c]) <= 1
               /\ \A i \in Inode : Entries(content[i]) <= 1
=============================================================================
