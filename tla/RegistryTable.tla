----------------------------- MODULE RegistryTable -----------------------------
(***************************************************************************)
(* What the registry of projects promises to one user who runs one command *)
(* at a time: a map from names to paths that register, unregister and      *)
(* prune change in one step, whatever happens to the command on its way.   *)
(* Commands that run at the same time may break the promise.               *)
(* Registry.tla implements it with two files and a rename.                 *)
(***************************************************************************)
CONSTANTS Name, Path, Unknown

VARIABLE table

TypeOK == table \in UNION {[S -> Path] : S \in SUBSET Name} \union {Unknown}

Init == table = [n \in {} |-> CHOOSE p \in Path : TRUE]

Register(n, p) ==
    table' = [m \in DOMAIN table \union {n} |-> IF m = n THEN p ELSE table[m]]

Unregister(n) ==
    /\ n \in DOMAIN table
    /\ table' = [m \in DOMAIN table \ {n} |-> table[m]]

\* The entries of some missing paths go.
Prune(missing) ==
    table' = [m \in {k \in DOMAIN table : table[k] \notin missing} |-> table[m]]

\* Commands that were not one at a time: nothing is promised any more.
Collide == table' = Unknown

Next ==
    \/ Collide
    \/ \E n \in Name : \/ \E p \in Path : Register(n, p)
                       \/ Unregister(n)
    \/ \E missing \in SUBSET Path : Prune(missing)

Spec == Init /\ [][Next]_table
=============================================================================
