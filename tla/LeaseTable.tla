------------------------------- MODULE LeaseTable -------------------------------
(***************************************************************************)
(* What nealsd promises about loopback addresses: an address is free, held *)
(* by one holder, or leaked for the life of the daemon.  A holder takes    *)
(* all its addresses at once, only from the free ones, and gives all of    *)
(* them back at once.  Nealsd.tla implements this specification with the   *)
(* `used` set of LoopbackLeases and the BoundRoutes of each `up`.          *)
(***************************************************************************)

CONSTANTS Ip,       \* the addresses of the pool
          Holder    \* the attempts that can hold addresses

VARIABLES free,     \* addresses nobody holds
          held,     \* the addresses of each holder
          leaked    \* addresses that no longer have a holder and never return

vars == <<free, held, leaked>>

TypeOK ==
    /\ free \subseteq Ip
    /\ held \in [Holder -> SUBSET Ip]
    /\ leaked \subseteq Ip

Init ==
    /\ free = Ip
    /\ held = [h \in Holder |-> {}]
    /\ leaked = {}

(***************************************************************************)
(* A holder with nothing takes some free addresses.                        *)
(***************************************************************************)
Take(h, taken) ==
    /\ held[h] = {}
    /\ taken \subseteq free
    /\ free' = free \ taken
    /\ held' = [held EXCEPT ![h] = taken]
    /\ UNCHANGED leaked

(***************************************************************************)
(* A holder gives back everything it has.                                  *)
(***************************************************************************)
GiveBack(h) ==
    /\ free' = free \union held[h]
    /\ held' = [held EXCEPT ![h] = {}]
    /\ UNCHANGED leaked

(***************************************************************************)
(* A holder goes away without giving its addresses back.                   *)
(***************************************************************************)
Abandon(h) ==
    /\ leaked' = leaked \union held[h]
    /\ held' = [held EXCEPT ![h] = {}]
    /\ UNCHANGED free

(***************************************************************************)
(* A free address is marked used although nobody will hold it.             *)
(***************************************************************************)
Lose(ip) ==
    /\ ip \in free
    /\ free' = free \ {ip}
    /\ leaked' = leaked \union {ip}
    /\ UNCHANGED held

Next ==
    \/ \E h \in Holder : \/ \E taken \in SUBSET free : Take(h, taken)
                         \/ GiveBack(h)
                         \/ Abandon(h)
    \/ \E ip \in Ip : Lose(ip)

Spec == Init /\ [][Next]_vars

=============================================================================
