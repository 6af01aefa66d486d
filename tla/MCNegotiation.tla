--------------------------- MODULE MCNegotiation ----------------------------
(* Instances of Negotiation for TLC. *)
EXTENDS Negotiation

\* The largest AS number of 16 bits and the smallest that needs more.
MCASN == {65535, 65536}

\* Every list that names each family at most once, in any order and with any directions
\* (NewNeighbor itself announces 3 for IPv4 and then for IPv6).
AnyList ==
    UNION {{l \in [1 .. k -> AddPath] : k = 2 => l[1].family # l[2].family} : k \in 0 .. 2}
=============================================================================
