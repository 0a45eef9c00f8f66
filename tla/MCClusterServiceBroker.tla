----------------------- MODULE MCClusterServiceBroker -----------------------
(* ClusterServiceBroker for TLC: one broker, or two of which the second    *)
(* offers a service of the first.                                          *)
EXTENDS ClusterServiceBroker

CONSTANTS b1, b2, c1, c2, p1, p2

Offers(n, ps, cs) == [n |-> n, offers |-> [p \in ps |-> IF p = p1 THEN c1 ELSE cs]]

\* b1 begins with one service and later offers a second one; b2 only offers
\* the first.
MCCatalogs == [b \in Brokers |->
    IF b = b1 THEN {Offers(1, {p1}, c2), Offers(2, {p1, p2}, c2)}
              ELSE {Offers(3, {p1}, c1)}]

\* Both offer the first service for good, and b1 a second one.
MCSharedCatalogs == [b \in Brokers |->
    IF b = b1 THEN {Offers(2, {p1, p2}, c2)} ELSE {Offers(3, {p1}, c1)}]
=============================================================================
