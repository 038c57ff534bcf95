----------------------------- MODULE MCRateLimit -----------------------------
(* Two addresses of one network, one account, windows of two ticks.         *)
EXTENDS RateLimit, TLC

MCAddresses == {"ip1", "ip2", "mail"}
MCIPs == {"ip1", "ip2"}
MCUnit == [a \in MCAddresses |-> IF a \in MCIPs THEN "ip1" ELSE a]
MCLimit == [a \in MCAddresses |-> IF a \in MCIPs THEN 2 ELSE 1]
MCRequests == Permutations(Requests)
=============================================================================
