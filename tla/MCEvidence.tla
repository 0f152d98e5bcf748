------------------------------ MODULE MCEvidence ------------------------------
(* Claims of every kind under three ids: sound ones, one that cites        *)
(* another, one that cites itself, and flawed ones.                        *)
EXTENDS Evidence

Claim(id, kind, confidence, cites, flaws) ==
    [id |-> id, kind |-> kind, confidence |-> confidence, cites |-> cites, flaws |-> flaws]

MCClaims ==
    {Claim(1, "finding", "verified", {}, {}),
     Claim(2, "correction", "inferred", {1}, {}),
     Claim(1, "negative", "observed", {}, {"effort"}),
     Claim(3, "non-finding", "observed", {2}, {"boundary"}),
     Claim(3, "method", "inferred", {3}, {}),
     Claim(2, "other", "verified", {}, {}),
     Claim(1, "audit", "verified", {}, {"fields"})}

================================================================================
