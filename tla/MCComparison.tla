---------------------------- MODULE MCComparison ----------------------------
(* Two hosts of a cluster.  The aliases share no full name with each other;  *)
(* "w1" answers with its FQDN while its Node has the short name, "db" is     *)
(* reached through a name whose short form is that of the same Node.         *)
EXTENDS Comparison

MCNames == {"w1", "w1.a", "w1.b", "db"}
MCShort == [n \in MCNames |-> IF n = "db" THEN "db" ELSE "w1"]
MCAliases == {"w1.b", "db"}
MCHostNames == [h \in MCAliases |-> IF h = "db" THEN {"db", "w1.a"} ELSE {"w1.b"}]
MCHostName == [h \in MCAliases |-> IF h = "db" THEN "w1.a" ELSE "w1.b"]
MCNodeNames == [n \in {"w1"} |-> {"w1"}]
=============================================================================
