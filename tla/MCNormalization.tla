--------------------------- MODULE MCNormalization ---------------------------
(* Two scopes, two sources, three fingerprints for a table of two; the       *)
(* records come in any order.                                                *)
EXTENDS Normalization

Seen(source, scope, categories, time, key) ==
  [ source |-> source, scope |-> scope, categories |-> categories, time |-> time, key |-> key,
    node |-> "n1", weight |-> 1, inferred |-> FALSE, insight |-> FALSE, counted |-> TRUE,
    smoke |-> FALSE ]

MCKinds ==
  { Seen("event", "a", {"probe"}, 2, "f1"), [Seen("log", "a", {"timeout"}, 3, "f2") EXCEPT !.insight = TRUE],
    [Seen("event", "a", {"probe", "cgroup"}, 6, "f3") EXCEPT !.insight = TRUE],
    [Seen("event", "a", {"probe"}, 7, "f1") EXCEPT !.insight = TRUE],
    Seen("log", "a", {"timeout"}, 8, "f2"),
    Seen("log", "b", {"timeout"}, 2, "f2"),
    [Seen("event", "cluster", {"timeout"}, 2, "f2") EXCEPT !.inferred = TRUE, !.insight = TRUE, !.counted = FALSE],
    [Seen("log", "a", {"timeout"}, 2, "f2") EXCEPT !.smoke = TRUE],
    Seen("log", "a", {"timeout"}, 9, "f2"),
    [Seen("log", "a", {}, 1, "f2") EXCEPT !.node = "n2", !.weight = 2] }

MCRank == [k \in {"f1", "f2", "f3"} |-> CASE k = "f1" -> 1 [] k = "f2" -> 2 [] k = "f3" -> 3]
MCLimits == {[candidates |-> 3, output |-> 2, records |-> 4], [candidates |-> 5, output |-> 4, records |-> 5]}
MCGroups == {{"probe"}, {"timeout", "refused"}}
=============================================================================
