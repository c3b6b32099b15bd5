---------------------------- MODULE MCKubernetes ----------------------------
(* Up to three Pods of up to two containers, restarted or not.               *)
EXTENDS KubernetesCollection

MCCandidates == [id \in {"cilium_config"} |-> 2]
MCLayouts == { <<>>, << <<TRUE, FALSE>> >>, << <<FALSE>>, <<TRUE>> >>, << <<>>, <<TRUE>>, <<FALSE>> >> }
\* Nothing, a log no longer than the tail, one with older lines, and a tail
\* beyond the cap of a call.
MCLogShapes == { [tail |-> 0, older |-> 0], [tail |-> 1, older |-> 0],
                 [tail |-> 1, older |-> 2], [tail |-> 3, older |-> 0] }
=============================================================================
