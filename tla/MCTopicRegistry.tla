-------------------------- MODULE MCTopicRegistry ---------------------------
(* Small instances of TopicRegistry: two processes that are interchangeable. *)
EXTENDS TopicRegistry, TLC

CONSTANTS p1, p2

Interchangeable == Permutations({p1, p2})
=============================================================================
