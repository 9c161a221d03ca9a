------------------------ MODULE MCInferencePipeline ------------------------
(* Instances of InferencePipeline for TLC. *)
EXTENDS InferencePipeline, TLC

\* Request ids are interchangeable.
Symmetry == Permutations(Requests)

\* Bound of the safety run: how far duplicates may make the topics grow.
CONSTANTS MaxRequests, MaxResults
TopicsBounded == Len(requests) <= MaxRequests /\ Len(results) <= MaxResults
=============================================================================
