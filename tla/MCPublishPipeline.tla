-------------------------- MODULE MCPublishPipeline --------------------------
(* Small instances of PublishPipeline for TLC. *)
EXTENDS PublishPipeline, TLC

CONSTANTS s1, s2, c1, c2, c3, n1, n2, k1, k2, topic, payerSig

\* Two nodes, each with either key: a process may be started again under another
\* node, under another key, or both.  The model only compares nodes and keys, so
\* they are model values.
MCIdentity  == [node : {n1, n2}, key : {k1, k2}]
OneIdentity == [node : {n1}, key : {k1}]

To(n)       == [client |-> [target |-> n, topic |-> topic], sig |-> payerSig]
NoAad       == [client |-> [target |-> 0, topic |-> None], sig |-> payerSig]
NoTopic(n)  == [client |-> [target |-> n, topic |-> None], sig |-> payerSig]
Garbage     == [client |-> Malformed, sig |-> payerSig]
Unsigned(n) == [client |-> [target |-> n, topic |-> topic], sig |-> None]
Empty       == [client |-> None, sig |-> payerSig]
MCPayerEnv  ==
  {NoAad, Garbage, Empty} \cup
  UNION {{To(n), NoTopic(n), Unsigned(n)} : n \in {n1, n2}}
OnePayerEnv == {To(n1)}

Symmetry ==
  Permutations(Server) \cup Permutations(Call) \cup
  Permutations({n1, n2}) \cup Permutations({k1, k2})
=============================================================================
