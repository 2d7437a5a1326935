----------------------------- MODULE MCFetchPool ----------------------------
(* Three jobs over two slots of the pool, in the three shapes the clients    *)
(* give them.                                                                *)
EXTENDS FetchPool

\* GCP: one batch; two metric types in order of priority.  Two jobs of one
\* metrics scope both see slot "b".
Gcp == [firstWins |-> TRUE,
        jobs |-> << << <<{"a"}, {"a", "b"}>> >>, << <<{"b"}>> >>, << <<{}>> >> >>]

\* AWS: a job of two batches, the first answered in two pages; a job without
\* instances; a job of one batch.
Aws == [firstWins |-> FALSE,
        jobs |-> << << <<{"a"}, {"a"}>>, <<{"b"}>> >>, <<>>, << <<{"c"}>> >> >>]

\* Azure: one read for each VM.
Azure == [firstWins |-> FALSE,
          jobs |-> << << <<{"a"}>> >>, << <<{"b", "c"}>> >>, << <<{}>> >> >>]

MCPlans == {Gcp, Aws, Azure}
MCSlot == {"a", "b", "c"}
=============================================================================
