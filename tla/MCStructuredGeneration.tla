----------------------- MODULE MCStructuredGeneration -----------------------
(* Small instances of StructuredGeneration. *)
EXTENDS StructuredGeneration

MCThreads == {"t1", "t2"}
MCPlanDrafts == {<<"playbook_guidance">>,
                 <<"support", "playbook_guidance", "adoption">>,
                 <<"adoption", "adoption", "support">>}
MCCandidateDrafts == {<<"renew">>, <<"unknown">>}
=============================================================================
