-------------------------- MODULE MCEvidenceLanes --------------------------
(* Small instances of EvidenceLanes: weeks 1 to 8, the horizon is 7. *)
EXTENDS EvidenceLanes

Account(forecast, usage, tickets, notes, events, live) ==
    [forecast |-> forecast, sponsorLive |-> live,
     rows |-> [usage_weekly |-> usage, support_ticket |-> tickets,
               csm_note |-> notes, external_event |-> events]]

Busy  == Account(6, {2, 4, 6, 7}, {5, 7}, {4}, {6}, TRUE)
Quiet == Account(8, {4, 5}, {}, {}, {3, 8}, FALSE)
New   == Account(5, {7}, {5}, {5}, {}, FALSE)
Dark  == Account(6, {1, 2}, {5}, {5}, {}, FALSE)

MCDatasets == {Busy, Quiet, New, Dark}

Question(matches, leaked, ahead, topical) ==
    [matches |-> matches, leaked |-> leaked, ahead |-> ahead, topical |-> topical]

Plain    == Question({}, FALSE, FALSE, TRUE)
Vague    == Question({}, FALSE, FALSE, FALSE)
Claimed  == Question({"OVERCONFIDENCE"}, FALSE, FALSE, FALSE)
Act      == Question({"AUTONOMOUS-ACTION", "UNVERIFIED-CLAIM"}, FALSE, FALSE, TRUE)
Injected == Question({"INJECTION", "AUTONOMOUS-ACTION"}, FALSE, FALSE, TRUE)
Leaking  == Question({"INJECTION"}, TRUE, TRUE, TRUE)

Ask(asOf, question) == [account |-> "known", asOf |-> asOf, question |-> question]

MCAssessments == {Ask(None, Plain), Ask(4, Claimed), Ask(7, Plain), Ask(8, Act),
               Ask(None, Vague), Ask(None, Injected), Ask(None, Leaking),
               [Ask(None, Plain) EXCEPT !.account = "unknown"]}

MCDrafts == {<<>>, <<"support", "playbook_guidance", "support", "external_context">>}
=============================================================================
