-------------------------- MODULE MCRetrievalIndex --------------------------
(* Small instances of RetrievalIndex. *)
EXTENDS RetrievalIndex

Fact(id, type, account, date, passages) ==
    [id |-> id, type |-> type, account |-> account, date |-> date,
     leaks |-> FALSE, passages |-> passages]

Article(id, passages) ==
    [id |-> id, type |-> "knowledge_base", account |-> "nobody", date |-> 0,
     leaks |-> TRUE, passages |-> passages]

Before ==
    [accounts |-> <<"a1", "a2">>, forecast |-> [a \in {"a1", "a2"} |-> 3],
     facts |-> <<Fact("N1", "csm_note", "a1", 1, <<"n1", "n2">>),
                 Fact("T1", "support_ticket", "a1", 2, <<"t1">>),
                 Fact("N2", "csm_note", "a2", 2, <<"n3">>),
                 Fact("E1", "external_event", "a1", 5, <<"t1">>)>>,
     knowledge |-> <<Article("K1", <<"k1">>)>>]

\* Regenerated: the ids stay, the accounts behind them do not, and the first
\* account's forecast date has moved past the horizon.
After ==
    [Before EXCEPT
        !.forecast["a1"] = 6,
        !.facts = <<Fact("N1", "csm_note", "a2", 1, <<"n1", "n2">>),
                    Fact("T1", "support_ticket", "a1", 3, <<"t1">>),
                    Fact("N2", "csm_note", "a1", 4, <<"n3">>),
                    Fact("E1", "external_event", "a1", 5, <<"t1">>)>>]

\* A row of an account nobody knows: the archive does not load.
Orphaned == [Before EXCEPT !.facts = Append(@, Fact("N9", "csm_note", "a9", 1, <<"k1">>))]

MCArchives == [before |-> Before, after |-> After, orphaned |-> Orphaned]

Evidence(account, as_of, allowed, inferred, corroborate, recent) ==
    [kind |-> "evidence", account |-> account, as_of |-> as_of, allowed |-> allowed,
     inferred |-> inferred, corroborate |-> corroborate, recent |-> recent]

MCRequests ==
    {Evidence("a1", 0, {"csm_note", "support_ticket", "external_event"},
              {"support_ticket"}, FALSE, TRUE),
     Evidence("a1", 2, {"csm_note", "support_ticket"}, {}, TRUE, FALSE),
     Evidence("a2", 0, {"csm_note"}, {"csm_note", "support_ticket"}, FALSE, FALSE),
     [Evidence("a1", 0, {}, {}, FALSE, FALSE) EXCEPT !.kind = "knowledge"]}

MCRelevance ==
    <<[n1 |-> 2, n2 |-> 1, n3 |-> 1, t1 |-> 1, k1 |-> 2],
      [n1 |-> 1, n2 |-> 2, n3 |-> 2, t1 |-> 2, k1 |-> 1]>>
=============================================================================
