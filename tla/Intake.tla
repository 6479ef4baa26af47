-------------------------------- MODULE Intake --------------------------------
(***************************************************************************)
(* The intake guardrail (guardrails/intake.py): what becomes of a request  *)
(* before any tool is called.  A question is what its checks see of it:    *)
(*   matches  the rules one of whose patterns fires                        *)
(*   leaked   it names an evaluation-only field                            *)
(*   ahead    it asks about a year past the horizon's next                 *)
(*   topical  it holds a term of account health, or four words             *)
(***************************************************************************)
EXTENDS Integers, Sequences, SequencesExt

CONSTANTS
    None,                \* no as-of date was requested
    DATASET_AS_OF_DATE,  \* the observation horizon
    Accounts             \* the accounts of the portfolio

ASSUME HorizonAssumption == DATASET_AS_OF_DATE \in Int

\* In the order their precedence gives them.
INTAKE_RULES ==
    <<[id |-> "PRIVACY",           outcome |-> "block"],
      [id |-> "HR",                outcome |-> "block"],
      [id |-> "LABEL-LEAK",        outcome |-> "block"],
      [id |-> "INJECTION",         outcome |-> "block"],
      [id |-> "COMMERCIAL",        outcome |-> "block"],
      [id |-> "DOMAIN",            outcome |-> "block"],
      [id |-> "UNSUPPORTED-FIELD", outcome |-> "block"],
      [id |-> "AUTONOMOUS-ACTION", outcome |-> "review"],
      [id |-> "UNVERIFIED-CLAIM",  outcome |-> "pass"],
      [id |-> "OVERCONFIDENCE",    outcome |-> "pass"]>>

\* The ids of the matching rules of one outcome, first match first.
Matching(question, outcome) ==
    LET hits == SelectSeq(INTAKE_RULES, LAMBDA r : /\ r.outcome = outcome
                                                   /\ r.id \in question.matches)
    IN [i \in DOMAIN hits |-> hits[i].id]

\* Mutant: the as-of date is not held against the horizon.
_horizon_reason_unbounded(question, asOf) == question.ahead

_horizon_reason(question, asOf) ==
    question.ahead \/ (asOf # None /\ asOf > DATASET_AS_OF_DATE)

_is_underspecified(question) == ~question.topical

Decision(outcome, rules) == [outcome |-> outcome, rules |-> rules]

First(rules) == SubSeq(rules, 1, IF rules = <<>> THEN 0 ELSE 1)

\* The first of the checks that applies decides.
evaluate_intake(r) ==
    LET blocks     == Matching(r.question, "block")
        reviews    == Matching(r.question, "review")
        advisories == Matching(r.question, "pass")
        checks == <<
          [holds |-> r.question.leaked,
           gives |-> Decision("block", <<"LABEL-LEAK">>)],
          [holds |-> blocks # <<>>,
           gives |-> Decision("block", First(blocks))],
          [holds |-> _horizon_reason(r.question, r.asOf),
           gives |-> Decision("block", <<"HORIZON">>)],
          [holds |-> r.account \notin Accounts,
           gives |-> Decision("block", <<"ACCOUNT-EXISTS">>)],
          [holds |-> reviews # <<>>,
           gives |-> Decision("review", First(reviews) \o advisories)],
          [holds |-> advisories = <<>> /\ _is_underspecified(r.question),
           gives |-> Decision("clarify", <<"SPECIFICITY">>)],
          [holds |-> TRUE,
           gives |-> Decision("pass", advisories)]>>
    IN checks[SelectInSeq(checks, LAMBDA c : c.holds)].gives
=============================================================================
