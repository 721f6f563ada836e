---------------------------- MODULE MCRemediation ----------------------------
(***************************************************************************)
(* A rule file with a recording rule and an alert, and perhaps a comment   *)
(* that repeats an expression or an alert that is an alias of one; an SLO  *)
(* document that is not patchable.  Up to two proposals, good and bad,     *)
(* while the rule file may be edited.  Two changes look like credentials   *)
(* and redaction calls both by the name of a third; a metric looks like    *)
(* one, too.                                                               *)
(***************************************************************************)
EXTENDS Remediation

CONSTANTS old, new, rec, pattern, masked, none, nosym, noconsumer, unreadable, redacted,
          first, second, hidden, hidden2, covered, rule, alert, slo, rules, slos

MCNames == {old, new, rec, pattern, masked}
MCConsumerIDs == {rule, alert, slo}
MCFiles == {rules, slos}

Metric(n) == [domain |-> "prometheus", kind |-> "metric", parent |-> none, name |-> n]
MCChangeIDs == {first, second, hidden, hidden2, covered}
MCRedaction == [x \in {hidden, hidden2, masked} |-> IF x = masked THEN redacted ELSE covered]

Moves(id, from, to) == [id |-> id, from |-> Metric(from), to |-> Metric(to)]
Removes(id, from) == [id |-> id, from |-> Metric(from), to |-> nosym]
MaskedMigrations == {<<Moves(first, old, masked)>>}
MCMigrations == {<<Moves(first, old, new)>>,
                 <<Moves(first, old, new), Removes(second, rec)>>,
                 <<Moves(hidden, old, new), Moves(hidden2, rec, new)>>,
                 <<Moves(hidden, old, new), Moves(covered, rec, new)>>,
                 <<Moves(hidden, old, new), Moves(covered, old, new)>>} \cup MaskedMigrations
MCPolicies == [failOnCriticalLegacyConsumer : {TRUE}, failOnCriticalUnknown : {TRUE},
               minimumBlockingCriticality : {"high"}, includeTransitive : BOOLEAN]

Using(names, patterns) ==
    [parses |-> TRUE, template |-> FALSE, secret |-> FALSE,
     uses |-> {Metric(n) : n \in names}, patterns |-> {Metric(n) : n \in patterns}]
Old == Using({old}, {})
New == Using({new}, {})
Recorded == Using({rec}, {})
Both == Using({old, new}, {})
OldAndRecorded == Using({old, rec}, {})
NewByWayOfOld == Using({new, rec}, {})
NewAndUnknown == Using({new}, {pattern})
Secret == [New EXCEPT !.secret = TRUE]
Template == [Using({}, {}) EXCEPT !.template = TRUE]
Invalid == [Using({}, {}) EXCEPT !.parses = FALSE]
MCExpressions == {Old, New, Recorded, Both, OldAndRecorded, NewByWayOfOld, NewAndUnknown, Secret, Template, Invalid}

Scalar(c, e, level, recorded) ==
    [consumer |-> c, value |-> e, criticality |-> level, records |-> recorded, alias |-> FALSE]
Rule(e) == Scalar(rule, e, "high", Metric(rec))
Alert(e) == Scalar(alert, e, "critical", nosym)
Slo(e) == Scalar(slo, e, "critical", nosym)
Text(e) == Scalar(noconsumer, e, "low", nosym)
Alias(scalar) == [scalar EXCEPT !.alias = TRUE]

MCContents ==
    [f \in {rules, slos} |->
        IF f = rules
          THEN {<<Rule(Old), Alert(e)>> : e \in {Old, Recorded, Both, OldAndRecorded, Template}}
                 \cup {<<Rule(e), Alert(Recorded), Text(Old)>> : e \in {Old, New}}
                 \cup {<<Rule(Old), Alias(Alert(Old))>>, <<Rule(New), Alert(Old)>>,
                       <<Text(Old)>>, unreadable}
          ELSE {<<Slo(e)>> : e \in {Recorded, New, Template}} \cup {unreadable}]

Proposal(id, c, before, after) ==
    [change |-> id, consumer |-> c, before |-> before, after |-> after]
MCResponses ==
    {<< >>}
      \cup {<<Proposal(first, c, before, after)>> :
               c \in {rule, alert}, before \in {Old, Both}, after \in MCExpressions}
      \cup {<<Proposal(first, rule, Old, x), Proposal(first, c, Old, y)>> :
               c \in {rule, alert}, x \in {New, Recorded}, y \in {New, NewByWayOfOld}}
      \cup {<<Proposal(covered, alert, before, New)>> : before \in {Old, OldAndRecorded}}

(* Another adapter refuses the rule file. *)
TwoReaders == [f \in {rules, slos} |-> IF f = rules THEN "required" ELSE "none"]
MCRequired == {slos}
==============================================================================
