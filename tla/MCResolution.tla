---------------------------- MODULE MCResolution ----------------------------
EXTENDS Resolution

CONSTANTS c1, c2, period, otherPeriod, product, brand, vague, loose, missingAsset

MCClauses == {c1, c2}
MCReports == {period, otherPeriod, product, brand, vague, loose, missingAsset}
MCKindOf ==
  [r \in MCReports |-> CASE r \in {period, otherPeriod} -> "missing_recent_period"
                         [] r \in {product, brand} -> "missing_entity_value"
                         [] r \in {vague, loose} -> "ambiguous_requirement"
                         [] OTHER -> "unsupported_semantics"]
\* The two names are of one argument; "loose" is an ambiguous period.
MCSlotOf ==
  [r \in MCReports |-> CASE r \in {period, otherPeriod, loose} -> "audience.period"
                         [] r \in {product, brand} -> "predicate.product"
                         [] OTHER -> "audience.requirement"]
MCOverlaps == {<<period, c1>>, <<otherPeriod, c2>>}
MCRank == [i \in MCReports \cup MCClauses |->
             CASE i = product -> 1 [] i = brand -> 2 [] i = vague -> 3 [] i = loose -> 4
               [] i = period -> 5 [] i = otherPeriod -> 6 [] i = c1 -> 7 [] i = c2 -> 8
               [] OTHER -> 9]

Shipped == [autoRisks |-> {"low"}, allowed |-> {"missing_recent_period"},
            required |-> {"missing_entity_value", "ambiguous_comparison_grain",
                          "ambiguous_requirement"},
            defaultPeriod |-> TRUE]
\* Expressions that stand, with or without a report, and placeholders whose
\* expression does not; the second structuring may name the product or not.
Whole(sums, bare, deficits, mentions) ==
  [expr |-> [stands |-> TRUE, sums |-> sums, bare |-> bare], reported |-> deficits,
   mentions |-> mentions, grain |-> "silent", rejected |-> {}]
Placeholder(deficits) ==
  [expr |-> [stands |-> FALSE, sums |-> {}, bare |-> {}], reported |-> deficits,
   mentions |-> {}, grain |-> "silent", rejected |-> {}]
\* Nothing can be made of the expression, so whatever is settled is dropped again.
Rigid(p) == [p EXCEPT !.rejected = Expressions \ {p.expr}]

MCPlans ==
  {Whole(MCClauses, {}, {}, {}), [Whole(MCClauses, {c1}, {period}, {}) EXCEPT !.grain = "subject"],
   [Whole(MCClauses, {c1}, {period}, {}) EXCEPT !.grain = "row"],
   Whole({c1}, MCClauses, {period, otherPeriod}, {}), Whole({}, MCClauses, {period, otherPeriod}, {}),
   Whole({}, {c1}, {period, otherPeriod}, {}), Whole({}, MCClauses, {period}, {}), Whole({c1}, {c1}, {period}, {}),
   Whole({}, {}, {}, {product}), Whole({c1}, {c2}, {period}, {product}),
   Whole({}, {c1}, {product, period}, {}),
   Whole({c1}, MCClauses, {period, vague}, {}), Whole({c2}, MCClauses, {otherPeriod}, {}),
   Whole({}, {c1}, {loose}, {}), Rigid(Whole({c1}, {c1}, {period}, {})), Rigid(Whole(MCClauses, {}, {}, {})),
   Placeholder({product}), Placeholder({product, brand}), Placeholder({product, vague, period}), Placeholder({missingAsset, period})}

MCPolicies == {Shipped, [Shipped EXCEPT !.autoRisks = {}]}
=============================================================================
