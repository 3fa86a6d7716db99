---------------------------- MODULE MCAgendaPush ----------------------------
\* Instances of AgendaPush for TLC.
EXTENDS AgendaPush, TLC

\* Two plannings for one event.
OneEvent == {"e"}
TwoPlans == {"p", "q"}
ForEvent == [x \in TwoPlans |-> "e"]
OnePlan == {"q"}
ForOne == [x \in OnePlan |-> "e"]
NoSecondary == [x \in OnePlan |-> {}]

\* ... and another event, to which the second is linked as a secondary one.
TwoEvents == {"e", "f"}
Secondary == [p |-> {}, q |-> {"f"}]

\* The second planning has a coverage.
OneCoverage == [c \in {"c"} |-> "q"]

WorkerSymmetry == Permutations(Workers)
=============================================================================
