---------------------- MODULE MCScheduledNotifications ----------------------
\* Instances of ScheduledNotifications for TLC.
EXTENDS ScheduledNotifications

\* Three matches of two users: item 1 matches for both, item 2 for "anna".
\* "anna" wants her email in slot 1, "ben" in slot 2.
TwoUsers == {"anna", "ben"}
Three == {"a1", "a2", "b1"}
ThreeItems == [a1 |-> 1, a2 |-> 2, b1 |-> 1]
ThreeUsers == [a1 |-> "anna", a2 |-> "anna", b1 |-> "ben"]
TwoTimes == [anna |-> {1}, ben |-> {2}]

\* One item that matches for both, who want their email at the same time.
Both == {"a1", "b1"}
BothItems == [m \in Both |-> 1]
BothUsers == [a1 |-> "anna", b1 |-> "ben"]
SameTime == [u \in TwoUsers |-> {1}]

\* Two items that both match for "anna".
OneUser == {"anna"}
Pair == {"a1", "a2"}
PairItems == [a1 |-> 1, a2 |-> 2]
PairUsers == [m \in Pair |-> "anna"]
PairTimes == [anna |-> {1}]

NoChoice == {}
LaterTime == {{2}}
=============================================================================
