---------------------------- MODULE MCOnlineView ----------------------------
EXTENDS OnlineView
CONSTANTS m1, m2, s1, s2

Varied == {<<s1, s2>>, <<s2, s1>>, <<s2>>}
TwoSizes == {<<s1, s2>>, <<s2>>}
Saved == {[master |-> m2, slaves |-> <<s1, s2>>, position |-> 2, text |-> s1]}
Swapped == {<<s1, s2>>, <<s2, s1>>}
=============================================================================
