------------------------------ MODULE MCExecute ------------------------------
EXTENDS Execute

\* cfg->concurrent as atoi delivers it: below, inside and above the range.
MCRequests == {-1, 1, 2, 4}

\* The closed form of a registered list is what LL_APPEND builds.
BuiltByAppend ==
    \A k \in 0..4 :
        LET built[j \in 0..k] ==
                IF j = 0 THEN llist ELSE LL_APPEND(built[j - 1], j)
        IN  /\ Registered(k) = built[k]
            /\ llist_count(built[k]) = k

ASSUME RegisteredAssumption == BuiltByAppend
===============================================================================
