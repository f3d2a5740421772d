-------------------------- MODULE MC_GetProcessSets --------------------------
EXTENDS GetProcessSets

\* The mutator adds one membership; ids, not members, tell the sets apart.
MCAddArgs == {<<1, 2>>}

MCHandleGroup == [h \in {} |-> {}]
=============================================================================
