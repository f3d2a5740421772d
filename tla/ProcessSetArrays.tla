--------------------------- MODULE ProcessSetArrays ---------------------------
(***************************************************************************)
(* How init() hands a list of rank lists to horovod_init (basics.py lines  *)
(* 67-73): the members of all sets concatenated in declaration order, the  *)
(* length of each set, and the number of sets, as three ctypes arguments.  *)
(* The engine reads set k back as the sizes[k] ranks that follow the      *)
(* members of sets 1..k-1 (HorovodEngine!ReadSets).                        *)
(***************************************************************************)
EXTENDS Integers, Sequences, SequencesExt, FiniteSets

\* Mutant: each size taken from the set of members, as len(set(ps)) would.
ProcessSetArgsDistinctSizes(sets) ==
  [ranks |-> FlattenSeq(sets),
   sizes |-> [k \in DOMAIN sets |-> Cardinality(ToSet(sets[k]))],
   count |-> Len(sets)]
\* process_set_ranks, process_set_sizes and len(process_set_sizes).
ProcessSetArgs(sets) ==
  [ranks |-> FlattenSeq(sets),
   sizes |-> [k \in DOMAIN sets |-> Len(sets[k])],
   count |-> Len(sets)]
=============================================================================
