-------------------------- MODULE ProcessSetsStatic --------------------------
(***************************************************************************)
(* Static process sets across the processes of a job, as exercised by      *)
(* test_process_sets_static.py: every process calls init(process_sets=...) *)
(* with the same sets in the same order, but each may list the members of  *)
(* a set in its own order (line 39).  Each process's engine registers the  *)
(* sets locally: init() flattens them into three arrays (lines 67-73),    *)
(* which horovod_init reads back and registers (HorovodEngine!ReadSets and *)
(* InitialSets).                                                           *)
(***************************************************************************)
EXTENDS Integers, Sequences, SequencesExt, FiniteSets, TLC, ProcessSetArrays

CONSTANTS
  WorldSize,   \* processes in the job
  BaseLists    \* process_sets arguments, up to the order of members

Procs == 0..WorldSize-1

Engine == INSTANCE HorovodEngine WITH
  Self <- 0, Handles <- {}, HandleGroup <- <<>>, Controllers <- {"MPI"},
  TimelineDynamic <- FALSE, MaxId <- 0,
  state <- "uninit", controller <- "none", dynamic <- FALSE, globalRanks <- <<>>,
  registry <- <<>>, nextId <- 0, timeline <- FALSE

VARIABLES
  base,      \* the process-set list the job agreed on
  args,      \* process -> the process_sets list that process passes
  tables     \* process -> its engine's table after init, <<>> before

vars == <<base, args, tables>>

Perms(s) == {f \in [DOMAIN s -> ToSet(s)] : ToSet(f) = ToSet(s)}

\* Lines 31-42: the same sets in the same order, members in any order.
Variants(lst) ==
  {v \in [DOMAIN lst -> UNION {Perms(lst[k]) : k \in DOMAIN lst}] :
     \A k \in DOMAIN lst : v[k] \in Perms(lst[k])}

Init ==
  /\ base \in BaseLists
  /\ args \in [Procs -> Variants(base)]
  /\ tables = [p \in Procs |-> <<>>]

\* Process p's hvd.init(process_sets=args[p]): the arrays of lines 67-73,
\* and the table its engine registers from them.
InitProcess(p) ==
  /\ tables[p] = <<>>
  /\ tables' = [tables EXCEPT ![p] =
       Engine!InitialSets(WorldSize, Engine!ReadSets(ProcessSetArgs(args[p])))]
  /\ UNCHANGED <<base, args>>

Next == \E p \in Procs : InitProcess(p)

Spec == Init /\ [][Next]_vars

-----------------------------------------------------------------------------

TypeOK ==
  /\ base \in BaseLists
  /\ \A p \in Procs : tables[p] \in Seq(Seq(Procs))

\* The sets horovod_init reads back from the three arrays that lines 67-73
\* build are the sets the process passed: in declaration order, each with
\* its members in the order given and repeated members kept (spec section
\* 4.1), whatever order the process listed them in.
ArraysCarrySets ==
  \A p \in Procs : Engine!ReadSets(ProcessSetArgs(args[p])) = args[p]
=============================================================================
