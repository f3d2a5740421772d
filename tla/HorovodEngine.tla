---------------------------- MODULE HorovodEngine ----------------------------
(***************************************************************************)
(* The native Horovod engine as seen through the C capability interface    *)
(* that horovod/common/basics.py calls with ctypes (spec.md section 6).    *)
(* The engine is not part of this repository: its behaviour is taken from  *)
(* the spec and from src/test/parallel/test_process_sets_static.py.        *)
(*                                                                         *)
(* One process's engine state: its lifecycle, the controller it runs, the  *)
(* dynamic-process-set switch it read at initialisation, the global        *)
(* communicator (world ranks in Horovod-rank order), the process-set table *)
(* and the next fresh process-set id.  Each horovod_* entry point is a     *)
(* pair: an operator giving the integer it returns (sentinels included)    *)
(* and, for entry points that change state, an action with its effect.    *)
(***************************************************************************)
EXTENDS Integers, Sequences, SequencesExt, FiniteSets, TLC

CONSTANTS
  WorldSize,      \* number of processes in MPI_COMM_WORLD
  Self,           \* world rank of the process this engine belongs to
  Handles,        \* external MPI communicator handles (model values)
  HandleGroup,    \* Handles -> set of world ranks in that communicator
  Controllers,    \* controllers the launcher may select: "MPI", "Gloo"
  TimelineDynamic,\* HOROVOD_TIMELINE=DYNAMIC is set
  MaxId           \* bound: process-set ids are taken from 0..MaxId

World == 0..WorldSize-1

ASSUME Self \in World
ASSUME \A h \in Handles : Self \in HandleGroup[h] /\ HandleGroup[h] \subseteq World
ASSUME Controllers \subseteq {"MPI", "Gloo"} /\ Controllers # {}

VARIABLES
  state,        \* "uninit" | "init" | "shut"
  controller,   \* controller chosen at initialisation
  dynamic,      \* dynamic process sets enabled (read from the environment)
  globalRanks,  \* world ranks of the global communicator, by Horovod rank
  registry,     \* process-set id -> sorted sequence of Horovod ranks
  nextId,       \* next process-set id to hand out
  timeline      \* a dynamic timeline is being recorded

engineVars == <<state, controller, dynamic, globalRanks, registry, nextId, timeline>>

NoSets == [i \in {} |-> <<>>]

PosOf(s, x) == CHOOSE i \in DOMAIN s : s[i] = x

SortRanks(s) == SetToSortSeq(ToSet(s), <)

\* Horovod rank of the calling process and the size of the global set.
hvdSize == Len(globalRanks)
myRank  == PosOf(globalRanks, Self) - 1

\* The members of a communicator handle, in Horovod ranks of the global set.
HandleRanks(h, glob) == SetToSortSeq({i - 1 : i \in {j \in DOMAIN glob : glob[j] \in HandleGroup[h]}}, <)

\* horovod_init's reading of the process-set arrays (spec section 4.1:
\* parallel (offset, size) arrays in declaration order): set k is the
\* sizes[k] ranks after the members of the sets before it.
ReadSets(a) ==
  [k \in 1..a.count |->
     LET off == SumFunctionOnSet(a.sizes, 1..k-1)
     IN SubSeq(a.ranks, off + 1, off + a.sizes[k])]

(***************************************************************************)
(* Registration of the initial process sets: id 0 is the whole global set; *)
(* every further entry gets the next id unless its membership, as an       *)
(* unordered set, equals that of a set registered before it (the global    *)
(* set included).  Members are stored sorted: processes may list the same  *)
(* set in different orders (test_process_sets_static.py lines 32-47).      *)
(***************************************************************************)
RECURSIVE DedupSets(_, _)
DedupSets(kept, lst) ==
  IF lst = <<>> THEN kept
  ELSE LET s == Head(lst)
           dup == \E i \in DOMAIN kept : ToSet(kept[i]) = ToSet(s)
       IN DedupSets(IF dup THEN kept ELSE Append(kept, SortRanks(s)), Tail(lst))

\* Mutant: the global set numbered from 1.
InitialSetsFromOne(size, sets) == DedupSets(<<[r \in 1..size |-> r]>>, sets)
InitialSets(size, sets) == DedupSets(<<[r \in 1..size |-> r - 1]>>, sets)

Reset ==
  /\ controller' = "none"
  /\ dynamic' = FALSE
  /\ globalRanks' = <<>>
  /\ registry' = NoSets
  /\ nextId' = 0
  /\ timeline' = FALSE

EngineInit ==
  /\ state = "uninit"
  /\ controller = "none"
  /\ dynamic = FALSE
  /\ globalRanks = <<>>
  /\ registry = NoSets
  /\ nextId = 0
  /\ timeline = FALSE

\* Bring the engine up with global communicator glob and initial sets.
\* The table after registration: the kept entries numbered from 0.
InitialRegistry(size, sets) ==
  LET kept == InitialSets(size, sets) IN [i \in 0..Len(kept)-1 |-> kept[i + 1]]

Establish(glob, sets, dyn, ctrl) ==
  /\ state' = "init"
  /\ controller' = ctrl
  /\ dynamic' = dyn
  /\ globalRanks' = glob
  /\ registry' = InitialRegistry(Len(glob), sets)
  /\ nextId' = Cardinality(DOMAIN registry')
  /\ timeline' = FALSE

(***************************************************************************)
(* horovod_init / horovod_init_comm / horovod_init_multi_comm.  A second   *)
(* call while initialised does nothing.  After shutdown the spec calls the *)
(* engine state terminal and a new init undefined: either outcome (the     *)
(* engine comes up again, or nothing happens) is possible.                 *)
(***************************************************************************)
horovod_init(glob, sets, dyn, ctrl) ==
  \/ state = "uninit" /\ Establish(glob, sets, dyn, ctrl)
  \/ state = "init" /\ UNCHANGED engineVars
  \/ state = "shut" /\ Establish(glob, sets, dyn, ctrl)
  \/ state = "shut" /\ UNCHANGED engineVars

\* horovod_init_multi_comm (spec section 4.1): the first handle's group, in
\* world-rank order, is the global communicator; each further handle seeds
\* an initial set with its members' Horovod ranks.
horovod_init_multi_comm(hs, dyn) ==
  LET glob == SetToSortSeq(HandleGroup[hs[1]], <) IN
  horovod_init(glob, [k \in 1..Len(hs)-1 |-> HandleRanks(hs[k + 1], glob)], dyn, "MPI")

horovod_shutdown ==
  IF state = "init" THEN state' = "shut" /\ Reset ELSE UNCHANGED engineVars

IsInit == state = "init"

\* horovod_size / horovod_rank: the value or the -1 sentinel.
SizeResult == IF IsInit THEN hvdSize ELSE -1
RankResult == IF IsInit THEN myRank ELSE -1

\* horovod_start_timeline / horovod_stop_timeline.
StartTimelineResult == CASE ~IsInit -> -1 [] ~TimelineDynamic -> -2 [] OTHER -> 0
StopTimelineResult  == IF IsInit THEN 0 ELSE -1

horovod_start_timeline ==
  /\ timeline' = (StartTimelineResult = 0 \/ timeline)
  /\ UNCHANGED <<state, controller, dynamic, globalRanks, registry, nextId>>

horovod_stop_timeline ==
  /\ timeline' = (timeline /\ StopTimelineResult # 0)
  /\ UNCHANGED <<state, controller, dynamic, globalRanks, registry, nextId>>

MpiEnabled == IsInit /\ controller = "MPI"

\* The id a new set gets: ids are handed out increasing and never reused.
FreshId == nextId

\* horovod_add_process_set: new id, or -1 / -2 / -10.
AddResult == CASE ~IsInit -> -1 [] ~dynamic -> -2 [] controller # "MPI" -> -10 [] OTHER -> FreshId

RegistryAfterAdd(ranks) == registry @@ (FreshId :> SortRanks(ranks))

horovod_add_process_set(ranks) ==
  IF AddResult >= 0
  THEN /\ registry' = RegistryAfterAdd(ranks)
       /\ nextId' = FreshId + 1
       /\ UNCHANGED <<state, controller, dynamic, globalRanks, timeline>>
  ELSE UNCHANGED engineVars

\* horovod_remove_process_set: 0, or -1 / -2 / -10 / -3.
RemoveResult(id) ==
  CASE ~IsInit -> -1 [] ~dynamic -> -2 [] controller # "MPI" -> -10
    [] id \notin DOMAIN registry -> -3 [] OTHER -> 0

RegistryAfterRemove(id) == [i \in DOMAIN registry \ {id} |-> registry[i]]

horovod_remove_process_set(id) ==
  IF RemoveResult(id) = 0
  THEN /\ registry' = RegistryAfterRemove(id)
       /\ UNCHANGED <<state, controller, dynamic, globalRanks, nextId, timeline>>
  ELSE UNCHANGED engineVars

\* horovod_process_set_rank / horovod_process_set_size.
ScopedResult(id, value) ==
  CASE ~IsInit -> -1 [] controller # "MPI" -> -10
    [] id \notin DOMAIN registry -> -3
    [] myRank \notin ToSet(registry[id]) -> -2
    [] OTHER -> value

ProcessSetRankResult(id) == ScopedResult(id, PosOf(registry[id], myRank) - 1)
ProcessSetSizeResult(id) == ScopedResult(id, Len(registry[id]))

\* horovod_comm_process_set: the id whose members are the handle's, or -1 / -2.
CommProcessSetResult(h) ==
  LET match == {i \in DOMAIN registry :
                  {globalRanks[r + 1] : r \in ToSet(registry[i])} = HandleGroup[h]}
  IN CASE ~MpiEnabled -> -1 [] match = {} -> -2 [] OTHER -> CHOOSE i \in match : \A j \in match : i <= j
=============================================================================
