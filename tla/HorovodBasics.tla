---------------------------- MODULE HorovodBasics ----------------------------
(***************************************************************************)
(* The Python API of horovod/common/basics.py (class HorovodBasics) driven *)
(* by one thread of one process, over the engine of HorovodEngine.         *)
(*                                                                         *)
(* Besides the engine, the wrapper touches two pieces of process state:    *)
(* the environment variable HOROVOD_DYNAMIC_PROCESS_SETS, which init()     *)
(* sets before it calls the engine and nothing ever clears, and the atexit *)
(* handler list, to which every init() call appends self.shutdown before   *)
(* it validates its arguments.  Each public method is one action: the      *)
(* engine call it makes and the translation of the integer the engine      *)
(* returns into a value or a raised ValueError/RuntimeError, recorded in   *)
(* ret.  Exit runs the atexit handlers.                                    *)
(***************************************************************************)
EXTENDS HorovodEngine, SentinelTranslation, ProcessSetArrays

CONSTANTS
  None,             \* the Python None passed as process_sets
  Dynamic,          \* the string "dynamic" passed as process_sets
  CommArgs,         \* comm arguments: sequences of world ranks and/or handles
  ProcessSetsArgs,  \* process_sets arguments given as lists of rank lists
  AddArgs,          \* rank lists passed to add_process_set
  Built,            \* feature -> horovod_<feature>_built() for the other probes
  MaxInits          \* bound: number of init() calls (= atexit registrations)

VARIABLES
  mpiBuilt,     \* horovod_mpi_built(): the library was built with MPI
  env,          \* os.environ["HOROVOD_DYNAMIC_PROCESS_SETS"] == "1"
  envAtStart,   \* history: the variable was set when the process started
  atexitCount,  \* number of self.shutdown registrations with atexit
  exited,       \* the interpreter has exited and run its atexit handlers
  initReqDyn,   \* history: the init() call that brought the engine up asked for "dynamic"
  ret           \* the call last made and its outcome

vars == <<engineVars, mpiBuilt, env, envAtStart, atexitCount, exited, initReqDyn, ret>>

Returns(call, out) == ret' = [call |-> call, out |-> out]

IsRankList(c) == \A i \in DOMAIN c : c[i] \notin Handles
\* Mutant: the default membership counted from 1.
AllRanksFromOne == [r \in 1..WorldSize |-> r]
\* comm=None: the engine uses every rank of MPI_COMM_WORLD.
AllRanks == [r \in 1..WorldSize |-> r - 1]

\* Process-set arguments whose ranks exist in a global set of the given size;
\* what the engine does with a set naming other ranks is not specified, and
\* such arguments are left out.
FitsSize(p, size) == \A k \in DOMAIN p : \A j \in DOMAIN p[k] : p[k][j] < size

Init ==
  /\ EngineInit
  /\ mpiBuilt \in BOOLEAN
  /\ env \in BOOLEAN
  /\ envAtStart = env
  /\ atexitCount = 0
  /\ exited = FALSE
  /\ initReqDyn = FALSE
  /\ ret = [call |-> "none", out |-> NoneValue]

Running == ~exited

(***************************************************************************)
(* init(comm, process_sets).  "dynamic" sets the environment variable and  *)
(* self.shutdown is registered with atexit before comm is looked at, so    *)
(* both survive the errors raised for handle arguments.  A single handle   *)
(* is wrapped in a list at line 60, and line 100 passes that list, not the *)
(* handle, to MPI._addressof, which raises TypeError for anything but an   *)
(* mpi4py object: horovod_init_comm is never reached.                      *)
(***************************************************************************)

InitEngine(c, sets, dyn) ==
  \/ /\ IsRankList(c)
     /\ \E ctrl \in Controllers :
          /\ ctrl = "MPI" => mpiBuilt
          /\ horovod_init(IF c = <<>> THEN AllRanks ELSE c,
                          ReadSets(ProcessSetArgs(sets)), dyn, ctrl)
     /\ Returns("init", NoneValue)
  \/ /\ ~IsRankList(c) /\ ~mpiBuilt
     /\ UNCHANGED engineVars
     /\ Returns("init", Err("ConfigurationError"))
  \/ /\ ~IsRankList(c) /\ mpiBuilt
     /\ \E i \in DOMAIN c : c[i] \notin Handles
     /\ UNCHANGED engineVars
     /\ Returns("init", Err("ConfigurationError"))
  \/ /\ mpiBuilt /\ Len(c) = 1 /\ c[1] \in Handles
     /\ UNCHANGED engineVars
     /\ Returns("init", Err("TypeError"))
  \/ /\ mpiBuilt /\ Len(c) > 1 /\ \A i \in DOMAIN c : c[i] \in Handles
     /\ horovod_init_multi_comm(c, dyn)
     /\ Returns("init", NoneValue)

\* History: what the init() call that brought the engine up was given.
RecordInit(p) ==
  IF state' = "init" /\ state # "init"
  THEN initReqDyn' = (p = Dynamic)
  ELSE UNCHANGED initReqDyn

\* Mutant: atexit.register(self.shutdown) moved into the rank-list branch.
InitAtexitInRankBranch(c, p) ==
  LET dyn  == env \/ p = Dynamic
      sets == IF p \in {None, Dynamic} THEN <<>> ELSE p
  IN /\ Running
     /\ atexitCount < MaxInits
     /\ IsRankList(c) => FitsSize(sets, IF c = <<>> THEN WorldSize ELSE Len(c))
     /\ env' = dyn
     /\ atexitCount' = IF IsRankList(c) THEN atexitCount + 1 ELSE atexitCount
     /\ InitEngine(c, sets, dyn)
     /\ RecordInit(p)
     /\ UNCHANGED <<mpiBuilt, envAtStart, exited>>

init(c, p) ==
  LET dyn  == env \/ p = Dynamic
      sets == IF p \in {None, Dynamic} THEN <<>> ELSE p
  IN /\ Running
     /\ atexitCount < MaxInits
     /\ IsRankList(c) => FitsSize(sets, IF c = <<>> THEN WorldSize ELSE Len(c))
     /\ env' = dyn
     /\ atexitCount' = atexitCount + 1
     /\ InitEngine(c, sets, dyn)
     /\ RecordInit(p)
     /\ UNCHANGED <<mpiBuilt, envAtStart, exited>>

InitSetsArgs == {None, Dynamic} \cup ProcessSetsArgs

shutdown ==
  /\ Running
  /\ horovod_shutdown
  /\ Returns("shutdown", NoneValue)
  /\ UNCHANGED <<mpiBuilt, env, envAtStart, atexitCount, exited, initReqDyn>>

\* Methods that only read engine state.
Reads(call, out) ==
  /\ Running
  /\ Returns(call, out)
  /\ UNCHANGED <<engineVars, mpiBuilt, env, envAtStart, atexitCount, exited, initReqDyn>>

size == Reads("size", QueryOutcome(SizeResult))
rank == Reads("rank", QueryOutcome(RankResult))

\* local_size(), cross_size(): the engine derives them from the host layout,
\* which is left open here.
layout_query(q) ==
  IF IsInit THEN \E v \in World : Reads(q, QueryOutcome(v))
  ELSE Reads(q, QueryOutcome(-1))

\* local_rank(), cross_rank(): the same -1 check on a layout value.
layout_rank(q) == layout_query(q)

is_initialized == Reads("is_initialized", Flag(IsInit))

\* horovod_is_homogeneous and horovod_mpi_threads_supported report facts
\* of the cluster and the MPI library that the model leaves open.
is_homogeneous == \E b \in BOOLEAN : Reads("is_homogeneous", Flag(b))

mpi_threads_supported ==
  IF ~MpiEnabled THEN Reads("mpi_threads_supported", Err("MpiNotEnabled"))
  ELSE \E b \in BOOLEAN : Reads("mpi_threads_supported", Flag(b))

mpi_enabled  == Reads("mpi_enabled", Flag(MpiEnabled))
gloo_enabled == Reads("gloo_enabled", Flag(IsInit /\ controller = "Gloo"))
mpi_built    == Reads("mpi_built", Flag(mpiBuilt))
feature_built(f) == Reads(f, Flag(Built[f]))

start_timeline ==
  /\ Running
  /\ horovod_start_timeline
  /\ Returns("start_timeline",
       CASE StartTimelineResult = -1 -> Err("NotInitialized")
         [] StartTimelineResult = -2 -> Err("TimelineNotDynamic")
         [] OTHER -> NoneValue)
  /\ UNCHANGED <<mpiBuilt, env, envAtStart, atexitCount, exited, initReqDyn>>

stop_timeline ==
  /\ Running
  /\ horovod_stop_timeline
  /\ Returns("stop_timeline",
       IF StopTimelineResult = -1 THEN Err("NotInitialized") ELSE NoneValue)
  /\ UNCHANGED <<mpiBuilt, env, envAtStart, atexitCount, exited, initReqDyn>>

add_process_set(ranks) ==
  /\ Running
  /\ nextId < MaxId
  /\ IsInit => FitsSize(<<ranks>>, hvdSize)
  /\ horovod_add_process_set(ranks)
  /\ Returns("add_process_set", AddOutcome(AddResult))
  /\ UNCHANGED <<mpiBuilt, env, envAtStart, atexitCount, exited, initReqDyn>>

\* Mutant: the id 0 check of line 359 left to the engine.
RemoveNoGlobalCheck(id) ==
  /\ Running
  /\ horovod_remove_process_set(id)
  /\ Returns("remove_process_set", RemoveOutcome(RemoveResult(id)))
  /\ UNCHANGED <<mpiBuilt, env, envAtStart, atexitCount, exited, initReqDyn>>

remove_process_set(id) ==
  /\ Running
  /\ IF id = 0
     THEN UNCHANGED engineVars /\ Returns("remove_process_set", Err("GlobalSetImmutable"))
     ELSE /\ horovod_remove_process_set(id)
          /\ Returns("remove_process_set", RemoveOutcome(RemoveResult(id)))
  /\ UNCHANGED <<mpiBuilt, env, envAtStart, atexitCount, exited, initReqDyn>>

process_set_rank(id) == Reads("process_set_rank", ScopedOutcome(ProcessSetRankResult(id)))
process_set_size(id) == Reads("process_set_size", ScopedOutcome(ProcessSetSizeResult(id)))

comm_process_set(h) ==
  IF ~mpiBuilt THEN Reads("comm_process_set", Err("ConfigurationError"))
  ELSE LET r == CommProcessSetResult(h) IN
       Reads("comm_process_set",
             CASE r = -1 -> Err("NotInitialized") [] r = -2 -> Err("NoMatchingSet")
               [] OTHER -> Val(r))

\* Interpreter exit: atexit calls self.shutdown once per registration; after
\* the first, horovod_shutdown finds the engine down and does nothing.
Exit ==
  /\ Running
  /\ IF atexitCount > 0 THEN horovod_shutdown ELSE UNCHANGED engineVars
  /\ exited' = TRUE
  /\ UNCHANGED <<mpiBuilt, env, envAtStart, atexitCount, initReqDyn, ret>>

Next ==
  \/ \E c \in CommArgs, p \in InitSetsArgs : init(c, p)
  \/ shutdown
  \/ size \/ rank
  \/ \E q \in {"local_size", "cross_size"} : layout_query(q)
  \/ \E q \in {"local_rank", "cross_rank"} : layout_rank(q)
  \/ is_initialized \/ is_homogeneous \/ mpi_threads_supported
  \/ mpi_enabled \/ gloo_enabled \/ mpi_built
  \/ \E f \in DOMAIN Built : feature_built(f)
  \/ start_timeline \/ stop_timeline
  \/ \E r \in AddArgs : add_process_set(r)
  \/ \E id \in 0..MaxId : remove_process_set(id)
  \/ \E id \in 0..MaxId : process_set_rank(id) \/ process_set_size(id)
  \/ \E h \in Handles : comm_process_set(h)
  \/ Exit

Spec == Init /\ [][Next]_vars

-----------------------------------------------------------------------------

TypeOK ==
  /\ state \in {"uninit", "init", "shut"}
  /\ controller \in Controllers \cup {"none"}
  /\ dynamic \in BOOLEAN /\ timeline \in BOOLEAN
  /\ globalRanks \in Seq(World)
  /\ DOMAIN registry \subseteq 0..MaxId
  /\ \A i \in DOMAIN registry : registry[i] \in Seq(0..WorldSize-1)
  /\ nextId \in 0..MaxId
  /\ env \in BOOLEAN /\ envAtStart \in BOOLEAN /\ initReqDyn \in BOOLEAN
  /\ mpiBuilt \in BOOLEAN
  /\ atexitCount \in 0..MaxInits /\ exited \in BOOLEAN
  /\ ret.out \in [err: ErrorKinds] \cup [val: Int] \cup [flag: BOOLEAN] \cup [none: {TRUE}]

\* Whatever path init() took to bring the engine up, it registered the
\* atexit shutdown first, so an interpreter exit never leaves the engine
\* initialised (basics.py line 75 against the branches of lines 77-107).
ExitReleasesEngine == exited => state # "init"

\* While the engine is up, id 0 is registered and is the whole global set,
\* whatever process sets init() was given and whatever add_process_set and
\* remove_process_set calls followed (spec section 3; basics.py line 359).
GlobalSetPermanent ==
  IsInit => 0 \in DOMAIN registry /\ registry[0] = [r \in 1..hvdSize |-> r - 1]

\* No engine sentinel is returned to the caller as if it were a value: every
\* integer a method returns is a real size, rank or id (the elif chains of
\* add_process_set, remove_process_set, process_set_rank/size, the queries
\* and comm_process_set cover every sentinel the engine can produce).
NoSentinelEscapes == "val" \in DOMAIN ret.out => ret.out.val >= 0

\* The engine runs with dynamic process sets only if the process started with
\* HOROVOD_DYNAMIC_PROCESS_SETS=1 or the init() call that brought it up
\* passed process_sets="dynamic" (spec section 8: add_process_set fails
\* with DynamicModeDisabled when dynamic mode was not enabled at init).
DynamicModeOnlyIfRequested == IsInit /\ dynamic => envAtStart \/ initReqDyn

\* Calls that need an initialised engine (spec section 4.4: every Registry
\* and Query operation except the feature probes, is_homogeneous and the
\* id-0 check of remove_process_set).
NeedsInit == {"size", "rank", "local_size", "cross_size", "local_rank", "cross_rank",
              "mpi_threads_supported", "start_timeline", "stop_timeline",
              "add_process_set", "process_set_rank", "process_set_size",
              "comm_process_set"}

\* Any such call made while the engine is not initialised raises the "not
\* initialized" error (spec sections 4.4 and 8), whichever method it is;
\* mpi_threads_supported (lines 243-252) asks horovod_mpi_enabled first.
NotInitializedBeforeInit ==
  [][~IsInit /\ ret'.call \in NeedsInit => ret'.out = Err("NotInitialized")]_vars

\* init() on a process that is already initialised does not return as if
\* it had applied its comm and process_sets: spec section 4.4 makes init()
\* require Uninitialized and section 4.2 has this layer check the state,
\* while lines 77-81 call horovod_init whatever the state is.
InitRefusedWhenInitialized ==
  [][IsInit /\ ret'.call = "init" => ret'.out # NoneValue]_vars


\* init() given one communicator handle, in a build with MPI, brings an
\* uninitialised engine up (spec sections 3 and 4.1: a single handle is
\* duplicated as the global communicator; the docstring of lines 40-45
\* accepts an mpi4py.MPI.Comm object).  Line 60 wraps the handle in a
\* list and line 100 hands the list to MPI._addressof.
SingleHandleInitializes ==
  [][\A h \in Handles, p \in InitSetsArgs :
       mpiBuilt /\ state = "uninit" /\ init(<<h>>, p) => IsInit']_vars
=============================================================================
