------------------------------ MODULE HorovodJob ------------------------------
(***************************************************************************)
(* A job of WorldSize processes, each running the Python layer over its    *)
(* own engine.  Every process makes the same calls, as the caller protocol *)
(* of spec section 5 requires: init(comm, process_sets) with the same      *)
(* arguments, then the same add_process_set / remove_process_set calls in  *)
(* the same order, then shutdown().  Nothing synchronises the processes    *)
(* except horovod_init, a barrier without timeout (basics.py line 79): a   *)
(* process returns from it only once every process has entered it.  After *)
(* it each process goes through the script at its own pace, so one may be  *)
(* several calls ahead of another.                                         *)
(*                                                                         *)
(* Each engine is an instance of HorovodEngine whose variables are the     *)
(* fields of eng[p]; its operators give the return codes and the tables    *)
(* after each call.                                                        *)
(***************************************************************************)
EXTENDS Integers, Sequences, FiniteSets, SentinelTranslation, ProcessSetArrays

CONSTANTS
  WorldSize,     \* processes in the job
  MaxId,         \* bound on process-set ids (HorovodEngine)
  None,          \* the Python None passed as process_sets
  Dynamic,       \* the string "dynamic" passed as process_sets
  JobComms,      \* rank lists the job may pass as comm (<<>> for None)
  JobSetsArgs,   \* process_sets arguments the job may pass
  Script         \* the add/remove calls each process makes, in order

Procs == 0..WorldSize-1

VARIABLES
  jobComm,   \* the comm argument every process passes
  jobSets,   \* the process_sets argument every process passes
  env,       \* process -> HOROVOD_DYNAMIC_PROCESS_SETS is set
  pc,        \* process -> "start" | "barrier" | "ready" | "done"
  eng,       \* process -> its engine's state
  step,      \* process -> index of its next call in Script
  out        \* process -> outcome of its last call

vars == <<jobComm, jobSets, env, pc, eng, step, out>>

E(p) == INSTANCE HorovodEngine WITH
  Self <- p, Handles <- {}, HandleGroup <- <<>>, Controllers <- {"MPI"},
  TimelineDynamic <- FALSE,
  state <- eng[p].state, controller <- eng[p].controller,
  dynamic <- eng[p].dynamic, globalRanks <- eng[p].glob,
  registry <- eng[p].registry, nextId <- eng[p].nextId, timeline <- FALSE

Unstarted == [state |-> "uninit", controller |-> "none", dynamic |-> FALSE,
              glob |-> <<>>, registry |-> E(0)!NoSets, nextId |-> 0]

Init ==
  /\ jobComm \in JobComms
  /\ jobSets \in JobSetsArgs
  /\ \E b \in BOOLEAN : env = [p \in Procs |-> b]
  /\ pc = [p \in Procs |-> "start"]
  /\ eng = [p \in Procs |-> Unstarted]
  /\ step = [p \in Procs |-> 1]
  /\ out = [p \in Procs |-> NoneValue]

\* init(), lines 57-79 up to the engine call: "dynamic" sets the variable,
\* then the process enters horovod_init and blocks.
CallInit(p) ==
  /\ pc[p] = "start"
  /\ env' = [env EXCEPT ![p] = @ \/ jobSets = Dynamic]
  /\ pc' = [pc EXCEPT ![p] = "barrier"]
  /\ UNCHANGED <<jobComm, jobSets, eng, step, out>>

Arrived == {q \in Procs : pc[q] = "barrier"}

\* Mutant: the default membership counted from 1.
JobGlobalFromOne == IF jobComm = <<>> THEN [r \in 1..WorldSize |-> r] ELSE jobComm
\* comm=None gives an empty rank list (lines 57-58, 78), which horovod_init
\* reads as every rank of MPI_COMM_WORLD.
JobGlobal == IF jobComm = <<>> THEN [r \in 1..WorldSize |-> r - 1] ELSE jobComm

\* The engines come up together: each with the resolved global communicator,
\* its initial sets and dynamic mode as its own environment says.
Open ==
  LET glob == JobGlobal
      sets == IF jobSets \in {None, Dynamic} THEN <<>> ELSE jobSets
      reg  == E(0)!InitialRegistry(Len(glob), E(0)!ReadSets(ProcessSetArgs(sets)))
  IN /\ eng' = [p \in Procs |->
                  IF p \in Arrived
                  THEN [state |-> "init", controller |-> "MPI", dynamic |-> env[p],
                        glob |-> glob, registry |-> reg, nextId |-> Cardinality(DOMAIN reg)]
                  ELSE eng[p]]
     /\ pc' = [p \in Procs |-> IF p \in Arrived THEN "ready" ELSE pc[p]]
     /\ UNCHANGED <<jobComm, jobSets, env, step, out>>

\* horovod_init returns once every process of the job has entered it.
Release == Arrived = Procs /\ Open

\* add_process_set(ranks), lines 339-351, on p's engine.
PyAdd(p, ranks) ==
  LET r == E(p)!AddResult IN
  /\ eng' = [eng EXCEPT ![p].registry = IF r >= 0 THEN E(p)!RegistryAfterAdd(ranks) ELSE @,
                        ![p].nextId = IF r >= 0 THEN E(p)!FreshId + 1 ELSE @]
  /\ out' = [out EXCEPT ![p] = AddOutcome(r)]

\* remove_process_set(id), lines 358-372: id 0 is refused before the engine.
PyRemove(p, id) ==
  LET r == E(p)!RemoveResult(id) IN
  IF id = 0
  THEN out' = [out EXCEPT ![p] = Err("GlobalSetImmutable")] /\ UNCHANGED eng
  ELSE /\ eng' = [eng EXCEPT ![p].registry = IF r = 0 THEN E(p)!RegistryAfterRemove(id) ELSE @]
       /\ out' = [out EXCEPT ![p] = RemoveOutcome(r)]

\* The next call of p's script; a raised ValueError does not stop the script.
Call(p) ==
  LET c == Script[step[p]] IN
  /\ pc[p] = "ready"
  /\ step[p] <= Len(Script)
  /\ \/ c.op = "add" /\ PyAdd(p, c.arg)
     \/ c.op = "remove" /\ PyRemove(p, c.arg)
  /\ step' = [step EXCEPT ![p] = @ + 1]
  /\ UNCHANGED <<jobComm, jobSets, env, pc>>

\* shutdown(), lines 109-111, after the last call.
Finish(p) ==
  /\ pc[p] = "ready"
  /\ step[p] > Len(Script)
  /\ eng' = [eng EXCEPT ![p] = [Unstarted EXCEPT !.state = "shut"]]
  /\ pc' = [pc EXCEPT ![p] = "done"]
  /\ UNCHANGED <<jobComm, jobSets, env, step, out>>

Proc(p) == CallInit(p) \/ Call(p) \/ Finish(p)

Next == Release \/ \E p \in Procs : Proc(p)

Spec == Init /\ [][Next]_vars

-----------------------------------------------------------------------------

TypeOK ==
  /\ pc \in [Procs -> {"start", "barrier", "ready", "done"}]
  /\ step \in [Procs -> 1..Len(Script) + 1]
  /\ env \in [Procs -> BOOLEAN]
  /\ \A p \in Procs : /\ eng[p].state \in {"uninit", "init", "shut"}
                      /\ eng[p].glob \in Seq(Procs)
                      /\ DOMAIN eng[p].registry \subseteq 0..MaxId
                      /\ \A id \in DOMAIN eng[p].registry : eng[p].registry[id] \in Seq(Procs)
=============================================================================
