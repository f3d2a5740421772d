# TLA+ models of the Horovod basics API

This directory holds TLA+ models of `src/horovod/common/basics.py`. That file is the
Python layer through which every Horovod front end initialises the native engine and
manages process sets. The models are checked with TLC.

## The system

`HorovodBasics` wraps a native engine that it loads with ctypes. Each method is a thin
translation:

1. normalise the arguments;
2. call one `horovod_*` entry point;
3. turn the integer the engine returns into a value or a `ValueError`/`RuntimeError`.

The engine's sentinels are:

| sentinel | meaning |
|---|---|
| -1 | not initialised |
| -2 | dynamic mode off, or not a member |
| -3 | unknown id |
| -10 | Gloo controller |

The parts of the system:

- **Communicator resolver and initialisation** (`init`, lines 35-107).
  - `comm` can be None, a rank list, one mpi4py communicator or a list of communicators.
  - `process_sets` can be None, a list of rank lists, or `"dynamic"`.
  - `"dynamic"` sets `HOROVOD_DYNAMIC_PROCESS_SETS=1` in the environment. The engine
    reads that variable when it initialises.
  - Every call registers `shutdown` with `atexit`.
  - The rank-list branch passes the process sets to the engine as three arrays (lines
    67-73): all members concatenated, the size of each set, and the number of sets.
  - The communicator branches first check MPI support and the argument types, then drop
    the process sets. A single communicator is wrapped in a list at line 60, and line 100
    passes that list to `MPI._addressof`, which raises TypeError. Only the branch with
    several handles reaches the engine (`horovod_init_multi_comm`).
- **Process-set registry** (engine). Id 0 is the global set. The initial sets are
  registered in order and de-duplicated. Ids are never reused.
- **Dynamic membership** (`add_process_set`, `remove_process_set`, lines 334-372).
  These only work in dynamic mode with the MPI controller. Id 0 cannot be removed.
- **Query interface.**
  - size, rank and layout queries; the enabled and built probes; the timeline;
  - `process_set_rank` and `process_set_size`, and `comm_process_set`;
  - `get_process_sets` (lines 404-419). It reads the table in 2 + 2n separate engine
    calls, and ctypes releases the GIL for each one. Another Python thread's add or
    remove can therefore land between any two of them.

The engine is not in this repository. `HorovodEngine.tla` models it from `spec.md`
section 6 and from `src/test/parallel/test_process_sets_static.py`. Its map entries are
marked `spec_modelled`.

## Modules

The modules are listed in dependency order.

| module | models | state | actions |
|---|---|---|---|
| `HorovodEngine` | one process's engine, the C interface | `state`, `controller`, `dynamic`, `globalRanks`, `registry` (id -> sorted members), `nextId`, `timeline` | one operator per entry point giving its return code; an action for each entry point that changes state (`horovod_init`, `horovod_init_multi_comm`, `horovod_shutdown`, `horovod_add_process_set`, `horovod_remove_process_set`, timeline); `ReadSets`, the reading of the process-set arrays; `InitialSets`, the recursive de-duplication |
| `SentinelTranslation` | the elif chains that turn each entry point's sentinels into a value or a `ValueError` | none | `AddOutcome`, `RemoveOutcome`, `ScopedOutcome`, `QueryOutcome` |
| `ProcessSetArrays` | lines 67-73: `process_sets` flattened into the three arrays passed to `horovod_init` | none | `ProcessSetArgs`; the engine's reading back is `HorovodEngine!ReadSets` |
| `HorovodBasics` (extends the engine, `SentinelTranslation` and `ProcessSetArrays`) | one Python process calling the API in any order | engine + `mpiBuilt` (the build, fixed when the process starts), `env` (the dynamic-mode variable), `atexitCount`, `exited`, `ret` (the last call's outcome), and the history variables `envAtStart` and `initReqDyn` | one action per public method. `init` covers all of lines 57-107 (`InitEngine` holds the four comm branches). `Exit` runs the registered `atexit` handlers. |
| `GetProcessSets` (extends the engine) | a reader thread in `get_process_sets` racing a mutator thread | engine + reader pc `rpc`, `num`, `idsArr`, `idx`, `psSize`, `acc`, `result`; the history variables `seen` (the tables the read overlapped) and `everReg` | `CountSets` (l.406), `GetIds` (l.407-408), `GetSize` (l.411-413), `GetRanks` (l.415-418), `AddSet`, `RemoveSet` |
| `HorovodJob` (one engine instance per process, `E(p)`; extends `ProcessSetArrays`) | a job of three processes: the same `init` arguments, the collective `horovod_init` barrier, then the same add/remove script run by each process at its own pace, then `shutdown` | `jobComm`, `jobSets`, and per process `env`, `pc`, `eng` (its engine's fields), `step`, `out` | `CallInit(p)` (l.57-79), `Release` (the barrier completes), `Call(p)` dispatching to `PyAdd` (l.339-351) or `PyRemove` (l.358-372), `Finish(p)` (l.109-111) |
| `ProcessSetsStatic` (instances the engine, extends `ProcessSetArrays`) | all processes of a job calling `init(process_sets=...)`, each listing members in its own order (test l.31-42) | `base`, `args`, `tables` | `InitProcess(p)`: the arrays of lines 67-73, read back and registered by the engine |

Each `MC_*` module defines the model values and finite argument sets that its cfgs
substitute.

How the model treats some details of the code:

- **Outcomes.** They are records: `[val |-> n]`, `[err |-> kind]`, `[flag |-> b]` and
  `[none |-> TRUE]`. The wording of error messages is not modelled.
- **Argument restrictions.** A rank-list `init` is only given process sets whose
  ranks exist in its global communicator (`FitsSize`). The same applies to the
  ranks passed to `add_process_set`. The spec does not say what the engine does with
  a set that names other ranks.
- **Undefined behaviour.** Some engine behaviour is undefined, and the model takes
  every outcome nondeterministically:
  - `horovod_init` after `horovod_shutdown` may bring the engine back up, or do nothing.
  - In `get_process_sets`, the engine may copy more ids than the array holds. The
    result is either unnoticed memory corruption (the array keeps its first `num` ids)
    or a crash.

## Runs

| run | cfg | expect | shows |
|---|---|---|---|
| basics | `MC_HorovodBasics.cfg` | pass | Any sequence of calls by one process keeps id 0 intact, never returns a raw sentinel, and ends with the engine shut down. The calls are listed below. The build is chosen at start, with or without MPI. |
| basics_comm | `MC_HorovodBasics_comm.cfg` | violation | `SingleHandleInitializes`: in a build with MPI, `init` with one communicator brings the engine up. The code raises TypeError at line 100. |
| basics_dynamic_leak | `MC_HorovodBasics_dynamic.cfg` | violation | A failed or earlier `init(process_sets="dynamic")` leaves dynamic mode on for a later `init()` that did not ask for it. |
| basics_reinit | `MC_HorovodBasics_reinit.cfg` | violation | `InitRefusedWhenInitialized`, an action property: `init` on an initialised process must not return normally. A second `init` returns None, and the engine ignores its arguments. |
| basics_notinit | `MC_HorovodBasics_notinit.cfg` | violation | `NotInitializedBeforeInit`, an action property: a call that needs an initialised engine, made before init, must raise the not-initialised error. `mpi_threads_supported()` raises "MPI is not enabled" instead. |
| job | `MC_HorovodJob.cfg` | pass | Three processes with the same `init` arguments pass the barrier and run the same add/remove script at their own pace. `TypeOK` checks that every engine's communicator and table stay within the job's ranks. |
| get_process_sets | `MC_GetProcessSets.cfg` | pass | Under concurrent add/remove, every returned entry is accurate, no stable set is missing, and an error is raised only when the table really changed. |
| get_process_sets_snapshot | `MC_GetProcessSets_snapshot.cfg` | violation | The returned dict need not be any table that ever existed. |
| static_init | `MC_ProcessSetsStatic.cfg` | pass | `ArraysCarrySets`: the engine's offset/size reading of the three arrays of lines 67-73 gives back exactly the sets each process passed. This includes a set that names a rank twice. |

The basics run covers these calls:

- init in every argument shape;
- shutdown, the queries, add and remove;
- interpreter exit.

It checks them with MPI built or not, and with either controller where the build
allows it.

### Findings

- **`basics.py:100`: `init` with one communicator raises TypeError.** Line 60 wraps a
  single `mpi4py.MPI.Comm` in a list, and line 100 calls `MPI._addressof(comm)` on the
  list instead of on `comm[0]`. mpi4py's `_addressof` accepts only MPI objects.
  - The trace: `init([h2])` in a build with MPI raises TypeError, and the engine
    stays down.
  - By then line 65 may have set the dynamic-mode variable, and line 75 has registered
    `atexit`.
  - The docstring (lines 40-45) and spec sections 3 and 4.1 say a single handle becomes
    the global communicator.

- **`basics.py:65`: dynamic mode leaks.** The environment variable is set before comm is
  validated, and it is never unset.
  - The trace: `init([h1, 0], "dynamic")` raises ConfigurationError. The next `init()`
    then comes up with `dynamic = TRUE`. `add_process_set` now succeeds where the spec
    (sections 7 and 8) says it fails with DynamicModeDisabled.
  - The same happens after `shutdown()` and a re-init.
- **`basics.py:406-408`: `get_process_sets` can return a table that never existed.**
  The id array is sized by a count taken in an earlier call.
  - The trace: a set is added; `num = 2` is read; two more sets are added; set 1 is
    removed; the ids are copied, truncated to `<<0, 2>>`.
  - The returned dict `{0, 2}` never existed. Spec section 4.3 asks for a
    ConsistencyError instead.
  - If the sets were only added, the write overflows the array: this is undefined
    behaviour.

- **`basics.py:243`: `mpi_threads_supported` before init.** The method asks
  `horovod_mpi_enabled()` first, and that is false before init. So the method raises
  "MPI is not enabled", and its "not initialized" branch (lines 249-251) is dead code.
  Spec sections 4.4 and 8 require the not-initialised error before `init()`.
  Without `mpi_threads_supported` the same property holds for every other query.
- **`basics.py:79`: a second `init` is silently ignored.** `init` never looks at the
  initialisation state.
  - The trace: `init()` brings the engine up. A second `init()` then calls
    `horovod_init`, which does nothing, and returns None.
  - With other arguments, the new `comm` and `process_sets` are dropped without an
    error, and another `atexit` handler is registered.
  - Spec section 4.4 makes `init` require Uninitialized, and section 4.2 says this layer
    checks the initialisation state.

## Bounds

The bounds were chosen so that the interesting cases happen.

- **Basics.**
  - `WorldSize = 3`, `Self = 1`, `MaxId = 4`, `MaxInits = 3`.
  - Two handles: `h1` over {0,1,2} (the world) and `h2` over {1,2}.
  - Comm arguments: none, `[1,0]`, `[h2]`, `[h1,h2]` and the mixed `[h1,0]`.
  - The build: MPI built or not, chosen in the initial state.
  - Process-set arguments:
    - `[[0],[1,2],[2,1,0],[0]]` (the test's list, with a duplicate and a global-set
      entry);
    - `[[1,0]]`, where the sets do not fit a 2-process global communicator.
  - Add arguments: `[1,0]` and `[2]`.
  - These reach every sentinel: not initialised, not dynamic, Gloo, unknown id and not a
    member. They also reach init after shutdown and three `atexit` registrations.
- **GetProcessSets.** `MaxId = 4` lets three sets be added after the count, so the
  array can both overflow and be left with zero tails. Removals make ids disappear
  between the calls of one read.
- **ProcessSetsStatic.**
  - 3 processes, each of which chooses any permutation of every entry.
  - The base lists are:
    - the test's;
    - one with a set whose memberships coincide in different orders;
    - one with a set that names rank 2 twice. This is where the sizes array must count
      members as given.

- **HorovodJob.**
  - 3 processes. Comm is None or the world in another order (`<<2,0,1>>`).
  - process_sets is "dynamic", None, or initial sets with a duplicate.
  - The launcher's variable is set or not, the same on every process.
  - The script: add `[2,1]`, remove 1, remove 0, add `[0,2]`. A process that has run
    the whole script holds id 2 while another still holds id 1, so a reused id would
    show.

## Fairness

No run checks a liveness property, and no specification assumes fairness. Each method
of the Python layer is a bounded sequence of engine calls, with no loop that must make
progress. The only wait is the `horovod_init` barrier. Spec section 4.2 makes its
progress a caller obligation: every process calls `init`. Under that obligation, the
barrier returning follows from the model's own definition of the barrier and says
nothing about `basics.py`.

## Not modelled

- Loading the library (`__init__`, lines 27-33). This is I/O.
- The collective data-transfer operations and GPU kernels. They are outside this file.
- The byte layout of communicator handles, which is ctypes detail.
- The exact text of error messages.
- Cross-process agreement on dynamic ids (spec section 5) and the `horovod_init`
  deadlock when a process does not call `init` (spec section 4.2). Both are caller
  obligations, and the layer does nothing about them. The id assignment and the
  barrier belong to the engine, which is not in this repository. A property about
  them over processes that keep the obligation would hold by construction.
- How `comm_process_set` matches a communicator with a registered set. This happens
  inside the engine; `basics.py` only translates the sentinels.

## Plan

What remains:
1. **Processes whose arguments differ.** Run `HorovodJob` with processes whose
   environment or `init` arguments differ, for example a process whose dynamic-mode
   variable leaked from an earlier failed `init`. This shows what the leak of
   `basics.py:65` does to a job.
