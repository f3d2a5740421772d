--------------------------- MODULE GetProcessSets ---------------------------
(***************************************************************************)
(* get_process_sets() (basics.py lines 404-419) reads the process-set      *)
(* table in separate engine calls: the number of sets, the id list into an *)
(* array sized by that number, then for each id its size and its ranks     *)
(* into an array sized by that size.  Another Python thread of the same    *)
(* process may meanwhile complete add_process_set / remove_process_set     *)
(* (ctypes releases the GIL during every foreign call), so the table can   *)
(* change between any two of these calls.                                  *)
(*                                                                         *)
(* The reader thread takes one step per engine call; the mutator thread    *)
(* adds and removes sets.  The engine is up, MPI-controlled and in dynamic *)
(* mode, as after init(process_sets="dynamic").  The engine writes the ids *)
(* in increasing order (they are handed out increasing, never reused).     *)
(***************************************************************************)
EXTENDS HorovodEngine

CONSTANTS
  AddArgs       \* rank lists the mutator thread adds

VARIABLES
  rpc,       \* reader: "idle" | "ids" | "size" | "ranks" | "crashed"
  num,       \* horovod_get_number_of_process_sets() as read
  idsArr,    \* ids_array: num ints, zero-initialised by ctypes
  idx,       \* position of the loop over ids_array
  psSize,    \* ps_size of the current id
  acc,       \* the dict ret being built
  result,    \* outcome of the last finished get_process_sets()
  seen,      \* history: every table the current read has overlapped
  everReg    \* history: id -> members, for every id ever registered

readerVars == <<rpc, num, idsArr, idx, psSize, acc, result, seen>>
vars == <<engineVars, readerVars, everReg>>

\* The engine's ids in the order horovod_get_process_set_ids writes them.
IdList == SetToSortSeq(DOMAIN registry, <)

\* Mutant: an array left uninitialised instead of ctypes' zero fill.
Garbage(n) == [i \in 1..n |-> -1]
\* (ctypes.c_int * n)(): n zero ints (lines 407 and 414).
Zeros(n) == [i \in 1..n |-> 0]

Init ==
  /\ state = "init" /\ controller = "MPI" /\ dynamic = TRUE /\ timeline = FALSE
  /\ globalRanks = [r \in 1..WorldSize |-> r - 1]
  /\ registry = (0 :> globalRanks) /\ nextId = 1
  /\ rpc = "idle" /\ num = 0 /\ idsArr = <<>> /\ idx = 0 /\ psSize = 0
  /\ acc = NoSets /\ result = [none |-> TRUE] /\ seen = {}
  /\ everReg = registry

\* The read ends: with the dict, or with the RuntimeError of lines 413/417.
Finish(out) ==
  /\ rpc' = "idle"
  /\ result' = out @@ [seen |-> seen]
  /\ UNCHANGED <<num, idsArr, idx, psSize, acc, seen>>

(***************************************************************************)
(* Reader thread.                                                          *)
(***************************************************************************)

\* Mutant: the id array sized one short (the global set left out of the count).
CountSetsOffByOne ==
  /\ rpc = "idle"
  /\ rpc' = "ids"
  /\ num' = Cardinality(DOMAIN registry) - 1
  /\ seen' = {registry}
  /\ acc' = NoSets
  /\ UNCHANGED <<engineVars, everReg, idsArr, idx, psSize, result>>

\* Line 406: num = horovod_get_number_of_process_sets().
CountSets ==
  /\ rpc = "idle"
  /\ rpc' = "ids"
  /\ num' = Cardinality(DOMAIN registry)
  /\ seen' = {registry}
  /\ acc' = NoSets
  /\ UNCHANGED <<engineVars, everReg, idsArr, idx, psSize, result>>

\* Lines 407-408: the engine copies all of its ids into an array of num
\* ints.  When sets were added since line 406 it writes past the end of
\* the array; that undefined behaviour either corrupts memory unnoticed,
\* leaving the first num ids in the array, or crashes the process.
\* The loop of line 410 over the array; it returns {} at once when num = 0.
StartLoop(arr) ==
  /\ idsArr' = arr
  /\ idx' = 1
  /\ IF num = 0 THEN rpc' = "idle" /\ result' = [dict |-> NoSets, seen |-> seen]
     ELSE rpc' = "size" /\ UNCHANGED result

GetIds ==
  /\ rpc = "ids"
  /\ \/ Len(IdList) <= num /\ StartLoop(IdList \o Zeros(num - Len(IdList)))
     \/ Len(IdList) > num /\ StartLoop(SubSeq(IdList, 1, num))
     \/ /\ Len(IdList) > num
        /\ rpc' = "crashed" /\ result' = [crash |-> TRUE, seen |-> seen]
        /\ UNCHANGED <<idsArr, idx>>
  /\ UNCHANGED <<engineVars, everReg, num, psSize, acc, seen>>

\* Lines 411-413: ps_size = horovod_get_process_set_size(ps_id).
GetSize ==
  LET id == idsArr[idx] IN
  /\ rpc = "size"
  /\ IF id \in DOMAIN registry
     THEN /\ psSize' = Len(registry[id]) /\ rpc' = "ranks"
          /\ UNCHANGED <<num, idsArr, idx, acc, result, seen>>
     ELSE Finish([err |-> "ConsistencyError"])
  /\ UNCHANGED <<engineVars, everReg>>

\* Mutant: the check of res on line 416 left out.
GetRanksNoCheck ==
  LET id == idsArr[idx]
      ranks == IF id \in DOMAIN registry THEN registry[id] ELSE Zeros(psSize)
      acc2 == (id :> ranks) @@ acc
  IN /\ rpc = "ranks"
     /\ acc' = acc2
     /\ IF idx = num THEN rpc' = "idle" /\ result' = [dict |-> acc2, seen |-> seen] /\ UNCHANGED idx
        ELSE rpc' = "size" /\ idx' = idx + 1 /\ UNCHANGED result
     /\ UNCHANGED <<engineVars, everReg, num, idsArr, psSize, seen>>

\* Mutant: line 416 tests res <= 0, and the engine returns 0 on success.
GetRanksLeqCheck ==
  /\ rpc = "ranks"
  /\ Finish([err |-> "ConsistencyError"])
  /\ UNCHANGED <<engineVars, everReg>>

\* Lines 415-418: res = horovod_get_process_set_ranks(ps_id, ranks_array);
\* the sets of an id never change, so the ranks fit the array sized by
\* ps_size.  ret[ps_id] overwrites the entry of an id already seen.
GetRanks ==
  LET id == idsArr[idx]
      acc2 == (id :> registry[id]) @@ acc
  IN /\ rpc = "ranks"
     /\ IF id \notin DOMAIN registry
        THEN Finish([err |-> "ConsistencyError"])
        ELSE /\ acc' = acc2
             /\ IF idx = num
                THEN rpc' = "idle" /\ result' = [dict |-> acc2, seen |-> seen] /\ UNCHANGED idx
                ELSE rpc' = "size" /\ idx' = idx + 1 /\ UNCHANGED result
             /\ UNCHANGED <<num, idsArr, psSize, seen>>
     /\ UNCHANGED <<engineVars, everReg>>

(***************************************************************************)
(* Mutator thread: add_process_set / remove_process_set of basics.py       *)
(* completing while the read is in progress.                               *)
(***************************************************************************)
Overlap == seen' = IF rpc = "idle" THEN seen ELSE seen \cup {registry'}

AddSet(ranks) ==
  /\ rpc # "crashed"
  /\ nextId < MaxId
  /\ horovod_add_process_set(ranks)
  /\ everReg' = everReg @@ registry'
  /\ Overlap
  /\ UNCHANGED <<rpc, num, idsArr, idx, psSize, acc, result>>

RemoveSet(id) ==
  /\ rpc # "crashed"
  /\ id # 0
  /\ horovod_remove_process_set(id)
  /\ Overlap
  /\ UNCHANGED <<rpc, num, idsArr, idx, psSize, acc, result, everReg>>

Next ==
  \/ CountSets \/ GetIds \/ GetSize \/ GetRanks
  \/ \E r \in AddArgs : AddSet(r)
  \/ \E id \in DOMAIN registry : RemoveSet(id)

Spec == Init /\ [][Next]_vars

-----------------------------------------------------------------------------

TypeOK ==
  /\ rpc \in {"idle", "ids", "size", "ranks", "crashed"}
  /\ num \in 0..MaxId + 1 /\ idsArr \in Seq(0..MaxId) /\ idx \in 0..MaxId + 1
  /\ DOMAIN registry \subseteq 0..MaxId /\ nextId \in 1..MaxId
  /\ DOMAIN acc \subseteq 0..MaxId
  /\ DOMAIN result \in {{"none"}, {"dict", "seen"}, {"err", "seen"}, {"crash", "seen"}}

\* Every entry get_process_sets() returns is a set that really was
\* registered, with the members the engine gave it: a set removed between
\* lines 411 and 415 never shows up with the zeros of an unfilled array.
ReturnedEntriesAccurate ==
  "dict" \in DOMAIN result =>
    \A id \in DOMAIN result.dict : id \in DOMAIN everReg /\ result.dict[id] = everReg[id]

\* A set registered during the whole of a get_process_sets() call is in
\* the dict it returns, even when other sets came and went meanwhile.
NoStableSetMissing ==
  "dict" \in DOMAIN result =>
    \A id \in 0..MaxId : (\A t \in result.seen : id \in DOMAIN t) => id \in DOMAIN result.dict

\* get_process_sets() raises "Process set table was modified outside of
\* get_process_sets()" only when the table did change during the call.
ErrorOnlyOnConcurrentChange ==
  "err" \in DOMAIN result => Cardinality(result.seen) > 1

\* What get_process_sets() returns is the table as it was at some moment
\* of the call; otherwise it raises (spec section 4.3: a concurrent change
\* must raise ConsistencyError rather than return partial data).
ReadIsSnapshot ==
  "dict" \in DOMAIN result => result.dict \in result.seen
=============================================================================
