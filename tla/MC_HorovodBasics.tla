-------------------------- MODULE MC_HorovodBasics --------------------------
(* Three world ranks; the modelled process is world rank 1, so its Horovod *)
(* rank differs from its position in most comm arguments.  Handle h1 is   *)
(* the whole world, h2 the ranks {1, 2}.                                    *)
EXTENDS HorovodBasics

CONSTANTS h1, h2

MCHandleGroup == (h1 :> {0, 1, 2}) @@ (h2 :> {1, 2})

\* None, the rank list [1, 0], one handle, two handles, a mixed list.
MCCommArgs == {<<>>, <<1, 0>>, <<h2>>, <<h1, h2>>, <<h1, 0>>}

\* The process sets of spec section 8 and test_process_sets_static.py, and
\* one set that covers the global set of [1, 0].
MCProcessSetsArgs == {<<<<0>>, <<1, 2>>, <<2, 1, 0>>, <<0>>>>, <<<<1, 0>>>>}

MCAddArgs == {<<1, 0>>, <<2>>}

MCBuilt == [f \in {"gloo_built", "nccl_built", "cuda_built"} |-> FALSE]
=============================================================================
