------------------------- MODULE MC_ProcessSetsStatic -------------------------
EXTENDS ProcessSetsStatic

\* The lists of spec section 8 / test_process_sets_static.py for three
\* ranks, a list whose third entry repeats its first, and a list with a
\* set that names one rank twice.
MCBaseLists == {<<<<0>>, <<1, 2>>, <<2, 1, 0>>, <<0>>>>,
                <<<<1, 0>>, <<2>>, <<0, 1>>>>,
                <<<<2, 2>>, <<0, 1>>>>}
=============================================================================
