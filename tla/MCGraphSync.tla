---------------------------- MODULE MCGraphSync ----------------------------
(* Contents that call a function, define it, or do both; two have one size. *)
EXTENDS GraphSync, TLC

CONSTANTS f1, f2, f3, w1, w2, caller, definer, both, garbage, fn, main, topic

MCNames == {fn}
TwoFiles == {f1, f2}
ThreeFiles == {f1, f2, f3}
OneWorker == {w1}
TwoWorkers == {w1, w2}
TwoContents == {caller, definer}
ThreeContents == {caller, definer, both}
OneBranch == {main}
TwoBranches == {main, topic}

MCSizeOf == [c \in Sources |-> IF c = caller THEN 1 ELSE 2]
MCDefines == [c \in Contents |-> IF c = caller THEN {} ELSE {fn}]
MCCalls == [c \in Contents |-> IF c = definer THEN {} ELSE {fn}]

Interchangeable == Permutations(Files) \union Permutations(Workers)
=============================================================================
