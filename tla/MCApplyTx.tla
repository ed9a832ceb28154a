----------------------------- MODULE MCApplyTx ------------------------------
(***************************************************************************)
(* ApplyTx for TLC: paths below each other.                                *)
(***************************************************************************)
EXTENDS ApplyTx

NestedPaths == {"a", "a/b"}
NestedAbove == [p \in NestedPaths |-> IF p = "a/b" THEN {"a"} ELSE {}]

DeepPaths == {"a", "a/b", "a/b/c"}
DeepAbove == [p \in DeepPaths |-> CASE p = "a" -> {} [] p = "a/b" -> {"a"}
                                    [] OTHER -> {"a", "a/b"}]
=============================================================================
