---------------------------- MODULE MCChainstate ----------------------------
(* Chainstate on a tree of two branches: g - a1 - a2 - a3 and a1 - b2 - b3. *)
EXTENDS Chainstate

MCBlock == {"g", "a1", "a2", "a3", "b2", "b3"}

MCParent == [b \in MCBlock |->
    CASE b = "a2" -> "a1" [] b = "a3" -> "a2"
      [] b = "b2" -> "a1" [] b = "b3" -> "b2"
      [] OTHER -> "g"]

MCHeight == [b \in MCBlock |->
    CASE b = "g" -> 0 [] b = "a1" -> 1 [] b \in {"a2", "b2"} -> 2 [] OTHER -> 3]

MCAncestors == [b \in MCBlock |->
    CASE b = "g" -> {"g"}
      [] b = "a1" -> {"g", "a1"}
      [] b = "a2" -> {"g", "a1", "a2"}
      [] b = "a3" -> {"g", "a1", "a2", "a3"}
      [] b = "b2" -> {"g", "a1", "b2"}
      [] b = "b3" -> {"g", "a1", "b2", "b3"}]
=============================================================================
