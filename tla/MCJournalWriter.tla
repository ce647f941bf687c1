--------------------------- MODULE MCJournalWriter ---------------------------
(* A fork above the base block: a3 and b3 on a2. *)
EXTENDS JournalWriter

MCBlock == {"g", "a1", "a2", "a3", "b3"}
MCParent == [g |-> "g", a1 |-> "g", a2 |-> "a1", a3 |-> "a2", b3 |-> "a2"]
MCHeight == [g |-> 0, a1 |-> 1, a2 |-> 2, a3 |-> 3, b3 |-> 3]
MCAncestors == [g |-> {"g"}, a1 |-> {"g", "a1"}, a2 |-> {"g", "a1", "a2"},
                a3 |-> {"g", "a1", "a2", "a3"}, b3 |-> {"g", "a1", "a2", "b3"}]
=============================================================================
