--------------------- MODULE MCThanosQuerierController ---------------------
(* Two queriers, two stacks in two namespaces, two label values.  q1      *)
(* admits both namespaces, q2 only the first, so the namespace predicate  *)
(* drops a selected stack.                                                 *)
EXTENDS ThanosQuerierController

CONSTANTS q1, q2, s1, s2

MCQueriers == {q1, q2}
MCStacks == {s1, s2}
MCLabels == {"a", "b"}
MCAllSelectors == MCLabels \cup {"bad"}
MCStackNs == [s \in MCStacks |-> IF s = s1 THEN "n1" ELSE "n2"]
MCNsSel == [q \in MCQueriers |-> IF q = q1 THEN {"n1", "n2"} ELSE {"n1"}]
MCMaxExternal == 3
MCMaxFaults == 1
=============================================================================
