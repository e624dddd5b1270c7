--------------------------- MODULE MCStackLabels ---------------------------
EXTENDS StackLabels

(* Two stacks of one namespace; the second name is the first one doubled, *)
(* so one is a prefix of the other.                                       *)
MCStackNames == {<<"a">>, <<"a", "a">>}

====
