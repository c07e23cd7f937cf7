---------------------------- MODULE MCContextView ----------------------------
(* The instance of ContextView that TLC checks. *)
EXTENDS ContextView

\* A tool with short and long results, one whose results are never compacted, and two
\* skills whose instructions do not fit together.
SomeTools == ("grep" :> {3}) @@ ("task" :> {2}) @@ ("s" :> {2}) @@ ("t" :> {2})

\* Two skills in one batch may be activated in either order; no call passes the barrier
\* of "task".
SomeBatches == {<<"grep">>, <<"s", "t">>, <<"grep", "s">>, <<"task", "grep">>}

\* The ids of the calls are interchangeable.
Symmetry == Permutations(Ids)

================================================================================
