-------------------------- MODULE MCNestedWorkflows --------------------------
\* Small instances of NestedWorkflows for TLC.
EXTENDS NestedWorkflows

\* Two calls of the run, the first of which makes a call of its own; or both of which do.
OneNested == {<<0>>, <<1>>, <<0, 0>>}
TwoNested == {<<0>>, <<1>>, <<0, 0>>, <<1, 0>>}

\* The run "main" calls "left" and "right"; both call "leaf".
Names == [s \in Scripts |-> IF s = <<>> THEN "main" ELSE
            IF Len(s) = 2 THEN "leaf" ELSE IF s = <<0>> THEN "left" ELSE "right"]
Keys == [s \in Sites |-> Names[s]]

None == {}
Leaves == {s \in Sites : Len(s) = 2}
Inner == {<<0, 0>>}
=============================================================================
