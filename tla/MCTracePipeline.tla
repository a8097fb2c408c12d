-------------------------- MODULE MCTracePipeline --------------------------
(***************************************************************************)
(* Small instances of TracePipeline. The paths are those of an API with    *)
(* one parameterized endpoint: /user/1 and /user/2 become /user/{param1},  *)
(* whose regex also matches /user/list, an endpoint of its own.            *)
(***************************************************************************)
EXTENDS TracePipeline, TLC

CONSTANTS u1, u2, list, param, bad, t1, t2, t3, t4

MCPath == {u1, u2, list, param, bad}
MCBadPath == {bad}
MCParameterize == (u1 :> param) @@ (u2 :> param) @@ (param :> param)
                    @@ (list :> list) @@ (bad :> bad)
MCRegex == {<<param, u1>>, <<param, u2>>, <<param, list>>, <<param, param>>,
            <<list, list>>}
MCNumParams == [p \in MCPath |-> IF p = param THEN 1 ELSE 0]
MCSuspected == [p \in MCPath |-> IF p \in {list, bad} THEN 0 ELSE 1]

\* Two calls race for /user/{param1}, two for /user/list.
RacePaths == (t1 :> u1) @@ (t2 :> u2) @@ (t3 :> list) @@ (t4 :> list)
\* Calls with different fates: fine, 404 for t2, refused path, fine.
QueuePaths == (t1 :> u1) @@ (t2 :> list) @@ (t3 :> bad) @@ (t4 :> list)

Symmetry == Permutations(Collector) \cup Permutations(Analyzer)
=============================================================================
