------------------------------ MODULE MCEngine ------------------------------
(***************************************************************************)
(* Configurations of Engine in which pipelines are refilled, over two      *)
(* connections and over a deep one, and one with room for all requests.    *)
(***************************************************************************)
EXTENDS Engine

CONSTANTS n1, n2

Config(connections, depth, requests) ==
    [connections |-> connections, pipeline_depth |-> depth, requests |-> requests]

MCConfigs == {Config({n1, n2}, 1, 3), Config({n1}, 2, 3), Config({n1, n2}, 2, 2)}
=============================================================================
