------------------------------- MODULE MCWorker -------------------------------
(* Small instances of a worker process's parts for TLC.  A behaviour is about *)
(* its bridge, about its clients (around the same engine), about the tool     *)
(* activity and its spans, or about its runtime; the rest stays as it is.     *)
EXTENDS Runner, ToolActivity, OdoriRuntime, TLC

VARIABLE scene

bridge_vars == <<vars, runner_vars>>
all_vars == <<bridge_vars, tool_vars, runtime_vars, scene>>

MCInit ==
  /\ RunnerInit
  /\ ToolIdle
  /\ RuntimeIdle
  /\ scene \in {"bridge", "clients", "tools", "runtime"}
  /\ scene # "tools" => ~tool.ceiling

BridgeScene ==
  scene = "bridge" /\ Next /\ UNCHANGED <<runner_vars, tool_vars, runtime_vars>>
ClientScene ==
  scene = "clients" /\ RunnerNext /\ UNCHANGED <<tool_vars, runtime_vars>>
ToolScene ==
  scene = "tools" /\ ToolNext /\ UNCHANGED <<bridge_vars, runtime_vars>>
RuntimeScene ==
  scene = "runtime" /\ RuntimeNext /\ UNCHANGED <<bridge_vars, tool_vars>>

MCNext ==
  /\ BridgeScene \/ ClientScene \/ ToolScene \/ RuntimeScene
  /\ UNCHANGED scene

MCSpec ==
  /\ MCInit /\ [][MCNext]_all_vars
  /\ BridgeFairness
  /\ RunnerFairness

\* Types of the clients', the tool activity's and the runtime's state; that no
\* span is registered in the other tier's registry is part of it (runner.rs,
\* telemetry.rs, odori-engine).
ComponentTypes == RunnerTypes /\ ToolTypes /\ RuntimeTypes
=============================================================================
