---------------------------- MODULE OdoriRuntime ----------------------------
(***************************************************************************)
(* The life of a worker process's runtime (crates/odori-engine/src/lib.rs):*)
(* `start` connects, starts the bridge, spawns the worker thread and waits *)
(* for its readiness; `shutdown` asks the worker to stop and joins its     *)
(* thread.  The thread and the caller share a oneshot channel only.  A     *)
(* caller may drop `start`, `shutdown` or the runtime at any await.        *)
(* The connection, the SDK's worker and the bridge's server are external.  *)
(***************************************************************************)

VARIABLES
  starter,        \* the caller: where it is in start, running, and shutdown
  worker,         \* the worker thread: none, assembling, serving, ended
  ready,          \* the oneshot: empty, sent, dropped by the thread
  asked,          \* the worker was asked to stop
  worker_result,  \* what the thread ended with
  joined,         \* what shutdown returned
  bridge_up       \* the bridge's server accepts connections

runtime_vars == <<starter, worker, ready, asked, worker_result, joined, bridge_up>>

Ended == {"none", "ok", "error", "panic"}

RuntimeIdle ==
  /\ starter = "building"
  /\ worker = "none"
  /\ ready = "empty"
  /\ asked = FALSE
  /\ worker_result = "none"
  /\ joined = "none"
  /\ bridge_up = FALSE

-----------------------------------------------------------------------------
(* start. *)

StarterGoes(from, to) ==
  /\ starter = from
  /\ starter' = to
  /\ UNCHANGED <<ready, asked, worker_result, joined>>

\* A target or the providers are missing, or the endpoint does not answer.
ConnectFails == StarterGoes("building", "failed") /\ UNCHANGED <<worker, bridge_up>>
Connects == StarterGoes("building", "connected") /\ UNCHANGED <<worker, bridge_up>>

\* Its configuration is refused, or no port is free.
BridgeRefused == StarterGoes("connected", "failed") /\ UNCHANGED <<worker, bridge_up>>

\* With a bridge configured, or without.
Attaches(configured) ==
  /\ StarterGoes("connected", "bridged")
  /\ bridge_up' = configured
  /\ UNCHANGED worker

SpawnWorkerFails == StarterGoes("bridged", "failed") /\ UNCHANGED <<worker, bridge_up>>
SpawnWorker ==
  /\ StarterGoes("bridged", "spawned")
  /\ worker' = "assembling"
  /\ UNCHANGED bridge_up

ReceivesReady ==
  /\ ready = "sent"
  /\ StarterGoes("spawned", "running")
  /\ UNCHANGED <<worker, bridge_up>>

ReadyLost ==
  /\ ready = "dropped"
  /\ StarterGoes("spawned", "failed")
  /\ UNCHANGED <<worker, bridge_up>>

\* start or shutdown dropped where it awaits, or the runtime dropped.
Abandons ==
  /\ starter \in {"building", "connected", "spawned", "running", "stopping"}
  /\ StarterGoes(starter, "gone")
  /\ UNCHANGED <<worker, bridge_up>>

-----------------------------------------------------------------------------
(* The worker thread. *)

\* The thread is over, and what it held of the oneshot with it.
WorkerEnds(with) ==
  /\ worker' = "ended"
  /\ worker_result' = with
  /\ ready' = IF ready = "empty" THEN "dropped" ELSE ready
  /\ UNCHANGED <<starter, asked, joined, bridge_up>>

\* No runtime, a registration or an SDK worker refused.
AssembleFails == worker = "assembling" /\ WorkerEnds("error")

WorkerReady ==
  /\ worker = "assembling"
  /\ starter = "spawned"
  /\ worker' = "serving"
  /\ ready' = "sent"
  /\ UNCHANGED <<starter, asked, worker_result, joined, bridge_up>>

\* The starter gave up: nothing to serve.
NobodyToServe ==
  /\ worker = "assembling"
  /\ starter # "spawned"
  /\ WorkerEnds("ok")

WorkerFails == worker = "serving" /\ WorkerEnds("error")
WorkerPanics == worker \in {"assembling", "serving"} /\ WorkerEnds("panic")

\* worker.run returns once asked, with its polls drained.
WorkerDrains ==
  /\ worker = "serving"
  /\ asked
  /\ WorkerEnds("ok")

-----------------------------------------------------------------------------
(* shutdown. *)

AsksToStop ==
  /\ starter = "running"
  /\ starter' = "stopping"
  /\ asked' = TRUE
  /\ UNCHANGED <<worker, ready, worker_result, joined, bridge_up>>

\* Wrong on purpose: asked is as good as stopped.
JoinsAtOnce ==
  /\ starter = "stopping"
  /\ starter' = "stopped"
  /\ joined' = IF worker_result \in {"none", "ok"} THEN "ok" ELSE "error"
  /\ UNCHANGED <<worker, ready, asked, worker_result, bridge_up>>

\* The bridge's server is left as it is.
JoinsWorker ==
  /\ starter = "stopping"
  /\ worker = "ended"
  /\ starter' = "stopped"
  /\ joined' = IF worker_result = "ok" THEN "ok" ELSE "error"
  /\ UNCHANGED <<worker, ready, asked, worker_result, bridge_up>>

RuntimeNext ==
  \/ ConnectFails
  \/ Connects
  \/ BridgeRefused
  \/ \E configured \in BOOLEAN : Attaches(configured)
  \/ SpawnWorkerFails
  \/ SpawnWorker
  \/ ReceivesReady
  \/ ReadyLost
  \/ Abandons
  \/ AssembleFails
  \/ WorkerReady
  \/ NobodyToServe
  \/ WorkerFails
  \/ WorkerPanics
  \/ WorkerDrains
  \/ AsksToStop
  \/ JoinsWorker

RuntimeSpec == RuntimeIdle /\ [][RuntimeNext]_runtime_vars

-----------------------------------------------------------------------------
(* Properties. *)

RuntimeTypes ==
  /\ starter \in {"building", "connected", "bridged", "spawned", "running", "stopping",
                  "stopped", "failed", "gone"}
  /\ worker \in {"none", "assembling", "serving", "ended"}
  /\ ready \in {"empty", "sent", "dropped"}
  /\ asked \in BOOLEAN
  /\ worker_result \in Ended
  /\ joined \in {"none", "ok", "error"}
  /\ bridge_up \in BOOLEAN

\* A start that failed and a shutdown that returned leave no worker behind, and
\* the shutdown says how the worker ended, also when it ended before it was
\* asked; only a caller that walks away leaves one serving (odori-engine
\* OdoriRuntimeBuilder::start, OdoriRuntime::shutdown: "await its drain").
NoWorkerLeft ==
  /\ starter \in {"failed", "stopped"} => worker \in {"none", "ended"}
  /\ starter = "stopped" => (joined = "ok" <=> worker_result = "ok")
=============================================================================
