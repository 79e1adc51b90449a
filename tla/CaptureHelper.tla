---------------------------- MODULE CaptureHelper ----------------------------
(***************************************************************************)
(* The Swift capture helper: HelperCommandLoop reads one command at a time *)
(* from the socket, CaptureSessionController is an actor that other tasks  *)
(* re-enter at every await, MicrophoneCapture rebuilds its engine after a  *)
(* device change (AudioEngineRecovery), SystemAudioCapture only reports.   *)
(* A step is what happens between two awaits.  The socket is two FIFO      *)
(* pipes: cmds to the helper, evts from it.                                *)
(***************************************************************************)
EXTENDS Naturals, Sequences

CONSTANTS Requested,   \* the sources of the start command
          MaxChanges,  \* bound: device changes of the microphone
          MaxFrames,   \* bound: bursts of audio the sources deliver
          BurstLimit   \* recoveryBurstLimit: attempts in one window

ASSUME HelperAssumption ==
    /\ Requested \subseteq {"microphone", "systemAudio"} /\ Requested # {}
    /\ MaxChanges \in Nat /\ MaxFrames \in Nat /\ BurstLimit \in Nat \ {0}

VARIABLES
    cmds,       \* commands written by the app and not read yet
    evts,       \* events written by the helper and not read yet
    loop,       \* HelperCommandLifecycleState, "gone" once the process ended
    task,       \* the command being executed and the sources it still has to visit
    enabled,    \* CaptureSessionController.enabledSources
    ctlState,   \* CaptureControllerState
    engine,     \* per source: "off", "on", "paused", "dead" (stopped by the system)
    mic,        \* MicrophoneCapture.RuntimeState
    unsealed,   \* per source: the encoder holds frames of an open chunk
    rec,        \* AudioEngineRecovery and the attempt under way
    bounds,     \* what is left of the bounds
    sealed      \* per source: chunk_sealed events written so far

helperVars == <<cmds, evts, loop, task, enabled, ctlState, engine, mic, unsealed, rec, bounds, sealed>>

Source == {"microphone", "systemAudio"}
Mic == "microphone"
Sys == "systemAudio"
sourceOrder(S) == (IF Mic \in S THEN <<Mic>> ELSE <<>>) \o (IF Sys \in S THEN <<Sys>> ELSE <<>>)

Resting == [op |-> "read", todo |-> <<>>]
NoAttempt == [gen |-> 0, stage |-> "none", mine |-> 0, active |-> FALSE, starts |-> 0]
IdleMic == [running |-> FALSE, published |-> FALSE, path |-> FALSE, terminal |-> FALSE]

HelperInit ==
    /\ cmds = <<>> /\ evts = <<>> /\ loop = "awaiting" /\ task = Resting
    /\ enabled = {} /\ ctlState = "idle"
    /\ engine = [s \in Source |-> "off"] /\ mic = IdleMic
    /\ unsealed = [s \in Source |-> FALSE] /\ rec = NoAttempt
    /\ bounds = [changes |-> MaxChanges, frames |-> MaxFrames, faults |-> 1]
    /\ sealed = [s \in Source |-> 0]

Alive == loop # "gone"
Event(type, s, n) == [type |-> type, source |-> s, n |-> n]
Fatal == Event("fatal", Mic, 0)

\* encoder.sealForDiscontinuity() and SocketChunkSink: an open chunk is sealed and announced.
SealOf(S) == [i \in 1 .. Len(sourceOrder({s \in S : unsealed[s]})) |->
                 Event("sealed", sourceOrder({s \in S : unsealed[s]})[i], 0)]
SealAll(S) ==
    /\ unsealed' = [s \in Source |-> unsealed[s] /\ s \notin S]
    /\ sealed' = [s \in Source |-> sealed[s] + (IF s \in S /\ unsealed[s] THEN 1 ELSE 0)]

\* AudioEngineRecovery.cancel(), called by MicrophoneCapture.stop().
CancelledRecovery == [rec EXCEPT !.gen = @ + 1, !.active = FALSE,
                                 !.stage = IF @ = "waiting" THEN "none" ELSE @]

\* adapter.stop() of every source in S: engines off, frames drained and sealed.
\* The microphone drains and seals only if it was running.
Drained(S) == {s \in S : s = Mic => mic.running}
StopAdapters(S) ==
    /\ engine' = [s \in Source |-> IF s \in S THEN "off" ELSE engine[s]]
    /\ IF Mic \in S THEN mic' = IdleMic /\ rec' = CancelledRecovery ELSE UNCHANGED <<mic, rec>>
    /\ SealAll(Drained(S))

(***************************************************************************)
(* The command loop.                                                       *)
(***************************************************************************)
Begin(op, todo) == task' = [op |-> op, todo |-> todo]

\* A command that throws: the controller is shut down (its sources stopped and
\* announced), fatal_error is sent and the process returns from run().
Throw ==
    /\ StopAdapters(enabled)
    /\ evts' = evts \o SealOf(Drained(enabled))
                    \o [i \in 1 .. Len(sourceOrder(enabled)) |->
                            Event("stopped", sourceOrder(enabled)[i], 0)]
                    \o <<Fatal>>
    /\ enabled' = {} /\ ctlState' = "stopped" /\ loop' = "gone" /\ task' = Resting
    /\ UNCHANGED <<cmds, bounds>>

ReadCommand ==
    /\ Alive /\ task = Resting /\ cmds # <<>>
    /\ LET c == Head(cmds)
           busy == loop = "capturing"
       IN  \/ /\ c = "start" /\ loop = "awaiting"
              /\ ctlState' = "starting" /\ Begin("start", sourceOrder(Requested))
           \/ /\ c = "pause" /\ busy /\ ctlState = "running"
              /\ Begin("pause", sourceOrder(enabled)) /\ UNCHANGED ctlState
           \/ /\ c = "resume" /\ busy /\ ctlState = "paused"
              /\ Begin("resume", sourceOrder(enabled)) /\ UNCHANGED ctlState
           \/ /\ c = "stop" /\ busy /\ ctlState # "stopped"
              /\ ctlState' = "stopping" /\ Begin("stop", sourceOrder(enabled))
           \/ /\ c = "shutdown"
              /\ ctlState' = IF ctlState = "stopped" THEN "stopped" ELSE "stopping"
              /\ Begin("shutdown", sourceOrder(enabled))
    /\ cmds' = Tail(cmds)
    /\ UNCHANGED <<evts, loop, enabled, engine, mic, unsealed, rec, bounds, sealed>>

\* The guards of the loop and of the controller that the command fails.
RejectCommand ==
    /\ Alive /\ task = Resting /\ cmds # <<>>
    /\ \/ Head(cmds) \in {"pause"} /\ ctlState # "running"
       \/ Head(cmds) \in {"resume"} /\ ctlState # "paused"
    /\ Throw

(* start: every adapter is started, then permission_state and source_started
   are sent, then recovery is enabled (activate). *)
StartAdapter ==
    /\ Alive /\ task.op = "start" /\ task.todo # <<>>
    /\ LET s == Head(task.todo) IN
        /\ engine' = [engine EXCEPT ![s] = "on"]
        /\ mic' = IF s = Mic THEN [IdleMic EXCEPT !.running = TRUE, !.path = TRUE] ELSE mic
        \* MicrophoneCapture.start returns only after a first frame was queued.
        /\ unsealed' = [unsealed EXCEPT ![s] = @ \/ s = Mic]
    /\ Begin("start", Tail(task.todo))
    /\ UNCHANGED <<cmds, evts, loop, enabled, ctlState, rec, bounds, sealed>>

\* preflight, start or metadata of an adapter fails: the started ones are stopped,
\* which seals what they recorded, and the command throws.
StartAdapterFails ==
    /\ Alive /\ task.op \in {"start", "announce"} /\ task.todo # <<>> /\ bounds.faults > 0
    /\ LET started == {s \in Requested : engine[s] # "off"} IN
        /\ StopAdapters(started)
        /\ evts' = evts \o SealOf(Drained(started)) \o <<Fatal>>
    /\ enabled' = {} /\ ctlState' = "stopped" /\ loop' = "gone" /\ task' = Resting
    /\ bounds' = [bounds EXCEPT !.faults = @ - 1] /\ UNCHANGED cmds

Publish ==
    /\ Alive /\ task.op = "start" /\ task.todo = <<>>
    /\ enabled' = Requested /\ ctlState' = "running"
    /\ Begin("announce", sourceOrder(Requested))
    /\ UNCHANGED <<cmds, evts, loop, engine, mic, unsealed, rec, bounds, sealed>>

\* source_started, with the device the adapter is bound to.
Announce ==
    /\ Alive /\ task.op = "announce" /\ task.todo # <<>>
    /\ evts' = Append(evts, Event("started", Head(task.todo), 0))
    /\ Begin("announce", Tail(task.todo))
    /\ UNCHANGED <<cmds, loop, enabled, ctlState, engine, mic, unsealed, rec, bounds, sealed>>

Activate ==
    /\ Alive /\ task.op = "announce" /\ task.todo = <<>>
    /\ mic' = [mic EXCEPT !.published = mic.running]
    /\ loop' = "capturing" /\ task' = Resting
    /\ UNCHANGED <<cmds, evts, enabled, ctlState, engine, unsealed, rec, bounds, sealed>>

\* stopCapture() of a stream that has already stopped throws.
DeadStream(s) == s = Sys /\ engine[s] = "dead"

Pause ==
    /\ Alive /\ task.op = "pause" /\ task.todo # <<>> /\ ~ DeadStream(Head(task.todo))
    /\ engine' = [engine EXCEPT ![Head(task.todo)] = IF @ = "on" THEN "paused" ELSE @]
    /\ Begin("pause", Tail(task.todo))
    /\ UNCHANGED <<cmds, evts, loop, enabled, ctlState, mic, unsealed, rec, bounds, sealed>>

Resume ==
    /\ Alive /\ task.op = "resume" /\ task.todo # <<>>
    /\ engine' = [engine EXCEPT ![Head(task.todo)] = IF @ = "off" THEN @ ELSE "on"]
    /\ Begin("resume", Tail(task.todo))
    /\ UNCHANGED <<cmds, evts, loop, enabled, ctlState, mic, unsealed, rec, bounds, sealed>>

\* stopCapture() or engine.start() throws: stopAfterTransitionFailure, then Throw's shutdown.
TransitionFails ==
    /\ Alive /\ task.op \in {"pause", "resume"} /\ task.todo # <<>>
    /\ IF DeadStream(Head(task.todo)) THEN UNCHANGED bounds
       ELSE bounds.faults > 0 /\ bounds' = [bounds EXCEPT !.faults = @ - 1]
    /\ StopAdapters(enabled)
    /\ evts' = evts \o SealOf(Drained(enabled)) \o <<Fatal>>
    /\ enabled' = {} /\ ctlState' = "stopped" /\ loop' = "gone" /\ task' = Resting
    /\ UNCHANGED cmds

EndTransition ==
    /\ Alive /\ task.op \in {"pause", "resume"} /\ task.todo = <<>>
    /\ ctlState' = IF task.op = "pause" THEN "paused" ELSE "running"
    /\ task' = Resting
    /\ UNCHANGED <<cmds, evts, loop, enabled, engine, mic, unsealed, rec, bounds, sealed>>

(* stop: adapter.stop() and then source_stopped, source by source. *)
StopAdapter ==
    /\ Alive /\ task.op \in {"stop", "shutdown"} /\ task.todo # <<>>
    /\ LET s == Head(task.todo) IN
        /\ StopAdapters({s})
        /\ evts' = evts \o SealOf(Drained({s}))
        /\ Begin(IF task.op = "stop" THEN "stopped" ELSE "shut", task.todo)
    /\ UNCHANGED <<cmds, loop, enabled, ctlState, bounds>>

AnnounceStopped ==
    /\ Alive /\ task.op \in {"stopped", "shut"}
    /\ evts' = Append(evts, Event("stopped", Head(task.todo), sealed[Head(task.todo)]))
    /\ Begin(IF task.op = "stopped" THEN "stop" ELSE "shutdown", Tail(task.todo))
    /\ UNCHANGED <<cmds, loop, enabled, ctlState, engine, mic, unsealed, rec, bounds, sealed>>

EndStop ==
    /\ Alive /\ task.op = "stop" /\ task.todo = <<>>
    /\ enabled' = {} /\ ctlState' = "stopped" /\ loop' = "stopped" /\ task' = Resting
    /\ UNCHANGED <<cmds, evts, engine, mic, unsealed, rec, bounds, sealed>>

Acknowledge ==
    /\ Alive /\ task.op = "shutdown" /\ task.todo = <<>>
    /\ evts' = Append(evts, Event("ack", Mic, 0))
    /\ enabled' = {} /\ ctlState' = "stopped" /\ loop' = "gone" /\ task' = Resting
    /\ UNCHANGED <<cmds, engine, mic, unsealed, rec, bounds, sealed>>

Command ==
    \/ ReadCommand \/ RejectCommand
    \/ StartAdapter \/ StartAdapterFails \/ Publish \/ Announce \/ Activate
    \/ Pause \/ Resume \/ TransitionFails \/ EndTransition
    \/ StopAdapter \/ AnnounceStopped \/ EndStop \/ Acknowledge

(***************************************************************************)
(* Audio and the system.                                                   *)
(***************************************************************************)
\* A tap delivers a buffer: BoundedAudioFrameQueue, then ChunkEncoder.append.
Frames(s) ==
    /\ Alive /\ engine[s] = "on" /\ bounds.frames > 0
    /\ unsealed' = [unsealed EXCEPT ![s] = TRUE]
    /\ bounds' = [bounds EXCEPT !.frames = @ - 1]
    /\ UNCHANGED <<cmds, evts, loop, task, enabled, ctlState, engine, mic, rec, sealed>>

\* The chunk reaches maxFramesPerChunk inside append.
RollChunk(s) ==
    /\ Alive /\ engine[s] = "on" /\ unsealed[s] /\ bounds.frames > 0
    /\ SealAll({s}) /\ evts' = evts \o SealOf({s})
    /\ bounds' = [bounds EXCEPT !.frames = @ - 1]
    /\ UNCHANGED <<cmds, loop, task, enabled, ctlState, engine, mic, rec>>

\* BoundedAudioFrameQueue is full, or an encoder fails: failureHandler sends
\* fatal_error and the adapter stops itself.
FramePathFails(s) ==
    /\ Alive /\ engine[s] = "on" /\ bounds.faults > 0
    /\ StopAdapters({s})
    /\ \/ evts' = evts \o <<Fatal>> \o SealOf(Drained({s}))
       \/ evts' = evts \o SealOf(Drained({s})) \o <<Fatal>>
    /\ bounds' = [bounds EXCEPT !.faults = @ - 1]
    /\ UNCHANGED <<cmds, loop, task, enabled, ctlState>>

\* The process dies on its own: what it wrote stays readable.
HelperCrash ==
    /\ Alive /\ bounds.faults > 0
    /\ loop' = "gone" /\ task' = Resting /\ engine' = [s \in Source |-> "off"]
    /\ mic' = IdleMic /\ rec' = NoAttempt /\ enabled' = {}
    /\ bounds' = [bounds EXCEPT !.faults = @ - 1]
    /\ UNCHANGED <<cmds, evts, ctlState, unsealed, sealed>>

\* stream(_:didStopWithError:): with permission the stop is reported as
\* recoverable and nothing restarts the stream; without it, permissionRevoked.
\* The controller drops the report of a source it has not enabled yet.
SystemStreamStops ==
    /\ Alive /\ engine[Sys] = "on" /\ bounds.faults > 0
    /\ bounds' = [bounds EXCEPT !.faults = @ - 1]
    /\ \/ /\ Sys \notin enabled /\ engine' = [engine EXCEPT ![Sys] = "dead"]
          /\ UNCHANGED <<evts, enabled, ctlState, mic, rec, unsealed, sealed>>
       \/ /\ Sys \in enabled
          /\ SealAll({Sys}) /\ engine' = [engine EXCEPT ![Sys] = "dead"]
          /\ evts' = evts \o SealOf({Sys}) \o <<Event("interrupted", Sys, 1)>>
          /\ UNCHANGED <<enabled, ctlState, mic, rec>>
       \/ /\ Sys \in enabled /\ StopAdapters({Sys})
          /\ evts' = evts \o SealOf({Sys}) \o <<Event("interrupted", Sys, 0)>>
          /\ enabled' = enabled \ {Sys} /\ ctlState' = "failed"
    /\ UNCHANGED <<cmds, loop, task>>

(***************************************************************************)
(* Microphone recovery: schedule, debounce, then one attempt.              *)
(***************************************************************************)
\* Mutant: the generation is not advanced.
DeviceChangeSameGeneration ==
    /\ Alive /\ mic.path /\ bounds.changes > 0
    /\ engine' = [engine EXCEPT ![Mic] = "dead"]
    /\ bounds' = [bounds EXCEPT !.changes = @ - 1]
    /\ rec' = IF rec.active THEN rec
              ELSE [rec EXCEPT !.mine = rec.gen, !.stage = "waiting"]
    /\ UNCHANGED <<cmds, evts, loop, task, enabled, ctlState, mic, unsealed, sealed>>

\* The device or its format changes: the engine stops, the observers call
\* AudioEngineRecovery.schedule: it restarts the debounce, or an attempt under way
\* makes it a no-op.
DeviceChange ==
    /\ Alive /\ mic.path /\ bounds.changes > 0
    /\ engine' = [engine EXCEPT ![Mic] = "dead"]
    /\ bounds' = [bounds EXCEPT !.changes = @ - 1]
    /\ rec' = IF rec.active THEN rec
              ELSE [rec EXCEPT !.gen = @ + 1, !.mine = rec.gen + 1, !.stage = "waiting"]
    /\ UNCHANGED <<cmds, evts, loop, task, enabled, ctlState, mic, unsealed, sealed>>

Current == rec.gen = rec.mine
Finished == [rec EXCEPT !.stage = "none", !.active = IF Current THEN FALSE ELSE @]
Recovery(stage) == rec' = [rec EXCEPT !.stage = stage]

\* begin() and the guards of handleRecovery: the debounce is over; the attempts
\* of the last window are counted; an adapter that is not published yet gives up.
BeginRecovery ==
    /\ Alive /\ rec.stage = "waiting" /\ Current
    /\ \E kept \in 0 .. rec.starts :
        LET burst == kept >= BurstLimit
            ready == mic.published /\ mic.running /\ ~ mic.terminal
        IN  rec' = [rec EXCEPT !.active = burst \/ ready,
                               !.starts = IF burst THEN kept ELSE kept + 1,
                               !.stage = CASE burst -> "failing"
                                           [] ready /\ ~ burst -> "signal"
                                           [] OTHER -> "none"]
    /\ UNCHANGED <<cmds, evts, loop, task, enabled, ctlState, engine, mic, unsealed, bounds, sealed>>

\* controller.sourceRecovering, after the hop to the actor.
ReportRecovering ==
    /\ Alive /\ rec.stage = "signal"
    /\ evts' = IF Mic \in enabled THEN Append(evts, Event("recovering", Mic, rec.mine)) ELSE evts
    /\ Recovery("teardown")
    /\ UNCHANGED <<cmds, loop, task, enabled, ctlState, engine, mic, unsealed, bounds, sealed>>

\* The old path is dropped and the open chunk sealed; the encoder is free again
\* before chunk_sealed reaches the writer.
TearDown ==
    /\ Alive /\ rec.stage = "teardown"
    /\ engine' = [engine EXCEPT ![Mic] = "off"] /\ mic' = [mic EXCEPT !.path = FALSE]
    /\ unsealed' = [unsealed EXCEPT ![Mic] = FALSE]
    /\ Recovery(IF unsealed[Mic] THEN "post" ELSE "rebuild")
    /\ UNCHANGED <<cmds, evts, loop, task, enabled, ctlState, bounds, sealed>>

PostSealed ==
    /\ Alive /\ rec.stage = "post"
    /\ evts' = Append(evts, Event("sealed", Mic, 0))
    /\ sealed' = [sealed EXCEPT ![Mic] = @ + 1]
    /\ Recovery("rebuild")
    /\ UNCHANGED <<cmds, loop, task, enabled, ctlState, engine, mic, unsealed, bounds>>

\* configureAndStartEngine on the same UID, then the check that nobody stopped
\* the adapter; a path that comes too late is discarded.
Rebuild ==
    /\ Alive /\ rec.stage = "rebuild"
    /\ IF Current /\ mic.running
       THEN /\ engine' = [engine EXCEPT ![Mic] = "on"] /\ mic' = [mic EXCEPT !.path = TRUE]
            /\ unsealed' = [unsealed EXCEPT ![Mic] = TRUE]
            /\ Recovery("report")
       ELSE rec' = Finished /\ UNCHANGED <<engine, mic, unsealed>>
    /\ UNCHANGED <<cmds, evts, loop, task, enabled, ctlState, bounds, sealed>>

RebuildFails ==
    /\ Alive /\ rec.stage \in {"teardown", "rebuild"} /\ Current /\ mic.running /\ bounds.faults > 0
    /\ engine' = [engine EXCEPT ![Mic] = "off"] /\ mic' = [mic EXCEPT !.path = FALSE]
    /\ bounds' = [bounds EXCEPT !.faults = @ - 1]
    /\ Recovery("failing")
    /\ UNCHANGED <<cmds, evts, loop, task, enabled, ctlState, unsealed, sealed>>

ReportRecovered ==
    /\ Alive /\ rec.stage = "report"
    /\ evts' = IF Mic \in enabled THEN Append(evts, Event("recovered", Mic, rec.mine)) ELSE evts
    /\ rec' = Finished
    /\ UNCHANGED <<cmds, loop, task, enabled, ctlState, engine, mic, unsealed, bounds, sealed>>

\* Mutant: the terminal signal is not delivered.
FailRecoverySilently ==
    /\ Alive /\ rec.stage = "failing"
    /\ IF mic.running /\ ~ mic.terminal /\ Current
       THEN /\ engine' = [engine EXCEPT ![Mic] = "off"] /\ mic' = IdleMic
            /\ rec' = [CancelledRecovery EXCEPT !.stage = "none"]
            /\ evts' = evts \o SealOf({Mic}) /\ UNCHANGED <<enabled, ctlState>>
            /\ SealAll({Mic})
       ELSE rec' = Finished /\ UNCHANGED <<evts, enabled, ctlState, engine, mic, unsealed, sealed>>
    /\ UNCHANGED <<cmds, loop, task, bounds>>

\* failRecovery: one terminal signal; the controller seals, reports and stops the source.
FailRecovery ==
    /\ Alive /\ rec.stage = "failing"
    /\ IF mic.running /\ ~ mic.terminal /\ Current
       THEN /\ engine' = [engine EXCEPT ![Mic] = "off"] /\ mic' = IdleMic
            /\ rec' = [CancelledRecovery EXCEPT !.stage = "none"]
            /\ IF Mic \in enabled
               THEN /\ evts' = evts \o SealOf({Mic}) \o <<Event("interrupted", Mic, 0)>>
                    /\ enabled' = enabled \ {Mic} /\ ctlState' = "failed"
               ELSE evts' = evts \o SealOf({Mic}) /\ UNCHANGED <<enabled, ctlState>>
            /\ SealAll({Mic})
       ELSE rec' = Finished /\ UNCHANGED <<evts, enabled, ctlState, engine, mic, unsealed, sealed>>
    /\ UNCHANGED <<cmds, loop, task, bounds>>

RecoveryStep ==
    \/ BeginRecovery \/ ReportRecovering \/ TearDown \/ PostSealed \/ Rebuild \/ RebuildFails \/ ReportRecovered \/ FailRecovery

World == \/ \E s \in Source : Frames(s) \/ RollChunk(s) \/ FramePathFails(s)
         \/ HelperCrash \/ SystemStreamStops \/ DeviceChange

HelperNext == Command \/ RecoveryStep \/ World
=============================================================================
