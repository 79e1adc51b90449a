---------------------------- MODULE CaptureControl ----------------------------
(***************************************************************************)
(* The Rust side of a native capture: NativeCaptureSession (the object the *)
(* Tauri commands call under one mutex), its worker thread run_worker, the *)
(* NativeCaptureCoordinator it drives and the transport, composed with the *)
(* helper process of CaptureHelper.                                        *)
(***************************************************************************)
EXTENDS CaptureHelper

CONSTANT MaxToggles   \* bound: pauses and resumes of a session
ASSUME ControlAssumption == MaxToggles \in Nat

VARIABLES
    caller,     \* the Tauri command in progress: "idle", "start", "pause", "resume", "stop", "join"
    control,    \* the message in the worker's control channel, "none" if there is none
    answer,     \* what the last finished command returned
    worker,     \* "none", "running", "exited"
    lastError,  \* last_error: how the worker ended, "none" if it has not failed
    startup,    \* what the worker sent on startup_tx: "none", "ok", "error"
    phase,      \* NativeCapturePhase
    state,      \* source_states
    stopped,    \* stopped_enabled_sources
    lastGen,    \* last_recovery_generation of the microphone
    announced,  \* run_worker's started_sources
    flags,      \* stop_requested, shutdown_sent, and how many toggles were asked for
    committed,  \* per source: chunks the committer accepted
    due         \* per source: chunks sealed before its source_stopped was sent

appVars == <<caller, control, answer, worker, lastError, startup, phase, state, stopped,
             lastGen, announced, flags, committed, due>>
vars == <<helperVars, appVars>>

ControlInit ==
    /\ caller = "idle" /\ control = "none" /\ answer = "none" /\ worker = "none"
    /\ lastError = "none" /\ startup = "none" /\ phase = "Requested"
    /\ state = [s \in Requested |-> "Requested"] /\ stopped = {} /\ lastGen = 0
    /\ announced = {} /\ flags = [stop |-> FALSE, shutdown |-> FALSE, toggles |-> 0]
    /\ committed = [s \in Source |-> 0] /\ due = [s \in Source |-> 0]
Init == HelperInit /\ ControlInit

Active == worker # "none"          \* NativeCaptureSession.active, once start returned
committer == announced = Requested \* the committer exists once every source has started

(***************************************************************************)
(* The Tauri commands.                                                     *)
(***************************************************************************)
\* start: run_worker preflights (a no-op of this transport), writes the start
\* command and enters Running before the helper has done anything.
CallStart ==
    /\ caller = "idle" /\ worker = "none"
    /\ caller' = "start" /\ worker' = "running"
    /\ phase' = "Running" /\ state' = [s \in Requested |-> "Running"]
    /\ cmds' = Append(cmds, "start")
    /\ UNCHANGED <<evts, loop, task, enabled, ctlState, engine, mic, unsealed, rec, bounds, sealed,
                   control, answer, lastError, startup, stopped, lastGen, announced, flags, committed, due>>

StartReturns ==
    /\ caller = "start" /\ (startup # "none" \/ worker = "exited")
    /\ caller' = "idle" /\ answer' = IF startup = "ok" THEN "ok" ELSE "error"
    /\ UNCHANGED <<helperVars, control, worker, lastError, startup, phase, state, stopped, lastGen,
                   announced, flags, committed, due>>

\* send_control: the message goes into the channel and the caller waits.
Call(op) ==
    /\ caller = "idle" /\ Active /\ startup = "ok" /\ ~ flags.stop
    /\ answer # "detached"
    /\ op \in {"pause", "resume"} => worker = "running" /\ flags.toggles < MaxToggles
    /\ IF worker = "running"
       THEN caller' = op /\ control' = op /\ UNCHANGED answer
       ELSE answer' = "detached" /\ UNCHANGED <<caller, control>>
    /\ UNCHANGED <<helperVars, worker, lastError, startup, phase, state, stopped, lastGen,
                   announced, flags, committed, due>>

\* The worker dropped the channel before it answered.
CallFails ==
    /\ caller \in {"pause", "resume", "stop"} /\ worker = "exited"
    /\ caller' = "idle" /\ control' = "none"
    /\ answer' = IF caller = "stop" THEN "detached" ELSE "error"
    /\ UNCHANGED <<helperVars, worker, lastError, startup, phase, state, stopped, lastGen,
                   announced, flags, committed, due>>

\* stop joins the thread; only a Stable error of the worker is returned.
StopReturns ==
    /\ caller = "join" /\ worker = "exited"
    /\ caller' = "idle"
    /\ answer' = IF lastError \in {"none", "invalid"} THEN "saved" ELSE "failed"
    /\ UNCHANGED <<helperVars, control, worker, lastError, startup, phase, state, stopped, lastGen,
                   announced, flags, committed, due>>

(***************************************************************************)
(* The worker's loop.                                                      *)
(***************************************************************************)
\* The worker returns: the transport is dropped, which kills the helper; what
\* was written and not read is lost.
Exit(error) ==
    /\ worker' = "exited" /\ lastError' = error
    /\ startup' = IF startup = "none" THEN "error" ELSE startup
    /\ cmds' = <<>> /\ evts' = <<>> /\ loop' = "gone" /\ task' = Resting
    /\ engine' = [s \in Source |-> "off"] /\ mic' = IdleMic /\ rec' = NoAttempt
    /\ UNCHANGED <<enabled, ctlState, unsealed, bounds, sealed>>

Keep == UNCHANGED <<worker, lastError>>
KeepHelper == UNCHANGED <<loop, task, enabled, ctlState, engine, mic, unsealed, rec, bounds, sealed>>

\* A control message: coordinator.pause, resume or stop, and the reply.
Accepts(op) ==
    CASE op = "pause"  -> phase = "Running" /\ \A s \in Requested : state[s] # "Recovering"
      [] op = "resume" -> phase = "Paused"
      [] op = "stop"   -> phase \in {"Running", "Paused"}
SetAll(op) ==
    LET named == CASE op = "pause" -> "Paused" [] op = "resume" -> "Running" [] op = "stop" -> "Stopping"
    IN  phase' = named /\ state' = [s \in Requested |-> named]

Serve ==
    /\ worker = "running" /\ control # "none"
    /\ control' = "none"
    /\ IF Accepts(control) /\ Alive
       THEN /\ cmds' = Append(cmds, control) /\ SetAll(control)
            /\ flags' = [flags EXCEPT !.stop = @ \/ control = "stop", !.toggles = @ + (IF control = "stop" THEN 0 ELSE 1)]
            /\ caller' = IF control = "stop" THEN "join" ELSE "idle"
            /\ answer' = "ok"
       ELSE /\ phase' = IF Accepts(control) THEN "Failed" ELSE phase
            /\ caller' = "idle" /\ answer' = IF control = "stop" THEN "detached" ELSE "error"
            /\ UNCHANGED <<cmds, state, flags>>
    /\ Keep /\ KeepHelper
    /\ UNCHANGED <<evts, startup, stopped, lastGen, announced, committed, due>>

Handled == {"Running", "Paused", "Stopping"}
AllStopped == stopped = Requested

\* Mutant: one stopped source is enough.
FinishIfAnyStopped ==
    IF phase = "Stopping" /\ stopped # {}
    THEN /\ phase' = "Stopped"
         /\ IF flags.stop /\ ~ flags.shutdown
            THEN cmds' = Append(cmds, "shutdown") /\ flags' = [flags EXCEPT !.shutdown = TRUE]
            ELSE UNCHANGED <<cmds, flags>>
    ELSE UNCHANGED <<phase, cmds, flags>>

\* finish_if_stopped and what run_worker does with Complete: the shutdown command (to
\* a helper that is gone it fails, like the next read).
FinishIfStopped ==
    IF phase = "Stopping" /\ AllStopped
    THEN /\ phase' = "Stopped"
         /\ IF flags.stop /\ ~ flags.shutdown
            THEN cmds' = Append(cmds, "shutdown") /\ flags' = [flags EXCEPT !.shutdown = TRUE]
            ELSE UNCHANGED <<cmds, flags>>
    ELSE UNCHANGED <<phase, cmds, flags>>

\* enter_failed, and run_worker's return of the error.
Fail(error) ==
    /\ phase' = "Failed" /\ Exit(error)
    /\ UNCHANGED <<caller, control, answer, state, stopped, lastGen, announced, flags, committed, due>>

Quiet == UNCHANGED <<caller, control, answer>> /\ Keep /\ KeepHelper

\* Mutant: a timeout is not a reason to look at the stopped sources.
PollNothingOnly ==
    /\ worker = "running" /\ evts = <<>> /\ Alive /\ phase # "Failed"
    /\ IF phase \in Handled
       THEN FALSE
       ELSE /\ Exit("invalid")
            /\ UNCHANGED <<caller, control, answer, phase, state, stopped, lastGen, announced,
                           flags, committed, due>>

\* next_event timed out.
PollNothing ==
    /\ worker = "running" /\ evts = <<>> /\ Alive /\ phase # "Failed"
    /\ IF phase \in Handled
       THEN /\ phase = "Stopping" /\ AllStopped
            /\ FinishIfStopped /\ Quiet
            /\ UNCHANGED <<evts, startup, state, stopped, lastGen, announced, committed, due>>
       ELSE /\ Exit("invalid")
            /\ UNCHANGED <<caller, control, answer, phase, state, stopped, lastGen, announced,
                           flags, committed, due>>

\* The pipe is closed: next_event fails, without the coordinator.
PollClosed ==
    /\ worker = "running" /\ evts = <<>> /\ ~ Alive
    /\ Exit("closed")
    /\ UNCHANGED <<caller, control, answer, phase, state, stopped, lastGen, announced, flags, committed, due>>

\* One event in a phase that handle_event refuses.
PollRefused ==
    /\ worker = "running" /\ evts # <<>> /\ phase \notin Handled
    /\ Exit(IF phase = "Failed" THEN "failed" ELSE "invalid")
    /\ UNCHANGED <<caller, control, answer, phase, state, stopped, lastGen, announced, flags, committed, due>>

\* source_started: the last one registers the sources and answers start; a failure
\* of the catalog ends the worker.
OnStarted(e) ==
    /\ announced' = announced \cup {e.source}
    /\ \/ /\ startup' = IF committer' THEN "ok" ELSE startup
          /\ state' = [state EXCEPT ![e.source] = "Running"]
          /\ Quiet /\ UNCHANGED <<cmds, phase>>
       \/ /\ committer' /\ bounds.faults > 0 /\ Exit("catalog")
          /\ UNCHANGED <<caller, control, answer, phase, state>>
    /\ UNCHANGED <<stopped, lastGen, flags, committed, due>>

\* chunk_sealed: refused before the committer exists; a failed commit ends the worker.
OnSealed(e) ==
    \/ ~ committer /\ Exit("protocol")
       /\ UNCHANGED <<caller, control, answer, phase, state, stopped, lastGen, announced, flags, committed, due>>
    \/ committer /\ committed' = [committed EXCEPT ![e.source] = @ + 1]
       /\ FinishIfStopped /\ Quiet
       /\ UNCHANGED <<startup, state, stopped, lastGen, announced, due>>
    \/ committer /\ bounds.faults > 0
       /\ Exit("commit")
       /\ UNCHANGED <<caller, control, answer, phase, state, stopped, lastGen, announced, flags, committed, due>>

OnStopped(e) ==
    /\ stopped' = stopped \cup {e.source} /\ state' = [state EXCEPT ![e.source] = "Stopped"]
    /\ due' = [due EXCEPT ![e.source] = e.n]
    /\ Quiet /\ UNCHANGED <<cmds, startup, phase, lastGen, announced, flags, committed>>

Ignored == Quiet /\ UNCHANGED <<cmds, startup, phase, state, stopped, lastGen, announced,
                                flags, committed, due>>

OnInterrupted(e) ==
    IF e.n = 1 THEN (IF e.source = Mic THEN Fail("protocol") ELSE Ignored) ELSE Fail("interrupted")

OnRecovering(e) ==
    IF state[Mic] # "Running" \/ e.n <= lastGen THEN Fail("protocol")
    ELSE /\ lastGen' = e.n /\ state' = [state EXCEPT ![Mic] = "Recovering"]
         /\ Quiet /\ UNCHANGED <<cmds, startup, phase, stopped, announced, flags, committed, due>>

OnRecovered(e) ==
    IF state[Mic] # "Recovering" \/ e.n # lastGen THEN Fail("protocol")
    ELSE /\ state' = [state EXCEPT ![Mic] = "Running"]
         /\ Quiet /\ UNCHANGED <<cmds, startup, phase, stopped, lastGen, announced, flags, committed, due>>

OnAck == FinishIfStopped /\ Quiet
         /\ UNCHANGED <<startup, state, stopped, lastGen, announced, committed, due>>

\* NativeCaptureCoordinator.handle_event and the loop body around it.
PollEvent ==
    /\ worker = "running" /\ evts # <<>> /\ phase \in Handled
    /\ LET e == Head(evts) IN
        /\ CASE e.type = "started"     -> OnStarted(e)
             [] e.type = "sealed"      -> OnSealed(e)
             [] e.type = "stopped"     -> OnStopped(e)
             [] e.type = "interrupted" -> OnInterrupted(e)
             [] e.type = "recovering"  -> OnRecovering(e)
             [] e.type = "recovered"   -> OnRecovered(e)
             [] e.type = "fatal"       -> Fail("fatal")
             [] e.type = "ack"         -> OnAck
        /\ worker' = "running" => evts' = Tail(evts)

Poll == PollNothing \/ PollClosed \/ PollRefused \/ PollEvent
Helper == HelperNext /\ UNCHANGED appVars
Caller == CallStart \/ StartReturns \/ CallFails \/ StopReturns
          \/ \E op \in {"pause", "resume", "stop"} : Call(op)

Next == Caller \/ Serve \/ Poll \/ Helper

\* The worker thread and the helper's tasks run; the user, the audio and the
\* faults are free.
Fairness == /\ WF_vars(Serve) /\ WF_vars(Poll)
            /\ WF_vars(StartReturns) /\ WF_vars(CallFails) /\ WF_vars(StopReturns)
            /\ WF_vars(Command /\ UNCHANGED appVars) /\ WF_vars(RecoveryStep /\ UNCHANGED appVars)
Spec == Init /\ [][Next]_vars /\ Fairness

(***************************************************************************)
(* Properties.                                                             *)
(***************************************************************************)
\* Every variable keeps its type.
TypeOK ==
    /\ cmds \in Seq({"start", "pause", "resume", "stop", "shutdown"})
    /\ loop \in {"awaiting", "capturing", "stopped", "gone"}
    /\ enabled \subseteq Requested /\ ctlState \in {"idle", "starting", "running", "paused", "stopping", "stopped", "failed"}
    /\ engine \in [Source -> {"off", "on", "paused", "dead"}] /\ unsealed \in [Source -> BOOLEAN]
    /\ caller \in {"idle", "start", "pause", "resume", "stop", "join"}
    /\ worker \in {"none", "running", "exited"} /\ startup \in {"none", "ok", "error"}
    /\ phase \in {"Requested", "Running", "Paused", "Stopping", "Stopped", "Failed"}
    /\ state \in [Requested -> {"Requested", "Running", "Recovering", "Paused", "Stopping", "Stopped"}]
    /\ stopped \subseteq Requested /\ announced \subseteq Requested
    /\ sealed \in [Source -> Nat] /\ committed \in [Source -> Nat] /\ due \in [Source -> Nat]

\* A session that reports Stopped, or whose stop was answered without an error, has
\* heard the end of every source and registered every chunk the source announced
\* before it (run_worker, finish_if_stopped, NativeCaptureSession::stop).
StoppedIsDurable ==
    phase = "Stopped" \/ answer = "saved" =>
        stopped = Requested /\ \A s \in Requested : committed[s] >= due[s]

\* Nothing is written and not read, no command runs and no recovery is under way.
AtRest ==
    /\ worker = "running" /\ Alive /\ cmds = <<>> /\ evts = <<>> /\ control = "none"
    /\ task = Resting /\ rec.stage = "none"

\* Two actors that only exchange messages agree whenever the pipes are empty: the
\* phase the user sees is the state of the helper's controller, and no source is
\* left Recovering by a recovery that nobody continues.
AgreeAtRest ==
    AtRest => /\ \A s \in Requested : state[s] # "Recovering"
              /\ phase = "Running" => startup = "ok" /\ enabled = Requested /\ ctlState = "running"
              /\ phase = "Paused" => ctlState = "paused"
              /\ phase \in {"Stopping", "Stopped"} => enabled = {} /\ loop = "stopped"

\* A recovery reported while the session just records is never a protocol violation:
\* the generations grow, recovering and recovered alternate, and no chunk of a
\* recovery arrives before the committer exists. Only a pause, a resume or a stop can
\* cross it on the way.
RecoveryIsAccepted ==
    lastError = "protocol" => flags.toggles > 0 \/ flags.stop \/ ~ committer

\* A stop or a start that waits for the worker ends, whatever the helper does, as long
\* as the helper's own steps are run.
CallsReturn == (caller # "idle") ~> (caller = "idle")
=============================================================================
