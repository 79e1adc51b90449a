---------------------------- MODULE AudioWindows ----------------------------
(***************************************************************************)
(* What the inference thread does with the audio of one chunk: decode it   *)
(* within a budget (asr/audio.rs), have the detector find its speech, cut  *)
(* each detected core into windows a provider can take (asr/vad.rs), and   *)
(* turn the utterances into segments of the chunk (asr/native_engine.rs,   *)
(* catalog/publication.rs).  Ranges are half open, in samples.  Energies   *)
(* are abstracted: any eligible boundary may be the quietest.              *)
(***************************************************************************)
EXTENDS Integers, Sequences

CONSTANTS
    Padding, MaxWindow, EnergyFrame, SearchRadius,  \* the constants of vad.rs
    FramesPerMs,    \* working samples in a millisecond, 16
    MsPerSecond,
    MaxSeconds,     \* MAX_DECODED_AUDIO_DURATION_SECONDS
    Rates,          \* sample rates of sources
    Packets,        \* frames in a packet
    Marks,          \* sample positions a detector may report
    MaxCores,       \* bound of the model: cores it reports
    HostTicks,      \* ticks of the host clock in a millisecond
    Jitter,         \* ticks by which the host clock and the samples disagree
    None

WorkRate == FramesPerMs * MsPerSecond
HalfFrame == EnergyFrame \div 2

ASSUME WindowAssumption ==
    /\ Padding \in Nat /\ MaxWindow \in Nat /\ MaxWindow > 2 * Padding
    /\ EnergyFrame \in Nat \ {0} /\ SearchRadius \in Nat
    /\ FramesPerMs \in Nat \ {0} /\ MsPerSecond \in Nat \ {0} /\ MaxSeconds \in Nat
    /\ Rates \subseteq Nat \ {0} /\ Packets \subseteq Nat \ {0}
    /\ Marks \subseteq Nat /\ MaxCores \in Nat /\ HostTicks \in Nat \ {0}
    /\ Jitter \in Nat /\ None \notin Int

VARIABLES
    rate, frames,   \* sample rate of the source, frames decoded so far
    total,          \* samples of the working audio
    recorded,       \* a recorded chunk; else an imported one
    limit,          \* duration_ms of its row; None for an import
    vad,            \* is the detector used?
    detected,       \* cores it reported
    step, error,    \* where the thread is; why it failed
    cursor,         \* start of the next window
    windows,        \* windows of the core being partitioned
    utterances,     \* cores that are partitioned, with their windows
    heard,          \* <<utterances, windows of the next one>> that were transcribed
    voiced,         \* did a window of the current utterance have text?
    silent,         \* did an utterance have none?
    cancelled,      \* the cancellation token
    segments        \* what is published

source == <<rate, recorded, vad>>
audio == <<frames, total, limit>>
parts == <<cursor, windows, utterances>>
texts == <<heard, voiced, silent>>
wvars == <<source, audio, detected, step, error, parts, texts, cancelled, segments>>

Samples(a, b) == [start |-> a, end |-> b]

\* SampleRange::new refuses an empty range.
Ranges(S) == {r \in [start : S, end : S] : r.start < r.end}

Ceil(a, b) == (a + b - 1) \div b
Least(a, b) == IF a < b THEN a ELSE b
MinusOrZero(a, b) == IF a > b THEN a - b ELSE 0

-----------------------------------------------------------------------------
(* The chunk.                                                              *)

\* session_end_ms - session_start_ms: both host times are rounded down, relative to
\* the start of the session.
RecordedDuration(n, phase, jitter) ==
    LET end == phase + (n * HostTicks) \div FramesPerMs + jitter
    IN  end \div HostTicks - phase \div HostTicks

\* duration_ms of a chunk whose job was prepared: a recording needs one above 0, so
\* that one shorter than a millisecond never gets here.
DurationsOf(n) ==
    IF recorded
    THEN {d \in {RecordedDuration(n, phase, j) : phase \in 0 .. HostTicks - 1, j \in -Jitter .. Jitter} : d > 0}
    ELSE {None}

WInit ==
    /\ rate \in Rates /\ recorded \in BOOLEAN /\ (recorded => rate = WorkRate)
    /\ frames = 0 /\ total = 0 /\ limit = None
    /\ vad \in BOOLEAN /\ detected = <<>>
    /\ step = "decode" /\ error = "none"
    /\ cursor = 0 /\ windows = <<>> /\ utterances = <<>>
    /\ heard = <<0, 0>> /\ voiced = FALSE /\ silent = FALSE /\ cancelled = FALSE
    /\ segments = <<>>

Fail(e) ==
    /\ step' = "failed" /\ error' = e
    /\ UNCHANGED <<source, audio, detected, parts, texts, cancelled, segments>>

Goto(next) == step' = next /\ UNCHANGED error

-----------------------------------------------------------------------------
(* Decoding and resampling.                                                *)

\* accept_packet, before the samples are copied.
FitsBudget(n) == frames + n <= rate * MaxSeconds

DecodePacket(n) ==
    /\ step = "decode"
    /\ \/ /\ FitsBudget(n) /\ frames' = frames + n
          /\ UNCHANGED <<source, total, limit, detected, step, error, parts, texts, cancelled, segments>>
       \/ ~FitsBudget(n) /\ Fail("limit")

\* A corrupt packet, another rate or channel count midway, no memory, or a resampler
\* that does not yield the number of samples it should.
DecodeFails == step = "decode" /\ Fail("audio")

\* resampled_frame_count.
Resampled(n) == Ceil(n * WorkRate, rate)

DecodeEnds ==
    /\ step = "decode"
    /\ IF frames = 0 THEN Fail("audio")
       ELSE IF Resampled(frames) > WorkRate * MaxSeconds THEN Fail("resample")
       ELSE /\ total' = Resampled(frames) /\ limit' \in DurationsOf(frames) /\ Goto("detect")
            /\ UNCHANGED <<source, frames, detected, parts, texts, cancelled, segments>>

-----------------------------------------------------------------------------
(* Detection.                                                              *)

\* drain: the detector hands out a range.
Detect(r) ==
    /\ step = "detect" /\ vad /\ Len(detected) < MaxCores
    /\ detected' = Append(detected, r)
    /\ UNCHANGED <<source, audio, step, error, parts, texts, cancelled, segments>>

DetectorFails == step = "detect" /\ vad /\ Fail("audio")

\* Mutant: overlapping cores are let through.
ValidCoresLoosely(cores) ==
    \A i \in DOMAIN cores :
        /\ cores[i].start < cores[i].end /\ cores[i].end <= total
        /\ i > 1 => cores[i].start > cores[i - 1].start

\* validate_detector_cores.
ValidCores(cores) ==
    \A i \in DOMAIN cores :
        /\ cores[i].start < cores[i].end /\ cores[i].end <= total
        /\ i > 1 => cores[i].start > cores[i - 1].start /\ cores[i].start >= cores[i - 1].end

\* partition_detector_cores or partition_without_vad takes its cores.
TakeCores(cores) ==
    /\ step = "detect" /\ detected' = cores
    /\ \/ /\ ValidCores(cores) /\ Goto("partition")
          /\ cursor' = IF cores = <<>> THEN 0 ELSE cores[1].start
          /\ UNCHANGED <<source, audio, windows, utterances, texts, cancelled, segments>>
       \/ /\ ~ValidCores(cores) /\ step' = "failed" /\ error' = "cores"
          /\ UNCHANGED <<source, audio, parts, texts, cancelled, segments>>

DetectEnds == TakeCores(IF vad THEN detected ELSE <<Samples(0, total)>>)

-----------------------------------------------------------------------------
(* partition_core, one iteration of its loop at a time.                    *)

Core == detected[Len(utterances) + 1]
InferenceStart == MinusOrZero(cursor, Padding)
PaddedEnd == Least(Core.end + Padding, total)
FitsWindow == PaddedEnd - InferenceStart <= MaxWindow
Partitioning == step = "partition" /\ Len(utterances) < Len(detected)

Window(a, b, ia, ib) == [core |-> Samples(a, b), inference |-> Samples(ia, ib)]

\* The rest of the core fits a window: it is the core's last, the next core's turn.
EmitTail ==
    /\ Partitioning /\ FitsWindow
    /\ utterances' = Append(utterances, [evidence |-> Core,
           windows |-> Append(windows, Window(cursor, Core.end, InferenceStart, PaddedEnd))])
    /\ windows' = <<>>
    /\ cursor' = IF Len(utterances) + 1 < Len(detected) THEN detected[Len(utterances) + 2].start ELSE cursor
    /\ UNCHANGED <<source, audio, detected, step, error, texts, cancelled, segments>>

\* Mutant: no room is left for the context on the right.
LatestSafeUnpadded == InferenceStart + MaxWindow

LatestSafe == InferenceStart + MaxWindow - Padding

\* A sample of the grid whose energy frame lies in the core, near the latest safe one.
Eligible(b) ==
    /\ b % EnergyFrame = 0 /\ b >= HalfFrame
    /\ cursor < b /\ b <= LatestSafe
    /\ b >= MinusOrZero(LatestSafe, SearchRadius)
    /\ Core.start <= b - HalfFrame /\ b + HalfFrame <= Core.end

\* select_split_boundary: the quietest eligible sample, else the latest safe one.
Boundaries ==
    LET eligible == {b \in 0 .. LatestSafe : Eligible(b)}
    IN  IF eligible = {} THEN {LatestSafe} ELSE eligible

\* What partition_core and select_split_boundary answer with InvalidRange.
Refused(b) ==
    \/ LatestSafe <= cursor \/ LatestSafe >= Core.end
    \/ Core.start > cursor \/ Core.end > total
    \/ b <= cursor \/ b > LatestSafe
    \/ b + Padding - InferenceStart > MaxWindow

\* Mutant: the window reaches as far as its core, without context on its right.
SplitAtUnpadded(b) ==
    /\ cursor' = b
    /\ windows' = Append(windows, Window(cursor, b, InferenceStart, b))
    /\ UNCHANGED <<source, audio, detected, step, error, utterances, texts, cancelled, segments>>

SplitAt(b) ==
    /\ cursor' = b
    /\ windows' = Append(windows, Window(cursor, b, InferenceStart, b + Padding))
    /\ UNCHANGED <<source, audio, detected, step, error, utterances, texts, cancelled, segments>>

EmitSplit ==
    /\ Partitioning /\ ~FitsWindow
    /\ \E b \in Boundaries : IF Refused(b) THEN Fail("range") ELSE SplitAt(b)

PartitionEnds ==
    /\ step = "partition" /\ Len(utterances) = Len(detected) /\ Goto("transcribe")
    /\ UNCHANGED <<source, audio, detected, parts, texts, cancelled, segments>>

-----------------------------------------------------------------------------
(* transcribe_all_windows and the publication of its texts.                *)

\* Mutant: an utterance without text is transcribed once more.
AfterWindowAgain(text) ==
    IF heard[2] + 1 < Len(utterances[heard[1] + 1].windows)
    THEN heard' = <<heard[1], heard[2] + 1>> /\ voiced' = (voiced \/ text) /\ UNCHANGED silent
    ELSE /\ heard' = IF voiced \/ text THEN <<heard[1] + 1, 0>> ELSE <<heard[1], 0>>
         /\ voiced' = FALSE /\ UNCHANGED silent

\* The window's text is joined to its utterance's.
AfterWindow(text) ==
    IF heard[2] + 1 < Len(utterances[heard[1] + 1].windows)
    THEN heard' = <<heard[1], heard[2] + 1>> /\ voiced' = (voiced \/ text) /\ UNCHANGED silent
    ELSE heard' = <<heard[1] + 1, 0>> /\ voiced' = FALSE /\ silent' = (silent \/ ~(voiced \/ text))

Transcribe ==
    /\ step = "transcribe" /\ heard[1] < Len(utterances)
    /\ \/ cancelled /\ Fail("cancelled")
       \/ ~cancelled /\ Fail("provider")
       \/ /\ ~cancelled /\ \E text \in BOOLEAN : AfterWindow(text)
          /\ UNCHANGED <<source, audio, detected, step, error, parts, cancelled, segments>>

\* publication: the start is rounded down, the end up, to milliseconds.
Segment(evidence) ==
    [start |-> evidence.start \div FramesPerMs, end |-> Ceil(evidence.end, FramesPerMs)]

Published == [i \in DOMAIN utterances |-> Segment(utterances[i].evidence)]

\* validate_segment_bounds.
ExceedsChunk == limit # None /\ \E i \in DOMAIN Published : Published[i].end > limit

\* build_success in the thread, then the bounds in the publishing transaction.
Publish ==
    /\ step = "transcribe" /\ heard[1] = Len(utterances)
    /\ \/ cancelled /\ Fail("cancelled")
       \/ ~cancelled /\ silent /\ Fail("silent")
       \/ ~cancelled /\ ~silent /\ ExceedsChunk /\ Fail("exceeds")
       \/ /\ ~cancelled /\ ~silent /\ ~ExceedsChunk
          /\ segments' = Published /\ Goto("published")
          /\ UNCHANGED <<source, audio, detected, parts, texts, cancelled>>

Cancel ==
    /\ ~cancelled /\ step \notin {"published", "failed"} /\ cancelled' = TRUE
    /\ UNCHANGED <<source, audio, detected, step, error, parts, texts, segments>>

Thread ==
    \/ \E n \in Packets : DecodePacket(n)
    \/ DecodeFails \/ DecodeEnds
    \/ \E r \in Ranges(Marks) : Detect(r)
    \/ DetectorFails \/ DetectEnds
    \/ EmitTail \/ EmitSplit \/ PartitionEnds
    \/ Transcribe \/ Publish

WNext == Thread \/ Cancel

\* The inference thread runs; a source has an end.
WSpec == WInit /\ [][WNext]_wvars /\ WF_wvars(Thread)

(***************************************************************************)
(* Properties                                                              *)
(***************************************************************************)
\* The windows of a core are adjacent, without gap or overlap, from its start.
Tiles(ws, a, b) ==
    /\ ws = <<>> => a = b
    /\ ws # <<>> => ws[1].core.start = a /\ ws[Len(ws)].core.end = b
    /\ \A i \in 1 .. Len(ws) - 1 : ws[i].core.end = ws[i + 1].core.start
    /\ \A i \in DOMAIN ws : ws[i].core.start < ws[i].core.end

\* A window is within the audio and what a provider takes, and its core has its
\* padding on both sides.
FitsProvider(w) ==
    /\ w.inference.end - w.inference.start <= MaxWindow
    /\ w.inference.start = MinusOrZero(w.core.start, Padding)
    /\ w.inference.end = Least(w.core.end + Padding, total)

\* Nothing that was detected is lost or heard twice: the utterances are the detected
\* cores in their order, and whatever boundaries the energies select, the windows of
\* each cover it exactly, with context, within the limit of the provider.
WindowsCover ==
    /\ \A i \in DOMAIN utterances :
        LET u == utterances[i] IN
        /\ u.evidence = detected[i]
        /\ Tiles(u.windows, u.evidence.start, u.evidence.end)
        /\ \A k \in DOMAIN u.windows : FitsProvider(u.windows[k])
    /\ step \in {"transcribe", "published"} => Len(utterances) = Len(detected)

\* The checks of partition_core and resample_mono on their own arithmetic never
\* fire: audio that decodes and cores that are valid are never refused.
NeverRefused == error \notin {"range", "resample"}

DecodedMs == Ceil(frames * MsPerSecond, rate)

\* What the plan asks of segments, with the rounding it leaves out: they lie within
\* the decoded audio, are not empty, follow each other up to the millisecond both may
\* round to, and without a detector the one segment is the whole audio, although the
\* times are those of resampled samples.
TimesAreSound ==
    step = "published" =>
        /\ \A i \in DOMAIN segments :
            0 <= segments[i].start /\ segments[i].start < segments[i].end /\ segments[i].end <= DecodedMs
        /\ \A i \in 1 .. Len(segments) - 1 : segments[i].end <= segments[i + 1].start + 1
        /\ ~vad => segments = <<[start |-> 0, end |-> DecodedMs]>>

\* The thread ends: every window makes progress, whatever is cut and heard.
ThreadEnds == <>(step \in {"published", "failed"})

\* The design: a segment's end, rounded up, is within the duration, and without a
\* detector the segment covers the whole audio; so a chunk the program recorded itself
\* is never refused for its length.
RecordingFits == error # "exceeds"
=============================================================================
