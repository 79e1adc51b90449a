------------------------- MODULE AudioWindows_proofs -------------------------
(***************************************************************************)
(* Proofs about AudioWindows for every length of audio, every set of cores *)
(* a detector may report and every choice of boundaries: partition_core    *)
(* never refuses a valid core, and its windows tile it.                    *)
(***************************************************************************)
EXTENDS AudioWindows, TLAPS

SampleRange == [start : Nat, end : Nat]
ProviderWindow == [core : SampleRange, inference : SampleRange]
EvidenceUtterance == [evidence : SampleRange, windows : Seq(ProviderWindow)]

Steps == {"decode", "detect", "partition", "transcribe", "published", "failed"}
Before == {"decode", "detect"}
After == {"partition", "transcribe", "published"}

\* The types that the arithmetic of the partition needs.
Types ==
    /\ rate \in Nat \ {0} /\ frames \in Nat /\ total \in Nat
    /\ step \in Steps
    /\ detected \in Seq(SampleRange)
    /\ cursor \in Nat
    /\ windows \in Seq(ProviderWindow)
    /\ utterances \in Seq(EvidenceUtterance)

\* An utterance that was emitted is the detected core, covered by windows that fit.
Covered(u, core) ==
    /\ u.evidence = core
    /\ Tiles(u.windows, core.start, core.end)
    /\ \A k \in DOMAIN u.windows : FitsProvider(u.windows[k])

\* The windows of the current core reach from its start to the cursor, which is
\* inside it.
Cut ==
    /\ Core.start <= cursor /\ cursor < Core.end
    /\ Tiles(windows, Core.start, cursor)
    /\ \A k \in DOMAIN windows : FitsProvider(windows[k])

Progress ==
    /\ Len(utterances) <= Len(detected)
    /\ \A i \in DOMAIN utterances : Covered(utterances[i], detected[i])
    /\ step \in Before => utterances = <<>> /\ windows = <<>>
    /\ step \in After => ValidCores(detected)
    /\ Partitioning => Cut
    /\ step = "partition" /\ ~Partitioning => windows = <<>>
    /\ step \in {"transcribe", "published"} => Len(utterances) = Len(detected)

Inv == Types /\ Progress /\ error # "range"

-----------------------------------------------------------------------------
(* Arithmetic of one iteration.                                            *)

\* The latest safe boundary lies inside the rest of a core that does not fit, and the
\* padding after it lies inside the audio.
LEMMA LatestSafeInside ==
    ASSUME WindowAssumption, total \in Nat, cursor \in Nat, Core \in SampleRange,
           cursor < Core.end, Core.end <= total, ~FitsWindow
    PROVE  /\ LatestSafe \in Nat
           /\ cursor < LatestSafe /\ LatestSafe < Core.end
           /\ LatestSafe + Padding <= total
           /\ LatestSafe + Padding - InferenceStart = MaxWindow
           /\ InferenceStart \in Nat
<1>1. Core.start \in Nat /\ Core.end \in Nat
  BY DEF SampleRange
<1>2. Padding \in Nat /\ MaxWindow \in Nat /\ MaxWindow > 2 * Padding
  BY DEF WindowAssumption
<1>3. InferenceStart \in Nat /\ InferenceStart <= cursor /\ cursor <= InferenceStart + Padding
  BY <1>2 DEF InferenceStart, MinusOrZero
<1>4. PaddedEnd \in Nat /\ PaddedEnd - InferenceStart > MaxWindow /\ PaddedEnd <= total /\ PaddedEnd <= Core.end + Padding
  BY <1>1, <1>2, <1>3 DEF FitsWindow, PaddedEnd, Least
<1> QED
  BY <1>1, <1>2, <1>3, <1>4 DEF LatestSafe

\* Every boundary the energies may select makes progress and stays safe.
LEMMA BoundaryInside ==
    ASSUME WindowAssumption, total \in Nat, cursor \in Nat, Core \in SampleRange,
           cursor < Core.end, Core.end <= total, ~FitsWindow,
           NEW b \in Boundaries
    PROVE  b \in Nat /\ cursor < b /\ b <= LatestSafe
<1>1. LatestSafe \in Nat /\ cursor < LatestSafe
  BY LatestSafeInside
<1>2. b = LatestSafe \/ (b \in 0 .. LatestSafe /\ Eligible(b))
  BY DEF Boundaries
<1> QED
  BY <1>1, <1>2 DEF Eligible

\* So the checks of partition_core and select_split_boundary do not fire.
LEMMA NotRefused ==
    ASSUME WindowAssumption, total \in Nat, cursor \in Nat, Core \in SampleRange,
           Core.start <= cursor, cursor < Core.end, Core.end <= total, ~FitsWindow,
           NEW b \in Boundaries
    PROVE  ~Refused(b)
<1>1. Core.start \in Nat /\ Core.end \in Nat /\ Padding \in Nat /\ MaxWindow \in Nat
  BY DEF SampleRange, WindowAssumption
<1> QED
  BY <1>1, LatestSafeInside, BoundaryInside DEF Refused

-----------------------------------------------------------------------------
(* Tiles.                                                                  *)

\* Appending the window that starts where the tiles end extends them.
LEMMA TilesAppend ==
    ASSUME NEW ws \in Seq(ProviderWindow), NEW a \in Nat, NEW b \in Nat, NEW c \in Nat,
           Tiles(ws, a, b), b < c,
           NEW w \in ProviderWindow, w.core.start = b, w.core.end = c
    PROVE  Tiles(Append(ws, w), a, c)
<1> DEFINE new == Append(ws, w)
<1>1. /\ new \in Seq(ProviderWindow) /\ Len(new) = Len(ws) + 1 /\ new[Len(new)] = w
      /\ \A i \in 1 .. Len(ws) : new[i] = ws[i]
  OBVIOUS
<1>2. new # <<>> /\ Len(ws) \in Nat
  BY <1>1
<1>3. new[1].core.start = a
  <2>1. CASE ws = <<>>
    BY <2>1, <1>1 DEF Tiles
  <2>2. CASE ws # <<>>
    BY <2>2, <1>1 DEF Tiles
  <2> QED BY <2>1, <2>2
<1>4. \A i \in 1 .. Len(new) - 1 : new[i].core.end = new[i + 1].core.start
  <2> TAKE i \in 1 .. Len(new) - 1
  <2>1. CASE i < Len(ws)
    BY <2>1, <1>1 DEF Tiles
  <2>2. CASE i = Len(ws)
    BY <2>2, <1>1 DEF Tiles
  <2> QED BY <2>1, <2>2, <1>1
<1>5. \A i \in DOMAIN new : new[i].core.start < new[i].core.end
  <2> TAKE i \in DOMAIN new
  <2>1. CASE i \in 1 .. Len(ws)
    BY <2>1, <1>1 DEF Tiles
  <2>2. CASE i = Len(ws) + 1
    BY <2>2, <1>1
  <2> QED BY <2>1, <2>2, <1>1
<1> HIDE DEF new
<1>6. Tiles(new, a, c)
  BY <1>1, <1>2, <1>3, <1>4, <1>5 DEF Tiles
<1> QED BY <1>6 DEF new

-----------------------------------------------------------------------------
(* The invariant, action by action.                                        *)

\* The core being partitioned is one of the validated ones.
LEMMA CoreInside ==
    ASSUME Types, Partitioning, ValidCores(detected)
    PROVE  Core \in SampleRange /\ Core.start < Core.end /\ Core.end <= total
<1>1. Len(utterances) + 1 \in DOMAIN detected
  BY DEF Types, Partitioning
<1> QED
  BY <1>1 DEF Types, ValidCores, Core

LEMMA InitInv == ASSUME WindowAssumption, WInit PROVE Inv
<1>1. Types
  BY DEF WInit, WindowAssumption, Types, Steps
<1>2. Progress
  BY DEF WInit, Progress, Before, After, Partitioning
<1> QED
  BY <1>1, <1>2 DEF Inv, WInit

\* A step that leaves the partition alone and moves on within or past it.
LEMMA PartsKept ==
    ASSUME Inv, Types', parts' = parts, detected' = detected, total' = total,
           error' # "range",
           \/ step' = step
           \/ step' = "failed"
           \/ step = "transcribe" /\ step' = "published"
    PROVE  Inv'
<1>1. Len(utterances)' <= Len(detected)'
  BY DEF Inv, Progress, parts
<1>2. (\A i \in DOMAIN utterances : Covered(utterances[i], detected[i]))'
  BY DEF Inv, Progress, parts, Covered, Tiles, FitsProvider
<1>3. (step \in Before => utterances = <<>> /\ windows = <<>>)'
  BY DEF Inv, Progress, parts, Before
<1>4. (step \in After => ValidCores(detected))'
  BY DEF Inv, Progress, After, ValidCores
<1>5. (Partitioning => Cut)'
  <2>1. Partitioning' => Partitioning
    BY DEF Partitioning, parts
  <2>2. Cut => Cut'
    BY DEF Cut, Core, parts, Tiles, FitsProvider
  <2> QED BY <2>1, <2>2 DEF Inv, Progress
<1>6. (step = "partition" /\ ~Partitioning => windows = <<>>)'
  BY DEF Inv, Progress, Partitioning, parts
<1>7. (step \in {"transcribe", "published"} => Len(utterances) = Len(detected))'
  BY DEF Inv, Progress, parts
<1> QED
  BY <1>1, <1>2, <1>3, <1>4, <1>5, <1>6, <1>7 DEF Inv, Progress

\* Ceil of naturals is a natural.
LEMMA CeilNat ==
    ASSUME NEW a \in Nat, NEW b \in Nat \ {0}
    PROVE  Ceil(a, b) \in Nat
<1>1. a + b - 1 \in Nat
  OBVIOUS
<1> QED
  BY <1>1 DEF Ceil

\* Steps that fail, and steps outside the partition, keep it.
LEMMA FailKeeps ==
    ASSUME WindowAssumption, Inv, NEW e, e # "range", Fail(e)
    PROVE  Inv'
<1>1. Types'
  BY DEF Fail, Inv, Types, source, audio, parts, Steps
<1> QED
  BY <1>1, PartsKept DEF Fail, audio

LEMMA DecodeKeeps ==
    ASSUME WindowAssumption, Inv,
           \/ \E n \in Packets : DecodePacket(n)
           \/ DecodeFails \/ DecodeEnds
    PROVE  Inv'
<1>1. CASE DecodeFails
  BY <1>1, FailKeeps DEF DecodeFails
<1>2. ASSUME NEW n \in Packets, DecodePacket(n) PROVE Inv'
  <2>1. CASE Fail("limit")
    BY <2>1, FailKeeps
  <2>2. CASE ~Fail("limit")
    <3>1. Types'
      BY <1>2, <2>2 DEF DecodePacket, Inv, Types, source, parts, WindowAssumption
    <3> QED
      BY <1>2, <2>2, <3>1, PartsKept DEF DecodePacket, Inv
  <2> QED BY <2>1, <2>2
<1>3. CASE DecodeEnds
  <2>1. CASE Fail("audio") \/ Fail("resample")
    BY <2>1, FailKeeps
  <2>2. CASE ~(Fail("audio") \/ Fail("resample"))
    <3>1. /\ step = "decode" /\ step' = "detect" /\ error' = error
          /\ total' = Resampled(frames)
          /\ UNCHANGED <<rate, frames, detected, cursor, windows, utterances>>
      BY <1>3, <2>2 DEF DecodeEnds, Goto, source, parts
    <3>2. frames * WorkRate \in Nat
      BY DEF WindowAssumption, WorkRate, Inv, Types
    <3>3. Resampled(frames) \in Nat
      BY <3>2, CeilNat DEF Resampled, Inv, Types
    <3>4. Types'
      BY <3>1, <3>3 DEF Inv, Types, Steps
    <3>5. utterances = <<>> /\ windows = <<>>
      BY <3>1 DEF Inv, Progress, Before
    <3>6. Progress'
      BY <3>1, <3>5 DEF Inv, Progress, Before, After, Partitioning
    <3> QED BY <3>1, <3>4, <3>6 DEF Inv
  <2> QED BY <2>1, <2>2
<1> QED BY <1>1, <1>2, <1>3

\* A detector appends to its cores before anything is cut.
LEMMA DetectKeeps ==
    ASSUME WindowAssumption, Inv, NEW r \in Ranges(Marks), Detect(r)
    PROVE  Inv'
<1>1. r \in SampleRange
  BY DEF Ranges, SampleRange, WindowAssumption
<1>2. Types'
  BY <1>1 DEF Detect, Inv, Types, source, audio, parts
<1>3. utterances = <<>> /\ windows = <<>> /\ step = "detect"
  BY DEF Detect, Inv, Progress, Before
<1>4. Progress'
  BY <1>2, <1>3 DEF Detect, Progress, Before, After, Partitioning, parts, Types
<1> QED BY <1>2, <1>4 DEF Detect, Inv

\* The partition starts at the start of the first of valid cores.
LEMMA TakeKeeps ==
    ASSUME WindowAssumption, Inv, NEW cores \in Seq(SampleRange), TakeCores(cores)
    PROVE  Inv'
<1>1. utterances = <<>> /\ windows = <<>> /\ step = "detect"
  BY DEF TakeCores, Inv, Progress, Before
<1>2. CASE ~ValidCores(cores)
  <2>1. Types'
    BY <1>2 DEF TakeCores, Inv, Types, source, audio, parts, Steps
  <2>2. Progress'
    BY <1>1, <1>2, <2>1 DEF TakeCores, Progress, Before, After, Partitioning, parts, Types
  <2> QED BY <1>2, <2>1, <2>2 DEF TakeCores, Inv
<1>3. CASE ValidCores(cores)
  <2>1. cores # <<>> => cores[1] \in SampleRange
    OBVIOUS
  <2>2. /\ detected' = cores /\ step' = "partition" /\ error' = error /\ total' = total
        /\ cursor' = IF cores = <<>> THEN 0 ELSE cores[1].start
        /\ UNCHANGED <<rate, frames, windows, utterances>>
    BY <1>3 DEF TakeCores, Goto, source, audio
  <2>3. Types'
    BY <2>1, <2>2 DEF Inv, Types, Steps, SampleRange
  <2>4. ValidCores(detected)'
    BY <1>3, <2>2 DEF ValidCores
  <2>5. ASSUME Partitioning' PROVE Cut'
    <3>1. cores # <<>> /\ Core' = cores[1] /\ cursor' = cores[1].start
      BY <1>1, <2>2, <2>5 DEF Partitioning, Core
    <3>2. 1 \in DOMAIN cores /\ cores[1].start \in Nat
      BY <3>1, <2>1 DEF SampleRange
    <3>3. cores[1].start < cores[1].end
      BY <3>2, <1>3 DEF ValidCores
    <3> QED
      BY <1>1, <2>2, <3>1, <3>2, <3>3 DEF Cut, Tiles
  <2>6. Progress'
    BY <1>1, <2>2, <2>3, <2>4, <2>5 DEF Progress, Before, Types
  <2> QED BY <2>2, <2>3, <2>6 DEF Inv
<1> QED BY <1>2, <1>3

\* The window of this iteration, up to b, fits the provider.
LEMMA WindowFits ==
    ASSUME WindowAssumption, Types, InferenceStart \in Nat,
           NEW b \in Nat, NEW ib \in Nat,
           ib = Least(b + Padding, total), ib - InferenceStart <= MaxWindow,
           NEW w, w = Window(cursor, b, InferenceStart, ib)
    PROVE  FitsProvider(w)
<1>1. cursor \in Nat
  BY DEF Types
<1>2. w.core.start = cursor /\ w.core.end = b
      /\ w.inference.start = InferenceStart /\ w.inference.end = ib
  BY DEF Window, Samples
<1>3. w.inference.end - w.inference.start <= MaxWindow
  BY <1>2
<1>4. w.inference.start = MinusOrZero(w.core.start, Padding)
  BY <1>2 DEF InferenceStart
<1>5. w.inference.end = Least(w.core.end + Padding, total)
  BY <1>2
<1> QED
  BY <1>3, <1>4, <1>5 DEF FitsProvider

\* Appending a window that starts at the cursor keeps what Cut says of the windows.
LEMMA CutAppend ==
    ASSUME WindowAssumption, Types, Cut, Core \in SampleRange, InferenceStart \in Nat,
           NEW b \in Nat, NEW ib \in Nat, cursor < b,
           ib = Least(b + Padding, total), ib - InferenceStart <= MaxWindow,
           NEW w, w = Window(cursor, b, InferenceStart, ib),
           NEW new, new = Append(windows, w)
    PROVE  /\ new \in Seq(ProviderWindow)
           /\ Tiles(new, Core.start, b)
           /\ \A k \in DOMAIN new : FitsProvider(new[k])
<1>1. cursor \in Nat /\ windows \in Seq(ProviderWindow) /\ Core.start \in Nat
  BY DEF Types, SampleRange
<1>2. w \in ProviderWindow /\ w.core.start = cursor /\ w.core.end = b
  BY <1>1 DEF Window, Samples, ProviderWindow, SampleRange
<1>3. FitsProvider(w)
  BY WindowFits
<1>4. new \in Seq(ProviderWindow) /\ Len(new) = Len(windows) + 1
      /\ new[Len(windows) + 1] = w /\ \A k \in DOMAIN windows : new[k] = windows[k]
  BY <1>1, <1>2
<1>5. Tiles(new, Core.start, b)
  <2>1. Tiles(windows, Core.start, cursor)
    BY DEF Cut
  <2> QED
    BY <1>1, <1>2, <2>1, TilesAppend
<1>6. \A k \in DOMAIN new : FitsProvider(new[k])
  <2> TAKE k \in DOMAIN new
  <2>1. k \in DOMAIN windows \/ k = Len(windows) + 1
    BY <1>1, <1>4
  <2> QED BY <2>1, <1>3, <1>4 DEF Cut
<1> QED BY <1>4, <1>5, <1>6

\* A split stays in its core and moves the cursor.
LEMMA SplitKeeps ==
    ASSUME WindowAssumption, Inv, EmitSplit
    PROVE  Inv'
<1>1. Partitioning /\ ~FitsWindow /\ step = "partition" /\ Cut /\ ValidCores(detected) /\ Types
  BY DEF EmitSplit, Partitioning, Inv, Progress, After
<1>2. Core \in SampleRange /\ Core.end <= total /\ total \in Nat /\ cursor \in Nat
      /\ Core.start <= cursor /\ cursor < Core.end
  BY <1>1, CoreInside DEF Types, Cut
<1>3. PICK b \in Boundaries : IF Refused(b) THEN Fail("range") ELSE SplitAt(b)
  BY DEF EmitSplit
<1>4. ~Refused(b)
  BY <1>1, <1>2, NotRefused
<1>5. SplitAt(b)
  BY <1>3, <1>4
<1>6. b \in Nat /\ cursor < b /\ b <= LatestSafe
  BY <1>1, <1>2, BoundaryInside
<1>7. LatestSafe \in Nat /\ LatestSafe < Core.end /\ LatestSafe + Padding <= total
      /\ LatestSafe + Padding - InferenceStart = MaxWindow /\ InferenceStart \in Nat
  BY <1>1, <1>2, LatestSafeInside
<1>8. Padding \in Nat /\ MaxWindow \in Nat
  BY DEF WindowAssumption
<1>9. b + Padding \in Nat /\ b + Padding <= total /\ b + Padding - InferenceStart <= MaxWindow
      /\ b < Core.end
  BY <1>2, <1>6, <1>7, <1>8 DEF SampleRange
<1>10. b + Padding = Least(b + Padding, total)
  BY <1>2, <1>9 DEF Least
<1> DEFINE ib == b + Padding
           w == Window(cursor, b, InferenceStart, ib)
           new == Append(windows, w)
<1> HIDE DEF ib, w, new
<1>11. /\ new \in Seq(ProviderWindow)
       /\ Tiles(new, Core.start, b)
       /\ \A k \in DOMAIN new : FitsProvider(new[k])
  <2>1. new = Append(windows, w) /\ w = Window(cursor, b, InferenceStart, ib)
    BY DEF new, w
  <2>2. ib = b + Padding
    BY DEF ib
  <2>3. ib \in Nat /\ ib - InferenceStart <= MaxWindow
    BY <1>6, <1>7, <1>8, <1>9, <2>2
  <2>4. ib = Least(b + Padding, total)
    BY <1>10, <2>2
  <2> QED
    BY <1>1, <1>2, <1>6, <1>7, <2>1, <2>3, <2>4, CutAppend
<1>12. /\ cursor' = b /\ windows' = new /\ step' = step /\ error' = error
       /\ UNCHANGED <<rate, frames, total, detected, utterances>>
  BY <1>5 DEF SplitAt, source, audio, new, w, ib
<1>13. Types'
  BY <1>1, <1>6, <1>11, <1>12 DEF Types
<1>14. Core' = Core
  BY <1>12 DEF Core
<1>15. Cut'
  BY <1>2, <1>6, <1>9, <1>11, <1>12, <1>14 DEF Cut, Tiles, FitsProvider, SampleRange
<1>16. (\A i \in DOMAIN utterances : Covered(utterances[i], detected[i]))'
  BY <1>12 DEF Inv, Progress, Covered, Tiles, FitsProvider
<1>17. Progress'
  BY <1>1, <1>12, <1>15, <1>16 DEF Inv, Progress, Partitioning, Before, After, ValidCores
<1> QED BY <1>12, <1>13, <1>17 DEF Inv

\* The last window of a core completes its utterance; the next core is untouched.
LEMMA TailKeeps ==
    ASSUME WindowAssumption, Inv, EmitTail
    PROVE  Inv'
<1>1. Partitioning /\ FitsWindow /\ step = "partition" /\ Cut /\ ValidCores(detected) /\ Types
  BY DEF EmitTail, Partitioning, Inv, Progress, After
<1>2. Core \in SampleRange /\ Core.end <= total /\ total \in Nat /\ cursor \in Nat
      /\ Core.start \in Nat /\ Core.end \in Nat /\ cursor < Core.end
  BY <1>1, CoreInside DEF Types, Cut, SampleRange
<1>3. Padding \in Nat /\ MaxWindow \in Nat
  BY DEF WindowAssumption
<1>4. InferenceStart \in Nat /\ PaddedEnd \in Nat /\ PaddedEnd = Least(Core.end + Padding, total)
  BY <1>2, <1>3 DEF InferenceStart, MinusOrZero, PaddedEnd, Least
<1>5. PaddedEnd - InferenceStart <= MaxWindow
  BY <1>1 DEF FitsWindow
<1> DEFINE w == Window(cursor, Core.end, InferenceStart, PaddedEnd)
           new == Append(windows, w)
           u == [evidence |-> Core, windows |-> new]
<1> HIDE DEF w, new
<1>6. /\ new \in Seq(ProviderWindow)
      /\ Tiles(new, Core.start, Core.end)
      /\ \A k \in DOMAIN new : FitsProvider(new[k])
  <2>1. new = Append(windows, w) /\ w = Window(cursor, Core.end, InferenceStart, PaddedEnd)
    BY DEF new, w
  <2> QED
    BY <1>1, <1>2, <1>4, <1>5, <2>1, CutAppend
<1>7. u \in EvidenceUtterance /\ Covered(u, Core)
  BY <1>2, <1>6 DEF EvidenceUtterance, Covered
<1>8. u.evidence = Core
  OBVIOUS
<1>9. /\ utterances' = Append(utterances, u) /\ windows' = <<>>
      /\ cursor' = IF Len(utterances) + 1 < Len(detected) THEN detected[Len(utterances) + 2].start ELSE cursor
      /\ step' = step /\ error' = error /\ UNCHANGED <<rate, frames, total, detected>>
  BY DEF EmitTail, source, audio, new, w
<1> HIDE DEF u
<1>10. utterances \in Seq(EvidenceUtterance) /\ Len(utterances) < Len(detected)
  BY <1>1 DEF Types, Partitioning
<1>11. /\ Append(utterances, u) \in Seq(EvidenceUtterance)
       /\ Len(Append(utterances, u)) = Len(utterances) + 1
       /\ Append(utterances, u)[Len(utterances) + 1] = u
       /\ \A i \in DOMAIN utterances : Append(utterances, u)[i] = utterances[i]
  BY <1>7, <1>10
<1>12. \A i \in DOMAIN detected : detected[i].start \in Nat /\ detected[i].end \in Nat
  <2> TAKE i \in DOMAIN detected
  <2>1. detected[i] \in SampleRange
    BY <1>1 DEF Types
  <2> QED BY <2>1 DEF SampleRange
<1>13. Types'
  <2>1. cursor' \in Nat
    BY <1>2, <1>9, <1>10, <1>12 DEF Types
  <2>2. windows' \in Seq(ProviderWindow)
    BY <1>9
  <2> QED
    BY <1>1, <1>9, <1>11, <2>1, <2>2 DEF Types
<1>14. (\A i \in DOMAIN utterances : Covered(utterances[i], detected[i]))'
  <2> SUFFICES ASSUME NEW i \in DOMAIN Append(utterances, u)
               PROVE  Covered(Append(utterances, u)[i], detected[i])
    <3>1. utterances' = Append(utterances, u) /\ detected' = detected /\ total' = total
      BY <1>9
    <3> DEFINE longer == Append(utterances, u)
    <3> HIDE DEF longer
    <3>2. utterances' = longer /\ \A i \in DOMAIN longer : Covered(longer[i], detected[i])
      BY <3>1 DEF longer
    <3>3. ASSUME NEW i \in DOMAIN longer PROVE Covered(utterances[i], detected[i])'
      <4>1. Covered(longer[i], detected[i])
        BY <3>2, <3>3
      <4> QED
        BY <3>1, <3>2, <4>1 DEF Covered, Tiles, FitsProvider
    <3> QED
      BY <3>2, <3>3
  <2>1. CASE i \in DOMAIN utterances
    <3>1. Append(utterances, u)[i] = utterances[i]
      BY <2>1, <1>11
    <3>2. Covered(utterances[i], detected[i])
      BY <2>1 DEF Inv, Progress
    <3> QED BY <3>1, <3>2
  <2>2. CASE i = Len(utterances) + 1
    BY <2>2, <1>7, <1>11 DEF Core
  <2> QED BY <2>1, <2>2, <1>10, <1>11
<1>15. ASSUME Partitioning' PROVE Cut'
  <2>1. Len(utterances) + 2 \in DOMAIN detected /\ Len(utterances)' = Len(utterances) + 1
    BY <1>9, <1>10, <1>11, <1>15, <1>1 DEF Partitioning, Types
  <2>2. Core' = detected[Len(utterances) + 2] /\ cursor' = detected[Len(utterances) + 2].start
    BY <1>9, <1>10, <2>1 DEF Core
  <2>3. detected[Len(utterances) + 2].start < detected[Len(utterances) + 2].end
    BY <1>1, <2>1 DEF ValidCores
  <2> QED
    BY <1>9, <1>12, <2>1, <2>2, <2>3 DEF Cut, Tiles
<1>16. Progress'
  BY <1>1, <1>9, <1>10, <1>11, <1>14, <1>15 DEF Inv, Progress, Before, After, ValidCores, Types
<1> QED BY <1>9, <1>13, <1>16 DEF Inv

\* What follows the partition leaves its result alone.
LEMMA LaterKeeps ==
    ASSUME WindowAssumption, Inv, PartitionEnds \/ Transcribe \/ Publish \/ Cancel
    PROVE  Inv'
<1>1. CASE PartitionEnds
  <2>1. Types'
    BY <1>1 DEF PartitionEnds, Goto, Inv, Types, source, audio, parts, Steps
  <2>2. (\A i \in DOMAIN utterances : Covered(utterances[i], detected[i]))'
    BY <1>1 DEF PartitionEnds, Inv, Progress, Covered, Tiles, FitsProvider, parts, audio
  <2>3. Progress'
    BY <1>1, <2>2 DEF PartitionEnds, Goto, Inv, Progress, Before, After, ValidCores, Partitioning, parts, audio
  <2> QED BY <1>1, <2>1, <2>3 DEF PartitionEnds, Goto, Inv
<1>2. CASE Transcribe
  <2>1. CASE Fail("cancelled") \/ Fail("provider")
    BY <2>1, FailKeeps
  <2>2. CASE ~(Fail("cancelled") \/ Fail("provider"))
    BY <1>2, <2>2, PartsKept DEF Transcribe, Inv, Types, source, audio, parts
  <2> QED BY <2>1, <2>2
<1>3. CASE Publish
  <2>1. CASE Fail("cancelled") \/ Fail("silent") \/ Fail("exceeds")
    BY <2>1, FailKeeps
  <2>2. CASE ~(Fail("cancelled") \/ Fail("silent") \/ Fail("exceeds"))
    <3>1. /\ step = "transcribe" /\ step' = "published" /\ error' = error /\ parts' = parts
          /\ detected' = detected /\ total' = total /\ rate' = rate /\ frames' = frames
      BY <1>3, <2>2 DEF Publish, Goto, source, audio
    <3>2. Types'
      BY <3>1 DEF Inv, Types, parts, Steps
    <3> QED BY <3>1, <3>2, PartsKept DEF Inv
  <2> QED BY <2>1, <2>2
<1>4. CASE Cancel
  BY <1>4, PartsKept DEF Cancel, Inv, Types, source, audio, parts
<1> QED BY <1>1, <1>2, <1>3, <1>4

LEMMA StepKeeps ==
    ASSUME WindowAssumption, Inv, [WNext]_wvars
    PROVE  Inv'
<1>1. CASE UNCHANGED wvars
  BY <1>1, PartsKept DEF wvars, source, audio, parts, Inv, Types
<1>2. CASE DetectorFails
  BY <1>2, FailKeeps DEF DetectorFails
<1>3. CASE DetectEnds
  <2> DEFINE cores == IF vad THEN detected ELSE <<Samples(0, total)>>
  <2>1. cores \in Seq(SampleRange)
    <3>1. Samples(0, total) \in SampleRange
      BY DEF Inv, Types, Samples, SampleRange
    <3>2. <<Samples(0, total)>> \in Seq(SampleRange)
      BY <3>1
    <3> QED BY <3>2 DEF Inv, Types
  <2> QED BY <1>3, <2>1, TakeKeeps DEF DetectEnds
<1> QED
  BY <1>1, <1>2, <1>3, DecodeKeeps, DetectKeeps, SplitKeeps, TailKeeps, LaterKeeps
     DEF WNext, Thread

-----------------------------------------------------------------------------
(* The budget of the decoder, and what resampling makes of it.             *)

LEMMA CeilBelow ==
    ASSUME NEW x \in Nat, NEW r \in Nat \ {0}, NEW k \in Nat, x <= r * k
    PROVE  Ceil(x, r) <= k
<1> DEFINE q == (x + r - 1) \div r
<1>1. q \in Int /\ r * q <= x + r - 1
  BY SMTT(20)
<1>2. SUFFICES ASSUME q >= k + 1 PROVE FALSE
  BY <1>1 DEF Ceil
<1> HIDE DEF q
<1>3. r * (k + 1) <= r * q
  BY <1>1, <1>2, SMTT(20)
<1>4. r * (k + 1) = r * k + r
  BY SMTT(20)
<1> QED BY <1>1, <1>3, <1>4, SMTT(20)

LEMMA Scaled ==
    ASSUME NEW n \in Nat, NEW r \in Nat, NEW m \in Nat, NEW w \in Nat, n <= r * m
    PROVE  n * w <= r * (w * m)
<1>1. ASSUME NEW x \in Nat, NEW y \in Nat, x <= y PROVE x * w <= y * w
  BY <1>1, SMTT(20)
<1>2. (r * m) * w = r * (w * m)
  BY SMTT(20)
<1>3. r * m \in Nat
  BY SMTT(20)
<1> QED BY <1>1, <1>2, <1>3

\* Frames within the budget resample to samples within theirs.
LEMMA ResampledFits ==
    ASSUME WindowAssumption, NEW r \in Nat \ {0}, NEW n \in Nat, n <= r * MaxSeconds
    PROVE  Ceil(n * WorkRate, r) <= WorkRate * MaxSeconds
<1>1. WorkRate \in Nat /\ MaxSeconds \in Nat
  BY SMTT(20) DEF WindowAssumption, WorkRate
<1>2. n * WorkRate \in Nat /\ WorkRate * MaxSeconds \in Nat
  BY <1>1, SMTT(20)
<1>3. n * WorkRate <= r * (WorkRate * MaxSeconds)
  BY <1>1, Scaled
<1> QED BY <1>2, <1>3, CeilBelow

Budget == frames <= rate * MaxSeconds /\ error # "resample"

LEMMA BudgetKept ==
    ASSUME WindowAssumption, Inv, Budget, [WNext]_wvars
    PROVE  Budget'
<1>1. rate \in Nat \ {0} /\ frames \in Nat
  BY DEF Inv, Types
<1>2. CASE DecodeEnds
  <2>1. ~(Resampled(frames) > WorkRate * MaxSeconds)
    <3>1. Resampled(frames) <= WorkRate * MaxSeconds
      BY <1>1, ResampledFits DEF Budget, Resampled
    <3>2. Resampled(frames) \in Int /\ WorkRate * MaxSeconds \in Int
      <4>1. WorkRate \in Nat
        BY SMTT(20) DEF WindowAssumption, WorkRate
      <4>2. frames * WorkRate \in Nat /\ WorkRate * MaxSeconds \in Nat
        BY <1>1, <4>1, SMTT(20) DEF WindowAssumption
      <4> QED BY <1>1, <4>2, CeilNat DEF Resampled
    <3> QED BY <3>1, <3>2
  <2> QED
    BY <1>2, <2>1 DEF DecodeEnds, Fail, Goto, Budget, source, audio
<1>3. ASSUME NEW n \in Packets, DecodePacket(n) PROVE Budget'
  BY <1>3 DEF DecodePacket, FitsBudget, Fail, Budget, source, audio
<1>4. CASE \/ DecodeFails \/ DetectorFails \/ DetectEnds \/ (\E r \in Ranges(Marks) : Detect(r))
  BY <1>4 DEF DecodeFails, DetectorFails, DetectEnds, TakeCores, Detect, Fail, Goto, Budget, source, audio
<1>5. CASE EmitTail \/ EmitSplit \/ PartitionEnds
  BY <1>5 DEF EmitTail, EmitSplit, SplitAt, PartitionEnds, Fail, Goto, Budget, source, audio
<1>6. CASE Transcribe \/ Publish \/ Cancel
  BY <1>6 DEF Transcribe, Publish, Cancel, Fail, Goto, Budget, source, audio
<1>7. CASE UNCHANGED wvars
  BY <1>7 DEF wvars, Budget, source, audio
<1> QED
  BY <1>2, <1>3, <1>4, <1>5, <1>6, <1>7 DEF WNext, Thread

-----------------------------------------------------------------------------
(* The times of what is published.                                         *)

\* What the times of the segments rest on: the working audio is the resampled one, the
\* one core without a detector is all of it, and the segments are the utterances'.
Times ==
    /\ step \in After \cup {"detect"} => total = Resampled(frames)
    /\ step \in After /\ ~vad => detected = <<Samples(0, total)>>
    /\ step = "published" => segments = Published

\* A step that leaves the source, the audio and the cores alone and publishes nothing.
LEMMA TimesKept ==
    ASSUME Inv, Times, UNCHANGED <<source, frames, total, detected>>,
           \/ step' = "failed"
           \/ step' = step /\ step # "published"
           \/ step' = step /\ UNCHANGED <<segments, parts>>
           \/ step = "partition" /\ step' = "transcribe"
    PROVE  Times'
<1>1. (step \in After \cup {"detect"} => total = Resampled(frames))'
  BY DEF Times, Resampled, source, After
<1>2. (step \in After /\ ~vad => detected = <<Samples(0, total)>>)'
  BY DEF Times, source, After
<1>3. (step = "published" => segments = Published)'
  BY DEF Times, Published, parts
<1> QED BY <1>1, <1>2, <1>3 DEF Times

LEMMA TimesStep ==
    ASSUME Inv, Times, [WNext]_wvars
    PROVE  Times'
<1>1. ASSUME NEW e, Fail(e) PROVE Times'
  BY <1>1, TimesKept DEF Fail, audio
<1>2. CASE DecodeFails \/ DetectorFails
  BY <1>1, <1>2 DEF DecodeFails, DetectorFails
<1>3. ASSUME NEW n \in Packets, DecodePacket(n) PROVE Times'
  BY <1>1, <1>3 DEF DecodePacket, Times, After
<1>4. CASE DecodeEnds
  <2>1. CASE Fail("audio") \/ Fail("resample")
    BY <1>1, <2>1
  <2>2. CASE total' = Resampled(frames) /\ step' = "detect" /\ UNCHANGED <<source, frames>>
    BY <2>2 DEF Times, After, Resampled, source
  <2> QED
    BY <1>4, <2>1, <2>2 DEF DecodeEnds, Goto
<1>5. ASSUME NEW r \in Ranges(Marks), Detect(r) PROVE Times'
  BY <1>5 DEF Detect, Times, After, Resampled, source, audio
<1>6. CASE DetectEnds
  BY <1>6 DEF DetectEnds, TakeCores, Goto, Times, After, Resampled, source, audio
<1>7. CASE EmitTail
  BY <1>7, TimesKept DEF EmitTail, Partitioning, audio
<1>8. CASE EmitSplit
  <2>1. PICK b \in Boundaries : IF Refused(b) THEN Fail("range") ELSE SplitAt(b)
    BY <1>8 DEF EmitSplit
  <2>2. CASE Fail("range")
    BY <1>1, <2>2
  <2>3. CASE SplitAt(b)
    BY <1>8, <2>3, TimesKept DEF EmitSplit, SplitAt, Partitioning, audio
  <2> QED BY <2>1, <2>2, <2>3
<1>9. CASE PartitionEnds
  BY <1>9, TimesKept DEF PartitionEnds, Goto, audio
<1>10. CASE Transcribe
  <2>1. CASE Fail("cancelled") \/ Fail("provider")
    BY <1>1, <2>1
  <2>2. CASE ~(Fail("cancelled") \/ Fail("provider"))
    BY <1>10, <2>2, TimesKept DEF Transcribe, audio
  <2> QED BY <2>1, <2>2
<1>11. CASE Publish
  <2>1. CASE Fail("cancelled") \/ Fail("silent") \/ Fail("exceeds")
    BY <1>1, <2>1
  <2>2. CASE ~(Fail("cancelled") \/ Fail("silent") \/ Fail("exceeds"))
    <3>1. /\ step = "transcribe" /\ step' = "published" /\ segments' = Published
          /\ UNCHANGED <<source, audio, detected, parts>>
      BY <1>11, <2>2 DEF Publish, Goto
    <3>2. Published' = Published
      BY <3>1 DEF Published, parts
    <3> QED
      BY <3>1, <3>2 DEF Times, After, Resampled, source, audio
  <2> QED BY <2>1, <2>2
<1>12. CASE Cancel \/ UNCHANGED wvars
  BY <1>12, TimesKept DEF Cancel, wvars, audio, parts
<1> QED
  BY <1>2, <1>3, <1>4, <1>5, <1>6, <1>7, <1>8, <1>9, <1>10, <1>11, <1>12 DEF WNext, Thread

\* A ceiling reaches what it rounds.
LEMMA CeilReaches ==
    ASSUME NEW x \in Nat, NEW r \in Nat \ {0}
    PROVE  x <= r * Ceil(x, r)
<1> DEFINE q == (x + r - 1) \div r
<1>1. q \in Int /\ x + r - 1 < r * q + r
  BY SMTT(20)
<1>2. r * q \in Int
  BY <1>1, SMTT(20)
<1> HIDE DEF q
<1>3. x <= r * q
  BY <1>1, <1>2
<1> QED BY <1>3 DEF Ceil, q

LEMMA CeilMonotone ==
    ASSUME NEW x \in Nat, NEW y \in Nat, NEW r \in Nat \ {0}, x <= y
    PROVE  Ceil(x, r) <= Ceil(y, r)
<1>1. Ceil(y, r) \in Nat
  BY CeilNat
<1>2. y <= r * Ceil(y, r) /\ r * Ceil(y, r) \in Int
  BY <1>1, CeilReaches, SMTT(20)
<1>3. x <= r * Ceil(y, r)
  BY <1>2
<1> QED BY <1>1, <1>3, CeilBelow

LEMMA FloorBounds ==
    ASSUME NEW x \in Nat, NEW r \in Nat \ {0}
    PROVE  x \div r \in Nat /\ r * (x \div r) <= x /\ x < r * (x \div r + 1)
BY SMTT(20)

\* A range that is not empty stays so in milliseconds: its start is rounded down, its
\* end up.
LEMMA RoundedApart ==
    ASSUME NEW x \in Nat, NEW y \in Nat, NEW r \in Nat \ {0}, x < y
    PROVE  x \div r < Ceil(y, r)
<1>1. Ceil(y, r) \in Nat /\ x \div r \in Nat
  BY CeilNat, FloorBounds
<1>2. y <= r * Ceil(y, r) /\ r * (x \div r) <= x
  BY CeilReaches, FloorBounds
<1>3. SUFFICES ASSUME Ceil(y, r) <= x \div r PROVE FALSE
  BY <1>1
<1>4. ASSUME NEW p \in Nat, NEW q \in Nat, p <= q PROVE r * p <= r * q /\ r * p \in Int /\ r * q \in Int
  BY <1>4, SMTT(20)
<1>5. r * Ceil(y, r) <= r * (x \div r) /\ r * Ceil(y, r) \in Int /\ r * (x \div r) \in Int
  BY <1>1, <1>3, <1>4
<1> QED BY <1>2, <1>5

\* Of two ranges in order, both may round to the millisecond between them, no further.
LEMMA RoundedInOrder ==
    ASSUME NEW x \in Nat, NEW y \in Nat, NEW r \in Nat \ {0}, x <= y
    PROVE  Ceil(x, r) <= y \div r + 1
<1>1. y \div r \in Nat /\ y < r * (y \div r + 1)
  BY FloorBounds
<1>2. r * (y \div r + 1) \in Int
  BY <1>1, SMTT(20)
<1>3. x <= r * (y \div r + 1) /\ y \div r + 1 \in Nat
  BY <1>1, <1>2
<1> QED BY <1>3, CeilBelow

\* Rounding up to samples and then to milliseconds is rounding up once.
LEMMA CeilOfCeil ==
    ASSUME NEW w \in Nat, NEW f \in Nat \ {0}, NEW r \in Nat \ {0}
    PROVE  Ceil(Ceil(f * w, r), f) = Ceil(w, r)
<1> DEFINE t == Ceil(f * w, r)
           k == Ceil(w, r)
           j == Ceil(t, f)
<1>1. w \in Nat
  OBVIOUS
<1>2. f * w \in Nat
  BY <1>1, SMTT(20)
<1>3. t \in Nat /\ k \in Nat
  BY <1>1, <1>2, CeilNat
<1>4. f * w <= r * t /\ w <= r * k
  BY <1>1, <1>2, CeilReaches
<1> HIDE DEF t, k
<1>5. j \in Nat /\ t <= f * j
  BY <1>3, CeilNat, CeilReaches
<1> HIDE DEF j
<1>6. j <= k
  <2>1. f * w <= f * (r * k) /\ f * (r * k) = r * (f * k) /\ f * k \in Nat
    <3>1. r * k \in Nat /\ f * k \in Nat
      BY <1>3, SMTT(20)
    <3>2. ASSUME NEW p \in Nat, NEW q \in Nat, p <= q PROVE f * p <= f * q
      BY <3>2, SMTT(20)
    <3>3. f * (r * k) = r * (f * k)
      BY <1>3, SMTT(20)
    <3> QED BY <1>1, <1>4, <3>1, <3>2, <3>3
  <2>2. t <= f * k
    BY <1>2, <2>1, CeilBelow DEF t
  <2> QED BY <1>3, <2>2, CeilBelow DEF j
<1>7. k <= j
  <2>1. r * t <= r * (f * j) /\ r * (f * j) = f * (r * j) /\ r * j \in Nat
    <3>1. r * j \in Nat /\ f * j \in Nat
      BY <1>5, SMTT(20)
    <3>2. ASSUME NEW p \in Nat, NEW q \in Nat, p <= q PROVE r * p <= r * q
      BY <3>2, SMTT(20)
    <3>3. r * (f * j) = f * (r * j)
      BY <1>5, SMTT(20)
    <3> QED BY <1>3, <1>5, <3>1, <3>2, <3>3
  <2>2. f * w <= f * (r * j)
    <3>1. r * t \in Nat /\ f * (r * j) \in Nat
      BY <1>3, <2>1, SMTT(20)
    <3> QED BY <1>2, <1>4, <2>1, <3>1
  <2>3. ASSUME NEW p \in Nat, NEW q \in Nat, f * p <= f * q PROVE p <= q
    <3>1. SUFFICES ASSUME p >= q + 1 PROVE FALSE
      OBVIOUS
    <3>2. f * (q + 1) <= f * p /\ f * (q + 1) = f * q + f
      BY <3>1, SMTT(20)
    <3>3. f * q \in Nat /\ f * p \in Nat
      BY SMTT(20)
    <3> QED BY <2>3, <3>2, <3>3
  <2>4. w <= r * j
    BY <1>1, <2>1, <2>2, <2>3
  <2> QED BY <1>1, <1>5, <2>4, CeilBelow DEF k
<1> QED
  BY <1>3, <1>5, <1>6, <1>7 DEF j, t, k

LEMMA MillisecondsOfResampled ==
    ASSUME WindowAssumption, NEW n \in Nat, NEW r \in Nat \ {0}
    PROVE  Ceil(Ceil(n * WorkRate, r), FramesPerMs) = Ceil(n * MsPerSecond, r)
<1> DEFINE f == FramesPerMs
           w == n * MsPerSecond
<1>1. f \in Nat \ {0} /\ MsPerSecond \in Nat
  BY DEF WindowAssumption
<1>2. w \in Nat /\ n * (f * MsPerSecond) = f * w
  BY <1>1, SMTT(20)
<1> HIDE DEF f, w
<1>3. Ceil(Ceil(f * w, r), f) = Ceil(w, r)
  BY <1>1, <1>2, CeilOfCeil
<1>4. n * WorkRate = f * w
  BY <1>2 DEF WorkRate, f
<1> QED BY <1>3, <1>4, Zenon DEF f, w

\* So the working audio, in milliseconds, is as long as what was decoded.
LEMMA DecodedLength ==
    ASSUME WindowAssumption, Inv, Times, step = "published"
    PROVE  Ceil(total, FramesPerMs) = DecodedMs
<1>1. total = Resampled(frames)
  BY DEF Times, After
<1>2. rate \in Nat \ {0} /\ frames \in Nat
  BY DEF Inv, Types
<1> QED
  BY <1>1, <1>2, MillisecondsOfResampled DEF DecodedMs, Resampled

\* What is published is sound.
LEMMA SoundTimes ==
    ASSUME WindowAssumption, Inv, Times
    PROVE  TimesAreSound
<1> SUFFICES ASSUME step = "published" PROVE TimesAreSound
  BY DEF TimesAreSound
<1>1. FramesPerMs \in Nat \ {0} /\ total \in Nat
  BY DEF WindowAssumption, Inv, Types
<1>2. ValidCores(detected) /\ Len(utterances) = Len(detected)
      /\ utterances \in Seq(EvidenceUtterance) /\ detected \in Seq(SampleRange)
  BY DEF Inv, Progress, After, Types
<1>3. DOMAIN segments = DOMAIN detected
      /\ \A i \in DOMAIN detected : segments[i] = Segment(detected[i])
  <2>1. DOMAIN utterances = DOMAIN detected
    BY <1>2
  <2>2. \A i \in DOMAIN detected : utterances[i].evidence = detected[i]
    BY <2>1 DEF Inv, Progress, Covered
  <2> QED
    BY <2>1, <2>2 DEF Times, Published
<1>4. Len(segments) = Len(detected)
  BY <1>2, <1>3 DEF Times, Published
<1>5. \A i \in DOMAIN detected :
        /\ detected[i].start \in Nat /\ detected[i].end \in Nat
        /\ detected[i].start < detected[i].end /\ detected[i].end <= total
  <2> TAKE i \in DOMAIN detected
  <2>1. detected[i] \in SampleRange
    BY <1>2
  <2> QED BY <1>2, <2>1 DEF SampleRange, ValidCores
<1>6. \A i \in DOMAIN segments :
        0 <= segments[i].start /\ segments[i].start < segments[i].end /\ segments[i].end <= DecodedMs
  <2> TAKE i \in DOMAIN segments
  <2>1. segments[i].start = detected[i].start \div FramesPerMs
        /\ segments[i].end = Ceil(detected[i].end, FramesPerMs)
    BY <1>3 DEF Segment
  <2>2. segments[i].start \in Nat /\ segments[i].start < segments[i].end
    BY <1>1, <1>3, <1>5, <2>1, FloorBounds, RoundedApart
  <2>3. segments[i].end <= DecodedMs
    BY <1>1, <1>3, <1>5, <2>1, CeilMonotone, DecodedLength
  <2> QED BY <2>2, <2>3
<1>7. \A i \in 1 .. Len(segments) - 1 : segments[i].end <= segments[i + 1].start + 1
  <2> TAKE i \in 1 .. Len(segments) - 1
  <2>1. i \in DOMAIN detected /\ i + 1 \in DOMAIN detected /\ i + 1 > 1 /\ (i + 1) - 1 = i
    BY <1>2, <1>4
  <2>2. detected[i].end <= detected[i + 1].start
    BY <1>2, <1>5, <2>1 DEF ValidCores
  <2>3. segments[i].end = Ceil(detected[i].end, FramesPerMs)
        /\ segments[i + 1].start = detected[i + 1].start \div FramesPerMs
    BY <1>3, <2>1 DEF Segment
  <2> QED
    BY <1>1, <1>5, <2>1, <2>2, <2>3, RoundedInOrder
<1>8. ASSUME ~vad PROVE segments = <<[start |-> 0, end |-> DecodedMs]>>
  <2>1. detected = <<Samples(0, total)>>
    BY <1>8 DEF Times, After
  <2>2. DOMAIN detected = {1} /\ detected[1] = [start |-> 0, end |-> total]
    BY <2>1 DEF Samples
  <2>3. segments[1] = [start |-> 0, end |-> DecodedMs]
    <3>1. segments[1] = [start |-> 0 \div FramesPerMs, end |-> Ceil(total, FramesPerMs)]
      BY <1>3, <2>2 DEF Segment
    <3>2. 0 \div FramesPerMs = 0
      BY <1>1, SMTT(20)
    <3> QED BY <3>1, <3>2, DecodedLength
  <2>4. segments = [i \in {1} |-> segments[i]]
    BY <1>2, <1>3, <2>2 DEF Times, Published
  <2> QED
    BY <2>3, <2>4
<1> QED
  BY <1>6, <1>7, <1>8 DEF TimesAreSound

-----------------------------------------------------------------------------
(* Theorems.                                                               *)

\* The invariant holds in every reachable state.
THEOREM WindowInvariance == ASSUME WindowAssumption PROVE WSpec => []Inv
<1>1. WInit => Inv
  BY InitInv
<1>2. Inv /\ [WNext]_wvars => Inv'
  BY StepKeeps
<1> QED
  BY <1>1, <1>2, PTL DEF WSpec

\* However long the audio, whatever the detector reports and the energies select, the
\* windows of a core cover it exactly and fit the provider.
THEOREM WindowsAlwaysCover == ASSUME WindowAssumption PROVE WSpec => []WindowsCover
<1>1. Inv => WindowsCover
  BY DEF Inv, Progress, Covered, WindowsCover
<1> QED
  BY <1>1, WindowInvariance, PTL

\* Whatever the rate of a source and the cores a detector reports, audio within the
\* budget is resampled and a valid core is cut: the checks behind them never fire.
THEOREM NeverRefusesValidAudio == ASSUME WindowAssumption PROVE WSpec => []NeverRefused
<1>1. WInit => Budget
  <2>1. ASSUME WInit PROVE rate \in Nat /\ frames = 0 /\ error = "none"
    BY <2>1 DEF WInit, WindowAssumption
  <2>2. ASSUME WInit PROVE rate * MaxSeconds \in Nat
    BY <2>1, <2>2, SMTT(20) DEF WindowAssumption
  <2> QED BY <2>1, <2>2 DEF Budget
<1>2. Inv /\ Budget /\ [WNext]_wvars => Budget'
  BY BudgetKept
<1>3. Inv /\ Budget => NeverRefused
  BY DEF Inv, Budget, NeverRefused
<1> QED
  BY <1>1, <1>2, <1>3, WindowInvariance, PTL DEF WSpec

\* Whatever the rate of the source, the segments lie within the decoded audio, follow
\* each other up to the shared millisecond, and without a detector are all of it.
THEOREM TimesAlwaysSound == ASSUME WindowAssumption PROVE WSpec => []TimesAreSound
<1>1. WInit => Times
  BY DEF WInit, Times, After
<1>2. Inv /\ Times /\ [WNext]_wvars => Times'
  BY TimesStep
<1>3. Inv /\ Times => TimesAreSound
  BY SoundTimes
<1> QED
  BY <1>1, <1>2, <1>3, WindowInvariance, PTL DEF WSpec
=============================================================================
