--------------------------- MODULE Sealing_proofs ---------------------------
(***************************************************************************)
(* Proofs about Sealing and, at the end, about CaptureCommit, the worker   *)
(* that calls it.  The safety properties of a seal speak of every state a  *)
(* power loss may leave; what makes them inductive is what the sealer      *)
(* knows at each of its steps about all of those states (Known), because   *)
(* Reconcile, SyncIntent, SyncAudio and SyncRestore made them agree.       *)
(***************************************************************************)
EXTENDS CaptureCommit, TLAPS

\* The steps at which the audio may be under its final name without a row.
Away == {"validate", "syncAudio", "insert", "restore", "syncRestore"}

Busy(c) == claim # None /\ Mine = c /\ at \in Away

\* What the step of a call knows of the row and of the files of its chunk.
RowKnown ==
    /\ at \in Steps \ {"reconcile", "lookup", "retire"} => row[Mine] = None
    /\ at = "retire" => row[Mine] = claim

PlaceKnown ==
    /\ at = "lookup" =>
         \A s \in disk : s[Mine].place = "final" <=> fs[Mine].place = "final"
    /\ at \in {"open", "writeIntent", "nameIntent", "syncIntent", "check", "publish",
               "withdraw", "abandon"} => \A s \in disk : s[Mine].place # "final"
    /\ at \in {"adopt", "validate", "syncAudio", "insert", "restore"} =>
         fs[Mine].place = "final"
    /\ at = "syncRestore" => fs[Mine].place # "final"

AudioKnown ==
    /\ at \in {"syncAudio", "insert", "insertAdopted"} => Verified
    /\ at \in {"insert", "insertAdopted"} =>
         \A s \in disk : s[Mine].place = "final" /\ s[Mine].file = "recorded"

IntentKnown ==
    /\ at \in {"lookup", "open"} => \A s \in disk : s[Mine].intent = fs[Mine].intent
    /\ at = "syncIntent" => fs[Mine].intent = claim
    /\ at \in {"check", "publish"} \cup Away => \A s \in disk : s[Mine].intent = claim

Known == claim # None => RowKnown /\ PlaceKnown /\ AudioKnown /\ IntentKnown

Calling == claim = None <=> at \in {"idle", "down"}

Registrations ==
    \A c \in Chunks : row[c] # None =>
        /\ row[c] \in Truthful /\ ChunkOf[row[c]] = c
        /\ \A s \in disk : s[c].place = "final" /\ s[c].file = "recorded"

Orphans ==
    \A c \in Chunks : \A s \in disk : Orphan(s, c) =>
        /\ s[c].intent # None
        /\ ~Busy(c) => c \in warned

Inv ==
    /\ TypeOK
    /\ fs \in disk
    /\ Calling
    /\ Known
    /\ Registrations
    /\ Orphans
    /\ AckedIsRegistered

\* The initial state satisfies the invariant.
LEMMA InitInv == ASSUME SealingAssumption, Init PROVE Inv
  BY DEF SealingAssumption, Init, Inv, TypeOK, Entry, Steps, Calling, Known, Registrations,
         Orphans, Orphan, AckedIsRegistered

\* What changing the intent of one chunk does to fs.
LEMMA IntentUpdate ==
    ASSUME NEW f \in [Chunks -> Entry], NEW k \in Chunks, NEW i \in Claims \cup {None},
           NEW g, g = [f EXCEPT ![k].intent = i]
    PROVE  /\ g \in [Chunks -> Entry]
           /\ \A c \in Chunks : g[c].place = f[c].place /\ g[c].file = f[c].file
           /\ g[k].intent = i
           /\ \A c \in Chunks : c # k => g[c] = f[c]
  BY DEF Entry

\* What a rename of one chunk does to fs.
LEMMA PlaceUpdate ==
    ASSUME NEW f \in [Chunks -> Entry], NEW k \in Chunks,
           NEW p \in {"unborn", "staging", "final", "gone"},
           NEW g, g = [f EXCEPT ![k].place = p]
    PROVE  /\ g \in [Chunks -> Entry]
           /\ \A c \in Chunks : g[c].file = f[c].file /\ g[c].intent = f[c].intent
           /\ g[k].place = p
           /\ \A c \in Chunks : c # k => g[c] = f[c]
  BY DEF Entry

\* What replacing the file of one chunk does to fs.
LEMMA FileUpdate ==
    ASSUME NEW f \in [Chunks -> Entry], NEW k \in Chunks,
           NEW g, g = [f EXCEPT ![k].file = "replaced"]
    PROVE  /\ g \in [Chunks -> Entry]
           /\ \A c \in Chunks : g[c].place = f[c].place /\ g[c].intent = f[c].intent
           /\ \A c \in Chunks : c # k => g[c] = f[c]
  BY DEF Entry

\* Steps that change neither the files nor the rows.
LEMMA QuietInv ==
    ASSUME SealingAssumption, Inv,
           UNCHANGED <<Files, row>>,
           \/ \E r \in Claims : Call(r)
           \/ AnswerKnown \/ FindAudio \/ Open \/ Check \/ Validate \/ Crash
           \/ PlainFailure \/ PublishFailure \/ LateFailure \/ RestoreFailure
    PROVE  Inv'
  <1> USE DEF SealingAssumption, Inv, TypeOK, Files, Outcome, Step, Return, ReturnOk,
          ReturnError, ReturnRecoveryRequired, Mine, Alter, Persist, RemoveIntent, Entry
  <1>1. TypeOK'
    BY DEF Call, AnswerKnown, FindAudio, Open, Check, Validate, Crash, Dies, PlainFailure,
           PublishFailure, LateFailure, RestoreFailure, Steps, Calling, Known, RowKnown
  <1>2. (fs \in disk)'
    BY DEF Call, AnswerKnown, FindAudio, Open, Check, Validate, Crash, Dies, PlainFailure,
           PublishFailure, LateFailure, RestoreFailure, Steps, Calling
  <1>3. Calling'
    BY DEF Call, AnswerKnown, FindAudio, Open, Check, Validate, Crash, Dies, PlainFailure,
           PublishFailure, LateFailure, RestoreFailure, Steps, Calling
  <1>4. Known'
    BY DEF Call, AnswerKnown, FindAudio, Open, Check, Validate, Crash, Dies, PlainFailure,
           PublishFailure, LateFailure, RestoreFailure, Steps, Calling, Known, RowKnown,
           PlaceKnown, AudioKnown, IntentKnown, Away, Verified
  <1>5. Registrations'
    BY DEF Call, AnswerKnown, FindAudio, Open, Check, Validate, Crash, Dies, PlainFailure,
           PublishFailure, LateFailure, RestoreFailure, Registrations, Steps, Calling,
           Known, RowKnown, PlaceKnown, AudioKnown, Verified
  <1>6. Orphans'
    BY DEF Call, AnswerKnown, FindAudio, Open, Check, Validate, Crash, Dies, PlainFailure,
           PublishFailure, LateFailure, RestoreFailure, Orphans, Orphan, Busy, Away,
           Steps, Calling, Known, RowKnown, PlaceKnown, IntentKnown
  <1>7. AckedIsRegistered'
    BY DEF Call, AnswerKnown, FindAudio, Open, Check, Validate, Crash, Dies, PlainFailure,
           PublishFailure, LateFailure, RestoreFailure, AckedIsRegistered, Steps,
           Calling, Known, RowKnown
  <1>8. QED
    BY <1>1, <1>2, <1>3, <1>4, <1>5, <1>6, <1>7

\* Steps that sync a directory: from here on the disk agrees with what is seen.
LEMMA SyncInv ==
    ASSUME SealingAssumption, Inv,
           \/ Reconcile \/ Adopt \/ SyncIntent \/ SyncAudio \/ SyncRestore
    PROVE  Inv'
  <1>t. fs \in [Chunks -> Entry]
    BY DEF Inv, TypeOK
  <1>c. /\ at \notin {"idle", "down"} /\ claim \in Claims /\ row' = row
        /\ Mine \in Chunks
    BY DEF Reconcile, Adopt, SyncIntent, SyncAudio, SyncRestore, Calling, Inv, TypeOK, Mine,
           SealingAssumption, Step
  <1>a. /\ fs' \in [Chunks -> Entry]
        /\ \A c \in Chunks : /\ fs'[c].place = fs[c].place /\ fs'[c].file = fs[c].file
                             /\ fs'[c].intent = fs[c].intent
    <2>1. CASE Reconcile
      <3>1. fs' = [c \in Chunks |-> [fs[c] EXCEPT !.temp = FALSE]]
        BY <2>1 DEF Reconcile, Persist
      <3>2. QED
        BY <1>t, <3>1, ZenonT(60) DEF Entry
    <2>2. CASE ~Reconcile
      <3>1. fs' = fs
        BY <2>2 DEF Adopt, SyncIntent, SyncAudio, SyncRestore, Persist, Files
      <3>2. QED
        BY <1>t, <3>1
    <2>3. QED
      BY <2>1, <2>2
  <1>b. disk' = {fs'} \/ (at' = "idle" /\ claim' = None /\ UNCHANGED Files)
    BY DEF Reconcile, Adopt, SyncIntent, SyncAudio, SyncRestore, Persist, ReturnError, Return
  <1> USE DEF SealingAssumption, Inv, TypeOK, Files, Outcome, Step, Return, ReturnOk,
          ReturnError, ReturnRecoveryRequired, Mine, Alter, Persist, RemoveIntent, Entry
  <1>1. TypeOK'
    BY <1>a, <1>b, <1>c DEF Reconcile, Adopt, SyncIntent, SyncAudio, SyncRestore, Steps
  <1>2. (fs \in disk)'
    BY DEF Reconcile, Adopt, SyncIntent, SyncAudio, SyncRestore, Steps, Calling
  <1>3. Calling'
    BY DEF Reconcile, Adopt, SyncIntent, SyncAudio, SyncRestore, Steps, Calling
  <1>4. Known'
    <2>1. CASE Reconcile
      BY <1>a, <1>b, <1>c, <2>1 DEF Reconcile, Steps, Known, RowKnown, PlaceKnown,
                                    AudioKnown, IntentKnown, Away
    <2>2. CASE Adopt
      BY <1>a, <1>b, <1>c, <2>2 DEF Adopt, Steps, Known, RowKnown, PlaceKnown, AudioKnown,
                                    IntentKnown, Away, Verified
    <2>3. CASE SyncIntent \/ SyncAudio \/ SyncRestore
      BY <1>a, <1>b, <1>c, <2>3 DEF SyncIntent, SyncAudio, SyncRestore, Steps, Known,
                    RowKnown, PlaceKnown, AudioKnown, IntentKnown, Away, Verified
    <2>4. QED
      BY <2>1, <2>2, <2>3
  <1>5. Registrations'
    BY DEF Reconcile, Adopt, SyncIntent, SyncAudio, SyncRestore, Registrations, Steps,
           Calling, Known, RowKnown, PlaceKnown, AudioKnown, Verified
  <1>6. Orphans'
    <2>1. \A c \in Chunks : Orphan(fs, c) => fs[c].intent # None /\ (~Busy(c) => c \in warned)
      BY DEF Orphans
    <2>2. CASE Reconcile
      BY <1>a, <1>b, <1>c, <2>1, <2>2 DEF Reconcile, Orphans, Orphan, Busy, Away
    <2>3. CASE Adopt
      BY <1>a, <1>b, <1>c, <2>1, <2>3 DEF Adopt, Orphans, Orphan, Busy, Away
    <2>4. CASE SyncIntent \/ SyncAudio
      BY <1>a, <1>b, <1>c, <2>1, <2>4 DEF SyncIntent, SyncAudio, Orphans, Orphan, Busy, Away
    <2>5. CASE SyncRestore
      BY <1>a, <1>b, <1>c, <2>1, <2>5 DEF SyncRestore, Orphans, Orphan, Busy, Away, Known,
                                          RowKnown, PlaceKnown, IntentKnown
    <2>6. QED
      BY <2>2, <2>3, <2>4, <2>5
  <1>7. AckedIsRegistered'
    BY DEF Reconcile, Adopt, SyncIntent, SyncAudio, SyncRestore, AckedIsRegistered,
           Steps, Calling, Known, RowKnown
  <1>8. QED
    BY <1>1, <1>2, <1>3, <1>4, <1>5, <1>6, <1>7

\* Steps that write the intent and move the audio.
LEMMA AlterInv ==
    ASSUME SealingAssumption, Inv,
           WriteIntent \/ NameIntent \/ Publish \/ Restore
    PROVE  Inv'
  <1>t. fs \in [Chunks -> Entry]
    BY DEF Inv, TypeOK
  <1>a. claim \in Claims /\ Mine \in Chunks /\ row[Mine] = None
    BY DEF WriteIntent, NameIntent, Publish, Restore, Steps, Calling, Known, RowKnown, Inv,
           TypeOK, Mine, SealingAssumption, Step
  <1>b. /\ fs' \in [Chunks -> Entry] /\ disk' = disk \cup {fs'}
        /\ \A c \in Chunks : c # Mine => fs'[c] = fs[c]
        /\ WriteIntent \/ NameIntent => fs'[Mine].place = fs[Mine].place
        /\ NameIntent => fs'[Mine].intent = claim
        /\ Publish \/ Restore => fs'[Mine].intent = fs[Mine].intent
        /\ Publish => fs'[Mine].place = "final"
        /\ Restore => fs'[Mine].place = "staging"
    <2>1. CASE WriteIntent
      <3>1. fs' = [fs EXCEPT ![Mine].temp = TRUE] /\ disk' = disk \cup {fs'}
        BY <2>1 DEF WriteIntent, Alter
      <3>2. ~NameIntent /\ ~Publish /\ ~Restore
        BY <2>1 DEF WriteIntent, NameIntent, Publish, Restore, Step
      <3>3. QED
        BY <1>t, <1>a, <3>1, <3>2, ZenonT(60) DEF Entry
    <2>2. CASE NameIntent
      <3>1. /\ fs' = [fs EXCEPT ![Mine].temp = FALSE, ![Mine].intent = claim]
            /\ disk' = disk \cup {fs'}
        BY <2>2 DEF NameIntent, Alter
      <3>2. ~Publish /\ ~Restore
        BY <2>2 DEF NameIntent, Publish, Restore, Step
      <3>3. claim \in Claims \cup {None}
        BY <1>a
      <3>4. /\ fs' \in [Chunks -> Entry]
            /\ \A c \in Chunks : fs'[c].place = fs[c].place
            /\ fs'[Mine].intent = claim
            /\ \A c \in Chunks : c # Mine => fs'[c] = fs[c]
        BY <1>t, <1>a, <3>1, ZenonT(60) DEF Entry
      <3>5. QED
        BY <1>a, <3>1, <3>2, <3>4
    <2>3. CASE Publish
      <3>1. fs' = [fs EXCEPT ![Mine].place = "final"] /\ disk' = disk \cup {fs'}
        BY <2>3 DEF Publish, Alter
      <3>2. ~WriteIntent /\ ~NameIntent /\ ~Restore
        BY <2>3 DEF WriteIntent, NameIntent, Publish, Restore, Step
      <3>3. QED
        BY <1>t, <1>a, <3>1, <3>2, PlaceUpdate
    <2>4. CASE Restore
      <3>1. fs' = [fs EXCEPT ![Mine].place = "staging"] /\ disk' = disk \cup {fs'}
        BY <2>4 DEF Restore, Alter
      <3>2. ~WriteIntent /\ ~NameIntent /\ ~Publish
        BY <2>4 DEF WriteIntent, NameIntent, Publish, Restore, Step
      <3>3. QED
        BY <1>t, <1>a, <3>1, <3>2, PlaceUpdate
    <2>5. QED
      BY <2>1, <2>2, <2>3, <2>4
  <1> USE DEF SealingAssumption, Inv, TypeOK, Files, Outcome, Step, Return, ReturnOk,
          ReturnError, ReturnRecoveryRequired, Mine, Alter, Persist, RemoveIntent, Entry
  <1>1. TypeOK'
    BY <1>a, <1>b DEF WriteIntent, NameIntent, Publish, Restore, Steps
  <1>2. (fs \in disk)'
    BY DEF WriteIntent, NameIntent, Publish, Restore, Steps, Calling
  <1>3. Calling'
    BY DEF WriteIntent, NameIntent, Publish, Restore, Steps, Calling
  <1>4. Known'
    BY <1>a, <1>b DEF WriteIntent, NameIntent, Publish, Restore, Steps, Known, RowKnown,
       PlaceKnown, AudioKnown, IntentKnown, Away
  <1>5. Registrations'
    <2>1. row' = row
      BY DEF WriteIntent, NameIntent, Publish, Restore
    <2>2. QED
      BY <1>a, <1>b, <2>1 DEF Registrations
  <1>6. Orphans'
    BY <1>a, <1>b DEF WriteIntent, NameIntent, Publish, Restore, Orphans, Orphan, Busy, Away,
           Steps, Calling, Known, RowKnown, PlaceKnown, IntentKnown
  <1>7. AckedIsRegistered'
    BY DEF WriteIntent, NameIntent, Publish, Restore, AckedIsRegistered, Steps, Calling,
           Known, RowKnown
  <1>8. QED
    BY <1>1, <1>2, <1>3, <1>4, <1>5, <1>6, <1>7

\* The catalog transaction.
LEMMA InsertInv ==
    ASSUME SealingAssumption, Inv,
           Insert \/ InsertAdopted
    PROVE  Inv'
  <1> USE DEF SealingAssumption, Inv, TypeOK, Files, Outcome, Step, Return, ReturnOk,
          ReturnError, ReturnRecoveryRequired, Mine, Alter, Persist, RemoveIntent, Entry
  <1>1. TypeOK'
    BY DEF Insert, InsertAdopted, Register, Refused, Steps, Calling, Known, RowKnown
  <1>2. (fs \in disk)'
    BY DEF Insert, InsertAdopted, Register, Refused, Steps, Calling
  <1>3. Calling'
    BY DEF Insert, InsertAdopted, Register, Refused, Steps, Calling
  <1>4. Known'
    BY DEF Insert, InsertAdopted, Register, Refused, Steps, Calling, Known, RowKnown,
           PlaceKnown, AudioKnown, IntentKnown, Away, Verified
  <1>5. Registrations'
    BY DEF Insert, InsertAdopted, Register, Refused, Registrations, Steps, Calling,
           Known, RowKnown, PlaceKnown, AudioKnown, Verified
  <1>6. Orphans'
    BY DEF Insert, InsertAdopted, Register, Refused, Orphans, Orphan, Busy, Away, Steps,
           Calling, Known, RowKnown, PlaceKnown, IntentKnown
  <1>7. AckedIsRegistered'
    BY DEF Insert, InsertAdopted, Register, Refused, AckedIsRegistered, Steps, Calling,
           Known, RowKnown
  <1>8. QED
    BY <1>1, <1>2, <1>3, <1>4, <1>5, <1>6, <1>7

\* The intent is removed after the row is there, or after the audio was put back.
LEMMA RemoveInv ==
    ASSUME SealingAssumption, Inv,
           Retire \/ Withdraw \/ Abandon
    PROVE  Inv'
  <1>t. fs \in [Chunks -> Entry]
    BY DEF Inv, TypeOK
  <1>a. claim \in Claims /\ Mine \in Chunks
    BY DEF Retire, Withdraw, Abandon, Calling, Inv, TypeOK, Mine, SealingAssumption
  <1>b. /\ fs' \in [Chunks -> Entry] /\ disk' = {fs'}
        /\ \A c \in Chunks : fs'[c].place = fs[c].place /\ fs'[c].file = fs[c].file
        /\ \A c \in Chunks : c # Mine => fs'[c] = fs[c]
    <2>1. fs' = [fs EXCEPT ![Mine].intent = None] /\ disk' = {fs'}
      BY DEF Retire, Withdraw, Abandon, RemoveIntent, Persist
    <2>2. QED
      BY <1>t, <1>a, <2>1, IntentUpdate, SMTT(30)
  <1> USE DEF SealingAssumption, Inv, TypeOK, Files, Outcome, Step, Return, ReturnOk,
          ReturnError, ReturnRecoveryRequired, Mine, Alter, Persist, RemoveIntent, Entry
  <1>1. TypeOK'
    BY <1>a, <1>b DEF Retire, Withdraw, Abandon, Steps
  <1>2. (fs \in disk)'
    BY DEF Retire, Withdraw, Abandon, Steps, Calling
  <1>3. Calling'
    BY DEF Retire, Withdraw, Abandon, Steps, Calling
  <1>4. Known'
    BY DEF Retire, Withdraw, Abandon, Steps, Calling, Known, RowKnown, PlaceKnown,
           AudioKnown, IntentKnown, Away, Verified
  <1>5. Registrations'
    BY DEF Retire, Withdraw, Abandon, Registrations, Steps, Calling, Known, RowKnown,
           PlaceKnown, AudioKnown, Verified
  <1>6. Orphans'
    BY SMTT(40) DEF Retire, Withdraw, Abandon, Orphans, Orphan, Busy, Away, Steps, Calling,
           Known, RowKnown, PlaceKnown, IntentKnown
  <1>7. AckedIsRegistered'
    BY DEF Retire, Withdraw, Abandon, AckedIsRegistered, Steps, Calling, Known, RowKnown
  <1>8. QED
    BY <1>1, <1>2, <1>3, <1>4, <1>5, <1>6, <1>7

\* Failures that leave an intent or a temporary behind.
LEMMA CleanupFailureInv ==
    ASSUME SealingAssumption, Inv,
           TempFailure \/ IntentSyncFailure \/ RemovalFailure
    PROVE  Inv'
  <1>t. fs \in [Chunks -> Entry]
    BY DEF Inv, TypeOK
  <1>a. claim \in Claims /\ Mine \in Chunks
    BY DEF TempFailure, IntentSyncFailure, RemovalFailure, Calling, Inv, TypeOK, Mine,
           SealingAssumption
  <1>b. /\ fs' \in [Chunks -> Entry]
        /\ disk' = {fs'} \/ disk' = disk \cup {fs'} \/ UNCHANGED Files
        /\ \A c \in Chunks : fs'[c].place = fs[c].place /\ fs'[c].file = fs[c].file
        /\ \A c \in Chunks : c # Mine => fs'[c] = fs[c]
    <2>1. disk' = {fs'} \/ disk' = disk \cup {fs'} \/ UNCHANGED Files
      BY DEF TempFailure, IntentSyncFailure, RemovalFailure, Alter, Persist, RemoveIntent
    <2>2. \/ fs' = fs
          \/ fs' = [fs EXCEPT ![Mine].temp = FALSE]
          \/ fs' = [fs EXCEPT ![Mine].temp = TRUE]
          \/ fs' = [fs EXCEPT ![Mine].intent = None]
          \/ fs' = [fs EXCEPT ![Mine].intent = None, ![Mine].temp = TRUE]
      BY DEF TempFailure, IntentSyncFailure, RemovalFailure, Alter, Persist, RemoveIntent, Files
    <2>3. CASE fs' = fs
      BY <1>t, <2>1, <2>3
    <2>4. CASE fs' = [fs EXCEPT ![Mine].temp = FALSE]
      BY <1>t, <1>a, <2>1, <2>4, ZenonT(60) DEF Entry
    <2>5. CASE fs' = [fs EXCEPT ![Mine].temp = TRUE]
      BY <1>t, <1>a, <2>1, <2>5, ZenonT(60) DEF Entry
    <2>6. CASE fs' = [fs EXCEPT ![Mine].intent = None]
      BY <1>t, <1>a, <2>1, <2>6, IntentUpdate, SMTT(30)
    <2>7. CASE fs' = [fs EXCEPT ![Mine].intent = None, ![Mine].temp = TRUE]
      BY <1>t, <1>a, <2>1, <2>7, ZenonT(60) DEF Entry
    <2>8. QED
      BY <2>2, <2>3, <2>4, <2>5, <2>6, <2>7
  <1> USE DEF SealingAssumption, Inv, TypeOK, Files, Outcome, Step, Return, ReturnOk,
          ReturnError, ReturnRecoveryRequired, Mine, Alter, Persist, RemoveIntent, Entry
  <1>1. TypeOK'
    BY <1>a, <1>b DEF TempFailure, IntentSyncFailure, RemovalFailure, Steps
  <1>2. (fs \in disk)'
    BY <1>b
  <1>3. Calling'
    BY DEF TempFailure, IntentSyncFailure, RemovalFailure, Steps, Calling
  <1>4. Known'
    BY DEF TempFailure, IntentSyncFailure, RemovalFailure, Steps, Calling, Known,
           RowKnown, PlaceKnown, AudioKnown, IntentKnown, Away, Verified
  <1>5. Registrations'
    <2>1. row' = row
      BY DEF TempFailure, IntentSyncFailure, RemovalFailure
    <2>2. QED
      BY <1>b, <2>1 DEF Registrations
  <1>6. Orphans'
    BY DEF TempFailure, IntentSyncFailure, RemovalFailure, Orphans, Orphan, Busy, Away,
           Steps, Calling, Known, RowKnown, PlaceKnown, IntentKnown
  <1>7. AckedIsRegistered'
    BY DEF TempFailure, IntentSyncFailure, RemovalFailure, AckedIsRegistered, Steps,
           Calling, Known, RowKnown
  <1>8. QED
    BY <1>1, <1>2, <1>3, <1>4, <1>5, <1>6, <1>7

\* What happens in the staging directory while a request is sealed.
LEMMA HelperInv ==
    ASSUME SealingAssumption, Inv,
           NEW c \in Chunks,
           Record(c) \/ Replace(c)
    PROVE  Inv'
  <1>t. fs \in [Chunks -> Entry]
    BY DEF Inv, TypeOK
  <1>b. \/ fs' = [fs EXCEPT ![c].place = "staging"] /\ fs[c].place = "unborn"
        \/ fs' = [fs EXCEPT ![c].file = "replaced"] /\ fs[c].place = "staging"
    BY DEF Record, Replace, Alter
  <1>a. /\ fs' \in [Chunks -> Entry] /\ disk' = disk \cup {fs'} /\ row' = row
        /\ fs[c].place # "final" /\ fs'[c].place = "staging"
        /\ fs'[c].intent = fs[c].intent
        /\ \A d \in Chunks : d # c => fs'[d] = fs[d]
    <2>1. disk' = disk \cup {fs'} /\ row' = row
      BY DEF Record, Replace, Alter
    <2>2. CASE fs' = [fs EXCEPT ![c].place = "staging"] /\ fs[c].place = "unborn"
      BY <1>t, <2>1, <2>2, PlaceUpdate
    <2>3. CASE fs' = [fs EXCEPT ![c].file = "replaced"] /\ fs[c].place = "staging"
      BY <1>t, <2>1, <2>3, FileUpdate
    <2>4. QED
      BY <1>b, <2>2, <2>3
  <1> USE DEF SealingAssumption, Inv, TypeOK, Files, Outcome, Step, Return, ReturnOk,
          ReturnError, ReturnRecoveryRequired, Mine, Alter, Persist, RemoveIntent, Entry
  <1>1. TypeOK'
    BY DEF Record, Replace, Steps, Calling, Known, RowKnown
  <1>2. (fs \in disk)'
    BY DEF Record, Replace, Steps, Calling
  <1>3. Calling'
    BY DEF Record, Replace, Steps, Calling
  <1>4. Known'
    BY <1>a DEF Record, Replace, Steps, Calling, Known, RowKnown, PlaceKnown, AudioKnown,
           IntentKnown, Away, Verified
  <1>5. Registrations'
    BY <1>a DEF Record, Replace, Registrations, Steps, Calling, Known, RowKnown, PlaceKnown,
           AudioKnown, Verified
  <1>6. Orphans'
    BY <1>a DEF Record, Replace, Orphans, Orphan, Busy, Away, Steps, Calling, Known,
           RowKnown, PlaceKnown, IntentKnown
  <1>7. AckedIsRegistered'
    BY DEF Record, Replace, AckedIsRegistered, Steps, Calling, Known, RowKnown
  <1>8. QED
    BY <1>1, <1>2, <1>3, <1>4, <1>5, <1>6, <1>7

\* A power loss and the next start.
LEMMA OutageInv ==
    ASSUME SealingAssumption, Inv,
           PowerLoss \/ Boot
    PROVE  Inv'
  <1>t. fs \in [Chunks -> Entry]
    BY DEF Inv, TypeOK
  <1>b. \/ PowerLoss /\ fs' \in disk
        \/ Start /\ fs' = [c \in Chunks |-> [fs[c] EXCEPT !.temp = FALSE]]
        \/ \E c \in Chunks : /\ Clean(c) /\ fs[c].place = "staging"
                             /\ fs' = [fs EXCEPT ![c].place = "gone"]
    BY DEF PowerLoss, Boot, Start, Clean, Persist
  <1>a. fs' \in [Chunks -> Entry] /\ disk' = {fs'}
    <2>1. disk' = {fs'}
      BY DEF PowerLoss, Boot, Start, Clean, Persist
    <2>2. CASE PowerLoss /\ fs' \in disk
      BY <2>1, <2>2 DEF Inv, TypeOK
    <2>3. CASE fs' = [c \in Chunks |-> [fs[c] EXCEPT !.temp = FALSE]]
      BY <1>t, <2>1, <2>3 DEF Entry
    <2>4. CASE \E c \in Chunks : fs' = [fs EXCEPT ![c].place = "gone"]
      BY <1>t, <2>1, <2>4 DEF Entry
    <2>5. QED
      BY <1>b, <2>2, <2>3, <2>4
  <1> USE DEF SealingAssumption, Inv, TypeOK, Files, Outcome, Step, Return, ReturnOk,
          ReturnError, ReturnRecoveryRequired, Mine, Alter, Persist, RemoveIntent, Entry
  <1>1. TypeOK'
    BY <1>a DEF PowerLoss, Dies, Boot, Start, Clean, Steps, Calling
  <1>2. (fs \in disk)'
    BY DEF PowerLoss, Dies, Boot, Start, Clean, Steps, Calling
  <1>3. Calling'
    BY DEF PowerLoss, Dies, Boot, Start, Clean, Steps, Calling
  <1>4. Known'
    BY DEF PowerLoss, Dies, Boot, Start, Clean, Steps, Calling, Known, RowKnown,
           PlaceKnown, AudioKnown, IntentKnown, Away, Verified
  <1>5. Registrations'
    BY DEF PowerLoss, Dies, Boot, Start, Clean, Registrations, Steps, Calling, Known,
           RowKnown, PlaceKnown, AudioKnown, Verified
  <1>6. Orphans'
    <2>1. \A c \in Chunks : \A s \in disk : Orphan(s, c) =>
             s[c].intent # None /\ (~Busy(c) => c \in warned)
      BY DEF Orphans
    <2>2. CASE PowerLoss
      BY <1>a, <2>1, <2>2 DEF PowerLoss, Dies, Orphans, Orphan, Busy
    <2>3. CASE Start
      <3>1. \A c \in Chunks : fs'[c].place = fs[c].place /\ fs'[c].intent = fs[c].intent
        BY <1>t, <2>3 DEF Start
      <3>2. QED
        BY <1>a, <2>1, <2>3, <3>1 DEF Start, Orphans, Orphan, Busy, Calling
    <2>4. CASE \E c \in Chunks : Clean(c)
      <3>1. PICK k \in Chunks : Clean(k)
        BY <2>4
      <3>2. fs'[k].place = "gone" /\ \A c \in Chunks : c # k => fs'[c] = fs[c]
        BY <1>t, <3>1 DEF Clean
      <3>3. QED
        BY <1>a, <2>1, <3>1, <3>2 DEF Clean, Orphans, Orphan, Busy, Calling
    <2>5. QED
      BY <2>2, <2>3, <2>4 DEF Boot
  <1>7. AckedIsRegistered'
    BY DEF PowerLoss, Dies, Boot, Start, Clean, AckedIsRegistered, Steps, Calling,
           Known, RowKnown
  <1>8. QED
    BY <1>1, <1>2, <1>3, <1>4, <1>5, <1>6, <1>7

\* Every step preserves the invariant.
LEMMA NextInv == ASSUME SealingAssumption, Inv, [Next]_vars PROVE Inv'
  <1>1. CASE UNCHANGED vars
    BY <1>1 DEF vars, Inv, TypeOK, Calling, Known, RowKnown, PlaceKnown, AudioKnown, IntentKnown,
                Verified, Mine, Registrations, Orphans, Orphan, Busy, AckedIsRegistered
  <1>2. CASE \E r \in Claims : Call(r)
    BY <1>2, QuietInv DEF Call
  <1>3. CASE Advance
    <2>1. AnswerKnown \/ FindAudio \/ Open \/ Check \/ Validate => UNCHANGED <<Files, row>>
      BY DEF AnswerKnown, FindAudio, Open, Check, Validate
    <2>2. QED
      BY <1>3, <2>1, QuietInv, SyncInv, AlterInv, InsertInv, RemoveInv DEF Advance
  <1>4. CASE Failure
    <2>1. PlainFailure \/ PublishFailure \/ LateFailure \/ RestoreFailure => UNCHANGED <<Files, row>>
      BY DEF PlainFailure, PublishFailure, LateFailure, RestoreFailure
    <2>2. QED
      BY <1>4, <2>1, QuietInv, CleanupFailureInv DEF Failure
  <1>5. CASE \E c \in Chunks : Record(c) \/ Replace(c)
    BY <1>5, HelperInv
  <1>6. CASE Crash
    BY <1>6, QuietInv DEF Crash, Dies
  <1>7. CASE PowerLoss \/ Boot
    BY <1>7, OutageInv
  <1>8. QED
    BY <1>1, <1>2, <1>3, <1>4, <1>5, <1>6, <1>7 DEF Next, Course, Trouble

\* The invariant holds of every behaviour, for any chunks, requests and slots.
THEOREM Invariance == Spec => []Inv
  <1>1. Init => Inv
    BY SealingAssumption, InitInv
  <1>2. Inv /\ [Next]_vars => Inv'
    BY SealingAssumption, NextInv
  <1>3. QED
    BY <1>1, <1>2, PTL DEF Spec

\* Every variable keeps its type.
THEOREM TypeCorrect == Spec => []TypeOK
  <1>1. Inv => TypeOK
    BY DEF Inv
  <1>2. QED
    BY <1>1, Invariance, PTL

\* seal.rs registers a chunk only after the audio directory was synced and never moves
\* registered audio: it survives every failure, crash and power loss.
THEOREM RegisteredAlwaysSurvives == Spec => []RegisteredSurvives
  <1>1. Inv => RegisteredSurvives
    BY DEF Inv, Registrations, RegisteredSurvives
  <1>2. QED
    BY <1>1, Invariance, PTL

\* A row describes the bytes of its own chunk, whatever was put in the staging directory.
THEOREM RegisteredAlwaysTruthful == Spec => []RegisteredIsTruthful
  <1>1. Inv => RegisteredIsTruthful
    BY DEF Inv, Registrations, RegisteredIsTruthful
  <1>2. QED
    BY <1>1, Invariance, PTL

\* A published file without a row has its intent beside it after any crash or power loss.
THEOREM OrphansKeepIntents == Spec => []OrphanKeepsIntent
  <1>1. Inv => OrphanKeepsIntent
    BY DEF Inv, Orphans, OrphanKeepsIntent
  <1>2. QED
    BY <1>1, Invariance, PTL

\* A request is answered Ok only when it is the registered one, and stays it.
THEOREM AckedAlwaysRegistered == Spec => []AckedIsRegistered
  <1>1. Inv => AckedIsRegistered
    BY DEF Inv
  <1>2. QED
    BY <1>1, Invariance, PTL

\* No error but RecoveryRequired, and no end but a crash, leaves an orphan behind.
THEOREM OrphansAreReported == Spec => []OrphanIsReported
  <1>1. Inv => OrphanIsReported
    BY DEF Inv, Orphans, OrphanIsReported, Orphan, Exposed, Busy, Away, Known, PlaceKnown
  <1>2. QED
    BY <1>1, Invariance, PTL

-----------------------------------------------------------------------------
(* Sealing implements ChunkLife.  Only two kinds of step change what a     *)
(* user is promised about a chunk: its registration and its deletion by a  *)
(* start.  Every other step moves audio that nobody was promised, which    *)
(* ChunkLife allows of an outage; the proof shows that it neither touches  *)
(* registered audio nor deletes any.                                       *)

\* Deleted audio stays deleted through a power loss, and what is about to be published
\* is in the staging directory.
Deleted ==
    /\ \A c \in Chunks : \A s \in disk : s[c].place = "gone" <=> fs[c].place = "gone"
    /\ claim # None /\ at \in {"writeIntent", "nameIntent", "syncIntent", "check", "publish"} =>
         fs[Mine].place = "staging"

\* No deletion happens in this step.
NoneDeleted == \A c \in Chunks : fs'[c].place = "gone" <=> fs[c].place = "gone"

\* The initial state satisfies the second invariant.
LEMMA InitDeleted == ASSUME SealingAssumption, Init PROVE Deleted
  BY DEF SealingAssumption, Init, Deleted

\* The steps of a call delete nothing and keep the second invariant.
LEMMA AdvanceDeleted ==
    ASSUME SealingAssumption, Inv, Deleted, Advance
    PROVE  NoneDeleted /\ Deleted'
  <1>t. fs \in [Chunks -> Entry] /\ fs \in disk
    BY DEF Inv, TypeOK
  <1>a. claim \in Claims /\ Mine \in Chunks
    BY DEF Inv, TypeOK, SealingAssumption, Calling, Mine, Advance, Reconcile, AnswerKnown,
           FindAudio, Adopt, InsertAdopted, Open, WriteIntent, NameIntent, SyncIntent, Check,
           Publish, Validate, SyncAudio, Insert, Retire, Withdraw, Restore, SyncRestore,
           Abandon, Step
  <1>1. CASE AnswerKnown \/ FindAudio \/ Open \/ Check \/ Validate \/ Insert \/ InsertAdopted
    BY <1>1, <1>a DEF AnswerKnown, FindAudio, Open, Check, Validate, Insert, InsertAdopted,
       Register, Refused, Step, ReturnOk, ReturnError, Return, Files, Deleted, NoneDeleted, Mine
  <1>2. CASE Adopt \/ SyncIntent \/ SyncAudio \/ SyncRestore
    BY <1>2, <1>a DEF Adopt, SyncIntent, SyncAudio, SyncRestore, Persist, Step, ReturnError,
       Return, Files, Deleted, NoneDeleted, Mine
  <1>3. CASE Reconcile
    <2>1. \A c \in Chunks : fs'[c].place = fs[c].place
      <3>1. fs' = [c \in Chunks |-> [fs[c] EXCEPT !.temp = FALSE]]
        BY <1>3 DEF Reconcile, Persist
      <3>2. QED
        BY <1>t, <3>1 DEF Entry
    <2>2. disk' = {fs'} /\ at' = "lookup"
      BY <1>3 DEF Reconcile, Persist, Step
    <2>3. QED
      BY <2>1, <2>2 DEF Deleted, NoneDeleted
  <1>4. CASE Retire \/ Withdraw \/ Abandon
    <2>1. fs' = [fs EXCEPT ![Mine].intent = None] /\ disk' = {fs'} /\ at' = "idle"
      BY <1>4 DEF Retire, Withdraw, Abandon, RemoveIntent, Persist, ReturnOk, ReturnError, Return
    <2>2. \A c \in Chunks : fs'[c].place = fs[c].place
      BY <1>t, <1>a, <2>1, IntentUpdate
    <2>3. QED
      BY <2>1, <2>2 DEF Deleted, NoneDeleted
  <1>5. CASE WriteIntent \/ NameIntent
    <2>1. \A c \in Chunks : fs'[c].place = fs[c].place
      BY <1>t, <1>a, <1>5, SMTT(30) DEF WriteIntent, NameIntent, Alter, Entry
    <2>2. disk' = disk \cup {fs'} /\ Mine' = Mine /\ at \in {"writeIntent", "nameIntent"}
      BY <1>5 DEF WriteIntent, NameIntent, Alter, Step, Mine
    <2>3. QED
      BY <1>a, <2>1, <2>2 DEF Deleted, NoneDeleted
  <1>6. CASE Publish \/ Restore
    <2>1. /\ fs[Mine].place # "gone" /\ fs'[Mine].place # "gone"
          /\ \A c \in Chunks : c # Mine => fs'[c] = fs[c]
      <3>1. CASE Publish
        <4>1. fs' = [fs EXCEPT ![Mine].place = "final"]
          BY <3>1 DEF Publish, Alter
        <4>2. fs[Mine].place = "staging"
          BY <1>a, <3>1 DEF Publish, Step, Deleted, SealingAssumption
        <4>3. QED
          BY <1>t, <1>a, <4>1, <4>2, PlaceUpdate
      <3>2. CASE Restore
        <4>1. fs' = [fs EXCEPT ![Mine].place = "staging"]
          BY <3>2 DEF Restore, Alter
        <4>2. fs[Mine].place = "final"
          BY <1>a, <3>2 DEF Restore, Step, Inv, Known, PlaceKnown, SealingAssumption
        <4>3. QED
          BY <1>t, <1>a, <4>1, <4>2, PlaceUpdate
      <3>3. QED
        BY <1>6, <3>1, <3>2
    <2>2. disk' = disk \cup {fs'} /\ at' \in {"validate", "syncRestore"}
      BY <1>6 DEF Publish, Restore, Alter, Step
    <2>3. QED
      BY <1>a, <2>1, <2>2 DEF Deleted, NoneDeleted
  <1>7. QED
    BY <1>1, <1>2, <1>3, <1>4, <1>5, <1>6 DEF Advance

\* Nor do failures, crashes, power losses and what happens in the staging directory.
LEMMA TroubleDeleted ==
    ASSUME SealingAssumption, Inv, Deleted, Trouble
    PROVE  NoneDeleted /\ Deleted'
  <1>t. fs \in [Chunks -> Entry] /\ fs \in disk
    BY DEF Inv, TypeOK
  <1>1. CASE PlainFailure \/ PublishFailure \/ LateFailure \/ RestoreFailure \/ Crash
    BY <1>1 DEF PlainFailure, PublishFailure, LateFailure, RestoreFailure, Crash, Dies, Step,
       ReturnError, ReturnRecoveryRequired, Return, Files, Deleted, NoneDeleted
  <1>2. CASE TempFailure \/ IntentSyncFailure \/ RemovalFailure
    <2>1. claim \in Claims /\ Mine \in Chunks
      BY <1>2 DEF TempFailure, IntentSyncFailure, RemovalFailure, Calling, Inv, TypeOK, Mine,
         SealingAssumption
    <2>2. \/ fs' = fs
          \/ fs' = [fs EXCEPT ![Mine].temp = FALSE]
          \/ fs' = [fs EXCEPT ![Mine].temp = TRUE]
          \/ fs' = [fs EXCEPT ![Mine].intent = None]
          \/ fs' = [fs EXCEPT ![Mine].intent = None, ![Mine].temp = TRUE]
      BY <1>2 DEF TempFailure, IntentSyncFailure, RemovalFailure, Alter, Persist, RemoveIntent, Files
    <2>3. \A c \in Chunks : fs'[c].place = fs[c].place
      BY <1>t, <2>1, <2>2 DEF Entry
    <2>4. at' = "idle"
      BY <1>2 DEF TempFailure, IntentSyncFailure, RemovalFailure, ReturnError,
         ReturnRecoveryRequired, Return
    <2>5. disk' = {fs'} \/ disk' = disk \cup {fs'} \/ UNCHANGED Files
      BY <1>2 DEF TempFailure, IntentSyncFailure, RemovalFailure, Alter, Persist, RemoveIntent
    <2>6. QED
      BY <1>t, <2>3, <2>4, <2>5 DEF Deleted, NoneDeleted, Files
  <1>3. CASE PowerLoss
    BY <1>t, <1>3 DEF PowerLoss, Dies, Persist, Deleted, NoneDeleted
  <1>4. CASE \E c \in Chunks : Replace(c)
    <2>1. PICK c \in Chunks : Replace(c)
      BY <1>4
    <2>2. fs' = [fs EXCEPT ![c].file = "replaced"]
      BY <2>1 DEF Replace, Alter
    <2>3. \A d \in Chunks : fs'[d].place = fs[d].place
      BY <1>t, <2>2, FileUpdate
    <2>4. disk' = disk \cup {fs'} /\ UNCHANGED <<at, claim, Mine>>
      BY <2>1 DEF Replace, Alter, Mine
    <2>5. claim # None => Mine \in Chunks
      BY DEF Inv, TypeOK, Mine, SealingAssumption
    <2>6. QED
      BY <2>3, <2>4, <2>5 DEF Deleted, NoneDeleted
  <1>5. QED
    BY <1>1, <1>2, <1>3, <1>4 DEF Trouble, Failure

\* A call, the start of the program and a new recording delete nothing either.
LEMMA CourseDeleted ==
    ASSUME SealingAssumption, Inv, Deleted,
           \/ \E r \in Claims : Call(r)
           \/ Start
           \/ \E c \in Chunks : Record(c)
    PROVE  NoneDeleted /\ Deleted'
  <1>t. fs \in [Chunks -> Entry] /\ fs \in disk
    BY DEF Inv, TypeOK
  <1>1. CASE \E r \in Claims : Call(r)
    BY <1>1 DEF Call, Files, Deleted, NoneDeleted
  <1>2. CASE Start
    <2>1. \A c \in Chunks : fs'[c].place = fs[c].place
      <3>1. fs' = [c \in Chunks |-> [fs[c] EXCEPT !.temp = FALSE]]
        BY <1>2 DEF Start, Persist
      <3>2. QED
        BY <1>t, <3>1 DEF Entry
    <2>2. disk' = {fs'} /\ at' = "idle"
      BY <1>2 DEF Start, Persist
    <2>3. QED
      BY <2>1, <2>2 DEF Deleted, NoneDeleted
  <1>3. CASE \E c \in Chunks : Record(c)
    <2>1. PICK c \in Chunks : Record(c)
      BY <1>3
    <2>2. fs' = [fs EXCEPT ![c].place = "staging"] /\ fs[c].place = "unborn"
      BY <2>1 DEF Record, Alter
    <2>3. /\ fs'[c].place = "staging"
          /\ \A d \in Chunks : d # c => fs'[d] = fs[d]
      BY <1>t, <2>2, PlaceUpdate
    <2>4. disk' = disk \cup {fs'} /\ UNCHANGED <<at, claim, Mine>>
      BY <2>1 DEF Record, Alter, Mine
    <2>5. claim # None => Mine \in Chunks
      BY DEF Inv, TypeOK, Mine, SealingAssumption
    <2>6. QED
      BY <2>2, <2>3, <2>4, <2>5 DEF Deleted, NoneDeleted
  <1>4. QED
    BY <1>1, <1>2, <1>3

\* A start deletes the staged audio of one chunk at a time.
LEMMA CleanDeleted ==
    ASSUME SealingAssumption, Inv, Deleted, NEW c \in Chunks, Clean(c)
    PROVE  /\ fs[c].place = "staging" /\ fs'[c].place = "gone"
           /\ \A d \in Chunks : d # c => fs'[d] = fs[d]
           /\ Deleted'
  <1>1. fs' = [fs EXCEPT ![c].place = "gone"] /\ fs[c].place = "staging"
    BY DEF Clean, Persist
  <1>2. fs'[c].place = "gone" /\ \A d \in Chunks : d # c => fs'[d] = fs[d]
    BY <1>1, PlaceUpdate DEF Inv, TypeOK
  <1>3. disk' = {fs'} /\ at' = "down"
    BY DEF Clean, Persist
  <1>4. QED
    BY <1>1, <1>2, <1>3 DEF Deleted

\* The second invariant holds of every behaviour.
LEMMA DeletedInvariance == Spec => []Deleted
  <1>1. Init => Deleted
    BY SealingAssumption, InitDeleted
  <1>2. Inv /\ Deleted /\ [Next]_vars => Deleted'
    <2> SUFFICES ASSUME Inv, Deleted, [Next]_vars
                 PROVE  Deleted'
      OBVIOUS
    <2>1. CASE UNCHANGED vars
      BY <2>1 DEF vars, Deleted, Mine
    <2>2. CASE Advance \/ Trouble
      BY <2>2, SealingAssumption, AdvanceDeleted, TroubleDeleted
    <2>3. CASE \E c \in Chunks : Clean(c)
      BY <2>3, SealingAssumption, CleanDeleted
    <2>4. CASE (\E r \in Claims : Call(r)) \/ Start \/ \E c \in Chunks : Record(c)
      BY <2>4, SealingAssumption, CourseDeleted
    <2>5. QED
      BY <2>1, <2>2, <2>3, <2>4 DEF Next, Course, Boot
  <1>3. QED
    BY <1>1, <1>2, Invariance, PTL DEF Spec
\* What the mapping says of a chunk, registered or not.
LEMMA LifeFacts ==
    ASSUME SealingAssumption, Inv, NEW c \in Chunks
    PROVE  /\ row[c] # None => LifeOf(c) = row[c] /\ LifeOf(c) \in Claims
           /\ row[c] = None /\ fs[c].place = "gone" => LifeOf(c) = "lost"
           /\ row[c] = None /\ fs[c].place = "final" => LifeOf(c) = "published"
           /\ row[c] = None /\ fs[c].place = "staging" => LifeOf(c) = "staged"
           /\ row[c] = None /\ fs[c].place # "gone" => LifeOf(c) \in Life!Unregistered
           /\ row[c] # None => fs[c].place = "final"
  <1>1. fs[c].place \in {"unborn", "staging", "final", "gone"}
    BY DEF Inv, TypeOK, Entry
  <1>2. row[c] # None => /\ fs[c].place = "final" /\ fs[c].file = "recorded"
                         /\ row[c] \in Claims
    BY DEF Inv, Registrations, SealingAssumption
  <1>3. QED
    BY <1>1, <1>2 DEF LifeOf, Life!Unregistered

\* The same of the next state.
LEMMA LifeFactsNext ==
    ASSUME SealingAssumption, Inv', NEW c \in Chunks
    PROVE  /\ row'[c] # None => LifeOf(c)' = row'[c] /\ LifeOf(c)' \in Claims
           /\ row'[c] = None /\ fs'[c].place = "gone" => LifeOf(c)' = "lost"
           /\ row'[c] = None /\ fs'[c].place # "gone" => LifeOf(c)' \in Life!Unregistered
  <1>1. fs'[c].place \in {"unborn", "staging", "final", "gone"}
    BY DEF Inv, TypeOK, Entry
  <1>2. row'[c] # None => /\ fs'[c].place = "final" /\ fs'[c].file = "recorded"
                          /\ row'[c] \in Claims
    BY DEF Inv, Registrations, SealingAssumption
  <1>3. QED
    BY <1>1, <1>2 DEF LifeOf, Life!Unregistered

\* A step that registers nothing and deletes nothing is an outage of ChunkLife at most.
LEMMA OutageRefines ==
    ASSUME SealingAssumption, Inv, Inv', UNCHANGED row, NoneDeleted
    PROVE  Life!LifeNext
  <1>1. \A c \in Chunks : \/ LifeOf(c)' = LifeOf(c)
                         \/ {LifeOf(c), LifeOf(c)'} \subseteq Life!Unregistered
    BY LifeFacts, LifeFactsNext DEF NoneDeleted
  <1>2. \A c \in Chunks : LifeOf(c)' \in Life!Unregistered \cup {"lost"} \cup Claims
    BY LifeFactsNext
  <1>3. Life!Outage
    BY <1>1, <1>2 DEF Life!Outage
  <1>4. QED
    BY <1>3 DEF Life!LifeNext

\* The insertion of the row registers one published chunk.
LEMMA RegisterRefines ==
    ASSUME SealingAssumption, Inv, Inv', Register,
           at \in {"insert", "insertAdopted"}
    PROVE  Life!LifeNext
  <1>1. claim \in Claims /\ claim # None /\ Mine \in Chunks
    BY DEF Inv, TypeOK, Calling, Mine, SealingAssumption
  <1>2. PICK k \in Chunks : k = Mine
    BY <1>1
  <1>3. row[k] = None /\ fs[k].place = "final"
    BY <1>1, <1>2 DEF Inv, Known, RowKnown, AudioKnown, Steps
  <1>4. row' = [row EXCEPT ![k] = claim] /\ fs' = fs
    BY <1>2 DEF Register, Files
  <1>5. row'[k] = claim /\ \A c \in Chunks : c # k => row'[c] = row[c]
    BY <1>4 DEF Inv, TypeOK
  <1>6. LifeOf(k) = "published"
    BY <1>3, LifeFacts
  <1>7. LifeOf(k)' = claim
    BY <1>1, <1>5, LifeFactsNext
  <1>8. \A c \in Chunks : c # k => LifeOf(c)' = LifeOf(c)
    BY <1>4, <1>5 DEF LifeOf
  <1>9. Life!Move(k, "published", claim)
    BY <1>6, <1>7, <1>8 DEF Life!Move
  <1>10. QED
    BY <1>1, <1>9 DEF Life!LifeNext

\* A deletion loses one staged chunk.
LEMMA CleanRefines ==
    ASSUME SealingAssumption, Inv, Inv', Deleted, NEW c \in Chunks, Clean(c)
    PROVE  Life!LifeNext
  <1>1. /\ fs[c].place = "staging" /\ fs'[c].place = "gone"
        /\ \A d \in Chunks : d # c => fs'[d] = fs[d]
    BY CleanDeleted
  <1>2. row' = row
    BY DEF Clean
  <1>3. LifeOf(c) = "staged" /\ LifeOf(c)' = "lost"
    BY <1>1, <1>2, LifeFacts, LifeFactsNext
  <1>4. \A d \in Chunks : d # c => LifeOf(d)' = LifeOf(d)
    BY <1>1, <1>2 DEF LifeOf
  <1>5. Life!Move(c, "staged", "lost")
    BY <1>3, <1>4 DEF Life!Move
  <1>6. QED
    BY <1>5 DEF Life!LifeNext

\* Only an insertion changes the rows.
LEMMA RowSteps ==
    ASSUME Advance
    PROVE  UNCHANGED row \/ (Register /\ at \in {"insert", "insertAdopted"})
  BY DEF Advance, Reconcile, AnswerKnown, FindAudio, Adopt, InsertAdopted, Open, WriteIntent,
     NameIntent, SyncIntent, Check, Publish, Validate, SyncAudio, Insert, Retire, Withdraw,
     Restore, SyncRestore, Abandon, Refused, Step

\* The sealing protocol keeps the promise of ChunkLife: whatever fails, registered audio
\* is never moved, altered or taken back, and only staged audio is ever deleted.
THEOREM ChunkPromiseKept == Spec => ChunkPromise
  <1>1. Init => Life!LifeInit
    <2> SUFFICES ASSUME Init PROVE Life!LifeInit
      OBVIOUS
    <2>1. \A c \in Chunks : LifeOf(c) = "unborn"
      BY DEF Init, LifeOf
    <2>2. QED
      BY <2>1 DEF Life!LifeInit
  <1>2. Inv /\ Inv' /\ Deleted /\ [Next]_vars =>
           [Life!LifeNext]_([c \in Chunks |-> LifeOf(c)])
    <2> SUFFICES ASSUME Inv, Inv', Deleted, [Next]_vars
                 PROVE  [Life!LifeNext]_([c \in Chunks |-> LifeOf(c)])
      OBVIOUS
    <2>a. CASE UNCHANGED vars
      <3>1. \A c \in Chunks : LifeOf(c)' = LifeOf(c)
        BY <2>a DEF vars, LifeOf
      <3>2. [c \in Chunks |-> LifeOf(c)]' = [c \in Chunks |-> LifeOf(c)]
        BY <3>1
      <3>3. QED
        BY <3>2
    <2>1. CASE Advance
      BY <2>1, SealingAssumption, AdvanceDeleted, RowSteps, OutageRefines, RegisterRefines
    <2>2. CASE Trouble
      <3>1. UNCHANGED row
        BY <2>2 DEF Trouble, Failure, PlainFailure, TempFailure, IntentSyncFailure,
           PublishFailure, LateFailure, RestoreFailure, RemovalFailure, Crash, PowerLoss, Dies,
           Replace
      <3>2. QED
        BY <2>2, <3>1, SealingAssumption, TroubleDeleted, OutageRefines
    <2>3. CASE \E c \in Chunks : Clean(c)
      BY <2>3, SealingAssumption, CleanRefines
    <2>4. CASE (\E r \in Claims : Call(r)) \/ Start \/ \E c \in Chunks : Record(c)
      <3>1. UNCHANGED row
        BY <2>4 DEF Call, Start, Record
      <3>2. QED
        BY <2>4, <3>1, SealingAssumption, CourseDeleted, OutageRefines
    <2>5. QED
      BY <2>1, <2>2, <2>3, <2>4, <2>a DEF Next, Course, Boot
  <1>3. QED
    BY <1>1, <1>2, Invariance, DeletedInvariance, PTL DEF Spec, ChunkPromise, Life!LifeSpec

-----------------------------------------------------------------------------
(* The worker of a capture session.  Every step of it is a step of Sealing,  *)
(* so that what is shown of a seal above holds of its calls; what is added   *)
(* here is the bookkeeping between two calls.                                *)

\* Some registered chunk has the n-th slot of session s.
Numbered(s, n) == \E d \in Registered : SlotOf[row[d]] = <<s, n>>

Sealed == at \in {"idle", "down"}

\* A seal under way is of the chunk that was numbered last.
Underway == ~Sealed => session # None /\ taken > 0 /\ SlotOf[claim] = <<session, taken - 1>>

\* All chunks the running session has numbered are registered, but for that one.
Front ==
    session # None => \A n \in Nat : n < taken /\ (n = taken - 1 => Sealed) => Numbered(session, n)

CommitInv ==
    /\ CommitTypeOK
    /\ due # None => due \in Registered /\ Sealed
    /\ at = "down" => session = None
    /\ QueuedIsRegistered /\ Underway /\ Front /\ NoGapInSession

-----------------------------------------------------------------------------
\* What the worker, the helper and outages do to the files and rows is a step of Sealing.
LEMMA IsSealing == ASSUME CommitNext PROVE [Next]_vars
  BY DEF CommitNext, Begin, Announce, Commit, Seal, Transcribe, Stop, Outage, Next, Course, Trouble

\* Rows are never changed, and the only new one is that of the seal under way.
LEMMA RowsGrow ==
    ASSUME SealingAssumption, Inv, [Next]_vars
    PROVE  /\ \A c \in Registered : row'[c] = row[c] /\ c \in Registered'
           /\ \A c \in Registered' \ Registered :
                ~Sealed /\ c = Mine /\ row'[c] = claim
  <1>1. UNCHANGED row \/ (Register /\ at \in {"insert", "insertAdopted"})
    BY DEF Next, Course, Trouble, Advance, Reconcile, AnswerKnown, FindAudio, Adopt,
       InsertAdopted, Open, WriteIntent, NameIntent, SyncIntent, Check, Publish, Validate,
       SyncAudio, Insert, Retire, Withdraw, Restore, SyncRestore, Abandon, Refused, Step,
       Failure, PlainFailure, TempFailure, IntentSyncFailure, PublishFailure, LateFailure,
       RestoreFailure, RemovalFailure, Boot, Start, Clean, Record, Replace, Crash, PowerLoss,
       Dies, Call, vars
  <1>2. CASE UNCHANGED row
    BY <1>2 DEF Registered
  <1>3. CASE Register /\ at \in {"insert", "insertAdopted"}
    <2>1. claim \in Claims /\ Mine \in Chunks /\ row[Mine] = None
      BY <1>3 DEF Inv, TypeOK, Calling, Known, RowKnown, Steps, Mine, SealingAssumption
    <2>2. row' = [row EXCEPT ![Mine] = claim] /\ row \in [Chunks -> Claims \cup {None}]
      BY <1>3 DEF Register, Inv, TypeOK
    <2>3. \A c \in Chunks : c # Mine => row'[c] = row[c]
      BY <2>1, <2>2
    <2>4. row'[Mine] = claim
      BY <2>1, <2>2
    <2>5. QED
      BY <1>3, <2>1, <2>3, <2>4 DEF Registered, Sealed
  <1>4. QED
    BY <1>1, <1>2, <1>3

\* A step of a seal keeps its request, or answers it.
LEMMA SealSteps ==
    ASSUME SealingAssumption, Inv, Advance \/ Failure
    PROVE  ~Sealed /\ at' # "down" /\ (at' # "idle" => claim' = claim /\ at' \in Steps)
  BY DEF Advance, Reconcile, AnswerKnown, FindAudio, Adopt,
     InsertAdopted, Open, WriteIntent, NameIntent, SyncIntent, Check, Publish, Validate,
     SyncAudio, Insert, Retire, Withdraw, Restore, SyncRestore, Abandon, Refused, Step,
     Failure, PlainFailure, TempFailure, IntentSyncFailure, PublishFailure, LateFailure,
     RestoreFailure, RemovalFailure, ReturnOk, ReturnError, ReturnRecoveryRequired, Return,
     Sealed, Steps, Outcome

\* Numbers stay registered; a session has no gap while its front is complete.
LEMMA NumbersGrow ==
    ASSUME SealingAssumption, Inv, CommitInv, [Next]_vars
    PROVE  /\ \A s \in Sessions, n \in Nat : Numbered(s, n) => Numbered(s, n)'
           /\ NoGapInSession'
  <1>1. \A s \in Sessions, n \in Nat : Numbered(s, n) => Numbered(s, n)'
    BY RowsGrow DEF Numbered
  <1>2. ASSUME NEW c \in Registered', NEW n \in 0 .. SlotOf[row'[c]][2]
        PROVE  \E d \in Registered' : SlotOf[row'[d]] = <<SlotOf[row'[c]][1], n>>
    <2>1. CASE c \in Registered
      <3>1. row'[c] = row[c]
        BY <2>1, RowsGrow
      <3>2. PICK d \in Registered : SlotOf[row[d]] = <<SlotOf[row[c]][1], n>>
        BY <2>1, <3>1, <1>2 DEF CommitInv, NoGapInSession
      <3>3. QED
        BY <3>1, <3>2, RowsGrow
    <2>2. CASE c \notin Registered
      <3>1. ~Sealed /\ c = Mine /\ row'[c] = claim
        BY <2>2, <1>2, RowsGrow
      <3>2. PICK s \in Sessions :
              s = session /\ s # None /\ taken \in Nat \ {0} /\ SlotOf[claim] = <<s, taken - 1>>
        BY <3>1 DEF CommitInv, Underway, CommitTypeOK
      <3>3. n \in Nat /\ n <= taken - 1
        BY <3>1, <3>2, <1>2
      <3>4. CASE n = taken - 1
        BY <3>1, <3>2, <3>4, <1>2
      <3>5. CASE n < taken - 1
        <4>1. Numbered(s, n)
          BY <3>2, <3>3, <3>5 DEF CommitInv, Front
        <4>2. Numbered(s, n)'
          BY <4>1, <3>2, <3>3, <1>1
        <4>3. QED
          BY <4>1, <3>1, <3>2, <3>3, RowsGrow DEF Numbered
      <3>6. QED
        BY <3>2, <3>3, <3>4, <3>5
    <2>3. QED
      BY <2>1, <2>2
  <1>3. QED
    BY <1>1, <1>2 DEF NoGapInSession


\* The numbers of the session after a step: those before it, and the one just sealed.
LEMMA FrontGrows ==
    ASSUME SealingAssumption, Inv, Inv', CommitInv, [Next]_vars,
           session' = session, taken' = taken,
           Sealed' /\ ~Sealed => claim \in acked'
    PROVE  Front'
  <1> SUFFICES ASSUME session # None, NEW n \in Nat, n < taken, n = taken - 1 => Sealed'
               PROVE  Numbered(session, n)'
    BY DEF Front
  <1>1. PICK s \in Sessions : s = session /\ session' = s
    BY DEF CommitInv, CommitTypeOK
  <1>2. CASE n = taken - 1 => Sealed
    BY <1>1, <1>2, NumbersGrow DEF CommitInv, Front, Numbered
  <1>3. CASE n = taken - 1 /\ ~Sealed
    <2>1. claim \in acked' /\ SlotOf[claim] = <<s, n>>
      BY <1>1, <1>3 DEF CommitInv, Underway
    <2>2. claim \in Claims /\ row'[ChunkOf[claim]] = claim /\ ChunkOf[claim] \in Chunks
      BY <2>1 DEF Inv, TypeOK, AckedIsRegistered, SealingAssumption
    <2>3. QED
      BY <1>1, <2>1, <2>2 DEF Numbered, Registered, SealingAssumption
  <1>4. QED
    BY <1>2, <1>3

\* The initial state satisfies the invariant.
LEMMA InitCommitInv == ASSUME CommitInit, Inv PROVE CommitInv
  BY DEF CommitInit, Init, CommitInv, CommitTypeOK, Inv, QueuedIsRegistered, Underway, Front, Sealed,
         NoGapInSession, Registered

\* Every step of the worker preserves it.
LEMMA NextCommitInv ==
    ASSUME SealingAssumption, CommitAssumption, Inv, Inv', CommitInv, [CommitNext]_allVars
    PROVE  CommitInv'
  <1>1. [Next]_vars
    BY IsSealing DEF allVars
  <1>2. TypeOK' /\ NoGapInSession' /\ (\A c \in Registered : c \in Registered')
    BY <1>1, NumbersGrow, RowsGrow DEF Inv
  <1> DEFINE Goal == CommitInv'
  <1>3. CASE UNCHANGED capture /\ UNCHANGED <<at, claim>>
    <2>1. Front'
      BY <1>1, <1>3, FrontGrows DEF capture, Sealed
    <2>2. QED
      BY <1>2, <1>3, <2>1 DEF CommitInv, CommitTypeOK, capture, QueuedIsRegistered, Underway, Sealed
  <1>4. ASSUME NEW s \in Sessions, Begin(s) PROVE Goal
    BY <1>2, <1>4 DEF Begin, CommitInv, CommitTypeOK, QueuedIsRegistered, Underway, Front, Sealed, vars
  <1>5. ASSUME NEW c \in Chunks, Announce(c) PROVE Goal
    <2>1. Front'
      BY <1>1, <1>5, FrontGrows DEF Announce, Record, Sealed
    <2>2. inbox' \in Seq(Chunks)
      BY <1>5 DEF Announce, CommitInv, CommitTypeOK
    <2>3. QED
      BY <1>2, <1>5, <2>1, <2>2
         DEF Announce, Record, CommitInv, CommitTypeOK, QueuedIsRegistered, Underway, Sealed
  <1>6. CASE Commit
    <2>1. PICK r \in Claims : SlotOf[r] = <<session, taken>> /\ Call(r)
      BY <1>6 DEF Commit
    <2>2. Sealed /\ ~Sealed' /\ claim' = r /\ row' = row
      BY <2>1 DEF Call, Sealed
    <2>3. /\ inbox' \in Seq(Chunks)
          /\ session # None /\ taken \in Nat /\ taken' = taken + 1 /\ session' = session
          /\ UNCHANGED <<spent, due, queued>>
      <3>1. inbox \in Seq(Chunks) /\ inbox # <<>> /\ inbox' = Tail(inbox)
        BY <1>6 DEF Commit, CommitInv, CommitTypeOK
      <3>2. inbox' \in Seq(Chunks)
        BY <3>1
      <3>3. QED
        BY <1>6, <3>2 DEF Commit, CommitInv, CommitTypeOK
    <2>4. Front'
      <3> SUFFICES ASSUME NEW n \in Nat, n < taken', n = taken' - 1 => Sealed'
                   PROVE  Numbered(session, n)'
        BY DEF Front
      <3>1. n < taken
        BY <2>2, <2>3
      <3>2. Numbered(session, n)
        BY <2>2, <2>3, <3>1 DEF CommitInv, Front
      <3>3. QED
        BY <2>2, <2>3, <3>2 DEF Numbered, Registered
    <2>5. Underway'
      <3>1. taken' > 0 /\ taken' - 1 = taken
        BY <2>3
      <3>2. SlotOf[claim'] = <<session', taken' - 1>>
        BY <2>1, <2>2, <2>3, <3>1
      <3>3. QED
        BY <2>3, <3>1, <3>2 DEF Underway
    <2>6. due' = None /\ at' # "down"
      <3>1. due = None
        BY <1>6 DEF Commit
      <3>2. at' = "reconcile"
        BY <2>1 DEF Call
      <3>3. QED
        BY <2>3, <3>1, <3>2
    <2>7. CommitTypeOK'
      BY <1>2, <2>3 DEF CommitInv, CommitTypeOK
    <2>8. QED
      BY <1>2, <2>3, <2>4, <2>5, <2>6, <2>7 DEF CommitInv, QueuedIsRegistered
  <1>7. CASE Seal(Advance) \/ Seal(Failure)
    <2>1. ~Sealed /\ at' # "down" /\ (at' # "idle" => claim' = claim /\ at' \in Steps)
      BY <1>7, SealSteps DEF Seal
    <2>2. CASE at' # "idle" /\ UNCHANGED capture
      <3>1. Front'
        BY <1>1, <2>1, <2>2, FrontGrows DEF Sealed, capture
      <3>2. QED
        BY <1>2, <2>1, <2>2, <3>1
           DEF CommitInv, CommitTypeOK, QueuedIsRegistered, Underway, Sealed, capture
    <2>3. CASE /\ at' = "idle" /\ claim \in acked' /\ due' = Mine
               /\ UNCHANGED <<session, spent, inbox, taken, queued>>
      <3>1. Front'
        BY <1>1, <2>3, FrontGrows
      <3>2. Mine \in Registered'
        BY <2>3 DEF Inv, TypeOK, AckedIsRegistered, SealingAssumption, Registered, Mine
      <3>3. QED
        BY <1>2, <2>3, <3>1, <3>2
           DEF CommitInv, CommitTypeOK, QueuedIsRegistered, Underway, Sealed, Registered
    <2>4. CASE at' = "idle" /\ EndSession /\ UNCHANGED <<due, queued>>
      BY <1>2, <2>4 DEF EndSession, CommitInv, CommitTypeOK, QueuedIsRegistered, Underway, Sealed, Front
    <2>5. QED
      BY <1>7, <2>2, <2>3, <2>4 DEF Seal
  <1>8. CASE Transcribe
    <2>1. row' = row /\ at' = at /\ claim' = claim /\ Registered' = Registered
      BY <1>8 DEF Transcribe, vars, Registered
    <2>2. CASE session' = session /\ taken' = taken
      <3>1. Front'
        BY <1>1, <2>1, <2>2, FrontGrows DEF Sealed
      <3>2. due' = None /\ queued' \subseteq Registered /\ spent' = spent /\ inbox' \in Seq(Chunks)
        <4>1. due' = None /\ spent' = spent /\ (inbox' = inbox \/ inbox' = <<>>)
          BY <1>8 DEF Transcribe, EndSession
        <4>2. queued' \subseteq Registered
          BY <1>8 DEF Transcribe, CommitInv, QueuedIsRegistered
        <4>3. inbox' \in Seq(Chunks)
          <5>1. inbox \in Seq(Chunks) /\ <<>> \in Seq(Chunks)
            BY DEF CommitInv, CommitTypeOK
          <5>2. QED
            BY <4>1, <5>1
        <4>4. QED
          BY <4>1, <4>2, <4>3
      <3>3. CommitTypeOK'
        BY <1>2, <2>2, <3>2 DEF CommitInv, CommitTypeOK, Registered
      <3>4. Underway'
        BY <2>1, <2>2 DEF CommitInv, Underway, Sealed
      <3>5. QED
        BY <1>2, <2>1, <2>2, <3>1, <3>2, <3>3, <3>4 DEF CommitInv, QueuedIsRegistered
    <2>3. CASE EndSession /\ UNCHANGED queued
      <3>1. Sealed
        BY <1>8 DEF Transcribe, CommitInv
      <3>2. Sealed' /\ due' = None /\ session' = None
        BY <1>8, <2>1, <2>3, <3>1 DEF Transcribe, EndSession, Sealed
      <3>3. CommitTypeOK'
        BY <1>2, <2>3, <3>2 DEF EndSession, CommitInv, CommitTypeOK
      <3>4. QED
        BY <1>2, <2>3, <3>2, <3>3 DEF CommitInv, QueuedIsRegistered, Underway, Front
    <2>4. QED
      BY <1>8, <2>2, <2>3 DEF Transcribe
  <1>9. CASE Stop \/ Outage
    <2>1. /\ session' = None /\ inbox' = <<>> /\ due' = None
          /\ UNCHANGED <<spent, taken, queued>>
      BY <1>9 DEF Stop, Outage, EndSession
    <2>2. Sealed'
      BY <1>9 DEF Stop, Outage, Crash, PowerLoss, Dies, Sealed, vars
    <2>3. QED
      BY <1>2, <2>1, <2>2 DEF CommitInv, CommitTypeOK, QueuedIsRegistered, Underway, Front
  <1>10. CASE Boot /\ UNCHANGED capture
    <2>1. session = None /\ Sealed'
      BY <1>10 DEF Boot, Start, Clean, CommitInv, Sealed
    <2>2. QED
      BY <1>2, <1>10, <2>1
         DEF capture, CommitInv, CommitTypeOK, QueuedIsRegistered, Underway, Front
  <1>11. CASE UNCHANGED allVars
    BY <1>3, <1>11 DEF allVars, vars
  <1>12. QED
    BY <1>4, <1>5, <1>6, <1>7, <1>8, <1>9, <1>10, <1>11 DEF CommitNext

-----------------------------------------------------------------------------
\* Both invariants hold of every behaviour, for any chunks, sessions and requests.
THEOREM CommitInvariance == CommitSpec => [](Inv /\ CommitInv)
  <1>1. CommitInit => Inv /\ CommitInv
    BY SealingAssumption, InitInv, InitCommitInv DEF CommitInit
  <1>2. Inv /\ CommitInv /\ [CommitNext]_allVars => Inv' /\ CommitInv'
    <2> SUFFICES ASSUME Inv, CommitInv, [CommitNext]_allVars PROVE Inv' /\ CommitInv'
      OBVIOUS
    <2>1. [Next]_vars
      BY IsSealing DEF allVars
    <2>2. Inv'
      BY <2>1, SealingAssumption, NextInv
    <2>3. QED
      BY <2>2, SealingAssumption, CommitAssumption, NextCommitInv
  <1>3. QED
    BY <1>1, <1>2, PTL DEF CommitSpec

\* after_commit runs only behind an Ok of seal: a job is queued for registered audio alone.
THEOREM QueuedAlwaysRegistered == CommitSpec => []QueuedIsRegistered
  <1>1. CommitInv => QueuedIsRegistered
    BY DEF CommitInv
  <1>2. QED
    BY <1>1, CommitInvariance, PTL

\* The first error ends a session, so what is registered of it has no gap.
THEOREM SessionsHaveNoGap == CommitSpec => []NoGapInSession
  <1>1. CommitInv => NoGapInSession
    BY DEF CommitInv
  <1>2. QED
    BY <1>1, CommitInvariance, PTL

\* The worker of a session keeps to the protocol of Sealing: what that promises, its
\* callers get.
THEOREM CaptureKeepsSealing == CommitSpec => Spec
  <1>1. CommitInit => Init
    BY DEF CommitInit
  <1>2. [CommitNext]_allVars => [Next]_vars
    BY IsSealing DEF allVars
  <1>3. QED
    BY <1>1, <1>2, PTL DEF CommitSpec, Spec
=============================================================================
