------------------------ MODULE CaptureControl_proofs ------------------------
(***************************************************************************)
(* Proofs about the session and the helper it drives (CaptureControl).     *)
(* That a stop is durable is a matter of counting: the chunks the session  *)
(* accepted and those still in the pipe are the ones the helper sealed,    *)
(* and the end of a source stands behind every chunk it counts (Ledger).   *)
(* The steps of the helper are proved about through what they write: a     *)
(* step appends events and counts the chunks among them (Wrote).           *)
(* That a recovery is accepted is a matter of order: what the session      *)
(* knows of the last recovery and the reports in the pipe form one line,   *)
(* in which recovering and recovered alternate with growing generations    *)
(* (Alternates), and whose end says how far the attempt is (Fits).         *)
(* That both sides agree at rest rests on where the last command is: in    *)
(* the pipe, being executed or done (Steered), and on each source being    *)
(* announced once (Announced).                                             *)
(***************************************************************************)
EXTENDS CaptureControl, FiniteSetTheorems, SequenceTheorems, TLAPS

Types == {"started", "sealed", "stopped", "interrupted", "recovering", "recovered", "fatal", "ack"}

\* The events of a microphone recovery, and those that end the worker.
IsRec(e) == e.type \in {"recovering", "recovered"}
Terminal(e) == e.type = "fatal" \/ (e.type = "interrupted" /\ e.n = 0)

HelperEvent ==
    {e \in [type : Types, source : Source, n : Nat] :
        /\ IsRec(e) => e.source = Mic
        /\ e.type = "interrupted" /\ e.source = Mic => e.n = 0
        /\ IsRec(e) \/ e.type \in {"started", "stopped"} => e.source \in Requested}

Commands == {"start", "pause", "resume", "stop", "shutdown"}
Ops == {"read", "start", "announce", "pause", "resume", "stop", "stopped", "shutdown", "shut"}
Stages == {"none", "waiting", "signal", "teardown", "post", "rebuild", "report", "failing"}

ControlTyped ==
    /\ cmds \in Seq(Commands) /\ enabled \subseteq Requested
    /\ loop \in {"awaiting", "capturing", "stopped", "gone"}
    /\ ctlState \in {"idle", "starting", "running", "paused", "stopping", "stopped", "failed"}
    /\ task \in [op : Ops, todo : Seq(Requested)]
    /\ task.op = "read" => task = Resting
    /\ task.op \in {"stopped", "shut"} => task.todo # <<>>

Attempts == [gen : Nat, stage : Stages, mine : Nat, active : BOOLEAN, starts : Nat]

AudioTyped ==
    /\ engine \in [Source -> {"off", "on", "paused", "dead"}] /\ unsealed \in [Source -> BOOLEAN]
    /\ mic \in [running : BOOLEAN, published : BOOLEAN, path : BOOLEAN, terminal : {FALSE}]
    /\ rec \in Attempts

WireTyped == evts \in Seq(HelperEvent) /\ sealed \in [Source -> Nat]

AppTyped ==
    /\ caller \in {"idle", "start", "pause", "resume", "stop", "join"}
    /\ control \in {"none", "pause", "resume", "stop"}
    /\ worker \in {"none", "running", "exited"} /\ startup \in {"none", "ok", "error"}
    /\ phase \in {"Requested", "Running", "Paused", "Stopping", "Stopped", "Failed"}
    /\ state \in [Requested -> {"Requested", "Running", "Recovering", "Paused", "Stopping", "Stopped"}]
    /\ stopped \subseteq Requested /\ announced \subseteq Requested
    /\ committed \in [Source -> Nat] /\ due \in [Source -> Nat] /\ lastGen \in Nat
    /\ flags \in [stop : BOOLEAN, shutdown : BOOLEAN, toggles : Nat]

Typed == ControlTyped /\ AudioTyped /\ WireTyped /\ AppTyped

IsSeal(e, s) == e.type = "sealed" /\ e.source = s
SealedIn(q, s, i) == {j \in 1 .. i : IsSeal(q[j], s)}
SealedUpTo(q, s, i) == Cardinality(SealedIn(q, s, i))

-----------------------------------------------------------------------------
(* Counting the sealed chunks in a queue.                                  *)

LEMMA CountType ==
    ASSUME NEW q, NEW s, NEW i \in Nat
    PROVE  IsFiniteSet(SealedIn(q, s, i)) /\ SealedUpTo(q, s, i) \in Nat
<1>1. IsFiniteSet(1 .. i)
  BY FS_Interval
<1>2. SealedIn(q, s, i) \subseteq 1 .. i
  BY DEF SealedIn
<1>3. IsFiniteSet(SealedIn(q, s, i))
  BY <1>1, <1>2, FS_Subset
<1> QED
  BY <1>3, FS_CardinalityType DEF SealedUpTo

\* Equal prefixes hold equally many.
LEMMA CountSame ==
    ASSUME NEW q, NEW r, NEW s, NEW i \in Nat, \A j \in 1 .. i : r[j] = q[j]
    PROVE  SealedUpTo(r, s, i) = SealedUpTo(q, s, i)
<1>1. SealedIn(r, s, i) = SealedIn(q, s, i)
  BY DEF SealedIn, IsSeal
<1> QED
  BY <1>1 DEF SealedUpTo

LEMMA CountGrows ==
    ASSUME NEW q, NEW s, NEW i \in Nat, NEW j \in Nat, i <= j
    PROVE  SealedUpTo(q, s, i) <= SealedUpTo(q, s, j)
<1>1. SealedIn(q, s, i) \subseteq SealedIn(q, s, j)
  BY DEF SealedIn
<1>2. IsFiniteSet(SealedIn(q, s, j))
  BY CountType
<1> QED
  BY <1>1, <1>2, FS_Subset DEF SealedUpTo

\* Where no event is the seal of s, the count stays.
LEMMA CountSkips ==
    ASSUME NEW q, NEW s, NEW i \in Nat, NEW j \in Nat, i <= j,
           \A k \in i + 1 .. j : ~ IsSeal(q[k], s)
    PROVE  SealedUpTo(q, s, j) = SealedUpTo(q, s, i)
<1>1. SealedIn(q, s, j) = SealedIn(q, s, i)
  <2>1. \A k \in 1 .. j : k \in 1 .. i \/ k \in i + 1 .. j
    OBVIOUS
  <2> QED BY <2>1 DEF SealedIn
<1> QED
  BY <1>1 DEF SealedUpTo

\* One more seal of s, one more in the count.
LEMMA CountOne ==
    ASSUME NEW q, NEW s, NEW k \in Nat, IsSeal(q[k + 1], s)
    PROVE  SealedUpTo(q, s, k + 1) = SealedUpTo(q, s, k) + 1
<1>1. SealedIn(q, s, k + 1) = SealedIn(q, s, k) \cup {k + 1}
  <2>1. \A j : j \in 1 .. k + 1 <=> (j \in 1 .. k \/ j = k + 1)
    OBVIOUS
  <2> QED BY <2>1 DEF SealedIn
<1>2. k + 1 \notin SealedIn(q, s, k)
  BY DEF SealedIn
<1>3. IsFiniteSet(SealedIn(q, s, k))
  BY CountType
<1> QED
  BY <1>1, <1>2, <1>3, FS_AddElement DEF SealedUpTo

\* What was at the head is no longer in the queue.
LEMMA CountTail ==
    ASSUME NEW q \in Seq(HelperEvent), q # <<>>, NEW s, NEW i \in Nat, i <= Len(q) - 1
    PROVE  SealedUpTo(q, s, i + 1) = SealedUpTo(Tail(q), s, i) + (IF IsSeal(Head(q), s) THEN 1 ELSE 0)
<1> DEFINE A == SealedIn(Tail(q), s, i)
           B == SealedIn(q, s, i + 1) \ {1}
           f == [j \in A |-> j + 1]
<1>1. \A j \in 1 .. i : Tail(q)[j] = q[j + 1]
  BY HeadTailProperties
<1>2. ExistsBijection(A, B)
  <2>1. \A j \in A : j \in 1 .. i /\ IsSeal(q[j + 1], s)
    BY <1>1 DEF SealedIn
  <2>2. f \in [A -> B]
    BY <2>1 DEF SealedIn
  <2>3. \A j, k \in A : f[j] = f[k] => j = k
    BY <2>1
  <2>4. \A k \in B : \E j \in A : f[j] = k
    <3> TAKE k \in B
    <3>1. k - 1 \in 1 .. i /\ (k - 1) + 1 = k /\ IsSeal(q[k], s)
      BY DEF SealedIn
    <3>2. k - 1 \in A
      BY <1>1, <3>1 DEF SealedIn
    <3> QED BY <3>1, <3>2
  <2>5. f \in Bijection(A, B)
    BY <2>2, <2>3, <2>4 DEF Bijection, Injection, Surjection, IsInjective
  <2> QED BY <2>5 DEF ExistsBijection
<1>3. IsFiniteSet(A) /\ IsFiniteSet(B)
  <2>1. IsFiniteSet(SealedIn(q, s, i + 1)) /\ B \subseteq SealedIn(q, s, i + 1)
    BY CountType
  <2> QED BY <2>1, FS_Subset, CountType
<1>4. Cardinality(A) = Cardinality(B)
  BY <1>2, <1>3, FS_Bijection
<1>5. 1 \in 1 .. i + 1 /\ q[1] = Head(q)
  OBVIOUS
<1>6. CASE IsSeal(Head(q), s)
  <2>1. SealedIn(q, s, i + 1) = B \cup {1} /\ 1 \notin B
    BY <1>5, <1>6 DEF SealedIn
  <2>2. Cardinality(B \cup {1}) = Cardinality(B) + 1
    BY <1>3, <2>1, FS_AddElement
  <2>3. SealedUpTo(q, s, i + 1) = Cardinality(B \cup {1}) /\ SealedUpTo(Tail(q), s, i) = Cardinality(A)
    BY <2>1 DEF SealedUpTo
  <2>4. Cardinality(B) \in Nat
    BY <1>3, FS_CardinalityType
  <2> HIDE DEF A, B
  <2> QED BY <1>4, <1>6, <2>2, <2>3, <2>4
<1>7. CASE ~ IsSeal(Head(q), s)
  <2>1. SealedIn(q, s, i + 1) = B
    BY <1>5, <1>7 DEF SealedIn
  <2>2. Cardinality(B) \in Nat
    BY <1>3, FS_CardinalityType
  <2>3. SealedUpTo(q, s, i + 1) = Cardinality(B) /\ SealedUpTo(Tail(q), s, i) = Cardinality(A)
    BY <2>1 DEF SealedUpTo
  <2> HIDE DEF A, B
  <2> QED BY <1>4, <1>7, <2>2, <2>3
<1> QED BY <1>6, <1>7

-----------------------------------------------------------------------------
(* What a step of the helper writes.                                       *)

\* Each source's counter grows with the seals of it that r holds, by one at most, and
\* no end of a source in r counts more than was sealed before.
Counted(r) ==
    \A s \in Source :
        /\ \/ sealed'[s] = sealed[s] /\ \A k \in DOMAIN r : ~ IsSeal(r[k], s)
           \/ sealed'[s] = sealed[s] + 1
              /\ \E k \in DOMAIN r : IsSeal(r[k], s) /\ \A j \in DOMAIN r : IsSeal(r[j], s) => j = k
        /\ \A k \in DOMAIN r : r[k].type = "stopped" /\ r[k].source = s => r[k].n <= sealed[s]

\* Events that count nothing.
Silent(r) == \A k \in DOMAIN r : r[k].type # "sealed" /\ (r[k].type = "stopped" => r[k].n = 0)

LEMMA Orders ==
    ASSUME NEW S
    PROVE  /\ sourceOrder(S) \in Seq(Source)
           /\ \A s \in Source : s \in S => \E k \in DOMAIN sourceOrder(S) : sourceOrder(S)[k] = s
           /\ \A k \in DOMAIN sourceOrder(S) : sourceOrder(S)[k] \in S
           /\ \A j, k \in DOMAIN sourceOrder(S) : sourceOrder(S)[j] = sourceOrder(S)[k] => j = k
<1>1. CASE Mic \in S /\ Sys \in S
  <2> DEFINE o == sourceOrder(S)
  <2>1. o = <<Mic>> \o <<Sys>>
    BY <1>1 DEF sourceOrder
  <2>2. Mic \in Source /\ Sys \in Source /\ Mic # Sys /\ \A s \in Source : s = Mic \/ s = Sys
    BY DEF Source, Mic, Sys
  <2>3. o \in Seq(Source) /\ DOMAIN o = {1, 2} /\ o[1] = Mic /\ o[2] = Sys
    <3>1. <<Mic>> \in Seq(Source) /\ <<Sys>> \in Seq(Source)
      BY <2>2
    <3>2. o \in Seq(Source) /\ Len(o) = 2
      BY <2>1, <3>1
    <3>3. o[1] = Mic /\ o[2] = Sys
      BY <2>1, <3>1, ConcatProperties
    <3> QED BY <3>2, <3>3
  <2> HIDE DEF o
  <2>4. /\ \A s \in Source : s \in S => \E k \in DOMAIN o : o[k] = s
        /\ \A k \in DOMAIN o : o[k] \in S
        /\ \A j, k \in DOMAIN o : o[j] = o[k] => j = k
    BY <1>1, <2>2, <2>3
  <2> QED BY <2>3, <2>4 DEF o
<1>2. CASE Mic \in S /\ Sys \notin S
  <2>1. sourceOrder(S) = <<Mic>>
    BY <1>2 DEF sourceOrder
  <2> QED BY <1>2, <2>1 DEF Source, Mic, Sys
<1>3. CASE Mic \notin S /\ Sys \in S
  <2>1. sourceOrder(S) = <<Sys>>
    BY <1>3 DEF sourceOrder
  <2> QED BY <1>3, <2>1 DEF Source, Mic, Sys
<1>4. CASE Mic \notin S /\ Sys \notin S
  <2>1. sourceOrder(S) = <<>>
    BY <1>4 DEF sourceOrder
  <2> QED BY <1>4, <2>1 DEF Source, Mic, Sys
<1> QED BY <1>1, <1>2, <1>3, <1>4

\* An event of each source of S, in their order.
LEMMA EventsOfSources ==
    ASSUME NEW S, NEW type \in {"sealed", "stopped"}, type = "stopped" => S \subseteq Requested,
           NEW r, r = [i \in 1 .. Len(sourceOrder(S)) |-> Event(type, sourceOrder(S)[i], 0)]
    PROVE  /\ r \in Seq(HelperEvent)
           /\ DOMAIN r = DOMAIN sourceOrder(S)
           /\ \A k \in DOMAIN r : r[k] = Event(type, sourceOrder(S)[k], 0)
<1> DEFINE o == sourceOrder(S)
<1>1. o \in Seq(Source) /\ Len(o) \in Nat
  BY Orders
<1> HIDE DEF o
<1>2. \A k \in 1 .. Len(o) : o[k] \in Source /\ (type = "stopped" => o[k] \in Requested)
  BY <1>1, Orders DEF o
<1>3. \A k \in 1 .. Len(o) : Event(type, o[k], 0) \in HelperEvent
  BY <1>2 DEF HelperEvent, Event, IsRec, Types
<1>4. r = [i \in 1 .. Len(o) |-> Event(type, o[i], 0)]
  BY DEF o
<1>5. r \in Seq(HelperEvent)
  BY <1>1, <1>3, <1>4, IsASeq
<1> QED BY <1>1, <1>4, <1>5 DEF o

\* sealForDiscontinuity announces what it seals.
LEMMA SealsCounted ==
    ASSUME sealed \in [Source -> Nat], NEW S, SealAll(S)
    PROVE  /\ SealOf(S) \in Seq(HelperEvent)
           /\ Counted(SealOf(S))
           /\ \A k \in DOMAIN SealOf(S) : SealOf(S)[k].type = "sealed"
<1> DEFINE T == {s \in S : unsealed[s]}
           o == sourceOrder(T)
           r == SealOf(S)
<1>1. r \in Seq(HelperEvent) /\ DOMAIN r = DOMAIN o /\ \A k \in DOMAIN r : r[k] = Event("sealed", o[k], 0)
  <2>1. r = [i \in 1 .. Len(o) |-> Event("sealed", o[i], 0)]
    BY DEF SealOf
  <2> HIDE DEF T
  <2> QED BY <2>1, EventsOfSources DEF Types
<1>2. \A k \in DOMAIN r : r[k].type = "sealed" /\ r[k].source = o[k]
  BY <1>1 DEF Event
<1>3. \A s \in Source : sealed'[s] = IF s \in T THEN sealed[s] + 1 ELSE sealed[s]
  BY DEF SealAll
<1>4. /\ \A s \in Source : s \in T => \E k \in DOMAIN o : o[k] = s
      /\ \A k \in DOMAIN o : o[k] \in T
      /\ \A j, k \in DOMAIN o : o[j] = o[k] => j = k
  BY Orders
<1> HIDE DEF r, o, T
<1>5. Counted(r)
  BY <1>1, <1>2, <1>3, <1>4 DEF Counted, IsSeal
<1> QED BY <1>1, <1>2, <1>5 DEF r

LEMMA CountedThen ==
    ASSUME NEW r \in Seq(HelperEvent), NEW x \in Seq(HelperEvent), Counted(r), Silent(x),
           sealed \in [Source -> Nat]
    PROVE  Counted(r \o x) /\ Counted(x \o r)
<1>1. /\ \A k \in DOMAIN (r \o x) :
           \/ k \in DOMAIN r /\ (r \o x)[k] = r[k]
           \/ k \notin DOMAIN r /\ \E j \in DOMAIN x : (r \o x)[k] = x[j]
      /\ \A k \in DOMAIN r : k \in DOMAIN (r \o x)
  OBVIOUS
<1>2. /\ \A k \in DOMAIN (x \o r) :
           \/ \E j \in DOMAIN x : (x \o r)[k] = x[j]
           \/ k - Len(x) \in DOMAIN r /\ (x \o r)[k] = r[k - Len(x)]
      /\ \A k \in DOMAIN r : k + Len(x) \in DOMAIN (x \o r) /\ (x \o r)[k + Len(x)] = r[k]
  OBVIOUS
<1>3. Len(x) \in Nat /\ \A k \in DOMAIN r : (k + Len(x)) - Len(x) = k
  OBVIOUS
<1>4. \A k \in DOMAIN (x \o r) : (k - Len(x)) + Len(x) = k
  OBVIOUS
<1>5. \A s \in Source : sealed[s] \in Nat
  OBVIOUS
<1>6. Counted(r \o x)
  <2> DEFINE y == r \o x
  <2>1. /\ \A k \in DOMAIN y :
             \/ k \in DOMAIN r /\ y[k] = r[k]
             \/ k \notin DOMAIN r /\ \E j \in DOMAIN x : y[k] = x[j]
        /\ \A k \in DOMAIN r : k \in DOMAIN y /\ y[k] = r[k]
    BY <1>1
  <2> HIDE DEF y
  <2>2. Counted(y)
    <3> SUFFICES ASSUME NEW s \in Source
                 PROVE  /\ \/ sealed'[s] = sealed[s] /\ \A k \in DOMAIN y : ~ IsSeal(y[k], s)
                           \/ sealed'[s] = sealed[s] + 1
                              /\ \E k \in DOMAIN y : IsSeal(y[k], s) /\ \A j \in DOMAIN y : IsSeal(y[j], s) => j = k
                        /\ \A k \in DOMAIN y : y[k].type = "stopped" /\ y[k].source = s => y[k].n <= sealed[s]
      BY DEF Counted
    <3>1. \A k \in DOMAIN y : IsSeal(y[k], s) => k \in DOMAIN r /\ IsSeal(r[k], s)
      BY <2>1 DEF Silent, IsSeal
    <3>2. \A k \in DOMAIN y : y[k].type = "stopped" /\ y[k].source = s => y[k].n <= sealed[s]
      BY <1>5, <2>1 DEF Silent, Counted
    <3>3. \A k \in DOMAIN r : k \in DOMAIN y /\ (IsSeal(r[k], s) => IsSeal(y[k], s))
      BY <2>1 DEF IsSeal
    <3> QED BY <3>1, <3>2, <3>3 DEF Counted
  <2> QED BY <2>2 DEF y
<1>7. Counted(x \o r)
  <2> DEFINE y == x \o r
             n == Len(x)
  <2>1. /\ \A k \in DOMAIN y :
             \/ \E j \in DOMAIN x : y[k] = x[j]
             \/ k - n \in DOMAIN r /\ y[k] = r[k - n]
        /\ \A k \in DOMAIN r : k + n \in DOMAIN y /\ y[k + n] = r[k] /\ (k + n) - n = k
        /\ \A k \in DOMAIN y : (k - n) + n = k
    BY <1>2, <1>3, <1>4
  <2> HIDE DEF y, n
  <2>2. Counted(y)
    <3> SUFFICES ASSUME NEW s \in Source
                 PROVE  /\ \/ sealed'[s] = sealed[s] /\ \A k \in DOMAIN y : ~ IsSeal(y[k], s)
                           \/ sealed'[s] = sealed[s] + 1
                              /\ \E k \in DOMAIN y : IsSeal(y[k], s) /\ \A j \in DOMAIN y : IsSeal(y[j], s) => j = k
                        /\ \A k \in DOMAIN y : y[k].type = "stopped" /\ y[k].source = s => y[k].n <= sealed[s]
      BY DEF Counted
    <3>1. \A k \in DOMAIN y : IsSeal(y[k], s) => k - n \in DOMAIN r /\ IsSeal(r[k - n], s)
      BY <2>1 DEF Silent, IsSeal
    <3>2. \A k \in DOMAIN y : y[k].type = "stopped" /\ y[k].source = s => y[k].n <= sealed[s]
      BY <1>5, <2>1 DEF Silent, Counted
    <3>3. CASE sealed'[s] = sealed[s] /\ \A k \in DOMAIN r : ~ IsSeal(r[k], s)
      BY <3>1, <3>2, <3>3
    <3>4. ASSUME sealed'[s] = sealed[s] + 1,
                 NEW k \in DOMAIN r, IsSeal(r[k], s), \A j \in DOMAIN r : IsSeal(r[j], s) => j = k
          PROVE  /\ sealed'[s] = sealed[s] + 1
                 /\ \E m \in DOMAIN y : IsSeal(y[m], s) /\ \A j \in DOMAIN y : IsSeal(y[j], s) => j = m
      <4>1. k + n \in DOMAIN y /\ IsSeal(y[k + n], s)
        BY <2>1, <3>4 DEF IsSeal
      <4>2. \A j \in DOMAIN y : IsSeal(y[j], s) => j = k + n
        BY <2>1, <3>1, <3>4
      <4> QED BY <3>4, <4>1, <4>2
    <3> QED BY <3>2, <3>3, <3>4 DEF Counted
  <2> QED BY <2>2 DEF y
<1> QED BY <1>6, <1>7

\* A step appends r to the events.
Wrote(r) == r \in Seq(HelperEvent) /\ evts' = evts \o r /\ Counted(r)

LEMMA WroteNothing ==
    ASSUME WireTyped, UNCHANGED <<evts, sealed>>
    PROVE  Wrote(<<>>)
<1>1. <<>> \in Seq(HelperEvent) /\ evts \o <<>> = evts
  BY DEF WireTyped
<1>2. Counted(<<>>)
  BY DEF Counted
<1> QED BY <1>1, <1>2 DEF Wrote

LEMMA WroteOne ==
    ASSUME WireTyped, NEW e \in HelperEvent, evts' = Append(evts, e), UNCHANGED sealed,
           e.type # "sealed", e.type = "stopped" => e.n <= sealed[e.source]
    PROVE  Wrote(<<e>>)
<1>1. evts' = evts \o <<e>>
  BY AppendIsConcat DEF WireTyped
<1>2. <<e>> \in Seq(HelperEvent) /\ DOMAIN <<e>> = {1} /\ <<e>>[1] = e
  OBVIOUS
<1>3. Counted(<<e>>)
  BY <1>2 DEF Counted, IsSeal
<1> QED BY <1>1, <1>2, <1>3 DEF Wrote

\* The seals of S, and what comes before or after them.
LEMMA WroteSeals ==
    ASSUME WireTyped, NEW S, SealAll(S), NEW x \in Seq(HelperEvent), Silent(x)
    PROVE  /\ evts' = evts \o SealOf(S) => Wrote(SealOf(S))
           /\ evts' = evts \o SealOf(S) \o x => Wrote(SealOf(S) \o x)
           /\ evts' = evts \o x \o SealOf(S) => Wrote(x \o SealOf(S))
<1>1. SealOf(S) \in Seq(HelperEvent) /\ Counted(SealOf(S))
  BY SealsCounted DEF WireTyped
<1> DEFINE r == SealOf(S)
<1> HIDE DEF r
<1>2. r \in Seq(HelperEvent) /\ Counted(r) /\ evts \in Seq(HelperEvent)
  BY <1>1 DEF r, WireTyped
<1>3. Counted(r \o x) /\ Counted(x \o r)
  BY <1>2, CountedThen DEF WireTyped
<1>4. r \o x \in Seq(HelperEvent) /\ x \o r \in Seq(HelperEvent)
  BY <1>2
<1>5. (evts \o r) \o x = evts \o (r \o x) /\ (evts \o x) \o r = evts \o (x \o r)
  <2>1. \A a, b, c \in Seq(HelperEvent) : (a \o b) \o c = a \o (b \o c)
    BY ConcatAssociative
  <2> QED BY <1>2, <2>1
<1>6. evts' = evts \o r => Wrote(r)
  BY <1>2 DEF Wrote
<1>7. evts' = (evts \o r) \o x => Wrote(r \o x)
  BY <1>3, <1>4, <1>5 DEF Wrote
<1>8. evts' = (evts \o x) \o r => Wrote(x \o r)
  BY <1>3, <1>4, <1>5 DEF Wrote
<1> QED BY <1>6, <1>7, <1>8, Zenon DEF r

\* Nothing about a start or a recovery.
Dull(r) == \A k \in DOMAIN r : r[k].type # "started" /\ ~ IsRec(r[k])
NoStops(r) == \A k \in DOMAIN r : r[k].type # "stopped"
Ends(r) == \E k \in DOMAIN r : Terminal(r[k])

LEMMA JoinedEvents ==
    ASSUME NEW r \in Seq(HelperEvent), NEW x \in Seq(HelperEvent), Dull(r), Dull(x)
    PROVE  /\ Dull(r \o x) /\ Dull(x \o r)
           /\ NoStops(r) /\ NoStops(x) => NoStops(r \o x) /\ NoStops(x \o r)
           /\ Ends(x) => Ends(r \o x) /\ Ends(x \o r)
<1>1. ASSUME NEW a \in Seq(HelperEvent), NEW b \in Seq(HelperEvent)
      PROVE  /\ \A k \in DOMAIN (a \o b) : (\E j \in DOMAIN a : (a \o b)[k] = a[j]) \/ (\E j \in DOMAIN b : (a \o b)[k] = b[j])
             /\ \A k \in DOMAIN a : k \in DOMAIN (a \o b) /\ (a \o b)[k] = a[k]
             /\ \A k \in DOMAIN b : k + Len(a) \in DOMAIN (a \o b) /\ (a \o b)[k + Len(a)] = b[k]
  <2>1. \A k \in DOMAIN (a \o b) : (\E j \in DOMAIN a : (a \o b)[k] = a[j]) \/ (\E j \in DOMAIN b : (a \o b)[k] = b[j])
    <3> TAKE k \in DOMAIN (a \o b)
    <3>1. CASE k \in DOMAIN a
      BY <3>1
    <3>2. CASE k \notin DOMAIN a
      <4>1. k - Len(a) \in DOMAIN b /\ (a \o b)[k] = b[k - Len(a)]
        BY <3>2
      <4> QED BY <4>1
    <3> QED BY <3>1, <3>2
  <2>2. \A k \in DOMAIN a : k \in DOMAIN (a \o b) /\ (a \o b)[k] = a[k]
    OBVIOUS
  <2>3. \A k \in DOMAIN b : k + Len(a) \in DOMAIN (a \o b) /\ (a \o b)[k + Len(a)] = b[k]
    OBVIOUS
  <2> QED BY <2>1, <2>2, <2>3
<1>2. Dull(r \o x) /\ Dull(x \o r)
  BY <1>1 DEF Dull
<1>3. NoStops(r) /\ NoStops(x) => NoStops(r \o x) /\ NoStops(x \o r)
  BY <1>1 DEF NoStops
<1>4. Ends(x) => Ends(r \o x) /\ Ends(x \o r)
  BY <1>1 DEF Ends
<1> QED BY <1>2, <1>3, <1>4

LEMMA PlainSeals ==
    ASSUME WireTyped, NEW S, SealAll(S)
    PROVE  SealOf(S) \in Seq(HelperEvent) /\ Dull(SealOf(S)) /\ NoStops(SealOf(S))
BY SealsCounted DEF WireTyped, Dull, NoStops, IsRec

\* A terminal event alone.
LEMMA PlainTerminal ==
    ASSUME NEW e \in HelperEvent, e = Fatal \/ (e.type = "interrupted")
    PROVE  /\ <<e>> \in Seq(HelperEvent) /\ Silent(<<e>>) /\ Dull(<<e>>) /\ NoStops(<<e>>)
           /\ Terminal(e) => Ends(<<e>>)
<1>1. <<e>> \in Seq(HelperEvent) /\ DOMAIN <<e>> = {1} /\ <<e>>[1] = e /\ e.type \in {"fatal", "interrupted"}
  BY DEF Fatal, Event
<1> QED BY <1>1 DEF Silent, Dull, NoStops, Ends, IsRec

\* The seals of S before or after a terminal event.
LEMMA SealsAndEnd ==
    ASSUME WireTyped, NEW S, SealAll(S), NEW e \in HelperEvent, e = Fatal \/ e.type = "interrupted",
           evts' = evts \o SealOf(S) \o <<e>> \/ evts' = evts \o <<e>> \o SealOf(S)
    PROVE  \E r : Wrote(r) /\ Dull(r) /\ NoStops(r) /\ (Terminal(e) => Ends(r))
<1> DEFINE x == <<e>>
           o == SealOf(S)
<1>1. x \in Seq(HelperEvent) /\ Silent(x) /\ Dull(x) /\ NoStops(x) /\ (Terminal(e) => Ends(x))
  BY PlainTerminal
<1>2. o \in Seq(HelperEvent) /\ Dull(o) /\ NoStops(o)
  BY PlainSeals
<1>3. /\ evts' = evts \o o \o x => Wrote(o \o x)
      /\ evts' = evts \o x \o o => Wrote(x \o o)
  BY <1>1, WroteSeals
<1> HIDE DEF x, o
<1>4. /\ Dull(o \o x) /\ NoStops(o \o x) /\ (Ends(x) => Ends(o \o x))
      /\ Dull(x \o o) /\ NoStops(x \o o) /\ (Ends(x) => Ends(x \o o))
  BY <1>1, <1>2, JoinedEvents
<1>5. evts' = evts \o o \o x \/ evts' = evts \o x \o o
  BY DEF x, o
<1> QED BY <1>1, <1>3, <1>4, <1>5

\* A command announces sources only where it says so, and their end only when it stops.
LEMMA CommandWrites ==
    ASSUME HelperAssumption, ControlTyped, WireTyped, Command
    PROVE  \/ \E r : Wrote(r) /\ Dull(r) /\ (NoStops(r) \/ AnnounceStopped \/ RejectCommand)
           \/ Announce /\ Wrote(<<Event("started", Head(task.todo), 0)>>)
<1>1. Fatal \in HelperEvent /\ Terminal(Fatal)
  BY DEF Fatal, Event, HelperEvent, IsRec, Types, Source, Mic, Terminal
<1>2. CASE UNCHANGED <<evts, sealed>>
  BY <1>2, WroteNothing DEF Dull, NoStops
<1>3. CASE Announce
  <2>1. Head(task.todo) \in Requested
    BY <1>3 DEF Announce, ControlTyped
  <2>2. Event("started", Head(task.todo), 0) \in HelperEvent
    BY <2>1 DEF Event, HelperEvent, IsRec, Types, HelperAssumption, Source
  <2> QED BY <1>3, <2>2, WroteOne DEF Announce, Event
<1>4. CASE StartAdapterFails
  <2>1. PICK S : SealAll(S) /\ evts' = evts \o SealOf(S) \o <<Fatal>>
    BY <1>4 DEF StartAdapterFails, StopAdapters
  <2> QED BY <1>1, <2>1, SealsAndEnd
<1>5. CASE TransitionFails
  <2>1. PICK S : SealAll(S) /\ evts' = evts \o SealOf(S) \o <<Fatal>>
    BY <1>5 DEF TransitionFails, StopAdapters
  <2> QED BY <1>1, <2>1, SealsAndEnd
<1>6. CASE StopAdapter
  <2>1. PICK S : SealAll(S) /\ evts' = evts \o SealOf(S)
    BY <1>6 DEF StopAdapter, StopAdapters
  <2>2. Wrote(SealOf(S))
    <3>1. <<>> \in Seq(HelperEvent) /\ Silent(<<>>)
      BY DEF Silent
    <3> QED BY <2>1, <3>1, WroteSeals
  <2> QED BY <2>1, <2>2, PlainSeals
<1>7. CASE AnnounceStopped
  <2> DEFINE s == Head(task.todo)
             e == Event("stopped", s, sealed[s])
  <2>1. s \in Requested /\ s \in Source
    <3>1. task.todo \in Seq(Requested) /\ task.todo # <<>>
      BY <1>7 DEF AnnounceStopped, ControlTyped
    <3>2. s \in Requested
      BY <3>1
    <3> QED BY <3>2 DEF HelperAssumption, Source
  <2>2. e \in HelperEvent /\ e.type = "stopped" /\ e.source = s /\ e.n = sealed[s]
    BY <2>1 DEF Event, HelperEvent, IsRec, Types, WireTyped
  <2>3. sealed[s] <= sealed[s]
    BY <2>1 DEF WireTyped
  <2>4. evts' = Append(evts, e) /\ UNCHANGED sealed
    BY <1>7 DEF AnnounceStopped
  <2> HIDE DEF e, s
  <2>5. Wrote(<<e>>)
    BY <2>2, <2>3, <2>4, WroteOne
  <2>6. Dull(<<e>>)
    BY <2>2 DEF Dull, IsRec
  <2> QED BY <1>7, <2>5, <2>6
<1>8. CASE Acknowledge
  <2>1. Event("ack", Mic, 0) \in HelperEvent
    BY DEF Event, HelperEvent, IsRec, Types, Source, Mic
  <2>2. Wrote(<<Event("ack", Mic, 0)>>)
    BY <1>8, <2>1, WroteOne DEF Acknowledge, Event
  <2>3. Dull(<<Event("ack", Mic, 0)>>) /\ NoStops(<<Event("ack", Mic, 0)>>)
    BY DEF Dull, NoStops, IsRec, Event
  <2> QED BY <2>2, <2>3
<1>9. CASE RejectCommand
  <2> DEFINE S == Drained(enabled)
             st == [i \in 1 .. Len(sourceOrder(enabled)) |-> Event("stopped", sourceOrder(enabled)[i], 0)]
             x == st \o <<Fatal>>
  <2>1. SealAll(S) /\ evts' = ((evts \o SealOf(S)) \o st) \o <<Fatal>>
    BY <1>9 DEF RejectCommand, Throw, StopAdapters
  <2>2. st \in Seq(HelperEvent) /\ Silent(st) /\ Dull(st)
    <3>1. /\ st \in Seq(HelperEvent) /\ DOMAIN st = DOMAIN sourceOrder(enabled)
          /\ \A k \in DOMAIN st : st[k] = Event("stopped", sourceOrder(enabled)[k], 0)
      BY EventsOfSources DEF ControlTyped
    <3> HIDE DEF st
    <3> QED BY <3>1 DEF Silent, Dull, IsRec, Event
  <2>3. <<Fatal>> \in Seq(HelperEvent) /\ Silent(<<Fatal>>) /\ Dull(<<Fatal>>)
    BY <1>1, PlainTerminal
  <2>4. SealOf(S) \in Seq(HelperEvent) /\ Dull(SealOf(S))
    BY <2>1, PlainSeals
  <2> HIDE DEF S, st
  <2>5. x \in Seq(HelperEvent) /\ Dull(x)
    <3>1. x \in Seq(HelperEvent)
      BY <2>2, <2>3
    <3>2. Dull(st \o <<Fatal>>)
      BY <2>2, <2>3, JoinedEvents, Zenon
    <3> QED BY <3>1, <3>2
  <2>6. Silent(x)
    <3>1. \A k \in DOMAIN x : (\E j \in DOMAIN st : x[k] = st[j]) \/ x[k] = Fatal
      BY <2>2, <2>3
    <3> HIDE DEF x
    <3> QED BY <2>2, <3>1 DEF Silent, Fatal, Event
  <2>7. evts' = evts \o SealOf(S) \o x
    <3>1. evts \o SealOf(S) \in Seq(HelperEvent)
      BY <2>4 DEF WireTyped
    <3>2. \A a, b, c \in Seq(HelperEvent) : (a \o b) \o c = a \o (b \o c)
      BY ConcatAssociative
    <3> QED BY <2>1, <2>2, <2>3, <3>1, <3>2
  <2> HIDE DEF x
  <2>8. Wrote(SealOf(S) \o x)
    BY <2>1, <2>5, <2>6, <2>7, WroteSeals
  <2>9. Dull(SealOf(S) \o x)
    BY <2>4, <2>5, JoinedEvents
  <2> QED BY <1>9, <2>8, <2>9
<1>10. \/ UNCHANGED <<evts, sealed>>
       \/ Announce \/ StartAdapterFails \/ TransitionFails \/ StopAdapter \/ AnnounceStopped
       \/ Acknowledge \/ RejectCommand
  BY DEF Command, ReadCommand, StartAdapter, Publish, Activate, Pause, Resume, EndTransition, EndStop
<1> QED BY <1>2, <1>3, <1>4, <1>5, <1>6, <1>7, <1>8, <1>9, <1>10

\* The sources and the recovery: what takes a source away from the controller says so.
LEMMA WorldWrites ==
    ASSUME ControlTyped, AudioTyped, WireTyped, RecoveryStep \/ World
    PROVE  \/ \E r : /\ Wrote(r) /\ Dull(r) /\ NoStops(r)
                     /\ \/ Ends(r) \/ ~ Alive'
                        \/ UNCHANGED <<enabled, ctlState>> /\ (mic.running => mic'.running \/ Mic \notin enabled)
           \/ ReportRecovering /\ Mic \in enabled /\ Wrote(<<Event("recovering", Mic, rec.mine)>>)
           \/ ReportRecovered /\ Mic \in enabled /\ Wrote(<<Event("recovered", Mic, rec.mine)>>)
<1> DEFINE Written == \E r : /\ Wrote(r) /\ Dull(r) /\ NoStops(r)
                             /\ \/ Ends(r) \/ ~ Alive'
                                \/ UNCHANGED <<enabled, ctlState>> /\ (mic.running => mic'.running \/ Mic \notin enabled)
<1>1. Fatal \in HelperEvent /\ Terminal(Fatal)
  BY DEF Fatal, Event, HelperEvent, IsRec, Types, Source, Mic, Terminal
<1>2. ASSUME UNCHANGED <<evts, sealed>>,
             ~ Alive' \/ (UNCHANGED <<enabled, ctlState>> /\ (mic.running => mic'.running))
      PROVE  Written
  <2>1. Dull(<<>>) /\ NoStops(<<>>)
    BY DEF Dull, NoStops
  <2> QED BY <1>2, <2>1, WroteNothing
<1>3. ASSUME NEW S, SealAll(S), evts' = evts \o SealOf(S),
             UNCHANGED <<enabled, ctlState>>, mic.running => mic'.running \/ Mic \notin enabled
      PROVE  Written
  <2>1. <<>> \in Seq(HelperEvent) /\ Silent(<<>>)
    BY DEF Silent
  <2> QED BY <1>3, <2>1, WroteSeals, PlainSeals
<1>4. \A s \in Source : Event("interrupted", s, 0) \in HelperEvent /\ Terminal(Event("interrupted", s, 0))
  BY DEF Event, HelperEvent, IsRec, Types, Terminal
<1>5. ASSUME NEW s \in Source, FramePathFails(s) PROVE Written
  <2>1. PICK S : SealAll(S) /\ (evts' = evts \o <<Fatal>> \o SealOf(S) \/ evts' = evts \o SealOf(S) \o <<Fatal>>)
    BY <1>5 DEF FramePathFails, StopAdapters
  <2> QED BY <1>1, <2>1, SealsAndEnd
<1>6. ASSUME NEW s \in Source, Frames(s) \/ RollChunk(s) PROVE Written
  BY <1>2, <1>3, <1>6 DEF Frames, RollChunk
<1>7. CASE HelperCrash \/ DeviceChange
  BY <1>2, <1>7 DEF HelperCrash, DeviceChange, Alive
<1>8. CASE SystemStreamStops
  <2>1. CASE UNCHANGED <<evts, enabled, ctlState, mic, rec, unsealed, sealed>>
    BY <1>2, <2>1
  <2>2. ASSUME SealAll({Sys}), evts' = evts \o SealOf({Sys}) \o <<Event("interrupted", Sys, 1)>>,
               UNCHANGED <<enabled, ctlState, mic, rec>>
        PROVE  Written
    <3>1. Event("interrupted", Sys, 1) \in HelperEvent
      BY DEF Event, HelperEvent, IsRec, Types, Source, Sys, Mic
    <3>2. Event("interrupted", Sys, 1).type = "interrupted"
      BY DEF Event
    <3> QED BY <2>2, <3>1, <3>2, SealsAndEnd
  <2>3. ASSUME StopAdapters({Sys}), evts' = evts \o SealOf({Sys}) \o <<Event("interrupted", Sys, 0)>>
        PROVE  Written
    <3>1. Drained({Sys}) = {Sys}
      BY DEF Drained, Sys, Mic
    <3>2. SealAll({Sys})
      BY <2>3, <3>1 DEF StopAdapters
    <3>3. Sys \in Source /\ Event("interrupted", Sys, 0).type = "interrupted"
      BY DEF Source, Sys, Event
    <3> QED BY <1>4, <2>3, <3>2, <3>3, SealsAndEnd
  <2> QED BY <1>8, <2>1, <2>2, <2>3 DEF SystemStreamStops
<1>9. CASE BeginRecovery \/ TearDown \/ Rebuild \/ RebuildFails
  BY <1>2, <1>9 DEF BeginRecovery, TearDown, Rebuild, RebuildFails, AudioTyped
<1>10. CASE ReportRecovering
  <2>1. CASE Mic \in enabled
    <3>1. Event("recovering", Mic, rec.mine) \in HelperEvent
      BY <2>1 DEF Event, HelperEvent, IsRec, Types, Source, Mic, AudioTyped, Attempts, ControlTyped
    <3> QED BY <1>10, <2>1, <3>1, WroteOne DEF ReportRecovering, Event
  <2>2. CASE Mic \notin enabled
    BY <1>2, <1>10, <2>2 DEF ReportRecovering
  <2> QED BY <2>1, <2>2
<1>11. CASE ReportRecovered
  <2>1. CASE Mic \in enabled
    <3>1. Event("recovered", Mic, rec.mine) \in HelperEvent
      BY <2>1 DEF Event, HelperEvent, IsRec, Types, Source, Mic, AudioTyped, Attempts, ControlTyped
    <3> QED BY <1>11, <2>1, <3>1, WroteOne DEF ReportRecovered, Event
  <2>2. CASE Mic \notin enabled
    BY <1>2, <1>11, <2>2 DEF ReportRecovered
  <2> QED BY <2>1, <2>2
<1>12. CASE PostSealed
  <2> DEFINE e == Event("sealed", Mic, 0)
  <2>1. e \in HelperEvent /\ e.type = "sealed" /\ e.source = Mic
    BY DEF Event, HelperEvent, IsRec, Types, Source, Mic
  <2>2. evts' = Append(evts, e) /\ sealed' = [sealed EXCEPT ![Mic] = @ + 1] /\ UNCHANGED <<enabled, ctlState, mic>>
    BY <1>12 DEF PostSealed
  <2> HIDE DEF e
  <2>3. <<e>> \in Seq(HelperEvent) /\ DOMAIN <<e>> = {1} /\ <<e>>[1] = e /\ evts' = evts \o <<e>>
    BY <2>1, <2>2, AppendIsConcat DEF WireTyped
  <2>4. Counted(<<e>>)
    <3>1. \A s \in Source : sealed'[s] = IF s = Mic THEN sealed[s] + 1 ELSE sealed[s]
      BY <2>2 DEF WireTyped
    <3> QED BY <2>1, <2>3, <3>1 DEF Counted, IsSeal
  <2>5. Dull(<<e>>) /\ NoStops(<<e>>)
    BY <2>1, <2>3 DEF Dull, NoStops, IsRec
  <2> QED BY <2>2, <2>3, <2>4, <2>5 DEF Wrote
<1>13. CASE FailRecovery
  <2>1. CASE ~ (mic.running /\ ~ mic.terminal /\ Current)
    BY <1>2, <1>13, <2>1 DEF FailRecovery
  <2>2. ASSUME Mic \in enabled, SealAll({Mic}), evts' = evts \o SealOf({Mic}) \o <<Event("interrupted", Mic, 0)>>
        PROVE  Written
    <3>1. Mic \in Source /\ Event("interrupted", Mic, 0).type = "interrupted"
      BY DEF Source, Mic, Event
    <3> QED BY <1>4, <2>2, <3>1, SealsAndEnd
  <2>3. ASSUME Mic \notin enabled, SealAll({Mic}), evts' = evts \o SealOf({Mic}), UNCHANGED <<enabled, ctlState>>
        PROVE  Written
    BY <1>3, <2>3
  <2> QED BY <1>13, <2>1, <2>2, <2>3 DEF FailRecovery
<1> QED
  BY <1>5, <1>6, <1>7, <1>8, <1>9, <1>10, <1>11, <1>12, <1>13 DEF World, RecoveryStep

-----------------------------------------------------------------------------
(* Types.                                                                  *)

LEMMA AttemptEdits ==
    ASSUME NEW a \in Attempts
    PROVE  /\ \A n \in Nat : [a EXCEPT !.gen = n] \in Attempts
           /\ \A n \in Nat : [a EXCEPT !.mine = n] \in Attempts
           /\ \A n \in Nat : [a EXCEPT !.starts = n] \in Attempts
           /\ \A b \in BOOLEAN : [a EXCEPT !.active = b] \in Attempts
           /\ \A st \in Stages : [a EXCEPT !.stage = st] \in Attempts
BY DEF Attempts

LEMMA AttemptTypes ==
    ASSUME rec \in Attempts
    PROVE  /\ \A st \in Stages : [rec EXCEPT !.stage = st] \in Attempts
           /\ Finished \in Attempts /\ CancelledRecovery \in Attempts
           /\ [CancelledRecovery EXCEPT !.stage = "none"] \in Attempts
<1>1. \A st \in Stages : [rec EXCEPT !.stage = st] \in Attempts
  BY DEF Attempts
<1>2. Finished \in Attempts
  BY DEF Attempts, Finished, Stages
<1>3. ASSUME NEW st \in Stages
      PROVE  [rec EXCEPT !.gen = rec.gen + 1, !.active = FALSE, !.stage = st] \in Attempts
  <2>1. rec.gen + 1 \in Nat
    BY DEF Attempts
  <2>2. [rec EXCEPT !.gen = rec.gen + 1] \in Attempts
    BY <2>1, AttemptEdits
  <2>3. [[rec EXCEPT !.gen = rec.gen + 1] EXCEPT !.active = FALSE] \in Attempts
    BY <2>2, AttemptEdits
  <2>4. [[[rec EXCEPT !.gen = rec.gen + 1] EXCEPT !.active = FALSE] EXCEPT !.stage = st] \in Attempts
    BY <2>3, AttemptEdits
  <2>5. [rec EXCEPT !.gen = rec.gen + 1, !.active = FALSE, !.stage = st]
          = [[[rec EXCEPT !.gen = rec.gen + 1] EXCEPT !.active = FALSE] EXCEPT !.stage = st]
    OBVIOUS
  <2> QED BY <2>4, <2>5
<1>4. rec.stage \in Stages /\ "none" \in Stages
  BY DEF Attempts, Stages
<1>5. CancelledRecovery \in Attempts
  <2>1. CASE rec.stage = "waiting"
    <3>1. CancelledRecovery = [rec EXCEPT !.gen = rec.gen + 1, !.active = FALSE, !.stage = "none"]
      BY <2>1 DEF CancelledRecovery, Attempts
    <3> QED BY <1>3, <1>4, <3>1
  <2>2. CASE rec.stage # "waiting"
    <3>1. CancelledRecovery = [rec EXCEPT !.gen = rec.gen + 1, !.active = FALSE, !.stage = rec.stage]
      BY <2>2 DEF CancelledRecovery, Attempts
    <3> QED BY <1>3, <1>4, <3>1
  <2> QED BY <2>1, <2>2
<1>6. \A a \in Attempts : [a EXCEPT !.stage = "none"] \in Attempts
  BY <1>4 DEF Attempts
<1> QED BY <1>1, <1>2, <1>5, <1>6

LEMMA StopAdaptersTypes ==
    ASSUME AudioTyped, sealed \in [Source -> Nat], NEW S, StopAdapters(S)
    PROVE  AudioTyped' /\ sealed' \in [Source -> Nat]
<1>1. engine' \in [Source -> {"off", "on", "paused", "dead"}]
  BY DEF StopAdapters, AudioTyped
<1>2. unsealed' \in [Source -> BOOLEAN] /\ sealed' \in [Source -> Nat]
  BY DEF StopAdapters, SealAll, AudioTyped
<1>3. IdleMic \in [running : BOOLEAN, published : BOOLEAN, path : BOOLEAN, terminal : {FALSE}]
  BY DEF IdleMic
<1>4. CancelledRecovery \in Attempts
  BY AttemptTypes DEF AudioTyped
<1> QED
  BY <1>1, <1>2, <1>3, <1>4 DEF StopAdapters, AudioTyped

LEMMA SealAllTypes ==
    ASSUME sealed \in [Source -> Nat], unsealed \in [Source -> BOOLEAN], NEW S, SealAll(S)
    PROVE  unsealed' \in [Source -> BOOLEAN] /\ sealed' \in [Source -> Nat]
BY DEF SealAll

\* The engines, the microphone, the recovery and the counters.
LEMMA AudioTypes ==
    ASSUME HelperAssumption, ControlTyped, AudioTyped, WireTyped, HelperNext
    PROVE  AudioTyped' /\ sealed' \in [Source -> Nat]
<1>1. sealed \in [Source -> Nat] /\ unsealed \in [Source -> BOOLEAN]
  BY DEF WireTyped, AudioTyped
<1>2. CASE UNCHANGED <<engine, mic, unsealed, rec, sealed>>
  BY <1>1, <1>2 DEF AudioTyped
<1>3. ASSUME NEW S, StopAdapters(S) PROVE AudioTyped' /\ sealed' \in [Source -> Nat]
  BY <1>1, <1>3, StopAdaptersTypes
<1>4. CASE StartAdapter \/ Activate \/ Pause \/ Resume
  <2>1. CASE StartAdapter
    BY <1>1, <2>1 DEF StartAdapter, AudioTyped, IdleMic
  <2>2. CASE Activate
    BY <1>1, <2>2 DEF Activate, AudioTyped
  <2>3. CASE Pause
    BY <1>1, <2>3 DEF Pause, AudioTyped
  <2>4. CASE Resume
    BY <1>1, <2>4 DEF Resume, AudioTyped
  <2> QED BY <1>4, <2>1, <2>2, <2>3, <2>4
<1>5. ASSUME NEW s \in Source, Frames(s) \/ RollChunk(s) PROVE AudioTyped' /\ sealed' \in [Source -> Nat]
  <2>1. CASE Frames(s)
    BY <1>1, <2>1 DEF Frames, AudioTyped
  <2>2. CASE RollChunk(s)
    BY <1>1, <2>2, SealAllTypes DEF RollChunk, AudioTyped
  <2> QED BY <1>5, <2>1, <2>2
<1>6. CASE HelperCrash
  BY <1>1, <1>6 DEF HelperCrash, AudioTyped, IdleMic, NoAttempt, Attempts, Stages
<1>7. CASE SystemStreamStops
  <2>1. CASE UNCHANGED <<evts, enabled, ctlState, mic, rec, unsealed, sealed>> /\ engine' = [engine EXCEPT ![Sys] = "dead"]
    BY <1>1, <2>1 DEF AudioTyped
  <2>2. CASE SealAll({Sys}) /\ engine' = [engine EXCEPT ![Sys] = "dead"] /\ UNCHANGED <<mic, rec>>
    BY <1>1, <2>2, SealAllTypes DEF AudioTyped
  <2> QED BY <1>3, <1>7, <2>1, <2>2 DEF SystemStreamStops
<1>8. CASE DeviceChange
  <2>1. rec' \in Attempts
    <3>1. [rec EXCEPT !.gen = rec.gen + 1, !.mine = rec.gen + 1, !.stage = "waiting"] \in Attempts
      <4> DEFINE n == rec.gen + 1
      <4>1. n \in Nat /\ "waiting" \in Stages
        BY DEF AudioTyped, Attempts, Stages
      <4> HIDE DEF n
      <4>2. [[[rec EXCEPT !.gen = n] EXCEPT !.mine = n] EXCEPT !.stage = "waiting"] \in Attempts
        <5>1. [rec EXCEPT !.gen = n] \in Attempts
          BY <4>1, AttemptEdits DEF AudioTyped
        <5>2. [[rec EXCEPT !.gen = n] EXCEPT !.mine = n] \in Attempts
          BY <4>1, <5>1, AttemptEdits
        <5> QED BY <4>1, <5>2, AttemptEdits
      <4>3. [rec EXCEPT !.gen = n, !.mine = n, !.stage = "waiting"]
              = [[[rec EXCEPT !.gen = n] EXCEPT !.mine = n] EXCEPT !.stage = "waiting"]
        OBVIOUS
      <4> QED BY <4>2, <4>3 DEF n
    <3>2. rec' = rec \/ rec' = [rec EXCEPT !.gen = rec.gen + 1, !.mine = rec.gen + 1, !.stage = "waiting"]
      BY <1>8 DEF DeviceChange, AudioTyped, Attempts
    <3> QED BY <3>1, <3>2 DEF AudioTyped
  <2> QED BY <1>1, <1>8, <2>1 DEF DeviceChange, AudioTyped
<1>9. CASE BeginRecovery
  <2>1. PICK kept \in 0 .. rec.starts : \E b \in BOOLEAN, st \in {"failing", "signal", "none"} :
          \/ rec' = [rec EXCEPT !.active = b, !.starts = kept, !.stage = st]
          \/ rec' = [rec EXCEPT !.active = b, !.starts = kept + 1, !.stage = st]
    <3>1. PICK kept \in 0 .. rec.starts :
            LET burst == kept >= BurstLimit
                ready == mic.published /\ mic.running /\ ~ mic.terminal
            IN  rec' = [rec EXCEPT !.active = burst \/ ready,
                                   !.starts = IF burst THEN kept ELSE kept + 1,
                                   !.stage = CASE burst -> "failing"
                                               [] ready /\ ~ burst -> "signal"
                                               [] OTHER -> "none"]
      BY <1>9 DEF BeginRecovery
    <3> DEFINE burst == kept >= BurstLimit
               ready == mic.published /\ mic.running /\ ~ mic.terminal
    <3>2. CASE burst
      BY <3>1, <3>2
    <3>3. CASE ~ burst /\ ready
      BY <3>1, <3>3
    <3>4. CASE ~ burst /\ ~ ready
      BY <3>1, <3>4
    <3> QED BY <3>2, <3>3, <3>4
  <2>2. rec.starts \in Nat /\ kept \in Nat
    BY DEF AudioTyped, Attempts
  <2>3. UNCHANGED <<engine, mic, unsealed, sealed>>
    BY <1>9 DEF BeginRecovery
  <2>4. ASSUME NEW b \in BOOLEAN, NEW st \in Stages, NEW k \in Nat
        PROVE  [rec EXCEPT !.active = b, !.starts = k, !.stage = st] \in Attempts
    <3>1. [rec EXCEPT !.active = b] \in Attempts
      BY AttemptEdits DEF AudioTyped
    <3>2. [[rec EXCEPT !.active = b] EXCEPT !.starts = k] \in Attempts
      BY <3>1, AttemptEdits
    <3>3. [[[rec EXCEPT !.active = b] EXCEPT !.starts = k] EXCEPT !.stage = st] \in Attempts
      BY <3>2, AttemptEdits
    <3>4. [rec EXCEPT !.active = b, !.starts = k, !.stage = st]
            = [[[rec EXCEPT !.active = b] EXCEPT !.starts = k] EXCEPT !.stage = st]
      OBVIOUS
    <3> QED BY <3>3, <3>4
  <2>5. rec' \in Attempts
    <3>1. kept \in Nat /\ kept + 1 \in Nat /\ {"failing", "signal", "none"} \subseteq Stages
      BY <2>2 DEF Stages
    <3>2. PICK b \in BOOLEAN, st \in {"failing", "signal", "none"} :
            \/ rec' = [rec EXCEPT !.active = b, !.starts = kept, !.stage = st]
            \/ rec' = [rec EXCEPT !.active = b, !.starts = kept + 1, !.stage = st]
      BY <2>1
    <3>3. st \in Stages
      BY <3>1
    <3>4. [rec EXCEPT !.active = b, !.starts = kept, !.stage = st] \in Attempts
      BY <2>4, <3>1, <3>3
    <3>5. [rec EXCEPT !.active = b, !.starts = kept + 1, !.stage = st] \in Attempts
      BY <2>4, <3>1, <3>3
    <3> QED BY <3>2, <3>4, <3>5
  <2> QED BY <1>1, <2>3, <2>5 DEF AudioTyped
<1>10. /\ \A st \in Stages : [rec EXCEPT !.stage = st] \in Attempts
       /\ Finished \in Attempts /\ [CancelledRecovery EXCEPT !.stage = "none"] \in Attempts
       /\ {"teardown", "post", "rebuild", "report", "failing"} \subseteq Stages
  BY AttemptTypes DEF AudioTyped, Stages
<1>11. CASE ReportRecovering \/ TearDown \/ PostSealed \/ Rebuild \/ RebuildFails \/ ReportRecovered
  <2>1. rec' \in Attempts
    BY <1>10, <1>11 DEF ReportRecovering, TearDown, PostSealed, Rebuild, RebuildFails, ReportRecovered, Recovery
  <2>2. CASE ReportRecovering \/ ReportRecovered
    BY <1>1, <2>1, <2>2 DEF ReportRecovering, ReportRecovered, AudioTyped
  <2>3. CASE TearDown \/ RebuildFails
    <3>1. CASE TearDown
      BY <1>1, <2>1, <3>1 DEF TearDown, AudioTyped
    <3>2. CASE RebuildFails
      BY <1>1, <2>1, <3>2 DEF RebuildFails, AudioTyped
    <3> QED BY <2>3, <3>1, <3>2
  <2>4. CASE PostSealed
    <3>1. sealed' = [sealed EXCEPT ![Mic] = sealed[Mic] + 1] /\ Mic \in Source /\ UNCHANGED <<engine, mic, unsealed>>
      BY <2>4 DEF PostSealed, Source, Mic
    <3>2. sealed[Mic] + 1 \in Nat
      BY <1>1, <3>1
    <3> QED BY <1>1, <2>1, <3>1, <3>2 DEF AudioTyped
  <2>5. CASE Rebuild
    BY <1>1, <2>1, <2>5 DEF Rebuild, AudioTyped
  <2> QED BY <1>11, <2>2, <2>3, <2>4, <2>5
<1>12. CASE FailRecovery
  <2>1. CASE rec' = Finished /\ UNCHANGED <<engine, mic, unsealed, sealed>>
    BY <1>1, <1>10, <2>1 DEF AudioTyped
  <2>2. CASE /\ engine' = [engine EXCEPT ![Mic] = "off"] /\ mic' = IdleMic
             /\ rec' = [CancelledRecovery EXCEPT !.stage = "none"] /\ SealAll({Mic})
    BY <1>1, <1>10, <2>2, SealAllTypes DEF AudioTyped, IdleMic
  <2> QED BY <1>12, <2>1, <2>2 DEF FailRecovery
<1>13. CASE RejectCommand \/ StartAdapterFails \/ TransitionFails \/ StopAdapter \/ \E s \in Source : FramePathFails(s)
  BY <1>3, <1>13 DEF RejectCommand, Throw, StartAdapterFails, TransitionFails, StopAdapter, FramePathFails
<1>14. CASE ReadCommand \/ Publish \/ Announce \/ EndTransition \/ AnnounceStopped \/ EndStop \/ Acknowledge
  BY <1>2, <1>14 DEF ReadCommand, Publish, Announce, EndTransition, AnnounceStopped, EndStop, Acknowledge
<1> QED
  BY <1>4, <1>5, <1>6, <1>7, <1>8, <1>9, <1>11, <1>12, <1>13, <1>14
     DEF HelperNext, Command, RecoveryStep, World

\* The command loop and the controller.
LEMMA ControlTypes ==
    ASSUME HelperAssumption, ControlTyped, HelperNext
    PROVE  ControlTyped'
<1>1. /\ \A S : S \subseteq Requested => sourceOrder(S) \in Seq(Requested)
      /\ Resting \in [op : Ops, todo : Seq(Requested)] /\ Resting.op = "read"
  <2>1. ASSUME NEW S, S \subseteq Requested PROVE sourceOrder(S) \in Seq(Requested)
    <3> DEFINE o == sourceOrder(S)
    <3>1. Len(o) \in Nat /\ o = [k \in 1 .. Len(o) |-> o[k]] /\ \A k \in 1 .. Len(o) : o[k] \in Requested
      BY <2>1, Orders
    <3> HIDE DEF o
    <3>2. o \in Seq(Requested)
      BY <3>1, IsASeq
    <3> QED BY <3>2 DEF o
  <2> QED BY <2>1 DEF Resting, Ops
<1>2. task.todo \in Seq(Requested) /\ task.op \in Ops /\ enabled \subseteq Requested
      /\ (task.todo # <<>> => Tail(task.todo) \in Seq(Requested))
  BY DEF ControlTyped
<1>3. ASSUME NEW op \in Ops \ {"read", "stopped", "shut"}, NEW todo \in Seq(Requested), Begin(op, todo)
      PROVE  task' \in [op : Ops, todo : Seq(Requested)] /\ task'.op \notin {"read", "stopped", "shut"}
  BY <1>3 DEF Begin
<1>4. CASE UNCHANGED <<cmds, loop, task, enabled, ctlState>>
  BY <1>4 DEF ControlTyped
<1>5. CASE ReadCommand
  <2>1. cmds' \in Seq(Commands) /\ UNCHANGED <<loop, enabled>>
    BY <1>5 DEF ReadCommand, ControlTyped
  <2>2. \E op \in {"start", "pause", "resume", "stop", "shutdown"}, S \in SUBSET Requested : Begin(op, sourceOrder(S))
    BY <1>2, <1>5 DEF ReadCommand
  <2>3. task' \in [op : Ops, todo : Seq(Requested)] /\ task'.op \notin {"read", "stopped", "shut"}
    BY <1>1, <1>3, <2>2 DEF Ops
  <2>4. ctlState' \in {"idle", "starting", "running", "paused", "stopping", "stopped", "failed"}
    BY <1>5 DEF ReadCommand, ControlTyped
  <2> QED BY <2>1, <2>3, <2>4 DEF ControlTyped
<1>6. CASE RejectCommand \/ StartAdapterFails \/ TransitionFails \/ EndTransition \/ EndStop \/ Acknowledge \/ Activate
  <2>1. task' = Resting /\ UNCHANGED cmds
    BY <1>6 DEF RejectCommand, Throw, StartAdapterFails, TransitionFails, EndTransition, EndStop, Acknowledge, Activate
  <2>2. enabled' \subseteq Requested /\ loop' \in {"awaiting", "capturing", "stopped", "gone"}
        /\ ctlState' \in {"idle", "starting", "running", "paused", "stopping", "stopped", "failed"}
    BY <1>6 DEF RejectCommand, Throw, StartAdapterFails, TransitionFails, EndTransition, EndStop, Acknowledge, Activate, ControlTyped
  <2> QED BY <1>1, <2>1, <2>2 DEF ControlTyped
<1>7. CASE StartAdapter \/ Announce \/ Pause \/ Resume
  <2>1. UNCHANGED <<cmds, loop, enabled, ctlState>>
    BY <1>7 DEF StartAdapter, Announce, Pause, Resume
  <2>2. \E op \in {"start", "announce", "pause", "resume"} : Begin(op, Tail(task.todo)) /\ task.todo # <<>>
    BY <1>7 DEF StartAdapter, Announce, Pause, Resume
  <2>3. task' \in [op : Ops, todo : Seq(Requested)] /\ task'.op \notin {"read", "stopped", "shut"}
    BY <1>2, <1>3, <2>2 DEF Ops
  <2> QED BY <2>1, <2>3 DEF ControlTyped
<1>8. CASE Publish
  <2>1. Begin("announce", sourceOrder(Requested)) /\ enabled' = Requested /\ ctlState' = "running" /\ UNCHANGED <<cmds, loop>>
    BY <1>8 DEF Publish
  <2>2. task' \in [op : Ops, todo : Seq(Requested)] /\ task'.op \notin {"read", "stopped", "shut"}
    BY <1>1, <1>3, <2>1 DEF Ops
  <2> QED BY <2>1, <2>2 DEF ControlTyped
<1>9. CASE StopAdapter
  <2>1. UNCHANGED <<cmds, loop, enabled, ctlState>> /\ task.todo # <<>>
        /\ (Begin("stopped", task.todo) \/ Begin("shut", task.todo))
    BY <1>9 DEF StopAdapter
  <2> QED BY <1>2, <2>1 DEF Begin, ControlTyped, Ops
<1>10. CASE AnnounceStopped
  <2>1. UNCHANGED <<cmds, loop, enabled, ctlState>> /\ task.todo # <<>>
        /\ (Begin("stop", Tail(task.todo)) \/ Begin("shutdown", Tail(task.todo)))
    BY <1>10 DEF AnnounceStopped, ControlTyped
  <2>2. task' \in [op : Ops, todo : Seq(Requested)] /\ task'.op \notin {"read", "stopped", "shut"}
    BY <1>2, <1>3, <2>1 DEF Ops
  <2> QED BY <2>1, <2>2 DEF ControlTyped
<1>11. CASE HelperCrash \/ SystemStreamStops \/ FailRecovery
  <2>1. CASE HelperCrash
    BY <1>1, <2>1 DEF HelperCrash, ControlTyped
  <2>2. CASE SystemStreamStops
    BY <1>4, <2>2 DEF SystemStreamStops, ControlTyped
  <2>3. CASE FailRecovery
    BY <1>4, <2>3 DEF FailRecovery, ControlTyped
  <2> QED BY <1>11, <2>1, <2>2, <2>3
<1>12. CASE \/ BeginRecovery \/ ReportRecovering \/ TearDown \/ PostSealed \/ Rebuild \/ RebuildFails \/ ReportRecovered
            \/ DeviceChange \/ \E s \in Source : Frames(s) \/ RollChunk(s) \/ FramePathFails(s)
  BY <1>4, <1>12 DEF BeginRecovery, ReportRecovering, TearDown, PostSealed, Rebuild, RebuildFails, ReportRecovered,
     DeviceChange, Frames, RollChunk, FramePathFails
<1> QED
  BY <1>5, <1>6, <1>7, <1>8, <1>9, <1>10, <1>11, <1>12 DEF HelperNext, Command, RecoveryStep, World

LEMMA HelperWrites ==
    ASSUME HelperAssumption, Typed, HelperNext
    PROVE  \E r : Wrote(r)
<1>1. CASE Command
  BY <1>1, CommandWrites DEF Typed
<1>2. CASE RecoveryStep \/ World
  BY <1>2, WorldWrites DEF Typed
<1> QED BY <1>1, <1>2 DEF HelperNext

LEMMA HelperTypes ==
    ASSUME HelperAssumption, Typed, Helper
    PROVE  Typed'
<1>1. HelperNext /\ UNCHANGED appVars
  BY DEF Helper
<1>2. PICK r : Wrote(r)
  BY <1>1, HelperWrites
<1>3. WireTyped'
  <2>1. sealed' \in [Source -> Nat]
    BY <1>1, AudioTypes DEF Typed
  <2>2. evts' \in Seq(HelperEvent)
    BY <1>2 DEF Wrote, Typed, WireTyped
  <2> QED BY <2>1, <2>2 DEF WireTyped
<1>4. ControlTyped' /\ AudioTyped'
  BY <1>1, AudioTypes, ControlTypes DEF Typed
<1>5. AppTyped'
  BY <1>1 DEF Typed, AppTyped, appVars
<1> QED BY <1>3, <1>4, <1>5 DEF Typed

\* The worker's return leaves the helper gone.
LEMMA ExitTypes ==
    ASSUME Typed, NEW error, Exit(error)
    PROVE  /\ ControlTyped' /\ AudioTyped' /\ WireTyped'
           /\ worker' = "exited" /\ startup' \in {"none", "ok", "error"}
<1>1. ControlTyped'
  BY DEF Typed, ControlTyped, Exit, Resting, Commands, Ops
<1>2. AudioTyped'
  BY DEF Typed, AudioTyped, Exit, IdleMic, NoAttempt, Attempts, Stages
<1>3. WireTyped'
  BY DEF Typed, WireTyped, Exit
<1> QED BY <1>1, <1>2, <1>3 DEF Exit, Typed, AppTyped

LEMMA FlagEdits ==
    ASSUME NEW f \in [stop : BOOLEAN, shutdown : BOOLEAN, toggles : Nat]
    PROVE  /\ \A b \in BOOLEAN : [f EXCEPT !.stop = b] \in [stop : BOOLEAN, shutdown : BOOLEAN, toggles : Nat]
           /\ [f EXCEPT !.shutdown = TRUE] \in [stop : BOOLEAN, shutdown : BOOLEAN, toggles : Nat]
           /\ \A n \in Nat : [f EXCEPT !.toggles = n] \in [stop : BOOLEAN, shutdown : BOOLEAN, toggles : Nat]
OBVIOUS

LEMMA FinishTypes ==
    ASSUME Typed, FinishIfStopped
    PROVE  /\ cmds' \in Seq(Commands)
           /\ phase' \in {"Requested", "Running", "Paused", "Stopping", "Stopped", "Failed"}
           /\ flags' \in [stop : BOOLEAN, shutdown : BOOLEAN, toggles : Nat]
<1>1. Append(cmds, "shutdown") \in Seq(Commands)
  BY DEF Typed, ControlTyped, Commands
<1>2. [flags EXCEPT !.shutdown = TRUE] \in [stop : BOOLEAN, shutdown : BOOLEAN, toggles : Nat]
  BY FlagEdits DEF Typed, AppTyped
<1> QED BY <1>1, <1>2 DEF FinishIfStopped, Typed, ControlTyped, AppTyped

\* Where only the commands and the events change, the helper keeps its types.
LEMMA QuietTypes ==
    ASSUME Typed, KeepHelper, cmds' \in Seq(Commands), evts' \in Seq(HelperEvent)
    PROVE  ControlTyped' /\ AudioTyped' /\ WireTyped'
<1>1. ControlTyped'
  BY DEF Typed, ControlTyped, KeepHelper
<1>2. AudioTyped'
  BY DEF Typed, AudioTyped, KeepHelper
<1>3. WireTyped'
  BY DEF Typed, WireTyped, KeepHelper
<1> QED BY <1>1, <1>2, <1>3

LEMMA CallerTypes ==
    ASSUME Typed, Caller
    PROVE  Typed'
<1>1. CASE CallStart
  <2>1. cmds' \in Seq(Commands)
    BY <1>1 DEF CallStart, Typed, ControlTyped, Commands
  <2>2. ControlTyped' /\ AudioTyped' /\ WireTyped'
    BY <1>1, <2>1, QuietTypes DEF CallStart, KeepHelper, Typed, WireTyped
  <2>3. AppTyped'
    BY <1>1 DEF CallStart, Typed, AppTyped
  <2> QED BY <2>2, <2>3 DEF Typed
<1>2. CASE StartReturns \/ CallFails \/ StopReturns
  <2>1. UNCHANGED helperVars /\ ControlTyped' /\ AudioTyped' /\ WireTyped'
    <3>1. UNCHANGED helperVars
      BY <1>2 DEF StartReturns, CallFails, StopReturns
    <3> QED BY <3>1, QuietTypes DEF helperVars, KeepHelper, Typed, WireTyped, ControlTyped
  <2>2. AppTyped'
    BY <1>2 DEF StartReturns, CallFails, StopReturns, Typed, AppTyped
  <2> QED BY <2>1, <2>2 DEF Typed
<1>3. ASSUME NEW op \in {"pause", "resume", "stop"}, Call(op) PROVE Typed'
  <2>1. ControlTyped' /\ AudioTyped' /\ WireTyped'
    <3>1. UNCHANGED helperVars
      BY <1>3 DEF Call
    <3> QED BY <3>1, QuietTypes DEF helperVars, KeepHelper, Typed, WireTyped, ControlTyped
  <2>2. AppTyped'
    BY <1>3 DEF Call, Typed, AppTyped
  <2> QED BY <2>1, <2>2 DEF Typed
<1> QED BY <1>1, <1>2, <1>3 DEF Caller

LEMMA ServeTypes ==
    ASSUME Typed, Serve
    PROVE  Typed'
<1>1. KeepHelper /\ UNCHANGED evts /\ control \in {"pause", "resume", "stop"}
  BY DEF Serve, Typed, AppTyped
<1>2. cmds' \in Seq(Commands)
  <2>1. Append(cmds, control) \in Seq(Commands)
    BY <1>1 DEF Typed, ControlTyped, Commands
  <2> QED BY <2>1 DEF Serve, Typed, ControlTyped
<1>3. flags' \in [stop : BOOLEAN, shutdown : BOOLEAN, toggles : Nat]
  <2> DEFINE b == flags.stop \/ control = "stop"
             n == flags.toggles + (IF control = "stop" THEN 0 ELSE 1)
  <2>1. b \in BOOLEAN /\ n \in Nat
    BY DEF Typed, AppTyped
  <2>2. [flags EXCEPT !.stop = b, !.toggles = n] = [[flags EXCEPT !.stop = b] EXCEPT !.toggles = n]
    OBVIOUS
  <2>3. flags' = flags \/ flags' = [flags EXCEPT !.stop = b, !.toggles = n]
    BY DEF Serve, Typed, AppTyped
  <2> HIDE DEF b, n
  <2>4. [flags EXCEPT !.stop = b] \in [stop : BOOLEAN, shutdown : BOOLEAN, toggles : Nat]
    BY <2>1, FlagEdits DEF Typed, AppTyped
  <2>5. [[flags EXCEPT !.stop = b] EXCEPT !.toggles = n] \in [stop : BOOLEAN, shutdown : BOOLEAN, toggles : Nat]
    BY <2>1, <2>4, FlagEdits
  <2> QED BY <2>2, <2>3, <2>5 DEF Typed, AppTyped
<1>4. /\ phase' \in {"Requested", "Running", "Paused", "Stopping", "Stopped", "Failed"}
      /\ state' \in [Requested -> {"Requested", "Running", "Recovering", "Paused", "Stopping", "Stopped"}]
  BY <1>1 DEF Serve, SetAll, Typed, AppTyped
<1>5. ControlTyped' /\ AudioTyped' /\ WireTyped'
  BY <1>1, <1>2, QuietTypes DEF Typed, WireTyped
<1>6. /\ caller' \in {"join", "idle"} /\ control' = "none"
      /\ UNCHANGED <<worker, startup, stopped, announced, committed, due, lastGen>>
  BY DEF Serve, Keep
<1> QED BY <1>3, <1>4, <1>5, <1>6 DEF Typed, AppTyped

\* What the worker returns with leaves the rest of the app as it was.
LEMMA ExitedTypes ==
    ASSUME Typed, NEW error, Exit(error), announced' \subseteq Requested,
           UNCHANGED <<caller, control, state, stopped, lastGen, flags, committed, due>>,
           phase' \in {phase, "Failed"}
    PROVE  Typed'
<1>1. /\ ControlTyped' /\ AudioTyped' /\ WireTyped'
      /\ worker' = "exited" /\ startup' \in {"none", "ok", "error"}
  BY ExitTypes
<1>2. AppTyped'
  BY <1>1 DEF Typed, AppTyped
<1> QED BY <1>1, <1>2 DEF Typed

LEMMA HeardEvent ==
    ASSUME Typed, evts # <<>>
    PROVE  /\ Head(evts) \in HelperEvent /\ Tail(evts) \in Seq(HelperEvent)
           /\ Head(evts).source \in Source /\ Head(evts).n \in Nat
           /\ IsRec(Head(evts)) \/ Head(evts).type \in {"started", "stopped"} => Head(evts).source \in Requested
<1>1. Head(evts) \in HelperEvent /\ Tail(evts) \in Seq(HelperEvent)
  BY DEF Typed, WireTyped
<1> QED BY <1>1 DEF HelperEvent

\* handle_event's match.
LEMMA EventKinds ==
    ASSUME Typed, PollEvent
    PROVE  LET e == Head(evts) IN
             \/ e.type = "started" /\ OnStarted(e)
             \/ e.type = "sealed" /\ OnSealed(e)
             \/ e.type = "stopped" /\ OnStopped(e)
             \/ e.type = "interrupted" /\ OnInterrupted(e)
             \/ e.type = "recovering" /\ OnRecovering(e)
             \/ e.type = "recovered" /\ OnRecovered(e)
             \/ e.type = "fatal" /\ Fail("fatal")
             \/ e.type = "ack" /\ OnAck
<1> DEFINE e == Head(evts)
<1>1. e.type \in Types
  BY HeardEvent DEF PollEvent, HelperEvent
<1>2. CASE e.type = "started" /\ PollEvent
  BY <1>2 DEF PollEvent
<1>3. CASE e.type = "sealed" /\ PollEvent
  BY <1>3 DEF PollEvent
<1>4. CASE e.type = "stopped" /\ PollEvent
  BY <1>4 DEF PollEvent
<1>5. CASE e.type = "interrupted" /\ PollEvent
  BY <1>5 DEF PollEvent
<1>6. CASE e.type = "recovering" /\ PollEvent
  BY <1>6 DEF PollEvent
<1>7. CASE e.type = "recovered" /\ PollEvent
  BY <1>7 DEF PollEvent
<1>8. CASE e.type = "fatal" /\ PollEvent
  BY <1>8 DEF PollEvent
<1>9. CASE e.type = "ack" /\ PollEvent
  BY <1>9 DEF PollEvent
<1> HIDE DEF e
<1>10. \/ e.type = "started" \/ e.type = "sealed" \/ e.type = "stopped" \/ e.type = "interrupted"
       \/ e.type = "recovering" \/ e.type = "recovered" \/ e.type = "fatal" \/ e.type = "ack"
  BY <1>1 DEF Types
<1> QED BY <1>2, <1>3, <1>4, <1>5, <1>6, <1>7, <1>8, <1>9, <1>10, Zenon

\* What one event leaves of the app's types: with the worker running the event is gone.
LEMMA EventTypes ==
    ASSUME HelperAssumption, Typed, PollEvent
    PROVE  Typed'
<1> DEFINE e == Head(evts)
<1>1. e \in HelperEvent /\ Tail(evts) \in Seq(HelperEvent) /\ e.source \in Source /\ e.n \in Nat
      /\ (e.type \in {"started", "stopped"} => e.source \in Requested)
  BY HeardEvent DEF PollEvent
<1>2. worker = "running" /\ phase \in Handled /\ (worker' = "running" => evts' = Tail(evts))
  BY DEF PollEvent
<1>3. \/ e.type = "started" /\ OnStarted(e)
      \/ e.type = "sealed" /\ OnSealed(e)
      \/ e.type = "stopped" /\ OnStopped(e)
      \/ e.type = "interrupted" /\ OnInterrupted(e)
      \/ e.type = "recovering" /\ OnRecovering(e)
      \/ e.type = "recovered" /\ OnRecovered(e)
      \/ e.type = "fatal" /\ Fail("fatal")
      \/ e.type = "ack" /\ OnAck
  BY EventKinds
<1> HIDE DEF e
<1>4. ASSUME NEW error, Fail(error) PROVE Typed'
  BY <1>4, ExitedTypes DEF Fail, Typed, AppTyped
<1>5. ASSUME Quiet, cmds' \in Seq(Commands) PROVE ControlTyped' /\ AudioTyped' /\ WireTyped' /\ worker' = worker
  <2>1. worker' = "running"
    BY <1>2, <1>5 DEF Quiet, Keep
  <2> QED BY <1>1, <1>2, <1>5, <2>1, QuietTypes DEF Quiet
<1>6. cmds \in Seq(Commands)
  BY DEF Typed, ControlTyped
<1>7. CASE e.type = "started" /\ OnStarted(e)
  <2>1. e.source \in Requested /\ announced' = announced \cup {e.source}
    BY <1>1, <1>7 DEF OnStarted
  <2>2. CASE Quiet
    <3>1. ControlTyped' /\ AudioTyped' /\ WireTyped' /\ worker' = worker
      <4>1. UNCHANGED cmds
        BY <1>2, <1>7, <2>2 DEF OnStarted, Exit, Quiet, Keep
      <4> QED BY <1>5, <1>6, <2>2, <4>1
    <3>2. /\ startup' \in {"ok", startup} /\ state' = [state EXCEPT ![e.source] = "Running"]
          /\ UNCHANGED <<caller, control, phase, stopped, lastGen, flags, committed, due>>
      BY <1>2, <1>7, <2>2, <3>1 DEF OnStarted, Exit, Quiet
    <3>3. state' \in [Requested -> {"Requested", "Running", "Recovering", "Paused", "Stopping", "Stopped"}]
      BY <3>2 DEF Typed, AppTyped
    <3>4. announced' \subseteq Requested /\ startup' \in {"none", "ok", "error"}
      BY <2>1, <3>2 DEF Typed, AppTyped
    <3>5. AppTyped'
      BY <3>1, <3>2, <3>3, <3>4 DEF Typed, AppTyped
    <3> QED BY <3>1, <3>5 DEF Typed
  <2>3. CASE Exit("catalog") /\ UNCHANGED <<caller, control, answer, phase, state>>
    <3>1. announced' \subseteq Requested
      BY <2>1 DEF Typed, AppTyped
    <3> QED BY <1>7, <2>3, <3>1, ExitedTypes DEF OnStarted
  <2> QED BY <1>7, <2>2, <2>3 DEF OnStarted
<1>8. CASE e.type = "sealed" /\ OnSealed(e)
  <2>1. ASSUME NEW error, Exit(error),
               UNCHANGED <<caller, control, answer, phase, state, stopped, lastGen, announced, flags, committed, due>>
        PROVE  Typed'
    BY <2>1, ExitedTypes DEF Typed, AppTyped
  <2>2. CASE /\ committed' = [committed EXCEPT ![e.source] = @ + 1]
             /\ FinishIfStopped /\ Quiet
             /\ UNCHANGED <<startup, state, stopped, lastGen, announced, due>>
    <3>1. ControlTyped' /\ AudioTyped' /\ WireTyped' /\ worker' = worker
      BY <1>5, <2>2, FinishTypes
    <3>2. committed' \in [Source -> Nat]
      BY <1>1, <2>2 DEF Typed, AppTyped
    <3> QED BY <2>2, <3>1, <3>2, FinishTypes DEF Typed, AppTyped, Quiet
  <2> QED BY <1>8, <2>1, <2>2 DEF OnSealed
<1>9. CASE e.type = "stopped" /\ OnStopped(e)
  <2>1. ControlTyped' /\ AudioTyped' /\ WireTyped' /\ worker' = worker
    BY <1>5, <1>6, <1>9 DEF OnStopped
  <2>2. e.source \in Requested /\ due' \in [Source -> Nat] /\ stopped' \subseteq Requested
        /\ state' \in [Requested -> {"Requested", "Running", "Recovering", "Paused", "Stopping", "Stopped"}]
    BY <1>1, <1>9 DEF OnStopped, Typed, AppTyped
  <2> QED BY <1>9, <2>1, <2>2 DEF OnStopped, Quiet, Typed, AppTyped
<1>10. CASE Ignored
  <2>1. ControlTyped' /\ AudioTyped' /\ WireTyped' /\ worker' = worker
    BY <1>5, <1>6, <1>10 DEF Ignored
  <2> QED BY <1>10, <2>1 DEF Ignored, Quiet, Typed, AppTyped
<1>11. CASE e.type = "recovering" /\ OnRecovering(e) /\ ~ Fail("protocol")
  <2>1. ControlTyped' /\ AudioTyped' /\ WireTyped' /\ worker' = worker
    BY <1>5, <1>6, <1>11 DEF OnRecovering
  <2>2. state' = [state EXCEPT ![Mic] = "Recovering"] /\ lastGen' \in Nat
    BY <1>1, <1>11 DEF OnRecovering, Typed, AppTyped
  <2>3. UNCHANGED <<caller, control, worker, startup, phase, stopped, announced, flags, committed, due>>
    BY <1>11 DEF OnRecovering, Quiet, Keep
  <2>4. state' \in [Requested -> {"Requested", "Running", "Recovering", "Paused", "Stopping", "Stopped"}]
    BY <2>2 DEF Typed, AppTyped
  <2> QED BY <2>1, <2>2, <2>3, <2>4 DEF Typed, AppTyped
<1>12. CASE e.type = "recovered" /\ OnRecovered(e) /\ ~ Fail("protocol")
  <2>1. ControlTyped' /\ AudioTyped' /\ WireTyped' /\ worker' = worker
    BY <1>5, <1>6, <1>12 DEF OnRecovered
  <2>2. state' = [state EXCEPT ![Mic] = "Running"] /\ lastGen' \in Nat
    BY <1>1, <1>12 DEF OnRecovered, Typed, AppTyped
  <2>3. UNCHANGED <<caller, control, worker, startup, phase, stopped, announced, flags, committed, due>>
    BY <1>12 DEF OnRecovered, Quiet, Keep
  <2>4. state' \in [Requested -> {"Requested", "Running", "Recovering", "Paused", "Stopping", "Stopped"}]
    BY <2>2 DEF Typed, AppTyped
  <2> QED BY <2>1, <2>2, <2>3, <2>4 DEF Typed, AppTyped
<1>13. CASE OnAck
  <2>1. ControlTyped' /\ AudioTyped' /\ WireTyped' /\ worker' = worker
    BY <1>5, <1>13, FinishTypes DEF OnAck
  <2> QED BY <1>13, <2>1, FinishTypes DEF OnAck, Typed, AppTyped, Quiet
<1> QED
  BY <1>3, <1>4, <1>7, <1>8, <1>9, <1>10, <1>11, <1>12, <1>13 DEF OnInterrupted

LEMMA PollTypes ==
    ASSUME HelperAssumption, Typed, Poll
    PROVE  Typed'
<1>1. ASSUME NEW error, Exit(error),
             UNCHANGED <<caller, control, answer, phase, state, stopped, lastGen, announced, flags, committed, due>>
      PROVE  Typed'
  BY <1>1, ExitedTypes DEF Typed, AppTyped
<1>2. CASE PollClosed \/ PollRefused
  BY <1>1, <1>2 DEF PollClosed, PollRefused
<1>3. CASE PollNothing
  <2>1. CASE FinishIfStopped /\ Quiet /\ UNCHANGED <<evts, startup, state, stopped, lastGen, announced, committed, due>>
    <3>1. ControlTyped' /\ AudioTyped' /\ WireTyped'
      BY <2>1, FinishTypes, QuietTypes DEF Quiet, Typed, WireTyped
    <3> QED BY <2>1, <3>1, FinishTypes DEF Typed, AppTyped, Quiet, Keep
  <2> QED BY <1>1, <1>3, <2>1 DEF PollNothing
<1>4. CASE PollEvent
  BY <1>4, EventTypes
<1> QED BY <1>2, <1>3, <1>4 DEF Poll

LEMMA TypedInit ==
    ASSUME HelperAssumption, Init
    PROVE  Typed
<1>1. ControlTyped
  BY DEF Init, HelperInit, ControlTyped, Resting, Commands, Ops
<1>2. AudioTyped
  BY DEF Init, HelperInit, AudioTyped, IdleMic, NoAttempt, Attempts, Stages
<1>3. WireTyped
  BY DEF Init, HelperInit, WireTyped
<1>4. AppTyped
  BY DEF Init, ControlInit, AppTyped
<1> QED BY <1>1, <1>2, <1>3, <1>4 DEF Typed

LEMMA TypedStep ==
    ASSUME HelperAssumption, Typed, [Next]_vars
    PROVE  Typed'
<1>1. CASE UNCHANGED vars
  <2>1. UNCHANGED helperVars /\ UNCHANGED appVars
    BY <1>1 DEF vars
  <2>2. ControlTyped' /\ AudioTyped' /\ WireTyped'
    BY <2>1, QuietTypes DEF helperVars, KeepHelper, Typed, ControlTyped, WireTyped
  <2>3. AppTyped'
    BY <2>1 DEF appVars, Typed, AppTyped
  <2> QED BY <2>2, <2>3 DEF Typed
<1>2. CASE Next
  BY <1>2, CallerTypes, ServeTypes, PollTypes, HelperTypes DEF Next
<1> QED BY <1>1, <1>2

\* Every variable keeps its type, on both sides of the pipes.
THEOREM ControlTypeCorrect == Spec => []TypeOK
<1>1. Init => Typed
  BY HelperAssumption, TypedInit
<1>2. Typed /\ [Next]_vars => Typed'
  BY HelperAssumption, TypedStep
<1>3. Typed => TypeOK
  BY DEF Typed, ControlTyped, AudioTyped, WireTyped, AppTyped, TypeOK, Commands
<1> QED BY <1>1, <1>2, <1>3, PTL DEF Spec

LEMMA AlwaysTyped == Spec => []Typed
<1>1. Init => Typed
  BY HelperAssumption, TypedInit
<1>2. Typed /\ [Next]_vars => Typed'
  BY HelperAssumption, TypedStep
<1> QED BY <1>1, <1>2, PTL DEF Spec

-----------------------------------------------------------------------------
(* A stop is durable.                                                      *)

\* The chunks that were accepted and those still in the pipe are the ones the helper
\* sealed; the end of a source is behind every chunk it counts.
Ledger ==
    \A s \in Source :
        /\ committed[s] + SealedUpTo(evts, s, Len(evts)) = sealed[s]
        /\ \A i \in DOMAIN evts :
             evts[i].type = "stopped" /\ evts[i].source = s => evts[i].n <= committed[s] + SealedUpTo(evts, s, i)

StopInv ==
    /\ \A s \in Source : due[s] <= committed[s]
    /\ worker # "exited" => Ledger
    /\ phase = "Stopped" => stopped = Requested
    /\ control # "none" => caller = control
    /\ caller = "join" => phase \in {"Stopping", "Stopped", "Failed"}
    /\ worker = "exited" => lastError # "none" /\ (lastError = "invalid" => phase \notin Handled \cup {"Failed"})
    /\ answer = "saved" => phase = "Stopped" /\ worker = "exited"

\* What the helper writes keeps the ledger.
LEMMA LedgerGrows ==
    ASSUME Typed, Ledger, NEW r, Wrote(r), UNCHANGED committed
    PROVE  Ledger'
<1> DEFINE q == evts
           x == evts'
           n == Len(q)
           m == Len(x)
<1>1. q \in Seq(HelperEvent) /\ r \in Seq(HelperEvent) /\ x = q \o r
  BY DEF Typed, WireTyped, Wrote
<1>2. /\ n \in Nat /\ m = n + Len(r) /\ Len(r) \in Nat /\ DOMAIN x = 1 .. m /\ DOMAIN q = 1 .. n
      /\ DOMAIN r = 1 .. Len(r)
      /\ \A j \in 1 .. n : x[j] = q[j]
      /\ \A j \in 1 .. Len(r) : x[n + j] = r[j]
  BY <1>1
<1>3. \A s \in Source : sealed[s] \in Nat /\ committed[s] \in Nat /\ committed'[s] = committed[s]
  BY DEF Typed, WireTyped, AppTyped
<1>4. /\ \A s \in Source : committed[s] + SealedUpTo(q, s, n) = sealed[s]
      /\ \A s \in Source : \A i \in 1 .. n :
            q[i].type = "stopped" /\ q[i].source = s => q[i].n <= committed[s] + SealedUpTo(q, s, i)
  BY <1>2 DEF Ledger
<1> HIDE DEF q, x, n, m
<1>5. SUFFICES ASSUME NEW s \in Source
               PROVE  /\ committed[s] + SealedUpTo(x, s, m) = sealed'[s]
                      /\ \A i \in 1 .. m :
                           x[i].type = "stopped" /\ x[i].source = s => x[i].n <= committed[s] + SealedUpTo(x, s, i)
  <2>1. Ledger' = \A s \in Source :
          /\ committed'[s] + SealedUpTo(x, s, m) = sealed'[s]
          /\ \A i \in DOMAIN x :
               x[i].type = "stopped" /\ x[i].source = s => x[i].n <= committed'[s] + SealedUpTo(x, s, i)
    BY DEF Ledger, x, m
  <2> QED BY <1>2, <1>3, <2>1
<1>6. \A i \in 0 .. n : SealedUpTo(x, s, i) = SealedUpTo(q, s, i)
  <2> TAKE i \in 0 .. n
  <2>1. i \in Nat /\ \A j \in 1 .. i : x[j] = q[j]
    BY <1>2
  <2> QED BY <2>1, CountSame
<1>7. SealedUpTo(x, s, n) \in Nat /\ SealedUpTo(x, s, m) \in Nat /\ m \in Nat /\ n \in Nat
  BY <1>2, CountType
<1>8. committed[s] + SealedUpTo(x, s, n) = sealed[s]
  BY <1>2, <1>4, <1>6
<1>9. \A k \in n + 1 .. m : k - n \in DOMAIN r /\ x[k] = r[k - n]
  <2> TAKE k \in n + 1 .. m
  <2>1. k - n \in 1 .. Len(r) /\ n + (k - n) = k
    BY <1>2
  <2> QED BY <1>2, <2>1
<1>10. committed[s] + SealedUpTo(x, s, m) = sealed'[s]
  <2>1. CASE sealed'[s] = sealed[s] /\ \A k \in DOMAIN r : ~ IsSeal(r[k], s)
    <3>1. n <= m
      BY <1>2
    <3>3. \A k \in n + 1 .. m : ~ IsSeal(x[k], s)
      BY <1>9, <2>1 DEF IsSeal
    <3>2. SealedUpTo(x, s, m) = SealedUpTo(x, s, n)
      BY <1>7, <3>1, <3>3, CountSkips
    <3> QED BY <1>8, <2>1, <3>2
  <2>2. ASSUME sealed'[s] = sealed[s] + 1, NEW k \in DOMAIN r, IsSeal(r[k], s),
               \A j \in DOMAIN r : IsSeal(r[j], s) => j = k
        PROVE  committed[s] + SealedUpTo(x, s, m) = sealed'[s]
    <3>1. k \in 1 .. Len(r) /\ n + k \in Nat /\ n + k - 1 \in Nat /\ (n + k - 1) + 1 = n + k
          /\ n <= n + k - 1 /\ n + k <= m
      BY <1>2
    <3>2. \A j \in n + 1 .. n + k - 1 : ~ IsSeal(x[j], s)
      <4> TAKE j \in n + 1 .. n + k - 1
      <4>1. j \in n + 1 .. m /\ j - n # k
        BY <3>1, <1>2
      <4> QED BY <1>9, <2>2, <4>1 DEF IsSeal
    <3>3. \A j \in n + k + 1 .. m : ~ IsSeal(x[j], s)
      <4> TAKE j \in n + k + 1 .. m
      <4>1. j \in n + 1 .. m /\ j - n # k
        BY <3>1, <1>2
      <4> QED BY <1>9, <2>2, <4>1 DEF IsSeal
    <3>4. SealedUpTo(x, s, n + k - 1) = SealedUpTo(x, s, n)
      BY <1>7, <3>1, <3>2, CountSkips
    <3>5. SealedUpTo(x, s, n + k) = SealedUpTo(x, s, n + k - 1) + 1
      <4>1. IsSeal(x[n + k], s)
        BY <1>2, <2>2, <3>1 DEF IsSeal
      <4> DEFINE p == n + k - 1
      <4>2. p \in Nat /\ p + 1 = n + k
        BY <3>1
      <4> HIDE DEF p
      <4>3. SealedUpTo(x, s, p + 1) = SealedUpTo(x, s, p) + 1
        BY <4>1, <4>2, CountOne
      <4> QED BY <4>2, <4>3 DEF p
    <3>6. SealedUpTo(x, s, m) = SealedUpTo(x, s, n + k)
      BY <1>7, <3>1, <3>3, CountSkips
    <3>7. SealedUpTo(x, s, m) = SealedUpTo(x, s, n) + 1
      BY <3>4, <3>5, <3>6
    <3> QED BY <1>3, <1>7, <1>8, <2>2, <3>7
  <2> QED BY <2>1, <2>2 DEF Wrote, Counted
<1>11. ASSUME NEW i \in 1 .. m, x[i].type = "stopped", x[i].source = s
       PROVE  x[i].n <= committed[s] + SealedUpTo(x, s, i)
  <2>1. CASE i \in 1 .. n
    <3>1. x[i] = q[i] /\ SealedUpTo(x, s, i) = SealedUpTo(q, s, i)
      BY <1>2, <1>6, <2>1
    <3> QED BY <1>4, <1>11, <2>1, <3>1
  <2>2. CASE i \in n + 1 .. m
    <3>1. x[i].n <= sealed[s]
      BY <1>9, <1>11, <2>2 DEF Wrote, Counted
    <3>2. i \in Nat /\ n <= i
      BY <1>7, <2>2
    <3>3. SealedUpTo(x, s, n) <= SealedUpTo(x, s, i)
      BY <1>7, <3>2, CountGrows
    <3>4. SealedUpTo(x, s, i) \in Nat
      BY <3>2, CountType
    <3>5. x[i].n \in Nat
      <4>1. i - n \in DOMAIN r /\ x[i] = r[i - n]
        BY <1>9, <2>2
      <4>2. r[i - n] \in HelperEvent
        BY <1>1, <4>1
      <4> QED BY <4>1, <4>2 DEF HelperEvent
    <3> QED BY <1>3, <1>7, <1>8, <3>1, <3>3, <3>4, <3>5
  <2> QED BY <1>2, <2>1, <2>2
<1> QED BY <1>10, <1>11

\* What the worker reads keeps the ledger, if it accepts what was sealed.
LEMMA LedgerShrinks ==
    ASSUME Typed, Ledger, evts # <<>>, evts' = Tail(evts), UNCHANGED sealed,
           \A s \in Source : committed'[s] = committed[s] + (IF IsSeal(Head(evts), s) THEN 1 ELSE 0)
    PROVE  Ledger'
<1> DEFINE q == evts
           x == evts'
           n == Len(q)
           m == Len(x)
<1>1. q \in Seq(HelperEvent) /\ q # <<>> /\ x = Tail(q) /\ n \in Nat /\ m \in Nat /\ m + 1 = n
      /\ DOMAIN x = 1 .. m /\ \A i \in 1 .. m : x[i] = q[i + 1] /\ i + 1 \in DOMAIN q
  BY HeadTailProperties DEF Typed, WireTyped
<1>2. \A s \in Source : sealed[s] \in Nat /\ committed[s] \in Nat /\ sealed'[s] = sealed[s]
  BY DEF Typed, WireTyped, AppTyped
<1>3. \A s \in Source : committed[s] + SealedUpTo(q, s, n) = sealed[s]
  BY DEF Ledger
<1>4. \A s \in Source : \A i \in DOMAIN q :
         q[i].type = "stopped" /\ q[i].source = s => q[i].n <= committed[s] + SealedUpTo(q, s, i)
  BY DEF Ledger
<1>5. Ledger' = \A s \in Source :
        /\ committed'[s] + SealedUpTo(x, s, m) = sealed'[s]
        /\ \A i \in DOMAIN x :
             x[i].type = "stopped" /\ x[i].source = s => x[i].n <= committed'[s] + SealedUpTo(x, s, i)
  BY DEF Ledger
<1>6. \A s \in Source : committed'[s] = committed[s] + (IF IsSeal(Head(q), s) THEN 1 ELSE 0)
  OBVIOUS
<1> HIDE DEF q, x, n, m
<1>7. ASSUME NEW s \in Source, NEW i \in Nat, i <= m
      PROVE  /\ committed'[s] + SealedUpTo(x, s, i) = committed[s] + SealedUpTo(q, s, i + 1)
             /\ SealedUpTo(x, s, i) \in Nat
  <2>1. i <= n - 1
    BY <1>1, <1>7
  <2>2. Len(q) = n
    BY DEF n
  <2>3. SealedUpTo(q, s, i + 1) = SealedUpTo(x, s, i) + (IF IsSeal(Head(q), s) THEN 1 ELSE 0)
    <3>1. q \in Seq(HelperEvent) /\ q # <<>> /\ i <= Len(q) - 1
      BY <1>1, <2>1, <2>2
    <3>2. SealedUpTo(q, s, i + 1) = SealedUpTo(Tail(q), s, i) + (IF IsSeal(Head(q), s) THEN 1 ELSE 0)
      BY <1>7, <3>1, CountTail
    <3> QED BY <1>1, <3>2
  <2>4. SealedUpTo(x, s, i) \in Nat
    BY CountType
  <2>5. SealedUpTo(q, s, i + 1) \in Nat
    BY <1>7, CountType
  <2>6. CASE IsSeal(Head(q), s)
    BY <1>2, <1>6, <2>3, <2>4, <2>5, <2>6
  <2>7. CASE ~ IsSeal(Head(q), s)
    BY <1>2, <1>6, <2>3, <2>4, <2>5, <2>7
  <2> QED BY <2>4, <2>6, <2>7
<1>8. ASSUME NEW s \in Source
      PROVE  committed'[s] + SealedUpTo(x, s, m) = sealed'[s]
  <2>1. committed'[s] + SealedUpTo(x, s, m) = committed[s] + SealedUpTo(q, s, m + 1)
    BY <1>1, <1>7
  <2> QED BY <1>1, <1>2, <1>3, <2>1
<1>9. ASSUME NEW s \in Source, NEW i \in 1 .. m, x[i].type = "stopped", x[i].source = s
      PROVE  x[i].n <= committed'[s] + SealedUpTo(x, s, i)
  <2>1. i \in Nat /\ i <= m /\ x[i] = q[i + 1] /\ i + 1 \in DOMAIN q
    BY <1>1
  <2>2. q[i + 1].n <= committed[s] + SealedUpTo(q, s, i + 1)
    BY <1>4, <1>9, <2>1
  <2>3. committed'[s] + SealedUpTo(x, s, i) = committed[s] + SealedUpTo(q, s, i + 1)
    BY <1>7, <2>1
  <2> QED BY <2>1, <2>2, <2>3
<1> QED BY <1>1, <1>5, <1>8, <1>9

LEMMA LedgerStays ==
    ASSUME Ledger, UNCHANGED <<evts, sealed, committed>>
    PROVE  Ledger'
BY DEF Ledger, SealedUpTo, SealedIn, IsSeal

\* The end of a source that is heard counts what has been accepted.
LEMMA EndIsCounted ==
    ASSUME Typed, Ledger, evts # <<>>, Head(evts).type = "stopped"
    PROVE  Head(evts).n <= committed[Head(evts).source]
<1> DEFINE e == Head(evts)
           s == e.source
<1>1. s \in Source /\ e.n \in Nat /\ e = evts[1] /\ 1 \in DOMAIN evts
  BY HeardEvent DEF Typed, WireTyped
<1>2. e.n <= committed[s] + SealedUpTo(evts, s, 1)
  BY <1>1 DEF Ledger
<1>3. \A k \in 0 + 1 .. 1 : ~ IsSeal(evts[k], s)
  BY <1>1 DEF IsSeal
<1>4. SealedUpTo(evts, s, 1) = SealedUpTo(evts, s, 0)
  BY <1>3, CountSkips
<1>5. SealedIn(evts, s, 0) = {}
  BY DEF SealedIn
<1>6. SealedUpTo(evts, s, 0) = 0
  BY <1>5, FS_EmptySet DEF SealedUpTo
<1>7. committed[s] \in Nat
  BY <1>1 DEF Typed, AppTyped
<1> HIDE DEF s, e
<1>8. e.n <= committed[s]
  BY <1>1, <1>2, <1>4, <1>6, <1>7
<1> QED BY <1>8 DEF s, e

LEMMA StopCaller ==
    ASSUME Typed, StopInv, Caller
    PROVE  StopInv'
<1>1. Ledger => Ledger'
  BY LedgerStays DEF Caller, CallStart, StartReturns, CallFails, StopReturns, Call, helperVars
<1>2. control \in {"none", "pause", "resume", "stop"}
  BY DEF Typed, AppTyped
<1>3. CASE CallStart
  BY <1>1, <1>3, <1>2 DEF CallStart, StopInv
<1>4. CASE StartReturns
  BY <1>1, <1>4, <1>2 DEF StartReturns, StopInv, helperVars
<1>5. CASE CallFails
  BY <1>1, <1>5 DEF CallFails, StopInv, helperVars
<1>6. CASE StopReturns
  <2>1. phase \in {"Stopping", "Stopped", "Failed"} /\ worker = "exited" /\ control = "none"
    BY <1>6, <1>2 DEF StopReturns, StopInv
  <2>2. answer' = "saved" => phase = "Stopped"
    BY <1>6, <2>1 DEF StopReturns, StopInv, Handled
  <2>3. caller' = "idle" /\ UNCHANGED <<control, worker, lastError, phase, stopped, committed, due>>
    BY <1>6 DEF StopReturns
  <2> QED BY <2>1, <2>2, <2>3 DEF StopInv
<1>7. ASSUME NEW op \in {"pause", "resume", "stop"}, Call(op) PROVE StopInv'
  BY <1>1, <1>7 DEF Call, StopInv, helperVars
<1> QED BY <1>3, <1>4, <1>5, <1>6, <1>7 DEF Caller

LEMMA StopServe ==
    ASSUME Typed, StopInv, Serve
    PROVE  StopInv'
<1>1. Ledger => Ledger'
  BY LedgerStays DEF Serve, KeepHelper
<1>2. /\ worker = "running" /\ worker' = worker /\ control # "none" /\ control' = "none"
      /\ control \in {"pause", "resume", "stop"} /\ UNCHANGED <<stopped, committed, due, lastError>>
  BY DEF Serve, Keep, Typed, AppTyped
<1>3. caller = control /\ answer # "saved" /\ answer' # "saved"
  BY <1>2 DEF Serve, StopInv
<1>4. phase' = "Stopped" => phase = "Stopped"
  BY <1>2 DEF Serve, SetAll
<1>5. caller' = "join" => phase' \in {"Stopping", "Stopped", "Failed"}
  BY <1>2 DEF Serve, SetAll
<1> QED BY <1>1, <1>2, <1>3, <1>4, <1>5 DEF StopInv

\* The worker returns with an error.
LEMMA StopExit ==
    ASSUME Typed, StopInv, worker = "running", NEW error, Exit(error), error # "none",
           error = "invalid" => phase' \notin Handled \cup {"Failed"},
           UNCHANGED <<caller, control, answer, stopped, committed, due>>, phase' \in {phase, "Failed"}
    PROVE  StopInv'
<1>1. worker' = "exited" /\ lastError' = error
  BY DEF Exit
<1>2. answer' # "saved"
  BY DEF StopInv
<1> QED BY <1>1, <1>2 DEF StopInv, Handled

\* finish_if_stopped reports the end only after every source's.
LEMMA StopFinish ==
    ASSUME Typed, StopInv, worker = "running", FinishIfStopped, Quiet, UNCHANGED stopped,
           Ledger => Ledger', \A s \in Source : due'[s] <= committed'[s]
    PROVE  StopInv'
<1>1. worker' = "running" /\ UNCHANGED <<caller, control, answer, lastError>> /\ answer # "saved"
  BY DEF Quiet, Keep, StopInv
<1>2. phase' = "Stopped" => stopped = Requested
  BY DEF FinishIfStopped, AllStopped, StopInv
<1>3. phase' = phase \/ phase' = "Stopped"
  BY DEF FinishIfStopped
<1> QED BY <1>1, <1>2, <1>3 DEF StopInv

\* The other events of a phase in which events are handled.
LEMMA StopKeep ==
    ASSUME Typed, StopInv, worker = "running", phase \in Handled, Quiet, UNCHANGED phase,
           Ledger => Ledger', \A s \in Source : due'[s] <= committed'[s]
    PROVE  StopInv'
<1>1. worker' = "running" /\ UNCHANGED <<caller, control, answer, lastError>> /\ answer # "saved"
  BY DEF Quiet, Keep, StopInv
<1> QED BY <1>1 DEF StopInv, Handled

LEMMA StopEvent ==
    ASSUME HelperAssumption, Typed, StopInv, PollEvent
    PROVE  StopInv'
<1> DEFINE e == Head(evts)
<1>1. /\ worker = "running" /\ phase \in Handled /\ evts # <<>> /\ (worker' = "running" => evts' = Tail(evts))
      /\ Ledger /\ \A s \in Source : due[s] <= committed[s]
  BY DEF PollEvent, StopInv
<1>2. e \in HelperEvent /\ e.source \in Source /\ e.n \in Nat
  BY <1>1, HeardEvent
<1>3. \/ e.type = "started" /\ OnStarted(e)
      \/ e.type = "sealed" /\ OnSealed(e)
      \/ e.type = "stopped" /\ OnStopped(e)
      \/ e.type = "interrupted" /\ OnInterrupted(e)
      \/ e.type = "recovering" /\ OnRecovering(e)
      \/ e.type = "recovered" /\ OnRecovered(e)
      \/ e.type = "fatal" /\ Fail("fatal")
      \/ e.type = "ack" /\ OnAck
  BY EventKinds
<1>4. ASSUME Quiet PROVE evts' = Tail(evts) /\ UNCHANGED sealed
  BY <1>1, <1>4 DEF Quiet, Keep, KeepHelper
<1>5. ASSUME Quiet, e.type # "sealed", UNCHANGED committed PROVE Ledger'
  <2>1. \A s \in Source : committed'[s] = committed[s] + (IF IsSeal(e, s) THEN 1 ELSE 0)
    BY <1>5 DEF IsSeal, Typed, AppTyped
  <2> QED BY <1>1, <1>4, <1>5, <2>1, LedgerShrinks
<1>6. \A s \in Source : committed[s] \in Nat /\ due[s] \in Nat
  BY DEF Typed, AppTyped
<1>7. ASSUME NEW error, Fail(error), error \notin {"none", "invalid"} PROVE StopInv'
  BY <1>1, <1>7, StopExit DEF Fail
<1>8. ASSUME NEW error, Exit(error), error \notin {"none", "invalid"},
             UNCHANGED <<caller, control, answer, phase, stopped, committed, due>>
      PROVE  StopInv'
  BY <1>1, <1>8, StopExit
<1> HIDE DEF e
<1>9. CASE e.type = "started" /\ OnStarted(e)
  <2>1. CASE Quiet /\ UNCHANGED phase
    <3>1. UNCHANGED <<committed, due>>
      BY <1>9 DEF OnStarted
    <3> QED BY <1>1, <1>5, <1>9, <2>1, <3>1, StopKeep
  <2>2. CASE Exit("catalog") /\ UNCHANGED <<caller, control, answer, phase, state>>
    BY <1>8, <1>9, <2>2 DEF OnStarted
  <2> QED BY <1>9, <2>1, <2>2 DEF OnStarted
<1>10. CASE e.type = "sealed" /\ OnSealed(e)
  <2>1. CASE /\ committed' = [committed EXCEPT ![e.source] = @ + 1]
             /\ FinishIfStopped /\ Quiet /\ UNCHANGED <<stopped, due>>
    <3>1. \A s \in Source : committed'[s] = committed[s] + (IF IsSeal(e, s) THEN 1 ELSE 0)
      BY <1>2, <1>10, <2>1 DEF IsSeal, Typed, AppTyped
    <3>2. Ledger'
      BY <1>1, <1>4, <2>1, <3>1, LedgerShrinks DEF e
    <3>3. \A s \in Source : due'[s] <= committed'[s]
      BY <1>1, <1>6, <2>1, <3>1
    <3> QED BY <1>1, <2>1, <3>2, <3>3, StopFinish
  <2> QED BY <1>8, <1>10, <2>1 DEF OnSealed
<1>11. CASE e.type = "stopped" /\ OnStopped(e)
  <2>1. e.n <= committed[e.source]
    BY <1>1, <1>11, EndIsCounted DEF e
  <2>2. UNCHANGED <<committed, phase>> /\ Quiet /\ due' = [due EXCEPT ![e.source] = e.n]
        /\ stopped' = stopped \cup {e.source}
    BY <1>11 DEF OnStopped
  <2>3. \A s \in Source : due'[s] <= committed'[s]
    BY <1>1, <1>2, <2>1, <2>2 DEF Typed, AppTyped
  <2> QED BY <1>1, <1>5, <1>11, <2>2, <2>3, StopKeep
<1>12. CASE Quiet /\ UNCHANGED <<phase, committed, due>> /\ e.type # "sealed"
  BY <1>1, <1>5, <1>12, StopKeep
<1>13. CASE e.type = "ack" /\ OnAck
  <2>1. FinishIfStopped /\ Quiet /\ UNCHANGED <<stopped, committed, due>>
    BY <1>13 DEF OnAck
  <2> QED BY <1>1, <1>5, <1>13, <2>1, StopFinish
<1>14. CASE e.type = "interrupted" /\ OnInterrupted(e)
  BY <1>7, <1>12, <1>14 DEF OnInterrupted, Ignored
<1>15. CASE e.type = "recovering" /\ OnRecovering(e)
  BY <1>7, <1>12, <1>15 DEF OnRecovering
<1>16. CASE e.type = "recovered" /\ OnRecovered(e)
  BY <1>7, <1>12, <1>16 DEF OnRecovered
<1> QED
  BY <1>3, <1>7, <1>9, <1>10, <1>11, <1>13, <1>14, <1>15, <1>16

LEMMA StopPoll ==
    ASSUME HelperAssumption, Typed, StopInv, Poll
    PROVE  StopInv'
<1>1. CASE PollNothing
  <2>1. CASE FinishIfStopped /\ Quiet /\ UNCHANGED <<evts, stopped, committed, due>>
    <3>1. Ledger => Ledger'
      BY <2>1, LedgerStays DEF Quiet, KeepHelper
    <3>2. \A s \in Source : due'[s] <= committed'[s]
      BY <2>1 DEF StopInv
    <3> QED BY <1>1, <2>1, <3>1, <3>2, StopFinish DEF PollNothing
  <2>2. CASE phase \notin Handled /\ Exit("invalid") /\ UNCHANGED <<caller, control, answer, phase, stopped, committed, due>>
    BY <1>1, <2>2, StopExit DEF PollNothing
  <2> QED BY <1>1, <2>1, <2>2 DEF PollNothing
<1>2. CASE PollClosed
  BY <1>2, StopExit DEF PollClosed
<1>3. CASE PollRefused
  <2> DEFINE error == IF phase = "Failed" THEN "failed" ELSE "invalid"
  <2>1. Exit(error) /\ error # "none" /\ worker = "running"
        /\ UNCHANGED <<caller, control, answer, phase, stopped, committed, due>>
        /\ (error = "invalid" => phase' \notin Handled \cup {"Failed"})
    BY <1>3 DEF PollRefused
  <2> HIDE DEF error
  <2> QED BY <2>1, StopExit
<1>4. CASE PollEvent
  BY <1>4, StopEvent
<1> QED BY <1>1, <1>2, <1>3, <1>4 DEF Poll

LEMMA StopHelper ==
    ASSUME HelperAssumption, Typed, StopInv, Helper
    PROVE  StopInv'
<1>1. HelperNext /\ UNCHANGED appVars
  BY DEF Helper
<1>2. PICK r : Wrote(r)
  BY <1>1, HelperWrites
<1>3. Ledger => Ledger'
  BY <1>1, <1>2, LedgerGrows DEF appVars
<1> QED BY <1>1, <1>3 DEF StopInv, appVars

LEMMA StopInit ==
    ASSUME Init
    PROVE  StopInv
<1>1. \A s \in Source : SealedIn(<<>>, s, 0) = {}
  BY DEF SealedIn
<1>2. \A s \in Source : SealedUpTo(evts, s, Len(evts)) = 0
  BY <1>1, FS_EmptySet DEF SealedUpTo, Init, HelperInit
<1>3. \A s \in Source : committed[s] = 0 /\ sealed[s] = 0
  BY DEF Init, HelperInit, ControlInit
<1>4. DOMAIN evts = {}
  BY DEF Init, HelperInit
<1>5. Ledger
  BY <1>2, <1>3, <1>4 DEF Ledger
<1> QED BY <1>5 DEF StopInv, Init, ControlInit

LEMMA StopInvariance == Spec => []StopInv
<1>1. Init => StopInv
  BY StopInit
<1>2. Typed /\ StopInv /\ [Next]_vars => StopInv'
  <2> SUFFICES ASSUME Typed, StopInv, [Next]_vars PROVE StopInv'
    OBVIOUS
  <2>1. CASE UNCHANGED vars
    <3>1. UNCHANGED helperVars /\ UNCHANGED appVars
      BY <2>1 DEF vars
    <3>2. Ledger => Ledger'
      BY <3>1, LedgerStays DEF helperVars, appVars
    <3> QED BY <3>1, <3>2 DEF StopInv, appVars
  <2>2. CASE Next
    BY <2>2, HelperAssumption, StopCaller, StopServe, StopPoll, StopHelper DEF Next
  <2> QED BY <2>1, <2>2
<1> QED BY <1>1, <1>2, AlwaysTyped, PTL DEF Spec

\* A session that reports Stopped, or whose stop was answered without an error, heard
\* the end of every source and registered every chunk the source counted in it.
THEOREM StopIsDurable == Spec => []StoppedIsDurable
<1>1. Typed /\ StopInv => StoppedIsDurable
  <2> SUFFICES ASSUME Typed, StopInv, phase = "Stopped" \/ answer = "saved"
               PROVE  stopped = Requested /\ \A s \in Requested : committed[s] >= due[s]
    BY DEF StoppedIsDurable
  <2>1. stopped = Requested
    BY DEF StopInv
  <2>2. \A s \in Requested : s \in Source /\ committed[s] \in Nat /\ due[s] \in Nat /\ due[s] <= committed[s]
    BY HelperAssumption DEF StopInv, Typed, AppTyped, Source
  <2> QED BY <2>1, <2>2
<1> QED BY <1>1, AlwaysTyped, StopInvariance, PTL

-----------------------------------------------------------------------------
(* What the session hears of a recovery.                                   *)

\* The session runs and no stop was accepted.
Going == worker # "exited" /\ ~ flags.stop
Calm == flags.toggles = 0

\* No stop is on its way.
Unstopped ==
    Going =>
        /\ phase \notin {"Stopping", "Stopped"} /\ loop # "stopped"
        /\ \A k \in DOMAIN cmds : cmds[k] \in {"start", "pause", "resume"}
        /\ task.op \in {"read", "start", "announce", "pause", "resume"}

\* Nothing the session asked for stops the microphone's recovery.
Untoggled ==
    Going /\ Calm =>
        /\ \A k \in DOMAIN cmds : cmds[k] = "start"
        /\ \A k \in DOMAIN evts : evts[k].type # "stopped"
        /\ worker = "running" /\ Mic \in Requested => state[Mic] \in {"Running", "Recovering"}

AppRecovering == Mic \in Requested /\ state[Mic] = "Recovering"

\* A source is announced before it recovers.
StartedFirst ==
    Going => \A j \in DOMAIN evts : evts[j].type = "started" /\ evts[j].source = Mic =>
        ~ AppRecovering /\ \A i \in 1 .. j - 1 : ~ IsRec(evts[i])

Attempting == rec.stage \in {"signal", "teardown", "post", "rebuild", "report"}

\* The attempt and the microphone it is for.
Microphone ==
    Going /\ Alive =>
        /\ mic.path \/ mic.published => mic.running
        /\ mic.running /\ rec.stage \notin {"none", "waiting"} => rec.active /\ Current
        /\ rec.stage = "waiting" => Current /\ mic.running
        /\ Attempting \/ mic.published => Mic \in enabled
        /\ task.op = "announce" /\ mic.running => Mic \in enabled
        /\ mic.running => Mic \in Requested

\* Before capturing there is no published microphone, and no attempt to recover one.
Starting ==
    Going /\ Alive =>
        /\ task.op \in {"start", "announce"} => loop = "awaiting"
        /\ task.op \in {"pause", "resume"} => loop = "capturing"
        /\ loop = "awaiting" => ~ mic.published /\ ~ Attempting
        /\ loop = "awaiting" /\ task.op = "read" => rec.stage = "none" /\ mic = IdleMic
        /\ task.op = "start" =>
             /\ \A k \in DOMAIN task.todo : k > 1 => task.todo[k] # Mic
             /\ task.todo # <<>> /\ Head(task.todo) = Mic => rec.stage = "none" /\ mic = IdleMic

Fresh ==
    Going /\ Alive /\ loop = "awaiting" =>
        ~ AppRecovering /\ lastGen = 0 /\ \A i \in DOMAIN evts : ~ IsRec(evts[i])

\* What the session knows of the last recovery, as an event, and what is on its way to it.
Told == Event(IF AppRecovering THEN "recovering" ELSE IF Mic \in Requested /\ Calm THEN "recovered" ELSE "ack",
              Mic, lastGen)
Line == [i \in 1 .. Len(evts) + 1 |-> IF i = 1 THEN Told ELSE evts[i - 1]]

Follows(e, f) ==
    IF f.type = "recovering" THEN e.type = "recovered" /\ e.n < f.n ELSE e.type = "recovering" /\ e.n = f.n
Apart(q, i, j) == \A k \in DOMAIN q : i < k /\ k < j => ~ IsRec(q[k])
Alternates(q) ==
    \A i, j \in DOMAIN q : i < j /\ IsRec(q[i]) /\ IsRec(q[j]) /\ Apart(q, i, j) => Follows(q[i], q[j])
LastRec(q, i) == i \in DOMAIN q /\ IsRec(q[i]) /\ \A k \in DOMAIN q : i < k => ~ IsRec(q[k])

\* The last event of a recovery says how far the attempt is.
Suits(a, m, e) ==
    /\ a.stage \in {"teardown", "post", "rebuild", "report"} => e.type = "recovering" /\ e.n = a.mine
    /\ a.stage \in {"waiting", "signal"} => e.type = "recovered" /\ e.n < a.mine
    /\ a.stage = "none" /\ m.running => e.type = "recovered" /\ e.n <= a.gen
Fits(e) == Suits(rec, mic, e)

InTurn == Going => Alternates(Line) /\ (Alive => \A i \in DOMAIN Line : LastRec(Line, i) => Fits(Line[i]))

\* A protocol error is one that RecoveryIsAccepted excuses.
Blamed ==
    /\ lastError # "none" => worker = "exited"
    /\ worker = "none" => ~ AppRecovering
    /\ RecoveryIsAccepted

RecoveryInv == Unstopped /\ Untoggled /\ StartedFirst /\ Microphone /\ Starting /\ Fresh /\ InTurn /\ Blamed

\* How the line becomes the next one: longer by m events that are not of a recovery, by
\* one that is and follows the last, shorter by the one that was heard, or with another
\* account of what was heard.
Extended(q, x, n, m) ==
    /\ n \in Nat /\ m \in Nat /\ DOMAIN q = 1 .. n /\ DOMAIN x = 1 .. n + m
    /\ \A i \in 1 .. n : x[i] = q[i]
    /\ \A i \in n + 1 .. n + m : ~ IsRec(x[i])
Continued(q, x, n) ==
    /\ n \in Nat /\ DOMAIN q = 1 .. n /\ DOMAIN x = 1 .. n + 1
    /\ \A i \in 1 .. n : x[i] = q[i]
    /\ IsRec(x[n + 1]) /\ \A i \in DOMAIN q : LastRec(q, i) => Follows(q[i], x[n + 1])
Shifted(q, x, n) ==
    /\ n \in Nat /\ n > 0 /\ DOMAIN q = 1 .. n + 1 /\ DOMAIN x = 1 .. n
    /\ \A i \in 2 .. n : x[i] = q[i + 1]
    /\ x[1] = q[2] \/ ~ IsRec(x[1]) \/ (~ IsRec(q[2]) /\ x[1] = q[1])
Renamed(q, x, n) ==
    /\ n \in Nat /\ DOMAIN q = 1 .. n /\ DOMAIN x = 1 .. n
    /\ \A i \in 2 .. n : x[i] = q[i]
    /\ x[1] = q[1] \/ ~ IsRec(x[1])

\* Events behind the line that are not of a recovery change nothing in it.
LEMMA LineStays ==
    ASSUME NEW n, NEW m, NEW q, NEW x, Extended(q, x, n, m), Alternates(q)
    PROVE  Alternates(x) /\ \A i \in DOMAIN x : LastRec(x, i) => LastRec(q, i) /\ x[i] = q[i]
<1> n \in Nat /\ m \in Nat /\ DOMAIN q = 1 .. n /\ DOMAIN x = 1 .. n + m
    /\ (\A i \in 1 .. n : x[i] = q[i]) /\ (\A i \in n + 1 .. n + m : ~ IsRec(x[i]))
  BY DEF Extended
<1>1. \A i \in DOMAIN x : IsRec(x[i]) => i \in DOMAIN q /\ x[i] = q[i]
  <2> TAKE i \in DOMAIN x
  <2>1. i \in 1 .. n \/ i \in n + 1 .. n + m
    OBVIOUS
  <2> QED BY <2>1
<1>2. \A i \in DOMAIN q : i \in DOMAIN x /\ x[i] = q[i]
  OBVIOUS
<1>3. Alternates(x)
  <2> SUFFICES ASSUME NEW i \in DOMAIN x, NEW j \in DOMAIN x, i < j, IsRec(x[i]), IsRec(x[j]), Apart(x, i, j)
               PROVE  Follows(x[i], x[j])
    BY DEF Alternates
  <2>1. i \in DOMAIN q /\ j \in DOMAIN q /\ x[i] = q[i] /\ x[j] = q[j]
    BY <1>1
  <2>2. Apart(q, i, j)
    BY <1>2 DEF Apart, IsRec
  <2> QED BY <2>1, <2>2 DEF Alternates
<1>4. ASSUME NEW i \in DOMAIN x, LastRec(x, i) PROVE LastRec(q, i) /\ x[i] = q[i]
  <2>1. i \in DOMAIN q /\ x[i] = q[i] /\ IsRec(q[i])
    BY <1>1, <1>4 DEF LastRec
  <2>2. \A k \in DOMAIN q : i < k => ~ IsRec(q[k])
    BY <1>2, <1>4 DEF LastRec, IsRec
  <2> QED BY <2>1, <2>2 DEF LastRec
<1> QED BY <1>3, <1>4

\* One that follows the last of them is the last.
LEMMA LineGrows ==
    ASSUME NEW n, NEW q, NEW x, Continued(q, x, n), Alternates(q)
    PROVE  Alternates(x) /\ \A i \in DOMAIN x : LastRec(x, i) => i = n + 1
<1> n \in Nat /\ DOMAIN q = 1 .. n /\ DOMAIN x = 1 .. n + 1 /\ IsRec(x[n + 1])
    /\ (\A i \in 1 .. n : x[i] = q[i]) /\ (\A i \in DOMAIN q : LastRec(q, i) => Follows(q[i], x[n + 1]))
  BY DEF Continued
<1>1. \A i \in DOMAIN q : i \in DOMAIN x /\ x[i] = q[i]
  OBVIOUS
<1>2. Alternates(x)
  <2> SUFFICES ASSUME NEW i \in DOMAIN x, NEW j \in DOMAIN x, i < j, IsRec(x[i]), IsRec(x[j]), Apart(x, i, j)
               PROVE  Follows(x[i], x[j])
    BY DEF Alternates
  <2>1. i \in DOMAIN q /\ x[i] = q[i]
    OBVIOUS
  <2>2. CASE j = n + 1
    <3>1. \A k \in DOMAIN q : i < k => ~ IsRec(q[k])
      <4> TAKE k \in DOMAIN q
      <4>1. k < n + 1
        OBVIOUS
      <4> QED BY <1>1, <2>2, <4>1 DEF Apart, IsRec
    <3>2. LastRec(q, i)
      BY <2>1, <3>1 DEF LastRec
    <3> QED BY <2>1, <2>2, <3>2
  <2>3. CASE j # n + 1
    <3>1. j \in DOMAIN q /\ x[j] = q[j]
      BY <2>3
    <3>2. Apart(q, i, j)
      BY <1>1 DEF Apart, IsRec
    <3> QED BY <2>1, <3>1, <3>2 DEF Alternates
  <2> QED BY <2>2, <2>3
<1>3. \A i \in DOMAIN x : LastRec(x, i) => i = n + 1
  BY DEF LastRec
<1> QED BY <1>2, <1>3

\* The first two of a line become one: what was heard takes the place of what was known.
LEMMA LineHears ==
    ASSUME NEW n, NEW q, NEW x, Shifted(q, x, n), Alternates(q)
    PROVE  Alternates(x) /\ \A i \in DOMAIN x : LastRec(x, i) => \E j \in DOMAIN q : LastRec(q, j) /\ q[j] = x[i]
<1> n \in Nat /\ n > 0 /\ DOMAIN q = 1 .. n + 1 /\ DOMAIN x = 1 .. n /\ (\A i \in 2 .. n : x[i] = q[i + 1])
    /\ (x[1] = q[2] \/ ~ IsRec(x[1]) \/ (~ IsRec(q[2]) /\ x[1] = q[1]))
  BY DEF Shifted
<1> DEFINE from(i) == IF i = 1 /\ x[1] # q[2] THEN 1 ELSE i + 1
<1>1. ASSUME NEW i \in DOMAIN x, IsRec(x[i]) PROVE from(i) \in DOMAIN q /\ q[from(i)] = x[i]
  <2>1. CASE i = 1
    BY <1>1, <2>1
  <2>2. CASE i # 1
    BY <1>1, <2>2
  <2> QED BY <2>1, <2>2
<1>2. ASSUME NEW i \in DOMAIN x, IsRec(x[i]), NEW k \in DOMAIN q, from(i) < k, IsRec(q[k])
      PROVE  k - 1 \in DOMAIN x /\ x[k - 1] = q[k] /\ i < k - 1
  <2>1. k > 2 \/ (k = 2 /\ i = 1 /\ x[1] # q[2])
    BY <1>2
  <2>2. k # 2
    <3>1. k = 2 => i = 1 /\ x[1] # q[2] /\ ~ IsRec(q[2])
      BY <1>2, <2>1
    <3> QED BY <1>2, <3>1
  <2>3. k > 2
    BY <2>1, <2>2
  <2>4. k - 1 \in 2 .. n /\ (k - 1) + 1 = k
    BY <2>3
  <2>5. i < k - 1
    BY <1>2, <2>3
  <2> QED BY <2>4, <2>5
<1>3. \A i, j \in DOMAIN x : i < j => from(i) < from(j)
  OBVIOUS
<1> HIDE DEF from
<1>4. Alternates(x)
  <2> SUFFICES ASSUME NEW i \in DOMAIN x, NEW j \in DOMAIN x, i < j, IsRec(x[i]), IsRec(x[j]), Apart(x, i, j)
               PROVE  Follows(x[i], x[j])
    BY DEF Alternates
  <2>1. from(i) \in DOMAIN q /\ from(j) \in DOMAIN q /\ q[from(i)] = x[i] /\ q[from(j)] = x[j]
    BY <1>1
  <2>2. from(i) < from(j)
    BY <1>3
  <2>3. Apart(q, from(i), from(j))
    <3> SUFFICES ASSUME NEW k \in DOMAIN q, from(i) < k, k < from(j), IsRec(q[k]) PROVE FALSE
      BY DEF Apart
    <3>1. k - 1 \in DOMAIN x /\ x[k - 1] = q[k] /\ i < k - 1
      BY <1>2
    <3>2. k - 1 < j
      BY DEF from
    <3> QED BY <3>1, <3>2 DEF Apart, IsRec
  <2> QED BY <2>1, <2>2, <2>3 DEF Alternates, IsRec
<1>5. ASSUME NEW i \in DOMAIN x, LastRec(x, i) PROVE \E j \in DOMAIN q : LastRec(q, j) /\ q[j] = x[i]
  <2>1. IsRec(x[i]) /\ from(i) \in DOMAIN q /\ q[from(i)] = x[i]
    BY <1>1, <1>5 DEF LastRec
  <2>2. \A k \in DOMAIN q : from(i) < k => ~ IsRec(q[k])
    <3> SUFFICES ASSUME NEW k \in DOMAIN q, from(i) < k, IsRec(q[k]) PROVE FALSE
      OBVIOUS
    <3>1. k - 1 \in DOMAIN x /\ x[k - 1] = q[k] /\ i < k - 1
      BY <1>2, <2>1
    <3> QED BY <1>5, <3>1 DEF LastRec, IsRec
  <2> QED BY <2>1, <2>2 DEF LastRec, IsRec
<1> QED BY <1>4, <1>5

\* The session forgets what it knew.
LEMMA LineForgets ==
    ASSUME NEW n, NEW q, NEW x, Renamed(q, x, n), Alternates(q)
    PROVE  Alternates(x) /\ \A i \in DOMAIN x : LastRec(x, i) => LastRec(q, i) /\ x[i] = q[i]
<1> n \in Nat /\ DOMAIN q = 1 .. n /\ DOMAIN x = 1 .. n /\ (\A i \in 2 .. n : x[i] = q[i])
    /\ (x[1] = q[1] \/ ~ IsRec(x[1]))
  BY DEF Renamed
<1>1. \A i \in DOMAIN x : IsRec(x[i]) => x[i] = q[i]
  <2> TAKE i \in DOMAIN x
  <2>1. i = 1 \/ i \in 2 .. n
    OBVIOUS
  <2> QED BY <2>1
<1>2. \A i, k \in DOMAIN x : i < k => x[k] = q[k]
  OBVIOUS
<1>3. Alternates(x)
  <2> SUFFICES ASSUME NEW i \in DOMAIN x, NEW j \in DOMAIN x, i < j, IsRec(x[i]), IsRec(x[j]), Apart(x, i, j)
               PROVE  Follows(x[i], x[j])
    BY DEF Alternates
  <2>1. x[i] = q[i] /\ x[j] = q[j]
    BY <1>1
  <2>2. Apart(q, i, j)
    BY <1>2 DEF Apart, IsRec
  <2> QED BY <2>1, <2>2 DEF Alternates
<1>4. ASSUME NEW i \in DOMAIN x, LastRec(x, i) PROVE LastRec(q, i) /\ x[i] = q[i]
  <2>1. x[i] = q[i] /\ IsRec(q[i])
    BY <1>1, <1>4 DEF LastRec, IsRec
  <2>2. \A k \in DOMAIN q : i < k => ~ IsRec(q[k])
    BY <1>2, <1>4 DEF LastRec, IsRec
  <2> QED BY <2>1, <2>2 DEF LastRec
<1> QED BY <1>3, <1>4

LEMMA LineShape ==
    ASSUME Typed
    PROVE  /\ Len(evts) \in Nat /\ DOMAIN Line = 1 .. Len(evts) + 1 /\ Line[1] = Told
           /\ \A i \in 2 .. Len(evts) + 1 : Line[i] = evts[i - 1] /\ i - 1 \in DOMAIN evts
           /\ DOMAIN evts = 1 .. Len(evts)
           /\ \A i \in DOMAIN evts : evts[i] \in HelperEvent
<1>1. evts \in Seq(HelperEvent) /\ Len(evts) \in Nat
  BY DEF Typed, WireTyped
<1> QED BY <1>1 DEF Line

\* Where no stop is on its way, these are the steps of the helper.
Unforced ==
    \/ ReadCommand /\ Head(cmds) \in {"start", "pause", "resume"}
    \/ RejectCommand /\ Head(cmds) \in {"pause", "resume"}
    \/ StartAdapter \/ StartAdapterFails \/ Publish \/ Announce \/ Activate
    \/ Pause \/ Resume \/ TransitionFails \/ EndTransition
    \/ RecoveryStep \/ World

LEMMA GoingSteps ==
    ASSUME Typed, Unstopped, Going, HelperNext
    PROVE  Unforced /\ (Calm /\ Untoggled => ~ RejectCommand)
<1>1. task.op \in {"read", "start", "announce", "pause", "resume"}
      /\ \A k \in DOMAIN cmds : cmds[k] \in {"start", "pause", "resume"}
  BY DEF Unstopped
<1>2. cmds # <<>> => Head(cmds) = cmds[1] /\ 1 \in DOMAIN cmds
  BY DEF Typed, ControlTyped
<1>3. ~ StopAdapter /\ ~ AnnounceStopped /\ ~ EndStop /\ ~ Acknowledge
  BY <1>1 DEF StopAdapter, AnnounceStopped, EndStop, Acknowledge
<1>4. ReadCommand => Head(cmds) \in {"start", "pause", "resume"}
  BY <1>1, <1>2 DEF ReadCommand
<1>5. RejectCommand => Head(cmds) \in {"pause", "resume"}
  BY DEF RejectCommand
<1>6. Calm /\ Untoggled => ~ RejectCommand
  BY <1>2, <1>5 DEF Untoggled, RejectCommand
<1> QED BY <1>3, <1>4, <1>5, <1>6 DEF HelperNext, Command, Unforced

LEMMA HelperUnstopped ==
    ASSUME Typed, Unstopped, Going, HelperNext, UNCHANGED appVars
    PROVE  Unstopped'
<1>1. Unforced
  BY GoingSteps
<1>2. /\ phase' \notin {"Stopping", "Stopped"} /\ loop # "stopped"
      /\ \A k \in DOMAIN cmds : cmds[k] \in {"start", "pause", "resume"}
      /\ task.op \in {"read", "start", "announce", "pause", "resume"}
  BY DEF Unstopped, appVars
<1>3. \A k \in DOMAIN cmds' : cmds'[k] \in {"start", "pause", "resume"}
  <2>1. CASE UNCHANGED cmds
    BY <1>2, <2>1
  <2>2. CASE cmds # <<>> /\ cmds' = Tail(cmds)
    <3>1. cmds \in Seq(Commands)
      BY DEF Typed, ControlTyped
    <3>2. \A k \in DOMAIN Tail(cmds) : k + 1 \in DOMAIN cmds /\ Tail(cmds)[k] = cmds[k + 1]
      BY <2>2, <3>1
    <3> QED BY <1>2, <2>2, <3>2
  <2>3. UNCHANGED cmds \/ ReadCommand
    BY <1>1 DEF Unforced, RejectCommand, Throw, StartAdapter, StartAdapterFails, Publish, Announce, Activate, Pause, Resume,
       TransitionFails, EndTransition, RecoveryStep, World, Frames, RollChunk, FramePathFails, HelperCrash, SystemStreamStops,
       DeviceChange, BeginRecovery, ReportRecovering, TearDown, PostSealed, Rebuild, RebuildFails, ReportRecovered, FailRecovery
  <2> QED BY <2>1, <2>2, <2>3 DEF ReadCommand
<1>4. loop' # "stopped" /\ task'.op \in {"read", "start", "announce", "pause", "resume"}
  <2>1. CASE ReadCommand /\ Head(cmds) \in {"start", "pause", "resume"}
    BY <1>2, <2>1 DEF ReadCommand, Begin
  <2>2. CASE \/ RejectCommand \/ StartAdapter \/ StartAdapterFails \/ Publish \/ Announce \/ Activate
             \/ Pause \/ Resume \/ TransitionFails \/ EndTransition \/ HelperCrash
    BY <1>2, <2>2 DEF RejectCommand, Throw, StartAdapter, StartAdapterFails, Publish, Announce, Activate, Pause, Resume,
       TransitionFails, EndTransition, HelperCrash, Begin, Resting
  <2>3. CASE UNCHANGED <<loop, task>>
    BY <1>2, <2>3
  <2> QED
    BY <1>1, <2>1, <2>2, <2>3 DEF Unforced, RecoveryStep, World, Frames, RollChunk, FramePathFails, SystemStreamStops,
       DeviceChange, BeginRecovery, ReportRecovering, TearDown, PostSealed, Rebuild, RebuildFails, ReportRecovered, FailRecovery
<1> QED BY <1>2, <1>3, <1>4 DEF Unstopped

\* The steps that leave the microphone and the attempt as they are.
LEMMA MicrophoneStays ==
    ASSUME Microphone, Starting, Going, Alive, UNCHANGED appVars, UNCHANGED <<loop, task, mic, rec>>,
           Mic \in enabled => Mic \in enabled'
    PROVE  Microphone' /\ Starting'
<1>1. Microphone'
  BY DEF Microphone, Going, Alive, Attempting, Current, appVars
<1>2. Starting'
  BY DEF Starting, Going, Alive, Attempting, appVars
<1> QED BY <1>1, <1>2

\* A stopped microphone has nothing left to recover.
LEMMA MicrophoneStops ==
    ASSUME Typed, Microphone, Starting, Going, Alive, UNCHANGED appVars, UNCHANGED <<loop, task, enabled>>,
           mic' = IdleMic, rec' = CancelledRecovery
    PROVE  Microphone' /\ Starting'
<1>1. mic'.running = FALSE /\ mic'.published = FALSE /\ mic'.path = FALSE
  BY DEF IdleMic
<1>2. rec'.stage = rec.stage \/ (rec.stage = "waiting" /\ rec'.stage = "none")
  BY DEF CancelledRecovery, Typed, AudioTyped, Attempts
<1>3. rec'.stage # "waiting" /\ (Attempting' => Attempting)
  BY <1>2 DEF CancelledRecovery, Typed, AudioTyped, Attempts, Attempting
<1>4. Microphone'
  BY <1>1, <1>3 DEF Microphone, Going, Alive, appVars
<1>5. (rec.stage = "none" => rec'.stage = "none")
  BY <1>2
<1>6. Starting'
  BY <1>1, <1>3, <1>5 DEF Starting, Going, Alive, appVars
<1> QED BY <1>4, <1>6

LEMMA RecoveryMicrophone ==
    ASSUME Typed, Microphone, Starting, Going, Alive, UNCHANGED appVars, RecoveryStep
    PROVE  Microphone' /\ Starting'
<1>1. UNCHANGED <<loop, task>> /\ Going'
  BY DEF RecoveryStep, BeginRecovery, ReportRecovering, TearDown, PostSealed, Rebuild, RebuildFails, ReportRecovered,
     FailRecovery, Going, appVars
<1>2. rec \in Attempts
  BY DEF Typed, AudioTyped
<1>3. rec.stage # "none" /\ ~ (loop = "awaiting" /\ task.op = "read")
      /\ ~ (task.op = "start" /\ task.todo # <<>> /\ Head(task.todo) = Mic)
  <2>1. rec.stage # "none"
    BY DEF RecoveryStep, BeginRecovery, ReportRecovering, TearDown, PostSealed, Rebuild, RebuildFails, ReportRecovered, FailRecovery
  <2> QED BY <2>1 DEF Starting
<1>4. mic \in [running : BOOLEAN, published : BOOLEAN, path : BOOLEAN, terminal : {FALSE}]
  BY DEF Typed, AudioTyped
<1>5. SUFFICES /\ Microphone'
               /\ loop = "awaiting" => ~ mic'.published /\ ~ Attempting'
  BY <1>1, <1>3 DEF Starting
<1>6. CASE BeginRecovery
  <2>1. PICK kept \in 0 .. rec.starts :
          LET burst == kept >= BurstLimit
              ready == mic.published /\ mic.running /\ ~ mic.terminal
          IN  rec' = [rec EXCEPT !.active = burst \/ ready,
                                 !.starts = IF burst THEN kept ELSE kept + 1,
                                 !.stage = CASE burst -> "failing"
                                             [] ready /\ ~ burst -> "signal"
                                             [] OTHER -> "none"]
    BY <1>6 DEF BeginRecovery
  <2> DEFINE burst == kept >= BurstLimit
             ready == mic.published /\ mic.running /\ ~ mic.terminal
  <2>2. /\ rec'.gen = rec.gen /\ rec'.mine = rec.mine
        /\ rec'.active = (burst \/ ready)
        /\ burst => rec'.stage = "failing"
        /\ ~ burst /\ ready => rec'.stage = "signal"
        /\ ~ burst /\ ~ ready => rec'.stage = "none"
    <3>1. CASE burst
      BY <1>2, <2>1, <3>1 DEF Attempts
    <3>2. CASE ~ burst /\ ready
      BY <1>2, <2>1, <3>2 DEF Attempts
    <3>3. CASE ~ burst /\ ~ ready
      BY <1>2, <2>1, <3>3 DEF Attempts
    <3> QED BY <3>1, <3>2, <3>3
  <2>3. Current /\ Current' /\ UNCHANGED <<mic, enabled>>
    BY <1>6, <2>2 DEF BeginRecovery, Current
  <2>4. ready => mic.published /\ mic.running
    OBVIOUS
  <2> HIDE DEF burst, ready
  <2>5. Microphone'
    BY <1>1, <2>2, <2>3, <2>4 DEF Microphone, Attempting, Going, Alive
  <2>6. loop = "awaiting" => ~ mic'.published /\ ~ Attempting'
    BY <1>1, <2>2, <2>3, <2>4 DEF Starting, Attempting
  <2> QED BY <2>5, <2>6
<1>7. ASSUME NEW st \in Stages, Recovery(st), Attempting, st # "waiting", UNCHANGED enabled,
             mic'.running = mic.running, mic'.published = mic.published,
             mic'.path => mic.path \/ mic.running
      PROVE  Microphone' /\ (loop = "awaiting" => ~ mic'.published /\ ~ Attempting')
  <2>1. rec'.stage = st /\ rec'.gen = rec.gen /\ rec'.mine = rec.mine /\ rec'.active = rec.active
    BY <1>2, <1>7 DEF Recovery, Attempts
  <2>2. Microphone'
    BY <1>1, <1>7, <2>1 DEF Microphone, Attempting, Going, Alive, Current
  <2>3. loop # "awaiting"
    BY <1>7 DEF Starting
  <2> QED BY <2>2, <2>3
<1>8. CASE ReportRecovering
  BY <1>7, <1>8 DEF ReportRecovering, Attempting, Stages
<1>9. CASE TearDown
  <2>1. mic'.running = mic.running /\ mic'.published = mic.published /\ mic'.path = FALSE /\ UNCHANGED enabled /\ Attempting
    BY <1>4, <1>9 DEF TearDown, Attempting
  <2>2. \E st \in {"post", "rebuild"} : Recovery(st)
    BY <1>9 DEF TearDown
  <2> QED BY <1>7, <2>1, <2>2 DEF Stages
<1>10. CASE PostSealed
  BY <1>7, <1>10 DEF PostSealed, Attempting, Stages
<1>11. ASSUME rec' = Finished, UNCHANGED <<enabled, mic>> PROVE Microphone' /\ (loop = "awaiting" => ~ mic'.published /\ ~ Attempting')
  <2>1. rec'.stage = "none"
    BY <1>2, <1>11 DEF Finished, Attempts
  <2>2. Microphone'
    BY <1>1, <1>11, <2>1 DEF Microphone, Attempting, Going, Alive
  <2> QED BY <1>11, <2>1, <2>2 DEF Starting, Attempting
<1>12. CASE Rebuild
  <2>1. CASE Current /\ mic.running
    <3>1. mic'.running = mic.running /\ mic'.published = mic.published /\ UNCHANGED enabled /\ Attempting /\ Recovery("report")
      BY <1>4, <1>12, <2>1 DEF Rebuild, Attempting
    <3> QED BY <1>7, <2>1, <3>1 DEF Stages
  <2>2. CASE ~ (Current /\ mic.running)
    BY <1>11, <1>12, <2>2 DEF Rebuild
  <2> QED BY <2>1, <2>2
<1>13. CASE RebuildFails
  <2>1. mic'.running = mic.running /\ mic'.published = mic.published /\ mic'.path = FALSE /\ UNCHANGED enabled
        /\ Attempting /\ Recovery("failing")
    BY <1>4, <1>13 DEF RebuildFails, Attempting
  <2> QED BY <1>7, <2>1 DEF Stages
<1>14. CASE ReportRecovered
  BY <1>11, <1>14 DEF ReportRecovered
<1>15. CASE FailRecovery
  <2>1. CASE rec' = Finished /\ UNCHANGED <<enabled, mic>>
    BY <1>11, <2>1
  <2>2. CASE mic' = IdleMic /\ rec' = [CancelledRecovery EXCEPT !.stage = "none"]
    <3>1. rec'.stage = "none" /\ mic'.running = FALSE /\ mic'.published = FALSE /\ mic'.path = FALSE
      <4>1. CancelledRecovery \in Attempts
        BY <1>2, AttemptTypes
      <4> QED BY <2>2, <4>1 DEF IdleMic, Attempts
    <3> QED BY <3>1 DEF Microphone, Attempting
  <2> QED BY <1>15, <2>1, <2>2 DEF FailRecovery
<1> QED BY <1>6, <1>8, <1>9, <1>10, <1>12, <1>13, <1>14, <1>15 DEF RecoveryStep

LEMMA MicrophoneFirst == \A k \in DOMAIN sourceOrder(Requested) : k > 1 => sourceOrder(Requested)[k] # Mic
<1> DEFINE o == sourceOrder(Requested)
<1>1. o \in Seq(Source) /\ DOMAIN o = 1 .. Len(o) /\ Len(o) \in Nat
      /\ \A j, k \in DOMAIN o : o[j] = o[k] => j = k
  BY Orders
<1>2. Mic \in Requested => o[1] = Mic /\ 1 \in DOMAIN o
  <2>1. CASE Mic \in Requested /\ Sys \in Requested
    <3>1. o = <<Mic>> \o <<Sys>>
      BY <2>1 DEF sourceOrder
    <3> QED BY <3>1
  <2>2. CASE Mic \in Requested /\ Sys \notin Requested
    <3>1. o = <<Mic>>
      BY <2>2 DEF sourceOrder
    <3> QED BY <3>1
  <2> QED BY <2>1, <2>2
<1>3. \A k \in DOMAIN o : o[k] \in Requested
  BY Orders
<1> HIDE DEF o
<1>4. \A k \in DOMAIN o : k > 1 => o[k] # Mic
  BY <1>1, <1>2, <1>3
<1> QED BY <1>4 DEF o

\* The commands of a session nobody stopped.
LEMMA CommandMicrophone ==
    ASSUME HelperAssumption, Typed, Microphone, Starting, Going, Alive, UNCHANGED appVars,
           \/ ReadCommand /\ Head(cmds) \in {"start", "pause", "resume"}
           \/ StartAdapter \/ Publish \/ Announce \/ Activate \/ Pause \/ Resume \/ EndTransition
    PROVE  Microphone' /\ Starting'
<1>1. /\ mic.path \/ mic.published => mic.running
      /\ mic.running /\ rec.stage \notin {"none", "waiting"} => rec.active /\ Current
      /\ rec.stage = "waiting" => Current /\ mic.running
      /\ Attempting \/ mic.published => Mic \in enabled
      /\ task.op = "announce" /\ mic.running => Mic \in enabled
      /\ mic.running => Mic \in Requested
  BY DEF Microphone
<1>2. /\ task.op \in {"start", "announce"} => loop = "awaiting"
      /\ task.op \in {"pause", "resume"} => loop = "capturing"
      /\ loop = "awaiting" => ~ mic.published /\ ~ Attempting
      /\ loop = "awaiting" /\ task.op = "read" => rec.stage = "none" /\ mic = IdleMic
      /\ task.op = "start" =>
           /\ \A k \in DOMAIN task.todo : k > 1 => task.todo[k] # Mic
           /\ task.todo # <<>> /\ Head(task.todo) = Mic => rec.stage = "none" /\ mic = IdleMic
  BY DEF Starting
<1>3. task.todo \in Seq(Requested) /\ Resting.op = "read"
  BY DEF Typed, ControlTyped, Resting
<1>4. IdleMic = [running |-> FALSE, published |-> FALSE, path |-> FALSE, terminal |-> FALSE]
  BY DEF IdleMic
<1>5. ASSUME UNCHANGED <<mic, rec, enabled>>, task'.op # "announce" PROVE Microphone'
  BY <1>1, <1>5 DEF Microphone, Attempting, Current
<1>6. CASE ReadCommand /\ Head(cmds) \in {"start", "pause", "resume"}
  <2>1. /\ UNCHANGED <<mic, rec, enabled, loop>> /\ task.op = "read"
        /\ \/ loop = "awaiting" /\ task' = [op |-> "start", todo |-> sourceOrder(Requested)]
           \/ loop = "capturing" /\ task'.op \in {"pause", "resume"}
    BY <1>3, <1>6 DEF ReadCommand, Begin
  <2>2. task'.op \in {"start", "pause", "resume"}
    BY <2>1
  <2>3. Microphone'
    BY <1>5, <2>1, <2>2
  <2>4. CASE loop = "awaiting" /\ task' = [op |-> "start", todo |-> sourceOrder(Requested)]
    <3>1. /\ task'.op = "start" /\ \A k \in DOMAIN task'.todo : k > 1 => task'.todo[k] # Mic
          /\ rec'.stage = "none" /\ mic' = IdleMic /\ loop' = "awaiting"
      BY <1>2, <2>1, <2>4, MicrophoneFirst
    <3>2. ~ Attempting' /\ ~ mic'.published
      BY <1>4, <3>1 DEF Attempting
    <3> QED BY <2>3, <3>1, <3>2 DEF Starting
  <2>5. CASE loop = "capturing" /\ task'.op \in {"pause", "resume"}
    BY <2>1, <2>3, <2>5 DEF Starting
  <2> QED BY <2>1, <2>4, <2>5
<1>7. CASE StartAdapter
  <2>1. /\ task.op = "start" /\ task.todo # <<>> /\ task' = [op |-> "start", todo |-> Tail(task.todo)]
        /\ UNCHANGED <<loop, enabled, rec>>
        /\ mic' = IF Head(task.todo) = Mic THEN [IdleMic EXCEPT !.running = TRUE, !.path = TRUE] ELSE mic
    BY <1>7 DEF StartAdapter, Begin
  <2>2. \A k \in DOMAIN Tail(task.todo) : k + 1 \in DOMAIN task.todo /\ Tail(task.todo)[k] = task.todo[k + 1] /\ k + 1 > 1
    BY <1>3, <2>1
  <2>3. \A k \in DOMAIN task'.todo : task'.todo[k] # Mic
    BY <1>2, <2>1, <2>2
  <2>4. task'.todo # <<>> => Head(task'.todo) = task'.todo[1] /\ 1 \in DOMAIN task'.todo
    BY <1>3, <2>1
  <2>5. loop' = "awaiting" /\ ~ Attempting' /\ task'.op = "start"
    BY <1>2, <2>1 DEF Attempting
  <2>6. CASE Head(task.todo) = Mic
    <3>1. rec'.stage = "none" /\ mic'.published = FALSE /\ Mic \in Requested
      BY <1>2, <1>3, <1>4, <2>1, <2>6
    <3>2. mic'.running = TRUE
      BY <1>4, <2>1, <2>6
    <3>3. Microphone'
      BY <2>5, <3>1, <3>2 DEF Microphone
    <3>4. Starting'
      BY <2>3, <2>4, <2>5, <3>1 DEF Starting
    <3> QED BY <3>3, <3>4
  <2>7. CASE Head(task.todo) # Mic
    <3>1. UNCHANGED mic
      BY <2>1, <2>7
    <3>2. Microphone'
      BY <1>5, <2>1, <2>5, <3>1
    <3>3. ~ mic'.published
      BY <1>2, <2>1, <3>1
    <3>4. Starting'
      BY <2>3, <2>4, <2>5, <3>3 DEF Starting
    <3> QED BY <3>2, <3>4
  <2> QED BY <2>6, <2>7
<1>8. CASE Publish
  <2>1. task.op = "start" /\ task'.op = "announce" /\ enabled' = Requested /\ UNCHANGED <<mic, rec, loop>>
    BY <1>8 DEF Publish, Begin
  <2>2. loop = "awaiting" /\ ~ mic.published /\ ~ Attempting
    BY <1>2, <2>1
  <2>3. Microphone'
    BY <1>1, <2>1, <2>2 DEF Microphone, Attempting, Current
  <2>4. Starting'
    BY <2>1, <2>2 DEF Starting, Attempting
  <2> QED BY <2>3, <2>4
<1>9. CASE Announce
  <2>1. task.op = "announce" /\ task'.op = "announce" /\ UNCHANGED <<mic, rec, loop, enabled>>
    BY <1>9 DEF Announce, Begin
  <2>2. Microphone'
    BY <1>1, <2>1 DEF Microphone, Attempting, Current
  <2>3. Starting'
    BY <1>2, <2>1 DEF Starting, Attempting
  <2> QED BY <2>2, <2>3
<1>10. CASE Activate
  <2>1. /\ task.op = "announce" /\ task'.op = "read" /\ loop' = "capturing" /\ UNCHANGED <<rec, enabled>>
        /\ mic' = [mic EXCEPT !.published = mic.running]
    BY <1>3, <1>10 DEF Activate
  <2>2. mic'.running = mic.running /\ mic'.path = mic.path /\ mic'.published = mic.running
    BY <2>1 DEF Typed, AudioTyped
  <2>3. Microphone'
    BY <1>1, <2>1, <2>2 DEF Microphone, Attempting, Current
  <2>4. Starting'
    BY <2>1 DEF Starting
  <2> QED BY <2>3, <2>4
<1>11. CASE Pause \/ Resume
  <2>1. task.op \in {"pause", "resume"} /\ task'.op = task.op /\ UNCHANGED <<mic, rec, loop, enabled>>
    BY <1>11 DEF Pause, Resume, Begin
  <2>2. Microphone'
    BY <1>5, <2>1
  <2>3. Starting'
    BY <1>2, <2>1 DEF Starting
  <2> QED BY <2>2, <2>3
<1>12. CASE EndTransition
  <2>1. task.op \in {"pause", "resume"} /\ task'.op = "read" /\ UNCHANGED <<mic, rec, loop, enabled>>
    BY <1>3, <1>12 DEF EndTransition
  <2>2. Microphone'
    BY <1>5, <2>1
  <2>3. Starting'
    BY <1>2, <2>1 DEF Starting
  <2> QED BY <2>2, <2>3
<1> QED BY <1>6, <1>7, <1>8, <1>9, <1>10, <1>11, <1>12

\* The sources and the system.
LEMMA WorldMicrophone ==
    ASSUME Typed, Microphone, Starting, Going, Alive, UNCHANGED appVars, World
    PROVE  Microphone' /\ Starting'
<1>1. Mic # Sys /\ Source = {Mic, Sys}
  BY DEF Mic, Sys, Source
<1>2. ASSUME NEW s \in Source, Frames(s) \/ RollChunk(s) PROVE Microphone' /\ Starting'
  BY <1>2, MicrophoneStays DEF Frames, RollChunk
<1>3. CASE FramePathFails(Mic)
  BY <1>3, MicrophoneStops DEF FramePathFails, StopAdapters
<1>4. CASE FramePathFails(Sys)
  BY <1>1, <1>4, MicrophoneStays DEF FramePathFails, StopAdapters
<1>5. CASE SystemStreamStops
  <2>1. UNCHANGED <<loop, task, mic, rec>>
    BY <1>1, <1>5 DEF SystemStreamStops, StopAdapters
  <2>2. Mic \in enabled => Mic \in enabled'
    BY <1>1, <1>5 DEF SystemStreamStops
  <2> QED BY <2>1, <2>2, MicrophoneStays
<1>6. CASE HelperCrash
  BY <1>6 DEF HelperCrash, Alive, Microphone, Starting
<1>7. CASE DeviceChange
  <2>1. /\ UNCHANGED <<loop, task, mic, enabled>> /\ mic.path
        /\ rec' = IF rec.active THEN rec
                  ELSE [rec EXCEPT !.gen = rec.gen + 1, !.mine = rec.gen + 1, !.stage = "waiting"]
    BY <1>7 DEF DeviceChange
  <2>2. CASE rec.active
    BY <2>1, <2>2, MicrophoneStays
  <2>3. CASE ~ rec.active
    <3>1. rec'.stage = "waiting" /\ rec'.gen = rec'.mine
      BY <2>1, <2>3 DEF Typed, AudioTyped, Attempts
    <3>2. mic.running /\ mic # IdleMic
      BY <2>1 DEF Microphone, IdleMic
    <3>3. ~ Attempting'
      BY <3>1 DEF Attempting
    <3>4. Microphone'
      BY <2>1, <3>1, <3>2, <3>3 DEF Microphone, Current
    <3>5. Starting'
      BY <2>1, <3>2, <3>3 DEF Starting
    <3> QED BY <3>4, <3>5
  <2> QED BY <2>2, <2>3
<1> QED BY <1>1, <1>2, <1>3, <1>4, <1>5, <1>6, <1>7 DEF World

LEMMA HelperMicrophone ==
    ASSUME HelperAssumption, Typed, Unstopped, Microphone, Starting, HelperNext, UNCHANGED appVars
    PROVE  Microphone' /\ Starting'
<1> SUFFICES ASSUME Going', Alive' PROVE Microphone' /\ Starting'
  BY DEF Microphone, Starting
<1>1. Going /\ Alive
  BY DEF HelperNext, Command, RecoveryStep, World, ReadCommand, RejectCommand, StartAdapter, StartAdapterFails, Publish,
         Announce, Activate, Pause, Resume, TransitionFails, EndTransition, StopAdapter, AnnounceStopped, EndStop, Acknowledge,
         Frames, RollChunk, FramePathFails, HelperCrash, SystemStreamStops, DeviceChange, BeginRecovery, ReportRecovering,
         TearDown, PostSealed, Rebuild, RebuildFails, ReportRecovered, FailRecovery, Going, appVars
<1>2. Unforced
  BY <1>1, GoingSteps
<1>3. ~ RejectCommand /\ ~ StartAdapterFails /\ ~ TransitionFails
  BY DEF RejectCommand, Throw, StartAdapterFails, TransitionFails, Alive
<1> QED
  BY <1>1, <1>2, <1>3, CommandMicrophone, RecoveryMicrophone, WorldMicrophone DEF Unforced

\* A step of the helper extends the line.
LEMMA LineExtends ==
    ASSUME Typed, UNCHANGED appVars, NEW r, Wrote(r)
    PROVE  /\ Len(r) \in Nat /\ DOMAIN r = 1 .. Len(r)
           /\ Len(evts) \in Nat /\ Len(evts') = Len(evts) + Len(r) /\ DOMAIN evts' = 1 .. Len(evts) + Len(r)
           /\ \A i \in 1 .. Len(evts) : evts'[i] = evts[i]
           /\ \A i \in Len(evts) + 1 .. Len(evts) + Len(r) : i - Len(evts) \in DOMAIN r /\ evts'[i] = r[i - Len(evts)]
           /\ DOMAIN Line' = 1 .. (Len(evts) + 1) + Len(r)
           /\ \A i \in 1 .. Len(evts) + 1 : Line'[i] = Line[i]
           /\ \A i \in (Len(evts) + 1) + 1 .. (Len(evts) + 1) + Len(r) :
                i - (Len(evts) + 1) \in DOMAIN r /\ Line'[i] = r[i - (Len(evts) + 1)]
<1>1. evts \in Seq(HelperEvent) /\ r \in Seq(HelperEvent) /\ evts' = evts \o r
  BY DEF Typed, WireTyped, Wrote
<1> DEFINE n == Len(evts)
           m == Len(r)
<1>2. n \in Nat /\ m \in Nat /\ DOMAIN r = 1 .. m /\ DOMAIN evts = 1 .. n
  BY <1>1
<1>3. Len(evts') = n + m /\ DOMAIN evts' = 1 .. n + m
  BY <1>1
<1>4. \A i \in 1 .. n : evts'[i] = evts[i]
  BY <1>1
<1>5. \A i \in n + 1 .. n + m : i - n \in DOMAIN r /\ evts'[i] = r[i - n]
  BY <1>1
<1>6. Told' = Told
  BY DEF Told, AppRecovering, Calm, appVars
<1>7. Line' = [i \in 1 .. n + m + 1 |-> IF i = 1 THEN Told ELSE evts'[i - 1]]
  BY <1>3, <1>6 DEF Line
<1>8. Line = [i \in 1 .. n + 1 |-> IF i = 1 THEN Told ELSE evts[i - 1]]
  BY DEF Line
<1> HIDE DEF n, m
<1>9. DOMAIN Line' = 1 .. (n + 1) + m
  BY <1>2, <1>7
<1>10. \A i \in 1 .. n + 1 : Line'[i] = Line[i]
  <2> TAKE i \in 1 .. n + 1
  <2>1. CASE i = 1
    BY <1>2, <1>7, <1>8, <2>1
  <2>2. CASE i # 1
    <3>1. i - 1 \in 1 .. n /\ i \in 1 .. n + m + 1
      BY <1>2, <2>2
    <3> QED BY <1>4, <1>7, <1>8, <2>2, <3>1
  <2> QED BY <2>1, <2>2
<1>11. \A i \in (n + 1) + 1 .. (n + 1) + m : i - (n + 1) \in DOMAIN r /\ Line'[i] = r[i - (n + 1)]
  <2> TAKE i \in (n + 1) + 1 .. (n + 1) + m
  <2>1. i - 1 \in n + 1 .. n + m /\ (i - 1) - n = i - (n + 1) /\ i \in 1 .. n + m + 1 /\ i # 1
    BY <1>2
  <2> QED BY <1>5, <1>7, <2>1
<1> QED BY <1>2, <1>3, <1>4, <1>5, <1>9, <1>10, <1>11 DEF n, m

\* The steps that announce neither the start nor the end of a recovery.
LEMMA StillSuits ==
    ASSUME Typed, Microphone, Going, Alive, Alive', Unforced, ~ ReportRecovering, ~ ReportRecovered,
           NEW e, Fits(e), e.n \in Nat,
           StartAdapter => (e.type = "recovered" /\ e.n = 0 /\ rec.stage = "none") \/ UNCHANGED <<mic, rec>>
    PROVE  Suits(rec', mic', e)
<1>1. /\ mic.path \/ mic.published => mic.running
      /\ mic.running /\ rec.stage \notin {"none", "waiting"} => rec.active /\ Current
      /\ rec.stage = "waiting" => Current /\ mic.running
  BY DEF Microphone
<1>2. rec \in Attempts /\ mic \in [running : BOOLEAN, published : BOOLEAN, path : BOOLEAN, terminal : {FALSE}]
  BY DEF Typed, AudioTyped
<1>3. /\ rec.stage \in {"teardown", "post", "rebuild", "report"} => e.type = "recovering" /\ e.n = rec.mine
      /\ rec.stage \in {"waiting", "signal"} => e.type = "recovered" /\ e.n < rec.mine
      /\ rec.stage = "none" /\ mic.running => e.type = "recovered" /\ e.n <= rec.gen
  BY DEF Fits, Suits
<1>4. CASE UNCHANGED <<mic, rec>>
  BY <1>3, <1>4 DEF Suits
<1>5. CASE StartAdapter
  <2>1. rec' = rec
    BY <1>5 DEF StartAdapter
  <2> QED BY <1>2, <1>4, <1>5, <2>1 DEF Suits, Attempts
<1>6. CASE Activate
  <2>1. rec' = rec /\ mic' = [mic EXCEPT !.published = mic.running]
    BY <1>6 DEF Activate
  <2>2. mic'.running = mic.running
    BY <1>2, <2>1
  <2> QED BY <1>3, <2>1, <2>2 DEF Suits
<1>7. ASSUME mic' = IdleMic, rec' = CancelledRecovery PROVE Suits(rec', mic', e)
  <2>1. mic'.running = FALSE
    BY <1>7 DEF IdleMic
  <2>2. rec'.mine = rec.mine /\ (rec'.stage = rec.stage \/ rec'.stage = "none")
    BY <1>2, <1>7 DEF CancelledRecovery, Attempts
  <2> QED BY <1>3, <2>1, <2>2 DEF Suits
<1>8. CASE World
  <2>1. ASSUME NEW s \in Source, Frames(s) \/ RollChunk(s) PROVE Suits(rec', mic', e)
    BY <1>4, <2>1 DEF Frames, RollChunk
  <2>2. ASSUME NEW s \in Source, FramePathFails(s) PROVE Suits(rec', mic', e)
    BY <1>4, <1>7, <2>2 DEF FramePathFails, StopAdapters
  <2>3. CASE SystemStreamStops
    BY <1>4, <2>3 DEF SystemStreamStops, StopAdapters, Mic, Sys
  <2>4. CASE DeviceChange
    <3>1. mic' = mic /\ mic.running /\ rec' = IF rec.active THEN rec
              ELSE [rec EXCEPT !.gen = rec.gen + 1, !.mine = rec.gen + 1, !.stage = "waiting"]
      BY <1>1, <2>4 DEF DeviceChange
    <3>2. CASE ~ rec.active
      <4>1. rec'.stage = "waiting" /\ rec'.mine = rec.gen + 1
        BY <1>2, <3>1, <3>2 DEF Attempts
      <4>2. rec.stage \in {"none", "waiting"}
        BY <1>1, <3>1, <3>2
      <4>3. e.type = "recovered" /\ e.n < rec.gen + 1
        BY <1>1, <1>2, <1>3, <3>1, <4>2 DEF Current, Attempts
      <4> QED BY <4>1, <4>3 DEF Suits
    <3> QED BY <1>4, <3>1, <3>2
  <2>5. ~ HelperCrash
    BY DEF HelperCrash, Alive
  <2> QED BY <1>8, <2>1, <2>2, <2>3, <2>4, <2>5 DEF World
<1>9. ASSUME NEW st \in Stages, Recovery(st), mic'.running = mic.running, st \notin {"none", "waiting", "signal"},
              rec.stage \in {"teardown", "post", "rebuild", "report"}
       PROVE  Suits(rec', mic', e)
  <2>1. rec'.stage = st /\ rec'.mine = rec.mine
    BY <1>2, <1>9 DEF Recovery, Attempts
  <2> QED BY <1>3, <1>9, <2>1 DEF Suits
<1>10. ASSUME rec'.stage = "none", mic'.running = FALSE PROVE Suits(rec', mic', e)
  BY <1>10 DEF Suits
<1>11. CASE RecoveryStep
  <2>1. CASE BeginRecovery
    <3>1. /\ rec.stage = "waiting" /\ mic' = mic /\ rec'.stage \in {"failing", "signal", "none"}
          /\ rec'.gen = rec.gen /\ rec'.mine = rec.mine
      BY <1>2, <2>1 DEF BeginRecovery, Attempts
    <3>2. e.type = "recovered" /\ e.n < rec.mine /\ rec.mine = rec.gen
      BY <1>1, <1>3, <3>1 DEF Current
    <3> QED BY <1>2, <3>1, <3>2 DEF Suits, Attempts
  <2>2. CASE TearDown
    <3>1. rec.stage = "teardown" /\ mic'.running = mic.running
      BY <1>2, <2>2 DEF TearDown
    <3>2. \E st \in {"post", "rebuild"} : Recovery(st)
      BY <2>2 DEF TearDown
    <3> QED BY <1>9, <3>1, <3>2 DEF Stages
  <2>3. CASE PostSealed
    BY <1>9, <2>3 DEF PostSealed, Stages
  <2>4. CASE Rebuild
    <3>1. CASE Current /\ mic.running
      <4>1. rec.stage = "rebuild" /\ mic'.running = mic.running /\ Recovery("report")
        BY <1>2, <2>4, <3>1 DEF Rebuild
      <4> QED BY <1>9, <4>1 DEF Stages
    <3>2. CASE ~ (Current /\ mic.running)
      <4>1. rec.stage = "rebuild" /\ rec' = Finished /\ mic' = mic
        BY <2>4, <3>2 DEF Rebuild
      <4>2. mic.running = FALSE
        BY <1>1, <1>2, <3>2, <4>1
      <4>3. rec'.stage = "none"
        BY <1>2, <4>1 DEF Finished, Attempts
      <4> QED BY <1>10, <4>1, <4>2, <4>3
    <3> QED BY <3>1, <3>2
  <2>5. CASE RebuildFails
    <3>1. rec'.stage = "failing"
      BY <1>2, <2>5 DEF RebuildFails, Recovery, Attempts
    <3> QED BY <3>1 DEF Suits
  <2>6. CASE FailRecovery
    <3>1. rec'.stage = "none"
      <4>1. CancelledRecovery \in Attempts
        BY <1>2, AttemptTypes
      <4>2. rec' = [CancelledRecovery EXCEPT !.stage = "none"] \/ rec' = Finished
        BY <2>6 DEF FailRecovery
      <4> QED BY <1>2, <4>1, <4>2 DEF Finished, Attempts
    <3>2. mic'.running = FALSE
      <4>1. CASE mic.running /\ ~ mic.terminal /\ Current
        BY <2>6, <4>1 DEF FailRecovery, IdleMic
      <4>2. CASE ~ (mic.running /\ ~ mic.terminal /\ Current)
        <5>1. rec.stage = "failing" /\ mic' = mic
          BY <2>6, <4>2 DEF FailRecovery
        <5> QED BY <1>1, <1>2, <4>2, <5>1
      <4> QED BY <4>1, <4>2
    <3> QED BY <1>10, <3>1, <3>2
  <2> QED BY <1>11, <2>1, <2>2, <2>3, <2>4, <2>5, <2>6 DEF RecoveryStep
<1>12. ~ RejectCommand /\ ~ StartAdapterFails /\ ~ TransitionFails
  BY DEF RejectCommand, Throw, StartAdapterFails, TransitionFails, Alive
<1>13. CASE ReadCommand \/ Publish \/ Announce \/ Pause \/ Resume \/ EndTransition
  BY <1>4, <1>13 DEF ReadCommand, Publish, Announce, Pause, Resume, EndTransition
<1> QED
  BY <1>5, <1>6, <1>8, <1>11, <1>12, <1>13 DEF Unforced

LEMMA StillFits ==
    ASSUME Typed, Microphone, Starting, Fresh, Going, Alive, Alive', Unforced,
           ~ ReportRecovering, ~ ReportRecovered,
           NEW i \in DOMAIN Line, LastRec(Line, i), Fits(Line[i])
    PROVE  Suits(rec', mic', Line[i])
<1>1. Line[i].n \in Nat
  <2>1. Told.n \in Nat
    BY DEF Told, Event, Typed, AppTyped
  <2>2. \A x \in HelperEvent : x.n \in Nat
    BY DEF HelperEvent
  <2>3. i = 1 \/ i \in 2 .. Len(evts) + 1
    BY LineShape
  <2> QED BY <2>1, <2>2, <2>3, LineShape
<1>2. StartAdapter => (Line[i].type = "recovered" /\ Line[i].n = 0 /\ rec.stage = "none") \/ UNCHANGED <<mic, rec>>
  <2> SUFFICES ASSUME StartAdapter, ~ UNCHANGED <<mic, rec>> PROVE Line[i].type = "recovered" /\ Line[i].n = 0 /\ rec.stage = "none"
    OBVIOUS
  <2>1. task.op = "start" /\ task.todo # <<>> /\ Head(task.todo) = Mic
    BY DEF StartAdapter
  <2>2. loop = "awaiting" /\ rec.stage = "none"
    BY <2>1 DEF Starting
  <2>3. ~ AppRecovering /\ lastGen = 0 /\ \A k \in DOMAIN evts : ~ IsRec(evts[k])
    BY <2>2 DEF Fresh
  <2>4. IsRec(Line[i])
    BY DEF LastRec
  <2>5. i \in 2 .. Len(evts) + 1 => ~ IsRec(Line[i])
    BY <2>3, LineShape
  <2>6. i = 1 /\ Line[i] = Told
    BY <2>4, <2>5, LineShape
  <2>7. Told.type \in {"recovered", "ack"} /\ Told.n = 0
    BY <2>3 DEF Told, Event
  <2> QED BY <2>2, <2>4, <2>6, <2>7 DEF IsRec
<1> QED BY <1>1, <1>2, StillSuits

LEMMA HelperAlive == HelperNext => Alive
BY DEF HelperNext, Command, RecoveryStep, World, ReadCommand, RejectCommand, StartAdapter, StartAdapterFails, Publish,
       Announce, Activate, Pause, Resume, TransitionFails, EndTransition, StopAdapter, AnnounceStopped, EndStop, Acknowledge,
       Frames, RollChunk, FramePathFails, HelperCrash, SystemStreamStops, DeviceChange, BeginRecovery, ReportRecovering,
       TearDown, PostSealed, Rebuild, RebuildFails, ReportRecovered, FailRecovery

\* What the helper of a session nobody stopped does to the pipe of commands, and when it captures.
LEMMA HelperReads ==
    ASSUME Typed, Unstopped, Going, HelperNext
    PROVE  /\ UNCHANGED cmds \/ (cmds # <<>> /\ cmds' = Tail(cmds))
           /\ loop' = "awaiting" => loop = "awaiting"
<1>1. Unforced
  BY GoingSteps
<1>2. CASE ReadCommand
  BY <1>2 DEF ReadCommand
<1>3. CASE Activate \/ RejectCommand \/ StartAdapterFails \/ TransitionFails \/ HelperCrash
  BY <1>3 DEF Activate, RejectCommand, Throw, StartAdapterFails, TransitionFails, HelperCrash
<1>4. CASE StartAdapter \/ Publish \/ Announce \/ Pause \/ Resume \/ EndTransition
  BY <1>4 DEF StartAdapter, Publish, Announce, Pause, Resume, EndTransition
<1>5. CASE RecoveryStep
  BY <1>5 DEF RecoveryStep, BeginRecovery, ReportRecovering, TearDown, PostSealed, Rebuild, RebuildFails, ReportRecovered, FailRecovery
<1>6. CASE World
  <2>1. CASE SystemStreamStops \/ DeviceChange \/ \E s \in Source : Frames(s) \/ RollChunk(s) \/ FramePathFails(s)
    BY <2>1 DEF Frames, RollChunk, FramePathFails, SystemStreamStops, DeviceChange
  <2> QED BY <1>3, <1>6, <2>1 DEF World
<1> QED BY <1>1, <1>2, <1>3, <1>4, <1>5, <1>6 DEF Unforced

\* A source is announced while the helper still awaits the end of its start.
LEMMA HelperSays ==
    ASSUME HelperAssumption, Typed, Unstopped, Untoggled, Starting, Microphone, Going, HelperNext,
           ~ ReportRecovering, ~ ReportRecovered
    PROVE  \E r : /\ Wrote(r) /\ \A k \in DOMAIN r : ~ IsRec(r[k])
                  /\ Calm => NoStops(r)
                  /\ \A k \in DOMAIN r : r[k].type = "started" => loop = "awaiting"
<1>1. Unforced /\ (Calm => ~ RejectCommand) /\ Alive
  BY GoingSteps, HelperAlive
<1>2. ~ AnnounceStopped
  BY DEF Unstopped, AnnounceStopped
<1>3. CASE Command
  <2>1. ASSUME NEW r, Wrote(r), Dull(r), NoStops(r) \/ AnnounceStopped \/ RejectCommand
        PROVE  /\ Wrote(r) /\ \A k \in DOMAIN r : ~ IsRec(r[k])
               /\ Calm => NoStops(r)
               /\ \A k \in DOMAIN r : r[k].type = "started" => loop = "awaiting"
    BY <1>1, <1>2, <2>1 DEF Dull
  <2>2. CASE Announce /\ Wrote(<<Event("started", Head(task.todo), 0)>>)
    <3> DEFINE r == <<Event("started", Head(task.todo), 0)>>
    <3>1. DOMAIN r = {1} /\ r[1].type = "started" /\ loop = "awaiting"
      BY <1>1, <2>2 DEF Event, Announce, Starting
    <3>2. Wrote(r)
      BY <2>2
    <3> HIDE DEF r
    <3> QED BY <3>1, <3>2 DEF IsRec, NoStops
  <2> QED BY <1>3, <2>1, <2>2, CommandWrites DEF Typed
<1>4. CASE RecoveryStep \/ World
  <2>1. \E r : Wrote(r) /\ Dull(r) /\ NoStops(r)
    BY <1>4, WorldWrites DEF Typed
  <2> QED BY <2>1 DEF Dull
<1> QED BY <1>3, <1>4 DEF HelperNext

LEMMA HelperQuiet ==
    ASSUME HelperAssumption, Typed, Unstopped, Untoggled, StartedFirst, Microphone, Starting, Fresh, InTurn,
           Going, HelperNext, UNCHANGED appVars, ~ ReportRecovering, ~ ReportRecovered
    PROVE  Untoggled' /\ StartedFirst' /\ Fresh' /\ InTurn'
<1>1. Unforced /\ Alive /\ Going'
  BY GoingSteps, HelperAlive DEF Going, appVars
<1>2. PICK r : /\ Wrote(r) /\ \A k \in DOMAIN r : ~ IsRec(r[k])
               /\ Calm => NoStops(r)
               /\ \A k \in DOMAIN r : r[k].type = "started" => loop = "awaiting"
  BY HelperSays
<1> DEFINE n == Len(evts)
           m == Len(r)
<1>3. /\ m \in Nat /\ DOMAIN r = 1 .. m
      /\ n \in Nat /\ DOMAIN evts' = 1 .. n + m
      /\ \A i \in 1 .. n : evts'[i] = evts[i]
      /\ \A i \in n + 1 .. n + m : i - n \in DOMAIN r /\ evts'[i] = r[i - n]
  BY <1>2, LineExtends
<1>4. /\ DOMAIN Line' = 1 .. (n + 1) + m
      /\ \A i \in 1 .. n + 1 : Line'[i] = Line[i]
      /\ \A i \in (n + 1) + 1 .. (n + 1) + m : i - (n + 1) \in DOMAIN r /\ Line'[i] = r[i - (n + 1)]
  BY <1>2, LineExtends
<1>5. DOMAIN evts = 1 .. n /\ DOMAIN Line = 1 .. n + 1
  BY LineShape
<1> HIDE DEF n, m
<1>6. \A i \in DOMAIN evts' : (i \in DOMAIN evts /\ evts'[i] = evts[i])
                               \/ (i \notin DOMAIN evts /\ \E k \in DOMAIN r : evts'[i] = r[k])
  <2> TAKE i \in DOMAIN evts'
  <2>1. i \in 1 .. n \/ i \in n + 1 .. n + m
    BY <1>3
  <2>2. i \in n + 1 .. n + m => i \notin 1 .. n
    BY <1>3
  <2> QED BY <1>3, <1>5, <2>1, <2>2
<1>7. \A i \in DOMAIN evts' : IsRec(evts'[i]) => i \in DOMAIN evts /\ evts'[i] = evts[i]
  BY <1>2, <1>6
<1>8. Untoggled'
  <2> SUFFICES ASSUME Calm
               PROVE  /\ \A k \in DOMAIN cmds' : cmds'[k] = "start"
                      /\ \A k \in DOMAIN evts' : evts'[k].type # "stopped"
                      /\ worker = "running" /\ Mic \in Requested => state[Mic] \in {"Running", "Recovering"}
    BY DEF Untoggled, Going, Calm, appVars
  <2>1. /\ \A k \in DOMAIN cmds : cmds[k] = "start"
        /\ \A k \in DOMAIN evts : evts[k].type # "stopped"
        /\ worker = "running" /\ Mic \in Requested => state[Mic] \in {"Running", "Recovering"}
    BY DEF Untoggled
  <2>2. \A k \in DOMAIN evts' : evts'[k].type # "stopped"
    BY <1>2, <1>6, <2>1 DEF NoStops
  <2>3. \A k \in DOMAIN cmds' : cmds'[k] = "start"
    <3>1. CASE UNCHANGED cmds
      BY <2>1, <3>1
    <3>2. CASE cmds # <<>> /\ cmds' = Tail(cmds)
      <4>1. \A k \in DOMAIN Tail(cmds) : k + 1 \in DOMAIN cmds /\ Tail(cmds)[k] = cmds[k + 1]
        BY <3>2 DEF Typed, ControlTyped
      <4> QED BY <2>1, <3>2, <4>1
    <3> QED BY <3>1, <3>2, HelperReads
  <2> QED BY <2>1, <2>2, <2>3
<1>9. StartedFirst'
  <2> SUFFICES ASSUME NEW j \in DOMAIN evts', evts'[j].type = "started", evts'[j].source = Mic
               PROVE  ~ AppRecovering /\ \A i \in 1 .. j - 1 : ~ IsRec(evts'[i])
    BY DEF StartedFirst, AppRecovering, appVars
  <2>1. \A i \in 1 .. j - 1 : i \in DOMAIN evts'
    BY <1>3
  <2>2. CASE j \in DOMAIN evts /\ evts'[j] = evts[j]
    <3>1. ~ AppRecovering /\ \A i \in 1 .. j - 1 : ~ IsRec(evts[i])
      BY <2>2 DEF StartedFirst
    <3> QED BY <1>7, <2>1, <3>1
  <2>3. CASE \E k \in DOMAIN r : evts'[j] = r[k]
    <3>1. loop = "awaiting"
      BY <1>2, <2>3
    <3>2. ~ AppRecovering /\ \A i \in DOMAIN evts : ~ IsRec(evts[i])
      BY <1>1, <3>1 DEF Fresh
    <3> QED BY <1>7, <2>1, <3>2
  <2> QED BY <1>6, <2>2, <2>3
<1>10. Fresh'
  <2> SUFFICES ASSUME loop' = "awaiting"
               PROVE  ~ AppRecovering /\ lastGen = 0 /\ \A i \in DOMAIN evts' : ~ IsRec(evts'[i])
    BY DEF Fresh, AppRecovering, appVars
  <2>1. ~ AppRecovering /\ lastGen = 0 /\ \A i \in DOMAIN evts : ~ IsRec(evts[i])
    BY <1>1, HelperReads DEF Fresh
  <2> QED BY <1>7, <2>1
<1>11. InTurn'
  <2>1. Alternates(Line) /\ \A i \in DOMAIN Line : LastRec(Line, i) => Fits(Line[i])
    BY <1>1 DEF InTurn
  <2>2. \A i \in (n + 1) + 1 .. (n + 1) + m : ~ IsRec(Line'[i])
    BY <1>2, <1>4
  <2>3. Extended(Line, Line', n + 1, m)
    BY <1>3, <1>4, <1>5, <2>2 DEF Extended
  <2> DEFINE q == Line
             x == Line'
  <2> HIDE DEF q, x
  <2>4. Alternates(x) /\ \A i \in DOMAIN x : LastRec(x, i) => LastRec(q, i) /\ x[i] = q[i]
    BY <2>1, <2>3, LineStays DEF q, x
  <2>5. Alternates(Line')
    BY <2>4 DEF x
  <2>6. \A i \in DOMAIN Line' : LastRec(Line', i) => LastRec(Line, i) /\ Line'[i] = Line[i]
    BY <2>4 DEF x, q
  <2>7. ASSUME Alive', NEW i \in DOMAIN Line', LastRec(Line', i) PROVE Suits(rec', mic', Line'[i])
    <3>1. LastRec(Line, i) /\ Line'[i] = Line[i] /\ i \in DOMAIN Line
      BY <2>6, <2>7 DEF LastRec
    <3>2. Fits(Line[i])
      BY <2>1, <3>1
    <3>3. Suits(rec', mic', Line[i])
      BY <1>1, <2>7, <3>1, <3>2, StillFits
    <3> QED BY <3>1, <3>3
  <2>8. (Alternates(Line))' /\ \A i \in DOMAIN Line' : (LastRec(Line, i))' => LastRec(Line', i)
    BY <2>5 DEF Alternates, LastRec, Apart
  <2> QED BY <2>7, <2>8 DEF InTurn, Fits
<1> QED BY <1>8, <1>9, <1>10, <1>11

\* A report of the recovery that follows the last one, and says how far the attempt is.
LEMMA HelperReports ==
    ASSUME Typed, Unstopped, Untoggled, StartedFirst, Microphone, Starting, Fresh, InTurn,
           Going, Alive, UNCHANGED appVars, UNCHANGED <<cmds, loop>>, Attempting,
           NEW e, Wrote(<<e>>), IsRec(e), \A i \in DOMAIN Line : LastRec(Line, i) => Follows(Line[i], e),
           Suits(rec', mic', e)
    PROVE  Untoggled' /\ StartedFirst' /\ Fresh' /\ InTurn'
<1> DEFINE n == Len(evts)
           r == <<e>>
<1>1. DOMAIN r = {1} /\ r[1] = e /\ Len(r) = 1
  OBVIOUS
<1>2. /\ n \in Nat /\ Len(r) = 1 /\ DOMAIN evts' = 1 .. n + Len(r)
      /\ \A i \in 1 .. n : evts'[i] = evts[i]
      /\ \A i \in n + 1 .. n + Len(r) : i - n \in DOMAIN r /\ evts'[i] = r[i - n]
      /\ DOMAIN Line' = 1 .. (n + 1) + Len(r)
      /\ \A i \in 1 .. n + 1 : Line'[i] = Line[i]
      /\ \A i \in (n + 1) + 1 .. (n + 1) + Len(r) : i - (n + 1) \in DOMAIN r /\ Line'[i] = r[i - (n + 1)]
  <2> HIDE DEF r
  <2>1. Wrote(r)
    BY DEF r
  <2> QED BY <1>1, <2>1, LineExtends
<1>3. DOMAIN evts = 1 .. n /\ DOMAIN Line = 1 .. n + 1
  BY LineShape
<1>4. evts'[n + 1] = e /\ Line'[n + 2] = e
  <2>1. n + 1 \in n + 1 .. n + 1 /\ n + 2 \in (n + 1) + 1 .. (n + 1) + 1 /\ (n + 1) - n = 1 /\ (n + 2) - (n + 1) = 1
    BY <1>2
  <2> HIDE DEF r, n
  <2> QED BY <1>1, <1>2, <2>1
<1> HIDE DEF n, r
<1>5. \A i \in DOMAIN evts' : (i \in DOMAIN evts /\ evts'[i] = evts[i]) \/ (i = n + 1 /\ evts'[i] = e)
  BY <1>2, <1>3, <1>4
<1>6. e.type \notin {"started", "stopped"}
  BY DEF IsRec
<1>7. Untoggled'
  BY <1>5, <1>6 DEF Untoggled, Going, Calm, appVars
<1>8. StartedFirst'
  <2> SUFFICES ASSUME NEW j \in DOMAIN evts', evts'[j].type = "started", evts'[j].source = Mic
               PROVE  ~ AppRecovering /\ \A i \in 1 .. j - 1 : ~ IsRec(evts'[i])
    BY DEF StartedFirst, AppRecovering, appVars
  <2>1. j \in DOMAIN evts /\ evts'[j] = evts[j]
    BY <1>5, <1>6
  <2>2. ~ AppRecovering /\ \A i \in 1 .. j - 1 : ~ IsRec(evts[i])
    BY <2>1 DEF StartedFirst
  <2>3. \A i \in 1 .. j - 1 : evts'[i] = evts[i]
    BY <1>2, <1>3, <2>1
  <2> QED BY <2>2, <2>3
<1>9. Fresh'
  BY DEF Fresh, Starting
<1>10. InTurn'
  <2>1. Alternates(Line)
    BY DEF InTurn
  <2>2. Continued(Line, Line', n + 1)
    <3>1. (n + 1) + 1 = n + 2
      BY <1>2
    <3> QED BY <1>2, <1>3, <1>4, <3>1 DEF Continued
  <2> DEFINE q == Line
             x == Line'
  <2> HIDE DEF q, x
  <2>3. Alternates(x) /\ \A i \in DOMAIN x : LastRec(x, i) => i = (n + 1) + 1
    BY <2>1, <2>2, LineGrows DEF q, x
  <2>4. Alternates(Line') /\ \A i \in DOMAIN Line' : LastRec(Line', i) => i = n + 2
    <3>1. (n + 1) + 1 = n + 2
      BY <1>2
    <3> QED BY <2>3, <3>1 DEF x
  <2>5. ASSUME NEW i \in DOMAIN Line', LastRec(Line', i) PROVE Suits(rec', mic', Line'[i])
    BY <1>4, <2>4, <2>5
  <2>6. (Alternates(Line))' /\ \A i \in DOMAIN Line' : (LastRec(Line, i))' => LastRec(Line', i)
    BY <2>4 DEF Alternates, LastRec, Apart
  <2> QED BY <2>5, <2>6 DEF InTurn, Fits
<1> QED BY <1>7, <1>8, <1>9, <1>10

\* Every step of the helper keeps the recovery in turn.
LEMMA RecoveryHelper ==
    ASSUME HelperAssumption, Typed, RecoveryInv, Helper
    PROVE  RecoveryInv'
<1>1. HelperNext /\ UNCHANGED appVars
  BY DEF Helper
<1>2. Unstopped /\ Untoggled /\ StartedFirst /\ Microphone /\ Starting /\ Fresh /\ InTurn /\ Blamed
  BY DEF RecoveryInv
<1>3. Blamed'
  BY <1>1, <1>2 DEF Blamed, RecoveryIsAccepted, AppRecovering, committer, appVars
<1>4. Unstopped'
  <2>1. CASE Going
    BY <1>1, <1>2, <2>1, HelperUnstopped
  <2>2. CASE ~ Going
    BY <1>1, <2>2 DEF Unstopped, Going, appVars
  <2> QED BY <2>1, <2>2
<1>5. Microphone' /\ Starting'
  BY <1>1, <1>2, HelperMicrophone
<1>6. Untoggled' /\ StartedFirst' /\ Fresh' /\ InTurn'
  <2>1. CASE ~ Going
    BY <1>1, <2>1 DEF Untoggled, StartedFirst, Fresh, InTurn, Going, appVars
  <2>2. CASE Going /\ ~ ReportRecovering /\ ~ ReportRecovered
    BY <1>1, <1>2, <2>2, HelperQuiet
  <2>3. CASE Going /\ (ReportRecovering \/ ReportRecovered)
    <3> DEFINE e == IF rec.stage = "signal" THEN Event("recovering", Mic, rec.mine) ELSE Event("recovered", Mic, rec.mine)
    <3>1. Alive /\ Attempting /\ UNCHANGED <<cmds, loop, mic, sealed>> /\ rec \in Attempts
      BY <2>3 DEF ReportRecovering, ReportRecovered, Attempting, Typed, AudioTyped
    <3>2. Mic \in enabled /\ Mic \in Requested /\ rec.mine \in Nat
      BY <1>2, <2>3, <3>1 DEF Microphone, Typed, ControlTyped, Attempts
    <3>3. evts' = Append(evts, e)
      BY <2>3, <3>2 DEF ReportRecovering, ReportRecovered
    <3>4. e \in HelperEvent /\ IsRec(e) /\ e.type \notin {"sealed", "stopped"}
      BY <3>2 DEF HelperEvent, Event, IsRec, Types, Source, Mic
    <3>5. ASSUME NEW i \in DOMAIN Line, LastRec(Line, i) PROVE Follows(Line[i], e)
      <4>1. Fits(Line[i])
        BY <1>2, <2>3, <3>1, <3>5 DEF InTurn
      <4> QED BY <2>3, <4>1 DEF Fits, Suits, Follows, Event, ReportRecovering, ReportRecovered
    <3>6. Suits(rec', mic', e)
      <4>1. CASE ReportRecovering
        <5>1. rec.stage = "signal" /\ rec'.stage = "teardown" /\ rec'.mine = rec.mine
          BY <3>1, <4>1 DEF ReportRecovering, Recovery, Attempts
        <5>2. e.type = "recovering" /\ e.n = rec.mine
          BY <5>1 DEF Event
        <5> HIDE DEF e
        <5> QED BY <5>1, <5>2 DEF Suits
      <4>2. CASE ReportRecovered
        <5>1. rec.stage = "report" /\ rec'.stage = "none" /\ rec'.gen = rec.gen
          BY <3>1, <4>2 DEF ReportRecovered, Finished, Attempts
        <5>2. e.type = "recovered" /\ e.n = rec.mine
          BY <5>1 DEF Event
        <5>3. mic.running => rec.gen = rec.mine
          BY <1>2, <2>3, <3>1, <5>1 DEF Microphone, Current
        <5> HIDE DEF e
        <5> QED BY <3>1, <3>2, <5>1, <5>2, <5>3 DEF Suits
      <4> QED BY <2>3, <4>1, <4>2
    <3> HIDE DEF e
    <3>7. Wrote(<<e>>)
      BY <3>1, <3>3, <3>4, WroteOne DEF Typed
    <3> QED BY <1>1, <1>2, <2>3, <3>1, <3>4, <3>5, <3>6, <3>7, HelperReports
  <2> QED BY <2>1, <2>2, <2>3
<1> QED BY <1>3, <1>4, <1>5, <1>6 DEF RecoveryInv

\* The steps of the caller that leave the worker alone.
LEMMA RecoverySame ==
    ASSUME RecoveryInv, UNCHANGED helperVars, UNCHANGED <<worker, lastError, phase, state, lastGen, flags, announced>>
    PROVE  RecoveryInv'
<1>1. Unstopped' /\ Untoggled' /\ StartedFirst' /\ Microphone' /\ Starting'
  BY DEF RecoveryInv, helperVars, Unstopped, Untoggled, StartedFirst, Microphone, Starting, Going, Calm, AppRecovering,
         Alive, Attempting, Current
<1>2. Fresh' /\ Blamed'
  BY DEF RecoveryInv, helperVars, Fresh, Blamed, RecoveryIsAccepted, Going, AppRecovering, Alive, committer
<1>3. Line' = Line
  BY DEF Line, Told, AppRecovering, Calm, helperVars
<1>4. InTurn'
  BY <1>3 DEF RecoveryInv, helperVars, InTurn, Going, Alive, Alternates, Apart, LastRec, Fits
<1> QED BY <1>1, <1>2, <1>4 DEF RecoveryInv

\* Once a stop was accepted only the error matters.
LEMMA RecoveryAfterStop ==
    ASSUME RecoveryInv, worker = "running", Keep, flags'.stop
    PROVE  RecoveryInv'
<1>1. ~ Going' /\ worker' = "running" /\ lastError' = lastError /\ lastError = "none"
  BY DEF Going, Keep, RecoveryInv, Blamed
<1>2. Blamed'
  BY <1>1 DEF Blamed, RecoveryIsAccepted
<1> QED BY <1>1, <1>2 DEF RecoveryInv, Unstopped, Untoggled, StartedFirst, Microphone, Starting, Fresh, InTurn

LEMMA RecoveryExits ==
    ASSUME NEW error, Exit(error), error = "protocol" => flags'.toggles > 0 \/ flags'.stop \/ ~ committer'
    PROVE  RecoveryInv'
<1>1. ~ Going' /\ worker' = "exited" /\ lastError' = error
  BY DEF Going, Exit
<1>2. Blamed'
  BY <1>1 DEF Blamed, RecoveryIsAccepted
<1> QED BY <1>1, <1>2 DEF RecoveryInv, Unstopped, Untoggled, StartedFirst, Microphone, Starting, Fresh, InTurn

LEMMA RecoveryStart ==
    ASSUME HelperAssumption, Typed, RecoveryInv, CallStart
    PROVE  RecoveryInv'
<1>1. Unstopped /\ Untoggled /\ StartedFirst /\ Microphone /\ Starting /\ Fresh /\ InTurn /\ Blamed
  BY DEF RecoveryInv
<1>2. /\ worker = "none" /\ worker' = "running" /\ phase' = "Running" /\ cmds' = Append(cmds, "start")
      /\ state' = [s \in Requested |-> "Running"]
      /\ UNCHANGED <<evts, loop, task, enabled, mic, rec, lastError, lastGen, announced, flags>>
  BY DEF CallStart
<1>3. ~ AppRecovering /\ ~ AppRecovering' /\ (Mic \in Requested => state'[Mic] = "Running")
  BY <1>1, <1>2 DEF Blamed, AppRecovering
<1>4. Going' => Going
  BY <1>2 DEF Going
<1>5. \A k \in DOMAIN cmds' : cmds'[k] = "start" \/ (k \in DOMAIN cmds /\ cmds'[k] = cmds[k])
  BY <1>2 DEF Typed, ControlTyped
<1>6. Unstopped'
  BY <1>1, <1>2, <1>4, <1>5 DEF Unstopped
<1>7. Untoggled'
  BY <1>1, <1>2, <1>3, <1>4, <1>5 DEF Untoggled, Calm
<1>8. StartedFirst' /\ Fresh'
  BY <1>1, <1>2, <1>3, <1>4 DEF StartedFirst, Fresh, Alive
<1>9. Microphone' /\ Starting'
  BY <1>1, <1>2, <1>4 DEF Microphone, Starting, Alive, Attempting, Current
<1>10. Line' = Line
  BY <1>2, <1>3 DEF Line, Told, Calm
<1>11. InTurn'
  BY <1>1, <1>2, <1>4, <1>10 DEF InTurn, Alive, Alternates, Apart, LastRec, Fits
<1>12. Blamed'
  BY <1>1, <1>2 DEF Blamed, RecoveryIsAccepted
<1> QED BY <1>6, <1>7, <1>8, <1>9, <1>11, <1>12 DEF RecoveryInv

\* A control message: a pause or a resume makes the session forget what it heard.
LEMMA RecoveryServe ==
    ASSUME HelperAssumption, Typed, RecoveryInv, Serve
    PROVE  RecoveryInv'
<1>1. Unstopped /\ Untoggled /\ StartedFirst /\ Microphone /\ Starting /\ Fresh /\ InTurn /\ Blamed
  BY DEF RecoveryInv
<1>2. /\ worker = "running" /\ worker' = "running" /\ lastError' = lastError /\ control \in {"pause", "resume", "stop"} /\ Keep
      /\ UNCHANGED <<evts, loop, task, enabled, mic, rec, lastGen, announced>>
  BY DEF Serve, Keep, KeepHelper, Typed, AppTyped
<1>3. flags \in [stop : BOOLEAN, shutdown : BOOLEAN, toggles : Nat]
  BY DEF Typed, AppTyped
<1>4. CASE ~ (Accepts(control) /\ Alive)
  <2>1. phase' \in {phase, "Failed"} /\ UNCHANGED <<cmds, state, flags>>
    BY <1>4 DEF Serve
  <2>2. Unstopped'
    BY <1>1, <1>2, <2>1 DEF Unstopped, Going
  <2>3. Untoggled' /\ StartedFirst' /\ Microphone' /\ Starting' /\ Fresh'
    BY <1>1, <1>2, <2>1 DEF Untoggled, StartedFirst, Microphone, Starting, Fresh, Going, Calm, AppRecovering,
       Alive, Attempting, Current
  <2>4. Line' = Line
    BY <1>2, <2>1 DEF Line, Told, AppRecovering, Calm
  <2>5. InTurn'
    BY <1>1, <1>2, <2>1, <2>4 DEF InTurn, Going, Alive, Alternates, Apart, LastRec, Fits
  <2>6. Blamed'
    BY <1>1, <1>2, <2>1 DEF Blamed, RecoveryIsAccepted, committer
  <2> QED BY <2>2, <2>3, <2>5, <2>6 DEF RecoveryInv
<1>5. CASE Accepts(control) /\ Alive /\ control = "stop"
  <2>1. flags'.stop = TRUE
    BY <1>3, <1>5 DEF Serve
  <2> QED BY <1>2, <2>1, RecoveryAfterStop
<1>6. CASE Accepts(control) /\ Alive /\ control \in {"pause", "resume"}
  <2>1. /\ cmds' = Append(cmds, control) /\ phase' \in {"Paused", "Running"}
        /\ \A s \in Requested : state'[s] \in {"Paused", "Running"}
        /\ flags'.stop = flags.stop /\ flags'.toggles = flags.toggles + 1
    BY <1>3, <1>6 DEF Serve, SetAll
  <2>2. ~ AppRecovering' /\ ~ Calm' /\ (Going' => Going)
    <3>1. flags.toggles \in Nat
      BY <1>3
    <3>2. ~ Calm'
      BY <2>1, <3>1 DEF Calm
    <3>3. ~ AppRecovering'
      BY <2>1 DEF AppRecovering
    <3>4. Going' => Going
      BY <1>2, <2>1 DEF Going
    <3> QED BY <3>2, <3>3, <3>4
  <2>3. \A k \in DOMAIN cmds' : cmds'[k] = control \/ (k \in DOMAIN cmds /\ cmds'[k] = cmds[k])
    BY <2>1 DEF Typed, ControlTyped
  <2>4. Unstopped'
    BY <1>1, <1>2, <1>6, <2>1, <2>2, <2>3 DEF Unstopped
  <2>5. Untoggled' /\ StartedFirst' /\ Fresh'
    BY <1>1, <1>2, <2>2 DEF Untoggled, StartedFirst, Fresh, Alive
  <2>6. Microphone' /\ Starting'
    BY <1>1, <1>2, <2>2 DEF Microphone, Starting, Alive, Attempting, Current
  <2>7. InTurn'
    <3> SUFFICES ASSUME Going' PROVE InTurn'
      BY DEF InTurn
    <3> DEFINE q == Line
               x == Line'
    <3>1. Renamed(Line, Line', Len(evts) + 1)
      <4>1. Line' = [i \in 1 .. Len(evts) + 1 |-> IF i = 1 THEN Told' ELSE evts[i - 1]]
        BY <1>2 DEF Line
      <4>2. ~ IsRec(Told')
        BY <2>2 DEF Told, Event, IsRec
      <4> QED BY <4>1, <4>2, LineShape DEF Renamed
    <3>2. Alternates(Line) /\ \A i \in DOMAIN Line : Alive /\ LastRec(Line, i) => Fits(Line[i])
      BY <1>1, <2>2 DEF InTurn
    <3> HIDE DEF q, x
    <3>3. Alternates(x) /\ \A i \in DOMAIN x : LastRec(x, i) => LastRec(q, i) /\ x[i] = q[i]
      BY <3>1, <3>2, LineForgets DEF q, x
    <3>4. Alternates(Line') /\ \A i \in DOMAIN Line' : LastRec(Line', i) => LastRec(Line, i) /\ Line'[i] = Line[i]
      BY <3>3 DEF q, x
    <3>5. ASSUME Alive', NEW i \in DOMAIN Line', LastRec(Line', i) PROVE Suits(rec', mic', Line'[i])
      <4>1. LastRec(Line, i) /\ Line'[i] = Line[i] /\ i \in DOMAIN Line /\ Alive
        BY <1>2, <3>4, <3>5 DEF LastRec, Alive
      <4>2. Suits(rec, mic, Line[i])
        BY <3>2, <4>1 DEF Fits
      <4> QED BY <1>2, <4>1, <4>2
    <3>6. (Alternates(Line))' /\ \A i \in DOMAIN Line' : (LastRec(Line, i))' => LastRec(Line', i)
      BY <3>4 DEF Alternates, LastRec, Apart
    <3> QED BY <3>5, <3>6 DEF InTurn, Fits
  <2>8. Blamed'
    BY <1>1, <1>2 DEF Blamed, RecoveryIsAccepted
  <2> QED BY <2>4, <2>5, <2>6, <2>7, <2>8 DEF RecoveryInv
<1> QED BY <1>2, <1>4, <1>5, <1>6

LEMMA RecoveryCaller ==
    ASSUME HelperAssumption, Typed, RecoveryInv, Caller
    PROVE  RecoveryInv'
<1>1. CASE StartReturns \/ CallFails \/ StopReturns
  BY <1>1, RecoverySame DEF StartReturns, CallFails, StopReturns
<1>2. ASSUME NEW op \in {"pause", "resume", "stop"}, Call(op) PROVE RecoveryInv'
  BY <1>2, RecoverySame DEF Call
<1> QED BY <1>1, <1>2, RecoveryStart DEF Caller

\* An event that the session handles and goes on.
LEMMA RecoveryHears ==
    ASSUME HelperAssumption, Typed, RecoveryInv, Going, worker = "running", evts # <<>>, Quiet, evts' = Tail(evts),
           UNCHANGED <<cmds, phase, flags>>,
           Calm /\ Mic \in Requested => state'[Mic] \in {"Running", "Recovering"},
           AppRecovering' => AppRecovering \/ IsRec(Head(evts)),
           AppRecovering' => ~ (Head(evts).type = "started" /\ Head(evts).source = Mic),
           lastGen' = lastGen \/ IsRec(Head(evts)),
           Told' = Head(evts) \/ ~ IsRec(Told') \/ (~ IsRec(Head(evts)) /\ Told' = Told)
    PROVE  RecoveryInv'
<1> DEFINE n == Len(evts)
<1>1. Unstopped /\ Untoggled /\ StartedFirst /\ Microphone /\ Starting /\ Fresh /\ InTurn /\ Blamed
  BY DEF RecoveryInv
<1>2. /\ worker' = "running" /\ lastError' = lastError /\ Going' /\ (Calm' <=> Calm)
      /\ UNCHANGED <<loop, task, enabled, mic, rec>>
  BY DEF Quiet, Keep, KeepHelper, Going, Calm
<1>3. /\ n \in Nat /\ n > 0 /\ DOMAIN evts = 1 .. n /\ Len(evts') = n - 1 /\ DOMAIN evts' = 1 .. n - 1
      /\ \A i \in 1 .. n - 1 : i + 1 \in DOMAIN evts /\ evts'[i] = evts[i + 1]
      /\ Head(evts) = evts[1] /\ 1 \in DOMAIN evts
  BY DEF Typed, WireTyped
<1> HIDE DEF n
<1>4. Unstopped' /\ Microphone' /\ Starting'
  BY <1>1, <1>2 DEF Unstopped, Microphone, Starting, Alive, Attempting, Current
<1>5. Untoggled'
  BY <1>1, <1>2, <1>3 DEF Untoggled
<1>6. StartedFirst'
  <2> SUFFICES ASSUME NEW j \in DOMAIN evts', evts'[j].type = "started", evts'[j].source = Mic
               PROVE  ~ AppRecovering' /\ \A i \in 1 .. j - 1 : ~ IsRec(evts'[i])
    BY DEF StartedFirst
  <2>1. j + 1 \in DOMAIN evts /\ evts[j + 1] = evts'[j]
    BY <1>3
  <2>2. ~ AppRecovering /\ \A i \in 1 .. (j + 1) - 1 : ~ IsRec(evts[i])
    BY <1>1, <2>1 DEF StartedFirst
  <2>3. ~ IsRec(Head(evts))
    BY <1>3, <2>2
  <2>4. \A i \in 1 .. j - 1 : i + 1 \in 1 .. (j + 1) - 1 /\ evts'[i] = evts[i + 1]
    BY <1>3
  <2> QED BY <2>2, <2>3, <2>4
<1>7. Fresh'
  <2> SUFFICES ASSUME Alive, loop = "awaiting"
               PROVE  ~ AppRecovering' /\ lastGen' = 0 /\ \A i \in DOMAIN evts' : ~ IsRec(evts'[i])
    BY <1>2 DEF Fresh, Alive
  <2>1. ~ AppRecovering /\ lastGen = 0 /\ \A i \in DOMAIN evts : ~ IsRec(evts[i])
    BY <1>1 DEF Fresh
  <2> QED BY <1>3, <2>1
<1>8. Shifted(Line, Line', n)
  <2>1. Line' = [i \in 1 .. n |-> IF i = 1 THEN Told' ELSE evts'[i - 1]]
    <3>1. Len(evts') + 1 = n
      BY <1>3
    <3> QED BY <3>1 DEF Line
  <2>2. Line = [i \in 1 .. n + 1 |-> IF i = 1 THEN Told ELSE evts[i - 1]]
    BY DEF Line, n
  <2>3. \A i \in 2 .. n : Line'[i] = Line[i + 1]
    <3> TAKE i \in 2 .. n
    <3>1. i - 1 \in 1 .. n - 1 /\ i \in 1 .. n /\ i + 1 \in 1 .. n + 1 /\ (i + 1) - 1 = (i - 1) + 1 /\ i # 1 /\ i + 1 # 1
      BY <1>3
    <3>2. evts'[i - 1] = evts[(i - 1) + 1]
      BY <1>3, <3>1
    <3> QED BY <2>1, <2>2, <3>1, <3>2
  <2>4. Line'[1] = Told' /\ Line[1] = Told /\ Line[2] = Head(evts)
    BY <1>3, <2>1, <2>2
  <2>5. DOMAIN Line' = 1 .. n /\ DOMAIN Line = 1 .. n + 1
    BY <2>1, <2>2
  <2> QED BY <1>3, <2>3, <2>4, <2>5 DEF Shifted
<1>9. InTurn'
  <2>1. Alternates(Line) /\ (Alive => \A i \in DOMAIN Line : LastRec(Line, i) => Fits(Line[i]))
    BY <1>1 DEF InTurn
  <2> DEFINE q == Line
             x == Line'
  <2> HIDE DEF q, x
  <2>2. Alternates(x) /\ \A i \in DOMAIN x : LastRec(x, i) => \E j \in DOMAIN q : LastRec(q, j) /\ q[j] = x[i]
    BY <1>8, <2>1, LineHears DEF q, x
  <2>3. Alternates(Line') /\ \A i \in DOMAIN Line' : LastRec(Line', i) => \E j \in DOMAIN Line : LastRec(Line, j) /\ Line[j] = Line'[i]
    BY <2>2 DEF q, x
  <2>4. ASSUME Alive', NEW i \in DOMAIN Line', LastRec(Line', i) PROVE Suits(rec', mic', Line'[i])
    <3>1. Alive
      BY <1>2, <2>4 DEF Alive
    <3>2. PICK j \in DOMAIN Line : LastRec(Line, j) /\ Line[j] = Line'[i]
      BY <2>3, <2>4
    <3>3. Suits(rec, mic, Line[j])
      BY <2>1, <3>1, <3>2 DEF Fits
    <3> QED BY <1>2, <3>2, <3>3
  <2>5. (Alternates(Line))' /\ \A i \in DOMAIN Line' : (LastRec(Line, i))' => LastRec(Line', i)
    BY <2>3 DEF Alternates, LastRec, Apart
  <2> QED BY <2>4, <2>5 DEF InTurn, Fits
<1>10. Blamed'
  BY <1>1, <1>2 DEF Blamed, RecoveryIsAccepted
<1> QED BY <1>4, <1>5, <1>6, <1>7, <1>9, <1>10 DEF RecoveryInv

\* What the session hears first of a recovery follows what it knows of the last one.
LEMMA HeardFollows ==
    ASSUME Typed, RecoveryInv, Going, Calm, evts # <<>>, IsRec(Head(evts))
    PROVE  Follows(Told, Head(evts))
<1>1. Head(evts) = evts[1] /\ 1 \in DOMAIN evts /\ Len(evts) > 0 /\ Len(evts) \in Nat
  BY DEF Typed, WireTyped
<1>2. Mic \in Requested
  <2>1. Head(evts).source = Mic
    BY HeardEvent DEF HelperEvent
  <2> QED BY <2>1, HeardEvent
<1>3. 1 \in DOMAIN Line /\ 2 \in DOMAIN Line /\ Line[1] = Told /\ Line[2] = Head(evts)
  <2>1. 2 \in 2 .. Len(evts) + 1 /\ 2 - 1 = 1 /\ 1 \in 1 .. Len(evts) + 1
    BY <1>1
  <2> QED BY <1>1, <2>1, LineShape
<1>4. IsRec(Told)
  BY <1>2 DEF Told, Event, IsRec
<1>5. Apart(Line, 1, 2)
  BY LineShape DEF Apart
<1>6. Alternates(Line)
  BY DEF RecoveryInv, InTurn
<1> QED BY <1>3, <1>4, <1>5, <1>6 DEF Alternates

LEMMA RecoveryEvent ==
    ASSUME HelperAssumption, Typed, RecoveryInv, PollEvent
    PROVE  RecoveryInv'
<1> DEFINE e == Head(evts)
<1>1. /\ worker = "running" /\ phase \in Handled /\ evts # <<>> /\ (worker' = "running" => evts' = Tail(evts))
      /\ Unstopped /\ Untoggled /\ StartedFirst
  BY DEF PollEvent, RecoveryInv
<1>2. e \in HelperEvent /\ e.source \in Source /\ e.n \in Nat
      /\ (IsRec(e) \/ e.type \in {"started", "stopped"} => e.source \in Requested)
  BY <1>1, HeardEvent
<1>3. \/ e.type = "started" /\ OnStarted(e)
      \/ e.type = "sealed" /\ OnSealed(e)
      \/ e.type = "stopped" /\ OnStopped(e)
      \/ e.type = "interrupted" /\ OnInterrupted(e)
      \/ e.type = "recovering" /\ OnRecovering(e)
      \/ e.type = "recovered" /\ OnRecovered(e)
      \/ e.type = "fatal" /\ Fail("fatal")
      \/ e.type = "ack" /\ OnAck
  BY EventKinds
<1>4. IsRec(e) => e = Event(e.type, Mic, e.n) /\ Mic \in Requested
  BY <1>2 DEF HelperEvent, Event, IsRec
<1>5. ASSUME NEW error, Fail(error), error # "protocol" PROVE RecoveryInv'
  BY <1>5, RecoveryExits DEF Fail
<1>6. Going <=> ~ flags.stop
  BY <1>1 DEF Going
<1>7. ASSUME flags.stop, Quiet, flags'.stop = flags.stop PROVE RecoveryInv'
  BY <1>1, <1>7, RecoveryAfterStop DEF Quiet
<1>8. FinishIfStopped => flags'.stop = flags.stop /\ (Going => UNCHANGED <<cmds, phase, flags>>)
  BY <1>1 DEF FinishIfStopped, Unstopped, Typed, AppTyped
<1>9. ASSUME Quiet, Going, UNCHANGED <<cmds, phase, flags, state, lastGen>>, ~ IsRec(e), e.type # "started" PROVE RecoveryInv'
  <2>1. evts' = Tail(evts)
    BY <1>1, <1>9 DEF Quiet, Keep
  <2>2. Told' = Told /\ (AppRecovering' <=> AppRecovering)
    BY <1>9 DEF Told, AppRecovering, Calm
  <2>3. Calm /\ Mic \in Requested => state'[Mic] \in {"Running", "Recovering"}
    BY <1>1, <1>9 DEF Untoggled
  <2> QED BY <1>1, <1>9, <2>1, <2>2, <2>3, RecoveryHears
<1>10. CASE e.type = "started" /\ OnStarted(e)
  <2>1. CASE Exit("catalog")
    BY <2>1, RecoveryExits
  <2>2. CASE /\ state' = [state EXCEPT ![e.source] = "Running"]
             /\ Quiet /\ UNCHANGED <<cmds, phase>>
    <3>1. evts' = Tail(evts) /\ UNCHANGED <<lastGen, flags>> /\ e.source \in Requested
      BY <1>1, <1>2, <1>10, <2>2 DEF Quiet, Keep, OnStarted
    <3>2. CASE flags.stop
      BY <1>7, <2>2, <3>1, <3>2
    <3>3. CASE Going
      <4>1. \A s \in Requested : state'[s] = IF s = e.source THEN "Running" ELSE state[s]
        BY <2>2, <3>1 DEF Typed, AppTyped
      <4>2. e.source = Mic => ~ AppRecovering
        <5>1. e = evts[1] /\ 1 \in DOMAIN evts
          BY <1>1 DEF Typed, WireTyped
        <5> QED BY <1>1, <1>10, <3>3, <5>1 DEF StartedFirst
      <4>3. AppRecovering' <=> AppRecovering
        BY <4>1, <4>2 DEF AppRecovering
      <4>4. Told' = Told
        BY <3>1, <4>3 DEF Told, Calm
      <4>5. Calm /\ Mic \in Requested => state'[Mic] \in {"Running", "Recovering"}
        BY <1>1, <3>3, <4>1 DEF Untoggled
      <4>6. ~ IsRec(e)
        BY <1>10 DEF IsRec
      <4> QED BY <1>1, <2>2, <3>1, <3>3, <4>2, <4>3, <4>4, <4>5, <4>6, RecoveryHears
    <3> QED BY <1>6, <3>2, <3>3
  <2> QED BY <1>10, <2>1, <2>2 DEF OnStarted
<1>11. CASE e.type = "sealed" /\ OnSealed(e)
  <2>1. CASE ~ committer /\ Exit("protocol") /\ UNCHANGED announced
    BY <2>1, RecoveryExits DEF committer
  <2>2. CASE Exit("commit")
    BY <2>2, RecoveryExits
  <2>3. CASE FinishIfStopped /\ Quiet /\ UNCHANGED <<state, lastGen>>
    <3>1. ~ IsRec(e) /\ e.type # "started"
      BY <1>11 DEF IsRec
    <3> QED BY <1>6, <1>7, <1>8, <1>9, <2>3, <3>1
  <2> QED BY <1>11, <2>1, <2>2, <2>3 DEF OnSealed
<1>12. CASE e.type = "stopped" /\ OnStopped(e)
  <2>1. /\ Quiet /\ UNCHANGED <<cmds, phase, lastGen, flags>> /\ state' = [state EXCEPT ![e.source] = "Stopped"]
        /\ e.source \in Requested /\ evts' = Tail(evts)
    BY <1>1, <1>2, <1>12 DEF OnStopped, Quiet, Keep
  <2>2. CASE flags.stop
    BY <1>7, <2>1, <2>2
  <2>3. CASE Going
    <3>1. ~ Calm
      <4>1. e = evts[1] /\ 1 \in DOMAIN evts
        BY <1>1 DEF Typed, WireTyped
      <4> QED BY <1>1, <1>12, <2>3, <4>1 DEF Untoggled
    <3>2. \A s \in Requested : state'[s] = IF s = e.source THEN "Stopped" ELSE state[s]
      BY <2>1 DEF Typed, AppTyped
    <3>3. AppRecovering' => AppRecovering
      BY <3>2 DEF AppRecovering
    <3>4. Told' = Told \/ ~ IsRec(Told')
      <4>1. CASE AppRecovering'
        BY <2>1, <3>3, <4>1 DEF Told, Calm
      <4>2. CASE ~ AppRecovering'
        <5>1. Told'.type = "ack"
          BY <2>1, <3>1, <4>2 DEF Told, Calm, Event
        <5> QED BY <5>1 DEF IsRec
      <4> QED BY <4>1, <4>2
    <3>5. ~ IsRec(e)
      BY <1>12 DEF IsRec
    <3> QED BY <1>1, <1>12, <2>1, <2>3, <3>1, <3>3, <3>4, <3>5, RecoveryHears
  <2> QED BY <1>6, <2>2, <2>3
<1>13. CASE e.type = "interrupted" /\ OnInterrupted(e)
  <2>1. e.n = 1 => e.source # Mic
    BY <1>2, <1>13 DEF HelperEvent
  <2>2. CASE Ignored
    <3>1. ~ IsRec(e) /\ e.type # "started"
      BY <1>13 DEF IsRec
    <3> QED BY <1>6, <1>7, <1>9, <2>2, <3>1 DEF Ignored
  <2> QED BY <1>5, <1>13, <2>1, <2>2 DEF OnInterrupted
<1>14. CASE e.type = "recovering" /\ OnRecovering(e)
  <2>0. IsRec(e) /\ Mic \in Requested
    BY <1>4, <1>14 DEF IsRec
  <2>1. CASE state[Mic] # "Running" \/ e.n <= lastGen
    <3>1. Fail("protocol")
      BY <1>14, <2>1 DEF OnRecovering
    <3>2. ASSUME Going, Calm PROVE FALSE
      <4>1. Told.type = "recovered" /\ Told.n < e.n
        BY <1>1, <1>14, <2>0, <3>2, HeardFollows DEF Follows
      <4>2. ~ AppRecovering /\ lastGen < e.n
        BY <4>1 DEF Told, Event
      <4>3. state[Mic] = "Running"
        BY <1>1, <2>0, <3>2, <4>2 DEF Untoggled, AppRecovering
      <4> QED BY <1>2, <2>1, <4>2, <4>3 DEF Typed, AppTyped
    <3>3. flags.toggles \in Nat /\ UNCHANGED flags
      BY <3>1 DEF Typed, AppTyped, Fail
    <3>4. flags'.toggles > 0 \/ flags'.stop
      BY <1>6, <3>2, <3>3 DEF Calm
    <3> QED BY <3>1, <3>4, RecoveryExits DEF Fail
  <2>2. CASE ~ (state[Mic] # "Running" \/ e.n <= lastGen)
    <3>1. /\ lastGen' = e.n /\ state' = [state EXCEPT ![Mic] = "Recovering"]
          /\ Quiet /\ UNCHANGED <<cmds, phase, flags>>
      BY <1>14, <2>2 DEF OnRecovering
    <3>2. evts' = Tail(evts)
      BY <1>1, <3>1 DEF Quiet, Keep
    <3>3. state'[Mic] = "Recovering"
      BY <2>0, <3>1 DEF Typed, AppTyped
    <3>4. Told' = e
      BY <1>4, <1>14, <2>0, <3>1, <3>3 DEF Told, AppRecovering
    <3> QED BY <1>1, <1>6, <1>7, <1>14, <2>0, <3>1, <3>2, <3>3, <3>4, RecoveryHears
  <2> QED BY <2>1, <2>2
<1>15. CASE e.type = "recovered" /\ OnRecovered(e)
  <2>0. IsRec(e) /\ Mic \in Requested
    BY <1>4, <1>15 DEF IsRec
  <2>1. CASE state[Mic] # "Recovering" \/ e.n # lastGen
    <3>1. Fail("protocol")
      BY <1>15, <2>1 DEF OnRecovered
    <3>2. ASSUME Going, Calm PROVE FALSE
      <4>1. Told.type = "recovering" /\ Told.n = e.n
        BY <1>1, <1>15, <2>0, <3>2, HeardFollows DEF Follows
      <4>2. AppRecovering /\ lastGen = e.n
        BY <4>1 DEF Told, Event
      <4> QED BY <2>1, <4>2 DEF AppRecovering
    <3>3. flags.toggles \in Nat /\ UNCHANGED flags
      BY <3>1 DEF Typed, AppTyped, Fail
    <3>4. flags'.toggles > 0 \/ flags'.stop
      BY <1>6, <3>2, <3>3 DEF Calm
    <3> QED BY <3>1, <3>4, RecoveryExits DEF Fail
  <2>2. CASE ~ (state[Mic] # "Recovering" \/ e.n # lastGen)
    <3>1. /\ state' = [state EXCEPT ![Mic] = "Running"] /\ e.n = lastGen
          /\ Quiet /\ UNCHANGED <<cmds, phase, flags, lastGen>>
      BY <1>15, <2>2 DEF OnRecovered
    <3>2. evts' = Tail(evts)
      BY <1>1, <3>1 DEF Quiet, Keep
    <3>3. state'[Mic] = "Running" /\ ~ AppRecovering'
      BY <2>0, <3>1 DEF Typed, AppTyped, AppRecovering
    <3>4. Told' = e \/ ~ IsRec(Told')
      <4>1. CASE Calm
        BY <1>4, <1>15, <2>0, <3>1, <3>3, <4>1 DEF Told, Calm
      <4>2. CASE ~ Calm
        <5>1. Told'.type = "ack"
          BY <3>1, <3>3, <4>2 DEF Told, Calm, Event
        <5> QED BY <5>1 DEF IsRec
      <4> QED BY <4>1, <4>2
    <3> QED BY <1>1, <1>6, <1>7, <2>0, <3>1, <3>2, <3>3, <3>4, RecoveryHears
  <2> QED BY <2>1, <2>2
<1>16. CASE e.type = "ack" /\ OnAck
  <2>1. ~ IsRec(e) /\ e.type # "started" /\ FinishIfStopped /\ Quiet /\ UNCHANGED <<state, lastGen>>
    BY <1>16 DEF IsRec, OnAck
  <2> QED BY <1>6, <1>7, <1>8, <1>9, <2>1
<1>17. CASE Fail("fatal")
  BY <1>5, <1>17
<1> QED BY <1>3, <1>10, <1>11, <1>12, <1>13, <1>14, <1>15, <1>16, <1>17

LEMMA RecoveryPoll ==
    ASSUME HelperAssumption, Typed, RecoveryInv, Poll
    PROVE  RecoveryInv'
<1>1. CASE PollNothing
  <2>1. CASE phase = "Stopping" /\ FinishIfStopped /\ Quiet
    <3>1. flags.stop /\ worker = "running"
      BY <1>1, <2>1 DEF PollNothing, RecoveryInv, Unstopped, Going
    <3>2. flags'.stop
      BY <2>1, <3>1 DEF FinishIfStopped, Typed, AppTyped
    <3> QED BY <2>1, <3>1, <3>2, RecoveryAfterStop DEF Quiet
  <2>2. CASE Exit("invalid")
    BY <2>2, RecoveryExits
  <2> QED BY <1>1, <2>1, <2>2 DEF PollNothing
<1>2. CASE PollClosed
  BY <1>2, RecoveryExits DEF PollClosed
<1>3. CASE PollRefused
  <2>1. Exit("failed") \/ Exit("invalid")
    BY <1>3 DEF PollRefused
  <2> QED BY <2>1, RecoveryExits
<1>4. CASE PollEvent
  BY <1>4, RecoveryEvent
<1> QED BY <1>1, <1>2, <1>3, <1>4 DEF Poll

LEMMA RecoveryInit ==
    ASSUME Init
    PROVE  RecoveryInv
<1>1. /\ cmds = <<>> /\ evts = <<>> /\ loop = "awaiting" /\ task = [op |-> "read", todo |-> <<>>]
      /\ rec.stage = "none" /\ mic = IdleMic /\ mic.running = FALSE /\ mic.published = FALSE /\ mic.path = FALSE
  BY DEF Init, HelperInit, Resting, NoAttempt, IdleMic
<1>2. /\ worker = "none" /\ phase = "Requested" /\ lastGen = 0 /\ lastError = "none" /\ ~ AppRecovering
  BY DEF Init, ControlInit, AppRecovering
<1>3. Unstopped /\ Untoggled /\ StartedFirst /\ Fresh
  BY <1>1, <1>2 DEF Unstopped, Untoggled, StartedFirst, Fresh
<1>4. Microphone /\ Starting
  BY <1>1 DEF Microphone, Starting, Attempting
<1>5. Blamed
  BY <1>2 DEF Blamed, RecoveryIsAccepted
<1>6. InTurn
  <2>1. DOMAIN Line = 1 .. 1
    BY <1>1 DEF Line
  <2>2. Alternates(Line)
    BY <2>1 DEF Alternates
  <2> QED BY <1>1, <2>2 DEF InTurn, Fits, Suits
<1> QED BY <1>3, <1>4, <1>5, <1>6 DEF RecoveryInv

LEMMA RecoveryInvariance == Spec => []RecoveryInv
<1>1. Init => RecoveryInv
  BY RecoveryInit
<1>2. Typed /\ RecoveryInv /\ [Next]_vars => RecoveryInv'
  <2> SUFFICES ASSUME Typed, RecoveryInv, [Next]_vars PROVE RecoveryInv'
    OBVIOUS
  <2>1. CASE UNCHANGED vars
    BY <2>1, RecoverySame DEF vars, appVars
  <2>2. CASE Next
    BY <2>2, HelperAssumption, RecoveryCaller, RecoveryServe, RecoveryPoll, RecoveryHelper DEF Next
  <2> QED BY <2>1, <2>2
<1> QED BY <1>1, <1>2, AlwaysTyped, PTL DEF Spec

\* A recovery that is reported while the session just records is never a protocol
\* violation: what the session hears of it follows what it heard before.
THEOREM RecoveriesAreAccepted == Spec => []RecoveryIsAccepted
<1>1. RecoveryInv => RecoveryIsAccepted
  BY DEF RecoveryInv, Blamed
<1> QED BY <1>1, RecoveryInvariance, PTL

-----------------------------------------------------------------------------
(* What the session and the helper agree on when the pipes are empty.      *)

\* The worker kills the helper when it exits.
Buried == worker = "exited" => ~ Alive

\* Until a terminal event is on its way, what recovers is a microphone that runs.
Doomed == \E i \in DOMAIN evts : Terminal(evts[i])
StillRuns ==
    Going /\ Alive /\ ~ Doomed /\ (Attempting \/ AppRecovering \/ \E i \in DOMAIN evts : IsRec(evts[i]))
        => mic.running /\ Mic \in enabled

\* Every source is announced once: it was heard, is in the pipe, or is still to come.
Announces(e, s) == e.type = "started" /\ e.source = s
ToCome ==
    IF task.op = "announce" THEN {task.todo[k] : k \in DOMAIN task.todo}
    ELSE IF loop = "awaiting" THEN Requested ELSE {}
Announced ==
    worker # "exited" =>
        /\ \A s \in Requested : \A i, j \in DOMAIN evts : Announces(evts[i], s) /\ Announces(evts[j], s) => i = j
        /\ \A s \in announced \cup ToCome : \A i \in DOMAIN evts : ~ Announces(evts[i], s)
        /\ announced \cap ToCome = {}
        /\ task.op = "announce" => \A j, k \in DOMAIN task.todo : task.todo[j] = task.todo[k] => j = k
        /\ task.op \in {"start", "announce"} => loop = "awaiting"
        /\ task.op \in {"pause", "resume", "stop", "stopped"} => loop = "capturing"
        /\ Alive => \A s \in Requested : s \in announced \cup ToCome \/ \E i \in DOMAIN evts : Announces(evts[i], s)
        /\ worker = "running" /\ loop = "awaiting" /\ task.op = "read" => \E k \in DOMAIN cmds : cmds[k] = "start"

\* A control message comes after the last start, and a stop leaves nothing to recover.
Halted ==
    worker # "exited" =>
        /\ startup = "ok" <=> announced = Requested
        /\ worker = "none" => startup = "none"
        /\ control # "none" \/ flags.stop => startup = "ok"
        /\ control # "none" => ~ flags.stop
        /\ flags.stop => \A s \in Requested : state[s] \notin {"Running", "Recovering"}
        /\ \A s \in Requested : s # Mic => state[s] # "Recovering"

\* The controller's state and its sources.
Controlled ==
    Alive =>
        /\ ctlState = "stopped" => enabled = {} /\ loop = "stopped"
        /\ ~ Doomed /\ task.op = "announce" => ctlState = "running"
        /\ ~ Doomed /\ task.op \in {"pause", "resume"} => ctlState \in {"running", "paused"}
        /\ ~ Doomed /\ ctlState \in {"running", "paused"} => enabled = Requested

\* The phase that the last command, written, executed or done, stands for.
Named(c) ==
    IF c \in {"start", "announce", "resume"} THEN {"Running"}
    ELSE IF c = "pause" THEN {"Paused"} ELSE {"Stopping", "Stopped"}
Being ==
    IF ctlState = "running" THEN {"Running"}
    ELSE IF ctlState = "paused" THEN {"Paused"} ELSE IF ctlState = "stopped" THEN {"Stopping", "Stopped"} ELSE {}
Steered ==
    worker = "running" /\ Alive =>
        /\ cmds # <<>> => phase \in Named(cmds[Len(cmds)])
        /\ cmds = <<>> /\ task.op # "read" => phase \in Named(task.op)
        /\ cmds = <<>> /\ task.op = "read" /\ ~ Doomed => phase \in Being

RestInv == Buried /\ StillRuns /\ Announced /\ Halted /\ Controlled /\ Steered

\* What the helper writes comes behind what is in the pipe.
LEMMA PipeGrows ==
    ASSUME Typed, NEW r, Wrote(r)
    PROVE  /\ \A i \in DOMAIN evts : i \in DOMAIN evts' /\ evts'[i] = evts[i]
           /\ \A i \in DOMAIN evts' : i \in DOMAIN evts \/ \E k \in DOMAIN r : i = Len(evts) + k /\ evts'[i] = r[k]
           /\ \A k \in DOMAIN r : /\ Len(evts) + k \in DOMAIN evts' /\ Len(evts) + k \notin DOMAIN evts
                                   /\ evts'[Len(evts) + k] = r[k]
<1>1. evts \in Seq(HelperEvent) /\ r \in Seq(HelperEvent) /\ evts' = evts \o r
  BY DEF Typed, WireTyped, Wrote
<1>2. \A i \in DOMAIN evts : i \in DOMAIN evts' /\ evts'[i] = evts[i]
  BY <1>1
<1>3. \A k \in DOMAIN r : /\ Len(evts) + k \in DOMAIN evts' /\ Len(evts) + k \notin DOMAIN evts
                          /\ evts'[Len(evts) + k] = r[k]
  BY <1>1
<1>4. \A i \in DOMAIN evts' : i \in DOMAIN evts \/ \E k \in DOMAIN r : i = Len(evts) + k /\ evts'[i] = r[k]
  <2> TAKE i \in DOMAIN evts'
  <2>1. i \notin DOMAIN evts => i - Len(evts) \in DOMAIN r /\ i = Len(evts) + (i - Len(evts)) /\ evts'[i] = r[i - Len(evts)]
    BY <1>1
  <2> QED BY <2>1
<1> QED BY <1>2, <1>3, <1>4

LEMMA DoomStays ==
    ASSUME Typed, NEW r, Wrote(r)
    PROVE  (Doomed => Doomed') /\ (Ends(r) => Doomed')
BY PipeGrows DEF Doomed, Ends

LEMMA HelperStarts ==
    ASSUME HelperAssumption, Typed, HelperNext
    PROVE  /\ Announce => Head(task.todo) \in Requested /\ Wrote(<<Event("started", Head(task.todo), 0)>>)
           /\ ~ Announce => \E r : Wrote(r) /\ \A k \in DOMAIN r : r[k].type # "started"
<1>1. CASE Announce
  <2>1. Head(task.todo) \in Requested
    BY <1>1 DEF Announce, Typed, ControlTyped
  <2>2. Event("started", Head(task.todo), 0) \in HelperEvent
    BY <2>1 DEF Event, HelperEvent, IsRec, Types, HelperAssumption, Source
  <2> QED BY <1>1, <2>1, <2>2, WroteOne DEF Announce, Event, Typed
<1>2. CASE ~ Announce /\ Command
  BY <1>2, CommandWrites DEF Typed, Dull
<1>3. CASE ~ Announce /\ (RecoveryStep \/ World)
  <2>1. Event("recovering", Mic, rec.mine).type # "started" /\ Event("recovered", Mic, rec.mine).type # "started"
    BY DEF Event
  <2>2. ASSUME NEW e, Wrote(<<e>>), e.type # "started"
        PROVE  \E r : Wrote(r) /\ \A k \in DOMAIN r : r[k].type # "started"
    <3>1. DOMAIN <<e>> = {1} /\ <<e>>[1] = e
      OBVIOUS
    <3> QED BY <2>2, <3>1
  <2> QED BY <1>3, <2>1, <2>2, WorldWrites DEF Typed, Dull
<1> QED BY <1>1, <1>2, <1>3 DEF HelperNext

\* The steps of the helper: of its sources, its end, or of a command.
Busily ==
    \/ ReadCommand \/ StartAdapter \/ Publish \/ Announce \/ Activate \/ Pause \/ Resume \/ EndTransition
    \/ StopAdapter \/ AnnounceStopped \/ EndStop

LEMMA HelperKinds ==
    ASSUME HelperNext
    PROVE  \/ (RecoveryStep \/ World) /\ UNCHANGED <<task, loop, cmds>> /\ (UNCHANGED <<enabled, ctlState>> \/ ctlState' = "failed")
           \/ ~ Alive' /\ task' = Resting /\ loop' = "gone"
           \/ Busily
<1>1. CASE HelperCrash \/ RejectCommand \/ StartAdapterFails \/ TransitionFails \/ Acknowledge
  BY <1>1 DEF HelperCrash, RejectCommand, Throw, StartAdapterFails, TransitionFails, Acknowledge, Alive
<1>2. CASE RecoveryStep
  BY <1>2 DEF RecoveryStep, BeginRecovery, ReportRecovering, TearDown, PostSealed, Rebuild, RebuildFails, ReportRecovered, FailRecovery
<1>3. CASE World /\ ~ HelperCrash
  BY <1>3 DEF World, Frames, RollChunk, FramePathFails, SystemStreamStops, DeviceChange
<1> QED BY <1>1, <1>2, <1>3 DEF HelperNext, Command, World, Busily

\* Where a step announces nothing, what is to come stays so while the helper lives.
LEMMA StillToCome ==
    ASSUME Typed, Buried, Announced, worker # "exited", HelperNext, ~ Announce, UNCHANGED appVars
    PROVE  /\ ToCome' \subseteq ToCome /\ (Alive' => ToCome' = ToCome)
           /\ task'.op = "announce" => \A j, k \in DOMAIN task'.todo : task'.todo[j] = task'.todo[k] => j = k
           /\ task'.op \in {"start", "announce"} => loop' = "awaiting"
           /\ task'.op \in {"pause", "resume", "stop", "stopped"} => loop' = "capturing"
           /\ worker = "running" /\ loop' = "awaiting" /\ task'.op = "read" => \E k \in DOMAIN cmds' : cmds'[k] = "start"
<1>1. /\ task.op = "announce" => \A j, k \in DOMAIN task.todo : task.todo[j] = task.todo[k] => j = k
      /\ task.op \in {"start", "announce"} => loop = "awaiting"
      /\ task.op \in {"pause", "resume", "stop", "stopped"} => loop = "capturing"
      /\ worker = "running" /\ loop = "awaiting" /\ task.op = "read" => \E k \in DOMAIN cmds : cmds[k] = "start"
  BY DEF Announced
<1>2. CASE UNCHANGED <<task, loop, cmds>>
  BY <1>1, <1>2 DEF ToCome, Alive
<1>3. CASE ~ Alive' /\ task' = Resting /\ loop' = "gone"
  <2>1. task'.op = "read" /\ loop' # "awaiting"
    BY <1>3 DEF Resting
  <2> QED BY <1>3, <2>1 DEF ToCome
<1>4. CASE ReadCommand
  <2>1. task.op = "read" /\ loop' = loop /\ task'.op \in {"start", "pause", "resume", "stop", "shutdown"}
        /\ (task'.op = "start" => loop = "awaiting") /\ (task'.op \in {"pause", "resume", "stop"} => loop = "capturing")
    BY <1>4 DEF ReadCommand, Begin, Resting
  <2> QED BY <2>1 DEF ToCome
<1>5. CASE StartAdapter \/ Pause \/ Resume \/ StopAdapter \/ AnnounceStopped
  <2>1. loop' = loop /\ task.op \notin {"announce", "read"} /\ task'.op \notin {"announce", "read"}
        /\ (task'.op = "start" => task.op = "start")
        /\ (task'.op \in {"pause", "resume", "stop", "stopped"} => task.op \in {"pause", "resume", "stop", "stopped"})
    BY <1>5 DEF StartAdapter, Pause, Resume, StopAdapter, AnnounceStopped, Begin
  <2> QED BY <1>1, <2>1 DEF ToCome
<1>6. CASE Publish
  <2> DEFINE o == sourceOrder(Requested)
  <2>1. task.op = "start" /\ loop = "awaiting" /\ loop' = "awaiting" /\ task' = [op |-> "announce", todo |-> o]
    BY <1>1, <1>6 DEF Publish, Begin
  <2>2. /\ \A s \in Source : s \in Requested => \E k \in DOMAIN o : o[k] = s
        /\ \A k \in DOMAIN o : o[k] \in Requested
        /\ \A j, k \in DOMAIN o : o[j] = o[k] => j = k
    BY Orders
  <2> HIDE DEF o
  <2>3. {o[k] : k \in DOMAIN o} = Requested
    <3>1. \A s \in Requested : \E k \in DOMAIN o : o[k] = s
      BY <2>2, HelperAssumption DEF Source
    <3>2. \A s \in Requested : s \in {o[k] : k \in DOMAIN o}
      BY <3>1
    <3>3. \A s \in {o[k] : k \in DOMAIN o} : s \in Requested
      BY <2>2
    <3> QED BY <3>2, <3>3
  <2>4. ToCome = Requested /\ ToCome' = {o[k] : k \in DOMAIN o}
    BY <2>1 DEF ToCome
  <2> QED BY <2>1, <2>2, <2>3, <2>4
<1>7. CASE Activate
  <2>1. task.op = "announce" /\ task.todo = <<>> /\ loop' = "capturing" /\ task'.op = "read"
    BY <1>7 DEF Activate, Resting
  <2>2. ToCome = {} /\ ToCome' = {}
    BY <2>1 DEF ToCome
  <2> QED BY <2>1, <2>2
<1>8. CASE EndTransition \/ EndStop
  <2>1. task.op \in {"pause", "resume", "stop"} /\ loop' \in {loop, "stopped"} /\ task'.op = "read"
    BY <1>8 DEF EndTransition, EndStop, Resting
  <2>2. loop = "capturing"
    BY <1>1, <2>1
  <2>3. ToCome = {} /\ ToCome' = {}
    BY <2>1, <2>2 DEF ToCome
  <2> QED BY <2>1, <2>2, <2>3
<1> QED BY <1>2, <1>3, <1>4, <1>5, <1>6, <1>7, <1>8, HelperKinds DEF Busily

LEMMA HelperAnnounced ==
    ASSUME HelperAssumption, Typed, Buried, Announced, HelperNext, UNCHANGED appVars
    PROVE  Announced'
<1> SUFFICES ASSUME worker # "exited" PROVE Announced'
  BY DEF Announced, appVars
<1>1. /\ \A s \in Requested : \A i, j \in DOMAIN evts : Announces(evts[i], s) /\ Announces(evts[j], s) => i = j
      /\ \A s \in announced \cup ToCome : \A i \in DOMAIN evts : ~ Announces(evts[i], s)
      /\ announced \cap ToCome = {}
      /\ Alive => \A s \in Requested : s \in announced \cup ToCome \/ \E i \in DOMAIN evts : Announces(evts[i], s)
  BY DEF Announced
<1>2. Alive /\ UNCHANGED <<announced, worker>>
  BY HelperAlive DEF appVars
<1>3. CASE ~ Announce
  <2>1. PICK r : Wrote(r) /\ \A k \in DOMAIN r : r[k].type # "started"
    BY <1>3, HelperStarts
  <2>2. \A i \in DOMAIN evts' : \A s : Announces(evts'[i], s) => i \in DOMAIN evts /\ Announces(evts[i], s)
    BY <2>1, PipeGrows DEF Announces
  <2>3. \A i \in DOMAIN evts : \A s : Announces(evts[i], s) => i \in DOMAIN evts' /\ Announces(evts'[i], s)
    BY <2>1, PipeGrows
  <2>4. /\ ToCome' \subseteq ToCome /\ (Alive' => ToCome' = ToCome)
        /\ task'.op = "announce" => \A j, k \in DOMAIN task'.todo : task'.todo[j] = task'.todo[k] => j = k
        /\ task'.op \in {"start", "announce"} => loop' = "awaiting"
        /\ task'.op \in {"pause", "resume", "stop", "stopped"} => loop' = "capturing"
        /\ worker = "running" /\ loop' = "awaiting" /\ task'.op = "read" => \E k \in DOMAIN cmds' : cmds'[k] = "start"
    BY <1>3, StillToCome
  <2>5. \A s \in Requested : \A i, j \in DOMAIN evts' : Announces(evts'[i], s) /\ Announces(evts'[j], s) => i = j
    BY <1>1, <2>2
  <2>6. \A s \in announced \cup ToCome' : \A i \in DOMAIN evts' : ~ Announces(evts'[i], s)
    BY <1>1, <2>2, <2>4
  <2>7. announced \cap ToCome' = {}
    BY <1>1, <2>4
  <2>8. Alive' => \A s \in Requested : s \in announced \cup ToCome' \/ \E i \in DOMAIN evts' : Announces(evts'[i], s)
    BY <1>1, <1>2, <2>3, <2>4
  <2> QED BY <1>2, <2>4, <2>5, <2>6, <2>7, <2>8 DEF Announced
<1>4. CASE Announce
  <2> DEFINE h == Head(task.todo)
             r == <<Event("started", h, 0)>>
  <2>1. h \in Requested /\ Wrote(r)
    BY <1>4, HelperStarts
  <2>2. DOMAIN r = {1} /\ r[1].type = "started" /\ r[1].source = h
    BY DEF Event
  <2>3. \A s : Announces(r[1], s) <=> s = h
    BY <2>2 DEF Announces
  <2> HIDE DEF r
  <2>4. /\ \A i \in DOMAIN evts : i \in DOMAIN evts' /\ evts'[i] = evts[i]
        /\ \A i \in DOMAIN evts' : i \in DOMAIN evts \/ (i = Len(evts) + 1 /\ evts'[i] = r[1])
        /\ Len(evts) + 1 \in DOMAIN evts' /\ Len(evts) + 1 \notin DOMAIN evts /\ evts'[Len(evts) + 1] = r[1]
    BY <2>1, <2>2, PipeGrows
  <2>5. /\ task.op = "announce" /\ task.todo # <<>> /\ task.todo \in Seq(Requested) /\ task' = [op |-> "announce", todo |-> Tail(task.todo)]
        /\ loop = "awaiting" /\ loop' = "awaiting"
        /\ \A j, k \in DOMAIN task.todo : task.todo[j] = task.todo[k] => j = k
    BY <1>4 DEF Announce, Begin, Announced, Typed, ControlTyped
  <2>6. /\ ToCome = {task.todo[k] : k \in DOMAIN task.todo}
        /\ ToCome' = {Tail(task.todo)[k] : k \in DOMAIN Tail(task.todo)}
    BY <2>5 DEF ToCome
  <2>7. /\ h = task.todo[1] /\ 1 \in DOMAIN task.todo
        /\ \A k \in DOMAIN Tail(task.todo) : k + 1 \in DOMAIN task.todo /\ Tail(task.todo)[k] = task.todo[k + 1] /\ k + 1 # 1
        /\ \A k \in DOMAIN task.todo : k # 1 => k - 1 \in DOMAIN Tail(task.todo) /\ Tail(task.todo)[k - 1] = task.todo[k]
        /\ \A j, k \in DOMAIN Tail(task.todo) : j + 1 = k + 1 => j = k
    BY <2>5
  <2> HIDE DEF h
  <2>8. \A j, k \in DOMAIN Tail(task.todo) : Tail(task.todo)[j] = Tail(task.todo)[k] => j = k
    BY <2>5, <2>7
  <2>9. ToCome = ToCome' \cup {h} /\ h \notin ToCome'
    <3>1. ToCome' \subseteq ToCome /\ h \in ToCome
      BY <2>6, <2>7
    <3>2. h \notin ToCome'
      BY <2>5, <2>6, <2>7
    <3>3. \A s \in ToCome : s = h \/ s \in ToCome'
      <4> TAKE s \in ToCome
      <4>1. PICK k \in DOMAIN task.todo : s = task.todo[k]
        BY <2>6
      <4>2. CASE k = 1
        BY <2>7, <4>1, <4>2
      <4>3. CASE k # 1
        <5>1. k - 1 \in DOMAIN Tail(task.todo) /\ Tail(task.todo)[k - 1] = s
          BY <2>7, <4>1, <4>3
        <5> QED BY <2>6, <5>1
      <4> QED BY <4>2, <4>3
    <3> QED BY <3>1, <3>2, <3>3
  <2>10. \A i \in DOMAIN evts' : \A s : Announces(evts'[i], s) =>
           (i \in DOMAIN evts /\ Announces(evts[i], s)) \/ (i = Len(evts) + 1 /\ s = h)
    BY <2>3, <2>4
  <2>11. \A i \in DOMAIN evts : ~ Announces(evts[i], h)
    BY <1>1, <2>9
  <2>12. \A s \in Requested : \A i, j \in DOMAIN evts' : Announces(evts'[i], s) /\ Announces(evts'[j], s) => i = j
    BY <1>1, <2>10, <2>11
  <2>13. \A s \in announced \cup ToCome' : \A i \in DOMAIN evts' : ~ Announces(evts'[i], s)
    BY <1>1, <2>9, <2>10
  <2>14. announced \cap ToCome' = {}
    BY <1>1, <2>9
  <2>15. \A s \in Requested : s \in announced \cup ToCome' \/ \E i \in DOMAIN evts' : Announces(evts'[i], s)
    <3> TAKE s \in Requested
    <3>1. CASE s = h
      BY <2>3, <2>4, <3>1
    <3>2. CASE s # h /\ s \in announced \cup ToCome
      BY <2>9, <3>2
    <3>3. CASE \E i \in DOMAIN evts : Announces(evts[i], s)
      BY <2>4, <3>3
    <3> QED BY <1>1, <1>2, <3>1, <3>2, <3>3
  <2>16. task'.op = "announce" /\ task'.todo = Tail(task.todo)
    BY <2>5
  <2> QED BY <1>2, <2>5, <2>8, <2>12, <2>13, <2>14, <2>15, <2>16 DEF Announced
<1> QED BY <1>3, <1>4

\* Short of a terminal event or the helper's end, the world takes nothing from the controller.
LEMMA WorldLeaves ==
    ASSUME Typed, RecoveryStep \/ World, Alive', ~ Doomed'
    PROVE  UNCHANGED <<enabled, ctlState>> /\ (mic.running => mic'.running \/ Mic \notin enabled)
<1>1. ASSUME NEW r, Wrote(r), Ends(r) PROVE FALSE
  BY <1>1, DoomStays
<1>2. CASE ReportRecovering \/ ReportRecovered
  BY <1>2 DEF ReportRecovering, ReportRecovered
<1> QED BY <1>1, <1>2, WorldWrites DEF Typed

LEMMA DoomHolds ==
    ASSUME HelperAssumption, Typed, HelperNext
    PROVE  Doomed => Doomed'
<1>1. CASE Announce
  BY <1>1, HelperStarts, DoomStays
<1>2. CASE ~ Announce
  BY <1>2, HelperStarts, DoomStays
<1> QED BY <1>1, <1>2

LEMMA HelperControlled ==
    ASSUME HelperAssumption, Typed, Buried, Announced, Controlled, HelperNext, UNCHANGED appVars
    PROVE  Controlled'
<1> SUFFICES ASSUME Alive' PROVE Controlled'
  BY DEF Controlled
<1>1. Alive /\ worker # "exited"
  BY HelperAlive DEF Buried
<1>2. /\ ctlState = "stopped" => enabled = {} /\ loop = "stopped"
      /\ ~ Doomed /\ task.op = "announce" => ctlState = "running"
      /\ ~ Doomed /\ task.op \in {"pause", "resume"} => ctlState \in {"running", "paused"}
      /\ ~ Doomed /\ ctlState \in {"running", "paused"} => enabled = Requested
  BY <1>1 DEF Controlled
<1>3. /\ task.op \in {"start", "announce"} => loop = "awaiting"
      /\ task.op \in {"pause", "resume", "stop", "stopped"} => loop = "capturing"
  BY <1>1 DEF Announced
<1>4. ~ Doomed' => ~ Doomed
  BY DoomHolds
<1>5. CASE (RecoveryStep \/ World) /\ UNCHANGED <<task, loop, cmds>> /\ (UNCHANGED <<enabled, ctlState>> \/ ctlState' = "failed")
  <2>1. ~ Doomed' => UNCHANGED <<enabled, ctlState>>
    BY <1>5, WorldLeaves
  <2> QED BY <1>2, <1>4, <1>5, <2>1 DEF Controlled
<1>6. CASE ReadCommand
  <2>1. /\ task'.op \in {"start", "pause", "resume", "stop", "shutdown"} /\ UNCHANGED <<enabled, loop>>
        /\ task'.op = "start" => loop = "awaiting" /\ ctlState' = "starting"
        /\ task'.op \in {"pause", "resume"} => ctlState' = ctlState /\ ctlState \in {"running", "paused"}
        /\ task'.op = "stop" => ctlState' = "stopping"
        /\ task'.op = "shutdown" => ctlState' = "stopping" \/ (ctlState' = "stopped" /\ ctlState = "stopped")
    BY <1>6 DEF ReadCommand, Begin
  <2> QED BY <1>2, <1>4, <2>1 DEF Controlled
<1>7. CASE StartAdapter \/ Announce \/ Pause \/ Resume
  <2>1. task'.op = task.op /\ UNCHANGED <<enabled, ctlState, loop>>
    BY <1>7 DEF StartAdapter, Announce, Pause, Resume, Begin
  <2> QED BY <1>2, <1>4, <2>1 DEF Controlled
<1>8. CASE StopAdapter \/ AnnounceStopped
  <2>1. task'.op \in {"stop", "stopped", "shutdown", "shut"} /\ UNCHANGED <<enabled, ctlState, loop>>
    BY <1>8 DEF StopAdapter, AnnounceStopped, Begin
  <2> QED BY <1>2, <1>4, <2>1 DEF Controlled
<1>9. CASE Publish
  <2>1. task'.op = "announce" /\ enabled' = Requested /\ ctlState' = "running"
    BY <1>9 DEF Publish, Begin
  <2> QED BY <2>1 DEF Controlled
<1>10. CASE Activate
  <2>1. task.op = "announce" /\ task'.op = "read" /\ UNCHANGED <<enabled, ctlState>>
    BY <1>10 DEF Activate, Resting
  <2>2. ctlState # "stopped"
    BY <1>2, <1>3, <2>1
  <2> QED BY <1>2, <1>4, <2>1, <2>2 DEF Controlled
<1>11. CASE EndTransition
  <2>1. task.op \in {"pause", "resume"} /\ task'.op = "read" /\ UNCHANGED enabled /\ ctlState' \in {"running", "paused"}
    BY <1>11 DEF EndTransition, Resting
  <2> QED BY <1>2, <1>4, <2>1 DEF Controlled
<1>12. CASE EndStop
  <2>1. task'.op = "read" /\ enabled' = {} /\ ctlState' = "stopped" /\ loop' = "stopped"
    BY <1>12 DEF EndStop, Resting
  <2> QED BY <2>1 DEF Controlled
<1> QED BY <1>5, <1>6, <1>7, <1>8, <1>9, <1>10, <1>11, <1>12, HelperKinds DEF Busily

LEMMA HelperSteered ==
    ASSUME HelperAssumption, Typed, Buried, Controlled, Steered, HelperNext, UNCHANGED appVars
    PROVE  Steered'
<1> SUFFICES ASSUME worker = "running", Alive' PROVE Steered'
  BY DEF Steered, appVars
<1>1. Alive /\ UNCHANGED <<worker, phase>>
  BY HelperAlive DEF appVars
<1>2. /\ cmds # <<>> => phase \in Named(cmds[Len(cmds)])
      /\ cmds = <<>> /\ task.op # "read" => phase \in Named(task.op)
      /\ cmds = <<>> /\ task.op = "read" /\ ~ Doomed => phase \in Being
  BY <1>1 DEF Steered
<1>3. ~ Doomed' => ~ Doomed
  BY DoomHolds
<1>4. CASE (RecoveryStep \/ World) /\ UNCHANGED <<task, loop, cmds>>
  <2>1. ~ Doomed' => ctlState' = ctlState
    BY <1>4, WorldLeaves
  <2> QED BY <1>1, <1>2, <1>3, <1>4, <2>1 DEF Steered, Being
<1>5. CASE ReadCommand
  <2>1. cmds # <<>> /\ cmds' = Tail(cmds) /\ task'.op = Head(cmds) /\ task'.op # "read"
    BY <1>5 DEF ReadCommand, Begin
  <2>2. phase \in Named(cmds[Len(cmds)])
    BY <1>2, <2>1
  <2>3. CASE cmds' # <<>>
    <3>1. cmds \in Seq(Commands) /\ Len(cmds') = Len(cmds) - 1 /\ Len(cmds) \in Nat /\ Len(cmds') > 0
      BY <2>1, <2>3 DEF Typed, ControlTyped
    <3>2. cmds'[Len(cmds')] = cmds[Len(cmds)]
      <4>1. \A k \in 1 .. Len(cmds) - 1 : Tail(cmds)[k] = cmds[k + 1]
        BY <2>1, <3>1
      <4>2. Len(cmds) - 1 \in 1 .. Len(cmds) - 1 /\ (Len(cmds) - 1) + 1 = Len(cmds)
        BY <3>1
      <4> QED BY <2>1, <3>1, <4>1, <4>2
    <3> QED BY <1>1, <2>2, <2>3, <3>2 DEF Steered
  <2>4. CASE cmds' = <<>>
    <3>1. cmds[Len(cmds)] = Head(cmds)
      <4>1. cmds \in Seq(Commands) /\ Len(cmds) \in Nat /\ Len(Tail(cmds)) = Len(cmds) - 1
        BY <2>1 DEF Typed, ControlTyped
      <4>2. Len(Tail(cmds)) = 0
        <5>1. Tail(cmds) \in Seq(Commands)
          BY <2>1, <4>1
        <5> QED BY <2>1, <2>4, <5>1, EmptySeq
      <4>3. Len(cmds) = 1
        BY <4>1, <4>2
      <4> QED BY <2>1, <4>1, <4>3
    <3> QED BY <1>1, <2>1, <2>2, <2>4, <3>1 DEF Steered
  <2> QED BY <2>3, <2>4
<1>6. CASE StartAdapter \/ Publish \/ Announce \/ Pause \/ Resume \/ StopAdapter \/ AnnounceStopped
  <2>1. UNCHANGED cmds /\ task.op # "read" /\ task'.op # "read" /\ Named(task'.op) = Named(task.op)
    BY <1>6 DEF StartAdapter, Publish, Announce, Pause, Resume, StopAdapter, AnnounceStopped, Begin, Named
  <2> QED BY <1>1, <1>2, <2>1 DEF Steered
<1>7. ASSUME UNCHANGED cmds, task.op # "read", task'.op = "read",
             ~ Doomed' => (phase \in Named(task.op) => phase \in Being')
      PROVE  Steered'
  BY <1>1, <1>2, <1>7 DEF Steered
<1>8. CASE Activate
  <2>1. task.op = "announce" /\ task'.op = "read" /\ UNCHANGED <<cmds, ctlState>>
    BY <1>8 DEF Activate, Resting
  <2>2. ~ Doomed' => ctlState' = "running"
    BY <1>1, <1>3, <2>1 DEF Controlled
  <2> QED BY <1>7, <2>1, <2>2 DEF Named, Being
<1>9. CASE EndTransition
  <2>1. task.op \in {"pause", "resume"} /\ task'.op = "read" /\ UNCHANGED cmds
        /\ ctlState' = IF task.op = "pause" THEN "paused" ELSE "running"
    BY <1>9 DEF EndTransition, Resting
  <2> QED BY <1>7, <2>1 DEF Named, Being
<1>10. CASE EndStop
  <2>1. task.op = "stop" /\ task'.op = "read" /\ UNCHANGED cmds /\ ctlState' = "stopped"
    BY <1>10 DEF EndStop, Resting
  <2> QED BY <1>7, <2>1 DEF Named, Being
<1> QED BY <1>4, <1>5, <1>6, <1>8, <1>9, <1>10, HelperKinds DEF Busily

\* What makes an attempt begin is a microphone that runs and is published.
LEMMA AttemptBegins ==
    ASSUME Typed, HelperNext, Alive', Attempting'
    PROVE  Attempting \/ (mic.published /\ mic.running /\ UNCHANGED <<mic, enabled>>)
<1>1. rec \in Attempts /\ CancelledRecovery \in Attempts
  BY AttemptTypes DEF Typed, AudioTyped
<1>2. rec.stage \in Stages
  BY <1>1 DEF Attempts
<1>3. ASSUME NEW st, rec' = [rec EXCEPT !.stage = st] PROVE rec'.stage = st
  BY <1>1, <1>3 DEF Attempts
<1>4. Finished.stage = "none"
  BY <1>1 DEF Finished, Attempts
<1>5. ASSUME NEW S, StopAdapters(S) PROVE Attempting
  <2>1. CASE rec' = rec
    BY <2>1 DEF Attempting
  <2>2. CASE rec' = CancelledRecovery
    <3>1. rec'.stage = IF rec.stage = "waiting" THEN "none" ELSE rec.stage
      BY <1>1, <2>2 DEF CancelledRecovery, Attempts
    <3> QED BY <3>1 DEF Attempting
  <2> QED BY <1>5, <2>1, <2>2 DEF StopAdapters
<1>6. CASE UNCHANGED rec
  BY <1>6 DEF Attempting
<1>7. CASE BeginRecovery
  <2>1. PICK kept \in 0 .. rec.starts :
          LET burst == kept >= BurstLimit
              ready == mic.published /\ mic.running /\ ~ mic.terminal
          IN  rec' = [rec EXCEPT !.active = burst \/ ready,
                                 !.starts = IF burst THEN kept ELSE kept + 1,
                                 !.stage = CASE burst -> "failing"
                                             [] ready /\ ~ burst -> "signal"
                                             [] OTHER -> "none"]
    BY <1>7 DEF BeginRecovery
  <2> DEFINE burst == kept >= BurstLimit
             ready == mic.published /\ mic.running /\ ~ mic.terminal
  <2>2. CASE burst
    <3>1. rec'.stage = "failing"
      BY <1>1, <2>1, <2>2 DEF Attempts
    <3> QED BY <3>1 DEF Attempting
  <2>3. CASE ~ burst /\ ready
    BY <1>7, <2>3 DEF BeginRecovery
  <2>4. CASE ~ burst /\ ~ ready
    <3>1. rec'.stage = "none"
      BY <1>1, <2>1, <2>4 DEF Attempts
    <3> QED BY <3>1 DEF Attempting
  <2> QED BY <2>2, <2>3, <2>4
<1>8. CASE ReportRecovering \/ TearDown \/ PostSealed \/ Rebuild \/ RebuildFails \/ ReportRecovered
  BY <1>8 DEF ReportRecovering, TearDown, PostSealed, Rebuild, RebuildFails, ReportRecovered, Attempting
<1>9. CASE FailRecovery
  <2>1. rec' = Finished \/ rec' = [CancelledRecovery EXCEPT !.stage = "none"]
    BY <1>9 DEF FailRecovery
  <2>2. rec'.stage = "none"
    BY <1>1, <1>4, <2>1 DEF Attempts
  <2> QED BY <2>2 DEF Attempting
<1>10. CASE DeviceChange
  <2>1. rec' = rec \/ rec' = [rec EXCEPT !.gen = @ + 1, !.mine = rec.gen + 1, !.stage = "waiting"]
    BY <1>10 DEF DeviceChange
  <2>2. rec' = rec \/ rec'.stage = "waiting"
    BY <1>1, <2>1 DEF Attempts
  <2> QED BY <2>2 DEF Attempting
<1>11. CASE World /\ ~ DeviceChange
  <2>1. ~ HelperCrash
    BY DEF HelperCrash, Alive
  <2>2. UNCHANGED rec \/ \E S : StopAdapters(S)
    BY <1>11, <2>1 DEF World, Frames, RollChunk, FramePathFails, SystemStreamStops
  <2> QED BY <1>5, <1>6, <2>2
<1>12. CASE Command
  <2>1. ~ RejectCommand /\ ~ StartAdapterFails /\ ~ TransitionFails /\ ~ Acknowledge
    BY DEF RejectCommand, Throw, StartAdapterFails, TransitionFails, Acknowledge, Alive
  <2>2. UNCHANGED rec \/ \E S : StopAdapters(S)
    BY <1>12, <2>1 DEF Command, ReadCommand, StartAdapter, Publish, Announce, Activate, Pause, Resume, EndTransition,
       StopAdapter, AnnounceStopped, EndStop
  <2> QED BY <1>5, <1>6, <2>2
<1> QED BY <1>7, <1>8, <1>9, <1>10, <1>11, <1>12 DEF HelperNext, RecoveryStep

LEMMA HelperStillRuns ==
    ASSUME HelperAssumption, Typed, RecoveryInv, StillRuns, HelperNext, UNCHANGED appVars
    PROVE  StillRuns'
<1> SUFFICES ASSUME Going', Alive', ~ Doomed', Attempting' \/ AppRecovering' \/ \E i \in DOMAIN evts' : IsRec(evts'[i])
             PROVE  mic'.running /\ Mic \in enabled'
  BY DEF StillRuns
<1>1. Going /\ Alive /\ ~ Doomed /\ (AppRecovering' <=> AppRecovering)
  BY HelperAlive, DoomHolds DEF Going, AppRecovering, appVars
<1>2. Unstopped /\ Microphone /\ Starting /\ Fresh
  BY DEF RecoveryInv
<1>3. Unforced
  BY <1>1, <1>2, GoingSteps
<1>4. CASE ReportRecovering \/ ReportRecovered
  <2>1. Attempting /\ UNCHANGED <<mic, enabled>>
    BY <1>4 DEF ReportRecovering, ReportRecovered, Attempting
  <2> QED BY <1>1, <2>1 DEF StillRuns
<1>5. CASE ~ ReportRecovering /\ ~ ReportRecovered
  <2>1. \A i \in DOMAIN evts' : IsRec(evts'[i]) => i \in DOMAIN evts /\ IsRec(evts[i])
    <3>1. PICK r : Wrote(r) /\ \A k \in DOMAIN r : ~ IsRec(r[k])
      BY <1>1, <1>2, <1>5, HelperSays DEF RecoveryInv
    <3> QED BY <3>1, PipeGrows
  <2>2. CASE Attempting' /\ ~ Attempting
    <3>1. mic.published /\ mic.running /\ UNCHANGED <<mic, enabled>>
      BY <2>2, AttemptBegins
    <3> QED BY <1>1, <1>2, <3>1 DEF Microphone
  <2>3. CASE Attempting \/ AppRecovering \/ \E i \in DOMAIN evts : IsRec(evts[i])
    <3>1. mic.running /\ Mic \in enabled /\ loop # "awaiting"
      BY <1>1, <1>2, <2>3 DEF StillRuns, Starting, Fresh
    <3>2. CASE RecoveryStep \/ World
      BY <3>1, <3>2, WorldLeaves
    <3>3. CASE ~ (RecoveryStep \/ World)
      <4>1. task.op \notin {"start", "announce"}
        BY <1>1, <1>2, <3>1 DEF Starting
      <4>2. ~ RejectCommand /\ ~ StartAdapterFails /\ ~ TransitionFails
        BY DEF RejectCommand, Throw, StartAdapterFails, TransitionFails, Alive
      <4>3. UNCHANGED <<mic, enabled>>
        BY <1>3, <3>3, <4>1, <4>2 DEF Unforced, ReadCommand, StartAdapter, Publish, Announce, Activate, Pause, Resume, EndTransition
      <4> QED BY <3>1, <4>3
    <3> QED BY <3>2, <3>3
  <2> QED BY <1>1, <2>1, <2>2, <2>3
<1> QED BY <1>4, <1>5

LEMMA RestHelper ==
    ASSUME HelperAssumption, Typed, RecoveryInv, RestInv, Helper
    PROVE  RestInv'
<1>1. HelperNext /\ UNCHANGED appVars /\ Buried /\ StillRuns /\ Announced /\ Halted /\ Controlled /\ Steered
  BY DEF Helper, RestInv
<1>2. Buried'
  BY <1>1, HelperAlive DEF Buried, appVars
<1>3. Halted'
  BY <1>1 DEF Halted, appVars
<1> QED
  BY <1>1, <1>2, <1>3, HelperStillRuns, HelperAnnounced, HelperControlled, HelperSteered DEF RestInv

\* The steps of the session.
LEMMA RestExits ==
    ASSUME NEW error, Exit(error)
    PROVE  RestInv'
<1>1. worker' = "exited" /\ loop' = "gone"
  BY DEF Exit
<1> QED BY <1>1 DEF RestInv, Buried, StillRuns, Announced, Halted, Controlled, Steered, Going, Alive

LEMMA RestSame ==
    ASSUME RestInv, UNCHANGED helperVars, UNCHANGED <<worker, startup, phase, state, announced, flags>>,
           control' # "none" /\ worker # "exited" => control' = control \/ (startup = "ok" /\ ~ flags.stop)
    PROVE  RestInv'
<1>1. Buried' /\ StillRuns' /\ Controlled'
  BY DEF RestInv, helperVars, Buried, StillRuns, Controlled, Alive, Going, Doomed, Attempting, AppRecovering
<1>2. Announced'
  BY DEF RestInv, helperVars, Announced, ToCome, Alive
<1>3. Halted'
  BY DEF RestInv, Halted
<1>4. Steered'
  BY DEF RestInv, helperVars, Steered, Being, Doomed, Alive
<1> QED BY <1>1, <1>2, <1>3, <1>4 DEF RestInv

LEMMA RestCaller ==
    ASSUME HelperAssumption, Typed, RestInv, Caller
    PROVE  RestInv'
<1>1. CASE StartReturns \/ CallFails \/ StopReturns
  BY <1>1, RestSame DEF StartReturns, CallFails, StopReturns
<1>2. ASSUME NEW op \in {"pause", "resume", "stop"}, Call(op) PROVE RestInv'
  BY <1>2, RestSame DEF Call
<1>3. CASE CallStart
  <2>1. /\ worker = "none" /\ worker' = "running" /\ phase' = "Running" /\ cmds' = Append(cmds, "start")
        /\ state' = [s \in Requested |-> "Running"]
        /\ UNCHANGED <<evts, loop, task, enabled, ctlState, mic, rec, startup, control, announced, flags>>
    BY <1>3 DEF CallStart
  <2>2. cmds' # <<>> /\ cmds'[Len(cmds')] = "start" /\ \E k \in DOMAIN cmds' : cmds'[k] = "start"
    <3>1. cmds \in Seq(Commands) /\ Len(cmds') = Len(cmds) + 1 /\ Len(cmds) \in Nat
      BY <2>1 DEF Typed, ControlTyped
    <3>2. Len(cmds') \in DOMAIN cmds' /\ cmds'[Len(cmds')] = "start"
      BY <2>1, <3>1
    <3> QED BY <2>1, <3>1, <3>2
  <2>3. Buried' /\ Controlled'
    BY <2>1 DEF RestInv, Buried, Controlled, Alive, Doomed
  <2>4. StillRuns'
    BY <2>1 DEF RestInv, StillRuns, Going, Alive, Doomed, Attempting, AppRecovering
  <2>5. Announced'
    BY <2>1, <2>2 DEF RestInv, Announced, ToCome, Alive
  <2>6. Halted'
    <3>1. ~ flags.stop
      BY <2>1 DEF RestInv, Halted
    <3> QED BY <2>1, <3>1 DEF RestInv, Halted
  <2>7. Steered'
    BY <2>1, <2>2 DEF Steered, Named
  <2> QED BY <2>3, <2>4, <2>5, <2>6, <2>7 DEF RestInv
<1> QED BY <1>1, <1>2, <1>3 DEF Caller

\* The phase a finished stop leads to, and the shutdown that follows it.
Finishes ==
    \/ UNCHANGED <<phase, cmds>>
    \/ phase = "Stopping" /\ phase' = "Stopped" /\ (UNCHANGED cmds \/ cmds' = Append(cmds, "shutdown"))

LEMMA FinishFinishes ==
    ASSUME Typed, FinishIfStopped
    PROVE  Finishes /\ flags'.stop = flags.stop
BY DEF FinishIfStopped, Finishes, Typed, AppTyped

\* A command behind the others is the last.
LEMMA LastCommand ==
    ASSUME Typed, NEW c \in Commands, cmds' = Append(cmds, c)
    PROVE  /\ cmds' # <<>> /\ cmds'[Len(cmds')] = c
           /\ \A k \in DOMAIN cmds : k \in DOMAIN cmds' /\ cmds'[k] = cmds[k]
<1>1. cmds \in Seq(Commands) /\ Len(cmds) \in Nat /\ Len(cmds') = Len(cmds) + 1
  BY DEF Typed, ControlTyped
<1>2. cmds'[Len(cmds')] = c /\ Len(cmds') \in DOMAIN cmds'
  BY <1>1
<1>3. \A k \in DOMAIN cmds : k \in DOMAIN cmds' /\ cmds'[k] = cmds[k]
  BY <1>1
<1> QED BY <1>1, <1>2, <1>3

LEMMA PhaseMoves ==
    ASSUME Typed, Steered, UNCHANGED <<worker, loop, task, ctlState>>, Finishes, Doomed => Doomed'
    PROVE  Steered'
<1> SUFFICES ASSUME worker = "running", Alive PROVE Steered'
  BY DEF Steered, Alive
<1>1. /\ cmds # <<>> => phase \in Named(cmds[Len(cmds)])
      /\ cmds = <<>> /\ task.op # "read" => phase \in Named(task.op)
      /\ cmds = <<>> /\ task.op = "read" /\ ~ Doomed => phase \in Being
  BY DEF Steered
<1>2. \A c : phase = "Stopping" /\ phase \in Named(c) => "Stopped" \in Named(c)
  BY DEF Named
<1>3. phase = "Stopping" /\ phase \in Being => "Stopped" \in Being
  BY DEF Being
<1>4. Being' = Being
  BY DEF Being
<1>5. CASE UNCHANGED cmds
  <2>1. phase' = phase \/ (phase = "Stopping" /\ phase' = "Stopped")
    BY DEF Finishes
  <2> HIDE DEF Being
  <2>2. Being' = Being
    BY <1>4
  <2>3. cmds # <<>> => phase' \in Named(cmds[Len(cmds)])
    BY <1>1, <1>2, <2>1
  <2>4. cmds = <<>> /\ task.op # "read" => phase' \in Named(task.op)
    BY <1>1, <1>2, <2>1
  <2>5. cmds = <<>> /\ task.op = "read" /\ ~ Doomed' => phase' \in Being
    BY <1>1, <1>3, <2>1
  <2> QED BY <1>5, <2>2, <2>3, <2>4, <2>5 DEF Steered
<1>6. CASE phase' = "Stopped" /\ cmds' = Append(cmds, "shutdown")
  <2>1. cmds' # <<>> /\ cmds'[Len(cmds')] = "shutdown"
    BY <1>6, LastCommand DEF Commands
  <2> QED BY <1>6, <2>1 DEF Steered, Named
<1> QED BY <1>5, <1>6 DEF Finishes

\* A control message.
LEMMA RestServe ==
    ASSUME HelperAssumption, Typed, RestInv, Serve
    PROVE  RestInv'
<1>1. Buried /\ StillRuns /\ Announced /\ Halted /\ Controlled /\ Steered
  BY DEF RestInv
<1>2. /\ worker = "running" /\ worker' = "running" /\ control \in {"pause", "resume", "stop"} /\ control' = "none"
      /\ UNCHANGED <<evts, loop, task, enabled, ctlState, mic, rec, startup, announced>>
  BY DEF Serve, Keep, KeepHelper, Typed, AppTyped
<1>3. flags \in [stop : BOOLEAN, shutdown : BOOLEAN, toggles : Nat] /\ startup = "ok" /\ ~ flags.stop
  BY <1>1, <1>2 DEF Halted, Typed, AppTyped
<1>4. Buried' /\ Controlled'
  BY <1>1, <1>2 DEF Buried, Controlled, Alive, Doomed
<1>5. CASE ~ (Accepts(control) /\ Alive)
  <2>1. UNCHANGED <<cmds, state, flags>> /\ (Alive => phase' = phase)
    BY <1>5 DEF Serve
  <2>2. StillRuns' /\ Announced'
    BY <1>1, <1>2, <2>1 DEF StillRuns, Announced, ToCome, Going, Alive, Doomed, Attempting, AppRecovering
  <2>3. Halted'
    BY <1>1, <1>2, <2>1 DEF Halted
  <2>4. Steered'
    BY <1>1, <1>2, <2>1 DEF Steered, Being, Doomed, Alive
  <2> QED BY <1>4, <2>2, <2>3, <2>4 DEF RestInv
<1>6. CASE Accepts(control) /\ Alive
  <2>1. /\ cmds' = Append(cmds, control) /\ SetAll(control)
        /\ flags'.stop = (flags.stop \/ control = "stop")
    BY <1>3, <1>6 DEF Serve
  <2>2. /\ \A s \in Requested : state'[s] \in {"Paused", "Running", "Stopping"} /\ (control = "stop" => state'[s] = "Stopping")
        /\ phase' \in Named(control)
    BY <1>2, <2>1 DEF SetAll, Named
  <2>3. /\ cmds' # <<>> /\ cmds'[Len(cmds')] = control
        /\ \A k \in DOMAIN cmds : k \in DOMAIN cmds' /\ cmds'[k] = cmds[k]
    BY <1>2, <2>1, LastCommand DEF Commands
  <2>4. ~ AppRecovering' /\ (Going' => Going)
    BY <1>2, <1>3, <2>1, <2>2 DEF AppRecovering, Going
  <2>5. StillRuns'
    BY <1>1, <1>2, <2>4 DEF StillRuns, Alive, Doomed, Attempting
  <2>6. Announced'
    BY <1>1, <1>2, <2>3 DEF Announced, ToCome, Alive
  <2>7. Halted'
    BY <1>1, <1>2, <1>3, <2>1, <2>2 DEF Halted
  <2>8. Steered'
    BY <2>2, <2>3 DEF Steered
  <2> QED BY <1>4, <2>5, <2>6, <2>7, <2>8 DEF RestInv
<1> QED BY <1>5, <1>6

\* An event that the session handles and goes on.
LEMMA RestHears ==
    ASSUME HelperAssumption, Typed, RestInv, worker = "running", evts # <<>>, Quiet, evts' = Tail(evts),
           ~ Terminal(Head(evts)), Finishes, flags'.stop = flags.stop,
           announced' = announced \cup (IF Head(evts).type = "started" THEN {Head(evts).source} ELSE {}),
           startup' = IF announced' = Requested THEN "ok" ELSE startup,
           flags.stop => \A s \in Requested : state'[s] \notin {"Running", "Recovering"},
           \A s \in Requested : s # Mic => state'[s] # "Recovering",
           AppRecovering' => AppRecovering \/ IsRec(Head(evts))
    PROVE  RestInv'
<1> DEFINE e == Head(evts)
<1>1. Buried /\ StillRuns /\ Announced /\ Halted /\ Controlled /\ Steered
  BY DEF RestInv
<1>2. UNCHANGED <<worker, control, loop, task, enabled, ctlState, mic, rec>>
  BY DEF Quiet, Keep, KeepHelper
<1>3. /\ e \in HelperEvent /\ e = evts[1] /\ 1 \in DOMAIN evts
      /\ \A i \in DOMAIN evts' : i + 1 \in DOMAIN evts /\ evts'[i] = evts[i + 1] /\ i + 1 # 1
      /\ \A i \in DOMAIN evts : i # 1 => i - 1 \in DOMAIN evts' /\ evts'[i - 1] = evts[i]
      /\ \A i, j \in DOMAIN evts' : i + 1 = j + 1 => i = j
  <2>1. evts \in Seq(HelperEvent) /\ evts # <<>>
    BY DEF Typed, WireTyped
  <2>2. e \in HelperEvent /\ e = evts[1] /\ 1 \in DOMAIN evts
    BY <2>1
  <2>3. Len(evts) \in Nat /\ DOMAIN evts = 1 .. Len(evts) /\ DOMAIN evts' = 1 .. Len(evts) - 1
    BY <2>1
  <2>4. \A i \in 1 .. Len(evts) - 1 : evts'[i] = evts[i + 1]
    BY <2>1
  <2>5. \A i \in DOMAIN evts : i # 1 => i - 1 \in DOMAIN evts' /\ (i - 1) + 1 = i
    BY <2>3
  <2>6. \A i \in DOMAIN evts' : i + 1 \in DOMAIN evts /\ i + 1 # 1
    BY <2>3
  <2>7. \A i, j \in DOMAIN evts' : i + 1 = j + 1 => i = j
    BY <2>3
  <2> QED BY <2>2, <2>3, <2>4, <2>5, <2>6, <2>7
<1>4. Doomed <=> Doomed'
  <2>1. Doomed => Doomed'
    BY <1>3 DEF Doomed
  <2>2. Doomed' => Doomed
    BY <1>3 DEF Doomed
  <2> QED BY <2>1, <2>2
<1>5. Buried' /\ Controlled'
  BY <1>1, <1>2, <1>4 DEF Buried, Controlled, Alive
<1>6. StillRuns'
  <2>1. \A i \in DOMAIN evts' : IsRec(evts'[i]) => \E j \in DOMAIN evts : IsRec(evts[j])
    BY <1>3
  <2>2. AppRecovering' => AppRecovering \/ \E j \in DOMAIN evts : IsRec(evts[j])
    BY <1>3
  <2>3. (Going' <=> Going) /\ (Alive' <=> Alive) /\ (Attempting' <=> Attempting)
    BY <1>2 DEF Going, Alive, Attempting
  <2> QED BY <1>1, <1>2, <1>4, <2>1, <2>2, <2>3 DEF StillRuns
<1>7. Steered'
  BY <1>1, <1>2, <1>4, PhaseMoves
<1>8. ToCome' = ToCome
  BY <1>2 DEF ToCome
<1>9. \A s : Announces(e, s) <=> e.type = "started" /\ s = e.source
  BY DEF Announces
<1> HIDE DEF e
<1>10. announced' = announced \cup (IF e.type = "started" THEN {e.source} ELSE {})
       /\ (e.type = "started" => e.source \in Requested)
  BY HeardEvent DEF e
<1>11. Announced'
  <2>1. /\ \A s \in Requested : \A i, j \in DOMAIN evts : Announces(evts[i], s) /\ Announces(evts[j], s) => i = j
        /\ \A s \in announced \cup ToCome : \A i \in DOMAIN evts : ~ Announces(evts[i], s)
        /\ announced \cap ToCome = {}
        /\ Alive => \A s \in Requested : s \in announced \cup ToCome \/ \E i \in DOMAIN evts : Announces(evts[i], s)
        /\ task.op = "announce" => \A j, k \in DOMAIN task.todo : task.todo[j] = task.todo[k] => j = k
        /\ task.op \in {"start", "announce"} => loop = "awaiting"
        /\ task.op \in {"pause", "resume", "stop", "stopped"} => loop = "capturing"
        /\ loop = "awaiting" /\ task.op = "read" => \E k \in DOMAIN cmds : cmds[k] = "start"
    BY <1>1 DEF Announced
  <2>2. \A s \in Requested : \A i, j \in DOMAIN evts' : Announces(evts'[i], s) /\ Announces(evts'[j], s) => i = j
    BY <1>3, <2>1
  <2>3. \A s \in announced' \cup ToCome : \A i \in DOMAIN evts' : ~ Announces(evts'[i], s)
    <3> SUFFICES ASSUME NEW s \in announced' \cup ToCome, NEW i \in DOMAIN evts', Announces(evts'[i], s) PROVE FALSE
      OBVIOUS
    <3>1. i + 1 \in DOMAIN evts /\ Announces(evts[i + 1], s) /\ i + 1 # 1
      BY <1>3
    <3>2. CASE s \in announced \cup ToCome
      BY <2>1, <3>1, <3>2
    <3>3. CASE s = e.source /\ e.type = "started"
      <4>1. s \in Requested /\ Announces(evts[1], s) /\ 1 \in DOMAIN evts
        BY <1>3, <1>9, <1>10, <3>3
      <4> QED BY <2>1, <3>1, <4>1
    <3> QED BY <1>10, <3>2, <3>3
  <2>4. announced' \cap ToCome = {}
    <3>1. e.type = "started" => e.source \notin ToCome
      BY <1>3, <1>9, <2>1
    <3> QED BY <1>10, <2>1, <3>1
  <2>5. Alive => \A s \in Requested : s \in announced' \cup ToCome \/ \E i \in DOMAIN evts' : Announces(evts'[i], s)
    <3> SUFFICES ASSUME Alive, NEW s \in Requested
                 PROVE  s \in announced' \cup ToCome \/ \E i \in DOMAIN evts' : Announces(evts'[i], s)
      OBVIOUS
    <3>1. CASE s \in announced \cup ToCome
      BY <1>10, <3>1
    <3>2. ASSUME NEW i \in DOMAIN evts, Announces(evts[i], s)
          PROVE  s \in announced' \cup ToCome \/ \E j \in DOMAIN evts' : Announces(evts'[j], s)
      <4>1. CASE i = 1
        BY <1>3, <1>9, <1>10, <3>2, <4>1
      <4>2. CASE i # 1
        BY <1>3, <3>2, <4>2
      <4> QED BY <4>1, <4>2
    <3> QED BY <2>1, <3>1, <3>2
  <2>6. loop = "awaiting" /\ task.op = "read" => \E k \in DOMAIN cmds' : cmds'[k] = "start"
    <3>1. CASE UNCHANGED cmds
      BY <2>1, <3>1
    <3>2. CASE cmds' = Append(cmds, "shutdown")
      <4>1. \A k \in DOMAIN cmds : k \in DOMAIN cmds' /\ cmds'[k] = cmds[k]
        BY <3>2, LastCommand DEF Commands
      <4> QED BY <2>1, <4>1
    <3> QED BY <3>1, <3>2 DEF Finishes
  <2>7. Alive' <=> Alive
    BY <1>2 DEF Alive
  <2> QED BY <1>2, <1>8, <2>1, <2>2, <2>3, <2>4, <2>5, <2>6, <2>7 DEF Announced
<1>12. Halted'
  <2>1. startup = "ok" <=> announced = Requested
    BY <1>1 DEF Halted
  <2>2. announced = Requested => announced' = Requested
    BY <1>10
  <2>3. startup' = "ok" <=> announced' = Requested
    BY <2>1, <2>2
  <2>4. startup = "ok" => startup' = "ok"
    BY <2>1, <2>2, <2>3
  <2> QED BY <1>1, <1>2, <2>3, <2>4 DEF Halted
<1> QED BY <1>5, <1>6, <1>7, <1>11, <1>12 DEF RestInv

LEMMA RestEvent ==
    ASSUME HelperAssumption, Typed, RestInv, PollEvent
    PROVE  RestInv'
<1> DEFINE e == Head(evts)
<1>1. /\ worker = "running" /\ evts # <<>> /\ (worker' = "running" => evts' = Tail(evts))
      /\ Announced /\ Halted
  BY DEF PollEvent, RestInv
<1>2. e \in HelperEvent /\ (IsRec(e) \/ e.type \in {"started", "stopped"} => e.source \in Requested)
  BY <1>1, HeardEvent
<1>3. /\ startup = "ok" <=> announced = Requested
      /\ flags.stop => startup = "ok" /\ \A s \in Requested : state[s] \notin {"Running", "Recovering"}
      /\ \A s \in Requested : s # Mic => state[s] # "Recovering"
  BY <1>1 DEF Halted
<1>4. \/ e.type = "started" /\ OnStarted(e)
      \/ e.type = "sealed" /\ OnSealed(e)
      \/ e.type = "stopped" /\ OnStopped(e)
      \/ e.type = "interrupted" /\ OnInterrupted(e)
      \/ e.type = "recovering" /\ OnRecovering(e)
      \/ e.type = "recovered" /\ OnRecovered(e)
      \/ e.type = "fatal" /\ Fail("fatal")
      \/ e.type = "ack" /\ OnAck
  BY EventKinds
<1>5. ASSUME NEW error, Fail(error) PROVE RestInv'
  BY <1>5, RestExits DEF Fail
<1>6. e = Head(evts)
  OBVIOUS
<1> HIDE DEF e
<1>7. ASSUME Quiet, Finishes, flags'.stop = flags.stop, UNCHANGED <<announced, startup>>, ~ Terminal(e), e.type # "started",
             flags.stop => \A s \in Requested : state'[s] \notin {"Running", "Recovering"},
             \A s \in Requested : s # Mic => state'[s] # "Recovering",
             AppRecovering' => AppRecovering \/ IsRec(e)
      PROVE  RestInv'
  <2>1. evts' = Tail(evts)
    BY <1>1, <1>7 DEF Quiet, Keep
  <2>2. startup' = IF announced' = Requested THEN "ok" ELSE startup
    BY <1>3, <1>7
  <2>3. announced' = announced \cup (IF e.type = "started" THEN {e.source} ELSE {})
    BY <1>7
  <2> QED BY <1>1, <1>6, <1>7, <2>1, <2>2, <2>3, RestHears
<1>8. ASSUME Quiet, FinishIfStopped, UNCHANGED <<announced, startup, state>>, ~ Terminal(e), e.type # "started"
      PROVE  RestInv'
  <2>1. Finishes /\ flags'.stop = flags.stop
    BY <1>8, FinishFinishes
  <2> QED BY <1>3, <1>7, <1>8, <2>1 DEF AppRecovering
<1>9. CASE e.type = "started" /\ OnStarted(e)
  <2>1. CASE Exit("catalog")
    BY <2>1, RestExits
  <2>2. CASE /\ startup' = IF committer' THEN "ok" ELSE startup
             /\ state' = [state EXCEPT ![e.source] = "Running"]
             /\ Quiet /\ UNCHANGED <<cmds, phase>>
    <3>1. /\ evts' = Tail(evts) /\ announced' = announced \cup {e.source} /\ UNCHANGED flags /\ e.source \in Requested
      BY <1>1, <1>2, <1>9, <2>2 DEF Quiet, Keep, OnStarted
    <3>2. \A s \in Requested : state'[s] = IF s = e.source THEN "Running" ELSE state[s]
      BY <2>2, <3>1 DEF Typed, AppTyped
    <3>3. ~ flags.stop
      <4>1. e = evts[1] /\ 1 \in DOMAIN evts
        BY <1>1, <1>6 DEF Typed, WireTyped
      <4>2. e.source \notin announced
        BY <1>1, <1>9, <4>1 DEF Announced, Announces
      <4> QED BY <1>3, <3>1, <4>2
    <3>4. ~ Terminal(e) /\ Finishes
      BY <1>9, <2>2 DEF Terminal, Finishes
    <3>5. \A s \in Requested : s # Mic => state'[s] # "Recovering"
      BY <1>3, <3>2
    <3>6. AppRecovering' => AppRecovering
      BY <3>2 DEF AppRecovering
    <3>7. startup' = IF announced' = Requested THEN "ok" ELSE startup
      BY <2>2 DEF committer
    <3>8. announced' = announced \cup (IF e.type = "started" THEN {e.source} ELSE {})
      BY <1>9, <3>1
    <3> QED BY <1>1, <1>6, <2>2, <3>1, <3>3, <3>4, <3>5, <3>6, <3>7, <3>8, RestHears
  <2> QED BY <1>9, <2>1, <2>2 DEF OnStarted
<1>10. CASE e.type = "sealed" /\ OnSealed(e)
  <2>1. CASE Exit("protocol") \/ Exit("commit")
    BY <2>1, RestExits
  <2>2. CASE FinishIfStopped /\ Quiet /\ UNCHANGED <<startup, state, announced>>
    <3>1. ~ Terminal(e) /\ e.type # "started"
      BY <1>10 DEF Terminal
    <3> QED BY <1>8, <2>2, <3>1
  <2> QED BY <1>10, <2>1, <2>2 DEF OnSealed
<1>11. CASE e.type = "stopped" /\ OnStopped(e)
  <2>1. /\ state' = [state EXCEPT ![e.source] = "Stopped"] /\ e.source \in Requested
        /\ Quiet /\ UNCHANGED <<cmds, startup, phase, announced, flags>> /\ ~ Terminal(e) /\ e.type # "started"
    BY <1>2, <1>11 DEF OnStopped, Terminal
  <2>2. \A s \in Requested : state'[s] = IF s = e.source THEN "Stopped" ELSE state[s]
    BY <2>1 DEF Typed, AppTyped
  <2>3. AppRecovering' => AppRecovering
    BY <2>2 DEF AppRecovering
  <2>4. flags.stop => \A s \in Requested : state'[s] \notin {"Running", "Recovering"}
    BY <1>3, <2>2
  <2>5. \A s \in Requested : s # Mic => state'[s] # "Recovering"
    BY <1>3, <2>2
  <2> QED BY <1>7, <2>1, <2>3, <2>4, <2>5 DEF Finishes
<1>12. CASE e.type = "interrupted" /\ OnInterrupted(e)
  <2>1. CASE Ignored /\ e.n = 1
    <3>1. ~ Terminal(e) /\ e.type # "started" /\ Quiet /\ UNCHANGED <<cmds, startup, phase, state, announced, flags>>
      BY <1>12, <2>1 DEF Terminal, Ignored
    <3> QED BY <1>3, <1>7, <3>1 DEF Finishes, AppRecovering
  <2> QED BY <1>5, <1>12, <2>1 DEF OnInterrupted
<1>13. CASE e.type \in {"recovering", "recovered"} /\ (OnRecovering(e) \/ OnRecovered(e))
  <2>1. CASE Fail("protocol")
    BY <1>5, <2>1
  <2>2. CASE \E v \in {"Running", "Recovering"} :
               /\ state[Mic] \in {"Running", "Recovering"} /\ state' = [state EXCEPT ![Mic] = v]
               /\ Quiet /\ UNCHANGED <<cmds, startup, phase, announced, flags>>
    <3>1. ~ Terminal(e) /\ e.type # "started" /\ IsRec(e) /\ Mic \in Requested
      <4>1. ~ Terminal(e) /\ e.type # "started" /\ IsRec(e)
        BY <1>13 DEF Terminal, IsRec
      <4> QED BY <1>2, <4>1 DEF HelperEvent
    <3>2. ~ flags.stop
      BY <1>3, <2>2, <3>1
    <3>3. \A s \in Requested : s # Mic => state'[s] = state[s]
      BY <2>2, <3>1 DEF Typed, AppTyped
    <3> QED BY <1>3, <1>7, <2>2, <3>1, <3>2, <3>3 DEF Finishes
  <2> QED BY <1>13, <2>1, <2>2 DEF OnRecovering, OnRecovered
<1>14. CASE e.type = "ack" /\ OnAck
  <2>1. ~ Terminal(e) /\ e.type # "started" /\ FinishIfStopped /\ Quiet /\ UNCHANGED <<startup, state, announced>>
    BY <1>14 DEF OnAck, Terminal
  <2> QED BY <1>8, <2>1
<1>15. CASE Fail("fatal")
  BY <1>5, <1>15
<1> QED BY <1>4, <1>9, <1>10, <1>11, <1>12, <1>13, <1>14, <1>15

LEMMA RestPoll ==
    ASSUME HelperAssumption, Typed, RestInv, Poll
    PROVE  RestInv'
<1>1. CASE PollNothing
  <2>1. CASE FinishIfStopped /\ Quiet /\ UNCHANGED <<evts, startup, state, announced>>
    <3>1. Buried /\ StillRuns /\ Announced /\ Halted /\ Controlled /\ Steered /\ Finishes /\ flags'.stop = flags.stop
      BY <2>1, FinishFinishes DEF RestInv
    <3>2. UNCHANGED <<worker, control, loop, task, enabled, ctlState, mic, rec>>
      BY <2>1 DEF Quiet, Keep, KeepHelper
    <3>3. Buried' /\ Controlled' /\ StillRuns'
      BY <2>1, <3>1, <3>2 DEF Buried, Controlled, StillRuns, Going, Alive, Doomed, Attempting, AppRecovering
    <3>4. Steered'
      BY <2>1, <3>1, <3>2, PhaseMoves DEF Doomed
    <3>5. Halted'
      BY <2>1, <3>1, <3>2 DEF Halted
    <3>6. (\E k \in DOMAIN cmds : cmds[k] = "start") => \E k \in DOMAIN cmds' : cmds'[k] = "start"
      <4>1. CASE UNCHANGED cmds
        BY <4>1
      <4>2. CASE cmds' = Append(cmds, "shutdown")
        BY <4>2, LastCommand DEF Commands
      <4> QED BY <3>1, <4>1, <4>2 DEF Finishes
    <3>7. Announced'
      BY <2>1, <3>1, <3>2, <3>6 DEF Announced, ToCome, Alive
    <3> QED BY <3>3, <3>4, <3>5, <3>7 DEF RestInv
  <2>2. CASE Exit("invalid")
    BY <2>2, RestExits
  <2> QED BY <1>1, <2>1, <2>2 DEF PollNothing
<1>2. CASE PollClosed
  BY <1>2, RestExits DEF PollClosed
<1>3. CASE PollRefused
  <2>1. Exit("failed") \/ Exit("invalid")
    BY <1>3 DEF PollRefused
  <2> QED BY <2>1, RestExits
<1>4. CASE PollEvent
  BY <1>4, RestEvent
<1> QED BY <1>1, <1>2, <1>3, <1>4 DEF Poll

LEMMA RestInit ==
    ASSUME HelperAssumption, Init
    PROVE  RestInv
<1>1. /\ cmds = <<>> /\ evts = <<>> /\ loop = "awaiting" /\ task.op = "read" /\ enabled = {} /\ ctlState = "idle"
      /\ rec.stage = "none" /\ worker = "none" /\ control = "none" /\ startup = "none" /\ announced = {}
      /\ flags.stop = FALSE /\ state = [s \in Requested |-> "Requested"]
  BY DEF Init, HelperInit, ControlInit, Resting, NoAttempt
<1>2. Requested # {} /\ ToCome = Requested
  BY <1>1, HelperAssumption DEF ToCome
<1>3. Buried /\ Controlled /\ Steered
  BY <1>1 DEF Buried, Controlled, Steered
<1>4. StillRuns
  BY <1>1 DEF StillRuns, Attempting, AppRecovering
<1>5. Announced
  BY <1>1, <1>2 DEF Announced
<1>6. Halted
  BY <1>1, <1>2 DEF Halted
<1> QED BY <1>3, <1>4, <1>5, <1>6 DEF RestInv

LEMMA RestInvariance == Spec => []RestInv
<1>1. Init => RestInv
  BY HelperAssumption, RestInit
<1>2. Typed /\ RecoveryInv /\ RestInv /\ [Next]_vars => RestInv'
  <2> SUFFICES ASSUME Typed, RecoveryInv, RestInv, [Next]_vars PROVE RestInv'
    OBVIOUS
  <2>1. CASE UNCHANGED vars
    BY <2>1, RestSame DEF vars, appVars
  <2>2. CASE Next
    BY <2>2, HelperAssumption, RestCaller, RestServe, RestPoll, RestHelper DEF Next
  <2> QED BY <2>1, <2>2
<1> QED BY <1>1, <1>2, AlwaysTyped, RecoveryInvariance, PTL DEF Spec

\* With nothing on its way a source that recovers would be one whose recovery goes on.
LEMMA NothingRecovers ==
    ASSUME Typed, RecoveryInv, RestInv, AtRest
    PROVE  \A s \in Requested : state[s] # "Recovering"
<1>1. worker = "running" /\ Alive /\ evts = <<>> /\ rec.stage = "none" /\ ~ Doomed
  BY DEF AtRest, Doomed
<1>2. /\ flags.stop => \A s \in Requested : state[s] # "Recovering"
      /\ \A s \in Requested : s # Mic => state[s] # "Recovering"
  BY <1>1 DEF RestInv, Halted
<1>3. ASSUME AppRecovering, ~ flags.stop PROVE FALSE
  <2>1. Going
    BY <1>1, <1>3 DEF Going
  <2>2. mic.running
    BY <1>1, <1>3, <2>1 DEF RestInv, StillRuns
  <2>3. DOMAIN Line = 1 .. 1 /\ Line[1] = Told
    <3>1. Len(evts) = 0
      BY <1>1
    <3> QED BY <3>1, LineShape
  <2>4. Told.type = "recovering"
    BY <1>3 DEF Told, Event
  <2>5. LastRec(Line, 1)
    BY <2>3, <2>4 DEF LastRec, IsRec
  <2>6. Fits(Told)
    BY <1>1, <2>1, <2>3, <2>5 DEF RecoveryInv, InTurn
  <2> QED BY <1>1, <2>2, <2>4, <2>6 DEF Fits, Suits
<1> QED BY <1>2, <1>3 DEF AppRecovering

\* Whenever the pipes are empty and neither side is in the middle of something, the
\* phase of the session is the state of the helper's controller, a running session has
\* all of its sources, and no source is left recovering.
THEOREM AgreementAtRest == Spec => []AgreeAtRest
<1>1. Typed /\ RecoveryInv /\ RestInv => AgreeAtRest
  <2> SUFFICES ASSUME Typed, RecoveryInv, RestInv, AtRest
               PROVE  /\ \A s \in Requested : state[s] # "Recovering"
                      /\ phase = "Running" => startup = "ok" /\ enabled = Requested /\ ctlState = "running"
                      /\ phase = "Paused" => ctlState = "paused"
                      /\ phase \in {"Stopping", "Stopped"} => enabled = {} /\ loop = "stopped"
    BY DEF AgreeAtRest
  <2>1. worker = "running" /\ Alive /\ cmds = <<>> /\ evts = <<>> /\ task.op = "read" /\ ~ Doomed
    BY DEF AtRest, Resting, Doomed
  <2>2. /\ ctlState = "stopped" => enabled = {} /\ loop = "stopped"
        /\ ctlState \in {"running", "paused"} => enabled = Requested
        /\ phase \in Being
    BY <2>1 DEF RestInv, Controlled, Steered
  <2>3. startup = "ok"
    <3>1. loop # "awaiting"
      BY <2>1 DEF RestInv, Announced
    <3>2. ToCome = {}
      BY <2>1, <3>1 DEF ToCome
    <3>3. Requested \subseteq announced
      BY <2>1, <3>2 DEF RestInv, Announced
    <3>4. announced = Requested
      BY <3>3 DEF Typed, AppTyped
    <3> QED BY <2>1, <3>4 DEF RestInv, Halted
  <2> QED BY <2>2, <2>3, NothingRecovers DEF Being
<1> QED BY <1>1, AlwaysTyped, RecoveryInvariance, RestInvariance, PTL

=============================================================================
