---------------------------- MODULE WorkerProofs ----------------------------
(***************************************************************************)
(* Machine-checked proofs about a generated Worker, for any declaration,   *)
(* any source and any clock: what the loop, the channel and the executions *)
(* hold is what the source has handed out, and the slots of the limiter    *)
(* that were used lie behind the next one it has to give.                  *)
(***************************************************************************)
EXTENDS Worker, FiniteSetTheorems, SequenceTheorems, TLAPS

USE WorkerAssumption

Places == {"idle", "pacing", "granted", "stopped"}
WorkerTypes ==
    /\ wdecl \in WorkerDecls /\ wplan = workerPlan(wdecl)
    /\ wclock \in Nat /\ paceNext \in Nat /\ grants \in Seq(Nat)
    /\ loop \in [at : Places, item : {loop.item}, until : Nat]
    /\ IsFiniteSet(execs)
    /\ source \in Seq(ToSet(wdecl.items)) /\ workerItems \in Seq(ToSet(workerItems))

\* An execution that waits has an attempt left.
ExecOK(x) ==
    /\ x \in [id : {x.id}, attempt : 1..wplan.retry.attempts, at : {"run", "backoff"}, until : {x.until}]
    /\ x.at = "backoff" => x.attempt < wplan.retry.attempts
ExecsOK == \A x \in execs : ExecOK(x)

\* The slot the loop waits for, and the next one, come an interval after the last one used.
NextSlot == IF loop.at = "pacing" THEN loop.until ELSE paceNext
SlotsAhead ==
    /\ \A i \in DOMAIN grants : grants[i] + wplan.interval <= NextSlot
    /\ loop.at = "pacing" => paceNext = loop.until + wplan.interval

\* The source holds the end of what was declared.
Handed == Len(wdecl.items) - Len(source)
SourceIsTheRest ==
    /\ Handed \in Nat
    /\ \A i \in 1..Len(source) : source[i] = wdecl.items[Handed + i]

Kept == ToSet(workerItems) \cup {x.id : x \in execs} \cup finished
        \cup (IF loop.item = Absent THEN {} ELSE {loop.item})
ItemsAreKept == Continuous =>
    /\ (loop.item = Absent) <=> loop.at \in {"idle", "stopped"}
    /\ Kept \subseteq WantedTaken
    /\ loop.at # "stopped" => WantedTaken \subseteq Kept
    /\ \E x : WantedTaken \ Kept \subseteq {x}

WorkerInv ==
    /\ WorkerTypes /\ WorkerTypeOK /\ ConcurrencyBounded /\ GrantsArePaced
    /\ ExecsOK /\ SlotsAhead /\ SourceIsTheRest /\ ItemsAreKept

-----------------------------------------------------------------------------
\* What a plan is: at least one body at a time, one item queued and one attempt.
LEMMA PlanTypes ==
    ASSUME NEW d \in WorkerDecls
    PROVE  LET p == workerPlan(d)
           IN  /\ p.concurrency \in Nat \ {0} /\ p.batchSize \in Nat \ {0}
               /\ p.interval \in Nat /\ p.retry.attempts \in Nat \ {0}
<1>1. \A n : NumberOrAbsent(n) => AtLeastOne(n) \in Nat \ {0}
  BY DEF NumberOrAbsent, AtLeastOne
<1>2. /\ NumberOrAbsent(Setting(d.settings, "concurrency"))
      /\ NumberOrAbsent(Setting(d.settings, "batchSize"))
      /\ NumberOrAbsent(Setting(d.settings, "maxRate"))
  OBVIOUS
<1>3. workerRetryPolicy(d.settings).attempts \in Nat \ {0}
  BY <1>1 DEF workerRetryPolicy
<1>4. \A rate \in Int : rate > 0 => TicksPerSecond \div rate \in Nat
  OBVIOUS
<1>5. workerPlan(d).interval \in Nat
  <2> DEFINE rate == Setting(d.settings, "maxRate")
  <2>1. CASE rate = Absent \/ rate <= 0
    BY <2>1 DEF workerPlan
  <2>2. CASE ~(rate = Absent \/ rate <= 0)
    <3>1. rate \in Int /\ rate > 0
      BY <1>2, <2>2 DEF NumberOrAbsent
    <3> QED BY <1>4, <2>2, <3>1 DEF workerPlan
  <2> QED BY <2>1, <2>2
<1> QED BY <1>1, <1>2, <1>3, <1>5 DEF workerPlan

\* The larger of two numbers.
LEMMA MaxOfTwo ==
    ASSUME NEW m \in Nat, NEW n \in Nat
    PROVE  LET x == Max({m, n}) IN x \in Nat /\ x >= m /\ x >= n
<1>1. \E x \in {m, n} : \A y \in {m, n} : x >= y
  <2>1. CASE m >= n
    BY <2>1
  <2>2. CASE n >= m
    BY <2>2
  <2> QED BY <2>1, <2>2
<1>2. LET x == Max({m, n}) IN x \in {m, n} /\ \A y \in {m, n} : x >= y
  BY <1>1 DEF Max
<1> QED BY <1>2

\* The wanted items handed out, by their places in the declaration.
LEMMA WantedByPlace ==
    ASSUME wdecl \in WorkerDecls, source \in Seq(ToSet(wdecl.items)), Handed \in Nat
    PROVE  WantedTaken = {wdecl.items[i].name : i \in {k \in 1..Handed : wdecl.items[k].wanted}}
<1> DEFINE items == wdecl.items
           taken == SubSeq(items, 1, Handed)
<1>1. items \in Seq(ToSet(items)) /\ Handed \in 0..Len(items)
  BY DEF Handed
<1>2. DOMAIN taken = 1..Handed /\ \A i \in 1..Handed : taken[i] = items[i]
  BY <1>1
<1>3. ToSet(taken) = {items[i] : i \in 1..Handed}
  BY <1>2 DEF ToSet
<1>4. WantedTaken = {x.name : x \in {i \in ToSet(taken) : i.wanted}}
  BY DEF WantedTaken, Handed
<1> HIDE DEF taken
<1>5. {i \in ToSet(taken) : i.wanted} = {items[i] : i \in {k \in 1..Handed : items[k].wanted}}
  BY <1>3
<1> QED BY <1>4, <1>5

-----------------------------------------------------------------------------
LEMMA WorkerInitInv == WorkerInit => WorkerInv
<1> SUFFICES ASSUME WorkerInit PROVE WorkerInv
  OBVIOUS
<1>1. wplan.concurrency \in Nat \ {0} /\ wplan.batchSize \in Nat \ {0} /\ wplan.interval \in Nat
  BY PlanTypes DEF WorkerInit
<1>2. WorkerTypes /\ Cardinality(execs) = 0
  <2>1. wdecl.items \in Seq(ToSet(wdecl.items)) /\ wdecl \in WorkerDecls /\ source = wdecl.items
    BY DEF WorkerInit
  <2>2. loop \in [at : Places, item : {loop.item}, until : Nat]
    BY DEF WorkerInit, Start, Places
  <2>3. workerItems \in Seq(ToSet(workerItems)) /\ grants \in Seq(Nat)
    BY DEF WorkerInit
  <2>4. IsFiniteSet(execs) /\ Cardinality(execs) = 0
    BY FS_EmptySet DEF WorkerInit
  <2> QED BY <2>1, <2>2, <2>3, <2>4 DEF WorkerInit, WorkerTypes
<1>3. WorkerTypeOK /\ ConcurrencyBounded /\ GrantsArePaced /\ ExecsOK /\ SlotsAhead
  BY <1>1, <1>2 DEF ExecsOK, WorkerInit, WorkerTypeOK, ConcurrencyBounded, GrantsArePaced, SlotsAhead, Start
<1>4. SourceIsTheRest /\ Handed = 0
  BY DEF WorkerInit, SourceIsTheRest, Handed
<1>5. WantedTaken = {}
  BY <1>2, <1>4, WantedByPlace DEF WorkerTypes
<1>6. Kept = {}
  BY DEF WorkerInit, Kept, ToSet, Start
<1>7. ItemsAreKept
  BY <1>5, <1>6 DEF WorkerInit, ItemsAreKept, Start
<1> QED BY <1>2, <1>3, <1>4, <1>7 DEF WorkerInv

\* A step that hands out no item and moves what is kept at most from hand to hand.
LEMMA NothingHanded ==
    ASSUME WorkerInv, Quiet, UNCHANGED source, Kept' = Kept, loop.at # "stopped" \/ loop' = loop,
           Continuous => ((loop.item = Absent)' <=> loop'.at \in {"idle", "stopped"}), loop'.at # "stopped" \/ loop' = loop
    PROVE  SourceIsTheRest' /\ ItemsAreKept'
<1>1. SourceIsTheRest' /\ WantedTaken' = WantedTaken
  BY DEF WorkerInv, SourceIsTheRest, Handed, WantedTaken, Quiet
<1>2. ItemsAreKept'
  BY <1>1 DEF WorkerInv, ItemsAreKept, Continuous, Quiet
<1> QED BY <1>1, <1>2

\* A step that leaves the limiter and the loop's wait alone keeps the pace.
LEMMA PaceKept ==
    ASSUME WorkerInv, Quiet, UNCHANGED <<grants, paceNext>>, (loop.at = "pacing" \/ loop'.at = "pacing") => loop' = loop
    PROVE  GrantsArePaced' /\ SlotsAhead'
  BY DEF WorkerInv, GrantsArePaced, SlotsAhead, NextSlot, Quiet

LEMMA TimePasses == ASSUME WorkerInv, WorkerTick \/ Cancel PROVE WorkerInv'
<1>1. wclock' \in Nat /\ wclock' >= wclock
  BY DEF WorkerInv, WorkerTypes, WorkerTick, Cancel
<1>2. UNCHANGED <<wdecl, wplan, loop, paceNext, source, workerItems, execs, grants, finished>>
  BY DEF WorkerTick, Cancel
<1>3. WorkerTypes' /\ WorkerTypeOK' /\ ExecsOK' /\ ConcurrencyBounded' /\ SlotsAhead'
  BY <1>1, <1>2 DEF WorkerInv, WorkerTypes, WorkerTypeOK, ExecsOK, ExecOK, ConcurrencyBounded, SlotsAhead, NextSlot
<1>4. GrantsArePaced'
  BY <1>1, <1>2 DEF WorkerInv, WorkerTypes, GrantsArePaced
<1>5. SourceIsTheRest' /\ ItemsAreKept'
  BY <1>2 DEF WorkerInv, SourceIsTheRest, Handed, ItemsAreKept, Kept, WantedTaken, Continuous
<1> QED BY <1>3, <1>4, <1>5 DEF WorkerInv

\* A reservation: the next slot is not before the last one, nor before now.
LEMMA ReserveStep ==
    ASSUME WorkerInv, NEW item, ReserveFor(item), loop.at = "idle", Quiet, UNCHANGED grants
    PROVE  /\ loop' \in [at : {"granted", "pacing"}, item : {item}, until : Nat]
           /\ paceNext' \in Nat /\ GrantsArePaced' /\ SlotsAhead'
<1> DEFINE start == Max({paceNext, wclock})
<1>1. start \in Nat /\ start >= paceNext
  BY MaxOfTwo DEF WorkerInv, WorkerTypes
<1>2. wplan.interval \in Nat
  BY PlanTypes DEF WorkerInv, WorkerTypes
<1>3. GrantsArePaced'
  BY DEF WorkerInv, GrantsArePaced, Quiet
<1> HIDE DEF start
<1>4. CASE wplan.interval = 0
  BY <1>2, <1>3, <1>4 DEF WorkerInv, WorkerTypes, ReserveFor, SlotsAhead, NextSlot, Quiet
<1>5. CASE wplan.interval # 0
  <2>1. loop' = [at |-> "pacing", item |-> item, until |-> start] /\ paceNext' = start + wplan.interval
    BY <1>5 DEF ReserveFor, start
  <2>2. SlotsAhead'
    <3>1. wplan' = wplan /\ grants' = grants /\ grants \in Seq(Nat) /\ paceNext \in Nat
      BY DEF WorkerInv, WorkerTypes, Quiet
    <3>2. \A i \in DOMAIN grants : grants[i] + wplan.interval <= paceNext
      BY DEF WorkerInv, SlotsAhead, NextSlot
    <3>3. \A i \in DOMAIN grants : grants[i] + wplan.interval <= start
      BY <1>1, <1>2, <3>1, <3>2
    <3> QED BY <2>1, <3>1, <3>3 DEF SlotsAhead, NextSlot
  <2> QED BY <1>1, <1>2, <1>3, <2>1, <2>2
<1> QED BY <1>4, <1>5

LEMMA TakeTickStep == ASSUME WorkerInv, TakeTick PROVE WorkerInv'
<1>1. ReserveFor(wclock) /\ loop.at = "idle" /\ Quiet /\ ~Continuous
      /\ UNCHANGED <<source, workerItems, execs, grants, finished>>
  BY DEF TakeTick
<1>2. /\ loop' \in [at : {"granted", "pacing"}, item : {wclock}, until : Nat]
      /\ paceNext' \in Nat /\ GrantsArePaced' /\ SlotsAhead'
  BY <1>1, ReserveStep
<1>3. WorkerTypes' /\ WorkerTypeOK' /\ ExecsOK' /\ ConcurrencyBounded'
  <2>1. loop' \in [at : Places, item : {loop'.item}, until : Nat] /\ loop'.at \in {"granted", "pacing"}
    BY <1>2 DEF Places
  <2> QED BY <1>1, <1>2, <2>1 DEF WorkerInv, WorkerTypes, WorkerTypeOK, ExecsOK, ExecOK, ConcurrencyBounded, Quiet
<1>4. SourceIsTheRest' /\ ItemsAreKept'
  BY <1>1 DEF WorkerInv, SourceIsTheRest, Handed, ItemsAreKept, Continuous, Quiet
<1> QED BY <1>2, <1>3, <1>4 DEF WorkerInv

LEMMA TakeItemStep == ASSUME WorkerInv, TakeItem PROVE WorkerInv'
<1> DEFINE item == Head(source)
           next == Handed + 1
<1>1. Continuous /\ loop.at = "idle" /\ source # <<>> /\ source' = Tail(source) /\ Quiet
      /\ UNCHANGED <<ticked, workerItems, execs, grants, finished>>
  BY DEF TakeItem
<1>2. IF item.wanted THEN ReserveFor(item.name) ELSE UNCHANGED <<loop, paceNext>>
  BY DEF TakeItem
<1>3. source \in Seq(ToSet(wdecl.items)) /\ SourceIsTheRest /\ wdecl \in WorkerDecls
  BY DEF WorkerInv, WorkerTypes
<1>4. source' \in Seq(ToSet(wdecl.items)) /\ Len(source') = Len(source) - 1
  BY <1>1, <1>3
<1>5. Handed' = next
  BY <1>1, <1>3, <1>4 DEF Handed, Quiet
<1>6. \A i \in 1..Len(source') : source'[i] = source[i + 1]
  BY <1>1, <1>3
<1>7. SourceIsTheRest'
  <2>1. \A i \in 1..Len(source') : source'[i] = wdecl.items[Handed + (i + 1)]
    BY <1>3, <1>4, <1>6 DEF SourceIsTheRest
  <2> QED BY <1>1, <1>3, <1>5, <2>1 DEF SourceIsTheRest, Quiet
<1>8. item = wdecl.items[next] /\ item.name # Absent
  <2>1. Len(source) >= 1 /\ item = source[1]
    BY <1>1, <1>3
  <2>2. item = wdecl.items[next]
    BY <1>3, <2>1 DEF SourceIsTheRest
  <2>3. item \in ToSet(wdecl.items)
    BY <1>3, <2>1
  <2> QED BY <1>3, <2>2, <2>3
<1>9. WantedTaken' = WantedTaken \cup (IF item.wanted THEN {item.name} ELSE {})
  <2>1. WantedTaken = {wdecl.items[i].name : i \in {k \in 1..Handed : wdecl.items[k].wanted}}
    BY <1>3, WantedByPlace DEF SourceIsTheRest
  <2>2. WantedTaken' = {wdecl.items[i].name : i \in {k \in 1..next : wdecl.items[k].wanted}}
    <3>1. (wdecl \in WorkerDecls /\ source \in Seq(ToSet(wdecl.items)) /\ Handed \in Nat)'
      BY <1>1, <1>3, <1>4, <1>7 DEF Quiet, SourceIsTheRest
    <3>2. (WantedTaken = {wdecl.items[i].name : i \in {k \in 1..Handed : wdecl.items[k].wanted}})'
      BY <3>1, WantedByPlace, PTL
    <3> QED BY <1>1, <1>5, <3>2 DEF Quiet
  <2>3. 1..next = (1..Handed) \cup {next}
    BY <1>3 DEF SourceIsTheRest
  <2> QED BY <1>8, <2>1, <2>2, <2>3
<1>10. ItemsAreKept
  BY DEF WorkerInv
<1>11. CASE item.wanted
  <2>1. /\ loop' \in [at : {"granted", "pacing"}, item : {item.name}, until : Nat]
        /\ paceNext' \in Nat /\ GrantsArePaced' /\ SlotsAhead'
    BY <1>1, <1>2, <1>11, ReserveStep
  <2>2. Kept' = Kept \cup {item.name}
    BY <1>1, <1>8, <1>10, <2>1 DEF Kept, ItemsAreKept
  <2>3. ItemsAreKept'
    BY <1>1, <1>8, <1>9, <1>10, <1>11, <2>1, <2>2 DEF ItemsAreKept, Continuous, Quiet
  <2>4. WorkerTypes' /\ WorkerTypeOK' /\ ExecsOK' /\ ConcurrencyBounded'
    <3>1. loop' \in [at : Places, item : {loop'.item}, until : Nat] /\ loop'.at \in {"granted", "pacing"}
      BY <2>1 DEF Places
    <3> QED BY <1>1, <1>4, <2>1, <3>1 DEF WorkerInv, WorkerTypes, WorkerTypeOK, ExecsOK, ExecOK, ConcurrencyBounded, Quiet
  <2> QED BY <1>7, <2>1, <2>3, <2>4 DEF WorkerInv
<1>12. CASE ~item.wanted
  <2>1. GrantsArePaced' /\ SlotsAhead'
    BY <1>1, <1>2, <1>12, PaceKept
  <2>2. Kept' = Kept
    BY <1>1, <1>2, <1>12 DEF Kept
  <2>3. ItemsAreKept'
    BY <1>1, <1>2, <1>9, <1>10, <1>12, <2>2 DEF ItemsAreKept, Continuous, Quiet
  <2>4. WorkerTypes' /\ WorkerTypeOK' /\ ExecsOK' /\ ConcurrencyBounded'
    BY <1>1, <1>2, <1>4, <1>12 DEF WorkerInv, WorkerTypes, WorkerTypeOK, ExecsOK, ExecOK, ConcurrencyBounded, Quiet
  <2> QED BY <1>7, <2>1, <2>3, <2>4 DEF WorkerInv
<1> QED BY <1>11, <1>12

LEMMA PacedStep == ASSUME WorkerInv, Paced PROVE WorkerInv'
<1>1. /\ loop.at = "pacing" /\ wclock >= loop.until /\ loop' = [loop EXCEPT !.at = "granted"]
      /\ grants' = Append(grants, loop.until) /\ Quiet
      /\ UNCHANGED <<paceNext, ticked, source, workerItems, execs, finished>>
  BY DEF Paced
<1>2. /\ loop \in [at : Places, item : {loop.item}, until : Nat] /\ grants \in Seq(Nat)
      /\ wplan.interval \in Nat /\ wclock \in Nat
  BY PlanTypes DEF WorkerInv, WorkerTypes
<1>3. loop' \in [at : Places, item : {loop'.item}, until : Nat]
      /\ loop'.at = "granted" /\ loop'.item = loop.item /\ loop'.until = loop.until
  BY <1>1, <1>2 DEF Places
<1>4. WorkerTypes' /\ WorkerTypeOK' /\ ExecsOK' /\ ConcurrencyBounded'
  BY <1>1, <1>2, <1>3 DEF WorkerInv, WorkerTypes, WorkerTypeOK, ExecsOK, ExecOK, ConcurrencyBounded, Quiet
<1>5. /\ Len(grants') = Len(grants) + 1 /\ DOMAIN grants' = 1..(Len(grants) + 1)
      /\ \A i \in 1..Len(grants) : grants'[i] = grants[i]
      /\ grants'[Len(grants) + 1] = loop.until
  BY <1>1, <1>2
<1>6. \A i \in 1..Len(grants) : grants[i] + wplan.interval <= loop.until
  BY <1>1, <1>2 DEF WorkerInv, SlotsAhead, NextSlot
<1>7. GrantsArePaced'
  <2>1. \A i \in 1..(Len(grants') - 1) : grants'[i + 1] >= grants'[i] + wplan.interval
    <3> SUFFICES ASSUME NEW i \in 1..Len(grants) PROVE grants'[i + 1] >= grants'[i] + wplan.interval
      BY <1>2, <1>5
    <3>1. CASE i = Len(grants)
      BY <1>2, <1>5, <1>6, <3>1
    <3>2. CASE i # Len(grants)
      <4>1. i \in 1..(Len(grants) - 1) /\ i + 1 \in 1..Len(grants)
        BY <1>2, <3>2
      <4>2. grants[i + 1] >= grants[i] + wplan.interval
        BY <4>1 DEF WorkerInv, GrantsArePaced
      <4> QED BY <1>5, <4>1, <4>2
    <3> QED BY <3>1, <3>2
  <2>2. \A i \in 1..Len(grants) : grants[i] <= wclock
    BY <1>2 DEF WorkerInv, GrantsArePaced
  <2>3. \A i \in DOMAIN grants' : grants'[i] <= wclock
    <3> SUFFICES ASSUME NEW i \in 1..(Len(grants) + 1) PROVE grants'[i] <= wclock
      BY <1>5
    <3>1. i \in 1..Len(grants) \/ i = Len(grants) + 1
      BY <1>2
    <3> QED BY <1>1, <1>5, <2>2, <3>1
  <2> QED BY <1>1, <2>1, <2>3 DEF GrantsArePaced, Quiet
<1>8. SlotsAhead'
  <2>1. paceNext = loop.until + wplan.interval
    BY <1>1 DEF WorkerInv, SlotsAhead
  <2>2. \A i \in DOMAIN grants' : grants'[i] + wplan.interval <= paceNext
    <3> SUFFICES ASSUME NEW i \in 1..(Len(grants) + 1) PROVE grants'[i] + wplan.interval <= paceNext
      BY <1>5
    <3>1. i \in 1..Len(grants) \/ i = Len(grants) + 1
      BY <1>2
    <3>2. ASSUME i \in 1..Len(grants) PROVE grants'[i] + wplan.interval <= paceNext
      <4>1. grants[i] \in Nat /\ grants[i] + wplan.interval <= loop.until
        BY <1>2, <1>6, <3>2
      <4> QED BY <1>2, <1>5, <2>1, <3>2, <4>1
    <3> QED BY <1>2, <1>5, <2>1, <3>1, <3>2
  <2> QED BY <1>1, <1>3, <2>2 DEF SlotsAhead, NextSlot, Quiet
<1>9. SourceIsTheRest' /\ ItemsAreKept'
  <2>1. Kept' = Kept
    BY <1>1, <1>3 DEF Kept
  <2> QED BY <1>1, <1>3, <2>1, NothingHanded DEF WorkerInv, ItemsAreKept
<1> QED BY <1>4, <1>7, <1>8, <1>9 DEF WorkerInv

\* One more execution, when there was a slot for it.
LEMMA OneMoreExec ==
    ASSUME WorkerInv, NEW id, execs' = execs \cup {NewExec(id)}, Cardinality(execs) < wplan.concurrency, Quiet
    PROVE  IsFiniteSet(execs') /\ ConcurrencyBounded' /\ {x.id : x \in execs'} = {x.id : x \in execs} \cup {id}
           /\ ExecsOK'
<1>1. IsFiniteSet(execs) /\ Cardinality(execs) \in Nat /\ wplan.concurrency \in Nat /\ wplan.retry.attempts \in Nat \ {0}
  BY PlanTypes, FS_CardinalityType DEF WorkerInv, WorkerTypes
<1>2. IsFiniteSet(execs') /\ Cardinality(execs') <= Cardinality(execs) + 1 /\ Cardinality(execs') \in Nat
  <2>1. IsFiniteSet(execs') /\ Cardinality(execs') \in {Cardinality(execs), Cardinality(execs) + 1}
    <3>1. Cardinality(execs') = IF NewExec(id) \in execs THEN Cardinality(execs) ELSE Cardinality(execs) + 1
      BY <1>1, FS_AddElement
    <3> QED BY <1>1, <3>1, FS_AddElement
  <2> QED BY <1>1, <2>1
<1>3. ConcurrencyBounded'
  BY <1>1, <1>2 DEF ConcurrencyBounded, Quiet
<1>4. ExecOK(NewExec(id)) /\ NewExec(id).id = id
  BY <1>1 DEF NewExec, ExecOK
<1>5. ExecsOK'
  BY <1>4 DEF WorkerInv, ExecsOK, ExecOK, Quiet
<1> QED BY <1>2, <1>3, <1>4, <1>5

LEMMA StartTickStep == ASSUME WorkerInv, StartTick PROVE WorkerInv'
<1>1. /\ ~Continuous /\ loop.at = "granted" /\ Cardinality(execs) < wplan.concurrency
      /\ execs' = execs \cup {NewExec(loop.item)} /\ loop' = Start
      /\ Quiet /\ UNCHANGED <<paceNext, ticked, source, workerItems, grants, finished>>
  BY DEF StartTick
<1>2. IsFiniteSet(execs') /\ ConcurrencyBounded'
      /\ ExecsOK'
  BY <1>1, OneMoreExec
<1>3. loop' \in [at : Places, item : {loop'.item}, until : Nat] /\ loop'.at = "idle"
  BY <1>1 DEF Start, Places
<1>4. WorkerTypes' /\ WorkerTypeOK' /\ ExecsOK'
  BY <1>1, <1>2, <1>3 DEF WorkerInv, WorkerTypes, WorkerTypeOK, ExecsOK, ExecOK, Quiet
<1>5. GrantsArePaced' /\ SlotsAhead'
  BY <1>1, <1>3, PaceKept
<1>6. SourceIsTheRest' /\ ItemsAreKept'
  BY <1>1 DEF WorkerInv, SourceIsTheRest, Handed, ItemsAreKept, Continuous, Quiet
<1> QED BY <1>2, <1>4, <1>5, <1>6 DEF WorkerInv

LEMMA SendStep == ASSUME WorkerInv, Send PROVE WorkerInv'
<1>1. /\ Continuous /\ loop.at = "granted" /\ Len(workerItems) < wplan.batchSize
      /\ workerItems' = Append(workerItems, loop.item) /\ loop' = Start
      /\ Quiet /\ UNCHANGED <<paceNext, ticked, source, execs, grants, finished>>
  BY DEF Send
<1>2. workerItems \in Seq(ToSet(workerItems)) /\ wplan.batchSize \in Nat
  BY PlanTypes DEF WorkerInv, WorkerTypes
<1>3. /\ ToSet(workerItems') = ToSet(workerItems) \cup {loop.item}
      /\ Len(workerItems') = Len(workerItems) + 1 /\ workerItems' \in Seq(ToSet(workerItems'))
  <2> DEFINE more == ToSet(workerItems) \cup {loop.item}
  <2>1. workerItems \in Seq(more) /\ loop.item \in more
    BY <1>2
  <2>2. /\ workerItems' \in Seq(more) /\ Len(workerItems') = Len(workerItems) + 1
        /\ \A i \in 1..Len(workerItems) : workerItems'[i] = workerItems[i]
        /\ workerItems'[Len(workerItems) + 1] = loop.item
    BY <1>1, <2>1, AppendProperties
  <2>3. DOMAIN workerItems' = 1..(Len(workerItems) + 1) /\ DOMAIN workerItems = 1..Len(workerItems)
        /\ Len(workerItems) \in Nat
    BY <1>2, <2>2
  <2>4. ToSet(workerItems') = more
    BY <2>2, <2>3 DEF ToSet
  <2> QED BY <2>2, <2>4
<1>4. loop' \in [at : Places, item : {loop'.item}, until : Nat] /\ loop'.at = "idle" /\ loop'.item = Absent
  BY <1>1 DEF Start, Places
<1>5. WorkerTypes' /\ WorkerTypeOK' /\ ExecsOK' /\ ConcurrencyBounded'
  BY <1>1, <1>2, <1>3, <1>4 DEF WorkerInv, WorkerTypes, WorkerTypeOK, ExecsOK, ExecOK, ConcurrencyBounded, Quiet
<1>6. GrantsArePaced' /\ SlotsAhead'
  BY <1>1, <1>4, PaceKept
<1>7. Kept' = Kept
  BY <1>1, <1>3, <1>4 DEF WorkerInv, ItemsAreKept, Kept
<1>8. SourceIsTheRest' /\ ItemsAreKept'
  BY <1>1, <1>4, <1>7, NothingHanded
<1> QED BY <1>5, <1>6, <1>8 DEF WorkerInv

\* The one item that can be lost is the one the loop held when it stopped.
LEMMA LoopStopsStep == ASSUME WorkerInv, LoopStops PROVE WorkerInv'
<1>1. /\ loop.at # "stopped" /\ loop' = [Start EXCEPT !.at = "stopped"]
      /\ Quiet /\ UNCHANGED <<paceNext, ticked, source, workerItems, execs, grants, finished>>
  BY DEF LoopStops, Stop
<1>2. loop' \in [at : Places, item : {loop'.item}, until : Nat] /\ loop'.at = "stopped" /\ loop'.item = Absent
  BY <1>1 DEF Start, Places
<1>3. WorkerTypes' /\ WorkerTypeOK' /\ ExecsOK' /\ ConcurrencyBounded'
  BY <1>1, <1>2 DEF WorkerInv, WorkerTypes, WorkerTypeOK, ExecsOK, ExecOK, ConcurrencyBounded, Quiet
<1>4. GrantsArePaced' /\ SlotsAhead'
  <2>1. GrantsArePaced'
    BY <1>1 DEF WorkerInv, GrantsArePaced, Quiet
  <2>2. grants \in Seq(Nat) /\ paceNext \in Nat /\ wplan.interval \in Nat /\ loop.until \in Nat
    BY PlanTypes DEF WorkerInv, WorkerTypes
  <2>3. NextSlot <= paceNext /\ NextSlot \in Nat
    BY <2>2 DEF WorkerInv, SlotsAhead, NextSlot
  <2>4. \A i \in DOMAIN grants : grants[i] + wplan.interval <= paceNext
    BY <2>2, <2>3 DEF WorkerInv, SlotsAhead
  <2> QED BY <1>1, <1>2, <2>1, <2>4 DEF SlotsAhead, NextSlot, Quiet
<1>5. SourceIsTheRest' /\ WantedTaken' = WantedTaken
  BY <1>1 DEF WorkerInv, SourceIsTheRest, Handed, WantedTaken, Quiet
<1>6. Kept' \subseteq Kept /\ Kept \subseteq Kept' \cup {loop.item}
  BY <1>1, <1>2 DEF Kept
<1>7. ItemsAreKept'
  BY <1>1, <1>2, <1>5, <1>6 DEF WorkerInv, ItemsAreKept, Continuous, Quiet
<1> QED BY <1>3, <1>4, <1>5, <1>7 DEF WorkerInv

LEMMA ConsumeStep == ASSUME WorkerInv, Consume PROVE WorkerInv'
<1>1. /\ Continuous /\ workerItems # <<>> /\ Cardinality(execs) < wplan.concurrency
      /\ execs' = execs \cup {NewExec(Head(workerItems))} /\ workerItems' = Tail(workerItems)
      /\ Quiet /\ UNCHANGED <<loop, paceNext, ticked, source, grants, finished>>
  BY DEF Consume
<1>2. /\ IsFiniteSet(execs') /\ ConcurrencyBounded'
      /\ {x.id : x \in execs'} = {x.id : x \in execs} \cup {Head(workerItems)}
      /\ ExecsOK'
  BY <1>1, OneMoreExec
<1>3. workerItems \in Seq(ToSet(workerItems)) /\ wplan.batchSize \in Nat
  BY PlanTypes DEF WorkerInv, WorkerTypes
<1>4. /\ workerItems' \in Seq(ToSet(workerItems)) /\ Len(workerItems') = Len(workerItems) - 1
      /\ \A i \in 1..Len(workerItems') : workerItems'[i] = workerItems[i + 1]
  BY <1>1, <1>3
<1>5. ToSet(workerItems) = ToSet(workerItems') \cup {Head(workerItems)} /\ workerItems' \in Seq(ToSet(workerItems'))
  <2>1. DOMAIN workerItems' = 1..Len(workerItems') /\ DOMAIN workerItems = 1..Len(workerItems)
        /\ Len(workerItems) \in Nat \ {0} /\ Head(workerItems) = workerItems[1]
    BY <1>1, <1>3, <1>4
  <2>2. \A i \in 1..Len(workerItems) : i = 1 \/ i - 1 \in 1..Len(workerItems')
    BY <1>4, <2>1
  <2>3. ToSet(workerItems) = ToSet(workerItems') \cup {Head(workerItems)}
    <3>1. ToSet(workerItems') \cup {Head(workerItems)} \subseteq ToSet(workerItems)
      BY <1>4, <2>1 DEF ToSet
    <3>2. ASSUME NEW i \in 1..Len(workerItems) PROVE workerItems[i] \in ToSet(workerItems') \cup {Head(workerItems)}
      <4>1. CASE i = 1
        BY <2>1, <4>1
      <4>2. CASE i # 1
        <5>1. i - 1 \in 1..Len(workerItems') /\ workerItems'[i - 1] = workerItems[i]
          BY <1>4, <2>1, <2>2, <4>2
        <5> QED BY <2>1, <5>1 DEF ToSet
      <4> QED BY <4>1, <4>2
    <3> QED BY <2>1, <3>1, <3>2 DEF ToSet
  <2>4. workerItems' \in Seq(ToSet(workerItems'))
    <3>1. \A i \in 1..Len(workerItems') : workerItems'[i] \in ToSet(workerItems')
      BY <2>1 DEF ToSet
    <3> QED BY <1>4, <3>1
  <2> QED BY <2>3, <2>4
<1>6. WorkerTypes' /\ WorkerTypeOK' /\ ExecsOK'
  BY <1>1, <1>2, <1>3, <1>4, <1>5 DEF WorkerInv, WorkerTypes, WorkerTypeOK, ExecsOK, ExecOK, Quiet
<1>7. GrantsArePaced' /\ SlotsAhead'
  BY <1>1, PaceKept
<1>8. Kept' = Kept
  BY <1>1, <1>2, <1>5 DEF Kept
<1>9. SourceIsTheRest' /\ ItemsAreKept'
  <2>1. Continuous => ((loop.item = Absent)' <=> loop'.at \in {"idle", "stopped"})
    BY <1>1 DEF WorkerInv, ItemsAreKept
  <2> QED BY <1>1, <1>8, <2>1, NothingHanded
<1> QED BY <1>2, <1>6, <1>7, <1>9 DEF WorkerInv

\* What an execution does: it ends, or it goes on as another attempt within its number.
LEMMA ExecStep ==
    ASSUME WorkerInv, NEW x \in execs, Quiet, UNCHANGED <<loop, paceNext, ticked, source, workerItems, grants>>,
           Ends(x) \/ (\E y : Replace(x, y) /\ y.id = x.id /\ ExecOK(y))
    PROVE  WorkerInv'
<1>1. IsFiniteSet(execs) /\ Cardinality(execs) \in Nat /\ wplan.concurrency \in Nat
      /\ Cardinality(execs) <= wplan.concurrency
  BY PlanTypes, FS_CardinalityType DEF WorkerInv, WorkerTypes, ConcurrencyBounded
<1>2. IsFiniteSet(execs \ {x}) /\ Cardinality(execs \ {x}) = Cardinality(execs) - 1
  BY <1>1, FS_RemoveElement
<1>3. IsFiniteSet(execs') /\ Cardinality(execs') <= Cardinality(execs) /\ Cardinality(execs') \in Nat
  <2>1. \A y : /\ IsFiniteSet((execs \ {x}) \cup {y})
               /\ Cardinality((execs \ {x}) \cup {y}) \in {Cardinality(execs) - 1, Cardinality(execs)}
    <3> SUFFICES ASSUME NEW y
                 PROVE  /\ IsFiniteSet((execs \ {x}) \cup {y})
                        /\ Cardinality((execs \ {x}) \cup {y}) \in {Cardinality(execs) - 1, Cardinality(execs)}
      OBVIOUS
    <3>1. /\ IsFiniteSet((execs \ {x}) \cup {y})
          /\ Cardinality((execs \ {x}) \cup {y}) = IF y \in execs \ {x} THEN Cardinality(execs \ {x})
                                                   ELSE Cardinality(execs \ {x}) + 1
      BY <1>2, FS_AddElement
    <3> QED BY <1>1, <1>2, <3>1
  <2>2. execs' = execs \ {x} \/ \E y : execs' = (execs \ {x}) \cup {y}
    BY DEF Ends, Replace
  <2>3. Cardinality(execs) >= 1
    BY <1>1, <1>2, FS_CardinalityType
  <2>4. CASE execs' = execs \ {x}
    BY <1>1, <1>2, <2>3, <2>4
  <2>5. CASE \E y : execs' = (execs \ {x}) \cup {y}
    <3>1. IsFiniteSet(execs') /\ Cardinality(execs') \in {Cardinality(execs) - 1, Cardinality(execs)}
      BY <2>1, <2>5
    <3> QED BY <1>1, <2>3, <3>1
  <2> QED BY <2>2, <2>4, <2>5
<1>4. {z.id : z \in execs'} \cup finished' = {z.id : z \in execs} \cup finished
  BY Zenon DEF Ends, Replace
<1>5. ExecsOK'
  BY DEF WorkerInv, ExecsOK, ExecOK, Ends, Replace, Quiet
<1>6. ConcurrencyBounded'
  BY <1>1, <1>3 DEF ConcurrencyBounded, Quiet
<1>7. WorkerTypes' /\ WorkerTypeOK' /\ ExecsOK'
  BY <1>3, <1>5 DEF WorkerInv, WorkerTypes, WorkerTypeOK, ExecsOK, ExecOK, Quiet
<1>8. GrantsArePaced' /\ SlotsAhead'
  BY PaceKept
<1>9. Kept' = Kept
  BY <1>4 DEF Kept
<1>10. SourceIsTheRest' /\ ItemsAreKept'
  <2>1. Continuous => ((loop.item = Absent)' <=> loop'.at \in {"idle", "stopped"})
    BY DEF WorkerInv, ItemsAreKept
  <2> QED BY <1>9, <2>1, NothingHanded
<1> QED BY <1>6, <1>7, <1>8, <1>10 DEF WorkerInv

LEMMA WorkerStep == WorkerInv /\ [WorkerNext]_workerVars => WorkerInv'
<1> SUFFICES ASSUME WorkerInv, [WorkerNext]_workerVars PROVE WorkerInv'
  OBVIOUS
<1>1. CASE UNCHANGED workerVars
  BY <1>1 DEF workerVars, WorkerInv, WorkerTypes, WorkerTypeOK, ExecsOK, ExecOK, ConcurrencyBounded, GrantsArePaced,
         SlotsAhead, NextSlot, SourceIsTheRest, Handed, ItemsAreKept, Kept, WantedTaken, Continuous
<1>2. wplan.retry.attempts \in Nat \ {0}
  BY PlanTypes DEF WorkerInv, WorkerTypes
<1>3. ASSUME NEW x \in execs, Attempt(x) PROVE WorkerInv'
  <2>1. CASE Ends(x)
    BY <1>3, <2>1, ExecStep DEF Attempt
  <2>2. CASE x.attempt < wplan.retry.attempts
             /\ Replace(x, [x EXCEPT !.at = "backoff", !.until = wclock + DelayAfter(x.attempt)])
    <3> DEFINE y == [x EXCEPT !.at = "backoff", !.until = wclock + DelayAfter(x.attempt)]
    <3>1. y.id = x.id /\ ExecOK(y)
      BY <2>2 DEF WorkerInv, ExecsOK, ExecOK
    <3> QED BY <1>3, <2>2, <3>1, ExecStep DEF Attempt
  <2> QED BY <1>3, <2>1, <2>2 DEF Attempt
<1>4. ASSUME NEW x \in execs, Retry(x) PROVE WorkerInv'
  <2> DEFINE y == [x EXCEPT !.at = "run", !.attempt = @ + 1]
  <2>1. y.id = x.id /\ ExecOK(y)
    <3>1. x.at = "backoff" /\ ExecOK(x)
      BY <1>4 DEF WorkerInv, ExecsOK, Retry
    <3>2. x.attempt + 1 \in 1..wplan.retry.attempts
      BY <1>2, <3>1 DEF ExecOK
    <3>3. x \in [id : {x.id}, attempt : 1..wplan.retry.attempts, at : {"run", "backoff"}, until : {x.until}]
      BY <3>1 DEF ExecOK
    <3>4. y.id = x.id /\ y.until = x.until /\ y.at = "run" /\ y.attempt = x.attempt + 1
      BY <3>3
    <3>5. y \in [id : {x.id}, attempt : 1..wplan.retry.attempts, at : {"run", "backoff"}, until : {x.until}]
      BY <3>2, <3>3
    <3> QED BY <3>4, <3>5 DEF ExecOK
  <2> QED BY <1>4, <2>1, ExecStep DEF Retry
<1>5. ASSUME NEW x \in execs, GiveUp(x) PROVE WorkerInv'
  BY <1>5, ExecStep DEF GiveUp
<1> QED BY <1>1, <1>3, <1>4, <1>5, TimePasses, TakeTickStep, TakeItemStep, PacedStep, StartTickStep, SendStep,
           LoopStopsStep, ConsumeStep DEF WorkerNext

-----------------------------------------------------------------------------
\* What a Worker holds and what it has used of its limiter, always.
THEOREM WorkerInvariant == WorkerSpec => []WorkerInv
  BY WorkerInitInv, WorkerStep, PTL DEF WorkerSpec

\* For any declaration: never more bodies at once than its concurrency, slots of the limiter
\* an interval apart and none used early, no attempt too many, and no item that the source
\* handed out is lost but the one the loop holds when the context ends.
THEOREM SettingsHold == WorkerSpec => []WorkersKeepTheirSettings
<1>1. WorkerInv => WorkersKeepTheirSettings
  <2> SUFFICES ASSUME WorkerInv PROVE AtMostTheHeldItemIsLost
    BY DEF WorkerInv, WorkersKeepTheirSettings
  <2> DEFINE lost == WantedTaken \ Kept
  <2>1. ASSUME Continuous PROVE Cardinality(lost) <= 1
    <3>1. PICK x : lost \subseteq {x}
      BY <2>1 DEF WorkerInv, ItemsAreKept
    <3>2. Cardinality({x}) = 1 /\ IsFiniteSet({x})
      BY FS_Singleton
    <3> QED BY <3>1, <3>2, FS_Subset
  <2>2. ASSUME Continuous PROVE Kept \subseteq WantedTaken /\ (loop.at # "stopped" => lost = {})
    BY <2>2 DEF WorkerInv, ItemsAreKept
  <2> QED BY <2>1, <2>2 DEF AtMostTheHeldItemIsLost, Kept
<1> QED BY <1>1, WorkerInvariant, PTL

=============================================================================
