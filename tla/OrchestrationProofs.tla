------------------------ MODULE OrchestrationProofs -------------------------
(***************************************************************************)
(* Machine-checked proofs about the two-phase unit of work and about a     *)
(* generated Saga.                                                         *)
(***************************************************************************)
EXTENDS TwoPhase, Saga, SequenceTheorems, FiniteSetTheorems, TLAPS

\* The two-phase unit of work, for any number of runs, bodies and databases and any size of
\* the pools: what a run has committed is told by its stage and its place in the plan.

UnitTypes == \A r \in UnitRuns :
    /\ unit \in [UnitRuns -> [at : Stages, plan : Seq(Databases), next : Nat]]
    /\ unit[r].at # "single" => unit[r].next \in 1..Len(Plan(r))
    /\ unit[r].at = "single" => unit[r].next = 1 /\ Plan(r) = <<>>
    /\ unit[r].at = "body" => unit[r].next = 1

PoolTypes ==
    /\ conns \in [Databases -> SUBSET UnitRuns] /\ committed \in [Databases -> SUBSET UnitRuns]
    /\ \A d \in Databases : IsFiniteSet(conns[d]) /\ Cardinality(conns[d]) <= PoolSize

FirstOf(r, n) == {Plan(r)[i] : i \in 1..n}

\* Nothing before the commits, what lies before its place during them, everything after.
CommittedByStage == \A r \in UnitRuns :
    /\ unit[r].at \in {"single", "begin", "body", "panicked"} => CommittedDbs(r) = FirstOf(r, 0)
    /\ unit[r].at = "commit" => CommittedDbs(r) = FirstOf(r, unit[r].next - 1)
    /\ unit[r].at = "failed" => \E n \in 0..Len(Plan(r)) : CommittedDbs(r) = FirstOf(r, n)
    /\ unit[r].at \in {"publish", "ok"} => CommittedDbs(r) = FirstOf(r, Len(Plan(r)))

PublishedByStage == \A p \in published : p[1] \in UnitRuns /\ unit[p[1]].at \in {"publish", "ok"}

UnitInv == UnitTypes /\ PoolTypes /\ CommittedByStage /\ PublishedByStage /\ EndedRunsHoldNoConnection

-----------------------------------------------------------------------------
LEMMA UnitInitInv == TwoPhaseInit => UnitInv
<1> SUFFICES ASSUME TwoPhaseInit PROVE UnitInv
  OBVIOUS
<1>1. \A r \in UnitRuns :
        LET plan == usecase2PCPlan(BodyOf[r])
        IN  unit[r] = [at |-> IF plan = <<>> THEN "single" ELSE "begin", plan |-> plan, next |-> 1]
  BY DEF TwoPhaseInit
<1>2. \A r \in UnitRuns : unit[r] \in [at : Stages, plan : Seq(Databases), next : Nat]
  <2> SUFFICES ASSUME NEW r \in UnitRuns PROVE unit[r] \in [at : Stages, plan : Seq(Databases), next : Nat]
    OBVIOUS
  <2> DEFINE plan == usecase2PCPlan(BodyOf[r])
  <2>1. plan \in Seq(Databases)
    BY PlansAssumption
  <2>2. unit[r] = [at |-> IF plan = <<>> THEN "single" ELSE "begin", plan |-> plan, next |-> 1]
    BY <1>1
  <2>3. \A a \in Stages : [at |-> a, plan |-> plan, next |-> 1] \in [at : Stages, plan : Seq(Databases), next : Nat]
    BY <2>1
  <2>4. (IF plan = <<>> THEN "single" ELSE "begin") \in Stages
    BY DEF Stages
  <2> QED BY <2>2, <2>3, <2>4
<1>3. \A r \in UnitRuns : /\ unit[r].at \in {"single", "begin"} /\ unit[r].next = 1
                          /\ unit[r].at = "single" <=> Plan(r) = <<>>
  <2> SUFFICES ASSUME NEW r \in UnitRuns
               PROVE  /\ unit[r].at \in {"single", "begin"} /\ unit[r].next = 1
                      /\ unit[r].at = "single" <=> Plan(r) = <<>>
    OBVIOUS
  <2> DEFINE plan == usecase2PCPlan(BodyOf[r])
  <2>1. unit[r] = [at |-> IF plan = <<>> THEN "single" ELSE "begin", plan |-> plan, next |-> 1]
    BY <1>1
  <2> HIDE DEF plan
  <2> QED BY <2>1 DEF Plan
<1>4. \A r \in UnitRuns : Plan(r) \in Seq(Databases) /\ (Plan(r) # <<>> => 1 \in 1..Len(Plan(r)))
  BY <1>2 DEF Plan
<1>5. UnitTypes
  BY <1>2, <1>3, <1>4 DEF UnitTypes, TwoPhaseInit
<1>6. PoolTypes /\ PublishedByStage /\ EndedRunsHoldNoConnection
  BY FS_EmptySet, PoolAssumption DEF TwoPhaseInit, PoolTypes, PublishedByStage, EndedRunsHoldNoConnection
<1>7. \A r \in UnitRuns : CommittedDbs(r) = FirstOf(r, 0)
  BY DEF TwoPhaseInit, CommittedDbs, FirstOf
<1>8. CommittedByStage
  BY <1>3, <1>7 DEF CommittedByStage
<1> QED BY <1>5, <1>6, <1>8 DEF UnitInv

\* A connection given back, by the rollback or a commit.
LEMMA FewerConnections ==
    ASSUME UnitInv, conns' \in [Databases -> SUBSET UnitRuns], \A d \in Databases : conns'[d] \subseteq conns[d]
    PROVE  \A d \in Databases : IsFiniteSet(conns'[d]) /\ Cardinality(conns'[d]) <= PoolSize
<1> SUFFICES ASSUME NEW d \in Databases
             PROVE  IsFiniteSet(conns'[d]) /\ Cardinality(conns'[d]) <= PoolSize
  OBVIOUS
<1>1. IsFiniteSet(conns[d]) /\ Cardinality(conns[d]) <= PoolSize
  BY DEF UnitInv, PoolTypes
<1>2. IsFiniteSet(conns'[d]) /\ Cardinality(conns'[d]) <= Cardinality(conns[d])
  BY <1>1, FS_Subset
<1>3. Cardinality(conns'[d]) \in Nat /\ Cardinality(conns[d]) \in Nat
  BY <1>1, <1>2, FS_CardinalityType
<1> QED BY <1>1, <1>2, <1>3, PoolAssumption

UnitRecord == [at : Stages, plan : Seq(Databases), next : Nat]
Others(r) == \A q \in UnitRuns \ {r} : unit'[q] = unit[q]

\* The rollback of r.
LEMMA LeaveFrame ==
    ASSUME UnitInv, NEW r \in UnitRuns, unit[r].at # "single", NEW how \in Stages \ {"single"}, Leave(r, how)
    PROVE  /\ unit' \in [UnitRuns -> UnitRecord] /\ Others(r)
           /\ unit'[r].at = how /\ unit'[r].next = unit[r].next /\ unit'[r].plan = unit[r].plan
           /\ conns' \in [Databases -> SUBSET UnitRuns]
           /\ \A d \in Databases : conns'[d] = conns[d] \ {r}
           /\ \A d \in Databases : IsFiniteSet(conns'[d]) /\ Cardinality(conns'[d]) <= PoolSize
<1>1. unit \in [UnitRuns -> UnitRecord] /\ conns \in [Databases -> SUBSET UnitRuns]
  BY DEF UnitInv, UnitTypes, UnitRecord, PoolTypes
<1>2. unit' = [unit EXCEPT ![r] = [@ EXCEPT !.at = how]]
  BY DEF Leave
<1>3. [unit[r] EXCEPT !.at = how] \in UnitRecord
  BY <1>1 DEF UnitRecord
<1>4. unit'[r].at = how /\ unit'[r].next = unit[r].next /\ unit'[r].plan = unit[r].plan
  BY <1>1, <1>2 DEF UnitRecord
<1>5. unit' \in [UnitRuns -> UnitRecord] /\ Others(r)
  BY <1>1, <1>2, <1>3 DEF Others
<1>6. conns' \in [Databases -> SUBSET UnitRuns] /\ \A d \in Databases : conns'[d] = conns[d] \ {r}
  BY <1>1 DEF Leave
<1>7. \A d \in Databases : IsFiniteSet(conns'[d]) /\ Cardinality(conns'[d]) <= PoolSize
  BY <1>6, FewerConnections
<1> QED BY <1>4, <1>5, <1>6, <1>7

\* What a step of r owes: its own stage, place, commits and connections, and the others as they were.
LEMMA OneRunMoves ==
    ASSUME UnitInv, NEW r \in UnitRuns, unit' \in [UnitRuns -> UnitRecord], Others(r), unit'[r].plan = unit[r].plan,
           unit[r].at # "single", unit'[r].at # "single", unit'[r].next \in 1..Len(Plan(r)),
           unit'[r].at = "body" => unit'[r].next = 1, PoolTypes', \A d \in Databases : committed'[d] \ {r} = committed[d] \ {r},
           \A d \in Databases : conns'[d] \ {r} \subseteq conns[d] \ {r},
           unit'[r].at \in {"begin", "body", "panicked"} => CommittedDbs(r)' = FirstOf(r, 0),
           unit'[r].at = "commit" => CommittedDbs(r)' = FirstOf(r, unit'[r].next - 1),
           unit'[r].at = "failed" => \E n \in 0..Len(Plan(r)) : CommittedDbs(r)' = FirstOf(r, n),
           unit'[r].at \in {"publish", "ok"} => CommittedDbs(r)' = FirstOf(r, Len(Plan(r))),
           Ended(r)' => \A d \in Databases : r \notin conns'[d],
           published' \subseteq published \cup {<<r, d>> : d \in Databases},
           r \in {p[1] : p \in published'} => unit'[r].at \in {"publish", "ok"}
    PROVE  UnitInv'
<1>1. \A q \in UnitRuns : Plan(q)' = Plan(q)
  BY DEF Plan, Others
<1>2. UnitTypes'
  BY <1>1 DEF UnitInv, UnitTypes, UnitRecord, Others
<1>3. \A q \in UnitRuns, n \in Int : FirstOf(q, n)' = FirstOf(q, n)
  BY <1>1 DEF FirstOf
<1>4. \A q \in UnitRuns : q # r => CommittedDbs(q)' = CommittedDbs(q)
  BY DEF CommittedDbs
<1>5. \A q \in UnitRuns : Plan(q) \in Seq(Databases) /\ unit[q].next \in Nat /\ unit'[q].next \in Nat
  BY <1>2 DEF UnitInv, UnitTypes, UnitRecord, Plan
<1>6. CommittedByStage'
  <2> SUFFICES ASSUME NEW q \in UnitRuns PROVE CommittedByStage!(q)'
    BY DEF CommittedByStage
  <2>1. CASE q = r
    BY <1>1, <1>3, <1>5, <2>1 DEF CommittedByStage
  <2>2. CASE q # r
    BY <1>1, <1>3, <1>4, <1>5, <2>2 DEF UnitInv, CommittedByStage, Others
  <2> QED BY <2>1, <2>2
<1>7. PublishedByStage'
  <2> SUFFICES ASSUME NEW p \in published' PROVE p[1] \in UnitRuns /\ unit'[p[1]].at \in {"publish", "ok"}
    BY DEF PublishedByStage
  <2>1. CASE p[1] = r
    BY <2>1
  <2>2. CASE p[1] # r
    BY <2>2 DEF UnitInv, PublishedByStage, Others
  <2> QED BY <2>1, <2>2
<1>8. EndedRunsHoldNoConnection'
  <2> SUFFICES ASSUME NEW q \in UnitRuns, Ended(q)', NEW d \in Databases PROVE q \notin conns'[d]
    BY DEF EndedRunsHoldNoConnection
  <2>1. CASE q # r
    <3>1. Ended(q)
      BY <2>1 DEF Ended, Others
    <3> QED BY <2>1, <3>1 DEF UnitInv, EndedRunsHoldNoConnection
  <2> QED BY <2>1
<1> QED BY <1>2, <1>6, <1>7, <1>8 DEF UnitInv

-----------------------------------------------------------------------------
\* What a run that is planned can rely on.
LEMMA Facts ==
    ASSUME UnitInv, NEW r \in UnitRuns, unit[r].at # "single"
    PROVE  /\ Plan(r) \in Seq(Databases) /\ Len(Plan(r)) \in Nat
           /\ unit[r].next \in 1..Len(Plan(r)) /\ Plan(r)[unit[r].next] \in Databases
           /\ unit \in [UnitRuns -> UnitRecord] /\ unit[r] \in UnitRecord
           /\ conns \in [Databases -> SUBSET UnitRuns] /\ committed \in [Databases -> SUBSET UnitRuns]
<1>1. unit \in [UnitRuns -> UnitRecord]
  BY DEF UnitInv, UnitTypes, UnitRecord
<1>2. Plan(r) \in Seq(Databases)
  BY <1>1 DEF Plan, UnitRecord
<1> QED BY <1>1, <1>2 DEF UnitInv, UnitTypes, PoolTypes

\* Where it goes next, after Begin and Commit: the next place, or a stage of its own.
LEMMA NextPlace ==
    ASSUME UnitInv, NEW r \in UnitRuns, unit[r].at # "single", NEW at \in {"body", "publish"},
           unit' = IF unit[r].next = Len(Plan(r)) THEN [unit EXCEPT ![r].at = at, ![r].next = 1]
                   ELSE [unit EXCEPT ![r].next = @ + 1]
    PROVE  /\ unit' \in [UnitRuns -> UnitRecord] /\ Others(r) /\ unit'[r].plan = unit[r].plan
           /\ unit'[r].next \in 1..Len(Plan(r))
           /\ \/ unit[r].next = Len(Plan(r)) /\ unit'[r].at = at /\ unit'[r].next = 1
              \/ /\ unit[r].next # Len(Plan(r)) /\ unit'[r].at = unit[r].at
                 /\ unit'[r].next = unit[r].next + 1
<1>1. /\ Len(Plan(r)) \in Nat /\ unit[r].next \in 1..Len(Plan(r))
      /\ unit \in [UnitRuns -> UnitRecord] /\ unit[r] \in UnitRecord
  BY Facts
<1>2. CASE unit[r].next = Len(Plan(r))
  <2>1. unit'[r] = [unit[r] EXCEPT !.at = at, !.next = 1] /\ Others(r)
    BY <1>1, <1>2 DEF Others
  <2>2. [unit[r] EXCEPT !.at = at, !.next = 1] \in UnitRecord
    BY <1>1 DEF UnitRecord, Stages
  <2>3. unit'[r].at = at /\ unit'[r].next = 1 /\ unit'[r].plan = unit[r].plan
    BY <1>1, <2>1 DEF UnitRecord
  <2>4. unit' \in [UnitRuns -> UnitRecord]
    BY <1>1, <1>2, <2>2
  <2> QED BY <1>1, <1>2, <2>1, <2>3, <2>4
<1>3. CASE unit[r].next # Len(Plan(r))
  <2> DEFINE n == unit[r].next + 1
  <2>1. unit'[r] = [unit[r] EXCEPT !.next = n] /\ Others(r)
    BY <1>1, <1>3 DEF Others
  <2>2. n \in Nat /\ n \in 1..Len(Plan(r))
    BY <1>1, <1>3
  <2> HIDE DEF n
  <2>3. [unit[r] EXCEPT !.next = n] \in UnitRecord
    BY <1>1, <2>2 DEF UnitRecord
  <2>4. unit'[r].next = n /\ unit'[r].at = unit[r].at /\ unit'[r].plan = unit[r].plan
    BY <1>1, <2>1 DEF UnitRecord
  <2>5. unit' \in [UnitRuns -> UnitRecord]
    BY <1>1, <2>1, <2>3 DEF Others
  <2> QED BY <1>3, <2>1, <2>2, <2>4, <2>5 DEF n
<1> QED BY <1>2, <1>3

LEMMA BeginStep == ASSUME UnitInv, NEW r \in UnitRuns, Begin(r) PROVE UnitInv'
<1> DEFINE db == Plan(r)[unit[r].next]
<1>1. /\ unit[r].at = "begin" /\ Cardinality(conns[db]) < PoolSize
      /\ conns' = [conns EXCEPT ![db] = @ \cup {r}] /\ UNCHANGED <<committed, published>>
  BY DEF Begin
<1>2. db \in Databases /\ conns \in [Databases -> SUBSET UnitRuns] /\ committed \in [Databases -> SUBSET UnitRuns]
  BY <1>1, Facts
<1>3. /\ unit' \in [UnitRuns -> UnitRecord] /\ Others(r) /\ unit'[r].plan = unit[r].plan
      /\ unit'[r].next \in 1..Len(Plan(r)) /\ unit'[r].at \in {"begin", "body"}
      /\ unit'[r].at = "body" => unit'[r].next = 1
  BY <1>1, NextPlace DEF Begin
<1> HIDE DEF db
<1>4. PoolTypes'
  <2>1. IsFiniteSet(conns[db]) /\ Cardinality(conns[db]) \in Nat
    BY <1>2, FS_CardinalityType DEF UnitInv, PoolTypes
  <2>2. IsFiniteSet(conns[db] \cup {r})
        /\ Cardinality(conns[db] \cup {r}) = IF r \in conns[db] THEN Cardinality(conns[db]) ELSE Cardinality(conns[db]) + 1
    BY <2>1, FS_AddElement
  <2>3. Cardinality(conns[db] \cup {r}) <= PoolSize
    BY <1>1, <2>1, <2>2, PoolAssumption
  <2>4. conns' \in [Databases -> SUBSET UnitRuns]
    BY <1>1, <1>2
  <2>5. \A d \in Databases : conns'[d] = IF d = db THEN conns[db] \cup {r} ELSE conns[d]
    BY <1>1, <1>2
  <2> QED BY <1>1, <2>2, <2>3, <2>4, <2>5 DEF UnitInv, PoolTypes
<1>5. \A d \in Databases : conns'[d] \ {r} \subseteq conns[d] \ {r}
  BY <1>1, <1>2
<1>6. CommittedDbs(r)' = CommittedDbs(r) /\ CommittedDbs(r) = FirstOf(r, 0)
  BY <1>1 DEF CommittedDbs, UnitInv, CommittedByStage
<1>7. r \notin {p[1] : p \in published'} /\ ~Ended(r)'
  BY <1>1, <1>3 DEF UnitInv, PublishedByStage, Ended
<1> QED BY <1>1, <1>3, <1>4, <1>5, <1>6, <1>7, OneRunMoves

\* A run that leaves without a commit more than it has.
LEMMA LeaveStep ==
    ASSUME UnitInv, NEW r \in UnitRuns, NEW how \in {"failed", "panicked"}, Leave(r, how),
           unit[r].at \in {"begin", "body", "commit"}, unit[r].at = "commit" => how = "failed",
           UNCHANGED <<committed, published>>
    PROVE  UnitInv'
<1>1. /\ unit' \in [UnitRuns -> UnitRecord] /\ Others(r)
      /\ unit'[r].at = how /\ unit'[r].next = unit[r].next /\ unit'[r].plan = unit[r].plan
      /\ conns' \in [Databases -> SUBSET UnitRuns]
      /\ \A d \in Databases : conns'[d] = conns[d] \ {r}
      /\ \A d \in Databases : IsFiniteSet(conns'[d]) /\ Cardinality(conns'[d]) <= PoolSize
  BY LeaveFrame DEF Stages
<1>2. Len(Plan(r)) \in Nat /\ unit[r].next \in 1..Len(Plan(r)) /\ committed \in [Databases -> SUBSET UnitRuns]
  BY Facts
<1>3. PoolTypes'
  BY <1>1, <1>2 DEF PoolTypes
<1>4. CommittedDbs(r)' = CommittedDbs(r)
  BY DEF CommittedDbs
<1>5. unit[r].at \in {"begin", "body"} => CommittedDbs(r) = FirstOf(r, 0)
  BY DEF UnitInv, CommittedByStage
<1>6. how = "failed" => \E n \in 0..Len(Plan(r)) : CommittedDbs(r) = FirstOf(r, n)
  <2>1. CASE unit[r].at \in {"begin", "body"}
    BY <1>2, <1>5, <2>1
  <2>2. CASE unit[r].at = "commit"
    <3>1. CommittedDbs(r) = FirstOf(r, unit[r].next - 1) /\ unit[r].next - 1 \in 0..Len(Plan(r))
      BY <1>2, <2>2 DEF UnitInv, CommittedByStage
    <3> QED BY <3>1
  <2> QED BY <2>1, <2>2
<1>7. r \notin {p[1] : p \in published'}
  BY DEF UnitInv, PublishedByStage
<1> QED BY <1>1, <1>2, <1>3, <1>4, <1>5, <1>6, <1>7, OneRunMoves

LEMMA BodyStep == ASSUME UnitInv, NEW r \in UnitRuns, Body(r) PROVE UnitInv'
<1>1. unit[r].at = "body" /\ UNCHANGED <<committed, published>>
  BY DEF Body
<1>2. CASE Leave(r, "panicked")
  BY <1>1, <1>2, LeaveStep
<1>3. CASE unit' = [unit EXCEPT ![r] = [@ EXCEPT !.at = "commit"]] /\ UNCHANGED conns
  <2>1. /\ unit \in [UnitRuns -> UnitRecord] /\ unit[r] \in UnitRecord
        /\ unit[r].next \in 1..Len(Plan(r)) /\ unit[r].next = 1
    BY <1>1, Facts DEF UnitInv, UnitTypes
  <2>2. [unit[r] EXCEPT !.at = "commit"] \in UnitRecord
    BY <2>1 DEF UnitRecord, Stages
  <2>3. unit'[r].at = "commit" /\ unit'[r].next = 1 /\ unit'[r].plan = unit[r].plan
    BY <1>3, <2>1 DEF UnitRecord
  <2>4. unit' \in [UnitRuns -> UnitRecord] /\ Others(r)
    BY <1>3, <2>1, <2>2 DEF Others
  <2>5. CommittedDbs(r)' = CommittedDbs(r) /\ CommittedDbs(r) = FirstOf(r, 1 - 1)
    BY <1>1 DEF CommittedDbs, UnitInv, CommittedByStage
  <2>6. r \notin {p[1] : p \in published'} /\ ~Ended(r)' /\ PoolTypes'
    BY <1>1, <1>3, <2>3 DEF UnitInv, PublishedByStage, PoolTypes, Ended
  <2> QED BY <1>1, <1>3, <2>1, <2>3, <2>4, <2>5, <2>6, OneRunMoves
<1> QED BY <1>2, <1>3 DEF Body

LEMMA CommitStep == ASSUME UnitInv, NEW r \in UnitRuns, Commit(r) PROVE UnitInv'
<1> DEFINE db == Plan(r)[unit[r].next]
<1>1. /\ unit[r].at = "commit" /\ UNCHANGED published
      /\ committed' = [committed EXCEPT ![db] = @ \cup {r}]
      /\ conns' = [conns EXCEPT ![db] = @ \ {r}]
  BY DEF Commit
<1>2. /\ Plan(r) \in Seq(Databases) /\ Len(Plan(r)) \in Nat /\ unit[r].next \in 1..Len(Plan(r))
      /\ db \in Databases /\ conns \in [Databases -> SUBSET UnitRuns] /\ committed \in [Databases -> SUBSET UnitRuns]
  BY <1>1, Facts
<1>3. /\ unit' \in [UnitRuns -> UnitRecord] /\ Others(r) /\ unit'[r].plan = unit[r].plan
      /\ unit'[r].next \in 1..Len(Plan(r))
      /\ \/ unit[r].next = Len(Plan(r)) /\ unit'[r].at = "publish" /\ unit'[r].next = 1
         \/ unit[r].next # Len(Plan(r)) /\ unit'[r].at = "commit" /\ unit'[r].next = unit[r].next + 1
  BY <1>1, NextPlace DEF Commit
<1>4. FirstOf(r, unit[r].next) = FirstOf(r, unit[r].next - 1) \cup {db}
  <2>1. 1..unit[r].next = (1..(unit[r].next - 1)) \cup {unit[r].next}
    BY <1>2
  <2> QED BY <2>1 DEF FirstOf
<1> HIDE DEF db
<1>5. PoolTypes'
  <2>1. conns' \in [Databases -> SUBSET UnitRuns] /\ committed' \in [Databases -> SUBSET UnitRuns]
        /\ \A d \in Databases : conns'[d] \subseteq conns[d]
    BY <1>1, <1>2
  <2> QED BY <2>1, FewerConnections DEF PoolTypes
<1>6. /\ \A d \in Databases : committed'[d] \ {r} = committed[d] \ {r}
      /\ \A d \in Databases : conns'[d] \ {r} \subseteq conns[d] \ {r}
  BY <1>1, <1>2
<1>7. CommittedDbs(r)' = FirstOf(r, unit[r].next)
  <2>1. CommittedDbs(r)' = CommittedDbs(r) \cup {db}
    BY <1>1, <1>2 DEF CommittedDbs
  <2>2. CommittedDbs(r) = FirstOf(r, unit[r].next - 1)
    BY <1>1 DEF UnitInv, CommittedByStage
  <2> QED BY <1>4, <2>1, <2>2
<1>8. r \notin {p[1] : p \in published'} /\ ~Ended(r)'
  BY <1>1, <1>3 DEF UnitInv, PublishedByStage, Ended
<1>9. unit'[r].at = "commit" => CommittedDbs(r)' = FirstOf(r, unit'[r].next - 1)
  <2>1. unit'[r].at = "commit" => unit'[r].next = unit[r].next + 1
    BY <1>3
  <2>2. unit'[r].at = "commit" => unit'[r].next - 1 = unit[r].next
    BY <1>2, <2>1
  <2> QED BY <1>7, <2>2
<1>10. unit'[r].at = "publish" => CommittedDbs(r)' = FirstOf(r, Len(Plan(r)))
  BY <1>3, <1>7
<1> QED BY <1>1, <1>3, <1>5, <1>6, <1>8, <1>9, <1>10, OneRunMoves

LEMMA PublishStep == ASSUME UnitInv, NEW r \in UnitRuns, PublishAll(r) PROVE UnitInv'
<1> DEFINE db == Plan(r)[unit[r].next]
<1>1. unit[r].at = "publish" /\ UNCHANGED committed
  BY DEF PublishAll
<1>2. /\ Plan(r) \in Seq(Databases) /\ Len(Plan(r)) \in Nat /\ unit[r].next \in 1..Len(Plan(r))
      /\ db \in Databases /\ unit \in [UnitRuns -> UnitRecord] /\ unit[r] \in UnitRecord
      /\ committed \in [Databases -> SUBSET UnitRuns]
  BY <1>1, Facts
<1>3. published' \subseteq published \cup {<<r, d>> : d \in Databases}
  BY <1>2 DEF PublishAll
<1>4. CommittedDbs(r)' = CommittedDbs(r) /\ CommittedDbs(r) = FirstOf(r, Len(Plan(r)))
  BY <1>1 DEF CommittedDbs, UnitInv, CommittedByStage
<1>5. CASE Leave(r, "ok")
  <2>1. /\ unit' \in [UnitRuns -> UnitRecord] /\ Others(r)
        /\ unit'[r].at = "ok" /\ unit'[r].next = unit[r].next /\ unit'[r].plan = unit[r].plan
        /\ conns' \in [Databases -> SUBSET UnitRuns]
        /\ \A d \in Databases : conns'[d] = conns[d] \ {r}
        /\ \A d \in Databases : IsFiniteSet(conns'[d]) /\ Cardinality(conns'[d]) <= PoolSize
    BY <1>1, <1>5, LeaveFrame DEF Stages
  <2>2. PoolTypes'
    BY <1>1, <1>2, <2>1 DEF PoolTypes
  <2> QED BY <1>1, <1>2, <1>3, <1>4, <2>1, <2>2, OneRunMoves
<1>6. CASE unit' = [unit EXCEPT ![r].next = @ + 1] /\ UNCHANGED conns /\ unit[r].next # Len(Plan(r))
  <2> DEFINE n == unit[r].next + 1
  <2>1. unit'[r] = [unit[r] EXCEPT !.next = n] /\ Others(r) /\ n \in Nat
    BY <1>2, <1>6 DEF Others
  <2> HIDE DEF n
  <2>2. [unit[r] EXCEPT !.next = n] \in UnitRecord
    BY <1>2, <2>1 DEF UnitRecord
  <2>3. unit'[r].at = "publish" /\ unit'[r].next = n /\ unit'[r].plan = unit[r].plan
    BY <1>1, <1>2, <2>1 DEF UnitRecord
  <2>4. unit' \in [UnitRuns -> UnitRecord]
    BY <1>2, <1>6, <2>1, <2>2 DEF Others
  <2>5. unit'[r].next \in 1..Len(Plan(r))
    BY <1>2, <1>6, <2>3 DEF n
  <2>6. ~Ended(r)' /\ PoolTypes'
    BY <1>1, <1>6, <2>3 DEF UnitInv, PoolTypes, Ended
  <2> QED BY <1>1, <1>3, <1>4, <1>6, <2>1, <2>3, <2>4, <2>5, <2>6, OneRunMoves
<1> QED BY <1>5, <1>6 DEF PublishAll

LEMMA UnitStep == UnitInv /\ [TwoPhaseNext]_twoPhaseVars => UnitInv'
<1> SUFFICES ASSUME UnitInv, [TwoPhaseNext]_twoPhaseVars PROVE UnitInv'
  OBVIOUS
<1>1. CASE UNCHANGED twoPhaseVars
  BY <1>1 DEF twoPhaseVars, UnitInv, UnitTypes, PoolTypes, CommittedByStage, CommittedDbs, FirstOf, Plan,
         PublishedByStage, EndedRunsHoldNoConnection, Ended
<1>2. ASSUME NEW r \in UnitRuns, BeginFails(r) \/ BodyFails(r) \/ CommitFails(r) PROVE UnitInv'
  <2>1. /\ unit[r].at \in {"begin", "body", "commit"} /\ UNCHANGED <<committed, published>>
        /\ \E how \in {"failed", "panicked"} : Leave(r, how) /\ (unit[r].at = "commit" => how = "failed")
    BY <1>2 DEF BeginFails, BodyFails, CommitFails
  <2> QED BY <2>1, LeaveStep
<1> QED BY <1>1, <1>2, BeginStep, BodyStep, CommitStep, PublishStep DEF TwoPhaseNext

-----------------------------------------------------------------------------
\* What every run has done, by its stage, at any time.
THEOREM UnitInvariant == TwoPhaseSpec => []UnitInv
  BY UnitInitInv, UnitStep, PTL DEF TwoPhaseSpec

\* However many databases a UseCase spans and wherever its run fails: what it leaves
\* committed is the first databases of its plan, its events are heard only when that is all
\* of them, and neither an error nor a panic leaves a connection behind.
THEOREM BoundedCommits == TwoPhaseSpec => []PartialCommitsAreBounded
<1>1. UnitInv => PartialCommitsAreBounded
  <2> SUFFICES ASSUME UnitInv PROVE PartialCommitsAreBounded
    OBVIOUS
  <2>1. \A r \in UnitRuns : unit[r].at \in Stages /\ Len(Plan(r)) \in Nat /\ Plan(r) \in Seq(Databases)
    BY DEF UnitInv, UnitTypes, Plan
  <2>2. \A r \in UnitRuns : FirstOf(r, Len(Plan(r))) = ToSet(Plan(r)) /\ FirstOf(r, 0) = {}
    BY <2>1 DEF FirstOf, ToSet
  <2>3. TwoPhaseTypeOK
    <3>1. ASSUME NEW r \in UnitRuns PROVE unit[r].next \in 1..Max({1, Len(Plan(r))})
      <4>1. Max({1, Len(Plan(r))}) \in {1, Len(Plan(r))} /\ \A y \in {1, Len(Plan(r))} : Max({1, Len(Plan(r))}) >= y
        <5>1. \E x \in {1, Len(Plan(r))} : \A y \in {1, Len(Plan(r))} : x >= y
          <6>1. CASE Len(Plan(r)) >= 1
            BY <2>1, <6>1
          <6>2. CASE Len(Plan(r)) < 1
            BY <2>1, <6>2
          <6> QED BY <2>1, <6>1, <6>2
        <5> QED BY <5>1 DEF Max
      <4>2. unit[r].next = 1 \/ unit[r].next \in 1..Len(Plan(r))
        BY DEF UnitInv, UnitTypes
      <4> QED BY <2>1, <4>1, <4>2
    <3> QED BY <2>1, <3>1 DEF UnitInv, PoolTypes, TwoPhaseTypeOK
  <2>4. CommittedIsAPrefix
    <3> SUFFICES ASSUME NEW r \in UnitRuns
                 PROVE  /\ \E n \in 0..Len(Plan(r)) : CommittedDbs(r) = FirstOf(r, n)
                        /\ unit[r].at = "ok" => CommittedDbs(r) = ToSet(Plan(r))
                        /\ unit[r].at \in {"begin", "body", "panicked"} => CommittedDbs(r) = {}
      BY DEF CommittedIsAPrefix, FirstOf
    <3>1. 0 \in 0..Len(Plan(r)) /\ Len(Plan(r)) \in 0..Len(Plan(r))
      BY <2>1
    <3>2. unit[r].at = "commit" => unit[r].next - 1 \in 0..Len(Plan(r))
      BY <2>1 DEF UnitInv, UnitTypes
    <3>3. \E n \in 0..Len(Plan(r)) : CommittedDbs(r) = FirstOf(r, n)
      BY <2>1, <3>1, <3>2 DEF UnitInv, CommittedByStage, Stages
    <3> QED BY <2>2, <3>3 DEF UnitInv, CommittedByStage
  <2>5. PublishedAfterAllCommits
    BY <2>2 DEF UnitInv, PublishedByStage, CommittedByStage, PublishedAfterAllCommits
  <2> QED BY <2>3, <2>4, <2>5 DEF UnitInv, PartialCommitsAreBounded
<1> QED BY <1>1, UnitInvariant, PTL

-----------------------------------------------------------------------------
\* A Saga, for any declarations, calls and number of crashes: what a run has completed and
\* handled is told by its phase and its place in the steps.

\* What holds of the steps a run completed and handled, wherever it is.
RunFields == {"phase", "at", "completed", "compensated", "unrecoverable", "err", "undone"}
HandledInOrder(r) ==
    /\ DOMAIN r = RunFields
    /\ r.at \in Nat /\ r.completed \in Seq(Nat) /\ r.compensated \in Seq(Nat) /\ r.unrecoverable \in Seq(Nat)
    /\ Len(r.completed) <= Len(Steps) /\ \A k \in DOMAIN r.completed : r.completed[k] = k
    /\ r.err = "nil" => HandledCount(r) = 0
    /\ HandledCount(r) <= Len(r.completed)
    /\ Decreasing(r.unrecoverable) /\ Decreasing(r.compensated)
    /\ ToSet(r.unrecoverable) = {k \in Passed(r) : StepOf(Steps[k]).unrecoverable}
    /\ ToSet(r.compensated) = {k \in Passed(r) : ~StepOf(Steps[k]).unrecoverable}

\* What its place says, by the phase.
PlaceFits(r) ==
    /\ r.phase \in {"up", "hook", "down", "put", "end", "lost"}
    /\ r.phase \in {"up", "hook"} => r.at \in 1..Len(Steps) /\ Len(r.completed) = r.at - 1 /\ HandledCount(r) = 0
    /\ r.phase = "up" => r.err = "nil"
    /\ r.phase \in {"hook", "down"} => r.err # "nil"
    /\ r.phase = "down" => r.at \in 1..Len(r.completed) /\ r.at = Len(r.completed) - HandledCount(r)
    /\ r.phase \in {"put", "end"} =>
          IF r.err = "nil" THEN Len(r.completed) = Len(Steps) ELSE HandledCount(r) = Len(r.completed)
    /\ r.phase = "put" => Async

RunFits(r) == HandledInOrder(r) /\ PlaceFits(r)
RunsFit ==
    /\ decl \in SagaDecls /\ DOMAIN run = SagaCalls
    /\ \A c \in SagaCalls : run[c] = NoRun \/ RunFits(run[c])

\* A call that has not started its run has none.
CallersFit ==
    /\ caller \in [SagaCalls -> {"new", "looked", "waiting", "sagaId", "ok", "failed", "timeout", "lost"}]
    /\ \A c \in SagaCalls : caller[c] \in {"new", "looked"} => run[c] = NoRun

\* Only an asynchronous saga has a status, and what runs, and what was answered, is recorded.
StatusFits ==
    /\ \A i \in DOMAIN status : Async /\ status[i] \in {"Running", "Completed", "Compensated", "Failed"}
    /\ \A c \in SagaCalls : caller[c] = "looked" => Async
    /\ \A c \in SagaCalls : Async /\ run[c].phase \in {"up", "hook", "down", "put"} => SagaIDOf(c) \in DOMAIN status
    /\ \A c \in SagaCalls : Async /\ caller[c] = "sagaId" /\ sagaCrashes = 0 => SagaIDOf(c) \in DOMAIN status

SagaInv ==
    /\ RunsFit /\ CallersFit /\ StatusFits
    /\ holds \subseteq SagaCalls /\ StateHandedOverOnlyAfterRun /\ StatusMatchesARun /\ sagaCrashes \in Nat

-----------------------------------------------------------------------------
\* The steps of a declaration.
LEMMA StepFacts ==
    ASSUME decl \in SagaDecls
    PROVE  Len(Steps) \in Nat /\ DOMAIN Steps = 1..Len(Steps) /\ (Steps = <<>> <=> Len(Steps) = 0)
<1>1. Steps \in Seq([down : {"block", "unrecoverable", "none"}, hook : BOOLEAN])
  BY SagaDeclsAssumption DEF Steps
<1> QED BY <1>1, EmptySeq, LenProperties

\* A decreasing sequence grows at its end with a smaller number.
LEMMA DecreasingAppend ==
    ASSUME NEW s \in Seq(Nat), NEW e \in Nat, Decreasing(s), \A k \in ToSet(s) : k > e
    PROVE  /\ Append(s, e) \in Seq(Nat) /\ Len(Append(s, e)) = Len(s) + 1
           /\ Decreasing(Append(s, e)) /\ ToSet(Append(s, e)) = ToSet(s) \cup {e}
<1>1. /\ Append(s, e) \in Seq(Nat) /\ Len(Append(s, e)) = Len(s) + 1 /\ Append(s, e)[Len(s) + 1] = e
      /\ \A i \in 1..Len(s) : Append(s, e)[i] = s[i]
  BY AppendProperties
<1>2. Len(s) \in Nat /\ DOMAIN s = 1..Len(s) /\ DOMAIN Append(s, e) = 1..Len(s) + 1
      /\ 1..Len(s) + 1 = 1..Len(s) \cup {Len(s) + 1}
  BY <1>1, LenProperties
<1>3. ToSet(Append(s, e)) = ToSet(s) \cup {e}
  BY <1>1, <1>2 DEF ToSet
<1>4. \A i \in 1..Len(s) : s[i] > e
  BY <1>2 DEF ToSet
<1>5. Decreasing(Append(s, e))
  BY <1>1, <1>2, <1>4 DEF Decreasing
<1> QED BY <1>1, <1>3, <1>5

\* How many steps a run has handled.
LEMMA CountFacts ==
    ASSUME NEW r, r.compensated \in Seq(Nat), r.unrecoverable \in Seq(Nat)
    PROVE  HandledCount(r) \in Nat
<1>1. \A s, t \in Seq(Nat) : Len(s) + Len(t) \in Nat
  BY LenProperties
<1> QED BY <1>1 DEF HandledCount

\* One of two sequences grows by one.
LEMMA SumGrows ==
    ASSUME NEW s \in Seq(Nat), NEW t \in Seq(Nat), NEW u \in Seq(Nat), Len(u) = Len(s) + 1
    PROVE  Len(u) + Len(t) = Len(s) + Len(t) + 1 /\ Len(t) + Len(u) = Len(t) + Len(s) + 1
<1> QED BY LenProperties

\* A run whose steps are over is recorded or ends.
LEMMA SettledFits ==
    ASSUME NEW r, HandledInOrder(r),
           IF r.err = "nil" THEN Len(r.completed) = Len(Steps) ELSE HandledCount(r) = Len(r.completed)
    PROVE  RunFits(SagaSettled(r)) /\ SagaSettled(r).phase = IF Async THEN "put" ELSE "end"
<1> DEFINE s == SagaSettled(r)
<1>1. /\ DOMAIN s = RunFields /\ s.phase = IF Async THEN "put" ELSE "end"
      /\ s.at = r.at /\ s.completed = r.completed /\ s.compensated = r.compensated
      /\ s.unrecoverable = r.unrecoverable /\ s.err = r.err
  BY DEF SagaSettled, HandledInOrder, RunFields
<1> HIDE DEF s
<1>2. HandledCount(s) = HandledCount(r) /\ Passed(s) = Passed(r)
  BY <1>1 DEF HandledCount, Passed
<1>3. HandledInOrder(s)
  BY <1>1, <1>2 DEF HandledInOrder
<1>4. PlaceFits(s)
  BY <1>1, <1>2 DEF PlaceFits
<1> QED BY <1>1, <1>3, <1>4 DEF RunFits, s

\* A failed run goes on with the last completed step it has not handled.
LEMMA DownFromFits ==
    ASSUME NEW r, HandledInOrder(r), r.err # "nil", NEW i, i = Len(r.completed) - HandledCount(r)
    PROVE  /\ RunFits(DownFrom(r, i))
           /\ DownFrom(r, i).phase \in {"down", IF Async THEN "put" ELSE "end"}
<1>1. Len(r.completed) \in Nat /\ HandledCount(r) \in Nat /\ i \in Nat /\ i <= Len(r.completed)
  <2>1. HandledCount(r) <= Len(r.completed)
    BY DEF HandledInOrder
  <2>2. Len(r.completed) \in Nat /\ HandledCount(r) \in Nat
    BY LenProperties, CountFacts DEF HandledInOrder
  <2> QED BY <2>1, <2>2
<1>2. CASE i = 0
  <2>1. DownFrom(r, i) = SagaSettled(r)
    BY <1>2 DEF DownFrom
  <2>2. HandledCount(r) = Len(r.completed)
    BY <1>1, <1>2
  <2> QED BY <2>1, <2>2, SettledFits
<1>3. CASE i # 0
  <2> DEFINE s == [r EXCEPT !.phase = "down", !.at = i]
  <2>1. DownFrom(r, i) = s
    BY <1>3 DEF DownFrom
  <2>2. /\ DOMAIN s = RunFields /\ s.phase = "down" /\ s.at = i /\ s.completed = r.completed
        /\ s.compensated = r.compensated /\ s.unrecoverable = r.unrecoverable /\ s.err = r.err
    BY DEF HandledInOrder, RunFields
  <2> HIDE DEF s
  <2>3. HandledCount(s) = HandledCount(r) /\ Passed(s) = Passed(r)
    BY <2>2 DEF HandledCount, Passed
  <2>4. HandledInOrder(s)
    BY <1>1, <2>2, <2>3 DEF HandledInOrder
  <2>5. PlaceFits(s)
    <3>1. i \in 1..Len(r.completed)
      BY <1>1, <1>3
    <3> QED BY <2>2, <2>3, <3>1 DEF PlaceFits
  <2> QED BY <2>1, <2>2, <2>4, <2>5 DEF RunFits
<1> QED BY <1>2, <1>3

\* A run that starts has everything to do.
LEMMA NewRunFits ==
    ASSUME decl \in SagaDecls
    PROVE  RunFits(NewRun) /\ NewRun.phase \in {"up", IF Async THEN "put" ELSE "end"}
<1> DEFINE r == [phase |-> "up", at |-> 1, completed |-> <<>>, compensated |-> <<>>,
                 unrecoverable |-> <<>>, err |-> "nil", undone |-> {}]
<1>1. Len(Steps) \in Nat /\ (Steps = <<>> <=> Len(Steps) = 0)
  BY StepFacts
<1>2. /\ DOMAIN r = RunFields /\ r.phase = "up" /\ r.at = 1 /\ r.completed = <<>> /\ r.compensated = <<>>
      /\ r.unrecoverable = <<>> /\ r.err = "nil"
  BY DEF RunFields
<1>3. NewRun = IF Steps = <<>> THEN SagaSettled(r) ELSE r
  BY DEF NewRun
<1> HIDE DEF r
<1>4. HandledCount(r) = 0 /\ Passed(r) = {} /\ Len(r.completed) = 0
  <2>1. Len(<<>>) = 0 /\ 1..0 = {}
    OBVIOUS
  <2> QED BY <1>2, <2>1 DEF HandledCount, Passed
<1>5. HandledInOrder(r)
  <2>1. <<>> \in Seq(Nat) /\ Decreasing(<<>>) /\ ToSet(<<>>) = {} /\ \A k \in DOMAIN <<>> : FALSE
    BY DEF Decreasing, ToSet
  <2>2. /\ r.completed \in Seq(Nat) /\ r.compensated \in Seq(Nat) /\ r.unrecoverable \in Seq(Nat) /\ r.at \in Nat
        /\ Decreasing(r.unrecoverable) /\ Decreasing(r.compensated)
        /\ ToSet(r.unrecoverable) = {} /\ ToSet(r.compensated) = {} /\ DOMAIN r.completed = {}
    BY <1>2, <2>1
  <2> QED BY <1>1, <1>2, <1>4, <2>2 DEF HandledInOrder
<1>6. CASE Steps = <<>>
  BY <1>1, <1>2, <1>3, <1>4, <1>5, <1>6, SettledFits
<1>7. CASE Steps # <<>>
  <2>1. 1 \in 1..Len(Steps)
    BY <1>1, <1>7
  <2>2. PlaceFits(r)
    BY <1>2, <1>4, <2>1 DEF PlaceFits
  <2> QED BY <1>2, <1>3, <1>5, <1>7, <2>2 DEF RunFits
<1> QED BY <1>6, <1>7

\* A step that succeeds is completed; one that fails starts the compensation.
LEMMA UpFits ==
    ASSUME RunsFit, NEW c \in SagaCalls, Up(c)
    PROVE  /\ run' = [run EXCEPT ![c] = run'[c]] /\ RunFits(run'[c]) /\ run[c].phase = "up"
           /\ run'[c].phase \in {"up", "hook", "down", IF Async THEN "put" ELSE "end"}
<1> DEFINE r == run[c]
           done == [r EXCEPT !.completed = Append(@, r.at)]
<1>1. /\ decl \in SagaDecls /\ DOMAIN run = SagaCalls /\ HandledInOrder(r) /\ PlaceFits(r) /\ r.phase = "up"
  BY DEF RunsFit, RunFits, Up, NoRun
<1>2. /\ DOMAIN r = RunFields /\ r.at \in 1..Len(Steps) /\ r.completed \in Seq(Nat) /\ Len(r.completed) = r.at - 1
      /\ HandledCount(r) = 0 /\ r.err = "nil" /\ Len(Steps) \in Nat /\ r.at \in Nat
      /\ r.compensated \in Seq(Nat) /\ r.unrecoverable \in Seq(Nat)
  BY <1>1, StepFacts DEF HandledInOrder, PlaceFits
<1>3. PICK next : /\ Set(c, next)
                  /\ \/ next = IF r.at = Len(Steps) THEN SagaSettled(done) ELSE [done EXCEPT !.at = @ + 1]
                     \/ \E err \in {"business", "infra"} :
                          \/ next = [r EXCEPT !.phase = "hook", !.err = err]
                          \/ next = DownFrom([r EXCEPT !.err = err], r.at - 1)
  <2>1. CASE Set(c, IF r.at = Len(Steps) THEN SagaSettled(done) ELSE [done EXCEPT !.at = @ + 1])
    BY <2>1
  <2>2. ASSUME NEW err \in {"business", "infra"},
               Set(c, IF err = "infra" /\ StepOf(Steps[r.at]).hook THEN [r EXCEPT !.phase = "hook", !.err = err]
                      ELSE DownFrom([r EXCEPT !.err = err], r.at - 1))
        PROVE  \E next : /\ Set(c, next)
                         /\ \/ next = [r EXCEPT !.phase = "hook", !.err = err]
                            \/ next = DownFrom([r EXCEPT !.err = err], r.at - 1)
    BY <2>2
  <2> QED BY <2>1, <2>2 DEF Up
<1>4. run' = [run EXCEPT ![c] = run'[c]] /\ run'[c] = next
  BY <1>1, <1>3 DEF Set
<1>5. /\ HandledInOrder(done) /\ done.at = r.at /\ done.phase = "up" /\ done.err = "nil" /\ DOMAIN done = RunFields
      /\ done.completed = Append(r.completed, r.at) /\ Len(done.completed) = r.at /\ HandledCount(done) = 0
      /\ done.compensated = r.compensated /\ done.unrecoverable = r.unrecoverable
  <2>1. /\ DOMAIN done = RunFields /\ done.at = r.at /\ done.phase = "up" /\ done.err = "nil"
        /\ done.completed = Append(r.completed, r.at)
        /\ done.compensated = r.compensated /\ done.unrecoverable = r.unrecoverable
    BY <1>1, <1>2 DEF RunFields
  <2>2. /\ Append(r.completed, r.at) \in Seq(Nat) /\ Len(Append(r.completed, r.at)) = r.at
        /\ \A i \in 1..r.at - 1 : Append(r.completed, r.at)[i] = r.completed[i]
        /\ Append(r.completed, r.at)[r.at] = r.at
    BY <1>2, AppendProperties
  <2> HIDE DEF done
  <2>3. HandledCount(done) = 0 /\ Passed(done) = {} /\ Passed(r) = {}
    <3>1. HandledCount(done) = 0
      BY <1>2, <2>1 DEF HandledCount
    <3> QED BY <1>2, <2>1, <2>2, <3>1 DEF Passed
  <2>4. \A k \in DOMAIN done.completed : done.completed[k] = k
    <3>1. DOMAIN done.completed = 1..r.at /\ DOMAIN r.completed = 1..r.at - 1
      BY <1>2, <2>1, <2>2, LenProperties
    <3>2. \A k \in 1..r.at - 1 : r.completed[k] = k
      BY <1>1, <3>1 DEF HandledInOrder
    <3>3. \A k \in 1..r.at : k = r.at \/ k \in 1..r.at - 1
      BY <1>2
    <3> QED BY <2>1, <2>2, <3>1, <3>2, <3>3
  <2> QED BY <1>1, <1>2, <2>1, <2>2, <2>3, <2>4 DEF HandledInOrder
<1>6. CASE next = IF r.at = Len(Steps) THEN SagaSettled(done) ELSE [done EXCEPT !.at = @ + 1]
  <2>1. CASE r.at = Len(Steps)
    <3> HIDE DEF done
    <3>1. next = SagaSettled(done)
      BY <1>6, <2>1
    <3> QED BY <1>1, <1>4, <1>5, <2>1, <3>1, SettledFits
  <2>2. CASE r.at # Len(Steps)
    <3> HIDE DEF done
    <3>1. next = [done EXCEPT !.at = @ + 1]
      BY <1>6, <2>2
    <3>2. /\ DOMAIN next = RunFields /\ next.at = r.at + 1 /\ next.phase = "up" /\ next.err = "nil"
          /\ next.completed = done.completed /\ next.compensated = done.compensated
          /\ next.unrecoverable = done.unrecoverable
      BY <1>5, <3>1 DEF RunFields
    <3>3. HandledCount(next) = 0 /\ HandledCount(next) = HandledCount(done) /\ Passed(next) = Passed(done)
      BY <1>5, <3>2 DEF HandledCount, Passed
    <3>4. HandledInOrder(next)
      <4>1. next.at \in Nat /\ HandledInOrder(done)
        BY <1>2, <1>5, <3>2
      <4> QED BY <3>2, <3>3, <4>1 DEF HandledInOrder
    <3>5. r.at + 1 \in 1..Len(Steps) /\ Len(next.completed) = next.at - 1
      BY <1>2, <1>5, <2>2, <3>2
    <3>6. PlaceFits(next)
      BY <3>2, <3>3, <3>5 DEF PlaceFits
    <3> QED BY <1>1, <1>4, <3>2, <3>4, <3>6 DEF RunFits
  <2> QED BY <2>1, <2>2
<1>7. ASSUME NEW err \in {"business", "infra"}, next = [r EXCEPT !.phase = "hook", !.err = err]
      PROVE  RunFits(next) /\ next.phase = "hook"
  <2>1. /\ DOMAIN next = RunFields /\ next.at = r.at /\ next.phase = "hook" /\ next.err = err
        /\ next.completed = r.completed /\ next.compensated = r.compensated /\ next.unrecoverable = r.unrecoverable
    BY <1>2, <1>7 DEF RunFields
  <2>2. HandledCount(next) = HandledCount(r) /\ Passed(next) = Passed(r)
    BY <2>1 DEF HandledCount, Passed
  <2>3. HandledInOrder(next)
    BY <1>1, <2>1, <2>2 DEF HandledInOrder
  <2>4. PlaceFits(next)
    BY <1>2, <2>1, <2>2 DEF PlaceFits
  <2> QED BY <2>1, <2>3, <2>4 DEF RunFits
<1>8. ASSUME NEW err \in {"business", "infra"}, next = DownFrom([r EXCEPT !.err = err], r.at - 1)
      PROVE  RunFits(next) /\ next.phase \in {"down", IF Async THEN "put" ELSE "end"}
  <2> DEFINE failed == [r EXCEPT !.err = err]
  <2>1. /\ DOMAIN failed = RunFields /\ failed.at = r.at /\ failed.err = err
        /\ failed.completed = r.completed /\ failed.compensated = r.compensated /\ failed.unrecoverable = r.unrecoverable
    BY <1>2 DEF RunFields
  <2>2. next = DownFrom(failed, r.at - 1)
    BY <1>8
  <2> HIDE DEF failed
  <2>3. HandledCount(failed) = 0 /\ HandledCount(failed) = HandledCount(r) /\ Passed(failed) = Passed(r)
    BY <1>2, <2>1 DEF HandledCount, Passed
  <2>4. HandledInOrder(failed)
    BY <1>1, <2>1, <2>3 DEF HandledInOrder
  <2>5. r.at - 1 = Len(failed.completed) - HandledCount(failed) /\ failed.err # "nil"
    BY <1>2, <2>1, <2>3
  <2> QED BY <2>2, <2>4, <2>5, DownFromFits
<1> QED BY <1>1, <1>3, <1>4, <1>6, <1>7, <1>8

\* After the hook the run is as far as without one.
LEMMA HookFits ==
    ASSUME RunsFit, NEW c \in SagaCalls, InfraHook(c)
    PROVE  /\ run' = [run EXCEPT ![c] = run'[c]] /\ RunFits(run'[c]) /\ run[c].phase = "hook"
           /\ run'[c].phase \in {"down", IF Async THEN "put" ELSE "end"}
<1> DEFINE r == run[c]
<1>1. /\ decl \in SagaDecls /\ DOMAIN run = SagaCalls /\ HandledInOrder(r) /\ PlaceFits(r) /\ r.phase = "hook"
      /\ run' = [run EXCEPT ![c] = DownFrom(r, r.at - 1)]
  BY DEF RunsFit, RunFits, InfraHook, NoRun, Set
<1>2. r.err # "nil" /\ Len(r.completed) = r.at - 1 /\ HandledCount(r) = 0 /\ r.at \in Nat /\ Len(r.completed) \in Nat
  BY <1>1, LenProperties DEF HandledInOrder, PlaceFits
<1>3. r.at - 1 = Len(r.completed) - HandledCount(r)
  BY <1>2
<1>4. run'[c] = DownFrom(r, r.at - 1)
  BY <1>1
<1> QED BY <1>1, <1>2, <1>3, <1>4, DownFromFits

\* One more of the completed steps is handled.
LEMMA HandledFits ==
    ASSUME decl \in SagaDecls, NEW r, NEW s, HandledInOrder(r), r.err # "nil",
           r.at \in 1..Len(r.completed), r.at = Len(r.completed) - HandledCount(r),
           DOMAIN s = RunFields, s.at = r.at, s.completed = r.completed, s.err = r.err,
           \/ /\ StepOf(Steps[r.at]).unrecoverable
              /\ s.unrecoverable = Append(r.unrecoverable, r.at) /\ s.compensated = r.compensated
           \/ /\ ~StepOf(Steps[r.at]).unrecoverable
              /\ s.compensated = Append(r.compensated, r.at) /\ s.unrecoverable = r.unrecoverable
    PROVE  HandledInOrder(s) /\ r.at - 1 = Len(s.completed) - HandledCount(s)
<1>1. /\ r.at \in Nat /\ r.completed \in Seq(Nat) /\ r.compensated \in Seq(Nat) /\ r.unrecoverable \in Seq(Nat)
      /\ Len(r.completed) \in Nat /\ HandledCount(r) \in Nat
      /\ Decreasing(r.unrecoverable) /\ Decreasing(r.compensated)
      /\ ToSet(r.unrecoverable) = {k \in Passed(r) : StepOf(Steps[k]).unrecoverable}
      /\ ToSet(r.compensated) = {k \in Passed(r) : ~StepOf(Steps[k]).unrecoverable}
  BY LenProperties, CountFacts DEF HandledInOrder
<1>2. \A k \in Passed(r) : k > r.at
  BY <1>1 DEF Passed
<1>3. /\ \A k \in ToSet(r.unrecoverable) : k > r.at
      /\ \A k \in ToSet(r.compensated) : k > r.at
  BY <1>1, <1>2
<1>4. /\ Append(r.unrecoverable, r.at) \in Seq(Nat) /\ Len(Append(r.unrecoverable, r.at)) = Len(r.unrecoverable) + 1
      /\ Decreasing(Append(r.unrecoverable, r.at)) /\ ToSet(Append(r.unrecoverable, r.at)) = ToSet(r.unrecoverable) \cup {r.at}
  BY <1>1, <1>3, DecreasingAppend
<1>5. /\ Append(r.compensated, r.at) \in Seq(Nat) /\ Len(Append(r.compensated, r.at)) = Len(r.compensated) + 1
      /\ Decreasing(Append(r.compensated, r.at)) /\ ToSet(Append(r.compensated, r.at)) = ToSet(r.compensated) \cup {r.at}
  BY <1>1, <1>3, DecreasingAppend
<1>6. HandledCount(s) = HandledCount(r) + 1
  <2>2. HandledCount(r) = Len(r.compensated) + Len(r.unrecoverable)
    BY DEF HandledCount
  <2>3. HandledCount(s) = Len(s.compensated) + Len(s.unrecoverable)
    BY DEF HandledCount
  <2>4. CASE s.compensated = Append(r.compensated, r.at) /\ s.unrecoverable = r.unrecoverable
    <3>1. s.compensated \in Seq(Nat) /\ Len(s.compensated) = Len(r.compensated) + 1
      BY <1>5, <2>4
    <3>2. HandledCount(s) = Len(s.compensated) + Len(r.unrecoverable)
      BY <2>3, <2>4
    <3>3. Len(s.compensated) + Len(r.unrecoverable) = Len(r.compensated) + Len(r.unrecoverable) + 1
      <4>1. r.compensated \in Seq(Nat) /\ r.unrecoverable \in Seq(Nat)
        BY <1>1
      <4> QED BY <3>1, <4>1, SumGrows
    <3> QED BY <2>2, <3>2, <3>3, Zenon
  <2>5. CASE s.unrecoverable = Append(r.unrecoverable, r.at) /\ s.compensated = r.compensated
    <3>1. s.unrecoverable \in Seq(Nat) /\ Len(s.unrecoverable) = Len(r.unrecoverable) + 1
      BY <1>4, <2>5
    <3>2. HandledCount(s) = Len(r.compensated) + Len(s.unrecoverable)
      BY <2>3, <2>5
    <3>3. Len(r.compensated) + Len(s.unrecoverable) = Len(r.compensated) + Len(r.unrecoverable) + 1
      BY <1>1, <3>1, SumGrows
    <3> QED BY <2>2, <3>2, <3>3, Zenon
  <2> QED BY <2>4, <2>5
<1>7. Passed(s) = Passed(r) \cup {r.at} /\ r.at \notin Passed(r)
  <2>1. /\ Passed(s) = {k \in 1..Len(r.completed) : k > r.at - 1}
        /\ Passed(r) = {k \in 1..Len(r.completed) : k > r.at}
    <3>1. /\ Len(s.completed) = Len(r.completed) /\ Len(r.completed) - HandledCount(s) = r.at - 1
          /\ Len(r.completed) - HandledCount(r) = r.at
      BY <1>1, <1>6
    <3> QED BY <3>1 DEF Passed
  <2> QED BY <1>1, <2>1
<1>8. /\ s.unrecoverable \in Seq(Nat) /\ s.compensated \in Seq(Nat)
      /\ Decreasing(s.unrecoverable) /\ Decreasing(s.compensated)
  BY <1>1, <1>4, <1>5
<1>9. /\ ToSet(s.unrecoverable) = {k \in Passed(s) : StepOf(Steps[k]).unrecoverable}
      /\ ToSet(s.compensated) = {k \in Passed(s) : ~StepOf(Steps[k]).unrecoverable}
  <2>1. CASE StepOf(Steps[r.at]).unrecoverable
    BY <1>1, <1>4, <1>7, <2>1
  <2>2. CASE ~StepOf(Steps[r.at]).unrecoverable
    BY <1>1, <1>5, <1>7, <2>2
  <2> QED BY <2>1, <2>2
<1>10. HandledCount(s) <= Len(s.completed) /\ r.at - 1 = Len(s.completed) - HandledCount(s)
  BY <1>1, <1>6
<1>11. HandledInOrder(s)
  <2>1. /\ Len(r.completed) <= Len(Steps) /\ \A k \in DOMAIN r.completed : r.completed[k] = k
    BY DEF HandledInOrder
  <2> QED BY <1>1, <1>8, <1>9, <1>10, <2>1 DEF HandledInOrder
<1> QED BY <1>10, <1>11

\* A step is undone, or found to be unrecoverable.
LEMMA DownFits ==
    ASSUME RunsFit, NEW c \in SagaCalls, Down(c)
    PROVE  /\ run' = [run EXCEPT ![c] = run'[c]] /\ RunFits(run'[c]) /\ run[c].phase = "down"
           /\ run'[c].phase \in {"down", IF Async THEN "put" ELSE "end"}
<1> DEFINE r == run[c]
           lost == [r EXCEPT !.unrecoverable = Append(@, r.at)]
           back(ok) == [r EXCEPT !.compensated = Append(@, r.at), !.undone = IF ok THEN @ \cup {r.at} ELSE @]
<1>1. /\ decl \in SagaDecls /\ DOMAIN run = SagaCalls /\ HandledInOrder(r) /\ PlaceFits(r) /\ r.phase = "down"
  BY DEF RunsFit, RunFits, Down, NoRun
<1>2. /\ DOMAIN r = RunFields /\ r.err # "nil" /\ r.at \in 1..Len(r.completed) /\ r.at = Len(r.completed) - HandledCount(r)
  BY <1>1 DEF HandledInOrder, PlaceFits
<1>3. PICK s : /\ Set(c, DownFrom(s, r.at - 1))
               /\ \/ s = lost /\ StepOf(Steps[r.at]).unrecoverable
                  \/ (\E ok \in BOOLEAN : s = back(ok)) /\ ~StepOf(Steps[r.at]).unrecoverable
  <2>1. CASE StepOf(Steps[r.at]).unrecoverable
    <3>1. Set(c, DownFrom(lost, r.at - 1))
      BY <2>1 DEF Down
    <3> QED BY <2>1, <3>1
  <2>2. CASE ~StepOf(Steps[r.at]).unrecoverable
    <3>1. PICK ok \in {TRUE, ~StepOf(Steps[r.at]).down} : Set(c, DownFrom(back(ok), r.at - 1))
      BY <2>2 DEF Down
    <3>2. ok \in BOOLEAN
      BY <3>1 DEF StepOf
    <3> HIDE DEF back
    <3> QED BY <2>2, <3>1, <3>2
  <2> QED BY <2>1, <2>2
<1>4. /\ DOMAIN s = RunFields /\ s.at = r.at /\ s.completed = r.completed /\ s.err = r.err
      /\ \/ /\ StepOf(Steps[r.at]).unrecoverable
            /\ s.unrecoverable = Append(r.unrecoverable, r.at) /\ s.compensated = r.compensated
         \/ /\ ~StepOf(Steps[r.at]).unrecoverable
            /\ s.compensated = Append(r.compensated, r.at) /\ s.unrecoverable = r.unrecoverable
  <2>1. CASE s = lost /\ StepOf(Steps[r.at]).unrecoverable
    BY <1>2, <2>1 DEF RunFields
  <2>2. ASSUME NEW ok \in BOOLEAN, s = back(ok), ~StepOf(Steps[r.at]).unrecoverable
        PROVE  /\ DOMAIN s = RunFields /\ s.at = r.at /\ s.completed = r.completed /\ s.err = r.err
               /\ s.compensated = Append(r.compensated, r.at) /\ s.unrecoverable = r.unrecoverable
    BY <1>2, <2>2 DEF RunFields
  <2> HIDE DEF lost, back
  <2> QED BY <1>3, <2>1, <2>2
<1>5. HandledInOrder(s) /\ r.at - 1 = Len(s.completed) - HandledCount(s)
  BY <1>1, <1>2, <1>4, HandledFits
<1>6. run' = [run EXCEPT ![c] = DownFrom(s, r.at - 1)] /\ run'[c] = DownFrom(s, r.at - 1)
  BY <1>1, <1>3 DEF Set
<1>7. /\ RunFits(DownFrom(s, r.at - 1))
      /\ DownFrom(s, r.at - 1).phase \in {"down", IF Async THEN "put" ELSE "end"}
  BY <1>2, <1>4, <1>5, DownFromFits
<1> QED BY <1>1, <1>6, <1>7

-----------------------------------------------------------------------------
\* The declaration is that of the generated code: what a run must be does not change.
LEMMA FitsFrame ==
    ASSUME decl' = decl
    PROVE  /\ Async' = Async /\ Steps' = Steps
           /\ RunsFit' <=> /\ decl \in SagaDecls /\ DOMAIN run' = SagaCalls
                           /\ \A c \in SagaCalls : run'[c] = NoRun \/ RunFits(run'[c])
<1>1. Async' = Async /\ Steps' = Steps
  BY DEF Async, Steps
<1>2. \A c \in SagaCalls : HandledInOrder(run[c])' <=> HandledInOrder(run'[c])
  BY <1>1 DEF HandledInOrder, Passed, HandledCount, Decreasing, ToSet, StepOf, RunFields
<1>3. \A c \in SagaCalls : PlaceFits(run[c])' <=> PlaceFits(run'[c])
  BY <1>1 DEF PlaceFits, HandledCount
<1>4. \A c \in SagaCalls : (run[c] = NoRun \/ RunFits(run[c]))' <=> (run'[c] = NoRun \/ RunFits(run'[c]))
  BY <1>2, <1>3 DEF RunFits, NoRun
<1> QED BY <1>1, <1>4 DEF RunsFit

\* A run that goes on, ends or is recorded: the status it needs is there, and those of others
\* stay what they were.
LEMMA RunSteps ==
    ASSUME SagaInv, NEW c \in SagaCalls, Up(c) \/ InfraHook(c) \/ Down(c)
    PROVE  SagaInv'
<1>1. /\ run' = [run EXCEPT ![c] = run'[c]] /\ RunFits(run'[c]) /\ run[c].phase \in {"up", "hook", "down"}
      /\ run'[c].phase \in {"up", "hook", "down", IF Async THEN "put" ELSE "end"}
  BY UpFits, HookFits, DownFits DEF SagaInv
<1>2. UNCHANGED <<decl, caller, status, holds, counted, sagaCrashes>>
  BY DEF Up, InfraHook, Down
<1>3. /\ DOMAIN run = SagaCalls /\ \A d \in SagaCalls \ {c} : run'[d] = run[d]
      /\ DOMAIN run' = SagaCalls /\ run[c] # NoRun
  BY <1>1 DEF SagaInv, RunsFit, NoRun
<1>4. Async' = Async
  BY <1>2 DEF Async
<1>5. RunsFit'
  BY <1>1, <1>2, <1>3, FitsFrame DEF SagaInv, RunsFit
<1>6. CallersFit'
  BY <1>2, <1>3 DEF SagaInv, CallersFit, NoRun
<1>7. StatusFits'
  <2>1. Async /\ run[c].phase \in {"up", "hook", "down", "put"} => SagaIDOf(c) \in DOMAIN status
    BY DEF SagaInv, StatusFits
  <2> QED BY <1>1, <1>2, <1>3, <1>4, <2>1 DEF SagaInv, StatusFits, SagaIDOf
<1>8. StateHandedOverOnlyAfterRun'
  BY <1>1, <1>2, <1>3 DEF SagaInv, StateHandedOverOnlyAfterRun
<1>9. StatusMatchesARun'
  <2>0. status' = status
    BY <1>2
  <2> SUFFICES ASSUME NEW i \in DOMAIN status'
               PROVE  \E d \in SagaCalls : /\ SagaIDOf(d) = i /\ run'[d].phase # "none"
                                           /\ IF status'[i] = "Running" THEN run'[d].phase # "end"
                                              ELSE run'[d].phase = "end" /\ status'[i] = FinalStateOf(run'[d])
    BY Zenon DEF StatusMatchesARun, SagaIDOf, FinalStateOf
  <2>1. PICK d \in SagaCalls : /\ SagaIDOf(d) = i /\ run[d].phase # "none"
                               /\ IF status[i] = "Running" THEN run[d].phase # "end"
                                  ELSE run[d].phase = "end" /\ status[i] = FinalStateOf(run[d])
    BY <2>0 DEF SagaInv, StatusMatchesARun
  <2>2. CASE d # c
    <3>1. run'[d] = run[d]
      BY <1>3, <2>2
    <3> QED BY <2>0, <2>1, <3>1
  <2>3. CASE d = c
    <3>1. Async
      BY <2>0 DEF SagaInv, StatusFits
    <3>2. run[c].phase # "end" /\ run'[c].phase # "end" /\ run'[c].phase # "none"
      BY <1>1, <3>1
    <3> QED BY <2>0, <2>1, <2>3, <3>2
  <2> QED BY <2>2, <2>3
<1> QED BY <1>2, <1>5, <1>6, <1>7, <1>8, <1>9 DEF SagaInv

\* The goroutine of an asynchronous saga records how it ended.
LEMMA PutStep ==
    ASSUME SagaInv, NEW c \in SagaCalls, PutFinal(c)
    PROVE  SagaInv'
<1> DEFINE r == run[c]
           s == [r EXCEPT !.phase = "end"]
           id == SagaIDOf(c)
<1>1. /\ r.phase = "put" /\ run' = [run EXCEPT ![c] = s] /\ status' = [status EXCEPT ![id] = FinalStateOf(r)]
      /\ UNCHANGED <<decl, caller, holds, sagaCrashes>>
  BY DEF PutFinal, Set
<1>2. /\ decl \in SagaDecls /\ DOMAIN run = SagaCalls /\ HandledInOrder(r) /\ PlaceFits(r) /\ Async
      /\ id \in DOMAIN status /\ r # NoRun
  <2>1. /\ decl \in SagaDecls /\ DOMAIN run = SagaCalls /\ HandledInOrder(r) /\ PlaceFits(r) /\ r # NoRun
    BY <1>1 DEF SagaInv, RunsFit, RunFits, NoRun
  <2>2. Async
    BY <1>1, <2>1 DEF PlaceFits
  <2> QED BY <1>1, <2>1, <2>2 DEF SagaInv, StatusFits
<1>3. /\ DOMAIN s = RunFields /\ s.phase = "end" /\ s.at = r.at /\ s.completed = r.completed
      /\ s.compensated = r.compensated /\ s.unrecoverable = r.unrecoverable /\ s.err = r.err
  BY <1>2 DEF HandledInOrder, RunFields
<1> HIDE DEF s, id
<1>4. run'[c] = s /\ DOMAIN run' = SagaCalls /\ \A d \in SagaCalls \ {c} : run'[d] = run[d]
  BY <1>1, <1>2
<1>5. RunFits(s)
  <2>1. HandledCount(s) = HandledCount(r) /\ Passed(s) = Passed(r)
    BY <1>3 DEF HandledCount, Passed
  <2>2. HandledInOrder(s)
    BY <1>2, <1>3, <2>1 DEF HandledInOrder
  <2>3. PlaceFits(s)
    BY <1>1, <1>2, <1>3, <2>1 DEF PlaceFits
  <2> QED BY <2>2, <2>3 DEF RunFits
<1>6. RunsFit'
  BY <1>1, <1>4, <1>5, FitsFrame DEF SagaInv, RunsFit
<1>7. CallersFit'
  BY <1>1, <1>2, <1>4 DEF SagaInv, CallersFit, NoRun
<1>8. /\ DOMAIN status' = DOMAIN status /\ status'[id] = FinalStateOf(r) /\ \A i \in DOMAIN status \ {id} : status'[i] = status[i]
      /\ FinalStateOf(r) \in {"Completed", "Compensated", "Failed"} /\ FinalStateOf(s) = FinalStateOf(r)
  BY <1>1, <1>2, <1>3 DEF FinalStateOf
<1>9. StatusFits'
  <2>1. Async' = Async
    BY <1>1 DEF Async
  <2> QED BY <1>1, <1>2, <1>3, <1>4, <1>8, <2>1 DEF SagaInv, StatusFits, SagaIDOf
<1>10. StateHandedOverOnlyAfterRun'
  BY <1>1, <1>3, <1>4 DEF SagaInv, StateHandedOverOnlyAfterRun
<1>11. StatusMatchesARun'
  <2> SUFFICES ASSUME NEW i \in DOMAIN status
               PROVE  \E d \in SagaCalls : /\ SagaIDOf(d) = i /\ run'[d].phase # "none"
                                           /\ IF status'[i] = "Running" THEN run'[d].phase # "end"
                                              ELSE run'[d].phase = "end" /\ status'[i] = FinalStateOf(run'[d])
    BY <1>8, Zenon DEF StatusMatchesARun, SagaIDOf, FinalStateOf
  <2>1. CASE i = id
    <3>1. SagaIDOf(c) = i /\ run'[c] = s /\ s.phase = "end" /\ status'[i] = FinalStateOf(s) /\ status'[i] # "Running"
      BY <1>3, <1>4, <1>8, <2>1 DEF id
    <3> QED BY <3>1
  <2>2. CASE i # id
    <3>1. PICK d \in SagaCalls : /\ SagaIDOf(d) = i /\ run[d].phase # "none"
                                 /\ IF status[i] = "Running" THEN run[d].phase # "end"
                                    ELSE run[d].phase = "end" /\ status[i] = FinalStateOf(run[d])
      BY DEF SagaInv, StatusMatchesARun
    <3>2. d # c
      BY <2>2, <3>1 DEF id
    <3>3. run'[d] = run[d] /\ status'[i] = status[i]
      BY <1>4, <1>8, <2>2, <3>2
    <3> QED BY <3>1, <3>3
  <2> QED BY <2>1, <2>2
<1> QED BY <1>1, <1>6, <1>7, <1>9, <1>10, <1>11 DEF SagaInv

\* The entries that start a run: the call had none, and an asynchronous one is recorded first.
LEMMA StartSteps ==
    ASSUME SagaInv, NEW c \in SagaCalls, StartAwait(c) \/ StartAsync(c)
    PROVE  SagaInv'
<1> DEFINE id == SagaIDOf(c)
<1>1. /\ run[c] = NoRun /\ run' = [run EXCEPT ![c] = NewRun] /\ UNCHANGED <<decl, holds, sagaCrashes>>
      /\ caller' = [caller EXCEPT ![c] = caller'[c]] /\ caller'[c] \in {"waiting", "sagaId"}
      /\ (Async => caller[c] = "looked") /\ (caller'[c] = "sagaId" => Async /\ id \in DOMAIN status')
      /\ \/ ~Async /\ status' = status
         \/ Async /\ status' = [i \in DOMAIN status \cup {id} |-> IF i = id THEN "Running" ELSE status[i]]
  BY DEF StartAwait, StartAsync, Returns, SagaInv, CallersFit, StatusFits
<1>2. /\ DOMAIN run = SagaCalls /\ decl \in SagaDecls
      /\ caller \in [SagaCalls -> {"new", "looked", "waiting", "sagaId", "ok", "failed", "timeout", "lost"}]
  BY DEF SagaInv, RunsFit, CallersFit
<1>3. RunFits(NewRun) /\ NewRun.phase \in {"up", IF Async THEN "put" ELSE "end"}
  BY <1>2, NewRunFits
<1>4. run'[c] = NewRun /\ DOMAIN run' = SagaCalls /\ \A d \in SagaCalls \ {c} : run'[d] = run[d] /\ caller'[d] = caller[d]
  BY <1>1, <1>2
<1>5. Async' = Async
  BY <1>1 DEF Async
<1> HIDE DEF id
<1>6. RunsFit'
  BY <1>1, <1>3, <1>4, FitsFrame DEF SagaInv, RunsFit
<1>7. CallersFit'
  <2>1. caller' \in [SagaCalls -> {"new", "looked", "waiting", "sagaId", "ok", "failed", "timeout", "lost"}]
    BY <1>1, <1>2
  <2> QED BY <1>1, <1>4, <2>1 DEF SagaInv, CallersFit, NoRun
<1>8. StatusFits'
  <2>1. /\ DOMAIN status \subseteq DOMAIN status' /\ (Async => id \in DOMAIN status')
        /\ \A i \in DOMAIN status' : Async /\ status'[i] \in {"Running", "Completed", "Compensated", "Failed"}
    BY <1>1 DEF SagaInv, StatusFits
  <2> QED BY <1>1, <1>3, <1>4, <1>5, <2>1 DEF SagaInv, StatusFits, SagaIDOf, id
<1>9. StateHandedOverOnlyAfterRun' /\ holds' \subseteq SagaCalls
  <2>1. c \notin holds
    BY <1>1 DEF SagaInv, StateHandedOverOnlyAfterRun, NoRun
  <2> QED BY <1>1, <1>4, <2>1 DEF SagaInv, StateHandedOverOnlyAfterRun
<1>10. StatusMatchesARun'
  <2> SUFFICES ASSUME NEW i \in DOMAIN status'
               PROVE  \E d \in SagaCalls : /\ SagaIDOf(d) = i /\ run'[d].phase # "none"
                                           /\ IF status'[i] = "Running" THEN run'[d].phase # "end"
                                              ELSE run'[d].phase = "end" /\ status'[i] = FinalStateOf(run'[d])
    BY Zenon DEF StatusMatchesARun, SagaIDOf, FinalStateOf
  <2>1. CASE Async /\ i = id
    <3>1. SagaIDOf(c) = i /\ status'[i] = "Running" /\ run'[c].phase # "none" /\ run'[c].phase # "end"
      BY <1>1, <1>3, <1>4, <2>1 DEF id
    <3> QED BY <3>1
  <2>2. CASE ~(Async /\ i = id)
    <3>1. i \in DOMAIN status /\ status'[i] = status[i]
      BY <1>1, <2>2
    <3>2. PICK d \in SagaCalls : /\ SagaIDOf(d) = i /\ run[d].phase # "none"
                                 /\ IF status[i] = "Running" THEN run[d].phase # "end"
                                    ELSE run[d].phase = "end" /\ status[i] = FinalStateOf(run[d])
      BY <3>1 DEF SagaInv, StatusMatchesARun
    <3>3. d # c
      BY <1>1, <3>2 DEF NoRun
    <3>4. run'[d] = run[d]
      BY <1>4, <3>3
    <3> QED BY <3>1, <3>2, <3>4
  <2> QED BY <2>1, <2>2
<1> QED BY <1>1, <1>6, <1>7, <1>8, <1>9, <1>10 DEF SagaInv

\* The entries that wait, look the id up or return: no run changes.
LEMMA CallerSteps ==
    ASSUME SagaInv, NEW c \in SagaCalls, AwaitTimeout(c) \/ AwaitResult(c) \/ Look(c)
    PROVE  SagaInv'
<1>1. /\ UNCHANGED <<decl, run, status, sagaCrashes>> /\ caller' = [caller EXCEPT ![c] = caller'[c]]
      /\ caller'[c] \in {"timeout", "ok", "failed", "looked", "sagaId"}
      /\ (caller'[c] = "looked" => Async /\ caller[c] = "new")
      /\ (caller'[c] = "sagaId" => SagaIDOf(c) \in DOMAIN status)
      /\ \/ holds' = holds
         \/ holds' = holds \cup {c} /\ run[c].phase = "end"
  <2>1. DOMAIN caller = SagaCalls
    BY DEF SagaInv, CallersFit
  <2>2. CASE AwaitTimeout(c)
    BY <2>1, <2>2 DEF AwaitTimeout, Returns
  <2>3. CASE AwaitResult(c)
    <3>1. caller' = [caller EXCEPT ![c] = IF run[c].err = "nil" THEN "ok" ELSE "failed"]
      BY <2>3 DEF AwaitResult, Returns
    <3>2. caller'[c] \in {"ok", "failed"} /\ caller' = [caller EXCEPT ![c] = caller'[c]]
      BY <2>1, <3>1
    <3> QED BY <2>3, <3>2 DEF AwaitResult
  <2>4. CASE Look(c)
    BY <2>1, <2>4 DEF Look, Returns
  <2> QED BY <2>2, <2>3, <2>4
<1>2. /\ \A d \in SagaCalls \ {c} : caller'[d] = caller[d]
      /\ caller' \in [SagaCalls -> {"new", "looked", "waiting", "sagaId", "ok", "failed", "timeout", "lost"}]
  BY <1>1 DEF SagaInv, CallersFit
<1>3. Async' = Async /\ RunsFit'
  BY <1>1, FitsFrame DEF SagaInv, RunsFit
<1>4. CallersFit'
  BY <1>1, <1>2 DEF SagaInv, CallersFit, NoRun
<1>5. StatusFits'
  BY <1>1, <1>2, <1>3 DEF SagaInv, StatusFits, SagaIDOf
<1>6. StateHandedOverOnlyAfterRun' /\ holds' \subseteq SagaCalls
  BY <1>1 DEF SagaInv, StateHandedOverOnlyAfterRun
<1>7. StatusMatchesARun'
  <2>1. status' = status /\ run' = run
    BY <1>1
  <2> QED BY <2>1 DEF SagaInv, StatusMatchesARun, SagaIDOf, FinalStateOf
<1> QED BY <1>1, <1>3, <1>4, <1>5, <1>6, <1>7 DEF SagaInv

\* The process dies: what is left is what had ended.
LEMMA CrashStep ==
    ASSUME SagaInv, SagaCrash
    PROVE  SagaInv'
<1>1. /\ sagaCrashes' = sagaCrashes + 1 /\ status' = <<>> /\ holds' = {} /\ UNCHANGED decl
      /\ run' = [c \in SagaCalls |-> IF run[c].phase \in {"none", "end"} THEN run[c] ELSE [run[c] EXCEPT !.phase = "lost"]]
      /\ caller' = [c \in SagaCalls |-> IF caller[c] \in {"looked", "waiting"} THEN "lost" ELSE caller[c]]
  BY DEF SagaCrash
<1>2. DOMAIN status' = {} /\ sagaCrashes' \in Nat /\ sagaCrashes' # 0
  BY <1>1 DEF SagaInv
<1>3. ASSUME NEW c \in SagaCalls
      PROVE  /\ run'[c] = NoRun \/ RunFits(run'[c])
             /\ run[c] = NoRun => run'[c] = NoRun
             /\ run'[c].phase \in {"none", "end", "lost"}
  <2>1. CASE run[c].phase \in {"none", "end"}
    BY <1>1, <2>1 DEF SagaInv, RunsFit
  <2>2. CASE ~(run[c].phase \in {"none", "end"})
    <3> DEFINE r == run[c]
               s == [r EXCEPT !.phase = "lost"]
    <3>1. HandledInOrder(r) /\ run'[c] = s /\ r # NoRun
      BY <1>1, <2>2 DEF SagaInv, RunsFit, RunFits, NoRun
    <3>2. /\ DOMAIN s = RunFields /\ s.phase = "lost" /\ s.at = r.at /\ s.completed = r.completed
          /\ s.compensated = r.compensated /\ s.unrecoverable = r.unrecoverable /\ s.err = r.err
      BY <3>1 DEF HandledInOrder, RunFields
    <3> HIDE DEF s
    <3>3. HandledCount(s) = HandledCount(r) /\ Passed(s) = Passed(r)
      BY <3>2 DEF HandledCount, Passed
    <3>4. HandledInOrder(s)
      BY <3>1, <3>2, <3>3 DEF HandledInOrder
    <3>5. PlaceFits(s)
      BY <3>2 DEF PlaceFits
    <3> QED BY <3>1, <3>2, <3>4, <3>5 DEF RunFits
  <2> QED BY <2>1, <2>2
<1>4. RunsFit'
  <2>1. DOMAIN run' = SagaCalls
    BY <1>1
  <2> QED BY <1>1, <1>3, <2>1, FitsFrame DEF SagaInv, RunsFit
<1>5. /\ caller' \in [SagaCalls -> {"new", "looked", "waiting", "sagaId", "ok", "failed", "timeout", "lost"}]
      /\ \A c \in SagaCalls : caller'[c] # "looked" /\ (caller'[c] = "new" => caller[c] = "new")
  BY <1>1 DEF SagaInv, CallersFit
<1>6. CallersFit'
  BY <1>3, <1>5 DEF SagaInv, CallersFit, NoRun
<1>7. StatusFits'
  BY <1>2, <1>3, <1>5 DEF StatusFits
<1>8. StateHandedOverOnlyAfterRun' /\ StatusMatchesARun' /\ holds' \subseteq SagaCalls
  BY <1>1, <1>2 DEF StateHandedOverOnlyAfterRun, StatusMatchesARun
<1> QED BY <1>2, <1>4, <1>6, <1>7, <1>8 DEF SagaInv

\* Nothing was called yet.
LEMMA SagaInitInv == SagaInit => SagaInv
<1> SUFFICES ASSUME SagaInit
             PROVE  SagaInv
  OBVIOUS
<1>1. DOMAIN status = {}
  BY DEF SagaInit
<1>2. \A c \in SagaCalls : run[c] = NoRun /\ run[c].phase = "none" /\ caller[c] = "new"
  BY DEF SagaInit, NoRun
<1>3. RunsFit /\ CallersFit
  BY <1>2 DEF SagaInit, RunsFit, CallersFit
<1>4. StatusFits /\ StatusMatchesARun
  BY <1>1, <1>2 DEF StatusFits, StatusMatchesARun
<1>5. holds = {} /\ sagaCrashes \in Nat /\ StateHandedOverOnlyAfterRun
  BY DEF SagaInit, StateHandedOverOnlyAfterRun
<1> QED BY <1>3, <1>4, <1>5 DEF SagaInv

\* Every step keeps the invariant.
LEMMA SagaInvNext == SagaInv /\ [SagaNext]_sagaVars => SagaInv'
<1>1. ASSUME SagaInv, UNCHANGED sagaVars
      PROVE  SagaInv'
  <2>1. UNCHANGED <<decl, caller, run, status, holds, sagaCrashes>>
    BY <1>1 DEF sagaVars
  <2>2. RunsFit' /\ Async' = Async
    BY <1>1, <2>1, FitsFrame DEF SagaInv, RunsFit
  <2>3. CallersFit' /\ StatusFits' /\ StateHandedOverOnlyAfterRun'
    BY <1>1, <2>1, <2>2 DEF SagaInv, CallersFit, StatusFits, StateHandedOverOnlyAfterRun, NoRun, SagaIDOf
  <2>4. StatusMatchesARun'
    <3>1. status' = status /\ run' = run
      BY <2>1
    <3> QED BY <1>1, <3>1 DEF SagaInv, StatusMatchesARun, SagaIDOf, FinalStateOf
  <2> QED BY <1>1, <2>1, <2>2, <2>3, <2>4 DEF SagaInv
<1> QED BY <1>1, RunSteps, PutStep, StartSteps, CallerSteps, CrashStep DEF SagaNext

\* The invariant says all that a saga promises of what it leaves behind.
LEMMA SagaInvIsEnough == SagaInv => SagasKeepTheirWord
<1> SUFFICES ASSUME SagaInv
             PROVE  SagasKeepTheirWord
  OBVIOUS
<1>1. SagaTypeOK
  BY DEF SagaInv, RunsFit, RunFits, PlaceFits, CallersFit, StatusFits, SagaTypeOK, NoRun
<1>2. CompensationIsReverse
  <2> SUFFICES ASSUME NEW c \in SagaCalls, run[c].phase # "none"
               PROVE  HandledInOrder(run[c]) /\ PlaceFits(run[c])
    BY DEF CompensationIsReverse, HandledInOrder, PlaceFits
  <2> QED BY DEF SagaInv, RunsFit, RunFits, NoRun
<1> QED BY <1>1, <1>2 DEF SagaInv, SagasKeepTheirWord

\* A failed saga compensates its completed steps from the last one back, each once and as it
\* was declared; its caller gets the state only when its goroutine has ended; and a status is
\* that of a run: Running while one goes on, final as one ended (RunSaga, emitSagaAwaitEntry,
\* emitSagaAsyncEntry).
THEOREM SagasAreSound == SagaSpec => []SagasKeepTheirWord
<1> QED BY SagaInitInv, SagaInvNext, SagaInvIsEnough, PTL DEF SagaSpec

\* Where no process died, a call that comes after one of its key was answered finds the
\* status and starts nothing (the lookup of emitSagaAsyncEntry).
THEOREM AnsweredKeysStartNothing == SagaSpec => SequentialRetriesRunOnce
<1> DEFINE Kept == \A c, d \in SagaCalls :
                      /\ SagaKeyOf[c] = SagaKeyOf[d] /\ SagaKeyOf[c] # NoKey /\ Async /\ sagaCrashes = 0
                      /\ caller[c] = "sagaId" /\ caller[d] = "new"
                      => caller'[d] \in {"new", "sagaId"} /\ run'[d] = NoRun
<1>1. SagaInv /\ [SagaNext]_sagaVars => [Kept]_sagaVars
  <2> SUFFICES ASSUME SagaInv, SagaNext, NEW c \in SagaCalls, NEW d \in SagaCalls,
                      SagaKeyOf[c] = SagaKeyOf[d], SagaKeyOf[c] # NoKey, Async, sagaCrashes = 0,
                      caller[c] = "sagaId", caller[d] = "new"
               PROVE  caller'[d] \in {"new", "sagaId"} /\ run'[d] = NoRun
    OBVIOUS
  <2>1. /\ SagaIDOf(d) \in DOMAIN status /\ SagaKeyOf[d] # NoKey
        /\ run[d] = NoRun /\ DOMAIN run = SagaCalls /\ DOMAIN caller = SagaCalls
    BY DEF SagaInv, RunsFit, CallersFit, StatusFits, SagaIDOf
  <2>2. CASE SagaCrash
    BY <2>1, <2>2 DEF SagaCrash, NoRun
  <2>3. ASSUME NEW e \in SagaCalls, Up(e) \/ InfraHook(e) \/ Down(e) \/ PutFinal(e)
        PROVE  caller'[d] = caller[d] /\ run'[d] = run[d]
    <3>1. e # d
      BY <2>1, <2>3 DEF NoRun, Up, InfraHook, Down, PutFinal
    <3>2. caller' = caller
      BY <2>3 DEF Up, InfraHook, Down, PutFinal
    <3>3. \E r : run' = [run EXCEPT ![e] = r]
      BY <2>3, UpFits, HookFits, DownFits DEF SagaInv, PutFinal, Set
    <3> QED BY <2>1, <3>1, <3>2, <3>3
  <2>4. ASSUME NEW e \in SagaCalls, StartAwait(e) \/ StartAsync(e)
        PROVE  caller'[d] = caller[d] /\ run'[d] = run[d]
    BY <2>1, <2>4 DEF StartAwait, StartAsync, Returns
  <2>5. ASSUME NEW e \in SagaCalls, AwaitTimeout(e) \/ AwaitResult(e)
        PROVE  caller'[d] = caller[d] /\ run'[d] = run[d]
    BY <2>1, <2>5 DEF AwaitTimeout, AwaitResult, Returns
  <2>6. ASSUME NEW e \in SagaCalls, Look(e)
        PROVE  caller'[d] \in {caller[d], "sagaId"} /\ run'[d] = run[d]
    BY <2>1, <2>6 DEF Look, Returns
  <2> QED BY <2>1, <2>2, <2>3, <2>4, <2>5, <2>6 DEF SagaNext
<1> QED BY <1>1, SagaInitInv, SagaInvNext, PTL DEF SagaSpec, SequentialRetriesRunOnce
=============================================================================
