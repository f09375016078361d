---------------------------- MODULE EventVersions ----------------------------
(***************************************************************************)
(* One Event type over the releases of a program (codegen/decl_event.go    *)
(* and codegen/decl_event_version.go).  A release is rolled out while the  *)
(* one before it still runs, so an event row is written by one release,    *)
(* relayed from the outbox by a second and handed to a Policy of a third;  *)
(* the row in the events table is replayed by all of them.  A release      *)
(* decodes with the UnmarshalJSON it was generated with: a key that is     *)
(* present wins, also when its value is the zero value; an absent key      *)
(* takes the Field.Default, if any.                                        *)
(***************************************************************************)
EXTENDS Naturals, Sequences, FiniteSets, FiniteSetsExt

CONSTANTS EventFields,  \* the fields the Event ever had
          EventValues,  \* what a field holds, Zero being Go's zero value
          UpcastValues, \* what an Upcast's body may assign
          Zero,
          Missing,      \* the key is not in the JSON object
          NoDefault, FailsToDecode,   \* no Field.Default; a Default whose New<Type> fails
          MaxReleases, MaxWritten

ASSUME ReleaseAssumption ==
  /\ Zero \in EventValues /\ UpcastValues \subseteq EventValues
  /\ {Missing, NoDefault, FailsToDecode} \cap EventValues = {}
  /\ MaxReleases \in Nat \ {0} /\ MaxWritten \in Nat

VARIABLES releases,   \* what each release declares, oldest first
          running,    \* the releases with a replica up
          events      \* the rows, in the order they were committed

eventVars == <<releases, running, events>>

(* A release's declaration of the Event: `registers` says that its          *)
(* eventRegistry has the type, `upcast` what the body of its Upcast from    *)
(* the release before assigns (NoDefault: nothing).                         *)
Declarations ==
  {d \in [registers : BOOLEAN, has : SUBSET EventFields,
          default : [EventFields -> EventValues \cup {NoDefault, FailsToDecode}],
          upcast : [EventFields -> UpcastValues \cup {NoDefault}]] :
     \A f \in EventFields \ d.has :
       d.default[f] = NoDefault /\ d.upcast[f] = NoDefault}

Places == {"queued", "sent", "handed", "dropped", "dead"}

-----------------------------------------------------------------------------
(* The wire form and the struct.                                            *)

\* A possible bug: the keys of other releases are written too.
WritesEveryKeyMutant(d, ev) ==
  [f \in EventFields |-> IF f \in d.has THEN ev[f] ELSE Zero]

\* Every declared field has a json tag without omitempty.
Encode(d, ev) ==
  [f \in EventFields |-> IF f \in d.has THEN ev[f] ELSE Missing]

DefaultOf(d, f) == IF d.default[f] = NoDefault THEN Zero ELSE d.default[f]

\* A possible bug: the Default also replaces a zero value.
ZeroIsAbsentMutant(d, raw) ==
  [f \in d.has |-> IF raw[f] \in {Missing, Zero} THEN DefaultOf(d, f) ELSE raw[f]]

\* The generated UnmarshalJSON: the keys first, then the absent ones.
Decode(d, raw) ==
  [f \in d.has |-> IF raw[f] # Missing THEN raw[f] ELSE DefaultOf(d, f)]

\* A possible bug: a missing key without a Default is an error.
StrictDecodesMutant(d, raw) ==
  d.registers /\ \A f \in d.has : raw[f] = Missing => d.default[f] \in EventValues

\* The registry knows the type and no constructor of a needed Default fails.
Decodes(d, raw) ==
  /\ d.registers
  /\ \A f \in d.has : raw[f] = Missing => d.default[f] # FailsToDecode

\* The function EmitUpcast writes for an Upcast; nothing calls it.
UpcastFunc(d, ev) ==
  [f \in d.has |-> IF d.upcast[f] # NoDefault THEN d.upcast[f] ELSE ev[f]]

\* EventStore.Load of one row in a replica of release r.
Replayed(r, e) == Decode(releases[r], e.raw)

-----------------------------------------------------------------------------
EventsInit ==
  /\ releases \in {<<d>> : d \in {x \in Declarations :
                     x.upcast = [f \in EventFields |-> NoDefault]}}
  /\ running = {1}
  /\ events = <<>>

\* A release starts to roll out: both code bases run.
RollOut(d) ==
  /\ Cardinality(running) = 1 /\ Len(releases) < MaxReleases
  /\ releases' = Append(releases, d)
  /\ running' = running \cup {Len(releases) + 1}
  /\ UNCHANGED events

\* The last replica of the older release is gone.
Retire ==
  /\ Cardinality(running) = 2
  /\ running' = {Len(releases)}
  /\ UNCHANGED <<releases, events>>

\* A UseCase of release r emits the event: one row in events, one in outbox.
Emit(r) ==
  /\ releases[r].registers /\ Len(events) < MaxWritten
  /\ \E ev \in [releases[r].has -> EventValues] :
       LET raw == Encode(releases[r], ev)
       IN  events' = Append(events,
             [by |-> r, via |-> 0, to |-> 0, raw |-> raw, body |-> raw, place |-> "queued"])
  /\ UNCHANGED <<releases, running>>

\* DurableOutbox.deliver in a replica of release r: what it cannot decode is
\* logged and marked as delivered; the rest is published again as JSON.
RelayEvent(r, i) ==
  /\ events[i].place = "queued"
  /\ LET d == releases[r]
         e == events[i]
     IN  events' = [events EXCEPT ![i] =
           IF Decodes(d, e.raw)
             THEN [e EXCEPT !.place = "sent", !.via = r,
                            !.body = Encode(d, Decode(d, e.raw))]
             ELSE [e EXCEPT !.place = "dropped", !.via = r]]
  /\ UNCHANGED <<releases, running>>

\* The consuming replica decodes the envelope; what it cannot decode goes
\* through the retry queue to the final dead-letter queue.
HandEvent(r, i) ==
  /\ events[i].place = "sent"
  /\ LET d == releases[r]
         e == events[i]
     IN  events' = [events EXCEPT ![i] =
           IF Decodes(d, e.body)
             THEN [e EXCEPT !.place = "handed", !.to = r,
                            !.body = Encode(d, Decode(d, e.body))]
             ELSE [e EXCEPT !.place = "dead", !.to = r]]
  /\ UNCHANGED <<releases, running>>

EventsNext ==
  \/ \E d \in Declarations : RollOut(d)
  \/ Retire
  \/ \E r \in running : \/ Emit(r)
                        \/ \E i \in 1..Len(events) : RelayEvent(r, i) \/ HandEvent(r, i)

EventsSpec == EventsInit /\ [][EventsNext]_eventVars

-----------------------------------------------------------------------------
(* The rows and the releases have their shape (decl_event.go: the struct    *)
(* and its tags; a row never holds a key its writer did not declare).       *)
EventsTypeOK ==
  /\ \A r \in DOMAIN releases : releases[r] \in Declarations
  /\ running \subseteq DOMAIN releases /\ Cardinality(running) \in 1..2
  /\ \A i \in DOMAIN events :
       LET e == events[i]
       IN  /\ e.place \in Places /\ e.by \in DOMAIN releases
           /\ e.via \in 0..Len(releases) /\ e.to \in 0..Len(releases)
           /\ \A f \in EventFields : (e.raw[f] # Missing) <=> (f \in releases[e.by].has)

(* What a Policy receives, field by field: the value the UseCase wrote when *)
(* every release on the way declares the field, and otherwise the Default   *)
(* of the first release of the unbroken end of the way that does (an older  *)
(* relay in the middle of a roll-out loses the value, decl_event_version.go *)
(* lines 91-100 and DurableOutbox.deliver).                                 *)
FieldsSurviveTheirHops ==
  \A i \in DOMAIN events :
    LET e == events[i]
        way == <<e.by, e.via, e.to>>
        Unbroken(f) == {k \in 1..3 : \A j \in k..3 : f \in releases[way[j]].has}
        Since(f) == Min(Unbroken(f))
    IN  e.place = "handed" =>
          \A f \in releases[e.to].has :
            e.body[f] = IF Since(f) = 1 THEN e.raw[f]
                        ELSE DefaultOf(releases[way[Since(f)]], f)

(* An event is lost on its way only in front of a release that does not     *)
(* know its type, or one whose Default cannot be built: adding, removing or *)
(* defaulting fields never makes a row undecodable (deliver, outbox.go.txt  *)
(* 302-311: what does not decode is marked as delivered).                   *)
FieldChangesLoseNoEvent ==
  \A i \in DOMAIN events :
    LET e == events[i]
        met == {r \in {e.via, e.to} : r # 0}
    IN  e.place \in {"dropped", "dead"} =>
          \E r \in met : \/ ~releases[r].registers
                         \/ \E f \in EventFields : releases[r].default[f] = FailsToDecode

\* Releases that add, drop or default a field go on understanding each other's events.
EventsSurviveReleases == EventsTypeOK /\ FieldsSurviveTheirHops /\ FieldChangesLoseNoEvent

(* REQ-18.5 (docs/sdd/specs/codegen/requirements.md:223-225): an event of   *)
(* the release before is seen by a replay as the declared Upcast makes it.  *)
OldEventsAreUpcast ==
  \A i \in DOMAIN events : \A r \in running :
    (r = events[i].by + 1 /\ Decodes(releases[r], events[i].raw)) =>
      Replayed(r, events[i]) = UpcastFunc(releases[r], Decode(releases[r], events[i].raw))
=============================================================================
