------------------------ MODULE IncidentBridgeProofs ------------------------
(***************************************************************************)
(* Proofs about IncidentBridge, for any number of findings and any size of *)
(* a batch: the inductive invariant BridgeInv, the properties that follow, *)
(* and the refinement of FindingWatch.                                     *)
(***************************************************************************)
EXTENDS IncidentBridge, LeastElements, FiniteSetTheorems, TLAPS

LEMMA SetsOfNat ==
  /\ Findings \subseteq Nat \ {0} /\ Ids \subseteq Nat \ {0}
  /\ NoIncident \notin Ids /\ NumFindings \in Nat
  /\ IsFiniteSet(Findings) /\ BatchSize \in Nat \ {0}
  <1>1. NumFindings \in Nat /\ MaxIncidents \in Nat /\ BatchSize \in Nat \ {0}
    BY BoundsAssumption
  <1>2. IsFiniteSet(Findings)
    BY <1>1, FS_Interval DEF Findings
  <1>3. QED
    BY <1>1, <1>2 DEF Findings, Ids, NoIncident

(* The order of the findings is total. *)
LEMMA OrderIsTotal ==
  ASSUME NEW rows \in [Findings -> FindingRows], NEW f \in Findings, NEW g \in Findings
  PROVE  /\ Before(rows, f, f)
         /\ Before(rows, f, g) \/ Before(rows, g, f)
         /\ Before(rows, f, g) /\ Before(rows, g, f) => f = g
         /\ \A h \in Findings : Before(rows, f, g) /\ Before(rows, g, h) => Before(rows, f, h)
  BY SetsOfNat DEF Before, Behind, FindingRows

LEMMA FirstIsMember ==
  ASSUME NEW rows \in [Findings -> FindingRows], NEW S \in SUBSET Findings, S # {}
  PROVE  /\ First(rows, S) \in S
         /\ \A g \in S : Before(rows, First(rows, S), g)
  <1> DEFINE T == {rows[f].updated : f \in S}
  <1>1. T \in SUBSET Nat /\ T # {}
    BY DEF FindingRows
  <1>2. PICK t \in T : \A y \in T : t <= y
    BY <1>1, HasLeast
  <1> DEFINE U == {f \in S : rows[f].updated = t}
  <1>3. U \in SUBSET Nat /\ U # {}
    BY <1>2, SetsOfNat
  <1>4. PICK f \in U : \A y \in U : f <= y
    BY <1>3, HasLeast
  <1>5. \A g \in S : rows[g].updated \in Nat /\ t <= rows[g].updated /\ g \in Nat
    BY <1>1, <1>2, SetsOfNat
  <1>6. f \in S /\ rows[f].updated = t /\ \A g \in S : rows[g].updated = t => f <= g
    BY <1>4
  <1>7. \A g \in S : Before(rows, f, g)
    BY <1>1, <1>5, <1>6 DEF Before, Behind
  <1>8. QED
    BY <1>6, <1>7 DEF First

LEMMA LastIsMember ==
  ASSUME NEW rows \in [Findings -> FindingRows], NEW S \in SUBSET Findings, S # {},
         NEW n \in Nat, \A f \in S : rows[f].updated <= n
  PROVE  /\ Last(rows, S) \in S
         /\ \A g \in S : Before(rows, g, Last(rows, S))
  <1> DEFINE T == {rows[f].updated : f \in S}
  <1>1. T \in SUBSET Nat /\ T # {} /\ \A x \in T : x <= n
    BY DEF FindingRows
  <1>2. PICK t \in T : \A y \in T : y <= t
    BY <1>1, HasGreatest
  <1> DEFINE U == {f \in S : rows[f].updated = t}
  <1>3. U \in SUBSET Nat /\ U # {} /\ \A x \in U : x <= NumFindings
    <2>1. \A x \in Findings : x <= NumFindings
      BY SetsOfNat DEF Findings
    <2>2. QED
      BY <1>2, <2>1, SetsOfNat
  <1>4. PICK f \in U : \A y \in U : y <= f
    BY <1>3, HasGreatest, SetsOfNat
  <1>5. \A g \in S : rows[g].updated \in Nat /\ rows[g].updated <= t /\ g \in Nat
    BY <1>1, <1>2, SetsOfNat
  <1>6. f \in S /\ rows[f].updated = t /\ \A g \in S : rows[g].updated = t => g <= f
    BY <1>4
  <1>7. \A g \in S : Before(rows, g, f)
    BY <1>1, <1>5, <1>6 DEF Before, Behind
  <1>8. QED
    BY <1>6, <1>7 DEF Last

(* A batch is the beginning of what the cursor has not passed. *)
LEMMA FetchedIsPrefix ==
  ASSUME finding \in [Findings -> FindingRows], Eligible # {}
  PROVE  /\ Fetched \subseteq Eligible /\ Fetched # {}
         /\ \A f \in Fetched, g \in Eligible : Before(finding, g, f) => g \in Fetched
  <1> DEFINE Upto(f) == {g \in Eligible : Before(finding, g, f)}
  <1>1. Eligible \subseteq Findings /\ IsFiniteSet(Eligible)
    BY SetsOfNat, FS_Subset DEF Eligible
  <1>2. Fetched = {f \in Eligible : Cardinality(Upto(f)) <= BatchSize}
    BY DEF Fetched
  <1>3. \A f \in Eligible : IsFiniteSet(Upto(f)) /\ Cardinality(Upto(f)) \in Nat
    BY <1>1, FS_Subset, FS_CardinalityType
  <1>4. Fetched # {}
    <2> DEFINE f == First(finding, Eligible)
    <2>1. f \in Eligible /\ \A g \in Eligible : Before(finding, f, g)
      BY <1>1, FirstIsMember
    <2> HIDE DEF f
    <2>2. Upto(f) = {f}
      BY <1>1, <2>1, OrderIsTotal
    <2>3. Cardinality(Upto(f)) = 1
      BY <2>2, FS_Singleton
    <2>4. f \in Fetched
      BY <1>2, <2>1, <2>3, SetsOfNat
    <2>5. QED
      BY <2>4
  <1>5. ASSUME NEW f \in Fetched, NEW g \in Eligible, Before(finding, g, f) PROVE g \in Fetched
    <2>1. Upto(g) \subseteq Upto(f)
      BY <1>1, <1>2, <1>5, OrderIsTotal
    <2>2. Cardinality(Upto(g)) <= Cardinality(Upto(f))
      BY <1>2, <1>3, <2>1, FS_Subset
    <2>3. f \in Eligible /\ Cardinality(Upto(f)) <= BatchSize
      BY <1>2, <1>5
    <2> HIDE DEF Upto
    <2>4. Cardinality(Upto(g)) <= BatchSize
      BY <1>3, <2>2, <2>3, SetsOfNat
    <2>5. QED
      BY <1>2, <2>4
  <1>6. QED
    BY <1>2, <1>4, <1>5

(* The finding in hand. *)
LEMMA CurrentIsLeft ==
  ASSUME run \in Runs, Left # {}
  PROVE  Current \in Left /\ Current \in Findings
  <1>1. run.rows \in [Findings -> FindingRows] /\ Left \subseteq Findings
    BY DEF Runs, Left
  <1>2. QED
    BY <1>1, FirstIsMember DEF Current

(* The findings left depend on the rows of the run alone. *)
LEMMA SameRows ==
  ASSUME run'.rows = run.rows
  PROVE  Left' = Left /\ Current' = Current /\ Row' = Row
  <1>1. Left' = Left
    BY DEF Left
  <1>2. Current' = Current
    BY <1>1 DEF Current
  <1>3. QED
    BY <1>1, <1>2 DEF Row

(* How a step changes the run. *)
LEMMA GotoRun ==
  ASSUME run \in Runs, NEW phase \in Phases, Goto(phase)
  PROVE  /\ run' \in Runs /\ run'.phase = phase
         /\ run'.rows = run.rows /\ run'.fresh = run.fresh /\ run'.last = run.last
         /\ run'.inc = run.inc /\ run'.was = run.was
  BY DEF Goto, Runs

LEMMA VisitRun ==
  ASSUME run \in Runs, NEW phase \in Phases, Visit(phase), Current \in Findings,
         link \in [Findings -> Ids \cup {NoIncident}], now \in Nat
  PROVE  /\ run' \in Runs /\ run'.phase = phase
         /\ run'.rows = run.rows /\ run'.fresh = run.fresh /\ run'.last = run.last
         /\ run'.inc = link[Current]
  BY DEF Visit, Runs

LEMMA NoRunRun ==
  /\ NoRun \in Runs /\ NoRun.phase = "idle"
  /\ \A f \in Findings : NoRun.rows[f] = Absent
  <1>1. Absent \in FindingRows
    BY DEF Absent, FindingRows
  <1>2. [at |-> 0, id |-> 0] \in Cursors
    BY DEF Cursors
  <1>3. QED
    BY <1>1, <1>2 DEF NoRun, Runs, Phases

LEMMA NextFindingRun ==
  ASSUME run \in Runs, Left # {}, NextFinding
  PROVE  /\ run' \in Runs /\ run'.phase = "look" /\ run'.last = run.last
         /\ run'.fresh = run.fresh \ {Current}
         /\ Left' = Left \ {Current}
         /\ \A f \in Left' : run'.rows[f] = run.rows[f]
  <1>1. Current \in Findings /\ Absent \in FindingRows
    BY CurrentIsLeft DEF Absent, FindingRows
  <1>2. Access \in {"unread", "granted", "denied"}
    BY DEF Access, Runs
  <1>3. run.rows \in [Findings -> FindingRows]
    BY DEF Runs
  <1>4. run' = [run EXCEPT !.phase = "look", !.rows[Current] = Absent, !.fresh = @ \ {Current},
                           !.inc = NoIncident, !.was = "none", !.at = 0, !.access = Access]
    BY DEF NextFinding
  <1> DEFINE c == Current
             a == Access
             rows == [run.rows EXCEPT ![c] = Absent]
  <1>5. run'.rows = rows /\ rows \in [Findings -> FindingRows]
    BY <1>1, <1>3, <1>4 DEF Runs
  <1>6. /\ run'.phase = "look" /\ run'.last = run.last /\ run'.fresh = run.fresh \ {c}
        /\ run'.inc = NoIncident /\ run'.was = "none" /\ run'.at = 0 /\ run'.access = a
    BY <1>4 DEF Runs
  <1>7. run' = [phase |-> run'.phase, rows |-> run'.rows, fresh |-> run'.fresh,
                last |-> run'.last, inc |-> run'.inc, was |-> run'.was, at |-> run'.at,
                access |-> run'.access]
    BY <1>4 DEF Runs
  <1>8. run' \in Runs
    BY <1>2, <1>5, <1>6, <1>7 DEF Runs, Phases
  <1>9. Left' = Left \ {c}
    BY <1>1, <1>3, <1>5 DEF Left
  <1>10. \A f \in Left' : run'.rows[f] = run.rows[f]
    BY <1>3, <1>5, <1>9 DEF Left
  <1>11. QED
    BY <1>6, <1>8, <1>9, <1>10

LEMMA BeginRun ==
  ASSUME TypeOK, ClockIsAhead, Begin
  PROVE  /\ run' \in Runs /\ run'.phase = "look"
         /\ run'.fresh = Fetched /\ Left' = Fetched
         /\ \A f \in Fetched : run'.rows[f] = finding[f]
         /\ \A f \in Eligible : Behind(finding[f].updated, f, run'.last) => f \in Fetched
  <1>1. finding \in [Findings -> FindingRows] /\ now \in Nat /\ Absent \in FindingRows
    BY DEF TypeOK, Absent, FindingRows
  <1>2. /\ Fetched \subseteq Eligible /\ Fetched # {}
        /\ \A f \in Fetched, g \in Eligible : Before(finding, g, f) => g \in Fetched
    BY <1>1, FetchedIsPrefix DEF Begin
  <1>3. Eligible \subseteq Findings /\ \A f \in Eligible : finding[f] # Absent
    BY DEF Eligible
  <1> DEFINE final == Last(finding, Fetched)
             rows == [f \in Findings |-> IF f \in Fetched THEN finding[f] ELSE Absent]
             end == [at |-> finding[final].updated, id |-> final]
  <1>4. final \in Fetched
    <2>1. \A f \in Fetched : finding[f].updated <= now
      BY <1>2, <1>3 DEF ClockIsAhead
    <2>2. Fetched \in SUBSET Findings
      BY <1>2, <1>3
    <2>3. QED
      BY <1>1, <1>2, <2>1, <2>2, LastIsMember
  <1>5. rows \in [Findings -> FindingRows] /\ end \in Cursors
    BY <1>1, <1>2, <1>3, <1>4 DEF Cursors, FindingRows
  <1>6. run' = [NoRun EXCEPT !.phase = "look", !.rows = rows, !.fresh = Fetched, !.last = end]
    BY DEF Begin
  <1>7. \A f \in Eligible : Behind(finding[f].updated, f, end) => f \in Fetched
    BY <1>2, <1>4 DEF Before
  <1> HIDE DEF rows, end, final
  <1>8. /\ run' \in Runs /\ run'.phase = "look" /\ run'.rows = rows /\ run'.fresh = Fetched
        /\ run'.last = end
    BY <1>2, <1>3, <1>5, <1>6, NoRunRun DEF Runs, Phases
  <1>9. Left' = Fetched /\ \A f \in Fetched : run'.rows[f] = finding[f]
    BY <1>2, <1>3, <1>8 DEF Left, rows
  <1>10. QED
    BY <1>7, <1>8, <1>9

LEMMA InitBridgeInv == Init => BridgeInv
  <1> SUFFICES ASSUME Init PROVE BridgeInv
    OBVIOUS
  <1>1. Absent \in FindingRows /\ Absent.updated = 0 /\ Absent.status = "absent"
    BY DEF Absent, FindingRows
  <1>2. run = NoRun /\ Left = {}
    BY NoRunRun DEF Init, Left
  <1>3. TypeOK
    <2>1. finding \in [Findings -> FindingRows] /\ writing \in [Findings -> FindingRows]
      BY <1>1 DEF Init, NoWrite
    <2>2. [of |-> 0, status |-> "none", started |-> 0, alerted |-> FALSE] \in IncidentRows
      BY DEF IncidentRows
    <2>3. incident \in [Ids -> IncidentRows]
      BY <2>2 DEF Init
    <2>4. link \in [Findings -> Ids \cup {NoIncident}] /\ cursor \in Cursors
      BY DEF Init, Cursors
    <2>5. used \in [updates : 0..MaxUpdates, operations : 0..MaxOperations, aborts : 0..MaxAborts]
      BY BoundsAssumption DEF Init
    <2>6. QED
      BY <1>2, <2>1, <2>3, <2>4, <2>5, NoRunRun DEF Init, TypeOK
  <1>4. ClockIsAhead
    BY <1>1 DEF Init, ClockIsAhead, NoWrite
  <1>5. InHand /\ FreshIsCurrent /\ BatchIsCovered
    BY <1>2, NoRunRun DEF InHand, FreshIsCurrent, BatchIsCovered
  <1>6. LinksAreRight /\ OneIncidentPerFinding /\ OpeningsAreAlerted /\ IncidentMirrorsFinding
    BY DEF Init, LinksAreRight, OneIncidentPerFinding, OpeningsAreAlerted,
           IncidentMirrorsFinding, Exists
  <1>7. NothingIsOverlooked
    BY DEF Init, NothingIsOverlooked
  <1>8. QED
    BY <1>3, <1>4, <1>5, <1>6, <1>7 DEF BridgeInv

(* The parts about the incidents, and the parts about the findings. *)
Incidents == LinksAreRight /\ OneIncidentPerFinding /\ OpeningsAreAlerted

Coverage == FreshIsCurrent /\ BatchIsCovered /\ NothingIsOverlooked

(* A step of the run that stays with its finding. *)
LEMMA StayingCovers ==
  ASSUME Coverage, run'.rows = run.rows, run'.fresh = run.fresh, run'.last = run.last,
         run.phase # "idle",
         UNCHANGED <<finding, cursor, bridged, late, denied>>
  PROVE  Coverage'
  <1>1. Left' = Left
    BY SameRows
  <1>2. FreshIsCurrent'
    BY <1>1 DEF Coverage, FreshIsCurrent
  <1>3. BatchIsCovered' /\ NothingIsOverlooked'
    BY <1>1 DEF Coverage, BatchIsCovered, NothingIsOverlooked, Accounted
  <1>4. QED
    BY <1>2, <1>3 DEF Coverage

(* A step of the run on to its next finding. *)
LEMMA MovingOnCovers ==
  ASSUME TypeOK, Coverage, Left # {}, NextFinding, run.phase # "idle",
         UNCHANGED <<finding, cursor, late>>,
         bridged \subseteq bridged', bridged' \subseteq bridged \cup {Current},
         denied \subseteq denied', Current \in run.fresh => Current \in bridged' \cup denied'
  PROVE  Coverage' /\ InHand' /\ run' \in Runs
  <1>1. /\ run' \in Runs /\ run'.phase = "look" /\ run'.last = run.last
        /\ run'.fresh = run.fresh \ {Current}
        /\ Left' = Left \ {Current}
        /\ \A f \in Left' : run'.rows[f] = run.rows[f]
    BY NextFindingRun DEF TypeOK
  <1>2. FreshIsCurrent'
    BY <1>1 DEF Coverage, FreshIsCurrent
  <1>3. \A f \in Findings : Accounted(f) => Accounted(f)'
    BY DEF Accounted
  <1>4. BatchIsCovered'
    BY <1>1, <1>3 DEF Coverage, BatchIsCovered, Accounted
  <1>5. NothingIsOverlooked'
    BY <1>3 DEF Coverage, NothingIsOverlooked
  <1>6. InHand'
    BY <1>1 DEF InHand
  <1>7. QED
    BY <1>1, <1>2, <1>4, <1>5, <1>6 DEF Coverage

(* The mirrors of the other findings do not depend on the incident at hand. *)
LEMMA OtherMirrors ==
  ASSUME TypeOK, Incidents, IncidentMirrorsFinding, NEW g \in Findings, NEW i \in Ids,
         \A j \in Ids \ {i} : incident'[j] = incident[j],
         touched \ {i} \subseteq touched',
         finding' = finding, bridged' = bridged, link' = link,
         incident[i].status = "none" \/ incident[i].of = g,
         g \in bridged /\ link[g] = i /\ i \notin touched' =>
            /\ finding[g].status = "open" => Active(i)'
            /\ finding[g].status = "resolved" => ~Active(i)'
  PROVE  IncidentMirrorsFinding'
  <1> SUFFICES ASSUME NEW f \in bridged, link[f] \notin touched'
               PROVE  /\ finding[f].status = "open" => link[f] # NoIncident /\ Active(link[f])'
                      /\ finding[f].status = "resolved" /\ link[f] # NoIncident => ~Active(link[f])'
    BY DEF IncidentMirrorsFinding, Active
  <1>1. f \in Findings /\ link[f] \in Ids \cup {NoIncident} /\ i # NoIncident
    BY SetsOfNat DEF TypeOK
  <1>2. CASE link[f] = i
    <2>1. f = g
      BY <1>1, <1>2 DEF Incidents, LinksAreRight, Exists
    <2>2. QED
      BY <1>1, <1>2, <2>1
  <1>3. CASE link[f] # i
    <2>1. link[f] \notin touched
      BY <1>3
    <2>2. /\ finding[f].status = "open" => link[f] # NoIncident /\ Active(link[f])
          /\ finding[f].status = "resolved" /\ link[f] # NoIncident => ~Active(link[f])
      BY <2>1 DEF IncidentMirrorsFinding
    <2>3. link[f] # NoIncident => (Active(link[f])' <=> Active(link[f]))
      BY <1>1, <1>3 DEF Active
    <2>4. QED
      BY <2>2, <2>3
  <1>4. QED
    BY <1>2, <1>3

(* Steps of the clock, the plan and the analysis before its write lands. *)
LEMMA QuietStep ==
  ASSUME BridgeInv, Tick \/ ChangePlan \/ (\E f \in Findings : UpdateBegins(f)) \/ UNCHANGED vars
  PROVE  BridgeInv'
  <1>1. TypeOK /\ ClockIsAhead
    BY DEF BridgeInv
  <1>2. UNCHANGED <<finding, incident, link, cursor, run, bridged, late, denied, touched, silenced>>
    BY DEF Tick, ChangePlan, UpdateBegins, vars
  <1>3. /\ InHand' /\ LinksAreRight' /\ OneIncidentPerFinding' /\ OpeningsAreAlerted'
        /\ FreshIsCurrent' /\ BatchIsCovered' /\ NothingIsOverlooked' /\ IncidentMirrorsFinding'
    <2>1. Left' = Left /\ Current' = Current /\ Row' = Row
      BY <1>2, SameRows
    <2>2. InHand'
      BY <1>2, <2>1 DEF BridgeInv, InHand, Exists, Active
    <2>3. LinksAreRight' /\ OneIncidentPerFinding' /\ OpeningsAreAlerted'
      BY <1>2 DEF BridgeInv, LinksAreRight, OneIncidentPerFinding, OpeningsAreAlerted, Exists
    <2>4. FreshIsCurrent' /\ BatchIsCovered' /\ NothingIsOverlooked' /\ IncidentMirrorsFinding'
      BY <1>2, <2>1 DEF BridgeInv, FreshIsCurrent, BatchIsCovered, NothingIsOverlooked,
                        IncidentMirrorsFinding, Accounted, Active
    <2>5. QED
      BY <2>2, <2>3, <2>4
  <1>4. TypeOK' /\ ClockIsAhead'
    <2>1. CASE Tick
      BY <1>1, <2>1 DEF Tick, TypeOK, ClockIsAhead, FindingRows
    <2>2. CASE ChangePlan
      <3>1. used' \in [updates : 0..MaxUpdates, operations : 0..MaxOperations,
                       aborts : 0..MaxAborts]
        BY <1>1, <2>2, BoundsAssumption DEF ChangePlan, TypeOK
      <3>2. QED
        BY <1>1, <2>2, <3>1 DEF ChangePlan, TypeOK, ClockIsAhead
    <2>3. ASSUME NEW f \in Findings, UpdateBegins(f) PROVE TypeOK' /\ ClockIsAhead'
      <3>1. used' \in [updates : 0..MaxUpdates, operations : 0..MaxOperations,
                       aborts : 0..MaxAborts]
        BY <1>1, <2>3, BoundsAssumption DEF UpdateBegins, TypeOK
      <3>2. PICK s \in {"open", "resolved"} :
               writing' = [writing EXCEPT ![f] = [status |-> s, updated |-> now]]
        BY <2>3 DEF UpdateBegins
      <3>3. [status |-> s, updated |-> now] \in FindingRows
        BY <1>1 DEF TypeOK, FindingRows
      <3>4. writing' \in [Findings -> FindingRows]
        BY <1>1, <3>2, <3>3 DEF TypeOK
      <3>5. \A g \in Findings : writing'[g].updated <= now
        BY <1>1, <3>2 DEF TypeOK, ClockIsAhead
      <3>6. QED
        BY <1>1, <2>3, <3>1, <3>4, <3>5 DEF UpdateBegins, TypeOK, ClockIsAhead
    <2>4. CASE UNCHANGED vars
      BY <1>1, <2>4 DEF vars, TypeOK, ClockIsAhead
    <2>5. QED
      BY <2>1, <2>2, <2>3, <2>4
  <1>5. QED
    BY <1>3, <1>4 DEF BridgeInv

(* An update that lands behind what has been read is late. *)
LEMMA LandingStep ==
  ASSUME BridgeInv, NEW f \in Findings, UpdateLands(f)
  PROVE  BridgeInv'
  <1>1. TypeOK /\ ClockIsAhead
    BY DEF BridgeInv
  <1>2. /\ finding \in [Findings -> FindingRows] /\ writing \in [Findings -> FindingRows]
        /\ run \in Runs
    BY <1>1 DEF TypeOK
  <1>3. /\ finding' = [finding EXCEPT ![f] = writing[f]]
        /\ writing' = [writing EXCEPT ![f] = NoWrite]
        /\ bridged' = bridged \ {f} /\ denied' = denied \ {f}
        /\ UNCHANGED <<now, incident, link, cursor, entitled, used, touched, silenced>>
    BY DEF UpdateLands
  <1>4. /\ run' \in Runs /\ run'.fresh = run.fresh \ {f}
        /\ run'.rows = run.rows /\ run'.phase = run.phase /\ run'.last = run.last
        /\ run'.inc = run.inc /\ run'.was = run.was
    BY <1>2 DEF UpdateLands, Runs
  <1>5. /\ late' \subseteq late \cup {f} /\ \A g \in Findings \ {f} : g \in late => g \in late'
        /\ \A c \in {cursor, run.last} : Behind(writing[f].updated, f, c) => f \in late'
    BY DEF UpdateLands
  <1>6. Left' = Left /\ Current' = Current /\ Row' = Row
    BY <1>4, SameRows
  <1>7. TypeOK' /\ ClockIsAhead'
    <2>1. NoWrite \in FindingRows /\ NoWrite.updated = 0
      BY DEF NoWrite, Absent, FindingRows
    <2>2. finding' \in [Findings -> FindingRows] /\ writing' \in [Findings -> FindingRows]
      BY <1>2, <1>3, <2>1
    <2>3. late' \subseteq Findings /\ bridged' \subseteq Findings /\ denied' \subseteq Findings
      BY <1>1, <1>3, <1>5 DEF TypeOK
    <2>4. ClockIsAhead'
      BY <1>1, <1>2, <1>3, <2>1 DEF ClockIsAhead, TypeOK
    <2>5. QED
      BY <1>1, <1>3, <1>4, <2>2, <2>3, <2>4 DEF TypeOK
  <1>8. InHand'
    BY <1>3, <1>4, <1>6 DEF BridgeInv, InHand, Exists, Active
  <1>9. LinksAreRight' /\ OneIncidentPerFinding' /\ OpeningsAreAlerted'
    BY <1>3, <1>4 DEF BridgeInv, LinksAreRight, OneIncidentPerFinding, OpeningsAreAlerted, Exists
  <1>10. FreshIsCurrent'
    BY <1>2, <1>3, <1>4, <1>6 DEF BridgeInv, FreshIsCurrent
  <1>11. \A g \in Findings \ {f} : finding'[g] = finding[g] /\ (Accounted(g) => Accounted(g)')
    BY <1>2, <1>3, <1>5 DEF Accounted
  <1>12. finding'[f] = writing[f]
    BY <1>2, <1>3
  <1>13. BatchIsCovered'
    <2> SUFFICES ASSUME run.phase # "idle", NEW g \in Findings, finding'[g] # Absent,
                        Behind(finding'[g].updated, g, run.last)
                 PROVE  Accounted(g)' \/ g \in Left \cap (run.fresh \ {f})
      BY <1>4, <1>6 DEF BatchIsCovered
    <2>1. CASE g = f
      BY <1>5, <1>12, <2>1 DEF Accounted
    <2>2. CASE g # f
      BY <1>11, <2>2 DEF BridgeInv, BatchIsCovered
    <2>3. QED
      BY <2>1, <2>2
  <1>14. NothingIsOverlooked'
    <2> SUFFICES ASSUME NEW g \in Findings, finding'[g] # Absent,
                        Behind(finding'[g].updated, g, cursor)
                 PROVE  Accounted(g)'
      BY <1>3 DEF NothingIsOverlooked
    <2>1. CASE g = f
      BY <1>5, <1>12, <2>1 DEF Accounted
    <2>2. CASE g # f
      BY <1>11, <2>2 DEF BridgeInv, NothingIsOverlooked
    <2>3. QED
      BY <2>1, <2>2
  <1>15. IncidentMirrorsFinding'
    BY <1>1, <1>2, <1>3 DEF BridgeInv, IncidentMirrorsFinding, Active, TypeOK
  <1>16. QED
    BY <1>7, <1>8, <1>9, <1>10, <1>13, <1>14, <1>15 DEF BridgeInv

(* What an operator does leaves the books of the bridge in order. *)
LEMMA OperatorStep ==
  ASSUME BridgeInv, NEW i \in Ids, NEW status \in {"acked", "resolved"}, Operate(i, status)
  PROVE  BridgeInv'
  <1>1. TypeOK /\ run \in Runs /\ incident \in [Ids -> IncidentRows]
    BY DEF BridgeInv, TypeOK
  <1>2. /\ incident[i].status # "none" /\ incident' = [incident EXCEPT ![i].status = status]
        /\ touched' = touched \cup {i}
        /\ UNCHANGED <<now, finding, writing, link, cursor, run, entitled, bridged, late, denied,
                       silenced>>
    BY DEF Operate
  <1>3. /\ incident' \in [Ids -> IncidentRows]
        /\ \A j \in Ids : /\ Exists(j)' <=> Exists(j)
                          /\ incident'[j].of = incident[j].of
                          /\ incident'[j].alerted = incident[j].alerted
                          /\ j # i => incident'[j] = incident[j]
    BY <1>1, <1>2 DEF IncidentRows, Exists
  <1>4. Left' = Left /\ Current' = Current /\ Row' = Row
    BY <1>2, SameRows
  <1>5. TypeOK' /\ ClockIsAhead'
    <2>1. used' \in [updates : 0..MaxUpdates, operations : 0..MaxOperations, aborts : 0..MaxAborts]
      BY <1>1, BoundsAssumption DEF Operate, TypeOK
    <2>2. QED
      BY <1>1, <1>2, <1>3, <2>1 DEF BridgeInv, TypeOK, ClockIsAhead
  <1>6. InHand'
    <2>1. run.inc \in Ids \cup {NoIncident}
      BY <1>1 DEF Runs
    <2>2. \A j \in Ids : Active(j) \/ j \in touched => Active(j)' \/ j \in touched'
      BY <1>2, <1>3 DEF Active
    <2>3. QED
      BY <1>2, <1>3, <1>4, <2>1, <2>2 DEF BridgeInv, InHand
  <1>7. LinksAreRight' /\ OneIncidentPerFinding' /\ OpeningsAreAlerted'
    BY <1>1, <1>2, <1>3 DEF BridgeInv, LinksAreRight, OneIncidentPerFinding, OpeningsAreAlerted,
                            TypeOK
  <1>8. FreshIsCurrent' /\ BatchIsCovered' /\ NothingIsOverlooked'
    BY <1>2, <1>4 DEF BridgeInv, FreshIsCurrent, BatchIsCovered, NothingIsOverlooked, Accounted
  <1>9. IncidentMirrorsFinding'
    BY <1>1, <1>2, <1>3 DEF BridgeInv, IncidentMirrorsFinding, Active, TypeOK
  <1>10. QED
    BY <1>5, <1>6, <1>7, <1>8, <1>9 DEF BridgeInv

(* A step that leaves the incidents and the findings alone. *)
LEMMA SameBooks ==
  ASSUME BridgeInv, UNCHANGED <<incident, link, finding, touched, silenced>>
  PROVE  /\ LinksAreRight' /\ OneIncidentPerFinding'
         /\ bridged' = bridged => IncidentMirrorsFinding'
         /\ run.phase # "events" => OpeningsAreAlerted'
  <1>1. LinksAreRight' /\ OneIncidentPerFinding'
    BY DEF BridgeInv, LinksAreRight, OneIncidentPerFinding, Exists
  <1>2. bridged' = bridged => IncidentMirrorsFinding'
    BY DEF BridgeInv, IncidentMirrorsFinding, Active
  <1>3. run.phase # "events" => OpeningsAreAlerted'
    BY DEF BridgeInv, OpeningsAreAlerted, Exists
  <1>4. QED
    BY <1>1, <1>2, <1>3

LEMMA BeginStep ==
  ASSUME BridgeInv, Begin
  PROVE  BridgeInv'
  <1>1. TypeOK /\ ClockIsAhead
    BY DEF BridgeInv
  <1>2. /\ run.phase = "idle"
        /\ UNCHANGED <<now, finding, writing, incident, link, cursor, entitled, used,
                       bridged, late, denied, touched, silenced>>
    BY DEF Begin
  <1>3. /\ run' \in Runs /\ run'.phase = "look"
        /\ run'.fresh = Fetched /\ Left' = Fetched
        /\ \A f \in Fetched : run'.rows[f] = finding[f]
        /\ \A f \in Eligible : Behind(finding[f].updated, f, run'.last) => f \in Fetched
    BY <1>1, BeginRun
  <1>4. TypeOK' /\ ClockIsAhead'
    BY <1>1, <1>2, <1>3 DEF TypeOK, ClockIsAhead
  <1>5. InHand' /\ FreshIsCurrent'
    BY <1>2, <1>3 DEF InHand, FreshIsCurrent
  <1>6. NothingIsOverlooked'
    BY <1>2 DEF BridgeInv, NothingIsOverlooked, Accounted
  <1>7. BatchIsCovered'
    <2> SUFFICES ASSUME NEW f \in Findings, finding[f] # Absent,
                        Behind(finding[f].updated, f, run'.last)
                 PROVE  Accounted(f)' \/ f \in Fetched
      BY <1>2, <1>3 DEF BatchIsCovered
    <2>1. CASE Behind(finding[f].updated, f, cursor)
      BY <1>2, <2>1 DEF BridgeInv, NothingIsOverlooked, Accounted
    <2>2. CASE ~Behind(finding[f].updated, f, cursor)
      BY <1>3, <2>2 DEF Eligible
    <2>3. QED
      BY <2>1, <2>2
  <1>8. LinksAreRight' /\ OneIncidentPerFinding' /\ OpeningsAreAlerted' /\ IncidentMirrorsFinding'
    BY <1>2, SameBooks
  <1>9. QED
    BY <1>4, <1>5, <1>6, <1>7, <1>8 DEF BridgeInv

LEMMA LookStep ==
  ASSUME BridgeInv, Look
  PROVE  BridgeInv'
  <1>1. TypeOK /\ ClockIsAhead /\ Coverage /\ run \in Runs
    BY DEF BridgeInv, Coverage, TypeOK
  <1>2. /\ run.phase = "look" /\ Left # {}
        /\ UNCHANGED <<now, finding, writing, incident, link, cursor, entitled, used,
                       late, touched, silenced>>
    BY DEF Look
  <1>3. Current \in Left /\ Current \in Findings
    BY <1>1, <1>2, CurrentIsLeft
  <1>4. LinksAreRight' /\ OneIncidentPerFinding' /\ OpeningsAreAlerted'
    BY <1>2, SameBooks
  <1>5. CASE denied' = denied \cup {Current} /\ NextFinding /\ UNCHANGED bridged
    <2>1. Coverage' /\ InHand' /\ run' \in Runs
      BY <1>1, <1>2, <1>5, MovingOnCovers
    <2>2. TypeOK' /\ ClockIsAhead'
      BY <1>1, <1>2, <1>3, <1>5, <2>1 DEF TypeOK, ClockIsAhead
    <2>3. IncidentMirrorsFinding'
      BY <1>2, <1>5, SameBooks
    <2>4. QED
      BY <1>4, <2>1, <2>2, <2>3 DEF BridgeInv, Coverage
  <1>6. ASSUME NEW phase \in {"find", "check"}, Visit(phase), UNCHANGED <<denied, bridged>>,
               phase = "find" => Row.status = "open",
               phase = "check" => Row.status = "resolved" /\ link[Current] # NoIncident
        PROVE  BridgeInv'
    <2>1. /\ run' \in Runs /\ run'.phase = phase
          /\ run'.rows = run.rows /\ run'.fresh = run.fresh /\ run'.last = run.last
          /\ run'.inc = link[Current]
      BY <1>1, <1>3, <1>6, VisitRun DEF TypeOK, Phases
    <2>2. Left' = Left /\ Current' = Current /\ Row' = Row
      BY <2>1, SameRows
    <2>3. Coverage'
      BY <1>1, <1>2, <1>6, <2>1, StayingCovers
    <2>4. InHand'
      BY <1>2, <1>3, <1>6, <2>1, <2>2 DEF InHand, BridgeInv, LinksAreRight, Exists
    <2>5. TypeOK' /\ ClockIsAhead'
      BY <1>1, <1>2, <1>6, <2>1 DEF TypeOK, ClockIsAhead
    <2>6. IncidentMirrorsFinding'
      BY <1>2, <1>6, SameBooks
    <2>7. QED
      BY <1>4, <2>3, <2>4, <2>5, <2>6 DEF BridgeInv, Coverage
  <1>7. CASE /\ Row.status = "resolved" /\ link[Current] = NoIncident
             /\ NextFinding /\ GoneThrough /\ UNCHANGED denied
    <2>1. bridged \subseteq bridged' /\ bridged' \subseteq bridged \cup {Current}
          /\ (Current \in run.fresh => Current \in bridged')
          /\ (Current \in bridged' => Current \in run.fresh)
      BY <1>1, <1>3, <1>7 DEF GoneThrough, Coverage, FreshIsCurrent
    <2>2. Coverage' /\ InHand' /\ run' \in Runs
      BY <1>1, <1>2, <1>7, <2>1, MovingOnCovers
    <2>3. TypeOK' /\ ClockIsAhead'
      BY <1>1, <1>2, <1>3, <1>7, <2>1, <2>2 DEF TypeOK, ClockIsAhead
    <2>4. Current \in bridged' => finding[Current].status = "resolved"
      BY <1>1, <1>3, <1>7, <2>1 DEF Coverage, FreshIsCurrent, Row
    <2>5. IncidentMirrorsFinding'
      BY <1>2, <1>7, <2>1, <2>4 DEF BridgeInv, IncidentMirrorsFinding, Active
    <2>6. QED
      BY <1>4, <2>2, <2>3, <2>5 DEF BridgeInv, Coverage
  <1>8. QED
    <2>1. \/ denied' = denied \cup {Current} /\ NextFinding /\ UNCHANGED bridged
          \/ Row.status = "open" /\ Visit("find") /\ UNCHANGED <<denied, bridged>>
          \/ /\ Row.status = "resolved" /\ link[Current] # NoIncident
             /\ Visit("check") /\ UNCHANGED <<denied, bridged>>
          \/ /\ Row.status = "resolved" /\ link[Current] = NoIncident
             /\ NextFinding /\ GoneThrough /\ UNCHANGED denied
      BY DEF Look
    <2>2. QED
      BY <1>5, <1>6, <1>7, <2>1

(* What the search for an incident returns is the one of the finding. *)
LEMMA FindStep ==
  ASSUME BridgeInv, Find
  PROVE  BridgeInv'
  <1>1. TypeOK /\ ClockIsAhead /\ Coverage /\ run \in Runs /\ incident \in [Ids -> IncidentRows]
    BY DEF BridgeInv, Coverage, TypeOK
  <1>2. /\ run.phase = "find" /\ Left # {} /\ run.inc = link[Current] /\ Row.status = "open"
        /\ UNCHANGED <<now, finding, writing, incident, link, cursor, entitled, used,
                       bridged, late, denied, touched, silenced>>
    BY DEF Find, BridgeInv, InHand
  <1>3. Current \in Findings
    BY <1>1, <1>2, CurrentIsLeft
  <1> DEFINE same == {i \in Ids : incident[i].status # "none" /\ incident[i].of = Current}
  <1>4. Existing = IF run.inc # NoIncident THEN {run.inc}
                   ELSE {i \in same : \A j \in same : incident[j].started <= incident[i].started}
    BY DEF Existing
  <1>5. ASSUME run'.rows = run.rows, run'.fresh = run.fresh, run'.last = run.last,
               run' \in Runs, InHand'
        PROVE  BridgeInv'
    <2>1. Coverage'
      BY <1>1, <1>2, <1>5, StayingCovers
    <2>2. TypeOK' /\ ClockIsAhead'
      BY <1>1, <1>2, <1>5 DEF TypeOK, ClockIsAhead
    <2>3. LinksAreRight' /\ OneIncidentPerFinding' /\ OpeningsAreAlerted' /\ IncidentMirrorsFinding'
      BY <1>2, SameBooks
    <2>4. QED
      BY <1>5, <2>1, <2>2, <2>3 DEF BridgeInv, Coverage
  <1>6. CASE Existing = {} /\ Goto("create")
    <2>1. run.inc = NoIncident /\ same = {}
      <3>1. run.inc = NoIncident
        BY <1>6, <1>4
      <3>2. {i \in same : \A j \in same : incident[j].started <= incident[i].started} = {}
        BY <1>6, <1>4, <3>1
      <3>3. ASSUME NEW i \in same PROVE FALSE
        <4>1. \A j \in same : j = i
          BY <3>3 DEF BridgeInv, OneIncidentPerFinding, Exists
        <4>2. incident[i].started \in Nat
          BY <1>1 DEF IncidentRows
        <4>3. QED
          BY <3>2, <3>3, <4>1, <4>2
      <3>4. QED
        BY <3>1, <3>3
    <2>2. /\ run' \in Runs /\ run'.phase = "create"
          /\ run'.rows = run.rows /\ run'.fresh = run.fresh /\ run'.last = run.last
      BY <1>1, <1>6, GotoRun DEF Phases
    <2>3. Left' = Left /\ Current' = Current /\ Row' = Row
      BY <2>2, SameRows
    <2>4. InHand'
      BY <1>2, <2>1, <2>2, <2>3 DEF InHand, Exists
    <2>5. QED
      BY <1>5, <2>2, <2>4
  <1>7. ASSUME NEW i \in Existing,
               run' = [run EXCEPT !.phase = "update", !.inc = i, !.was = incident[i].status]
        PROVE  BridgeInv'
    <2>1. i \in Ids /\ i # NoIncident /\ Exists(i) /\ incident[i].of = Current
      <3>1. CASE run.inc # NoIncident
        BY <1>2, <1>3, <1>4, <1>7, <3>1, SetsOfNat
           DEF BridgeInv, LinksAreRight, Exists, TypeOK
      <3>2. CASE run.inc = NoIncident
        BY <1>4, <1>7, <3>2, SetsOfNat DEF Exists
      <3>3. QED
        BY <3>1, <3>2
    <2>2. incident[i].status \in {"none", "open", "acked", "resolved"}
      BY <1>1, <2>1 DEF IncidentRows
    <2>3. /\ run' \in Runs /\ run'.phase = "update" /\ run'.inc = i
          /\ run'.rows = run.rows /\ run'.fresh = run.fresh /\ run'.last = run.last
      BY <1>1, <1>7, <2>1, <2>2 DEF Runs, Phases
    <2>4. Left' = Left /\ Current' = Current /\ Row' = Row
      BY <2>3, SameRows
    <2>5. InHand'
      BY <1>2, <2>1, <2>3, <2>4 DEF InHand, Exists
    <2>6. QED
      BY <1>5, <2>3, <2>5
  <1>8. QED
    BY <1>6, <1>7 DEF Find

LEMMA CreateStep ==
  ASSUME BridgeInv, Create
  PROVE  BridgeInv'
  <1>1. /\ TypeOK /\ ClockIsAhead /\ Coverage /\ Incidents /\ run \in Runs
        /\ incident \in [Ids -> IncidentRows] /\ IncidentMirrorsFinding
        /\ link \in [Findings -> Ids \cup {NoIncident}]
    BY DEF BridgeInv, Coverage, Incidents, TypeOK
  <1>2. /\ run.phase = "create" /\ Left # {} /\ Row.status = "open"
        /\ link[Current] = NoIncident
        /\ \A i \in Ids : Exists(i) => incident[i].of # Current
        /\ UNCHANGED <<now, finding, writing, link, cursor, entitled, used,
                       bridged, late, denied, touched, silenced>>
    BY DEF Create, BridgeInv, InHand
  <1>3. Current \in Findings
    BY <1>1, <1>2, CurrentIsLeft
  <1> DEFINE i == CHOOSE i \in Free : \A j \in Free : i <= j
             new == [of |-> Current, status |-> "open", started |-> run.at, alerted |-> FALSE]
  <1>4. i \in Free
    <2>1. Free \in SUBSET Nat /\ Free # {}
      BY SetsOfNat DEF Create, Free
    <2>2. QED
      BY <2>1, HasLeast
  <1>5. incident' = [incident EXCEPT ![i] = new]
    BY DEF Create
  <1>6. run' = [run EXCEPT !.phase = "events", !.inc = i, !.was = "resolved"]
    BY DEF Create
  <1> HIDE DEF i
  <1>7. i \in Ids /\ incident[i].status = "none" /\ i # NoIncident
    BY <1>4, SetsOfNat DEF Free
  <1>8. new \in IncidentRows
    BY <1>1, <1>3 DEF IncidentRows, Runs
  <1>9. /\ incident' \in [Ids -> IncidentRows] /\ incident'[i] = new
        /\ \A j \in Ids \ {i} : incident'[j] = incident[j]
    BY <1>1, <1>5, <1>7, <1>8
  <1>10. /\ run' \in Runs /\ run'.phase = "events" /\ run'.inc = i /\ run'.was = "resolved"
        /\ run'.rows = run.rows /\ run'.fresh = run.fresh /\ run'.last = run.last
    BY <1>1, <1>6, <1>7 DEF Runs, Phases
  <1>11. Left' = Left /\ Current' = Current /\ Row' = Row
    BY <1>10, SameRows
  <1>12. InHand'
    BY <1>2, <1>7, <1>9, <1>10, <1>11 DEF InHand, Exists, Active
  <1>13. LinksAreRight'
    BY <1>1, <1>2, <1>7, <1>9 DEF Incidents, LinksAreRight, Exists
  <1>14. OneIncidentPerFinding'
    BY <1>1, <1>2, <1>9 DEF Incidents, OneIncidentPerFinding, Exists
  <1>15. OpeningsAreAlerted'
    BY <1>1, <1>2, <1>9, <1>10 DEF Incidents, OpeningsAreAlerted, Exists
  <1>16. IncidentMirrorsFinding'
    <2>1. link[Current] # i
      BY <1>2, <1>7
    <2>2. touched \ {i} \subseteq touched' /\ finding' = finding /\ bridged' = bridged
          /\ link' = link
      BY <1>2
    <2>3. QED
      BY <1>1, <1>3, <1>7, <1>9, <2>1, <2>2, OtherMirrors
  <1>17. Coverage'
    BY <1>1, <1>2, <1>10, StayingCovers
  <1>18. TypeOK' /\ ClockIsAhead'
    BY <1>1, <1>2, <1>9, <1>10 DEF TypeOK, ClockIsAhead
  <1>19. QED
    BY <1>12, <1>13, <1>14, <1>15, <1>16, <1>17, <1>18 DEF BridgeInv, Coverage

LEMMA UpdateStep ==
  ASSUME BridgeInv, Update
  PROVE  BridgeInv'
  <1>1. /\ TypeOK /\ ClockIsAhead /\ Coverage /\ Incidents /\ run \in Runs
        /\ incident \in [Ids -> IncidentRows] /\ IncidentMirrorsFinding
    BY DEF BridgeInv, Coverage, Incidents, TypeOK
  <1> DEFINE i == run.inc
             opens == incident[i].status = "resolved"
  <1>2. /\ run.phase = "update" /\ Left # {} /\ Row.status = "open"
        /\ i # NoIncident /\ Exists(i) /\ incident[i].of = Current
        /\ UNCHANGED <<now, finding, writing, link, cursor, entitled, used,
                       bridged, late, denied>>
        /\ touched' = touched \ {i}
        /\ silenced' = IF opens /\ run.was # "resolved" THEN silenced \cup {i} ELSE silenced
        /\ Goto("events")
    BY DEF Update, BridgeInv, InHand
  <1>3. Current \in Left /\ Current \in Findings /\ i \in Ids
    BY <1>1, <1>2, CurrentIsLeft DEF Runs
  <1>4. incident' = [incident EXCEPT
                       ![i].status = "open",
                       ![i].started = IF run.was = "resolved" THEN run.at ELSE @,
                       ![i].alerted = @ /\ ~opens]
    BY DEF Update
  <1>5. run.at \in Nat
    BY <1>1 DEF Runs
  <1>6. /\ incident' \in [Ids -> IncidentRows]
        /\ \A j \in Ids \ {i} : incident'[j] = incident[j]
        /\ incident'[i].status = "open" /\ incident'[i].of = Current
        /\ incident[i].alerted /\ ~opens => incident'[i].alerted
    BY <1>1, <1>2, <1>3, <1>4, <1>5 DEF IncidentRows
  <1>7. /\ run' \in Runs /\ run'.phase = "events" /\ run'.inc = i /\ run'.was = run.was
        /\ run'.rows = run.rows /\ run'.fresh = run.fresh /\ run'.last = run.last
    BY <1>1, <1>2, GotoRun DEF Phases
  <1>8. Left' = Left /\ Current' = Current /\ Row' = Row
    BY <1>7, SameRows
  <1> HIDE DEF i
  <1>9. InHand'
    BY <1>2, <1>6, <1>7, <1>8, <1>3 DEF InHand, Exists, Active
  <1>10. LinksAreRight'
    BY <1>1, <1>2, <1>3, <1>6 DEF Incidents, LinksAreRight, Exists, TypeOK
  <1>11. OneIncidentPerFinding'
    BY <1>1, <1>2, <1>3, <1>6 DEF Incidents, OneIncidentPerFinding, Exists
  <1>12. OpeningsAreAlerted'
    <2> SUFFICES ASSUME NEW j \in Ids, Exists(j)'
                 PROVE  incident'[j].alerted \/ j \in silenced' \/ (run.was = "resolved" /\ j = i)
      BY <1>7 DEF OpeningsAreAlerted
    <2>1. Exists(j)
      BY <1>2, <1>6 DEF Exists
    <2>2. incident[j].alerted \/ j \in silenced
      BY <1>1, <1>2, <2>1 DEF Incidents, OpeningsAreAlerted
    <2>3. QED
      BY <1>2, <1>6, <2>2
  <1>13. IncidentMirrorsFinding'
    <2>1. Current \in bridged => finding[Current].status = "open"
      BY <1>1, <1>2, <1>3 DEF Coverage, FreshIsCurrent, Row
    <2>2. PICK k \in Ids : k = i
      BY <1>3
    <2>3. Active(k)'
      BY <1>6, <2>2 DEF Active
    <2>4. touched \ {k} \subseteq touched' /\ finding' = finding /\ bridged' = bridged
          /\ link' = link /\ incident[k].of = Current
          /\ \A j \in Ids \ {k} : incident'[j] = incident[j]
      BY <1>2, <1>6, <2>2
    <2>5. QED
      BY <1>1, <1>3, <2>1, <2>3, <2>4, OtherMirrors
  <1>14. Coverage'
    BY <1>1, <1>2, <1>7, StayingCovers
  <1>15. TypeOK' /\ ClockIsAhead'
    BY <1>1, <1>2, <1>3, <1>6, <1>7 DEF TypeOK, ClockIsAhead
  <1>16. QED
    BY <1>9, <1>10, <1>11, <1>12, <1>13, <1>14, <1>15 DEF BridgeInv, Coverage

LEMMA EventsStep ==
  ASSUME BridgeInv, Events
  PROVE  BridgeInv'
  <1>1. /\ TypeOK /\ ClockIsAhead /\ Coverage /\ Incidents /\ run \in Runs
        /\ incident \in [Ids -> IncidentRows] /\ IncidentMirrorsFinding
    BY DEF BridgeInv, Coverage, Incidents, TypeOK
  <1> DEFINE i == run.inc
  <1>2. /\ run.phase = "events" /\ Left # {} /\ Row.status = "open"
        /\ i # NoIncident /\ Exists(i) /\ incident[i].of = Current
        /\ Active(i) \/ i \in touched
        /\ UNCHANGED <<now, finding, writing, link, cursor, entitled, used,
                       bridged, late, denied, touched>>
        /\ Goto("link")
    BY DEF Events, BridgeInv, InHand
  <1>3. i \in Ids
    BY <1>1, <1>2 DEF Runs
  <1>4. \/ /\ run.was = "resolved" /\ incident' = [incident EXCEPT ![i].alerted = TRUE]
           /\ silenced' = silenced \ {i}
        \/ run.was # "resolved" /\ UNCHANGED <<incident, silenced>>
    BY DEF Events
  <1>5. /\ incident' \in [Ids -> IncidentRows]
        /\ \A j \in Ids : /\ incident'[j].status = incident[j].status
                          /\ incident'[j].of = incident[j].of
        /\ \A j \in Ids : Exists(j) => incident'[j].alerted \/ j \in silenced'
    <2>1. CASE /\ run.was = "resolved" /\ incident' = [incident EXCEPT ![i].alerted = TRUE]
               /\ silenced' = silenced \ {i}
      <3> DEFINE row == [incident[i] EXCEPT !.alerted = TRUE]
      <3>1. row \in IncidentRows /\ row.alerted
            /\ row.status = incident[i].status /\ row.of = incident[i].of
        BY <1>1, <1>3 DEF IncidentRows
      <3>2. incident' = [incident EXCEPT ![i] = row]
        BY <2>1
      <3> HIDE DEF row
      <3>3. /\ incident' \in [Ids -> IncidentRows] /\ incident'[i] = row
            /\ \A j \in Ids \ {i} : incident'[j] = incident[j]
        BY <1>1, <1>3, <3>1, <3>2
      <3>4. \A j \in Ids \ {i} : Exists(j) => incident[j].alerted \/ j \in silenced
        BY <1>1 DEF Incidents, OpeningsAreAlerted
      <3>5. QED
        BY <2>1, <3>1, <3>3, <3>4
    <2>2. CASE run.was # "resolved" /\ UNCHANGED <<incident, silenced>>
      BY <1>1, <2>2 DEF Incidents, OpeningsAreAlerted
    <2>3. QED
      BY <1>4, <2>1, <2>2
  <1>6. /\ run' \in Runs /\ run'.phase = "link" /\ run'.inc = i
        /\ run'.rows = run.rows /\ run'.fresh = run.fresh /\ run'.last = run.last
    BY <1>1, <1>2, GotoRun DEF Phases
  <1>7. Left' = Left /\ Current' = Current /\ Row' = Row
    BY <1>6, SameRows
  <1> HIDE DEF i
  <1>8. InHand'
    BY <1>2, <1>3, <1>5, <1>6, <1>7 DEF InHand, Exists, Active
  <1>9. LinksAreRight' /\ OneIncidentPerFinding'
    BY <1>1, <1>2, <1>5 DEF Incidents, LinksAreRight, OneIncidentPerFinding, Exists, TypeOK
  <1>10. OpeningsAreAlerted'
    BY <1>5 DEF OpeningsAreAlerted, Exists
  <1>11. IncidentMirrorsFinding'
    BY <1>1, <1>2, <1>5 DEF IncidentMirrorsFinding, Active, TypeOK
  <1>12. Coverage'
    BY <1>1, <1>2, <1>6, StayingCovers
  <1>13. TypeOK' /\ ClockIsAhead'
    <2>1. silenced' \subseteq Ids
      BY <1>1, <1>4 DEF TypeOK
    <2>2. QED
      BY <1>1, <1>2, <1>5, <1>6, <2>1 DEF TypeOK, ClockIsAhead
  <1>14. QED
    BY <1>8, <1>9, <1>10, <1>11, <1>12, <1>13 DEF BridgeInv, Coverage

LEMMA LinkStep ==
  ASSUME BridgeInv, Link
  PROVE  BridgeInv'
  <1>1. /\ TypeOK /\ ClockIsAhead /\ Coverage /\ Incidents /\ run \in Runs
        /\ IncidentMirrorsFinding /\ link \in [Findings -> Ids \cup {NoIncident}]
    BY DEF BridgeInv, Coverage, Incidents, TypeOK
  <1>2. /\ run.phase = "link" /\ Left # {} /\ Row.status = "open"
        /\ run.inc # NoIncident /\ Exists(run.inc) /\ incident[run.inc].of = Current
        /\ Active(run.inc) \/ run.inc \in touched
        /\ UNCHANGED <<now, finding, writing, incident, cursor, entitled, used,
                       late, denied, touched, silenced>>
        /\ link' = [link EXCEPT ![Current] = run.inc]
        /\ NextFinding /\ GoneThrough
    BY DEF Link, BridgeInv, InHand
  <1>3. Current \in Left /\ Current \in Findings /\ run.inc \in Ids
    BY <1>1, <1>2, CurrentIsLeft DEF Runs
  <1>4. /\ bridged \subseteq bridged' /\ bridged' \subseteq bridged \cup {Current}
        /\ Current \in run.fresh => Current \in bridged'
        /\ Current \in bridged' => finding[Current].status = "open"
    BY <1>1, <1>2, <1>3 DEF GoneThrough, Coverage, FreshIsCurrent, Row
  <1>5. Coverage' /\ InHand' /\ run' \in Runs
    BY <1>1, <1>2, <1>4, MovingOnCovers
  <1>6. /\ link' \in [Findings -> Ids \cup {NoIncident}]
        /\ link'[Current] = run.inc /\ \A f \in Findings \ {Current} : link'[f] = link[f]
    BY <1>1, <1>2, <1>3
  <1>7. LinksAreRight' /\ OneIncidentPerFinding' /\ OpeningsAreAlerted'
    BY <1>1, <1>2, <1>3, <1>6 DEF Incidents, LinksAreRight, OneIncidentPerFinding,
                                  OpeningsAreAlerted, Exists
  <1>8. IncidentMirrorsFinding'
    BY <1>1, <1>2, <1>3, <1>4, <1>6 DEF IncidentMirrorsFinding, Active, TypeOK
  <1>9. TypeOK' /\ ClockIsAhead'
    BY <1>1, <1>2, <1>3, <1>4, <1>5, <1>6 DEF TypeOK, ClockIsAhead
  <1>10. QED
    BY <1>5, <1>7, <1>8, <1>9 DEF BridgeInv, Coverage

LEMMA CheckStep ==
  ASSUME BridgeInv, Check
  PROVE  BridgeInv'
  <1>1. /\ TypeOK /\ ClockIsAhead /\ Coverage /\ run \in Runs /\ IncidentMirrorsFinding
    BY DEF BridgeInv, Coverage, TypeOK
  <1>2. /\ run.phase = "check" /\ Left # {} /\ Row.status = "resolved"
        /\ run.inc # NoIncident /\ Exists(run.inc) /\ incident[run.inc].of = Current
        /\ link[Current] = run.inc
        /\ UNCHANGED <<now, finding, writing, incident, link, cursor, entitled, used,
                       late, denied, touched, silenced>>
    BY DEF Check, BridgeInv, InHand
  <1>3. Current \in Left /\ Current \in Findings
    BY <1>1, <1>2, CurrentIsLeft
  <1>4. LinksAreRight' /\ OneIncidentPerFinding' /\ OpeningsAreAlerted'
    BY <1>2, SameBooks
  <1>5. CASE incident[run.inc].status = "resolved" /\ NextFinding /\ GoneThrough
    <2>1. /\ bridged \subseteq bridged' /\ bridged' \subseteq bridged \cup {Current}
          /\ Current \in run.fresh => Current \in bridged'
          /\ Current \in bridged' => finding[Current].status = "resolved"
      BY <1>1, <1>2, <1>3, <1>5 DEF GoneThrough, Coverage, FreshIsCurrent, Row
    <2>2. Coverage' /\ InHand' /\ run' \in Runs
      BY <1>1, <1>2, <1>5, <2>1, MovingOnCovers
    <2>3. IncidentMirrorsFinding'
      BY <1>1, <1>2, <1>5, <2>1 DEF IncidentMirrorsFinding, Active
    <2>4. TypeOK' /\ ClockIsAhead'
      BY <1>1, <1>2, <1>3, <2>1, <2>2 DEF TypeOK, ClockIsAhead
    <2>5. QED
      BY <1>4, <2>2, <2>3, <2>4 DEF BridgeInv, Coverage
  <1>6. CASE Goto("resolve") /\ UNCHANGED bridged
    <2>1. /\ run' \in Runs /\ run'.phase = "resolve" /\ run'.inc = run.inc
          /\ run'.rows = run.rows /\ run'.fresh = run.fresh /\ run'.last = run.last
      BY <1>1, <1>6, GotoRun DEF Phases
    <2>2. Left' = Left /\ Current' = Current /\ Row' = Row
      BY <2>1, SameRows
    <2>3. Coverage'
      BY <1>1, <1>2, <1>6, <2>1, StayingCovers
    <2>4. InHand'
      BY <1>2, <2>1, <2>2 DEF InHand, Exists
    <2>5. TypeOK' /\ ClockIsAhead'
      BY <1>1, <1>2, <1>6, <2>1 DEF TypeOK, ClockIsAhead
    <2>6. IncidentMirrorsFinding'
      BY <1>2, <1>6, SameBooks
    <2>7. QED
      BY <1>4, <2>3, <2>4, <2>5, <2>6 DEF BridgeInv, Coverage
  <1>7. QED
    BY <1>5, <1>6 DEF Check

LEMMA ResolveStep ==
  ASSUME BridgeInv, Resolve
  PROVE  BridgeInv'
  <1>1. /\ TypeOK /\ ClockIsAhead /\ Coverage /\ Incidents /\ run \in Runs
        /\ IncidentMirrorsFinding /\ incident \in [Ids -> IncidentRows]
    BY DEF BridgeInv, Coverage, Incidents, TypeOK
  <1>2. /\ run.phase = "resolve" /\ Left # {} /\ Row.status = "resolved"
        /\ run.inc # NoIncident /\ Exists(run.inc) /\ incident[run.inc].of = Current
        /\ incident' = [incident EXCEPT ![run.inc].status = "resolved"]
        /\ touched' = touched \ {run.inc}
        /\ NextFinding /\ GoneThrough
        /\ UNCHANGED <<now, finding, writing, link, cursor, entitled, used, late, denied, silenced>>
    BY DEF Resolve, BridgeInv, InHand
  <1>3. Current \in Left /\ Current \in Findings /\ run.inc \in Ids
    BY <1>1, <1>2, CurrentIsLeft DEF Runs
  <1>4. /\ bridged \subseteq bridged' /\ bridged' \subseteq bridged \cup {Current}
        /\ Current \in run.fresh => Current \in bridged'
        /\ Current \in bridged' => finding[Current].status = "resolved"
    BY <1>1, <1>2, <1>3 DEF GoneThrough, Coverage, FreshIsCurrent, Row
  <1>5. Coverage' /\ InHand' /\ run' \in Runs
    BY <1>1, <1>2, <1>4, MovingOnCovers
  <1>6. /\ incident' \in [Ids -> IncidentRows]
        /\ incident'[run.inc].status = "resolved"
        /\ \A j \in Ids : /\ Exists(j)' <=> Exists(j)
                          /\ incident'[j].of = incident[j].of
                          /\ incident'[j].alerted = incident[j].alerted
                          /\ j # run.inc => incident'[j] = incident[j]
    BY <1>1, <1>2, <1>3 DEF IncidentRows, Exists
  <1>7. LinksAreRight' /\ OneIncidentPerFinding' /\ OpeningsAreAlerted'
    BY <1>1, <1>2, <1>3, <1>6 DEF Incidents, LinksAreRight, OneIncidentPerFinding,
                                  OpeningsAreAlerted, TypeOK
  <1>8. IncidentMirrorsFinding'
    <2> SUFFICES ASSUME NEW f \in bridged', link[f] \notin touched'
                 PROVE  /\ finding[f].status = "open" => link[f] # NoIncident /\ Active(link[f])'
                        /\ finding[f].status = "resolved" /\ link[f] # NoIncident
                             => ~Active(link[f])'
      BY <1>2 DEF IncidentMirrorsFinding, Active
    <2>1. f \in Findings /\ link[f] \in Ids \cup {NoIncident}
      BY <1>1, <1>4, <1>3 DEF TypeOK
    <2>2. CASE link[f] = run.inc
      <3>1. f = Current
        BY <1>1, <1>2, <2>1, <2>2 DEF Incidents, LinksAreRight
      <3>2. QED
        BY <1>2, <1>4, <1>6, <2>2, <3>1 DEF Active
    <2>3. CASE link[f] # run.inc
      <3>1. link[f] \notin touched
        BY <1>2, <2>3
      <3>2. CASE f \in bridged
        BY <1>1, <1>2, <1>6, <2>1, <2>3, <3>1, <3>2 DEF IncidentMirrorsFinding, Active
      <3>3. CASE f = Current
        <4>1. link[f] = run.inc
          BY <1>2, <3>3 DEF BridgeInv, InHand
        <4>2. QED
          BY <2>3, <4>1
      <3>4. QED
        BY <1>4, <3>2, <3>3
    <2>4. QED
      BY <2>2, <2>3
  <1>9. TypeOK' /\ ClockIsAhead'
    BY <1>1, <1>2, <1>3, <1>4, <1>5, <1>6 DEF TypeOK, ClockIsAhead
  <1>10. QED
    BY <1>5, <1>7, <1>8, <1>9 DEF BridgeInv, Coverage

(* The run ends: with nothing left, all up to the last of the batch is accounted for. *)
LEMMA FinishStep ==
  ASSUME BridgeInv, Finish
  PROVE  BridgeInv'
  <1>1. TypeOK /\ ClockIsAhead /\ Coverage /\ run \in Runs
    BY DEF BridgeInv, Coverage, TypeOK
  <1>2. /\ run.phase = "look" /\ Left = {} /\ cursor' = run.last /\ run' = NoRun
        /\ UNCHANGED <<now, finding, writing, incident, link, entitled, used,
                       bridged, late, denied, touched, silenced>>
    BY DEF Finish, CursorAfter
  <1>3. run' \in Runs /\ run'.phase = "idle" /\ Left' = {} /\ run.last \in Cursors
    BY <1>1, <1>2, NoRunRun DEF Left, Runs
  <1>4. TypeOK' /\ ClockIsAhead'
    BY <1>1, <1>2, <1>3 DEF TypeOK, ClockIsAhead
  <1>5. InHand' /\ FreshIsCurrent' /\ BatchIsCovered'
    BY <1>3 DEF InHand, FreshIsCurrent, BatchIsCovered
  <1>6. NothingIsOverlooked'
    BY <1>1, <1>2 DEF Coverage, BatchIsCovered, NothingIsOverlooked, Accounted
  <1>7. LinksAreRight' /\ OneIncidentPerFinding' /\ OpeningsAreAlerted' /\ IncidentMirrorsFinding'
    BY <1>2, SameBooks
  <1>8. QED
    BY <1>4, <1>5, <1>6, <1>7 DEF BridgeInv

(* The run dies: what it left is after the cursor still. *)
LEMMA AbortStep ==
  ASSUME BridgeInv, Abort
  PROVE  BridgeInv'
  <1>1. TypeOK /\ ClockIsAhead /\ Coverage /\ run \in Runs
    BY DEF BridgeInv, Coverage, TypeOK
  <1>2. /\ run' = NoRun
        /\ silenced' = IF run.phase = "events" /\ run.was = "resolved"
                       THEN silenced \cup {run.inc} ELSE silenced
        /\ UNCHANGED <<now, finding, writing, incident, link, cursor, entitled,
                       bridged, late, denied, touched>>
    BY DEF Abort
  <1>3. run.phase = "events" => run.inc \in Ids
    BY <1>1 DEF BridgeInv, InHand, Runs
  <1>4. run' \in Runs /\ run'.phase = "idle" /\ Left' = {}
    BY <1>2, NoRunRun DEF Left
  <1>5. TypeOK' /\ ClockIsAhead'
    <2>1. used' \in [updates : 0..MaxUpdates, operations : 0..MaxOperations, aborts : 0..MaxAborts]
      BY <1>1, BoundsAssumption DEF Abort, TypeOK
    <2>2. silenced' \subseteq Ids
      BY <1>1, <1>2, <1>3 DEF TypeOK
    <2>3. QED
      BY <1>1, <1>2, <1>4, <2>1, <2>2 DEF TypeOK, ClockIsAhead
  <1>6. InHand' /\ FreshIsCurrent' /\ BatchIsCovered'
    BY <1>4 DEF InHand, FreshIsCurrent, BatchIsCovered
  <1>7. NothingIsOverlooked'
    BY <1>1, <1>2 DEF Coverage, NothingIsOverlooked, Accounted
  <1>8. LinksAreRight' /\ OneIncidentPerFinding' /\ IncidentMirrorsFinding'
    BY <1>2 DEF BridgeInv, LinksAreRight, OneIncidentPerFinding, IncidentMirrorsFinding,
                Exists, Active
  <1>9. OpeningsAreAlerted'
    BY <1>2 DEF BridgeInv, OpeningsAreAlerted, Exists
  <1>10. QED
    BY <1>5, <1>6, <1>7, <1>8, <1>9 DEF BridgeInv

LEMMA NextBridgeInv == BridgeInv /\ [Next]_vars => BridgeInv'
  <1> SUFFICES ASSUME BridgeInv, [Next]_vars PROVE BridgeInv'
    OBVIOUS
  <1>1. CASE Tick \/ ChangePlan \/ UNCHANGED vars
    BY <1>1, QuietStep
  <1>2. ASSUME NEW f \in Findings, UpdateBegins(f) PROVE BridgeInv'
    BY <1>2, QuietStep
  <1>3. ASSUME NEW f \in Findings, UpdateLands(f) PROVE BridgeInv'
    BY <1>3, LandingStep
  <1>4. ASSUME NEW i \in Ids, AckIncident(i) \/ ResolveIncident(i) PROVE BridgeInv'
    BY <1>4, OperatorStep DEF AckIncident, ResolveIncident
  <1>5. CASE Bridge
    BY <1>5, BeginStep, LookStep, FindStep, CreateStep, UpdateStep, EventsStep, LinkStep,
       CheckStep, ResolveStep, FinishStep DEF Bridge
  <1>6. CASE Abort
    BY <1>6, AbortStep
  <1>7. QED
    BY <1>1, <1>2, <1>3, <1>4, <1>5, <1>6 DEF Next

(* The books of the bridge stay in order whatever the interleaving of the     *)
(* run, the analysis and the operators, and wherever the run dies.            *)
THEOREM BridgeInvariant == Spec => []BridgeInv
  <1>1. QED
    BY InitBridgeInv, NextBridgeInv, PTL DEF Spec

(* A finding never gets two incidents, although incidents have no unique key  *)
(* and a run may die between the incident and its link.                       *)
THEOREM OneIncidentEach == Spec => []OneIncidentPerFinding
  <1>1. BridgeInv => OneIncidentPerFinding
    BY DEF BridgeInv
  <1>2. QED
    BY <1>1, BridgeInvariant, PTL

(* Once a run went through with the latest state of a finding, its incident   *)
(* says the same, unless an operator has acted on it since.                   *)
THEOREM IncidentsMirrorFindings == Spec => []IncidentMirrorsFinding
  <1>1. BridgeInv => IncidentMirrorsFinding
    BY DEF BridgeInv
  <1>2. QED
    BY <1>1, BridgeInvariant, PTL

(* The cursor passes no finding by, but those updated behind it and those of  *)
(* tenants without entitlement.                                               *)
THEOREM NoFindingIsOverlooked == Spec => []NothingIsOverlooked
  <1>1. BridgeInv => NothingIsOverlooked
    BY DEF BridgeInv
  <1>2. QED
    BY <1>1, BridgeInvariant, PTL

(* An incident misses the alert of its last opening only if the run died      *)
(* before the event, or an operator resolved it under a refresh.              *)
THEOREM EachOpeningIsAlerted == Spec => []OpeningsAreAlerted
  <1>1. BridgeInv => OpeningsAreAlerted
    BY DEF BridgeInv
  <1>2. QED
    BY <1>1, BridgeInvariant, PTL

(* What the mapping below needs besides: an update under way is of a finding  *)
(* that is open or resolved, and a run that is idle has nothing left to do.   *)
AtRest ==
    /\ \A f \in Findings : writing[f] # NoWrite => writing[f].status \in {"open", "resolved"}
    /\ run.phase = "idle" => Left = {}

LEMMA InitAtRest == Init => AtRest
  BY NoRunRun DEF Init, AtRest, Left

LEMMA NextAtRest == BridgeInv /\ AtRest /\ [Next]_vars => AtRest'
  <1> SUFFICES ASSUME BridgeInv, AtRest, [Next]_vars PROVE AtRest'
    OBVIOUS
  <1>1. TypeOK /\ ClockIsAhead /\ run \in Runs /\ writing \in [Findings -> FindingRows]
        /\ link \in [Findings -> Ids \cup {NoIncident}] /\ now \in Nat
    BY DEF BridgeInv, TypeOK
  <1>2. run' = NoRun => Left' = {}
    BY NoRunRun DEF Left
  <1>3. CASE run' = run /\ writing' = writing
    BY <1>3 DEF AtRest, Left
  <1>4. ASSUME NEW f \in Findings, UpdateBegins(f) PROVE AtRest'
    <2>1. PICK s \in {"open", "resolved"} :
            writing' = [writing EXCEPT ![f] = [status |-> s, updated |-> now]]
      BY <1>4 DEF UpdateBegins
    <2>2. run' = run
      BY <1>4 DEF UpdateBegins
    <2>3. \A g \in Findings : writing'[g] # NoWrite => writing'[g].status \in {"open", "resolved"}
      BY <1>1, <2>1 DEF AtRest
    <2>4. QED
      BY <2>2, <2>3 DEF AtRest, Left
  <1>5. ASSUME NEW f \in Findings, UpdateLands(f) PROVE AtRest'
    <2>1. run'.phase = run.phase /\ run'.rows = run.rows
      BY <1>1, <1>5 DEF UpdateLands, Runs
    <2>2. Left' = Left
      BY <2>1, SameRows
    <2>3. \A g \in Findings : writing'[g] # NoWrite => writing'[g].status \in {"open", "resolved"}
      BY <1>1, <1>5 DEF UpdateLands, AtRest
    <2>4. QED
      BY <2>1, <2>2, <2>3 DEF AtRest
  <1>6. ASSUME writing' = writing, run'.phase # "idle" PROVE AtRest'
    BY <1>6 DEF AtRest
  <1>7. ASSUME writing' = writing, run' = NoRun PROVE AtRest'
    BY <1>2, <1>7 DEF AtRest
  <1>8. ASSUME NEW phase \in Phases \ {"idle"}, Goto(phase), writing' = writing PROVE AtRest'
    BY <1>1, <1>6, <1>8, GotoRun
  <1>9. ASSUME Left # {}, NextFinding, writing' = writing PROVE AtRest'
    BY <1>1, <1>6, <1>9, NextFindingRun
  <1>10. CASE Bridge
    <2>1. CASE Begin
      BY <1>1, <1>6, <2>1, BeginRun DEF Begin
    <2>2. CASE Look
      <3>1. Current \in Findings
        BY <1>1, <2>2, CurrentIsLeft DEF Look
      <3>2. ASSUME NEW phase \in Phases \ {"idle"}, Visit(phase) PROVE AtRest'
        BY <1>1, <1>6, <2>2, <3>1, <3>2, VisitRun DEF Look
      <3>3. QED
        BY <1>9, <2>2, <3>2 DEF Look, Phases
    <2>3. CASE Find
      <3>1. ASSUME NEW i \in Existing,
                   run' = [run EXCEPT !.phase = "update", !.inc = i, !.was = incident[i].status]
            PROVE  AtRest'
        BY <1>1, <1>6, <2>3, <3>1 DEF Find, Runs
      <3>2. QED
        BY <1>8, <2>3, <3>1 DEF Find, Phases
    <2>4. CASE Create
      BY <1>1, <1>6, <2>4 DEF Create, Runs
    <2>5. CASE Update
      BY <1>8, <2>5 DEF Update, Phases
    <2>6. CASE Events
      BY <1>8, <2>6 DEF Events, Phases
    <2>7. CASE Link
      BY <1>9, <2>7 DEF Link, BridgeInv, InHand
    <2>8. CASE Check
      BY <1>8, <1>9, <2>8 DEF Check, Phases, BridgeInv, InHand
    <2>9. CASE Resolve
      BY <1>9, <2>9 DEF Resolve, BridgeInv, InHand
    <2>10. CASE Finish
      BY <1>7, <2>10 DEF Finish
    <2>11. QED
      BY <1>10, <2>1, <2>2, <2>3, <2>4, <2>5, <2>6, <2>7, <2>8, <2>9, <2>10 DEF Bridge
  <1>11. CASE Abort
    BY <1>7, <1>11 DEF Abort
  <1>12. QED
    BY <1>3, <1>4, <1>5, <1>10, <1>11
       DEF Next, vars, Tick, ChangePlan, AckIncident, ResolveIncident, Operate

(* The incident of a finding, when there is one incident i and no other.      *)
LEMMA CareIs ==
  ASSUME incident \in [Ids -> IncidentRows], OneIncidentPerFinding,
         NEW f \in Findings, NEW i \in Ids, Exists(i), incident[i].of = f
  PROVE  /\ CareOf[f] = {<<i, incident[i].status>>}
         /\ f \in Owed <=> ~incident[i].alerted
  <1>1. {j \in Ids : Exists(j) /\ incident[j].of = f} = {i}
    BY DEF OneIncidentPerFinding
  <1>2. CareOf[f] = {<<j, incident[j].status>> : j \in {i}}
    BY <1>1 DEF CareOf
  <1>3. QED
    BY <1>1, <1>2 DEF Owed

(* What a write of incident i of finding f does to the incidents of findings. *)
LEMMA CareAfter ==
  ASSUME BridgeInv, BridgeInv', NEW f \in Findings, NEW i \in Ids,
         \A j \in Ids \ {i} : incident'[j] = incident[j],
         incident'[i].of = f, Exists(i)', Exists(i) => incident[i].of = f
  PROVE  /\ CareOf' = [CareOf EXCEPT ![f] = {<<i, incident'[i].status>>}]
         /\ Owed' = IF incident'[i].alerted THEN Owed \ {f} ELSE Owed \cup {f}
  <1>1. /\ incident \in [Ids -> IncidentRows] /\ incident' \in [Ids -> IncidentRows]
        /\ OneIncidentPerFinding /\ OneIncidentPerFinding'
    BY DEF BridgeInv, TypeOK
  <1>2. ASSUME NEW g \in Findings \ {f} PROVE CareOf'[g] = CareOf[g] /\ (g \in Owed' <=> g \in Owed)
    <2>1. {j \in Ids : Exists(j)' /\ incident'[j].of = g}
            = {j \in Ids : Exists(j) /\ incident[j].of = g}
      BY <1>2 DEF Exists
    <2>2. \A j \in {k \in Ids : Exists(k) /\ incident[k].of = g} : incident'[j] = incident[j]
      BY <1>2 DEF Exists
    <2>3. CareOf'[g] = {<<j, incident'[j].status>> : j \in {k \in Ids : Exists(k)' /\ incident'[k].of = g}}
      BY <1>2 DEF CareOf
    <2>4. CareOf[g] = {<<j, incident[j].status>> : j \in {k \in Ids : Exists(k) /\ incident[k].of = g}}
      BY <1>2 DEF CareOf
    <2>5. CareOf'[g] = CareOf[g]
      BY <2>1, <2>2, <2>3, <2>4
    <2>6. g \in Owed' <=> g \in Owed
      BY <1>2 DEF Owed, Exists
    <2>7. QED
      BY <2>5, <2>6
  <1>3. CareOf'[f] = {<<i, incident'[i].status>>} /\ (f \in Owed' <=> ~incident'[i].alerted)
    <2>1. {j \in Ids : Exists(j)' /\ incident'[j].of = f} = {i}
      BY <1>1 DEF OneIncidentPerFinding
    <2>2. CareOf'[f] = {<<j, incident'[j].status>> : j \in {k \in Ids : Exists(k)' /\ incident'[k].of = f}}
      BY DEF CareOf
    <2>3. QED
      BY <2>1, <2>2 DEF Owed
  <1>4. CareOf' = [CareOf EXCEPT ![f] = {<<i, incident'[i].status>>}]
    <2>1. /\ CareOf' = [g \in Findings |-> CareOf'[g]]
          /\ CareOf = [g \in Findings |-> CareOf[g]]
      BY DEF CareOf
    <2>2. QED
      BY <1>2, <1>3, <2>1
  <1>5. Owed \subseteq Findings /\ Owed' \subseteq Findings
    BY DEF Owed
  <1>6. QED
    BY <1>2, <1>3, <1>4, <1>5

(* Nothing that the mapping reads changes with the run alone.                 *)
LEMMA SameCare == incident' = incident => CareOf' = CareOf /\ Owed' = Owed
  BY DEF CareOf, Owed, Exists

LEMMA SameRead == run'.rows = run.rows => ReadOf' = ReadOf /\ Current' = Current
  BY SameRows DEF ReadOf

LEMMA StatusesAreSame == finding' = finding => StatusOf' = StatusOf
  BY DEF StatusOf

(* The run leaves the finding in hand for the next.                           *)
LEMMA LeavesCurrent ==
  ASSUME BridgeInv, Left # {}, NextFinding
  PROVE  /\ Watch!Leave(Current) /\ Current \in Findings /\ ReadOf[Current] = Row.status
         /\ GoneThrough /\ finding' = finding => Watch!Settle(Current)
  <1>1. run \in Runs /\ FreshIsCurrent /\ Current \in Left /\ Current \in Findings
    BY CurrentIsLeft DEF BridgeInv, TypeOK
  <1>2. run'.phase = "look" /\ run'.rows = [run.rows EXCEPT ![Current] = Absent]
    BY <1>1 DEF NextFinding, Runs
  <1>3. run.rows \in [Findings -> FindingRows] /\ Absent.status = "absent"
    BY <1>1 DEF Runs, Absent
  <1>4. ReadOf' = [ReadOf EXCEPT ![Current] = "absent"]
    BY <1>1, <1>2, <1>3 DEF ReadOf
  <1>5. JustOpened' = {}
    BY <1>2 DEF JustOpened
  <1>6. Watch!Leave(Current)
    BY <1>4, <1>5 DEF Watch!Leave
  <1>7. ReadOf[Current] = Row.status
    BY <1>1 DEF ReadOf, Row
  <1>8. Current \in run.fresh => StatusOf[Current] = ReadOf[Current]
    BY <1>1 DEF FreshIsCurrent, ReadOf, StatusOf
  <1>9. GoneThrough => Watch!Settle(Current)
    BY <1>6, <1>8 DEF GoneThrough, Watch!Settle
  <1>10. QED
    BY <1>1, <1>6, <1>7, <1>9

(* Each step of a run is one of the watch, or none.                           *)
LEMMA BridgeImplements ==
  ASSUME BridgeInv, BridgeInv', AtRest, Bridge
  PROVE  Watch!Next \/ UNCHANGED Watch!fvars
  <1>1. /\ TypeOK /\ run \in Runs /\ OneIncidentPerFinding /\ ClockIsAhead
        /\ incident \in [Ids -> IncidentRows] /\ link \in [Findings -> Ids \cup {NoIncident}]
        /\ now \in Nat
    BY DEF BridgeInv, TypeOK
  <1>2. ASSUME run'.rows = run.rows, run'.phase \in {"find", "create", "update", "check", "resolve"},
               run.phase \in {"look", "find", "create", "update", "check", "resolve"},
               UNCHANGED <<finding, incident, link, bridged>>
        PROVE  UNCHANGED Watch!fvars
    <2>1. JustOpened' = JustOpened
      BY <1>2 DEF JustOpened
    <2>2. Linked' = Linked
      BY <1>2 DEF Linked
    <2>3. QED
      BY <1>2, <2>1, <2>2, SameCare, SameRead, StatusesAreSame DEF Watch!fvars
  <1>3. ASSUME Left # {}, NextFinding, GoneThrough, Row.status = "resolved",
               link[Current] = NoIncident, UNCHANGED <<finding, incident, link>>
        PROVE  Watch!Next
    <2>1. Linked' = Linked /\ Current \notin Linked
      BY <1>3 DEF Linked
    <2>2. Watch!SettleResolved(Current) /\ Current \in Findings
      BY <1>3, <2>1, LeavesCurrent, SameCare, StatusesAreSame DEF Watch!SettleResolved
    <2>3. QED
      BY <2>2 DEF Watch!Next
  <1>4. CASE Begin
    <2>1. run'.rows = [f \in Findings |-> IF f \in Fetched THEN finding[f] ELSE Absent]
          /\ run'.phase = "look"
      BY <1>4 DEF Begin, NoRun
    <2>2. ReadOf' = [f \in Findings |-> IF f \in Fetched THEN StatusOf[f] ELSE "absent"]
      BY <2>1 DEF ReadOf, StatusOf, Absent
    <2>3. Fetched \in SUBSET Findings
      BY DEF Fetched, Eligible
    <2>4. ReadOf = Watch!Nothing
      BY <1>4 DEF Begin, AtRest, Left, ReadOf, Watch!Nothing, Absent
    <2>5. JustOpened = {} /\ JustOpened' = {} /\ Linked' = Linked
      BY <1>4, <2>1 DEF Begin, JustOpened, Linked
    <2>6. Watch!Read
      BY <1>4, <2>2, <2>3, <2>4, <2>5, SameCare, StatusesAreSame DEF Begin, Watch!Read
    <2>7. QED
      BY <2>6 DEF Watch!Next
  <1>5. CASE Look
    <2>1. Left # {} /\ run.phase = "look" /\ UNCHANGED <<finding, incident, link>>
      BY <1>5 DEF Look
    <2>2. Current \in Findings
      BY <1>1, <2>1, CurrentIsLeft
    <2>3. ASSUME NextFinding, UNCHANGED bridged PROVE Watch!Next
      <3>1. Linked' = Linked
        BY <2>1 DEF Linked
      <3>2. Watch!Drop(Current)
        BY <2>1, <2>3, <3>1, LeavesCurrent, SameCare, StatusesAreSame DEF Watch!Drop
      <3>3. QED
        BY <2>2, <3>2 DEF Watch!Next
    <2>4. ASSUME NEW phase \in {"find", "check"}, Visit(phase), UNCHANGED bridged
          PROVE  UNCHANGED Watch!fvars
      <3>1. run'.rows = run.rows /\ run'.phase = phase
        BY <1>1, <2>2, <2>4, VisitRun DEF Phases
      <3>2. QED
        BY <1>2, <2>1, <2>4, <3>1
    <2>5. QED
      BY <1>3, <1>5, <2>1, <2>3, <2>4 DEF Look
  <1>6. CASE Find
    <2>1. run.phase = "find" /\ UNCHANGED <<finding, incident, link, bridged>>
      BY <1>6 DEF Find
    <2>2. CASE Goto("create")
      BY <1>1, <1>2, <2>1, <2>2, GotoRun DEF Phases
    <2>3. ASSUME NEW i \in Existing,
                 run' = [run EXCEPT !.phase = "update", !.inc = i, !.was = incident[i].status]
          PROVE  UNCHANGED Watch!fvars
      <3>1. run'.rows = run.rows /\ run'.phase = "update"
        BY <1>1, <2>3 DEF Runs
      <3>2. QED
        BY <1>2, <2>1, <3>1
    <2>4. QED
      BY <1>6, <2>2, <2>3 DEF Find
  <1>7. CASE Create
    <2>1. /\ run.phase = "create" /\ Left # {} /\ Row.status = "open"
          /\ \A i \in Ids : Exists(i) => incident[i].of # Current
          /\ UNCHANGED <<finding, link, bridged>>
      BY <1>7 DEF Create, BridgeInv, InHand
    <2>2. Current \in Findings /\ ReadOf[Current] = "open"
      BY <1>1, <2>1, CurrentIsLeft DEF ReadOf, Row
    <2> DEFINE first == CHOOSE i \in Free : \A j \in Free : i <= j
               new == [of |-> Current, status |-> "open", started |-> run.at, alerted |-> FALSE]
    <2>3. first \in Free
      <3>1. Free \in SUBSET Nat /\ Free # {}
        BY <1>7, SetsOfNat DEF Create, Free
      <3>2. QED
        BY <3>1, HasLeast
    <2>4. incident' = [incident EXCEPT ![first] = new]
      BY <1>7 DEF Create
    <2>5. run' = [run EXCEPT !.phase = "events", !.inc = first, !.was = "resolved"]
      BY <1>7 DEF Create
    <2> HIDE DEF first
    <2>6. PICK i \in Ids : i = first /\ ~Exists(i)
      BY <2>3 DEF Free, Exists
    <2>7. incident'[i] = new /\ \A j \in Ids \ {i} : incident'[j] = incident[j]
      BY <1>1, <2>4, <2>6
    <2>8. run'.phase = "events" /\ run'.rows = run.rows
      BY <1>1, <2>5 DEF Runs
    <2>9. ReadOf' = ReadOf /\ JustOpened = {} /\ JustOpened' = {Current} /\ Linked' = Linked
      BY <2>1, <2>8, SameRead DEF JustOpened, Linked
    <2>10. /\ CareOf' = [CareOf EXCEPT ![Current] = {<<i, "open">>}]
           /\ Owed' = Owed \cup {Current}
      <3>1. Exists(i)' /\ incident'[i].of = Current /\ incident'[i].status = "open"
            /\ ~incident'[i].alerted
        BY <2>7 DEF Exists
      <3>2. QED
        BY <2>2, <2>6, <2>7, <3>1, CareAfter
    <2>11. CareOf[Current] = {}
      BY <2>1, <2>2 DEF CareOf
    <2>12. Watch!Open(Current)
      BY <2>1, <2>2, <2>6, <2>9, <2>10, <2>11, StatusesAreSame DEF Watch!Open
    <2>13. QED
      BY <2>2, <2>12 DEF Watch!Next
  <1>8. CASE Update
    <2>1. /\ run.phase = "update" /\ Left # {} /\ Row.status = "open"
          /\ run.inc \in Ids /\ Exists(run.inc) /\ incident[run.inc].of = Current
          /\ UNCHANGED <<finding, link, bridged>> /\ Goto("events")
      BY <1>1, <1>8 DEF Update, BridgeInv, InHand, Runs
    <2>2. Current \in Findings /\ ReadOf[Current] = "open"
      BY <1>1, <2>1, CurrentIsLeft DEF ReadOf, Row
    <2>3. PICK i \in Ids : i = run.inc
      BY <2>1
    <2> DEFINE opens == incident[i].status = "resolved"
    <2>4. /\ incident'[i].status = "open" /\ incident'[i].of = Current
          /\ incident'[i].alerted = (incident[i].alerted /\ ~opens)
          /\ \A j \in Ids \ {i} : incident'[j] = incident[j]
      BY <1>1, <1>8, <2>1, <2>3 DEF Update, IncidentRows
    <2>5. run'.phase = "events" /\ run'.rows = run.rows
      BY <1>1, <2>1, GotoRun DEF Phases
    <2>6. ReadOf' = ReadOf /\ JustOpened = {} /\ JustOpened' = {Current} /\ Linked' = Linked
      BY <2>1, <2>5, SameRead DEF JustOpened, Linked
    <2>7. /\ CareOf' = [CareOf EXCEPT ![Current] = {<<i, "open">>}]
          /\ Owed' = IF incident'[i].alerted THEN Owed \ {Current} ELSE Owed \cup {Current}
      <3>1. Exists(i)' /\ Exists(i) /\ incident[i].of = Current
        BY <2>1, <2>3, <2>4 DEF Exists
      <3>2. QED
        BY <2>2, <2>4, <3>1, CareAfter
    <2>8. /\ CareOf[Current] = {<<i, incident[i].status>>}
          /\ Current \in Owed <=> ~incident[i].alerted
      BY <1>1, <2>1, <2>2, <2>3, CareIs
    <2>9. incident[i].status \in {"open", "acked", "resolved"}
      BY <1>1, <2>1, <2>3 DEF IncidentRows, Exists
    <2>10. \/ CareOf[Current] = {<<i, "resolved">>} /\ Owed' = Owed \cup {Current}
           \/ CareOf[Current] \in {{<<i, "open">>}, {<<i, "acked">>}} /\ Owed' = Owed
      <3>1. CASE opens
        BY <2>4, <2>7, <2>8, <3>1
      <3>2. CASE ~opens
        <4>1. CareOf[Current] \in {{<<i, "open">>}, {<<i, "acked">>}}
          BY <2>8, <2>9, <3>2
        <4>2. Owed' = Owed
          BY <2>4, <2>7, <2>8, <3>2
        <4>3. QED
          BY <4>1, <4>2
      <3>3. QED
        BY <3>1, <3>2
    <2>11. Watch!Open(Current)
      BY <2>1, <2>2, <2>6, <2>7, <2>10, StatusesAreSame DEF Watch!Open
    <2>12. QED
      BY <2>2, <2>11 DEF Watch!Next
  <1>9. CASE Events
    <2>1. /\ run.phase = "events" /\ Left # {}
          /\ run.inc \in Ids /\ Exists(run.inc) /\ incident[run.inc].of = Current
          /\ UNCHANGED <<finding, link, bridged>> /\ Goto("link")
      BY <1>1, <1>9 DEF Events, BridgeInv, InHand, Runs
    <2>2. Current \in Findings
      BY <1>1, <2>1, CurrentIsLeft
    <2>3. run'.phase = "link" /\ run'.rows = run.rows
      BY <1>1, <2>1, GotoRun DEF Phases
    <2>4. /\ ReadOf' = ReadOf /\ JustOpened = {Current} /\ JustOpened' = JustOpened
          /\ Linked' = Linked /\ StatusOf' = StatusOf
      BY <2>1, <2>3, SameRead, StatusesAreSame DEF JustOpened, Linked
    <2>5. CASE run.was = "resolved"
      <3>1. PICK i \in Ids : i = run.inc
        BY <2>1
      <3>2. incident' = [incident EXCEPT ![i].alerted = TRUE]
        BY <1>9, <2>5, <3>1 DEF Events
      <3>3. /\ incident'[i].status = incident[i].status /\ incident'[i].of = Current
            /\ incident'[i].alerted /\ \A j \in Ids \ {i} : incident'[j] = incident[j]
        BY <1>1, <2>1, <3>1, <3>2 DEF IncidentRows
      <3>4. Exists(i)' /\ Exists(i) /\ incident[i].of = Current
        BY <2>1, <3>1, <3>3 DEF Exists
      <3>5. /\ CareOf' = [CareOf EXCEPT ![Current] = {<<i, incident[i].status>>}]
            /\ Owed' = Owed \ {Current}
        BY <2>2, <3>3, <3>4, CareAfter
      <3>6. CareOf' = CareOf
        <4>1. CareOf[Current] = {<<i, incident[i].status>>}
          BY <1>1, <2>2, <3>4, CareIs
        <4>2. CareOf = [f \in Findings |-> CareOf[f]]
          BY DEF CareOf
        <4>3. QED
          BY <2>2, <3>5, <4>1, <4>2
      <3>7. Watch!Alert(Current)
        BY <2>1, <2>4, <3>5, <3>6 DEF Watch!Alert
      <3>8. QED
        BY <2>2, <3>7 DEF Watch!Next
    <2>6. CASE run.was # "resolved"
      BY <1>9, <2>1, <2>4, <2>6, SameCare DEF Events, Watch!fvars
    <2>7. QED
      BY <2>5, <2>6
  <1>10. CASE Link
    <2>1. /\ run.phase = "link" /\ Left # {} /\ Row.status = "open" /\ run.inc # NoIncident
          /\ UNCHANGED <<finding, incident>> /\ link' = [link EXCEPT ![Current] = run.inc]
          /\ NextFinding /\ GoneThrough
      BY <1>10 DEF Link, BridgeInv, InHand
    <2>2. /\ Current \in Findings /\ ReadOf[Current] = "open" /\ Current \in JustOpened
          /\ Watch!Settle(Current)
      BY <2>1, LeavesCurrent DEF JustOpened
    <2>3. Linked' = Linked \cup {Current}
      BY <1>1, <2>1, <2>2 DEF Linked
    <2>4. Watch!SettleOpen(Current)
      BY <2>1, <2>2, <2>3, SameCare, StatusesAreSame DEF Watch!SettleOpen
    <2>5. QED
      BY <2>2, <2>4 DEF Watch!Next
  <1>11. ASSUME run.phase \in {"check", "resolve"}, NextFinding, GoneThrough,
                UNCHANGED <<finding, link>>, incident'[run.inc].status = "resolved",
                incident'[run.inc].of = incident[run.inc].of,
                incident'[run.inc].alerted = incident[run.inc].alerted,
                \A j \in Ids \ {run.inc} : incident'[j] = incident[j]
         PROVE  Watch!Next
    <2>1. /\ Left # {} /\ Row.status = "resolved" /\ run.inc \in Ids
          /\ Exists(run.inc) /\ incident[run.inc].of = Current
          /\ link[Current] = run.inc /\ run.inc # NoIncident
      BY <1>1, <1>11 DEF BridgeInv, InHand, Runs
    <2>2. Current \in Findings /\ ReadOf[Current] = "resolved" /\ Watch!Settle(Current)
      BY <1>11, <2>1, LeavesCurrent
    <2>3. Linked' = Linked /\ Current \in Linked
      BY <1>11, <2>1, <2>2 DEF Linked
    <2>4. PICK i \in Ids : i = run.inc
      BY <2>1
    <2>5. /\ CareOf[Current] = {<<i, incident[i].status>>}
          /\ Current \in Owed <=> ~incident[i].alerted
      BY <1>1, <2>1, <2>2, <2>4, CareIs
    <2>6. /\ CareOf' = [CareOf EXCEPT ![Current] = {<<i, "resolved">>}]
          /\ Owed' = IF incident'[i].alerted THEN Owed \ {Current} ELSE Owed \cup {Current}
      <3>1. Exists(i)' /\ Exists(i) /\ incident[i].of = Current /\ incident'[i].of = Current
            /\ \A j \in Ids \ {i} : incident'[j] = incident[j]
        BY <1>11, <2>1, <2>4 DEF Exists
      <3>2. incident'[i].status = "resolved"
        BY <1>11, <2>4
      <3>3. /\ CareOf' = [CareOf EXCEPT ![Current] = {<<i, incident'[i].status>>}]
            /\ Owed' = IF incident'[i].alerted THEN Owed \ {Current} ELSE Owed \cup {Current}
        BY <2>2, <3>1, CareAfter
      <3>4. QED
        BY <3>2, <3>3
    <2>7. Owed' = Owed
      BY <1>11, <2>4, <2>5, <2>6
    <2>8. incident[i].status \in {"open", "acked", "resolved"}
      BY <1>1, <2>1, <2>4 DEF IncidentRows, Exists
    <2>9. Watch!SettleResolved(Current)
      BY <1>11, <2>2, <2>3, <2>5, <2>6, <2>7, <2>8, StatusesAreSame DEF Watch!SettleResolved
    <2>10. QED
      BY <2>2, <2>9 DEF Watch!Next
  <1>12. CASE Check
    <2>1. run.phase = "check" /\ UNCHANGED <<finding, incident, link>>
      BY <1>12 DEF Check
    <2>2. CASE incident[run.inc].status = "resolved" /\ NextFinding /\ GoneThrough
      BY <1>11, <2>1, <2>2
    <2>3. CASE Goto("resolve") /\ UNCHANGED bridged
      BY <1>1, <1>2, <2>1, <2>3, GotoRun DEF Phases
    <2>4. QED
      BY <1>12, <2>2, <2>3 DEF Check
  <1>13. CASE Resolve
    <2>1. run.phase = "resolve" /\ run.inc \in Ids
      BY <1>1, <1>13 DEF Resolve, BridgeInv, InHand, Runs
    <2>2. /\ incident'[run.inc].status = "resolved"
          /\ incident'[run.inc].of = incident[run.inc].of
          /\ incident'[run.inc].alerted = incident[run.inc].alerted
          /\ \A j \in Ids \ {run.inc} : incident'[j] = incident[j]
      BY <1>1, <1>13, <2>1 DEF Resolve, IncidentRows
    <2>3. QED
      BY <1>11, <1>13, <2>1, <2>2 DEF Resolve
  <1>14. CASE Finish
    <2>1. run.phase = "look" /\ run' = NoRun /\ Left = {}
          /\ UNCHANGED <<finding, incident, link, bridged>>
      BY <1>14 DEF Finish
    <2>2. ReadOf' = ReadOf
      BY <2>1, NoRunRun DEF ReadOf, Left
    <2>3. JustOpened' = JustOpened /\ Linked' = Linked
      BY <2>1, NoRunRun DEF JustOpened, Linked
    <2>4. QED
      BY <2>1, <2>2, <2>3, SameCare, StatusesAreSame DEF Watch!fvars
  <1>15. QED
    BY <1>4, <1>5, <1>6, <1>7, <1>8, <1>9, <1>10, <1>12, <1>13, <1>14 DEF Bridge

(* The bridge implements FindingWatch, for any number of findings and any size *)
(* of a batch: whatever the order in which runs die and operators and the      *)
(* analysis write, a finding has one incident for good, opened only for a      *)
(* finding read as open and resolved only for one read as resolved.            *)
THEOREM RefinesFindingWatch == Spec => ImplementsFindingWatch
  <1>1. Init => Watch!Init
    <2> SUFFICES ASSUME Init PROVE Watch!Init
      OBVIOUS
    <2>1. \A i \in Ids : ~Exists(i)
      BY DEF Init, Exists
    <2>2. CareOf = [f \in Findings |-> {}] /\ Owed = {}
      BY <2>1 DEF CareOf, Owed
    <2>3. StatusOf = Watch!Nothing /\ ReadOf = Watch!Nothing
      BY NoRunRun DEF Init, StatusOf, ReadOf, Watch!Nothing, Absent
    <2>4. JustOpened = {} /\ Linked = {}
      BY NoRunRun DEF Init, JustOpened, Linked
    <2>5. QED
      BY <2>2, <2>3, <2>4 DEF Init, Watch!Init
  <1>2. BridgeInv /\ BridgeInv' /\ AtRest /\ [Next]_vars => [Watch!Next]_Watch!fvars
    <2> SUFFICES ASSUME BridgeInv, BridgeInv', AtRest, [Next]_vars
                 PROVE  Watch!Next \/ UNCHANGED Watch!fvars
      OBVIOUS
    <2>1. /\ run \in Runs /\ finding \in [Findings -> FindingRows]
          /\ incident \in [Ids -> IncidentRows] /\ OneIncidentPerFinding
      BY DEF BridgeInv, TypeOK
    <2>2. ASSUME UNCHANGED <<finding, run, incident, link, bridged>> PROVE UNCHANGED Watch!fvars
      <3>1. JustOpened' = JustOpened /\ Linked' = Linked
        BY <2>2, SameRead DEF JustOpened, Linked
      <3>2. QED
        BY <2>2, <3>1, SameCare, SameRead, StatusesAreSame DEF Watch!fvars
    <2>3. ASSUME NEW f \in Findings, UpdateLands(f) PROVE Watch!Next
      <3>1. /\ run'.rows = run.rows /\ run'.phase = run.phase
            /\ UNCHANGED <<incident, link>> /\ bridged' = bridged \ {f}
        BY <2>1, <2>3 DEF UpdateLands, Runs
      <3>2. ReadOf' = ReadOf /\ JustOpened' = JustOpened /\ Linked' = Linked
        BY <3>1, SameRead DEF JustOpened, Linked
      <3>3. writing[f].status \in {"open", "resolved"}
        BY <2>3 DEF UpdateLands, AtRest
      <3>4. StatusOf' = [StatusOf EXCEPT ![f] = writing[f].status]
        BY <2>1, <2>3 DEF UpdateLands, StatusOf
      <3>5. Watch!Change(f)
        BY <3>1, <3>2, <3>3, <3>4, SameCare DEF Watch!Change
      <3>6. QED
        BY <3>5 DEF Watch!Next
    <2>4. ASSUME NEW i \in Ids, NEW status \in {"acked", "resolved"}, Operate(i, status)
          PROVE  Watch!Next \/ UNCHANGED Watch!fvars
      <3>1. /\ Exists(i) /\ UNCHANGED <<finding, run, link, bridged>>
            /\ incident' = [incident EXCEPT ![i].status = status]
        BY <2>4 DEF Operate, Exists
      <3>2. /\ incident'[i].status = status /\ incident'[i].of = incident[i].of
            /\ incident'[i].alerted = incident[i].alerted
            /\ \A j \in Ids \ {i} : incident'[j] = incident[j]
        BY <2>1, <3>1 DEF IncidentRows
      <3>3. ReadOf' = ReadOf /\ JustOpened' = JustOpened /\ Linked' = Linked /\ StatusOf' = StatusOf
        BY <3>1, SameRead, StatusesAreSame DEF JustOpened, Linked
      <3>4. Exists(i)'
        BY <2>4, <3>2 DEF Exists
      <3>5. CASE incident[i].of \in Findings
        <4>1. PICK f \in Findings : incident[i].of = f
          BY <3>5
        <4>2. /\ CareOf[f] = {<<i, incident[i].status>>} /\ (f \in Owed <=> ~incident[i].alerted)
          BY <2>1, <3>1, <4>1, CareIs
        <4>3. incident'[i].of = f
          BY <3>2, <4>1
        <4>4. /\ CareOf' = [CareOf EXCEPT ![f] = {<<i, incident'[i].status>>}]
              /\ Owed' = IF incident'[i].alerted THEN Owed \ {f} ELSE Owed \cup {f}
          BY <3>1, <3>2, <3>4, <4>1, <4>3, CareAfter
        <4>5. Owed' = Owed
          BY <3>2, <4>2, <4>4
        <4>6. incident[i].status \in {"open", "acked", "resolved"}
          BY <2>1, <3>1 DEF IncidentRows, Exists
        <4>7. Watch!Operate(f)
          BY <2>4, <3>1, <3>2, <3>3, <4>2, <4>4, <4>5, <4>6 DEF Watch!Operate
        <4>8. QED
          BY <4>7 DEF Watch!Next
      <3>6. CASE incident[i].of \notin Findings
        <4>1. \A f \in Findings : {j \in Ids : Exists(j)' /\ incident'[j].of = f}
                                    = {j \in Ids : Exists(j) /\ incident[j].of = f}
          BY <3>2, <3>6 DEF Exists
        <4>2. \A j \in Ids : incident[j].of \in Findings => incident'[j] = incident[j]
          BY <3>2, <3>6
        <4>3. CareOf' = CareOf
          BY <4>1, <4>2 DEF CareOf
        <4>4. Owed' = Owed
          BY <3>2, <3>6, <4>2 DEF Owed, Exists
        <4>5. QED
          BY <3>1, <3>3, <4>3, <4>4 DEF Watch!fvars
      <3>7. QED
        BY <3>5, <3>6
    <2>5. CASE Abort
      <3>1. run' = NoRun /\ UNCHANGED <<finding, incident, link, bridged>>
        BY <2>5 DEF Abort
      <3>2. ReadOf' = Watch!Nothing /\ JustOpened' = {} /\ Linked' = Linked
        BY <3>1, NoRunRun DEF ReadOf, JustOpened, Linked, Watch!Nothing, Absent
      <3>3. Watch!Forget
        BY <3>1, <3>2, SameCare, StatusesAreSame DEF Watch!Forget
      <3>4. QED
        BY <3>3 DEF Watch!Next
    <2>6. CASE Bridge
      BY <2>6, BridgeImplements
    <2>7. QED
      BY <2>2, <2>3, <2>4, <2>5, <2>6
         DEF Next, vars, Tick, ChangePlan, UpdateBegins, AckIncident, ResolveIncident
  <1>3. BridgeInv /\ [Next]_vars => BridgeInv'
    BY NextBridgeInv
  <1>4. QED
    BY <1>1, <1>2, InitAtRest, NextAtRest, BridgeInvariant, PTL
       DEF Spec, Watch!Spec, ImplementsFindingWatch
=============================================================================
