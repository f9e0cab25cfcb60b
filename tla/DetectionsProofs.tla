-------------------------- MODULE DetectionsProofs --------------------------
(***************************************************************************)
(* Proofs about what stored events and reports come to: for the incidents  *)
(* of workflows (W), the anomalies (N), the dashboard (V), the operational *)
(* analysis (A) and the metrics (M) that each step keeps the inductive     *)
(* invariant of its module; then the properties of the whole.              *)
(***************************************************************************)
EXTENDS Detections, Sequences, LeastElements, FiniteSetTheorems, TLAPS

----------------------------------------------------------------------------
(* WorkflowDetection.                                                      *)

LEMMA NoRowIsRow ==
  ASSUME W!Proper
  PROVE  /\ W!NoRow \in W!IncidentRows /\ W!NoRow.rule = None /\ W!NoRow.rule \notin W!Rules
         /\ W!NoRow.status = "none" /\ W!NoRow.breached = FALSE
  BY DEF W!Proper, W!NoRow, W!IncidentRows, W!Statuses, W!Rules

LEMMA IdleIsProper ==
  ASSUME W!Proper
  PROVE  /\ W!Idle \in W!HandlerRows /\ W!Idle.phase = "idle" /\ W!Idle.clean = FALSE
         /\ W!IsProper(W!Idle) /\ W!IsProper(W!Idle)'
  BY DEF W!Idle, W!HandlerRows, W!Phases, W!Statuses, W!NoIncident, W!IsProper, W!Failing, W!Succeeding

LEMMA ReportIsAbout ==
  ASSUME W!Proper, NEW m
  PROVE  /\ W!About(m) \subseteq W!Rules
         /\ W!Status(m) = "succeeded" => W!About(m) = W!Rules
         /\ W!About(m) # {} /\ W!Status(m) # "succeeded" =>
               W!Status(m) \in W!Rules /\ W!About(m) = {W!Status(m)}
         /\ "succeeded" \notin W!Rules
  BY DEF W!About, W!Rules

LEMMA InitWorkflowInv ==
  ASSUME W!Proper, W!Init
  PROVE  W!WorkflowInv
  <1>1. /\ now = 1 /\ lastAt = 0 /\ feed \in ReportFeeds /\ seen = {} /\ marking = {} /\ excused = {} /\ raced = {}
        /\ overdue = {} /\ carried = {}
        /\ incident = [i \in W!Ids |-> W!NoRow] /\ handler = [d \in Handlers |-> W!Idle]
        /\ wanted = [r \in W!Rules |-> "nothing"]
    BY DEF W!Init
  <1>2. /\ \A i \in W!Ids : incident[i] = W!NoRow
        /\ \A d \in Handlers : handler[d] = W!Idle
        /\ \A r \in W!Rules : wanted[r] = "nothing"
    BY <1>1
  <1>3. \A r \in W!Rules : W!OfRule(r) = {}
    BY <1>2, NoRowIsRow DEF W!OfRule
  <1>4. W!TypeOK
    <2>1. now \in 1 .. WorkflowNow
      BY <1>1 DEF W!Proper
    <2>2. incident \in [W!Ids -> W!IncidentRows] /\ handler \in [Handlers -> W!HandlerRows]
      BY <1>1, NoRowIsRow, IdleIsProper
    <2>3. wanted \in [W!Rules -> {"nothing", "active", "resolved"}]
      BY <1>1
    <2>4. QED
      BY <1>1, <2>1, <2>2, <2>3 DEF W!TypeOK
  <1>5. W!HandlersAreProper /\ W!RowsAreWhole
    BY <1>2, IdleIsProper DEF W!HandlersAreProper, W!RowsAreWhole
  <1>6. W!CleanIsInOrder
    BY <1>2, IdleIsProper DEF W!CleanIsInOrder, W!IsClean
  <1>7. W!QuietRulesFollow
    BY <1>2, <1>3 DEF W!QuietRulesFollow, W!Follows, W!AnyActive
  <1>8. W!FailuresAreAlone
    BY <1>2, <1>3, IdleIsProper DEF W!FailuresAreAlone, W!FailuresAt, W!AtMostOne, W!Failing
  <1>9. W!OneIncidentPerRule
    BY <1>3 DEF W!OneIncidentPerRule, W!AtMostOne
  <1>10. W!MarksAreDeserved /\ W!BreachesAreDeserved
    BY <1>1, <1>2, NoRowIsRow DEF W!MarksAreDeserved, W!BreachesAreDeserved
  <1>11. QED
    BY <1>4, <1>5, <1>6, <1>7, <1>8, <1>9, <1>10 DEF W!WorkflowInv

(* A handler goes on: what it is about stays, and incidents change only of    *)
(* the rules of its report.                                                   *)
LEMMA HandlerGoesOn ==
  ASSUME W!Proper, W!WorkflowInv, NEW d \in Handlers, NEW me \in W!HandlerRows,
         handler' = [handler EXCEPT ![d] = me], UNCHANGED <<feed, wanted, excused, raced>>,
         handler[d].phase # "idle", me.phase # "idle",
         me.report = handler[d].report, me.clean = handler[d].clean,
         W!IsProper(me)',
         me.phase \in W!Failing => handler[d].phase \in W!Failing /\ me.rule = handler[d].rule,
         me.phase = "create" /\ me.rule \notin raced => W!OfRule(me.rule) = {},
         \A i \in W!Ids : incident'[i].rule = incident[i].rule,
         \A i \in W!Ids : incident[i].rule \notin W!About(handler[d].report) => incident'[i] = incident[i],
         me.clean /\ me.phase \in W!Succeeding /\ me.rule = "timed_out" /\ W!AtMostOne(W!OfRule("failed"))
            => ~W!AnyActive("failed")'
  PROVE  /\ handler' \in [Handlers -> W!HandlerRows]
         /\ W!HandlersAreProper' /\ W!CleanIsInOrder' /\ W!QuietRulesFollow'
         /\ W!FailuresAreAlone' /\ W!OneIncidentPerRule'
  <1>1. handler \in [Handlers -> W!HandlerRows]
    BY DEF W!WorkflowInv, W!TypeOK
  <1>2. /\ handler' \in [Handlers -> W!HandlerRows]
        /\ handler'[d] = me /\ \A x \in Handlers \ {d} : handler'[x] = handler[x]
    BY <1>1
  <1>3. \A r : W!OfRule(r)' = W!OfRule(r)
    BY DEF W!OfRule
  <1>4. W!HandlersAreProper'
    <2>1. ASSUME NEW x \in Handlers \ {d} PROVE W!IsProper(handler[x])'
      <3>1. W!IsProper(handler[x]) /\ handler'[x] = handler[x]
        BY <1>2 DEF W!WorkflowInv, W!HandlersAreProper
      <3>2. QED
        BY <3>1 DEF W!IsProper
    <2>2. QED
      BY <1>2, <2>1 DEF W!HandlersAreProper
  <1>5. W!CleanIsInOrder'
    <2>1. ASSUME NEW x \in Handlers, handler'[x].clean PROVE x = d
      <3>1. SUFFICES ASSUME x # d PROVE FALSE
        OBVIOUS
      <3>2. handler[x].clean
        BY <1>2, <2>1, <3>1
      <3>3. W!IsClean(x, handler[x])
        BY DEF W!WorkflowInv, W!CleanIsInOrder
      <3>4. QED
        BY <3>1, <3>2, <3>3 DEF W!IsClean
    <2>2. W!IsClean(d, handler[d])
      BY DEF W!WorkflowInv, W!CleanIsInOrder
    <2>3. ASSUME me.clean
          PROVE  /\ \A x \in Handlers \ {d} : handler'[x].phase = "idle"
                 /\ \A r \in W!About(me.report) :
                      wanted'[r] = IF W!Status(me.report) = "succeeded" THEN "resolved" ELSE "active"
      BY <1>2, <2>2, <2>3 DEF W!IsClean
    <2>4. me.clean /\ me.phase \in W!Succeeding /\ me.rule = "timed_out" /\ W!AtMostOne(W!OfRule("failed"))'
            => ~W!AnyActive("failed")'
      BY <1>3 DEF W!AtMostOne
    <2>5. W!IsClean(d, me)'
      BY <2>3, <2>4 DEF W!IsClean
    <2>6. ASSUME NEW x \in Handlers PROVE W!IsClean(x, handler[x])'
      <3>1. CASE x = d
        BY <1>2, <2>5, <3>1 DEF W!IsClean
      <3>2. CASE x # d
        BY <2>1, <3>2 DEF W!IsClean
      <3>3. QED
        BY <3>1, <3>2
    <2>7. QED
      BY <2>6 DEF W!CleanIsInOrder
  <1>6. W!QuietRulesFollow'
    <2>1. ASSUME NEW r \in W!Rules \ excused,
                 \A x \in Handlers : handler'[x].phase = "idle" \/ r \notin W!About(handler'[x].report)
          PROVE  W!Follows(r)'
      <3>1. r \notin W!About(handler[d].report)
        BY <1>2, <2>1
      <3>2. \A x \in Handlers : handler[x].phase = "idle" \/ r \notin W!About(handler[x].report)
        BY <1>2, <2>1, <3>1
      <3>3. W!Follows(r)
        BY <3>2 DEF W!WorkflowInv, W!QuietRulesFollow
      <3>4. \A i \in W!OfRule(r) : incident'[i] = incident[i]
        BY <3>1 DEF W!OfRule
      <3>5. W!AnyActive(r)' <=> W!AnyActive(r)
        BY <1>3, <3>4 DEF W!AnyActive, W!Active
      <3>6. QED
        BY <3>3, <3>5 DEF W!Follows
    <2>2. QED
      BY <2>1 DEF W!QuietRulesFollow
  <1>7. W!FailuresAreAlone'
    <2>1. \A r : W!FailuresAt(r)' \subseteq W!FailuresAt(r)
      BY <1>2 DEF W!FailuresAt
    <2>2. \A r \in W!Rules \ raced : W!AtMostOne(W!FailuresAt(r)')
      BY <2>1 DEF W!WorkflowInv, W!FailuresAreAlone, W!AtMostOne
    <2>3. QED
      BY <1>2, <1>3, <2>2 DEF W!WorkflowInv, W!FailuresAreAlone, W!AtMostOne
  <1>8. W!OneIncidentPerRule'
    BY <1>3 DEF W!WorkflowInv, W!OneIncidentPerRule, W!AtMostOne
  <1>9. QED
    BY <1>2, <1>4, <1>5, <1>6, <1>7, <1>8

(* A handler ends.  Its last step may have created an incident (new).         *)
LEMMA HandlerLeaves ==
  ASSUME W!Proper, W!WorkflowInv, NEW d \in Handlers, W!Continue(d, W!Idle), UNCHANGED <<feed, wanted, raced>>,
         handler[d].phase # "idle", NEW new,
         \A i \in W!Ids \ {new} : incident'[i].rule = incident[i].rule,
         new \in W!Ids => /\ handler[d].phase = "create" /\ incident[new].rule \notin W!Rules
                          /\ incident'[new].rule = handler[d].rule,
         \A i \in W!Ids : incident'[i].rule \notin W!About(handler[d].report) => incident'[i] = incident[i],
         \A r \in W!Rules \ excused' :
            IF r \in W!About(handler[d].report) THEN W!Follows(r)' ELSE r \notin excused
  PROVE  /\ handler' \in [Handlers -> W!HandlerRows]
         /\ W!HandlersAreProper' /\ W!CleanIsInOrder' /\ W!QuietRulesFollow'
         /\ W!FailuresAreAlone' /\ W!OneIncidentPerRule'
  <1>1. handler \in [Handlers -> W!HandlerRows] /\ excused \subseteq W!Rules
    BY DEF W!WorkflowInv, W!TypeOK
  <1>2. PICK me : me = W!Idle
    OBVIOUS
  <1>3. /\ me \in W!HandlerRows /\ me.phase = "idle" /\ me.clean = FALSE
        /\ W!IsProper(me)'
    BY <1>2, IdleIsProper
  <1>4. handler' = [handler EXCEPT ![d] = me]
    BY <1>2 DEF W!Continue
  <1>5. /\ handler' \in [Handlers -> W!HandlerRows]
        /\ handler'[d] = me /\ \A x \in Handlers \ {d} : handler'[x] = handler[x]
    BY <1>1, <1>3, <1>4
  <1>6. PICK m : m = handler[d].report
    OBVIOUS
  <1>7. W!IsProper(handler[d]) /\ W!IsClean(d, handler[d])
    BY DEF W!WorkflowInv, W!HandlersAreProper, W!CleanIsInOrder
  <1>8. W!About(m) \subseteq W!Rules /\ handler[d].rule \in W!About(m)
    BY <1>6, <1>7, ReportIsAbout DEF W!IsProper
  <1>9. \A r : \A i \in W!Ids : i # new => (i \in W!OfRule(r)' <=> i \in W!OfRule(r))
    BY DEF W!OfRule
  <1>10. W!HandlersAreProper'
    <2>1. ASSUME NEW x \in Handlers \ {d} PROVE W!IsProper(handler[x])'
      <3>1. W!IsProper(handler[x]) /\ handler'[x] = handler[x]
        BY <1>5 DEF W!WorkflowInv, W!HandlersAreProper
      <3>2. handler[x].rule \in W!Rules \/ handler[x].phase = "idle"
        BY <3>1, ReportIsAbout DEF W!IsProper
      <3>3. \A i \in W!Ids : incident[i].rule \in W!Rules => incident'[i].rule = incident[i].rule
        OBVIOUS
      <3>4. QED
        BY <3>1, <3>2, <3>3 DEF W!IsProper
    <2>2. QED
      BY <1>3, <1>5, <2>1 DEF W!HandlersAreProper
  <1>11. W!CleanIsInOrder'
    <2>1. ASSUME NEW x \in Handlers PROVE handler'[x].clean = FALSE \/ handler'[x] = handler[x]
      BY <1>3, <1>5
    <2>2. ASSUME NEW x \in Handlers, handler'[x].clean PROVE FALSE
      <3>1. x # d
        BY <1>3, <1>5, <2>2
      <3>2. handler[x].clean /\ W!IsClean(x, handler[x])
        BY <1>5, <2>2, <3>1 DEF W!WorkflowInv, W!CleanIsInOrder
      <3>3. QED
        BY <3>1, <3>2 DEF W!IsClean
    <2>3. QED
      BY <2>2 DEF W!CleanIsInOrder, W!IsClean
  <1>12. W!QuietRulesFollow'
    <2>1. ASSUME NEW r \in W!Rules, r \notin excused',
                 \A x \in Handlers : handler'[x].phase = "idle" \/ r \notin W!About(handler'[x].report)
          PROVE  W!Follows(r)'
      <3>1. CASE r \in W!About(m)
        BY <1>6, <2>1, <3>1
      <3>2. CASE r \notin W!About(m)
        <4>1. r \notin excused
          BY <1>6, <2>1, <3>2
        <4>2. \A x \in Handlers : handler[x].phase = "idle" \/ r \notin W!About(handler[x].report)
          BY <1>5, <1>6, <2>1, <3>2
        <4>3. W!Follows(r)
          BY <4>1, <4>2 DEF W!WorkflowInv, W!QuietRulesFollow
        <4>4. W!OfRule(r)' = W!OfRule(r)
          BY <1>8, <3>2 DEF W!OfRule
        <4>5. \A i \in W!OfRule(r)' : incident'[i] = incident[i]
          BY <1>6, <3>2 DEF W!OfRule
        <4>6. W!AnyActive(r)' <=> W!AnyActive(r)
          BY <4>4, <4>5 DEF W!AnyActive, W!Active
        <4>7. QED
          BY <4>3, <4>6 DEF W!Follows
      <3>3. QED
        BY <3>1, <3>2
    <2>2. QED
      BY <2>1 DEF W!QuietRulesFollow
  <1>13. W!FailuresAreAlone'
    <2>1. \A r : W!FailuresAt(r)' \subseteq W!FailuresAt(r) \ {d}
      BY <1>3, <1>5 DEF W!FailuresAt, W!Failing
    <2>2. \A r \in W!Rules \ raced : W!AtMostOne(W!FailuresAt(r)')
      BY <2>1 DEF W!WorkflowInv, W!FailuresAreAlone, W!AtMostOne
    <2>3. ASSUME NEW x \in Handlers, NEW r, handler'[x].phase = "create", handler'[x].rule = r, r \notin raced
          PROVE  W!OfRule(r)' = {}
      <3>1. x # d /\ handler'[x] = handler[x] /\ handler[x].rule = r /\ handler[x].phase = "create"
        BY <1>3, <1>5, <2>3
      <3>2. W!OfRule(r) = {}
        BY <2>3, <3>1 DEF W!WorkflowInv, W!FailuresAreAlone
      <3>3. r \in W!Rules
        BY <3>1, ReportIsAbout DEF W!WorkflowInv, W!HandlersAreProper, W!IsProper
      <3>4. x \in W!FailuresAt(r)
        BY <3>1 DEF W!FailuresAt, W!Failing
      <3>5. handler[d].phase = "create" => handler[d].rule # r
        <4>1. SUFFICES ASSUME handler[d].phase = "create", handler[d].rule = r PROVE FALSE
          OBVIOUS
        <4>2. d \in W!FailuresAt(r)
          BY <4>1 DEF W!FailuresAt, W!Failing
        <4>3. QED
          BY <2>3, <3>1, <3>3, <3>4, <4>2 DEF W!WorkflowInv, W!FailuresAreAlone, W!AtMostOne
      <3>6. \A i \in W!Ids : incident'[i].rule = r => incident[i].rule = r
        BY <3>5
      <3>7. QED
        BY <3>2, <3>6 DEF W!OfRule
    <2>4. \A x \in Handlers : handler'[x].phase = "create" /\ handler'[x].rule \notin raced' =>
             W!OfRule(handler[x].rule)' = {}
      BY <2>3
    <2>5. QED
      BY <2>2, <2>4 DEF W!FailuresAreAlone, W!AtMostOne
  <1>14. W!OneIncidentPerRule'
    <2>1. ASSUME NEW r \in W!Rules \ raced PROVE W!AtMostOne(W!OfRule(r)')
      <3>1. W!AtMostOne(W!OfRule(r))
        BY DEF W!WorkflowInv, W!OneIncidentPerRule
      <3>2. CASE new \in W!OfRule(r)'
        <4>1. new \in W!Ids /\ handler[d].phase = "create" /\ handler[d].rule = r
          BY <3>2 DEF W!OfRule
        <4>2. W!OfRule(r) = {}
          BY <4>1 DEF W!WorkflowInv, W!FailuresAreAlone
        <4>3. QED
          BY <1>9, <4>2 DEF W!AtMostOne, W!OfRule
      <3>3. CASE new \notin W!OfRule(r)'
        <4>1. W!OfRule(r)' \subseteq W!OfRule(r)
          BY <1>9, <3>3 DEF W!OfRule
        <4>2. QED
          BY <3>1, <4>1 DEF W!AtMostOne
      <3>4. QED
        BY <3>2, <3>3
    <2>2. QED
      BY <2>1 DEF W!OneIncidentPerRule, W!AtMostOne
  <1>15. QED
    BY <1>5, <1>10, <1>11, <1>12, <1>13, <1>14

LEMMA HandlerEnds ==
  ASSUME W!Proper, W!WorkflowInv, NEW d \in Handlers, W!Done(d), UNCHANGED <<feed, wanted, raced>>,
         handler[d].phase # "idle", NEW new,
         \A i \in W!Ids \ {new} : incident'[i].rule = incident[i].rule,
         new \in W!Ids => /\ handler[d].phase = "create" /\ incident[new].rule \notin W!Rules
                          /\ incident'[new].rule = handler[d].rule,
         \A i \in W!Ids : incident'[i].rule \notin W!About(handler[d].report) => incident'[i] = incident[i],
         handler[d].clean =>
            \A r \in W!About(handler[d].report) :
               W!Status(handler[d].report) \in W!Rules \/ W!AtMostOne(W!OfRule(r)) => W!Follows(r)'
  PROVE  /\ handler' \in [Handlers -> W!HandlerRows] /\ excused' \subseteq W!Rules
         /\ W!HandlersAreProper' /\ W!CleanIsInOrder' /\ W!QuietRulesFollow'
         /\ W!FailuresAreAlone' /\ W!OneIncidentPerRule'
  <1>1. PICK m : m = handler[d].report
    OBVIOUS
  <1>2. PICK settled : settled = {r \in W!About(m) : W!Status(m) \in W!Rules \/ W!AtMostOne(W!OfRule(r))}
    OBVIOUS
  <1>3. excused' = IF handler[d].clean THEN (excused \ settled) \cup (W!About(m) \ settled)
                   ELSE excused \cup W!About(m)
    BY <1>1, <1>2 DEF W!Done
  <1>4. excused \subseteq W!Rules /\ W!About(m) \subseteq W!Rules
    BY ReportIsAbout DEF W!WorkflowInv, W!TypeOK
  <1>5. excused' \subseteq W!Rules
    BY <1>3, <1>4
  <1>6. ASSUME NEW r \in W!Rules \ excused'
        PROVE  IF r \in W!About(handler[d].report) THEN W!Follows(r)' ELSE r \notin excused
    <2>1. CASE r \in W!About(m)
      <3>1. handler[d].clean /\ r \in settled
        BY <1>3, <2>1
      <3>2. QED
        BY <1>1, <1>2, <2>1, <3>1
    <2>2. CASE r \notin W!About(m)
      BY <1>1, <1>2, <1>3, <2>2
    <2>3. QED
      BY <2>1, <2>2
  <1>7. W!Continue(d, W!Idle)
    BY DEF W!Done
  <1>8. QED
    BY <1>5, <1>6, <1>7, HandlerLeaves

(* Something happens beside the handlers at work: a report comes in (d), or   *)
(* an operator acts (None).                                                   *)
LEMMA HandlersDisturbed ==
  ASSUME W!Proper, W!WorkflowInv, NEW d \in Handlers \cup {None}, NEW me \in W!HandlerRows,
         W!Disturb(d, me), UNCHANGED feed,
         d \in Handlers => handler[d].phase = "idle", d = None => me.phase = "idle",
         W!IsProper(me)', me.phase \in {"idle", "find", "active"},
         me.phase = "idle" => ~me.clean,
         me.clean => /\ W!Others(d) = {}
                     /\ \A r \in W!About(me.report) :
                          wanted'[r] = IF W!Status(me.report) = "succeeded" THEN "resolved" ELSE "active",
         me.phase = "active" => me.rule = "failed",
         me.phase = "find" => \A x \in W!Others(d) : handler[x].rule = me.rule => me.rule \in raced',
         raced \subseteq raced', \A i \in W!Ids : incident'[i].rule = incident[i].rule,
         \A r \in W!Rules \ excused' : me.phase = "idle" \/ r \notin W!About(me.report) =>
            r \notin excused /\ wanted'[r] = wanted[r] /\ \A i \in W!OfRule(r) : incident'[i] = incident[i]
  PROVE  /\ handler' \in [Handlers -> W!HandlerRows]
         /\ W!HandlersAreProper' /\ W!CleanIsInOrder' /\ W!QuietRulesFollow'
         /\ W!FailuresAreAlone' /\ W!OneIncidentPerRule'
  <1>1. handler \in [Handlers -> W!HandlerRows] /\ None \notin Handlers
    BY DEF W!WorkflowInv, W!TypeOK, W!Proper
  <1>2. \A x \in Handlers : W!IsProper(handler[x])
    BY DEF W!WorkflowInv, W!HandlersAreProper
  <1>3. ASSUME NEW x \in Handlers, x # d
        PROVE  /\ handler'[x] \in W!HandlerRows /\ handler'[x].clean = FALSE
               /\ handler'[x].phase = handler[x].phase /\ handler'[x].report = handler[x].report
               /\ handler'[x].rule = handler[x].rule /\ handler'[x].inc = handler[x].inc
               /\ (handler'[x].phase = "idle") <=> (handler'[x] = W!Idle)
    <2>1. handler'[x] = IF handler[x].phase = "idle" THEN W!Idle ELSE [handler[x] EXCEPT !.clean = FALSE]
      BY <1>3 DEF W!Disturb
    <2>2. CASE handler[x].phase = "idle"
      BY <1>2, <2>1, <2>2, IdleIsProper DEF W!IsProper
    <2>3. CASE handler[x].phase # "idle"
      <3>1. handler[x] \in W!HandlerRows
        BY <1>1
      <3>2. handler'[x] = [handler[x] EXCEPT !.clean = FALSE]
        BY <2>1, <2>3
      <3>3. /\ handler'[x] \in W!HandlerRows /\ handler'[x].clean = FALSE
            /\ handler'[x].phase = handler[x].phase /\ handler'[x].report = handler[x].report
            /\ handler'[x].rule = handler[x].rule /\ handler'[x].inc = handler[x].inc
        BY <3>1, <3>2 DEF W!HandlerRows
      <3>4. QED
        BY <2>3, <3>3, IdleIsProper
    <2>4. QED
      BY <2>2, <2>3
  <1>4. d \in Handlers => handler'[d] = me
    BY <1>1 DEF W!Disturb
  <1>5. handler' \in [Handlers -> W!HandlerRows]
    <2>1. \A x \in Handlers : handler'[x] \in W!HandlerRows
      BY <1>3, <1>4
    <2>2. QED
      BY <2>1 DEF W!Disturb
  <1>6. \A r : W!OfRule(r)' = W!OfRule(r)
    BY DEF W!OfRule
  <1>7. W!HandlersAreProper'
    <2>1. ASSUME NEW x \in Handlers, x # d PROVE W!IsProper(handler[x])'
      <3>1. PICK h : h = handler'[x]
        OBVIOUS
      <3>2. /\ (h.phase = "idle") <=> (h = W!Idle)
            /\ h.phase = handler[x].phase /\ h.report = handler[x].report
            /\ h.rule = handler[x].rule /\ h.inc = handler[x].inc
        BY <1>3, <2>1, <3>1
      <3>3. W!IsProper(h)'
        BY <1>2, <3>2 DEF W!IsProper
      <3>4. QED
        BY <3>1, <3>3 DEF W!IsProper
    <2>2. QED
      BY <1>4, <2>1 DEF W!HandlersAreProper
  <1>8. W!CleanIsInOrder'
    <2>1. ASSUME NEW x \in Handlers, x # d PROVE W!IsClean(x, handler[x])'
      BY <1>3, <2>1 DEF W!IsClean
    <2>2. ASSUME d \in Handlers PROVE W!IsClean(d, me)'
      <3>1. ASSUME me.clean PROVE \A x \in Handlers \ {d} : handler'[x].phase = "idle"
        <4>1. W!Others(d) = {}
          BY <3>1
        <4>2. \A x \in Handlers \ {d} : handler[x].phase = "idle"
          BY <4>1 DEF W!Others
        <4>3. QED
          BY <1>3, <4>2
      <3>2. ~(me.phase \in W!Succeeding /\ me.rule = "timed_out")
        BY DEF W!Succeeding
      <3>3. QED
        BY <3>1, <3>2 DEF W!IsClean
    <2>3. QED
      BY <1>4, <2>1, <2>2 DEF W!CleanIsInOrder, W!IsClean
  <1>9. W!QuietRulesFollow'
    <2>1. ASSUME NEW r \in W!Rules, r \notin excused',
                 \A x \in Handlers : handler'[x].phase = "idle" \/ r \notin W!About(handler'[x].report)
          PROVE  W!Follows(r)'
      <3>1. me.phase = "idle" \/ r \notin W!About(me.report)
        BY <1>4, <2>1
      <3>2. \A x \in Handlers : handler[x].phase = "idle" \/ r \notin W!About(handler[x].report)
        BY <1>3, <2>1
      <3>3. CASE me.phase = "idle" \/ r \notin W!About(me.report)
        <4>1. r \notin excused /\ wanted'[r] = wanted[r] /\ \A i \in W!OfRule(r) : incident'[i] = incident[i]
          BY <2>1, <3>3
        <4>2. W!Follows(r)
          BY <3>2, <4>1 DEF W!WorkflowInv, W!QuietRulesFollow
        <4>3. W!AnyActive(r)' <=> W!AnyActive(r)
          BY <1>6, <4>1 DEF W!AnyActive, W!Active
        <4>4. QED
          BY <4>1, <4>2, <4>3 DEF W!Follows
      <3>4. QED
        BY <3>1, <3>3
    <2>2. QED
      BY <2>1 DEF W!QuietRulesFollow
  <1>10. W!FailuresAreAlone'
    <2>1. ASSUME NEW r \in W!Rules \ raced' PROVE W!AtMostOne(W!FailuresAt(r)')
      <3>1. W!AtMostOne(W!FailuresAt(r))
        BY DEF W!WorkflowInv, W!FailuresAreAlone
      <3>2. \A x \in Handlers \ {d} : x \in W!FailuresAt(r)' <=> x \in W!FailuresAt(r)
        BY <1>3 DEF W!FailuresAt
      <3>3. CASE d \in W!FailuresAt(r)'
        <4>1. d \in Handlers /\ me.phase = "find" /\ me.rule = r
          BY <1>4, <3>3 DEF W!FailuresAt, W!Failing
        <4>2. ASSUME NEW x \in W!FailuresAt(r), x # d PROVE FALSE
          <5>1. x \in W!Others(d) /\ handler[x].rule = r
            BY <4>2 DEF W!FailuresAt, W!Failing, W!Others
          <5>2. QED
            BY <4>1, <5>1
        <4>3. QED
          BY <3>2, <4>2 DEF W!AtMostOne, W!FailuresAt
      <3>4. CASE d \notin W!FailuresAt(r)'
        <4>1. W!FailuresAt(r)' \subseteq W!FailuresAt(r)
          BY <3>2, <3>4 DEF W!FailuresAt
        <4>2. QED
          BY <3>1, <4>1 DEF W!AtMostOne
      <3>5. QED
        BY <3>3, <3>4
    <2>2. ASSUME NEW x \in Handlers, NEW r, handler'[x].phase = "create", handler'[x].rule = r, r \notin raced'
          PROVE  W!OfRule(r)' = {}
      <3>1. x # d
        BY <1>4, <2>2
      <3>2. handler[x].phase = "create" /\ handler[x].rule = r /\ r \notin raced
        BY <1>3, <2>2, <3>1
      <3>3. QED
        BY <1>6, <3>2 DEF W!WorkflowInv, W!FailuresAreAlone
    <2>3. \A x \in Handlers : handler'[x].phase = "create" /\ handler'[x].rule \notin raced' =>
             W!OfRule(handler[x].rule)' = {}
      BY <2>2
    <2>4. QED
      BY <2>1, <2>3 DEF W!FailuresAreAlone, W!AtMostOne
  <1>11. W!OneIncidentPerRule'
    BY <1>6 DEF W!WorkflowInv, W!OneIncidentPerRule, W!AtMostOne
  <1>12. QED
    BY <1>5, <1>7, <1>8, <1>9, <1>10, <1>11

(* One incident is written or created, as a whole and with what its mark      *)
(* needs, or none is.                                                         *)
LEMMA RowIsWritten ==
  ASSUME W!Proper, W!WorkflowInv, NEW i \in W!Ids, NEW tuple \in W!IncidentRows,
         incident' = [incident EXCEPT ![i] = tuple],
         tuple.rule \in W!Rules, tuple.status # "none", tuple.due = tuple.started + Sla,
         UNCHANGED <<marking, overdue>>, carried \subseteq carried', carried' \subseteq W!Ids,
         tuple.breached \/ i \in marking => <<i, tuple.started>> \in overdue \/ i \in carried'
  PROVE  /\ incident' \in [W!Ids -> W!IncidentRows] /\ W!RowsAreWhole'
         /\ W!MarksAreDeserved' /\ W!BreachesAreDeserved'
  <1>1. incident \in [W!Ids -> W!IncidentRows]
    BY DEF W!WorkflowInv, W!TypeOK
  <1>2. /\ incident' \in [W!Ids -> W!IncidentRows] /\ incident'[i] = tuple
        /\ \A j \in W!Ids \ {i} : incident'[j] = incident[j]
    BY <1>1
  <1>3. tuple # W!NoRow
    BY NoRowIsRow
  <1>4. W!RowsAreWhole'
    BY <1>2 DEF W!WorkflowInv, W!RowsAreWhole
  <1>5. ASSUME NEW j \in W!Ids, j # i, W!Deserved(j) PROVE W!Deserved(j)'
    BY <1>2, <1>5 DEF W!Deserved
  <1>6. tuple.breached \/ i \in marking => W!Deserved(i)'
    BY <1>2 DEF W!Deserved
  <1>7. marking \subseteq W!Ids
    BY DEF W!WorkflowInv, W!TypeOK
  <1>8. W!MarksAreDeserved'
    <2>1. ASSUME NEW j \in marking PROVE incident'[j] # W!NoRow /\ W!Deserved(j)'
      <3>1. CASE j = i
        BY <1>2, <1>3, <1>6, <3>1
      <3>2. CASE j # i
        BY <1>2, <1>5, <1>7, <3>2 DEF W!WorkflowInv, W!MarksAreDeserved
      <3>3. QED
        BY <3>1, <3>2
    <2>2. QED
      BY <2>1 DEF W!MarksAreDeserved
  <1>9. W!BreachesAreDeserved'
    <2>1. ASSUME NEW j \in W!Ids, incident'[j].breached PROVE W!Deserved(j)'
      <3>1. CASE j = i
        BY <1>2, <1>6, <2>1, <3>1
      <3>2. CASE j # i
        BY <1>2, <1>5, <2>1, <3>2 DEF W!WorkflowInv, W!BreachesAreDeserved
      <3>3. QED
        BY <3>1, <3>2
    <2>2. QED
      BY <2>1 DEF W!BreachesAreDeserved
  <1>10. QED
    BY <1>2, <1>4, <1>8, <1>9

LEMMA RowsStay ==
  ASSUME W!WorkflowInv, UNCHANGED <<incident, marking, overdue, carried>>
  PROVE  /\ incident' \in [W!Ids -> W!IncidentRows] /\ W!RowsAreWhole'
         /\ W!MarksAreDeserved' /\ W!BreachesAreDeserved'
         /\ \A i \in W!Ids : incident'[i] = incident[i] /\ incident'[i].rule = incident[i].rule
         /\ \A r : W!AnyActive(r)' <=> W!AnyActive(r)
  <1>1. \A i : W!Deserved(i)' <=> W!Deserved(i)
    BY DEF W!Deserved
  <1>2. QED
    BY <1>1 DEF W!WorkflowInv, W!TypeOK, W!RowsAreWhole, W!MarksAreDeserved, W!BreachesAreDeserved,
                W!AnyActive, W!OfRule, W!Active

(* What a handler has at hand. *)
LEMMA AtWork ==
  ASSUME W!Proper, W!WorkflowInv, NEW d \in Handlers, handler[d].phase # "idle"
  PROVE  /\ handler[d] \in W!HandlerRows /\ handler[d].report \in feed
         /\ handler[d].rule \in W!About(handler[d].report) /\ handler[d].rule \in W!Rules
         /\ handler[d].phase \in W!Failing =>
               /\ W!Status(handler[d].report) = handler[d].rule
               /\ W!About(handler[d].report) = {handler[d].rule}
         /\ handler[d].phase \in W!Succeeding =>
               W!Status(handler[d].report) = "succeeded" /\ W!About(handler[d].report) = W!Rules
         /\ handler[d].phase \in {"update", "check", "resolve"} =>
               handler[d].inc \in W!Ids /\ incident[handler[d].inc].rule = handler[d].rule
  <1>1. W!IsProper(handler[d]) /\ handler[d] \in W!HandlerRows
    BY DEF W!WorkflowInv, W!HandlersAreProper, W!TypeOK
  <1>2. QED
    BY <1>1, ReportIsAbout DEF W!IsProper

(* A success goes on to its next rule, or ends.                               *)
LEMMA NextRuleStep ==
  ASSUME W!Proper, W!WorkflowInv, NEW d \in Handlers, handler[d].phase \in W!Succeeding,
         NEW rule, handler[d].rule = rule, W!NextRule(d), UNCHANGED <<feed, wanted, raced>>,
         \A i \in W!Ids : incident'[i].rule = incident[i].rule,
         \A i \in W!Ids : incident[i].rule # rule => incident'[i] = incident[i],
         W!AtMostOne(W!OfRule(rule)) => ~W!AnyActive(rule)'
  PROVE  /\ handler' \in [Handlers -> W!HandlerRows] /\ excused' \subseteq W!Rules
         /\ W!HandlersAreProper' /\ W!CleanIsInOrder' /\ W!QuietRulesFollow'
         /\ W!FailuresAreAlone' /\ W!OneIncidentPerRule'
  <1>1. PICK h : h = handler[d]
    OBVIOUS
  <1>2. /\ h.phase # "idle" /\ h \in W!HandlerRows /\ h.report \in feed /\ h.rule \in W!Rules
        /\ W!Status(h.report) = "succeeded" /\ W!About(h.report) = W!Rules
    BY <1>1, AtWork DEF W!Succeeding
  <1>3. CASE h.rule = "failed"
    <2>1. PICK me : me = [h EXCEPT !.phase = "active", !.rule = "timed_out"]
      OBVIOUS
    <2>2. handler' = [handler EXCEPT ![d] = me] /\ excused' = excused
      BY <1>1, <1>3, <2>1 DEF W!NextRule, W!Continue
    <2>3. /\ me \in W!HandlerRows /\ me.phase = "active" /\ me.rule = "timed_out"
          /\ me.report = h.report /\ me.clean = h.clean
      BY <1>2, <2>1 DEF W!HandlerRows, W!Phases, W!Rules
    <2>4. W!IsProper(me)'
      BY <1>2, <2>3, IdleIsProper DEF W!IsProper, W!Failing, W!Rules
    <2>5. me.clean /\ me.phase \in W!Succeeding /\ me.rule = "timed_out" /\ W!AtMostOne(W!OfRule("failed"))
             => ~W!AnyActive("failed")'
      BY <1>1, <1>3
    <2>6. excused' \subseteq W!Rules
      BY <2>2 DEF W!WorkflowInv, W!TypeOK
    <2>7. \A i \in W!Ids : incident[i].rule \notin W!About(handler[d].report) => incident'[i] = incident[i]
      BY <1>1, <1>2
    <2>8. QED
      BY <1>1, <1>2, <2>2, <2>3, <2>4, <2>5, <2>6, <2>7, HandlerGoesOn DEF W!Failing
  <1>4. CASE h.rule # "failed"
    <2>1. h.rule = "timed_out" /\ W!Done(d)
      BY <1>1, <1>2, <1>4 DEF W!Rules, W!NextRule
    <2>2. PICK new : new = 0
      OBVIOUS
    <2>3. new \notin W!Ids
      BY <2>2 DEF W!Ids
    <2>4. ASSUME handler[d].clean, NEW r \in W!About(handler[d].report),
                 W!Status(handler[d].report) \in W!Rules \/ W!AtMostOne(W!OfRule(r))
          PROVE  W!Follows(r)'
      <3>1. W!IsClean(d, h) /\ h.clean
        BY <1>1, <2>4 DEF W!WorkflowInv, W!CleanIsInOrder
      <3>2. r \in W!Rules /\ W!AtMostOne(W!OfRule(r))
        BY <1>1, <1>2, <2>4, ReportIsAbout
      <3>3. wanted'[r] = "resolved"
        BY <1>2, <3>1, <3>2 DEF W!IsClean
      <3>4. ~W!AnyActive(r)'
        <4>1. CASE r = "timed_out"
          BY <1>1, <2>1, <3>2, <4>1
        <4>2. CASE r = "failed"
          <5>1. ~W!AnyActive("failed")
            BY <1>1, <2>1, <3>1, <3>2, <4>2 DEF W!IsClean
          <5>2. \A i \in W!Ids : incident'[i].rule = "failed" => incident'[i] = incident[i]
            BY <1>1, <2>1
          <5>3. QED
            BY <4>2, <5>1, <5>2 DEF W!AnyActive, W!OfRule, W!Active
        <4>3. QED
          BY <3>2, <4>1, <4>2 DEF W!Rules
      <3>5. QED
        BY <3>3, <3>4 DEF W!Follows
    <2>5. \A i \in W!Ids : incident'[i].rule \notin W!About(handler[d].report) => incident'[i] = incident[i]
      BY <1>1, <1>2
    <2>6. QED
      BY <1>1, <1>2, <2>1, <2>3, <2>4, <2>5, HandlerEnds
  <1>5. QED
    BY <1>3, <1>4

(* What the parts come to. *)
LEMMA WorkflowParts ==
  ASSUME now' \in 1 .. WorkflowNow, lastAt' \in Nat, feed' \in ReportFeeds, seen' \subseteq feed',
         incident' \in [W!Ids -> W!IncidentRows] /\ W!RowsAreWhole'
            /\ W!MarksAreDeserved' /\ W!BreachesAreDeserved',
         handler' \in [Handlers -> W!HandlerRows] /\ W!HandlersAreProper' /\ W!CleanIsInOrder'
            /\ W!QuietRulesFollow' /\ W!FailuresAreAlone' /\ W!OneIncidentPerRule',
         wanted' \in [W!Rules -> {"nothing", "active", "resolved"}],
         marking' \subseteq W!Ids, excused' \subseteq W!Rules, raced' \subseteq W!Rules, carried' \subseteq W!Ids
  PROVE  W!WorkflowInv'
  BY DEF W!WorkflowInv, W!TypeOK

LEMMA WorkflowTypes ==
  ASSUME W!WorkflowInv
  PROVE  /\ now \in 1 .. WorkflowNow /\ lastAt \in Nat /\ feed \in ReportFeeds /\ seen \subseteq feed
         /\ wanted \in [W!Rules -> {"nothing", "active", "resolved"}]
         /\ marking \subseteq W!Ids /\ excused \subseteq W!Rules /\ raced \subseteq W!Rules /\ carried \subseteq W!Ids
         /\ incident \in [W!Ids -> W!IncidentRows] /\ handler \in [Handlers -> W!HandlerRows]
  BY DEF W!WorkflowInv, W!TypeOK

LEMMA FindStep ==
  ASSUME W!Proper, W!WorkflowInv, NEW d \in Handlers, W!Find(d)
  PROVE  W!WorkflowInv'
  <1>1. /\ handler[d].phase = "find"
        /\ UNCHANGED <<now, feed, stored, seen, incident, marking, operations, lastAt, wanted, raced,
                       excused, overdue, carried>>
    BY DEF W!Find, W!ghosts
  <1>2. PICK h : h = handler[d]
    OBVIOUS
  <1>3. /\ h.phase = "find" /\ h \in W!HandlerRows /\ h.report \in feed
        /\ h.rule \in W!Rules /\ h.rule \in W!About(h.report) /\ W!Status(h.report) = h.rule
    BY <1>1, <1>2, AtWork DEF W!Failing
  <1>4. PICK me : /\ me \in W!HandlerRows /\ handler' = [handler EXCEPT ![d] = me]
                  /\ me.report = h.report /\ me.clean = h.clean /\ me.rule = h.rule
                  /\ \/ me.phase = "create" /\ W!OfRule(h.rule) = {}
                     \/ me.phase = "update" /\ me.inc \in W!OfRule(h.rule)
    <2>1. ASSUME NEW at \in Nat, W!OfRule(h.rule) = {},
                 W!Continue(d, [h EXCEPT !.phase = "create", !.began = at])
          PROVE  \E me \in W!HandlerRows :
                    /\ handler' = [handler EXCEPT ![d] = me]
                    /\ me.report = h.report /\ me.clean = h.clean /\ me.rule = h.rule
                    /\ me.phase = "create" /\ W!OfRule(h.rule) = {}
      <3>1. PICK me : me = [h EXCEPT !.phase = "create", !.began = at]
        OBVIOUS
      <3>2. /\ me \in W!HandlerRows /\ me.report = h.report /\ me.clean = h.clean /\ me.rule = h.rule
            /\ me.phase = "create"
        BY <1>3, <3>1 DEF W!HandlerRows, W!Phases
      <3>3. QED
        BY <2>1, <3>1, <3>2 DEF W!Continue
    <2>2. ASSUME NEW i \in W!Latest(W!OfRule(h.rule)), NEW at \in Nat,
                 W!Continue(d, [h EXCEPT !.phase = "update", !.inc = i,
                    !.began = IF incident[i].status = "resolved" THEN at ELSE incident[i].started])
          PROVE  \E me \in W!HandlerRows :
                    /\ handler' = [handler EXCEPT ![d] = me]
                    /\ me.report = h.report /\ me.clean = h.clean /\ me.rule = h.rule
                    /\ me.phase = "update" /\ me.inc \in W!OfRule(h.rule)
      <3>1. i \in W!OfRule(h.rule) /\ i \in W!Ids
        BY DEF W!Latest, W!OfRule
      <3>2. PICK began : began = IF incident[i].status = "resolved" THEN at ELSE incident[i].started
        OBVIOUS
      <3>3. began \in Nat
        BY <3>1, <3>2, WorkflowTypes DEF W!IncidentRows
      <3>4. PICK me : me = [h EXCEPT !.phase = "update", !.inc = i, !.began = began]
        OBVIOUS
      <3>5. /\ me \in W!HandlerRows /\ me.report = h.report /\ me.clean = h.clean /\ me.rule = h.rule
            /\ me.phase = "update" /\ me.inc = i
        BY <1>3, <3>1, <3>3, <3>4 DEF W!HandlerRows, W!Phases
      <3>6. QED
        BY <2>2, <3>1, <3>2, <3>4, <3>5 DEF W!Continue
    <2>3. h.began .. now \subseteq Nat
      BY <1>3, WorkflowTypes DEF W!HandlerRows
    <2>4. QED
      BY <1>2, <2>1, <2>2, <2>3 DEF W!Find
  <1>5. W!IsProper(me)'
    BY <1>1, <1>3, <1>4, IdleIsProper DEF W!IsProper, W!Failing, W!Succeeding, W!OfRule
  <1>6. W!Failing \cap W!Succeeding = {} /\ {"find", "create", "update"} \subseteq W!Failing
    BY DEF W!Failing, W!Succeeding
  <1>7. /\ incident' \in [W!Ids -> W!IncidentRows] /\ W!RowsAreWhole'
        /\ W!MarksAreDeserved' /\ W!BreachesAreDeserved'
        /\ \A i \in W!Ids : incident'[i] = incident[i] /\ incident'[i].rule = incident[i].rule
    BY <1>1, RowsStay
  <1>8. me.phase \notin W!Succeeding /\ me.phase # "idle"
    BY <1>4, <1>6 DEF W!Failing
  <1>9. /\ handler' \in [Handlers -> W!HandlerRows] /\ W!HandlersAreProper' /\ W!CleanIsInOrder'
        /\ W!QuietRulesFollow' /\ W!FailuresAreAlone' /\ W!OneIncidentPerRule'
    BY <1>1, <1>2, <1>3, <1>4, <1>5, <1>6, <1>7, <1>8, HandlerGoesOn
  <1>10. QED
    BY <1>1, <1>7, <1>9, WorkflowTypes, WorkflowParts

LEMMA CreateStep ==
  ASSUME W!Proper, W!WorkflowInv, NEW d \in Handlers, W!Create(d)
  PROVE  W!WorkflowInv'
  <1>1. /\ handler[d].phase = "create" /\ W!Done(d)
        /\ UNCHANGED <<now, feed, stored, seen, marking, operations, lastAt, wanted, raced, overdue, carried>>
    BY DEF W!Create, W!ghosts
  <1>2. PICK i \in W!Ids :
           /\ incident[i] = W!NoRow
           /\ incident' = [incident EXCEPT ![i] =
                [rule |-> handler[d].rule, status |-> "open", started |-> handler[d].began,
                 due |-> W!Due(handler[d].began), breached |-> FALSE]]
    BY DEF W!Create
  <1>3. PICK h : h = handler[d]
    OBVIOUS
  <1>4. /\ h.rule \in W!Rules /\ W!About(h.report) = {h.rule} /\ W!Status(h.report) = h.rule
        /\ h \in W!HandlerRows
    BY <1>1, <1>3, AtWork DEF W!Failing
  <1>5. PICK tuple : tuple = [rule |-> h.rule, status |-> "open", started |-> h.began,
                          due |-> W!Due(h.began), breached |-> FALSE]
    OBVIOUS
  <1>6. h.began \in Nat /\ W!Due(h.began) \in Nat /\ W!Due(h.began) = h.began + Sla
    BY <1>4 DEF W!HandlerRows, W!Due, W!Proper
  <1>7. /\ tuple \in W!IncidentRows /\ tuple.rule = h.rule /\ tuple.status = "open" /\ tuple.due = tuple.started + Sla
        /\ tuple.breached = FALSE
    BY <1>4, <1>5, <1>6 DEF W!IncidentRows, W!Statuses
  <1>8. incident' = [incident EXCEPT ![i] = tuple]
    BY <1>2, <1>3, <1>5
  <1>9. i \notin marking
    BY <1>2 DEF W!WorkflowInv, W!MarksAreDeserved
  <1>10. /\ incident' \in [W!Ids -> W!IncidentRows] /\ W!RowsAreWhole'
         /\ W!MarksAreDeserved' /\ W!BreachesAreDeserved'
    BY <1>1, <1>4, <1>7, <1>8, <1>9, RowIsWritten, WorkflowTypes
  <1>11. /\ incident'[i] = tuple /\ \A j \in W!Ids \ {i} : incident'[j] = incident[j]
    BY <1>8, WorkflowTypes
  <1>12. ASSUME NEW r \in W!About(handler[d].report) PROVE W!Follows(r)' \/ ~handler[d].clean
    <2>1. SUFFICES ASSUME handler[d].clean PROVE W!Follows(r)'
      OBVIOUS
    <2>2. r = h.rule
      BY <1>3, <1>4
    <2>3. wanted'[r] = "active"
      <3>1. W!IsClean(d, h) /\ h.clean
        BY <1>3, <2>1 DEF W!WorkflowInv, W!CleanIsInOrder
      <3>2. W!Status(h.report) # "succeeded"
        BY <1>4, ReportIsAbout
      <3>3. QED
        BY <1>1, <1>4, <2>2, <3>1, <3>2 DEF W!IsClean
    <2>4. W!AnyActive(r)'
      BY <1>7, <1>11, <2>2 DEF W!AnyActive, W!OfRule, W!Active
    <2>5. QED
      BY <2>3, <2>4 DEF W!Follows
  <1>13. /\ \A j \in W!Ids \ {i} : incident'[j].rule = incident[j].rule
         /\ incident[i].rule \notin W!Rules /\ incident'[i].rule = handler[d].rule
         /\ \A j \in W!Ids : incident'[j].rule \notin W!About(handler[d].report) => incident'[j] = incident[j]
    BY <1>2, <1>3, <1>4, <1>7, <1>11, NoRowIsRow
  <1>14. /\ handler' \in [Handlers -> W!HandlerRows] /\ excused' \subseteq W!Rules
         /\ W!HandlersAreProper' /\ W!CleanIsInOrder'
         /\ W!QuietRulesFollow' /\ W!FailuresAreAlone' /\ W!OneIncidentPerRule'
    BY <1>1, <1>12, <1>13, HandlerEnds
  <1>15. QED
    BY <1>1, <1>10, <1>14, WorkflowTypes, WorkflowParts

LEMMA UpdateStep ==
  ASSUME W!Proper, W!WorkflowInv, NEW d \in Handlers, W!Update(d)
  PROVE  W!WorkflowInv'
  <1>1. /\ handler[d].phase = "update" /\ W!Done(d)
        /\ UNCHANGED <<now, feed, stored, seen, marking, operations, lastAt, wanted, raced, overdue>>
    BY DEF W!Update, W!ghosts
  <1>2. PICK h : h = handler[d]
    OBVIOUS
  <1>3. /\ h \in W!HandlerRows /\ h.rule \in W!Rules /\ W!About(h.report) = {h.rule}
        /\ W!Status(h.report) = h.rule /\ h.inc \in W!Ids /\ incident[h.inc].rule = h.rule
    BY <1>1, <1>2, AtWork DEF W!Failing
  <1>4. PICK i : i = h.inc
    OBVIOUS
  <1>5. PICK started : started = h.began
    OBVIOUS
  <1>6. PICK tuple : tuple = [incident[i] EXCEPT !.status = "open", !.started = started, !.due = W!Due(started)]
    OBVIOUS
  <1>7. /\ incident' = [incident EXCEPT ![i] = tuple]
        /\ carried' = IF started # incident[i].started /\ (incident[i].breached \/ i \in marking)
                      THEN carried \cup {i} ELSE carried
    BY <1>2, <1>4, <1>5, <1>6 DEF W!Update
  <1>8. started \in Nat /\ W!Due(started) = started + Sla /\ W!Due(started) \in Nat
    BY <1>3, <1>5, WorkflowTypes DEF W!HandlerRows, W!Due, W!Proper
  <1>9. i \in W!Ids /\ incident[i] \in W!IncidentRows /\ incident[i].rule = h.rule
    BY <1>3, <1>4, WorkflowTypes
  <1>10. /\ tuple \in W!IncidentRows /\ tuple.rule = h.rule /\ tuple.status = "open" /\ tuple.started = started
         /\ tuple.due = tuple.started + Sla /\ tuple.breached = incident[i].breached
    BY <1>6, <1>8, <1>9 DEF W!IncidentRows, W!Statuses
  <1>11. carried \subseteq carried' /\ carried' \subseteq W!Ids
    BY <1>7, <1>9, WorkflowTypes
  <1>12. tuple.breached \/ i \in marking => <<i, tuple.started>> \in overdue \/ i \in carried'
    <2>1. SUFFICES ASSUME incident[i].breached \/ i \in marking, i \notin carried'
                   PROVE  <<i, started>> \in overdue
      BY <1>10
    <2>2. started = incident[i].started
      BY <1>7, <2>1
    <2>3. W!Deserved(i)
      BY <1>9, <2>1 DEF W!WorkflowInv, W!BreachesAreDeserved, W!MarksAreDeserved
    <2>4. QED
      BY <1>11, <2>1, <2>2, <2>3 DEF W!Deserved
  <1>13. tuple.rule \in W!Rules /\ tuple.status # "none"
    BY <1>3, <1>10
  <1>14. /\ incident' \in [W!Ids -> W!IncidentRows] /\ W!RowsAreWhole'
         /\ W!MarksAreDeserved' /\ W!BreachesAreDeserved'
    BY <1>1, <1>7, <1>9, <1>10, <1>11, <1>12, <1>13, RowIsWritten
  <1>15. /\ incident'[i] = tuple /\ \A j \in W!Ids \ {i} : incident'[j] = incident[j]
    BY <1>7, <1>9, WorkflowTypes
  <1>16. ASSUME NEW r \in W!About(handler[d].report) PROVE W!Follows(r)' \/ ~handler[d].clean
    <2>1. SUFFICES ASSUME handler[d].clean PROVE W!Follows(r)'
      OBVIOUS
    <2>2. r = h.rule
      BY <1>2, <1>3
    <2>3. wanted'[r] = "active"
      <3>1. W!IsClean(d, h) /\ h.clean
        BY <1>2, <2>1 DEF W!WorkflowInv, W!CleanIsInOrder
      <3>2. W!Status(h.report) # "succeeded"
        BY <1>3, ReportIsAbout
      <3>3. QED
        BY <1>1, <1>3, <2>2, <3>1, <3>2 DEF W!IsClean
    <2>4. W!AnyActive(r)'
      BY <1>9, <1>10, <1>15, <2>2 DEF W!AnyActive, W!OfRule, W!Active
    <2>5. QED
      BY <2>3, <2>4 DEF W!Follows
  <1>17. /\ \A j \in W!Ids : incident'[j].rule = incident[j].rule
         /\ \A j \in W!Ids : incident'[j].rule \notin W!About(handler[d].report) => incident'[j] = incident[j]
    BY <1>2, <1>3, <1>9, <1>10, <1>15
  <1>18. PICK new : new = 0
    OBVIOUS
  <1>19. new \notin W!Ids
    BY <1>18 DEF W!Ids
  <1>20. /\ handler' \in [Handlers -> W!HandlerRows] /\ excused' \subseteq W!Rules
         /\ W!HandlersAreProper' /\ W!CleanIsInOrder'
         /\ W!QuietRulesFollow' /\ W!FailuresAreAlone' /\ W!OneIncidentPerRule'
    BY <1>1, <1>16, <1>17, <1>19, HandlerEnds
  <1>21. QED
    BY <1>1, <1>11, <1>14, <1>20, WorkflowTypes, WorkflowParts

LEMMA FindActiveStep ==
  ASSUME W!Proper, W!WorkflowInv, NEW d \in Handlers, W!FindActive(d)
  PROVE  W!WorkflowInv'
  <1>1. /\ handler[d].phase = "active"
        /\ UNCHANGED <<now, feed, stored, seen, incident, marking, operations, lastAt, wanted, raced,
                       overdue, carried>>
    BY DEF W!FindActive, W!ghosts
  <1>2. PICK h : h = handler[d]
    OBVIOUS
  <1>3. /\ h.phase = "active" /\ h.phase \in W!Succeeding /\ h \in W!HandlerRows /\ h.report \in feed
        /\ h.rule \in W!Rules /\ h.rule \in W!About(h.report) /\ W!Status(h.report) = "succeeded"
    BY <1>1, <1>2, AtWork DEF W!Succeeding
  <1>4. /\ incident' \in [W!Ids -> W!IncidentRows] /\ W!RowsAreWhole'
        /\ W!MarksAreDeserved' /\ W!BreachesAreDeserved'
        /\ \A i \in W!Ids : incident'[i] = incident[i] /\ incident'[i].rule = incident[i].rule
        /\ \A r : W!AnyActive(r)' <=> W!AnyActive(r)
    BY <1>1, RowsStay
  <1>5. PICK active : active = {i \in W!OfRule(h.rule) : W!Active(i)}
    OBVIOUS
  <1>6. CASE active = {} /\ W!NextRule(d)
    <2>1. ~W!AnyActive(h.rule)
      BY <1>5, <1>6 DEF W!AnyActive
    <2>2. PICK rule : rule = h.rule
      OBVIOUS
    <2>3. ~W!AnyActive(rule)'
      BY <1>4, <2>1, <2>2
    <2>4. /\ handler' \in [Handlers -> W!HandlerRows] /\ excused' \subseteq W!Rules
          /\ W!HandlersAreProper' /\ W!CleanIsInOrder'
          /\ W!QuietRulesFollow' /\ W!FailuresAreAlone' /\ W!OneIncidentPerRule'
      BY <1>1, <1>2, <1>3, <1>4, <1>6, <2>2, <2>3, NextRuleStep
    <2>5. QED
      BY <1>1, <1>4, <2>4, WorkflowTypes, WorkflowParts
  <1>7. ASSUME NEW i \in W!Latest(active), W!Continue(d, [h EXCEPT !.phase = "check", !.inc = i]),
               UNCHANGED excused
        PROVE  W!WorkflowInv'
    <2>1. i \in W!OfRule(h.rule) /\ i \in W!Ids /\ incident[i].rule = h.rule
      BY <1>5 DEF W!Latest, W!OfRule
    <2>2. PICK me : me = [h EXCEPT !.phase = "check", !.inc = i]
      OBVIOUS
    <2>3. /\ me \in W!HandlerRows /\ me.report = h.report /\ me.clean = h.clean /\ me.rule = h.rule
          /\ me.phase = "check" /\ me.inc = i /\ handler' = [handler EXCEPT ![d] = me]
      BY <1>3, <1>7, <2>1, <2>2 DEF W!HandlerRows, W!Phases, W!Continue
    <2>4. W!IsProper(me)'
      BY <1>1, <1>3, <1>4, <2>1, <2>3, IdleIsProper DEF W!IsProper, W!Failing
    <2>5. me.phase \notin W!Failing
      BY <2>3 DEF W!Failing
    <2>6. me.clean /\ me.phase \in W!Succeeding /\ me.rule = "timed_out" /\ W!AtMostOne(W!OfRule("failed"))
             => ~W!AnyActive("failed")'
      <3>1. W!IsClean(d, h)
        BY <1>2 DEF W!WorkflowInv, W!CleanIsInOrder
      <3>2. QED
        BY <1>3, <1>4, <2>3, <3>1 DEF W!IsClean
    <2>7. /\ handler' \in [Handlers -> W!HandlerRows]
          /\ W!HandlersAreProper' /\ W!CleanIsInOrder'
          /\ W!QuietRulesFollow' /\ W!FailuresAreAlone' /\ W!OneIncidentPerRule'
      BY <1>1, <1>2, <1>3, <1>4, <1>7, <2>3, <2>4, <2>5, <2>6, HandlerGoesOn
    <2>8. QED
      BY <1>1, <1>4, <1>7, <2>7, WorkflowTypes, WorkflowParts
  <1>8. QED
    BY <1>2, <1>5, <1>6, <1>7 DEF W!FindActive

LEMMA CheckStep ==
  ASSUME W!Proper, W!WorkflowInv, NEW d \in Handlers, W!Check(d)
  PROVE  W!WorkflowInv'
  <1>1. /\ handler[d].phase = "check"
        /\ UNCHANGED <<now, feed, stored, seen, incident, marking, operations, lastAt, wanted, raced,
                       overdue, carried>>
    BY DEF W!Check, W!ghosts
  <1>2. PICK h : h = handler[d]
    OBVIOUS
  <1>3. /\ h.phase = "check" /\ h.phase \in W!Succeeding /\ h \in W!HandlerRows /\ h.report \in feed
        /\ h.rule \in W!Rules /\ h.rule \in W!About(h.report) /\ W!Status(h.report) = "succeeded"
        /\ h.inc \in W!Ids /\ incident[h.inc].rule = h.rule
    BY <1>1, <1>2, AtWork DEF W!Succeeding
  <1>4. /\ incident' \in [W!Ids -> W!IncidentRows] /\ W!RowsAreWhole'
        /\ W!MarksAreDeserved' /\ W!BreachesAreDeserved'
        /\ \A i \in W!Ids : incident'[i] = incident[i] /\ incident'[i].rule = incident[i].rule
        /\ \A r : W!AnyActive(r)' <=> W!AnyActive(r)
    BY <1>1, RowsStay
  <1>5. CASE ~W!Active(h.inc)
    <2>1. W!NextRule(d)
      BY <1>2, <1>5 DEF W!Check
    <2>2. W!AtMostOne(W!OfRule(h.rule)) => ~W!AnyActive(h.rule)
      BY <1>3, <1>5 DEF W!AnyActive, W!AtMostOne, W!OfRule
    <2>3. PICK rule : rule = h.rule
      OBVIOUS
    <2>4. W!AtMostOne(W!OfRule(rule)) => ~W!AnyActive(rule)'
      BY <1>4, <2>2, <2>3
    <2>5. /\ handler' \in [Handlers -> W!HandlerRows] /\ excused' \subseteq W!Rules
          /\ W!HandlersAreProper' /\ W!CleanIsInOrder'
          /\ W!QuietRulesFollow' /\ W!FailuresAreAlone' /\ W!OneIncidentPerRule'
      BY <1>1, <1>2, <1>3, <1>4, <2>1, <2>3, <2>4, NextRuleStep
    <2>6. QED
      BY <1>1, <1>4, <2>5, WorkflowTypes, WorkflowParts
  <1>6. CASE W!Active(h.inc)
    <2>1. W!Continue(d, [h EXCEPT !.phase = "resolve"]) /\ UNCHANGED excused
      BY <1>2, <1>6 DEF W!Check
    <2>2. PICK me : me = [h EXCEPT !.phase = "resolve"]
      OBVIOUS
    <2>3. /\ me \in W!HandlerRows /\ me.report = h.report /\ me.clean = h.clean /\ me.rule = h.rule
          /\ me.phase = "resolve" /\ me.inc = h.inc /\ handler' = [handler EXCEPT ![d] = me]
      BY <1>3, <2>1, <2>2 DEF W!HandlerRows, W!Phases, W!Continue
    <2>4. W!IsProper(me)'
      BY <1>1, <1>3, <1>4, <2>3, IdleIsProper DEF W!IsProper, W!Failing
    <2>5. me.phase \notin W!Failing
      BY <2>3 DEF W!Failing
    <2>6. me.clean /\ me.phase \in W!Succeeding /\ me.rule = "timed_out" /\ W!AtMostOne(W!OfRule("failed"))
             => ~W!AnyActive("failed")'
      <3>1. W!IsClean(d, h)
        BY <1>2 DEF W!WorkflowInv, W!CleanIsInOrder
      <3>2. QED
        BY <1>3, <1>4, <2>3, <3>1 DEF W!IsClean
    <2>7. /\ handler' \in [Handlers -> W!HandlerRows]
          /\ W!HandlersAreProper' /\ W!CleanIsInOrder'
          /\ W!QuietRulesFollow' /\ W!FailuresAreAlone' /\ W!OneIncidentPerRule'
      BY <1>1, <1>2, <1>3, <1>4, <2>1, <2>3, <2>4, <2>5, <2>6, HandlerGoesOn
    <2>8. QED
      BY <1>1, <1>4, <2>1, <2>7, WorkflowTypes, WorkflowParts
  <1>7. QED
    BY <1>5, <1>6

(* An incident is given another status, and keeps the rest. *)
LEMMA StatusIsWritten ==
  ASSUME W!Proper, W!WorkflowInv, NEW i \in W!Ids, incident[i] # W!NoRow,
         NEW status \in {"open", "acked", "resolved"},
         incident' = [incident EXCEPT ![i].status = status], UNCHANGED <<marking, overdue, carried>>
  PROVE  /\ incident' \in [W!Ids -> W!IncidentRows] /\ W!RowsAreWhole'
         /\ W!MarksAreDeserved' /\ W!BreachesAreDeserved'
         /\ incident'[i].status = status
         /\ \A j \in W!Ids : incident'[j].rule = incident[j].rule
         /\ \A j \in W!Ids \ {i} : incident'[j] = incident[j]
  <1>1. PICK tuple : tuple = [incident[i] EXCEPT !.status = status]
    OBVIOUS
  <1>2. incident[i] \in W!IncidentRows /\ incident \in [W!Ids -> W!IncidentRows]
    BY WorkflowTypes
  <1>3. /\ tuple \in W!IncidentRows /\ tuple.rule = incident[i].rule /\ tuple.status = status
        /\ tuple.started = incident[i].started /\ tuple.due = incident[i].due
        /\ tuple.breached = incident[i].breached
    BY <1>1, <1>2 DEF W!IncidentRows, W!Statuses
  <1>4. incident' = [incident EXCEPT ![i] = tuple]
    BY <1>1, <1>2
  <1>5. tuple.rule \in W!Rules /\ tuple.status # "none" /\ tuple.due = tuple.started + Sla
    BY <1>3 DEF W!WorkflowInv, W!RowsAreWhole
  <1>6. tuple.breached \/ i \in marking => <<i, tuple.started>> \in overdue \/ i \in carried'
    BY <1>3 DEF W!WorkflowInv, W!MarksAreDeserved, W!BreachesAreDeserved, W!Deserved
  <1>7. carried \subseteq carried' /\ carried' \subseteq W!Ids
    BY WorkflowTypes
  <1>8. QED
    BY <1>2, <1>3, <1>4, <1>5, <1>6, <1>7, RowIsWritten

LEMMA ResolveStep ==
  ASSUME W!Proper, W!WorkflowInv, NEW d \in Handlers, W!Resolve(d)
  PROVE  W!WorkflowInv'
  <1>1. /\ handler[d].phase = "resolve" /\ W!NextRule(d)
        /\ incident' = [incident EXCEPT ![handler[d].inc].status = "resolved"]
        /\ UNCHANGED <<now, feed, stored, seen, marking, operations, lastAt, wanted, raced, overdue, carried>>
    BY DEF W!Resolve, W!ghosts
  <1>2. PICK i, rule : i = handler[d].inc /\ rule = handler[d].rule
    OBVIOUS
  <1>3. /\ handler[d].phase \in W!Succeeding /\ rule \in W!Rules /\ i \in W!Ids /\ incident[i].rule = rule
    BY <1>1, <1>2, AtWork DEF W!Succeeding
  <1>4. incident[i] # W!NoRow
    BY <1>3, NoRowIsRow
  <1>5. incident' = [incident EXCEPT ![i].status = "resolved"]
    BY <1>1, <1>2
  <1>6. /\ incident' \in [W!Ids -> W!IncidentRows] /\ W!RowsAreWhole'
        /\ W!MarksAreDeserved' /\ W!BreachesAreDeserved'
        /\ incident'[i].status = "resolved"
        /\ \A j \in W!Ids : incident'[j].rule = incident[j].rule
        /\ \A j \in W!Ids \ {i} : incident'[j] = incident[j]
    BY <1>1, <1>3, <1>4, <1>5, StatusIsWritten
  <1>7. W!AtMostOne(W!OfRule(rule)) => ~W!AnyActive(rule)'
    BY <1>3, <1>6 DEF W!AtMostOne, W!OfRule, W!AnyActive, W!Active
  <1>8. \A j \in W!Ids : incident[j].rule # rule => incident'[j] = incident[j]
    BY <1>3, <1>6
  <1>9. /\ handler' \in [Handlers -> W!HandlerRows] /\ excused' \subseteq W!Rules
        /\ W!HandlersAreProper' /\ W!CleanIsInOrder'
        /\ W!QuietRulesFollow' /\ W!FailuresAreAlone' /\ W!OneIncidentPerRule'
    BY <1>1, <1>2, <1>3, <1>6, <1>7, <1>8, NextRuleStep
  <1>10. QED
    BY <1>1, <1>6, <1>9, WorkflowTypes, WorkflowParts

LEMMA CrashStep ==
  ASSUME W!Proper, W!WorkflowInv, NEW d \in Handlers, W!Crash(d)
  PROVE  W!WorkflowInv'
  <1>1. /\ handler[d].phase # "idle" /\ W!Continue(d, W!Idle)
        /\ excused' = excused \cup W!About(handler[d].report)
        /\ UNCHANGED <<now, feed, stored, seen, incident, marking, operations, lastAt, wanted, raced,
                       overdue, carried>>
    BY DEF W!Crash, W!ghosts
  <1>2. /\ incident' \in [W!Ids -> W!IncidentRows] /\ W!RowsAreWhole'
        /\ W!MarksAreDeserved' /\ W!BreachesAreDeserved'
        /\ \A i \in W!Ids : incident'[i] = incident[i] /\ incident'[i].rule = incident[i].rule
    BY <1>1, RowsStay
  <1>3. PICK new : new = 0
    OBVIOUS
  <1>4. new \notin W!Ids
    BY <1>3 DEF W!Ids
  <1>5. excused' \subseteq W!Rules
    BY <1>1, ReportIsAbout, WorkflowTypes
  <1>6. /\ handler' \in [Handlers -> W!HandlerRows]
        /\ W!HandlersAreProper' /\ W!CleanIsInOrder'
        /\ W!QuietRulesFollow' /\ W!FailuresAreAlone' /\ W!OneIncidentPerRule'
    BY <1>1, <1>2, <1>4, HandlerLeaves
  <1>7. QED
    BY <1>1, <1>2, <1>5, <1>6, WorkflowTypes, WorkflowParts

(* What is asked of the rules once a report has come in. *)
LEMMA Reported ==
  ASSUME W!Proper, W!WorkflowInv, NEW m \in feed, W!Report(m)
  PROVE  /\ lastAt' \in Nat /\ wanted' \in [W!Rules -> {"nothing", "active", "resolved"}]
         /\ \A r \in W!Rules \ W!About(m) : wanted'[r] = wanted[r]
         /\ W!At(m) >= lastAt => \A r \in W!About(m) :
               wanted'[r] = IF W!Status(m) = "succeeded" THEN "resolved" ELSE "active"
  <1>1. wanted \in [W!Rules -> {"nothing", "active", "resolved"}] /\ lastAt \in Nat
    BY WorkflowTypes
  <1>2. W!About(m) \subseteq W!Rules
    BY ReportIsAbout
  <1>3. CASE W!At(m) >= lastAt
    <2>1. /\ lastAt' = W!At(m)
          /\ wanted' = [r \in W!Rules |-> IF r \notin W!About(m) THEN wanted[r]
                                          ELSE IF W!Status(m) = "succeeded" THEN "resolved" ELSE "active"]
      BY <1>3 DEF W!Report
    <2>2. m.at \in Nat \cup {None} /\ now \in Nat
      BY WorkflowTypes DEF W!Proper
    <2>3. lastAt' \in Nat
      BY <2>1, <2>2 DEF W!At
    <2>4. QED
      BY <1>1, <1>2, <2>1, <2>3
  <1>4. CASE ~(W!At(m) >= lastAt)
    BY <1>1, <1>4 DEF W!Report
  <1>5. QED
    BY <1>3, <1>4

LEMMA ReceiveStep ==
  ASSUME W!Proper, W!WorkflowInv, NEW d \in Handlers, W!Receive(d)
  PROVE  W!WorkflowInv'
  <1>1. /\ handler[d].phase = "idle"
        /\ UNCHANGED <<now, feed, incident, marking, operations, excused, overdue, carried>>
    BY DEF W!Receive
  <1>2. PICK m \in feed :
           /\ W!About(m) # {} /\ seen' = seen \cup {m} /\ W!Report(m)
           /\ W!Disturb(d, [W!Idle EXCEPT
                !.phase = IF W!Status(m) = "succeeded" THEN "active" ELSE "find",
                !.report = m,
                !.rule = IF W!Status(m) = "succeeded" THEN "failed" ELSE W!Status(m),
                !.began = now, !.clean = W!At(m) >= lastAt /\ W!Others(d) = {}])
           /\ raced' = raced \cup ({handler[x].rule : x \in W!Others(d)} \cap {W!Status(m)} \cap W!Rules)
    BY DEF W!Receive
  <1>3. PICK clean \in BOOLEAN : clean <=> W!At(m) >= lastAt /\ W!Others(d) = {}
    <2>1. (W!At(m) >= lastAt /\ W!Others(d) = {}) \in BOOLEAN
      OBVIOUS
    <2>2. QED
      BY <2>1, Zenon
  <1>4. clean = (W!At(m) >= lastAt /\ W!Others(d) = {})
    BY <1>3
  <1>5. PICK me : me = [W!Idle EXCEPT
                !.phase = IF W!Status(m) = "succeeded" THEN "active" ELSE "find",
                !.report = m,
                !.rule = IF W!Status(m) = "succeeded" THEN "failed" ELSE W!Status(m),
                !.began = now, !.clean = clean]
    OBVIOUS
  <1>6. W!Disturb(d, me)
    BY <1>2, <1>4, <1>5, Zenon
  <1>7. m \in UNION ReportFeeds /\ now \in Nat
    BY WorkflowTypes
  <1>8. IF W!Status(m) = "succeeded" THEN W!About(m) = W!Rules
        ELSE W!Status(m) \in W!Rules /\ W!About(m) = {W!Status(m)}
    BY <1>2, ReportIsAbout
  <1>9. /\ me \in W!HandlerRows /\ me.report = m /\ me.clean = clean
        /\ me.phase = IF W!Status(m) = "succeeded" THEN "active" ELSE "find"
        /\ me.rule = IF W!Status(m) = "succeeded" THEN "failed" ELSE W!Status(m)
    BY <1>5, <1>7, <1>8 DEF W!Idle, W!HandlerRows, W!Phases, W!Rules, W!NoIncident, W!Statuses
  <1>10. W!IsProper(me)'
    BY <1>1, <1>8, <1>9, IdleIsProper DEF W!IsProper, W!Failing, W!Succeeding, W!Rules
  <1>11. /\ lastAt' \in Nat /\ wanted' \in [W!Rules -> {"nothing", "active", "resolved"}]
         /\ \A r \in W!Rules \ W!About(m) : wanted'[r] = wanted[r]
         /\ W!At(m) >= lastAt => \A r \in W!About(m) :
               wanted'[r] = IF W!Status(m) = "succeeded" THEN "resolved" ELSE "active"
    BY <1>2, Reported
  <1>12. me.clean => /\ W!Others(d) = {}
                     /\ \A r \in W!About(me.report) :
                          wanted'[r] = IF W!Status(me.report) = "succeeded" THEN "resolved" ELSE "active"
    BY <1>3, <1>9, <1>11
  <1>13. me.phase = "find" => \A x \in W!Others(d) : handler[x].rule = me.rule => me.rule \in raced'
    BY <1>2, <1>8, <1>9
  <1>14. raced \subseteq raced' /\ raced' \subseteq W!Rules
    BY <1>2, WorkflowTypes
  <1>15. /\ incident' \in [W!Ids -> W!IncidentRows] /\ W!RowsAreWhole'
         /\ W!MarksAreDeserved' /\ W!BreachesAreDeserved'
         /\ \A i \in W!Ids : incident'[i] = incident[i] /\ incident'[i].rule = incident[i].rule
    BY <1>1, RowsStay
  <1>16. \A r \in W!Rules \ excused' : me.phase = "idle" \/ r \notin W!About(me.report) =>
            r \notin excused /\ wanted'[r] = wanted[r] /\ \A i \in W!OfRule(r) : incident'[i] = incident[i]
    BY <1>1, <1>9, <1>11
  <1>17. d # None /\ me.phase \in {"find", "active"} /\ (me.phase = "active" => me.rule = "failed")
    BY <1>9 DEF W!Proper
  <1>18. /\ handler' \in [Handlers -> W!HandlerRows]
         /\ W!HandlersAreProper' /\ W!CleanIsInOrder' /\ W!QuietRulesFollow'
         /\ W!FailuresAreAlone' /\ W!OneIncidentPerRule'
    BY <1>1, <1>6, <1>9, <1>10, <1>12, <1>13, <1>14, <1>15, <1>16, <1>17, HandlersDisturbed
  <1>19. seen' \subseteq feed'
    BY <1>1, <1>2, WorkflowTypes
  <1>20. QED
    BY <1>1, <1>11, <1>14, <1>15, <1>18, <1>19, WorkflowTypes, WorkflowParts

LEMMA MistakeStep ==
  ASSUME W!Proper, W!WorkflowInv, NEW d \in Handlers, W!Mistake(d)
  PROVE  W!WorkflowInv'
  <1>1. /\ handler[d].phase = "idle"
        /\ UNCHANGED <<now, feed, stored, incident, marking, operations, raced, overdue, carried>>
    BY DEF W!Mistake
  <1>2. PICK m \in feed \ seen :
           /\ seen' = seen \cup {m} /\ W!Report(m) /\ W!Disturb(d, W!Idle)
           /\ excused' = excused \cup W!About(m)
    BY DEF W!Mistake
  <1>3. /\ lastAt' \in Nat /\ wanted' \in [W!Rules -> {"nothing", "active", "resolved"}]
        /\ \A r \in W!Rules \ W!About(m) : wanted'[r] = wanted[r]
    BY <1>2, Reported
  <1>4. /\ incident' \in [W!Ids -> W!IncidentRows] /\ W!RowsAreWhole'
        /\ W!MarksAreDeserved' /\ W!BreachesAreDeserved'
        /\ \A i \in W!Ids : incident'[i] = incident[i] /\ incident'[i].rule = incident[i].rule
    BY <1>1, RowsStay
  <1>5. PICK me : me = W!Idle
    OBVIOUS
  <1>6. me \in W!HandlerRows /\ me.phase = "idle" /\ me.clean = FALSE /\ W!IsProper(me)'
    BY <1>5, IdleIsProper
  <1>7. \A r \in W!Rules \ excused' :
            r \notin excused /\ wanted'[r] = wanted[r] /\ \A i \in W!OfRule(r) : incident'[i] = incident[i]
    BY <1>2, <1>3, <1>4 DEF W!OfRule
  <1>8. W!Disturb(d, me) /\ raced \subseteq raced'
    BY <1>1, <1>2, <1>5
  <1>9. /\ handler' \in [Handlers -> W!HandlerRows]
        /\ W!HandlersAreProper' /\ W!CleanIsInOrder' /\ W!QuietRulesFollow'
        /\ W!FailuresAreAlone' /\ W!OneIncidentPerRule'
    BY <1>1, <1>4, <1>6, <1>7, <1>8, HandlersDisturbed
  <1>10. seen' \subseteq feed' /\ excused' \subseteq W!Rules
    BY <1>1, <1>2, WorkflowTypes, ReportIsAbout
  <1>11. QED
    BY <1>1, <1>3, <1>4, <1>9, <1>10, WorkflowTypes, WorkflowParts

LEMMA OperateStep ==
  ASSUME W!Proper, W!WorkflowInv, NEW i \in W!Ids, W!Operate(i)
  PROVE  W!WorkflowInv'
  <1>1. /\ incident[i] # W!NoRow /\ W!Disturb(None, W!Idle)
        /\ excused' = excused \cup {incident[i].rule}
        /\ UNCHANGED <<now, feed, stored, seen, marking, lastAt, wanted, raced, overdue, carried>>
    BY DEF W!Operate, W!ghosts
  <1>2. PICK status \in {"open", "acked", "resolved"} : incident' = [incident EXCEPT ![i].status = status]
    BY DEF W!Operate
  <1>3. /\ incident' \in [W!Ids -> W!IncidentRows] /\ W!RowsAreWhole'
        /\ W!MarksAreDeserved' /\ W!BreachesAreDeserved'
        /\ \A j \in W!Ids : incident'[j].rule = incident[j].rule
        /\ \A j \in W!Ids \ {i} : incident'[j] = incident[j]
    BY <1>1, <1>2, StatusIsWritten
  <1>4. PICK d, me : d = None /\ me = W!Idle
    OBVIOUS
  <1>5. me \in W!HandlerRows /\ me.phase = "idle" /\ me.clean = FALSE /\ W!IsProper(me)'
    BY <1>4, IdleIsProper
  <1>6. W!Disturb(d, me) /\ d \notin Handlers /\ d = None
    BY <1>1, <1>4 DEF W!Proper
  <1>7. \A r \in W!Rules \ excused' :
            r \notin excused /\ wanted'[r] = wanted[r] /\ \A j \in W!OfRule(r) : incident'[j] = incident[j]
    BY <1>1, <1>3 DEF W!OfRule
  <1>8. /\ handler' \in [Handlers -> W!HandlerRows]
        /\ W!HandlersAreProper' /\ W!CleanIsInOrder' /\ W!QuietRulesFollow'
        /\ W!FailuresAreAlone' /\ W!OneIncidentPerRule'
    BY <1>1, <1>3, <1>5, <1>6, <1>7, HandlersDisturbed
  <1>9. excused' \subseteq W!Rules
    BY <1>1, WorkflowTypes DEF W!WorkflowInv, W!RowsAreWhole
  <1>10. QED
    BY <1>1, <1>3, <1>8, <1>9, WorkflowTypes, WorkflowParts

(* The handlers, and the status of the incidents, stay as they are. *)
LEMMA HandlersStay ==
  ASSUME W!WorkflowInv, UNCHANGED <<feed, handler, wanted, excused, raced>>,
         \A i \in W!Ids : incident'[i].rule = incident[i].rule /\ incident'[i].status = incident[i].status
  PROVE  /\ handler' \in [Handlers -> W!HandlerRows]
         /\ W!HandlersAreProper' /\ W!CleanIsInOrder' /\ W!QuietRulesFollow'
         /\ W!FailuresAreAlone' /\ W!OneIncidentPerRule'
  <1>1. \A r : W!OfRule(r)' = W!OfRule(r)
    BY DEF W!OfRule
  <1>2. \A r : W!AnyActive(r)' <=> W!AnyActive(r)
    BY <1>1 DEF W!AnyActive, W!Active, W!OfRule
  <1>3. W!HandlersAreProper'
    BY DEF W!WorkflowInv, W!HandlersAreProper, W!IsProper
  <1>4. W!CleanIsInOrder'
    BY <1>1, <1>2 DEF W!WorkflowInv, W!CleanIsInOrder, W!IsClean, W!AtMostOne
  <1>5. W!QuietRulesFollow'
    BY <1>2 DEF W!WorkflowInv, W!QuietRulesFollow, W!Follows
  <1>6. W!FailuresAreAlone' /\ W!OneIncidentPerRule'
    BY <1>1 DEF W!WorkflowInv, W!FailuresAreAlone, W!FailuresAt, W!OneIncidentPerRule, W!AtMostOne
  <1>7. handler' \in [Handlers -> W!HandlerRows]
    BY WorkflowTypes
  <1>8. QED
    BY <1>3, <1>4, <1>5, <1>6, <1>7

LEMMA ReadOverdueStep ==
  ASSUME W!Proper, W!WorkflowInv, W!ReadOverdue
  PROVE  W!WorkflowInv'
  <1>1. /\ marking' = {i \in W!Ids : W!Active(i) /\ incident[i].due <= now /\ ~incident[i].breached}
        /\ overdue' = overdue \cup {<<i, incident[i].started>> : i \in marking'}
        /\ UNCHANGED <<now, feed, stored, seen, incident, handler, operations, lastAt, wanted, raced,
                       excused, carried>>
    BY DEF W!ReadOverdue, W!ghosts
  <1>2. marking' \subseteq W!Ids
    BY <1>1
  <1>3. \A i : W!Deserved(i) => W!Deserved(i)'
    BY <1>1 DEF W!Deserved
  <1>4. \A i \in marking' : incident[i] # W!NoRow /\ W!Deserved(i)'
    BY <1>1 DEF W!Deserved, W!Active, W!NoRow
  <1>5. W!MarksAreDeserved' /\ W!BreachesAreDeserved'
    BY <1>1, <1>3, <1>4 DEF W!WorkflowInv, W!MarksAreDeserved, W!BreachesAreDeserved
  <1>6. incident' \in [W!Ids -> W!IncidentRows] /\ W!RowsAreWhole'
    BY <1>1, WorkflowTypes DEF W!WorkflowInv, W!RowsAreWhole
  <1>7. /\ handler' \in [Handlers -> W!HandlerRows]
        /\ W!HandlersAreProper' /\ W!CleanIsInOrder' /\ W!QuietRulesFollow'
        /\ W!FailuresAreAlone' /\ W!OneIncidentPerRule'
    BY <1>1, HandlersStay
  <1>8. QED
    BY <1>1, <1>2, <1>5, <1>6, <1>7, WorkflowTypes, WorkflowParts

LEMMA MarkBreachedStep ==
  ASSUME W!Proper, W!WorkflowInv, W!MarkBreached
  PROVE  W!WorkflowInv'
  <1>1. /\ incident' = [i \in W!Ids |-> IF i \in marking THEN [incident[i] EXCEPT !.breached = TRUE]
                                        ELSE incident[i]]
        /\ marking' = {}
        /\ UNCHANGED <<now, feed, stored, seen, handler, operations, lastAt, wanted, raced,
                       excused, overdue, carried>>
    BY DEF W!MarkBreached, W!ghosts
  <1>2. ASSUME NEW i \in W!Ids
        PROVE  /\ incident'[i] \in W!IncidentRows
               /\ incident'[i].rule = incident[i].rule /\ incident'[i].status = incident[i].status
               /\ incident'[i].started = incident[i].started /\ incident'[i].due = incident[i].due
               /\ incident'[i].breached => incident[i].breached \/ i \in marking
               /\ incident'[i] # W!NoRow => incident[i] # W!NoRow
    <2>1. incident[i] \in W!IncidentRows
      BY WorkflowTypes
    <2>2. CASE i \in marking
      <3>1. incident'[i] = [incident[i] EXCEPT !.breached = TRUE]
        BY <1>1, <2>2
      <3>2. incident[i] # W!NoRow
        BY <2>2 DEF W!WorkflowInv, W!MarksAreDeserved
      <3>3. QED
        BY <2>1, <2>2, <3>1, <3>2 DEF W!IncidentRows
    <2>3. CASE i \notin marking
      BY <1>1, <2>1, <2>3
    <2>4. QED
      BY <2>2, <2>3
  <1>3. incident' \in [W!Ids -> W!IncidentRows]
    BY <1>1, <1>2
  <1>4. W!RowsAreWhole'
    BY <1>2 DEF W!WorkflowInv, W!RowsAreWhole
  <1>5. \A i \in W!Ids : W!Deserved(i) => W!Deserved(i)'
    BY <1>1, <1>2 DEF W!Deserved
  <1>6. W!MarksAreDeserved'
    BY <1>1 DEF W!MarksAreDeserved
  <1>7. W!BreachesAreDeserved'
    BY <1>2, <1>5 DEF W!WorkflowInv, W!BreachesAreDeserved, W!MarksAreDeserved
  <1>8. /\ handler' \in [Handlers -> W!HandlerRows]
        /\ W!HandlersAreProper' /\ W!CleanIsInOrder' /\ W!QuietRulesFollow'
        /\ W!FailuresAreAlone' /\ W!OneIncidentPerRule'
    BY <1>1, <1>2, HandlersStay
  <1>9. QED
    BY <1>1, <1>3, <1>4, <1>6, <1>7, <1>8, WorkflowTypes, WorkflowParts

LEMMA WorkflowTickStep ==
  ASSUME W!Proper, W!WorkflowInv, W!Tick
  PROVE  W!WorkflowInv'
  <1>1. /\ now < WorkflowNow /\ now' = now + 1
        /\ UNCHANGED <<feed, stored, seen, incident, handler, marking, operations, lastAt, wanted, raced,
                       excused, overdue, carried>>
    BY DEF W!Tick, W!ghosts
  <1>2. now' \in 1 .. WorkflowNow
    BY <1>1, WorkflowTypes DEF W!Proper
  <1>3. /\ incident' \in [W!Ids -> W!IncidentRows] /\ W!RowsAreWhole'
        /\ W!MarksAreDeserved' /\ W!BreachesAreDeserved'
    BY <1>1, RowsStay
  <1>4. /\ handler' \in [Handlers -> W!HandlerRows]
        /\ W!HandlersAreProper' /\ W!CleanIsInOrder' /\ W!QuietRulesFollow'
        /\ W!FailuresAreAlone' /\ W!OneIncidentPerRule'
    BY <1>1, HandlersStay
  <1>5. QED
    BY <1>1, <1>2, <1>3, <1>4, WorkflowTypes, WorkflowParts

LEMMA NextWorkflowInv ==
  ASSUME W!Proper
  PROVE  W!WorkflowInv /\ [W!Next]_(W!vars) => W!WorkflowInv'
  <1> SUFFICES ASSUME W!WorkflowInv, [W!Next]_(W!vars) PROVE W!WorkflowInv'
    OBVIOUS
  <1>1. ASSUME NEW d \in Handlers,
               W!Receive(d) \/ W!Mistake(d) \/ W!Find(d) \/ W!Create(d) \/ W!Update(d)
                 \/ W!FindActive(d) \/ W!Check(d) \/ W!Resolve(d) \/ W!Crash(d)
        PROVE  W!WorkflowInv'
    BY <1>1, ReceiveStep, MistakeStep, FindStep, CreateStep, UpdateStep, FindActiveStep, CheckStep,
       ResolveStep, CrashStep
  <1>2. ASSUME NEW i \in W!Ids, W!Operate(i) PROVE W!WorkflowInv'
    BY <1>2, OperateStep
  <1>3. ASSUME W!ReadOverdue \/ W!MarkBreached \/ W!Tick PROVE W!WorkflowInv'
    BY <1>3, ReadOverdueStep, MarkBreachedStep, WorkflowTickStep
  <1>4. ASSUME UNCHANGED W!vars PROVE W!WorkflowInv'
    <2>1. UNCHANGED <<now, feed, seen, incident, handler, marking, lastAt, wanted, raced, excused,
                      overdue, carried>>
      BY <1>4 DEF W!vars
    <2>2. QED
      BY <2>1, RowsStay, HandlersStay, WorkflowTypes, WorkflowParts
  <1>5. QED
    BY <1>1, <1>2, <1>3, <1>4 DEF W!Next

----------------------------------------------------------------------------
(* AnomalyDetection.                                                       *)

LEMMA AnomalyBounds ==
  ASSUME N!Proper
  PROVE  /\ Cooldown \in Nat \ {0} /\ AnomalyNow \in Nat \ {0} /\ MaxUpsets \in Nat /\ AnomalyIncidents \in Nat
         /\ Notify \in Nat /\ Escalation \in Nat
  BY Zenon DEF N!Proper

LEMMA NoneIsNoPolicy ==
  ASSUME N!Proper
  PROVE  None \notin N!Policies
  BY Zenon DEF N!Proper, N!Policies

LEMMA NoIncidentRow ==
  ASSUME N!Proper
  PROVE  /\ N!NoRow \in N!IncidentRows /\ N!NoRow.policy = None /\ None \notin N!Policies
         /\ N!NoRow.status = "none" /\ N!NoRow.streak = 0 /\ N!NoRow.hits = 0
         /\ N!NoRow.lastAlert = 0 /\ N!NoRow.started = 0 /\ N!NoRow.resolved = 0
  <1>1. None \notin N!Policies /\ 0 \in 0 .. (Cooldown - 1)
    BY AnomalyBounds, NoneIsNoPolicy
  <1>2. QED
    BY <1>1 DEF N!NoRow, N!IncidentRows

LEMMA IdleJob ==
  ASSUME N!Proper
  PROVE  /\ N!Idle \in N!JobRows /\ N!Idle.phase = "idle" /\ N!Idle.left = {}
         /\ N!Idle.rows = {} /\ N!Idle.alert = FALSE /\ N!Idle.inc = 0
  BY NoIncidentRow DEF N!Idle, N!JobRows, N!Phases

LEMMA AnomalyTypes ==
  ASSUME N!Proper, N!AnomalyInv
  PROVE  /\ now \in 1 .. AnomalyNow /\ now \in Nat /\ now # 0 /\ policies \subseteq N!Policies /\ policies \in Choices
         /\ incident \in [N!Ids -> N!IncidentRows] /\ job \in N!JobRows
         /\ operator \in [inc : N!Ids \cup {0}, row : N!IncidentRows]
         /\ upsets \in 0 .. MaxUpsets
         /\ alerted \in [N!Ids -> Nat] /\ quiet \in [N!Ids -> 0 .. 3] /\ skipped \in [N!Ids -> Nat]
         /\ triggered \subseteq N!Policies /\ touched \subseteq N!Ids /\ silenced \subseteq N!Ids
  BY AnomalyBounds DEF N!AnomalyInv, N!TypeOK, N!Policies

LEMMA IncidentFields ==
  ASSUME NEW row0 \in N!IncidentRows
  PROVE  /\ row0.policy \in N!Policies \cup {None} /\ row0.bucket \in Nat
         /\ row0.status \in {"none", "open", "acked", "resolved"}
         /\ row0.started \in Nat /\ row0.resolved \in Nat /\ row0.critical \in BOOLEAN
         /\ row0.streak \in Nat /\ row0.hits \in 0 .. (Cooldown - 1) /\ row0.lastAlert \in Nat
  BY DEF N!IncidentRows

LEMMA JobFields ==
  ASSUME NEW me \in N!JobRows
  PROVE  /\ me.phase \in N!Phases /\ me.left \subseteq N!Policies /\ me.policy \in N!Policies \cup {None}
         /\ me.bucket \in Nat /\ me.inc \in N!Ids \cup {0} /\ me.row \in N!IncidentRows
         /\ \A r \in me.rows : r.inc \in N!Ids /\ r.row \in N!IncidentRows
         /\ me.alert \in BOOLEAN
  BY DEF N!JobRows

(* The properties of the anomaly detection follow from the rest.              *)
LEMMA AnomaliesFollow ==
  ASSUME N!Proper, N!AnomalyInv
  PROVE  N!AnomaliesAreTracked
  <1>1. /\ job \in N!JobRows /\ incident \in [N!Ids -> N!IncidentRows] /\ touched \subseteq N!Ids
        /\ alerted \in [N!Ids -> Nat] /\ skipped \in [N!Ids -> Nat]
    BY DEF N!TypeOK, N!AnomalyInv
  <1>2. N!TriggersAreTracked
    <2>1. ASSUME NEW p \in policies, job = N!Idle, p \in triggered
          PROVE \E i \in N!Ids : i \in touched \/ (N!Active(i) /\ incident[i].policy.metric = p.metric)
      <3>1. CASE touched = {}
        BY <2>1, <3>1 DEF N!AnomalyInv, N!TriggersTrack, N!Tracks
      <3>2. CASE touched # {}
        BY <1>1, <3>2
      <3>3. QED
        BY <3>1, <3>2
    <2>2. QED
      BY <2>1 DEF N!TriggersAreTracked
  <1>3. N!ResolutionsAreQuiet
    BY DEF N!AnomalyInv, N!ResolutionsAreQuiet, N!CountsAgree
  <1>4. N!SuppressionsEnd
    <2>1. ASSUME NEW i \in N!Ids \ touched PROVE skipped[i] < Cooldown
      <3>1. skipped[i] <= incident[i].hits
        BY <2>1 DEF N!AnomalyInv, N!CountsAgree
      <3>2. incident[i].hits \in 0 .. (Cooldown - 1)
        BY <1>1, IncidentFields
      <3>3. QED
        BY <1>1, <2>1, <3>1, <3>2, AnomalyBounds
    <2>2. QED
      BY <2>1 DEF N!SuppressionsEnd
  <1>5. N!AlertsAreSent
    BY DEF N!AnomalyInv, N!AlertsAreSent, N!AlertsAreTold, N!Told
  <1>6. QED
    BY <1>2, <1>3, <1>4, <1>5 DEF N!AnomaliesAreTracked

LEMMA InitAnomalyInv ==
  ASSUME N!Proper, N!Init
  PROVE  N!AnomalyInv
  <1>1. /\ now = 1 /\ policies \in Choices /\ incident = [i \in N!Ids |-> N!NoRow] /\ job = N!Idle
        /\ operator = N!NoOperator /\ upsets = 0 /\ alerted = [i \in N!Ids |-> 0]
        /\ quiet = [i \in N!Ids |-> 0] /\ triggered = {} /\ skipped = [i \in N!Ids |-> 0]
        /\ touched = {} /\ silenced = {}
    BY DEF N!Init
  <1>2. \A i \in N!Ids : incident[i] = N!NoRow /\ skipped[i] = 0 /\ alerted[i] = 0 /\ quiet[i] = 0
    BY <1>1
  <1>3. N!NoOperator \in [inc : N!Ids \cup {0}, row : N!IncidentRows]
    BY NoIncidentRow DEF N!NoOperator
  <1>4. N!TypeOK
    <2>1. now \in 1 .. AnomalyNow /\ upsets \in 0 .. MaxUpsets
      BY <1>1, AnomalyBounds
    <2>2. QED
      BY <1>1, <1>3, <2>1, NoIncidentRow, IdleJob DEF N!TypeOK
  <1>5. N!JobIsProper /\ N!RowsAreCurrent
    BY <1>1, IdleJob DEF N!JobIsProper, N!RowsAreCurrent
  <1>6. N!CountsAgree
    BY <1>2, NoIncidentRow DEF N!CountsAgree
  <1>7. N!TriggersTrack
    BY <1>1, IdleJob DEF N!TriggersTrack
  <1>8. N!AlertsAreTold
    BY <1>1, <1>2, IdleJob, NoIncidentRow DEF N!AlertsAreTold, N!Told
  <1>9. QED
    BY <1>4, <1>5, <1>6, <1>7, <1>8 DEF N!AnomalyInv

(* The job goes on, and no incident changes.                                  *)
LEMMA JobGoesOn ==
  ASSUME N!Proper, N!AnomalyInv, NEW me \in N!JobRows, job' = me,
         UNCHANGED <<now, policies, incident, operator, quiet, touched>>,
         upsets' \in 0 .. MaxUpsets, alerted' \in [N!Ids -> Nat], skipped' \in [N!Ids -> Nat],
         triggered' \subseteq N!Policies, silenced' \subseteq N!Ids,
         N!JobIsProper', N!RowsAreCurrent', N!TriggersTrack',
         \A i \in N!Ids : skipped'[i] = skipped[i] \/ skipped'[i] = 0,
         \A i \in N!Ids, t \in Nat : N!Told(i, t) => N!Told(i, t)',
         me.phase \in {"refresh", "suppress"} =>
            me.row = incident[me.inc] \/ (me.row = job.row /\ me.inc = job.inc /\ job.phase \in {"refresh", "suppress"}),
         \A r \in me.rows : r \in job.rows \/ r.row = incident[r.inc]
  PROVE  N!AnomalyInv'
  <1>1. N!TypeOK'
    BY AnomalyTypes DEF N!TypeOK
  <1>2. N!CountsAgree'
    <2>1. ASSUME NEW i \in N!Ids \ touched
          PROVE  /\ skipped'[i] <= incident[i].hits
                 /\ incident[i].status # "resolved" => skipped'[i] = 0
      <3>1. /\ skipped[i] <= incident[i].hits
            /\ incident[i].status # "resolved" => skipped[i] = 0
        BY <2>1 DEF N!AnomalyInv, N!CountsAgree
      <3>2. incident[i].hits \in Nat
        BY AnomalyTypes, IncidentFields, AnomalyBounds
      <3>3. QED
        BY <3>1, <3>2
    <2>2. QED
      BY <2>1 DEF N!AnomalyInv, N!CountsAgree
  <1>3. N!AlertsAreTold'
    <2>1. /\ \A i \in N!Ids : N!Told(i, incident[i].lastAlert)
          /\ job.phase \in {"refresh", "suppress"} => N!Told(job.inc, job.row.lastAlert)
          /\ \A r \in job.rows : N!Told(r.inc, r.row.lastAlert)
          /\ operator # N!NoOperator => N!Told(operator.inc, operator.row.lastAlert)
      BY DEF N!AnomalyInv, N!AlertsAreTold
    <2>2. \A i \in N!Ids : N!Told(i, incident[i].lastAlert)'
      BY <2>1, AnomalyTypes, IncidentFields DEF N!Told
    <2>3. me.phase \in {"refresh", "suppress"} => N!Told(me.inc, me.row.lastAlert)'
      <3>1. SUFFICES ASSUME me.phase \in {"refresh", "suppress"} PROVE N!Told(me.inc, me.row.lastAlert)'
        OBVIOUS
      <3>2. me.inc \in N!Ids /\ me.row.lastAlert \in Nat
        BY <3>1, JobFields, IncidentFields DEF N!JobIsProper
      <3>3. N!Told(me.inc, me.row.lastAlert)
        BY <2>1, <3>1, <3>2
      <3>4. QED
        BY <3>2, <3>3
    <2>4. ASSUME NEW r \in me.rows PROVE N!Told(r.inc, r.row.lastAlert)'
      <3>1. r.inc \in N!Ids /\ r.row.lastAlert \in Nat
        BY JobFields, IncidentFields
      <3>2. N!Told(r.inc, r.row.lastAlert)
        BY <2>1, <3>1
      <3>3. QED
        BY <3>1, <3>2
    <2>5. operator # N!NoOperator => N!Told(operator.inc, operator.row.lastAlert)'
      <3>1. SUFFICES ASSUME operator # N!NoOperator PROVE N!Told(operator.inc, operator.row.lastAlert)'
        OBVIOUS
      <3>2. operator.inc \in N!Ids /\ operator.row.lastAlert \in Nat
        BY <3>1, AnomalyTypes, IncidentFields DEF N!AnomalyInv, N!JobIsProper
      <3>3. QED
        BY <2>1, <3>1, <3>2
    <2>6. QED
      BY <2>2, <2>3, <2>4, <2>5 DEF N!AlertsAreTold, N!NoOperator, N!NoRow
  <1>4. QED
    BY <1>1, <1>2, <1>3 DEF N!AnomalyInv

LEMMA ToldStays ==
  ASSUME N!Proper, N!AnomalyInv, UNCHANGED <<now, alerted>>, silenced \subseteq silenced',
         ~(job.phase = "alert" /\ job.alert)
  PROVE  \A i \in N!Ids, t \in Nat : N!Told(i, t) => N!Told(i, t)'
  BY DEF N!Told

LEMMA BeginAnomalyInv ==
  ASSUME N!Proper, N!AnomalyInv, N!Begin
  PROVE  N!AnomalyInv'
  <1>1. PICK me : me = [N!Idle EXCEPT !.phase = "next", !.left = policies]
    OBVIOUS
  <1>2. /\ me \in N!JobRows /\ me.phase = "next" /\ me.left = policies /\ me.rows = {}
    BY <1>1, AnomalyTypes, NoIncidentRow DEF N!Idle, N!JobRows, N!Phases
  <1>3. /\ job' = me /\ job.phase = "idle" /\ triggered' = {}
        /\ UNCHANGED <<now, policies, incident, operator, upsets, alerted, quiet, skipped, touched, silenced>>
    BY <1>1, IdleJob DEF N!Begin
  <1>4. N!JobIsProper'
    BY <1>2, <1>3 DEF N!JobIsProper, N!AnomalyInv
  <1>5. N!RowsAreCurrent' /\ N!TriggersTrack'
    BY <1>2, <1>3 DEF N!RowsAreCurrent, N!TriggersTrack
  <1>6. QED
    BY <1>2, <1>3, <1>4, <1>5, AnomalyTypes, ToldStays, JobGoesOn

(* The policy at hand is a row's, or was among those left.                    *)
LEMMA EvaluateAnomalyInv ==
  ASSUME N!Proper, N!AnomalyInv, N!Evaluate
  PROVE  N!AnomalyInv'
  <1>1. /\ job.phase = "next" /\ job.rows = {} /\ N!JobIsProper
        /\ UNCHANGED <<now, policies, incident, operator, upsets, alerted, quiet, triggered, touched, silenced>>
    BY DEF N!Evaluate, N!AnomalyInv, N!JobIsProper
  <1>2. PICK p \in job.left :
          \/ job' = [job EXCEPT !.phase = "find", !.policy = p, !.left = @ \ {p}] /\ UNCHANGED skipped
          \/ /\ job' = [job EXCEPT !.phase = "clear", !.policy = p, !.left = @ \ {p},
                  !.rows = {[inc |-> i, row |-> incident[i]] :
                              i \in {j \in N!Ids : N!Active(j) /\ incident[j].policy = p}}]
             /\ UNCHANGED skipped
          \/ job' = [job EXCEPT !.left = @ \ {p}] /\ N!Unsuppressed({p})
    BY DEF N!Evaluate
  <1>3. PICK me : me = job'
    OBVIOUS
  <1>4. job \in N!JobRows /\ incident \in [N!Ids -> N!IncidentRows] /\ skipped \in [N!Ids -> Nat]
    BY AnomalyTypes
  <1>5. p \in N!Policies
    BY <1>4, JobFields
  <1>6. skipped' \in [N!Ids -> Nat] /\ \A i \in N!Ids : skipped'[i] = skipped[i] \/ skipped'[i] = 0
    BY <1>2, <1>4 DEF N!Unsuppressed
  <1>7. PICK active : active = {i \in N!Ids : N!Active(i) /\ incident[i].policy = p}
    OBVIOUS
  <1>8. /\ me \in N!JobRows /\ me.left = job.left \ {p}
        /\ me.phase \in {"next", "find", "clear"}
        /\ me.phase # "next" => me.policy = p
        /\ me.phase # "clear" => me.rows = {}
        /\ \A r \in me.rows : r.inc \in active /\ r.row = incident[r.inc]
    <2>1. CASE job' = [job EXCEPT !.phase = "find", !.policy = p, !.left = @ \ {p}]
      BY <1>1, <1>3, <1>4, <1>5, <2>1 DEF N!JobRows, N!Phases
    <2>2. CASE job' = [job EXCEPT !.left = @ \ {p}]
      BY <1>1, <1>3, <1>4, <1>5, <2>2 DEF N!JobRows, N!Phases
    <2>3. CASE job' = [job EXCEPT !.phase = "clear", !.policy = p, !.left = @ \ {p},
                  !.rows = {[inc |-> i, row |-> incident[i]] :
                              i \in {j \in N!Ids : N!Active(j) /\ incident[j].policy = p}}]
      <3>1. PICK rows : rows = {[inc |-> i, row |-> incident[i]] : i \in active}
        OBVIOUS
      <3>2. \A r \in rows : r.inc \in active /\ r.row = incident[r.inc]
        BY <3>1
      <3>3. rows \subseteq [inc : N!Ids, row : N!IncidentRows]
        BY <1>4, <1>7, <3>1
      <3>4. me = [job EXCEPT !.phase = "clear", !.policy = p, !.left = @ \ {p}, !.rows = rows]
        BY <1>3, <1>7, <2>3, <3>1
      <3>5. QED
        BY <1>1, <1>3, <1>4, <1>5, <3>2, <3>3, <3>4 DEF N!JobRows, N!Phases
    <2>4. QED
      BY <1>2, <2>1, <2>2, <2>3
  <1>9. N!JobIsProper'
    BY <1>1, <1>3, <1>5, <1>7, <1>8 DEF N!JobIsProper
  <1>10. N!RowsAreCurrent'
    BY <1>1, <1>3, <1>7, <1>8 DEF N!RowsAreCurrent, N!Active
  <1>11. N!TriggersTrack'
    <2>1. ASSUME NEW i \in N!Ids, NEW q, N!Tracks(i, q) PROVE N!Tracks(i, q)'
      BY <1>1, <1>3, <1>7, <1>8, <2>1 DEF N!Tracks, N!Active
    <2>2. QED
      BY <1>1, <1>3, <1>8, <2>1 DEF N!TriggersTrack, N!AnomalyInv
  <1>12. QED
    BY <1>1, <1>3, <1>6, <1>8, <1>9, <1>10, <1>11, AnomalyTypes, ToldStays, JobGoesOn

LEMMA FindAnomalyInv ==
  ASSUME N!Proper, N!AnomalyInv, N!Find
  PROVE  N!AnomalyInv'
  <1>1. /\ job.phase = "find" /\ job.rows = {} /\ N!JobIsProper
        /\ UNCHANGED <<now, policies, incident, operator, upsets, alerted, quiet, triggered, skipped, touched, silenced>>
    BY DEF N!Find, N!AnomalyInv, N!JobIsProper, N!ghosts
  <1>2. PICK bucket \in N!Buckets(job.policy) :
          \/ job' = [job EXCEPT !.phase = "cooldown", !.bucket = bucket]
          \/ \E i \in N!Existing(job.policy, bucket) :
               job' = [job EXCEPT !.phase = "refresh", !.inc = i, !.row = incident[i]]
    BY DEF N!Find
  <1>3. PICK me : me = job'
    OBVIOUS
  <1>4. job \in N!JobRows /\ incident \in [N!Ids -> N!IncidentRows] /\ now \in Nat \ {0}
    BY AnomalyTypes
  <1>5. bucket \in Nat
    BY <1>4 DEF N!Buckets
  <1>6. \A i \in N!Existing(job.policy, bucket) :
           i \in N!Ids /\ N!Active(i) /\ incident[i].policy.metric = job.policy.metric
    BY DEF N!Existing, N!Latest, N!IsHeartbeat
  <1>7. /\ me \in N!JobRows /\ me.left = job.left /\ me.rows = {} /\ me.policy = job.policy
        /\ \/ me.phase = "cooldown"
           \/ /\ me.phase = "refresh" /\ me.inc \in N!Existing(job.policy, bucket)
              /\ me.row = incident[me.inc]
    <2>1. CASE job' = [job EXCEPT !.phase = "cooldown", !.bucket = bucket]
      BY <1>1, <1>3, <1>4, <1>5, <2>1 DEF N!JobRows, N!Phases
    <2>2. CASE \E i \in N!Existing(job.policy, bucket) :
               job' = [job EXCEPT !.phase = "refresh", !.inc = i, !.row = incident[i]]
      <3>1. PICK i \in N!Existing(job.policy, bucket) :
               job' = [job EXCEPT !.phase = "refresh", !.inc = i, !.row = incident[i]]
        BY <2>2
      <3>2. PICK row0 \in N!IncidentRows : row0 = incident[i]
        BY <1>4, <1>6
      <3>3. QED
        BY <1>1, <1>3, <1>4, <1>6, <3>1, <3>2 DEF N!JobRows, N!Phases
    <2>3. QED
      BY <1>2, <2>1, <2>2
  <1>8. N!JobIsProper'
    BY <1>1, <1>3, <1>6, <1>7 DEF N!JobIsProper
  <1>9. N!RowsAreCurrent'
    BY <1>1, <1>3, <1>6, <1>7 DEF N!RowsAreCurrent, N!Active
  <1>10. N!TriggersTrack'
    BY <1>1, <1>3, <1>6, <1>7 DEF N!TriggersTrack, N!AnomalyInv, N!Tracks, N!Active
  <1>11. QED
    BY <1>1, <1>3, <1>7, <1>8, <1>9, <1>10, AnomalyTypes, ToldStays, JobGoesOn
LEMMA FinishedJob ==
  ASSUME N!Proper, N!AnomalyInv, N!Finish
  PROVE  /\ job' \in N!JobRows /\ job'.phase = "next" /\ job'.left = job.left /\ job'.rows = {}
  <1>1. job \in N!JobRows
    BY AnomalyTypes
  <1>2. PICK left \in SUBSET N!Policies : left = job.left
    BY <1>1, JobFields
  <1>3. job' = [N!Idle EXCEPT !.phase = "next", !.left = left]
    BY <1>2 DEF N!Finish
  <1>4. QED
    BY <1>2, <1>3, NoIncidentRow DEF N!Idle, N!JobRows, N!Phases

LEMMA UnsuppressedCounts ==
  ASSUME N!Proper, N!AnomalyInv, NEW P, N!Unsuppressed(P)
  PROVE  /\ skipped' \in [N!Ids -> Nat]
         /\ \A i \in N!Ids : skipped'[i] = skipped[i] \/ skipped'[i] = 0
  BY AnomalyTypes DEF N!Unsuppressed

LEMMA AlertAnomalyInv ==
  ASSUME N!Proper, N!AnomalyInv, N!Alert
  PROVE  N!AnomalyInv'
  <1>1. /\ job.phase = "alert" /\ job.rows = {} /\ job.inc \in N!Ids /\ job.policy \in N!Policies
        /\ alerted' = IF job.alert THEN [alerted EXCEPT ![job.inc] = now] ELSE alerted
        /\ triggered' = triggered \cup {job.policy}
        /\ N!Unsuppressed({job.policy}) /\ N!Finish
        /\ UNCHANGED <<now, policies, incident, operator, upsets, quiet, touched, silenced>>
    BY DEF N!Alert, N!AnomalyInv, N!JobIsProper
  <1>2. PICK me : me = job'
    OBVIOUS
  <1>3. /\ now \in Nat /\ alerted \in [N!Ids -> Nat] /\ triggered \subseteq N!Policies
        /\ upsets \in 0 .. MaxUpsets /\ silenced \subseteq N!Ids
    BY AnomalyTypes
  <1>4. /\ alerted' \in [N!Ids -> Nat] /\ triggered' \subseteq N!Policies
        /\ upsets' \in 0 .. MaxUpsets /\ silenced' \subseteq N!Ids
    BY <1>1, <1>3
  <1>5. ASSUME NEW i \in N!Ids, NEW t \in Nat, N!Told(i, t) PROVE N!Told(i, t)'
    BY <1>1, <1>3, <1>5 DEF N!Told
  <1>6. me \in N!JobRows /\ me.phase = "next" /\ me.left = job.left /\ me.rows = {}
    BY <1>1, <1>2, FinishedJob
  <1>7. N!JobIsProper'
    BY <1>1, <1>2, <1>6 DEF N!JobIsProper, N!AnomalyInv
  <1>8. N!RowsAreCurrent'
    BY <1>2, <1>6 DEF N!RowsAreCurrent
  <1>9. N!TriggersTrack'
    <2>1. ASSUME NEW i \in N!Ids, NEW q, N!Tracks(i, q) PROVE N!Tracks(i, q)'
      BY <1>1, <1>2, <1>6, <2>1 DEF N!Tracks, N!Active
    <2>2. QED
      BY <1>1, <1>2, <1>6, <2>1 DEF N!TriggersTrack, N!AnomalyInv
  <1>10. QED
    BY <1>1, <1>2, <1>4, <1>5, <1>6, <1>7, <1>8, <1>9, UnsuppressedCounts, JobGoesOn

LEMMA LookBackAnomalyInv ==
  ASSUME N!Proper, N!AnomalyInv, N!LookBack
  PROVE  N!AnomalyInv'
  <1>1. /\ job.phase = "cooldown" /\ job.rows = {} /\ N!JobIsProper
        /\ UNCHANGED <<now, policies, incident, operator, upsets, alerted, quiet, triggered, skipped, touched, silenced>>
    BY DEF N!LookBack, N!AnomalyInv, N!JobIsProper, N!ghosts
  <1>2. \/ job' = [job EXCEPT !.phase = "create"]
        \/ \E i \in N!LastResolved(job.policy) :
             job' = [job EXCEPT !.phase = "suppress", !.inc = i, !.row = incident[i]]
    BY DEF N!LookBack
  <1>3. PICK me : me = job'
    OBVIOUS
  <1>4. job \in N!JobRows /\ incident \in [N!Ids -> N!IncidentRows]
    BY AnomalyTypes
  <1>5. \A i \in N!LastResolved(job.policy) :
           i \in N!Ids /\ incident[i].status = "resolved" /\ incident[i].policy = job.policy
    BY DEF N!LastResolved
  <1>6. /\ me \in N!JobRows /\ me.left = job.left /\ me.rows = {} /\ me.policy = job.policy
        /\ \/ me.phase = "create"
           \/ /\ me.phase = "suppress" /\ me.inc \in N!LastResolved(job.policy)
              /\ me.row = incident[me.inc]
    <2>1. CASE job' = [job EXCEPT !.phase = "create"]
      BY <1>1, <1>3, <1>4, <2>1 DEF N!JobRows, N!Phases
    <2>2. CASE \E i \in N!LastResolved(job.policy) :
               job' = [job EXCEPT !.phase = "suppress", !.inc = i, !.row = incident[i]]
      <3>1. PICK i \in N!LastResolved(job.policy) :
               job' = [job EXCEPT !.phase = "suppress", !.inc = i, !.row = incident[i]]
        BY <2>2
      <3>2. PICK row0 \in N!IncidentRows : row0 = incident[i]
        BY <1>4, <1>5
      <3>3. QED
        BY <1>1, <1>3, <1>4, <1>5, <3>1, <3>2 DEF N!JobRows, N!Phases
    <2>3. QED
      BY <1>2, <2>1, <2>2
  <1>7. N!JobIsProper'
    BY <1>1, <1>3, <1>5, <1>6 DEF N!JobIsProper
  <1>8. N!RowsAreCurrent'
    BY <1>1, <1>3, <1>5, <1>6 DEF N!RowsAreCurrent
  <1>9. N!TriggersTrack'
    BY <1>1, <1>3, <1>6 DEF N!TriggersTrack, N!AnomalyInv, N!Tracks, N!Active
  <1>10. QED
    BY <1>1, <1>3, <1>6, <1>7, <1>8, <1>9, AnomalyTypes, ToldStays, JobGoesOn

(* The end of a policy with no row left, of a run, and of a run that dies.    *)
LEMMA StopAnomalyInv ==
  ASSUME N!Proper, N!AnomalyInv, NEW me \in N!JobRows, job' = me,
         me.phase \in {"idle", "next"}, me.rows = {},
         me.left \subseteq job.left, me.phase = "idle" => me.left = {},
         UNCHANGED <<now, policies, incident, operator, alerted, quiet, triggered, touched>>,
         upsets' \in 0 .. MaxUpsets, silenced \subseteq silenced', silenced' \subseteq N!Ids,
         job.phase = "alert" /\ job.alert => job.inc \in silenced',
         skipped' \in [N!Ids -> Nat],
         \A i \in N!Ids : skipped'[i] = skipped[i] \/ skipped'[i] = 0
  PROVE  N!AnomalyInv'
  <1>1. N!JobIsProper'
    BY DEF N!JobIsProper, N!AnomalyInv
  <1>2. N!RowsAreCurrent'
    BY DEF N!RowsAreCurrent
  <1>3. N!TriggersTrack'
    <2>1. ASSUME NEW i \in N!Ids, NEW q, N!Tracks(i, q) PROVE N!Tracks(i, q)'
      BY <2>1 DEF N!Tracks, N!Active
    <2>2. QED
      BY <2>1 DEF N!TriggersTrack, N!AnomalyInv
  <1>4. \A i \in N!Ids, t \in Nat : N!Told(i, t) => N!Told(i, t)'
    BY DEF N!Told
  <1>5. alerted' \in [N!Ids -> Nat] /\ triggered' \subseteq N!Policies
    BY AnomalyTypes
  <1>6. QED
    BY <1>1, <1>2, <1>3, <1>4, <1>5, JobGoesOn

LEMMA EndAnomalyInv ==
  ASSUME N!Proper, N!AnomalyInv, N!End
  PROVE  N!AnomalyInv'
  BY IdleJob, AnomalyTypes, StopAnomalyInv DEF N!End, N!ghosts

LEMMA AbortAnomalyInv ==
  ASSUME N!Proper, N!AnomalyInv, N!Abort
  PROVE  N!AnomalyInv'
  <1>1. /\ upsets < MaxUpsets /\ upsets' = upsets + 1 /\ job' = N!Idle
        /\ silenced' = IF job.phase = "alert" /\ job.alert THEN silenced \cup {job.inc} ELSE silenced
        /\ N!Unsuppressed(job.left \cup {job.policy})
        /\ UNCHANGED <<now, policies, incident, operator, alerted, quiet, triggered, touched>>
    BY DEF N!Abort
  <1>2. job.phase = "alert" => job.inc \in N!Ids
    BY DEF N!AnomalyInv, N!JobIsProper
  <1>3. silenced' \subseteq N!Ids
    BY <1>1, <1>2, AnomalyTypes
  <1>4. upsets' \in 0 .. MaxUpsets
    BY <1>1, AnomalyTypes, AnomalyBounds
  <1>5. QED
    BY <1>1, <1>3, <1>4, IdleJob, UnsuppressedCounts, StopAnomalyInv

(* One incident is written.                                                   *)
LEMMA AnomalyIsWritten ==
  ASSUME N!Proper, N!AnomalyInv, NEW i \in N!Ids, NEW new \in N!IncidentRows,
         incident' = [incident EXCEPT ![i] = new]
  PROVE  /\ incident' \in [N!Ids -> N!IncidentRows] /\ incident'[i] = new
         /\ \A x \in N!Ids : x # i => incident'[x] = incident[x]
  BY AnomalyTypes

(* The alerts stay told if the incident that is written says nothing else of them.*)
LEMMA AlertsStayTold ==
  ASSUME N!Proper, N!AnomalyInv, NEW i \in N!Ids, NEW last \in Nat, N!Told(i, last)',
         \A x \in N!Ids, t \in Nat : N!Told(x, t) => N!Told(x, t)',
         incident'[i].lastAlert = last, \A x \in N!Ids : x # i => incident'[x] = incident[x],
         operator' \in {operator, N!NoOperator},
         job' \in N!JobRows, job'.phase \notin {"refresh", "suppress"}, job'.rows \subseteq job.rows
  PROVE  N!AlertsAreTold'
  <1>1. /\ incident \in [N!Ids -> N!IncidentRows] /\ job \in N!JobRows
        /\ operator \in [inc : N!Ids \cup {0}, row : N!IncidentRows]
    BY AnomalyTypes
  <1>2. ASSUME NEW x \in N!Ids, NEW t \in Nat, t = incident'[x].lastAlert PROVE N!Told(x, t)'
    <2>1. CASE x = i
      BY <1>2, <2>1
    <2>2. CASE x # i
      <3>1. N!Told(x, t)
        BY <1>2, <2>2 DEF N!AlertsAreTold, N!AnomalyInv
      <3>2. QED
        BY <1>2, <3>1
    <2>3. QED
      BY <2>1, <2>2
  <1>3. \A x \in N!Ids : incident'[x].lastAlert \in Nat
    BY <1>1, IncidentFields
  <1>4. ASSUME NEW r \in job'.rows PROVE N!Told(r.inc, r.row.lastAlert)'
    <2>1. r \in job.rows /\ r.inc \in N!Ids /\ r.row.lastAlert \in Nat
      BY <1>1, <1>4, JobFields, IncidentFields
    <2>2. N!Told(r.inc, r.row.lastAlert)
      BY <2>1 DEF N!AlertsAreTold, N!AnomalyInv
    <2>3. QED
      BY <2>1, <2>2
  <1>5. ASSUME NEW op, op = operator', op # N!NoOperator PROVE N!Told(op.inc, op.row.lastAlert)'
    <2>1. op = operator /\ op.inc \in N!Ids /\ op.row.lastAlert \in Nat
      BY <1>1, <1>5, IncidentFields DEF N!AnomalyInv, N!JobIsProper
    <2>2. N!Told(op.inc, op.row.lastAlert)
      BY <1>5, <2>1 DEF N!AlertsAreTold, N!AnomalyInv
    <2>3. QED
      BY <2>1, <2>2
  <1>6. QED
    BY <1>2, <1>3, <1>4, <1>5 DEF N!AlertsAreTold, N!NoOperator, N!NoRow, N!Told

LEMMA RefreshAnomalyInv ==
  ASSUME N!Proper, N!AnomalyInv, N!Refresh
  PROVE  N!AnomalyInv'
  <1>1. /\ job.phase = "refresh" /\ job.rows = {} /\ job.inc \in N!Ids /\ N!JobIsProper
        /\ quiet' = [quiet EXCEPT ![job.inc] = 0]
        /\ UNCHANGED <<now, policies, operator, upsets, alerted, triggered, skipped, touched, silenced>>
    BY DEF N!Refresh, N!AnomalyInv, N!JobIsProper
  <1>2. PICK i \in N!Ids : i = job.inc
    BY <1>1
  <1>3. PICK due \in BOOLEAN : due <=> now - job.row.lastAlert >= Notify
    BY Zenon
  <1>4. PICK escalates \in BOOLEAN :
           escalates <=> now - job.row.started >= Escalation /\ ~job.row.critical
    BY Zenon
  <1>5. /\ incident' = [incident EXCEPT ![i] =
             N!WithDetails([@ EXCEPT !.critical = job.row.critical \/ escalates],
                 [streak |-> 0, hits |-> 0, lastAlert |-> IF due THEN now ELSE job.row.lastAlert])]
        /\ job' = [job EXCEPT !.phase = "alert", !.alert = due \/ escalates]
    BY <1>2, <1>3, <1>4 DEF N!Refresh
  <1>6. /\ job \in N!JobRows /\ incident \in [N!Ids -> N!IncidentRows] /\ now \in Nat
        /\ quiet \in [N!Ids -> 0 .. 3] /\ skipped \in [N!Ids -> Nat]
    BY AnomalyTypes
  <1>7. PICK critical \in BOOLEAN : critical = (job.row.critical \/ escalates)
    BY Zenon
  <1>8. PICK last \in Nat : last = IF due THEN now ELSE job.row.lastAlert
    BY <1>6, JobFields, IncidentFields
  <1>9. PICK new : new = [incident[i] EXCEPT !.critical = critical, !.streak = 0, !.hits = 0, !.lastAlert = last]
    OBVIOUS
  <1>10. incident' = [incident EXCEPT ![i] = new]
    BY <1>5, <1>7, <1>8, <1>9 DEF N!WithDetails
  <1>11. PICK old \in N!IncidentRows : old = incident[i]
    BY <1>6
  <1>12. /\ new \in N!IncidentRows /\ new.status = incident[i].status /\ new.policy = incident[i].policy
         /\ new.streak = 0 /\ new.hits = 0 /\ new.lastAlert = last
    <2>1. 0 \in 0 .. (Cooldown - 1)
      BY AnomalyBounds
    <2>2. QED
      BY <1>9, <1>11, <2>1 DEF N!IncidentRows
  <1>13. PICK alert \in BOOLEAN : alert <=> due \/ escalates
    BY Zenon
  <1>14. PICK me : me = [job EXCEPT !.phase = "alert", !.alert = alert]
    OBVIOUS
  <1>15. /\ me \in N!JobRows /\ me.phase = "alert" /\ me.inc = i /\ me.rows = {} /\ me.alert = alert
         /\ me.left = job.left /\ me.policy = job.policy
    BY <1>1, <1>2, <1>6, <1>14 DEF N!JobRows, N!Phases
  <1>16. job' = me
    BY <1>5, <1>13, <1>14
  <1>17. /\ incident' \in [N!Ids -> N!IncidentRows] /\ incident'[i] = new
         /\ \A x \in N!Ids : x # i => incident'[x] = incident[x]
    BY <1>10, <1>12, AnomalyIsWritten
  <1>18. quiet' \in [N!Ids -> 0 .. 3] /\ quiet'[i] = 0 /\ \A x \in N!Ids : x # i => quiet'[x] = quiet[x]
    BY <1>1, <1>2, <1>6
  <1>19. N!TypeOK'
    BY <1>1, <1>15, <1>16, <1>17, <1>18 DEF N!TypeOK, N!AnomalyInv
  <1>20. N!JobIsProper'
    BY <1>1, <1>15, <1>16 DEF N!JobIsProper
  <1>21. N!RowsAreCurrent'
    BY <1>15, <1>16 DEF N!RowsAreCurrent
  <1>22. i \notin touched => N!Active(i) /\ N!Active(i)' /\ incident[i].status # "resolved"
    BY <1>1, <1>2, <1>12, <1>17 DEF N!RowsAreCurrent, N!Active, N!AnomalyInv
  <1>23. N!CountsAgree'
    <2>1. ASSUME NEW x \in N!Ids \ touched
          PROVE  /\ skipped[x] <= incident'[x].hits
                 /\ incident'[x].status = "resolved" => quiet'[x] = 3
                 /\ incident'[x].status # "resolved" =>
                     skipped[x] = 0 /\ incident'[x].streak <= quiet'[x] /\ incident'[x].streak <= 2
      <3>1. CASE x = i
        BY <1>12, <1>17, <1>18, <1>22, <2>1, <3>1 DEF N!CountsAgree, N!AnomalyInv
      <3>2. CASE x # i
        BY <1>17, <1>18, <2>1, <3>2 DEF N!CountsAgree, N!AnomalyInv
      <3>3. QED
        BY <3>1, <3>2
    <2>2. QED
      BY <1>1, <2>1 DEF N!CountsAgree
  <1>24. N!TriggersTrack'
    <2>1. ASSUME NEW x \in N!Ids, NEW q, N!Tracks(x, q), touched = {} PROVE N!Tracks(x, q)'
      BY <1>1, <1>12, <1>15, <1>16, <1>17, <2>1 DEF N!Tracks, N!Active
    <2>2. touched = {} => N!Tracks(i, job.policy)'
      BY <1>1, <1>2, <1>12, <1>15, <1>16, <1>17, <1>22 DEF N!Tracks, N!TriggersTrack, N!AnomalyInv
    <2>3. QED
      BY <1>1, <1>12, <1>15, <1>16, <1>17, <2>1, <2>2 DEF N!TriggersTrack, N!AnomalyInv
  <1>25. N!AlertsAreTold'
    <2>1. ASSUME NEW x \in N!Ids, NEW t \in Nat, N!Told(x, t) PROVE N!Told(x, t)'
      BY <1>1, <2>1 DEF N!Told
    <2>2. N!Told(i, last)'
      BY <1>1, <1>2, <1>6, <1>8, <1>13, <1>15, <1>16, <2>1 DEF N!Told, N!AlertsAreTold, N!AnomalyInv
    <2>3. QED
      BY <1>1, <1>6, <1>12, <1>15, <1>16, <1>17, <2>1, <2>2, AlertsStayTold
  <1>26. QED
    BY <1>19, <1>20, <1>21, <1>23, <1>24, <1>25 DEF N!AnomalyInv

LEMMA SuppressAnomalyInv ==
  ASSUME N!Proper, N!AnomalyInv, N!Suppress
  PROVE  N!AnomalyInv'
  <1>1. /\ job.phase = "suppress" /\ job.rows = {} /\ job.inc \in N!Ids /\ N!JobIsProper
        /\ incident[job.inc].policy = job.policy
        /\ UNCHANGED <<now, policies, operator, upsets, alerted, quiet, triggered, touched, silenced>>
    BY DEF N!Suppress, N!AnomalyInv, N!JobIsProper
  <1>2. PICK i \in N!Ids : i = job.inc
    BY <1>1
  <1>3. /\ job \in N!JobRows /\ incident \in [N!Ids -> N!IncidentRows] /\ job.row \in N!IncidentRows
        /\ skipped \in [N!Ids -> Nat] /\ job.policy \in N!Policies \cup {None}
    BY AnomalyTypes, JobFields
  <1>4. job.row.hits \in 0 .. (Cooldown - 1) /\ job.row.lastAlert \in Nat /\ job.row.streak \in Nat
    BY <1>3, IncidentFields
  <1>5. PICK enough \in BOOLEAN : enough <=> job.row.hits + 1 >= Cooldown
    BY Zenon
  <1>6. PICK hits \in 0 .. (Cooldown - 1) : hits = IF enough THEN 0 ELSE job.row.hits + 1
    BY <1>4, <1>5, AnomalyBounds
  <1>7. PICK last \in Nat, streak \in Nat : last = job.row.lastAlert /\ streak = job.row.streak
    BY <1>4
  <1>8. PICK new : new = [incident[i] EXCEPT !.streak = streak, !.hits = hits, !.lastAlert = last]
    OBVIOUS
  <1>9. /\ incident' = [incident EXCEPT ![i] = new]
        /\ IF enough
           THEN job' = [job EXCEPT !.phase = "create"] /\ N!Unsuppressed({job.policy})
           ELSE N!Finish /\ skipped' = [skipped EXCEPT ![i] = @ + 1]
    BY <1>2, <1>5, <1>6, <1>7, <1>8 DEF N!Suppress, N!WithDetails, N!Details
  <1>10. PICK old \in N!IncidentRows : old = incident[i]
    BY <1>3
  <1>11. /\ new \in N!IncidentRows /\ new.status = incident[i].status /\ new.policy = incident[i].policy
         /\ new.streak = streak /\ new.hits = hits /\ new.lastAlert = last
    BY <1>8, <1>10 DEF N!IncidentRows
  <1>12. /\ incident' \in [N!Ids -> N!IncidentRows] /\ incident'[i] = new
         /\ \A x \in N!Ids : x # i => incident'[x] = incident[x]
    BY <1>9, <1>11, AnomalyIsWritten
  <1>13. PICK me : me = job'
    OBVIOUS
  <1>14. /\ me \in N!JobRows /\ me.phase \in {"create", "next"} /\ me.rows = {} /\ me.left = job.left
         /\ me.phase = "create" => me.policy = job.policy
    <2>1. CASE enough
      BY <1>1, <1>3, <1>9, <1>13, <2>1 DEF N!JobRows, N!Phases
    <2>2. CASE ~enough
      BY <1>9, <1>13, <2>2, FinishedJob
    <2>3. QED
      BY <2>1, <2>2
  <1>15. /\ skipped' \in [N!Ids -> Nat]
         /\ \A x \in N!Ids : x # i => skipped'[x] = skipped[x] \/ skipped'[x] = 0
         /\ IF enough THEN skipped'[i] = 0 ELSE skipped'[i] = skipped[i] + 1
    <2>1. CASE enough
      BY <1>1, <1>2, <1>3, <1>9, <2>1 DEF N!Unsuppressed
    <2>2. CASE ~enough
      BY <1>3, <1>9, <2>2
    <2>3. QED
      BY <2>1, <2>2
  <1>16. N!TypeOK'
    BY <1>1, <1>12, <1>13, <1>14, <1>15 DEF N!TypeOK, N!AnomalyInv
  <1>17. N!JobIsProper'
    BY <1>1, <1>13, <1>14 DEF N!JobIsProper
  <1>18. N!RowsAreCurrent'
    BY <1>13, <1>14 DEF N!RowsAreCurrent
  <1>19. i \notin touched => job.row = incident[i] /\ incident[i].status = "resolved"
    BY <1>1, <1>2 DEF N!RowsAreCurrent, N!AnomalyInv
  <1>20. N!CountsAgree'
    <2>1. ASSUME NEW x \in N!Ids \ touched
          PROVE  /\ skipped'[x] <= incident'[x].hits
                 /\ incident'[x].status = "resolved" => quiet[x] = 3
                 /\ incident'[x].status # "resolved" =>
                     skipped'[x] = 0 /\ incident'[x].streak <= quiet[x] /\ incident'[x].streak <= 2
      <3>1. /\ skipped[x] <= incident[x].hits
            /\ incident[x].status = "resolved" => quiet[x] = 3
            /\ incident[x].status # "resolved" =>
                 skipped[x] = 0 /\ incident[x].streak <= quiet[x] /\ incident[x].streak <= 2
        BY <2>1 DEF N!CountsAgree, N!AnomalyInv
      <3>2. CASE x = i
        <4>1. skipped'[x] <= incident'[x].hits
          BY <1>3, <1>4, <1>6, <1>11, <1>12, <1>15, <1>19, <2>1, <3>1, <3>2
        <4>2. QED
          BY <1>11, <1>12, <1>19, <2>1, <3>1, <3>2, <4>1
      <3>3. CASE x # i
        <4>1. incident[x].hits \in Nat
          BY <1>3, IncidentFields, AnomalyBounds
        <4>2. QED
          BY <1>12, <1>15, <3>1, <3>3, <4>1
      <3>4. QED
        BY <3>2, <3>3
    <2>2. QED
      BY <1>1, <2>1 DEF N!CountsAgree
  <1>21. N!TriggersTrack'
    <2>1. ASSUME NEW x \in N!Ids, NEW q, N!Tracks(x, q), touched = {} PROVE N!Tracks(x, q)'
      BY <1>1, <1>12, <1>13, <1>14, <1>19, <2>1 DEF N!Tracks, N!Active
    <2>2. QED
      BY <1>1, <1>13, <1>14, <2>1 DEF N!TriggersTrack, N!AnomalyInv
  <1>22. N!AlertsAreTold'
    <2>1. ASSUME NEW x \in N!Ids, NEW t \in Nat, N!Told(x, t) PROVE N!Told(x, t)'
      BY <1>1, <2>1 DEF N!Told
    <2>2. N!Told(i, last)'
      BY <1>1, <1>2, <1>7, <2>1 DEF N!AlertsAreTold, N!AnomalyInv
    <2>3. QED
      BY <1>1, <1>11, <1>12, <1>13, <1>14, <2>1, <2>2, AlertsStayTold
  <1>23. QED
    BY <1>16, <1>17, <1>18, <1>20, <1>21, <1>22 DEF N!AnomalyInv

LEMMA CreateAnomalyInv ==
  ASSUME N!Proper, N!AnomalyInv, N!Create
  PROVE  N!AnomalyInv'
  <1>1. /\ job.phase = "create" /\ job.rows = {} /\ job.policy \in N!Policies \ job.left
        /\ job.bucket \in Nat /\ now \in Nat /\ N!JobIsProper
        /\ UNCHANGED <<now, policies, operator, upsets, alerted, quiet, triggered, skipped, touched, silenced>>
    BY AnomalyTypes, JobFields DEF N!Create, N!AnomalyInv, N!JobIsProper, N!ghosts
  <1>2. PICK i \in N!Ids :
          /\ incident[i] = N!NoRow
          /\ incident' = [incident EXCEPT ![i] =
               [N!NoRow EXCEPT !.policy = job.policy, !.bucket = job.bucket,
                               !.status = "open", !.started = now, !.lastAlert = now]]
          /\ job' = [job EXCEPT !.phase = "alert", !.inc = i, !.alert = TRUE]
    BY Zenon DEF N!Create
  <1>3. PICK new : new = [N!NoRow EXCEPT !.policy = job.policy, !.bucket = job.bucket,
                                         !.status = "open", !.started = now, !.lastAlert = now]
    OBVIOUS
  <1>4. 0 \in 0 .. (Cooldown - 1)
    BY AnomalyBounds
  <1>5. /\ new \in N!IncidentRows /\ new.status = "open" /\ new.policy = job.policy
        /\ new.streak = 0 /\ new.hits = 0 /\ new.lastAlert = now
    BY <1>1, <1>3, <1>4 DEF N!NoRow, N!IncidentRows
  <1>6. /\ incident' \in [N!Ids -> N!IncidentRows] /\ incident'[i] = new
        /\ \A x \in N!Ids : x # i => incident'[x] = incident[x]
    BY <1>2, <1>3, <1>5, AnomalyIsWritten
  <1>7. PICK me : me = job'
    OBVIOUS
  <1>8. /\ me \in N!JobRows /\ me.phase = "alert" /\ me.inc = i /\ me.rows = {} /\ me.alert = TRUE
        /\ me.left = job.left /\ me.policy = job.policy
    BY <1>1, <1>2, <1>7, AnomalyTypes DEF N!JobRows, N!Phases
  <1>9. N!TypeOK'
    BY <1>1, <1>6, <1>7, <1>8 DEF N!TypeOK, N!AnomalyInv
  <1>10. N!JobIsProper'
    BY <1>1, <1>7, <1>8 DEF N!JobIsProper
  <1>11. N!RowsAreCurrent'
    BY <1>7, <1>8 DEF N!RowsAreCurrent
  <1>12. N!CountsAgree'
    <2>1. ASSUME NEW x \in N!Ids \ touched
          PROVE  /\ skipped[x] <= incident'[x].hits
                 /\ incident'[x].status = "resolved" => quiet[x] = 3
                 /\ incident'[x].status # "resolved" =>
                     skipped[x] = 0 /\ incident'[x].streak <= quiet[x] /\ incident'[x].streak <= 2
      <3>1. CASE x = i
        <4>1. quiet[x] \in 0 .. 3 /\ skipped[x] = 0
          BY <1>2, <3>1, AnomalyTypes, NoIncidentRow, <2>1 DEF N!CountsAgree, N!AnomalyInv
        <4>2. QED
          BY <1>5, <1>6, <3>1, <4>1
      <3>2. CASE x # i
        BY <1>6, <2>1, <3>2 DEF N!CountsAgree, N!AnomalyInv
      <3>3. QED
        BY <3>1, <3>2
    <2>2. QED
      BY <1>1, <2>1 DEF N!CountsAgree
  <1>13. N!TriggersTrack'
    <2>1. ASSUME NEW x \in N!Ids, NEW q, N!Tracks(x, q) PROVE N!Tracks(x, q)'
      <3>1. x # i
        BY <1>2, <2>1, NoIncidentRow DEF N!Tracks, N!Active
      <3>2. QED
        BY <1>1, <1>6, <1>7, <1>8, <2>1, <3>1 DEF N!Tracks, N!Active
    <2>2. N!Tracks(i, job.policy)'
      BY <1>1, <1>5, <1>6, <1>7, <1>8 DEF N!Tracks, N!Active
    <2>3. QED
      BY <1>1, <1>5, <1>6, <1>7, <1>8, <2>1, <2>2 DEF N!TriggersTrack, N!AnomalyInv
  <1>14. N!AlertsAreTold'
    <2>1. ASSUME NEW x \in N!Ids, NEW t \in Nat, N!Told(x, t) PROVE N!Told(x, t)'
      BY <1>1, <2>1 DEF N!Told
    <2>2. N!Told(i, now)'
      BY <1>1, <1>7, <1>8 DEF N!Told
    <2>3. QED
      BY <1>1, <1>5, <1>6, <1>7, <1>8, <2>1, <2>2, AlertsStayTold
  <1>15. QED
    BY <1>9, <1>10, <1>11, <1>12, <1>13, <1>14 DEF N!AnomalyInv

LEMMA ClearAnomalyInv ==
  ASSUME N!Proper, N!AnomalyInv, N!Clear
  PROVE  N!AnomalyInv'
  <1>1. /\ job.phase = "clear" /\ job.policy \in N!Policies \ job.left /\ N!JobIsProper
        /\ job.rows \subseteq [inc : N!Ids, row : N!IncidentRows]
        /\ UNCHANGED <<now, policies, operator, upsets, alerted, triggered, touched, silenced>>
    BY AnomalyTypes DEF N!Clear, N!AnomalyInv, N!JobIsProper, N!JobRows
  <1>2. CASE job.rows = {} /\ N!Finish /\ N!Unsuppressed({job.policy}) /\ UNCHANGED <<incident, quiet>>
    BY <1>1, <1>2, FinishedJob, UnsuppressedCounts, AnomalyTypes, StopAnomalyInv
  <1>3. ASSUME NEW r \in job.rows, UNCHANGED skipped,
               incident' = [incident EXCEPT ![r.inc] =
                 IF r.row.streak + 1 >= 3
                 THEN N!WithDetails([@ EXCEPT !.status = "resolved", !.resolved = now],
                        [N!Details(r.row) EXCEPT !.streak = r.row.streak + 1,
                           !.hits = IF r.row.streak + 1 >= 3 THEN 0 ELSE @])
                 ELSE N!WithDetails(@,
                        [N!Details(r.row) EXCEPT !.streak = r.row.streak + 1,
                           !.hits = IF r.row.streak + 1 >= 3 THEN 0 ELSE @])],
               job' = [job EXCEPT !.rows = @ \ {r}],
               quiet' = [quiet EXCEPT ![r.inc] = IF @ < 3 THEN @ + 1 ELSE @]
        PROVE  N!AnomalyInv'
    <2>1. PICK i \in N!Ids : i = r.inc
      BY <1>1
    <2>2. /\ r.row \in N!IncidentRows /\ job \in N!JobRows /\ incident \in [N!Ids -> N!IncidentRows]
          /\ quiet \in [N!Ids -> 0 .. 3] /\ skipped \in [N!Ids -> Nat] /\ now \in Nat
      BY <1>1, AnomalyTypes
    <2>3. r.row.hits \in 0 .. (Cooldown - 1) /\ r.row.lastAlert \in Nat /\ r.row.streak \in Nat
      BY <2>2, IncidentFields
    <2>4. PICK stable \in BOOLEAN : stable <=> r.row.streak + 1 >= 3
      BY Zenon
    <2>5. PICK hits \in 0 .. (Cooldown - 1) : hits = IF stable THEN 0 ELSE r.row.hits
      BY <2>3, AnomalyBounds
    <2>6. PICK last \in Nat, streak \in Nat : last = r.row.lastAlert /\ streak = r.row.streak + 1
      BY <2>3
    <2>7. PICK old \in N!IncidentRows : old = incident[i]
      BY <2>2
    <2>8. PICK status \in {"none", "open", "acked", "resolved"}, resolved \in Nat :
            /\ status = IF stable THEN "resolved" ELSE old.status
            /\ resolved = IF stable THEN now ELSE old.resolved
      BY <2>2, <2>7, IncidentFields
    <2>9. PICK new : new = [old EXCEPT !.status = status, !.resolved = resolved,
                                       !.streak = streak, !.hits = hits, !.lastAlert = last]
      OBVIOUS
    <2>10. new = IF stable
                 THEN N!WithDetails([old EXCEPT !.status = "resolved", !.resolved = now],
                        [N!Details(r.row) EXCEPT !.streak = r.row.streak + 1, !.hits = IF stable THEN 0 ELSE @])
                 ELSE N!WithDetails(old,
                        [N!Details(r.row) EXCEPT !.streak = r.row.streak + 1, !.hits = IF stable THEN 0 ELSE @])
      BY <2>5, <2>6, <2>7, <2>8, <2>9 DEF N!WithDetails, N!Details, N!IncidentRows
    <2>11. incident' = [incident EXCEPT ![i] = new]
      BY <1>3, <2>1, <2>4, <2>7, <2>10
    <2>12. /\ new \in N!IncidentRows /\ new.status = status /\ new.policy = incident[i].policy
           /\ new.streak = streak /\ new.hits = hits /\ new.lastAlert = last
      BY <2>7, <2>9 DEF N!IncidentRows
    <2>13. /\ incident' \in [N!Ids -> N!IncidentRows] /\ incident'[i] = new
           /\ \A x \in N!Ids : x # i => incident'[x] = incident[x]
      BY <2>11, <2>12, AnomalyIsWritten
    <2>14. PICK rows : rows = job.rows \ {r}
      OBVIOUS
    <2>15. PICK me : me = job'
      OBVIOUS
    <2>16. /\ me \in N!JobRows /\ me.phase = "clear" /\ me.rows = rows /\ me.left = job.left
           /\ me.policy = job.policy
      <3>1. rows \subseteq [inc : N!Ids, row : N!IncidentRows] /\ me = [job EXCEPT !.rows = rows]
        BY <1>1, <1>3, <2>14, <2>15
      <3>2. QED
        BY <1>1, <2>2, <3>1 DEF N!JobRows, N!Phases
    <2>17. /\ quiet' \in [N!Ids -> 0 .. 3] /\ quiet'[i] = IF quiet[i] < 3 THEN quiet[i] + 1 ELSE quiet[i]
           /\ \A x \in N!Ids : x # i => quiet'[x] = quiet[x]
      <3>1. quiet[i] \in 0 .. 3
        BY <2>2
      <3>2. PICK q \in 0 .. 3 : q = IF quiet[i] < 3 THEN quiet[i] + 1 ELSE quiet[i]
        BY <3>1
      <3>3. quiet' = [quiet EXCEPT ![i] = q]
        BY <1>3, <2>1, <3>2
      <3>4. QED
        BY <2>2, <3>2, <3>3
    <2>18. N!TypeOK'
      BY <1>1, <1>3, <2>13, <2>15, <2>16, <2>17 DEF N!TypeOK, N!AnomalyInv
    <2>19. \A x \in N!Ids : incident'[x].policy = incident[x].policy
      BY <2>12, <2>13
    <2>20. N!JobIsProper'
      BY <1>1, <2>14, <2>15, <2>16, <2>19 DEF N!JobIsProper
    <2>21. i \notin touched => r.row = incident[i] /\ N!Active(i)
      BY <2>1 DEF N!RowsAreCurrent, N!AnomalyInv
    <2>22. \A x \in rows : x.inc \notin touched => x.row = incident[x.inc] /\ N!Active(x.inc) /\ x.inc # i
      <3>1. SUFFICES ASSUME NEW x \in rows, x.inc \notin touched
                     PROVE  x.row = incident[x.inc] /\ N!Active(x.inc) /\ x.inc # i
        OBVIOUS
      <3>2. x.row = incident[x.inc] /\ N!Active(x.inc)
        BY <2>14, <3>1 DEF N!RowsAreCurrent, N!AnomalyInv
      <3>3. x.inc = i => x = r
        BY <1>1, <2>1, <2>14, <2>21, <3>1, <3>2
      <3>4. QED
        BY <2>14, <3>1, <3>2, <3>3
    <2>23. N!RowsAreCurrent'
      <3>1. \A x \in rows : x.inc \in N!Ids
        BY <1>1, <2>14
      <3>2. QED
        BY <1>1, <2>13, <2>15, <2>16, <2>22, <3>1 DEF N!RowsAreCurrent, N!Active
    <2>24. N!CountsAgree'
      <3>1. ASSUME NEW x \in N!Ids \ touched
            PROVE  /\ skipped[x] <= incident'[x].hits
                   /\ incident'[x].status = "resolved" => quiet'[x] = 3
                   /\ incident'[x].status # "resolved" =>
                       skipped[x] = 0 /\ incident'[x].streak <= quiet'[x] /\ incident'[x].streak <= 2
        <4>1. /\ skipped[x] <= incident[x].hits
              /\ incident[x].status = "resolved" => quiet[x] = 3
              /\ incident[x].status # "resolved" =>
                   skipped[x] = 0 /\ incident[x].streak <= quiet[x] /\ incident[x].streak <= 2
          BY <3>1 DEF N!CountsAgree, N!AnomalyInv
        <4>2. CASE x = i
          <5>1. incident[i].status # "resolved" /\ skipped[i] = 0 /\ streak = incident[i].streak + 1
            BY <2>6, <2>21, <3>1, <4>1, <4>2 DEF N!Active
          <5>2. quiet[i] \in 0 .. 3 /\ incident[i].streak \in Nat /\ hits \in Nat
            BY <2>2, <2>5, IncidentFields, AnomalyBounds
          <5>3. stable <=> streak >= 3
            BY <2>4, <2>6
          <5>4. QED
            BY <2>7, <2>8, <2>12, <2>13, <2>17, <4>1, <4>2, <5>1, <5>2, <5>3
        <4>3. CASE x # i
          BY <2>13, <2>17, <4>1, <4>3
        <4>4. QED
          BY <4>2, <4>3
      <3>2. QED
        BY <1>1, <1>3, <3>1 DEF N!CountsAgree
    <2>25. N!TriggersTrack'
      <3>1. ASSUME NEW x \in N!Ids, NEW q, N!Tracks(x, q), touched = {} PROVE N!Tracks(x, q)'
        <4>1. CASE x = i
          <5>1. incident[i].streak = 0 /\ r.row = incident[i]
            BY <2>1, <2>21, <3>1, <4>1 DEF N!Tracks
          <5>2. stable = FALSE
            BY <2>4, <5>1
          <5>3. new.status = incident[i].status
            BY <2>7, <2>8, <2>12, <5>2
          <5>4. N!Active(i)' /\ incident'[i].policy.metric = q.metric
            BY <2>13, <2>19, <3>1, <4>1, <5>3 DEF N!Tracks, N!Active
          <5>5. ~(\E y \in rows : y.inc = i)
            BY <2>22, <3>1
          <5>6. incident[i].policy = job.policy
            BY <1>1, <2>1 DEF N!JobIsProper
          <5>7. QED
            BY <1>1, <2>13, <2>15, <2>16, <2>19, <4>1, <5>4, <5>5, <5>6 DEF N!Tracks
        <4>2. CASE x # i
          BY <2>13, <2>14, <2>15, <2>16, <3>1, <4>2 DEF N!Tracks, N!Active
        <4>3. QED
          BY <4>1, <4>2
      <3>2. QED
        BY <1>1, <2>15, <2>16, <3>1 DEF N!TriggersTrack, N!AnomalyInv
    <2>26. N!AlertsAreTold'
      <3>1. ASSUME NEW x \in N!Ids, NEW t \in Nat, N!Told(x, t) PROVE N!Told(x, t)'
        BY <1>1, <3>1 DEF N!Told
      <3>2. N!Told(i, last)'
        BY <2>1, <2>6, <3>1 DEF N!AlertsAreTold, N!AnomalyInv
      <3>3. job'.rows \subseteq job.rows
        BY <2>14, <2>15, <2>16
      <3>4. QED
        BY <1>1, <2>12, <2>13, <2>15, <2>16, <3>1, <3>2, <3>3, AlertsStayTold
    <2>27. QED
      BY <2>18, <2>20, <2>23, <2>24, <2>25, <2>26 DEF N!AnomalyInv
  <1>4. QED
    BY Zenon, <1>2, <1>3 DEF N!Clear

(* An operator writes an incident.                                            *)
LEMMA OperatorWrites ==
  ASSUME N!Proper, N!AnomalyInv, NEW i \in N!Ids, NEW new \in N!IncidentRows,
         incident' = [incident EXCEPT ![i] = new], new.policy = incident[i].policy,
         touched' = touched \cup {i}, N!Told(i, new.lastAlert), operator' \in {operator, N!NoOperator},
         upsets' \in 0 .. MaxUpsets,
         UNCHANGED <<now, policies, job, alerted, quiet, triggered, skipped, silenced>>
  PROVE  N!AnomalyInv'
  <1>1. /\ incident' \in [N!Ids -> N!IncidentRows] /\ incident'[i] = new
        /\ \A x \in N!Ids : x # i => incident'[x] = incident[x]
    BY AnomalyIsWritten
  <1>2. \A x \in N!Ids : incident'[x].policy = incident[x].policy
    BY <1>1
  <1>3. /\ operator \in [inc : N!Ids \cup {0}, row : N!IncidentRows]
        /\ N!NoOperator \in [inc : N!Ids \cup {0}, row : N!IncidentRows]
        /\ touched \subseteq N!Ids /\ job \in N!JobRows
    BY AnomalyTypes, NoIncidentRow DEF N!NoOperator
  <1>4. N!TypeOK'
    BY <1>1, <1>3 DEF N!TypeOK, N!AnomalyInv
  <1>5. \A r \in job.rows : r.inc \in N!Ids
    BY <1>3, JobFields
  <1>6. N!JobIsProper'
    <2>1. N!JobIsProper
      BY DEF N!AnomalyInv
    <2>2. operator' # N!NoOperator => operator'.inc \in N!Ids
      BY <2>1 DEF N!JobIsProper
    <2>3. QED
      BY <1>2, <1>5, <2>1, <2>2 DEF N!JobIsProper, N!NoOperator, N!NoRow
  <1>7. N!RowsAreCurrent'
    BY <1>1, <1>5 DEF N!RowsAreCurrent, N!Active, N!AnomalyInv, N!JobIsProper
  <1>8. N!CountsAgree'
    BY <1>1 DEF N!CountsAgree, N!AnomalyInv
  <1>9. N!TriggersTrack'
    BY DEF N!TriggersTrack
  <1>10. N!AlertsAreTold'
    <2>1. ASSUME NEW x \in N!Ids, NEW t, N!Told(x, t) PROVE N!Told(x, t)'
      BY <2>1 DEF N!Told
    <2>2. ASSUME NEW x \in N!Ids, NEW t, t = incident'[x].lastAlert PROVE N!Told(x, t)'
      <3>1. N!Told(x, incident[x].lastAlert)
        BY DEF N!AlertsAreTold, N!AnomalyInv
      <3>2. N!Told(x, t)
        BY <1>1, <2>2, <3>1
      <3>3. QED
        BY <2>1, <3>2
    <2>3. job.phase \in {"refresh", "suppress"} => N!Told(job.inc, job.row.lastAlert)'
      BY <2>1 DEF N!AlertsAreTold, N!AnomalyInv, N!JobIsProper
    <2>4. ASSUME NEW r \in job.rows PROVE N!Told(r.inc, r.row.lastAlert)'
      BY <1>5, <2>1 DEF N!AlertsAreTold, N!AnomalyInv
    <2>5. ASSUME NEW op, op = operator', op # N!NoOperator PROVE N!Told(op.inc, op.row.lastAlert)'
      <3>1. op = operator /\ op.inc \in N!Ids
        BY <2>5 DEF N!AnomalyInv, N!JobIsProper
      <3>2. N!Told(op.inc, op.row.lastAlert)
        BY <2>5, <3>1 DEF N!AlertsAreTold, N!AnomalyInv
      <3>3. QED
        BY <2>1, <3>1, <3>2
    <2>6. QED
      BY <2>2, <2>3, <2>4, <2>5 DEF N!AlertsAreTold, N!NoOperator, N!NoRow, N!Told
  <1>11. QED
    BY <1>4, <1>6, <1>7, <1>8, <1>9, <1>10 DEF N!AnomalyInv

LEMMA AcknowledgeAnomalyInv ==
  ASSUME N!Proper, N!AnomalyInv, NEW i \in N!Ids, N!Acknowledge(i)
  PROVE  N!AnomalyInv'
  <1>1. PICK old \in N!IncidentRows : old = incident[i]
    BY AnomalyTypes
  <1>2. PICK new : new = [old EXCEPT !.status = "acked"]
    OBVIOUS
  <1>3. /\ new \in N!IncidentRows /\ new.policy = incident[i].policy
        /\ new.lastAlert = incident[i].lastAlert
    BY <1>1, <1>2 DEF N!IncidentRows
  <1>4. /\ incident' = [incident EXCEPT ![i] = new] /\ touched' = touched \cup {i}
        /\ UNCHANGED <<now, policies, job, operator, alerted, quiet, triggered, skipped, silenced>>
    BY <1>1, <1>2 DEF N!Acknowledge
  <1>5. upsets' \in 0 .. MaxUpsets
    BY AnomalyTypes, AnomalyBounds DEF N!Acknowledge
  <1>6. N!Told(i, new.lastAlert)
    BY <1>3 DEF N!AnomalyInv, N!AlertsAreTold
  <1>7. QED
    BY <1>3, <1>4, <1>5, <1>6, OperatorWrites

LEMMA EndResolveAnomalyInv ==
  ASSUME N!Proper, N!AnomalyInv, N!EndResolve
  PROVE  N!AnomalyInv'
  <1>1. /\ operator # N!NoOperator /\ operator' = N!NoOperator
        /\ touched' = touched \cup {operator.inc}
        /\ UNCHANGED <<now, policies, job, upsets, alerted, quiet, triggered, skipped, silenced>>
    BY DEF N!EndResolve
  <1>2. PICK i \in N!Ids : i = operator.inc
    BY <1>1 DEF N!AnomalyInv, N!JobIsProper
  <1>3. operator.row \in N!IncidentRows /\ now \in Nat /\ upsets \in 0 .. MaxUpsets
    BY AnomalyTypes
  <1>4. PICK last \in Nat, streak \in Nat : last = operator.row.lastAlert /\ streak = operator.row.streak
    BY <1>3, IncidentFields
  <1>5. PICK old \in N!IncidentRows : old = incident[i]
    BY AnomalyTypes
  <1>6. PICK new : new = [old EXCEPT !.status = "resolved", !.resolved = now, !.streak = streak,
                                     !.hits = 0, !.lastAlert = last]
    OBVIOUS
  <1>7. incident' = [incident EXCEPT ![i] = new]
    BY <1>2, <1>4, <1>5, <1>6 DEF N!EndResolve, N!WithDetails, N!Details
  <1>8. 0 \in 0 .. (Cooldown - 1)
    BY AnomalyBounds
  <1>9. new \in N!IncidentRows /\ new.policy = incident[i].policy /\ new.lastAlert = last
    BY <1>3, <1>5, <1>6, <1>8 DEF N!IncidentRows
  <1>10. N!Told(i, last)
    BY <1>1, <1>2, <1>4 DEF N!AnomalyInv, N!AlertsAreTold
  <1>11. QED
    BY <1>1, <1>2, <1>3, <1>7, <1>9, <1>10, OperatorWrites

LEMMA BeginResolveAnomalyInv ==
  ASSUME N!Proper, N!AnomalyInv, NEW i \in N!Ids, N!BeginResolve(i)
  PROVE  N!AnomalyInv'
  <1>1. /\ operator' = [inc |-> i, row |-> incident[i]]
        /\ UNCHANGED <<now, policies, incident, job, alerted, quiet, triggered, skipped, touched, silenced>>
    BY DEF N!BeginResolve, N!ghosts
  <1>2. operator' \in [inc : N!Ids \cup {0}, row : N!IncidentRows] /\ upsets' \in 0 .. MaxUpsets
    BY <1>1, AnomalyTypes, AnomalyBounds DEF N!BeginResolve
  <1>3. operator'.inc = i /\ operator'.row.lastAlert = incident[i].lastAlert
    BY <1>1
  <1>4. N!TypeOK'
    BY <1>1, <1>2 DEF N!TypeOK, N!AnomalyInv
  <1>5. N!JobIsProper'
    BY <1>1, <1>3 DEF N!JobIsProper, N!AnomalyInv
  <1>6. N!RowsAreCurrent' /\ N!CountsAgree' /\ N!TriggersTrack'
    BY <1>1 DEF N!RowsAreCurrent, N!CountsAgree, N!TriggersTrack, N!Tracks, N!Active, N!AnomalyInv
  <1>7. N!AlertsAreTold'
    BY <1>1, <1>3 DEF N!AlertsAreTold, N!Told, N!AnomalyInv
  <1>8. QED
    BY <1>4, <1>5, <1>6, <1>7 DEF N!AnomalyInv

LEMMA TickAnomalyInv ==
  ASSUME N!Proper, N!AnomalyInv, N!Tick
  PROVE  N!AnomalyInv'
  <1>1. /\ now < AnomalyNow /\ now' = now + 1
        /\ UNCHANGED <<policies, incident, job, operator, upsets, alerted, quiet, triggered, skipped, touched, silenced>>
    BY DEF N!Tick, N!ghosts
  <1>2. now \in Nat /\ now' \in 1 .. AnomalyNow
    BY <1>1, AnomalyTypes, AnomalyBounds
  <1>3. N!TypeOK'
    BY <1>1, <1>2 DEF N!TypeOK, N!AnomalyInv
  <1>4. N!JobIsProper'
    BY <1>1 DEF N!JobIsProper, N!AnomalyInv
  <1>5. N!RowsAreCurrent' /\ N!CountsAgree' /\ N!TriggersTrack'
    BY <1>1 DEF N!RowsAreCurrent, N!CountsAgree, N!TriggersTrack, N!Tracks, N!Active, N!AnomalyInv
  <1>6. ASSUME NEW i, NEW t \in Nat, N!Told(i, t) PROVE N!Told(i, t)'
    BY <1>1, <1>2, <1>6 DEF N!Told
  <1>7. N!AlertsAreTold'
    <2>1. /\ \A i \in N!Ids : incident[i].lastAlert \in Nat
          /\ job.row.lastAlert \in Nat /\ operator.row.lastAlert \in Nat
          /\ \A r \in job.rows : r.row.lastAlert \in Nat
      BY AnomalyTypes, IncidentFields, JobFields
    <2>2. N!AlertsAreTold
      BY DEF N!AnomalyInv
    <2>3. QED
      BY <1>1, <1>6, <2>1, <2>2 DEF N!AlertsAreTold
  <1>8. QED
    BY <1>3, <1>4, <1>5, <1>7 DEF N!AnomalyInv

LEMMA NextAnomalyInv ==
  ASSUME N!Proper, N!AnomalyInv, [N!Next]_(N!vars)
  PROVE  N!AnomalyInv'
  <1>1. CASE N!Next
    BY <1>1, BeginAnomalyInv, EvaluateAnomalyInv, FindAnomalyInv, RefreshAnomalyInv, AlertAnomalyInv,
       LookBackAnomalyInv, SuppressAnomalyInv, CreateAnomalyInv, ClearAnomalyInv, EndAnomalyInv,
       AbortAnomalyInv, AcknowledgeAnomalyInv, BeginResolveAnomalyInv, EndResolveAnomalyInv,
       TickAnomalyInv DEF N!Next
  <1>2. CASE UNCHANGED N!vars
    <2>1. UNCHANGED <<now, policies, incident, job, operator, upsets,
                      alerted, quiet, triggered, skipped, touched, silenced>>
      BY <1>2 DEF N!vars
    <2>2. N!TypeOK' /\ N!JobIsProper'
      BY <2>1 DEF N!TypeOK, N!JobIsProper, N!AnomalyInv
    <2>3. N!RowsAreCurrent' /\ N!CountsAgree' /\ N!TriggersTrack' /\ N!AlertsAreTold'
      BY <2>1 DEF N!RowsAreCurrent, N!CountsAgree, N!TriggersTrack, N!Tracks, N!Active,
        N!AlertsAreTold, N!Told, N!AnomalyInv
    <2>4. QED
      BY <2>2, <2>3 DEF N!AnomalyInv
  <1>3. QED
    BY <1>1, <1>2

----------------------------------------------------------------------------
(* Views.                                                                  *)

(* FiniteSets, which Views extends, is here under another name.               *)
LEMMA SameFinite ==
  /\ \A X : V!IsFiniteSet(X) <=> IsFiniteSet(X)
  /\ \A X : V!Cardinality(X) = Cardinality(X)
  BY DEF V!IsFiniteSet, IsFiniteSet, V!Cardinality, Cardinality

LEMMA FailingSplits ==
  ASSUME NEW K, NEW E
  PROVE  V!Failing(K, E) <=> V!IncidentsAlarm(K) \/ V!EventsAlarm(E)
  <1>1. V!WorkflowState(K, E) = "failing" => V!IncidentsAlarm(K) \/ V!EventsAlarm(E)
    BY DEF V!WorkflowState, V!IncidentsAlarm, V!EventsAlarm, V!Severities
  <1>2. V!EventsAlarm(E) => V!WorkflowState(K, E) = "failing"
    BY DEF V!WorkflowState, V!EventsAlarm, V!Severities
  <1>3. QED
    BY <1>1, <1>2 DEF V!Failing, V!IncidentsAlarm

LEMMA NothingAlarms ==
  ASSUME NEW E
  PROVE  /\ ~V!IncidentsAlarm({})
         /\ V!GlobalState(request) = "failing" => V!Failing(request.incidents, request.events)
         /\ V!GlobalState(request) \in {"healthy", "unknown"} => request.incidents = {}
  BY DEF V!IncidentsAlarm, V!Severities, V!GlobalState

LEMMA InitViewsInv ==
  ASSUME V!Proper, V!Init
  PROVE  V!ViewsInv
  <1>1. /\ incident \in [IncidentIds -> Kinds \cup {None}] /\ event \in Pasts
        /\ completed \in (1 .. Now) \cup {None} /\ request = V!Idle /\ changes = 0
        /\ steady = {} /\ alarmed = FALSE /\ begun = 0 /\ answer = V!NoAnswer
    BY DEF V!Init
  <1>2. /\ request.begun = FALSE /\ request.done = {} /\ request.count \in [V!Classes -> Nat]
    BY <1>1 DEF V!Idle
  <1>3. V!IsFiniteSet(event) /\ \A e \in event : e.at \in 1 .. Now
    BY <1>1 DEF V!Proper
  <1>4. changes \in 0 .. MaxChanges
    BY <1>1 DEF V!Proper
  <1>5. V!TypeOK
    BY <1>1, <1>2, <1>3, <1>4 DEF V!TypeOK
  <1>6. V!ReadsAreTrue
    BY <1>2 DEF V!ReadsAreTrue
  <1>7. V!HealthyIsQuiet /\ V!FailingIsTrue /\ V!CountsAddUp
    BY <1>1 DEF V!HealthyIsQuiet, V!FailingIsTrue, V!CountsAddUp, V!NoAnswer, V!Proper
  <1>8. QED
    BY <1>5, <1>6, <1>7 DEF V!ViewsInv

LEMMA ViewTypes ==
  ASSUME V!Proper, V!ViewsInv
  PROVE  /\ incident \in [IncidentIds -> Kinds \cup {None}]
         /\ IsFiniteSet(event) /\ \A e \in event : e.at \in 1 .. Now
         /\ completed \in (1 .. Now) \cup {None}
         /\ request.done \subseteq V!Reads /\ request.count \in [V!Classes -> Nat]
         /\ steady \subseteq V!Active /\ changes \in 0 .. MaxChanges
         /\ Now \in Nat \ {0} /\ Hour \in Nat /\ Fresh \in Nat /\ Fresh <= Hour
  BY SameFinite DEF V!ViewsInv, V!TypeOK, V!Proper

LEMMA RecentGrows ==
  ASSUME NEW E, NEW F, E \subseteq F, IsFiniteSet(F)
  PROVE  /\ IsFiniteSet(V!Recent(E)) /\ V!Cardinality(V!Recent(E)) \in Nat /\ V!Cardinality(V!Recent(F)) \in Nat
         /\ V!Cardinality(V!Recent(E)) <= V!Cardinality(V!Recent(F))
  <1>1. V!Recent(F) \in SUBSET F /\ V!Recent(E) \in SUBSET V!Recent(F)
    BY DEF V!Recent
  <1>2. IsFiniteSet(V!Recent(F))
    BY <1>1, FS_Subset
  <1>3. QED
    BY <1>1, <1>2, FS_Subset, FS_CardinalityType, SameFinite

LEMMA CountsGrow ==
  ASSUME NEW E, NEW F, E \subseteq F, IsFiniteSet(F), NEW c,
         NEW X, X = {e \in V!Recent(E) : V!CountedAs(e, c)},
         NEW Y, Y = {e \in V!Recent(F) : V!CountedAs(e, c)}
  PROVE  /\ IsFiniteSet(X) /\ V!Cardinality(X) \in Nat /\ V!Cardinality(Y) \in Nat
         /\ V!Cardinality(X) <= V!Cardinality(Y)
         /\ V!Cardinality(Y) <= V!Cardinality(V!Recent(F))
  <1>1. IsFiniteSet(V!Recent(F)) /\ V!Recent(E) \subseteq V!Recent(F)
    BY RecentGrows DEF V!Recent
  <1>2. Y \in SUBSET V!Recent(F) /\ X \in SUBSET Y
    BY <1>1
  <1>3. IsFiniteSet(Y)
    BY <1>1, <1>2, FS_Subset
  <1>4. QED
    BY <1>1, <1>2, <1>3, FS_Subset, FS_CardinalityType, SameFinite

(* What changes during a request: an incident opens or closes, or an event    *)
(* arrives.                                                                   *)
LEMMA ChangesKeepViews ==
  ASSUME V!Proper, V!ViewsInv, V!Meanwhile, V!Watch,
         incident' \in [IncidentIds -> Kinds \cup {None}], UNCHANGED completed,
         IsFiniteSet(event'), event \subseteq event', \A e \in event' : e.at \in 1 .. Now
  PROVE  V!ViewsInv'
  <1>1. /\ changes' \in 0 .. MaxChanges /\ UNCHANGED <<request, begun, answer>> /\ request.begun
    BY ViewTypes DEF V!Meanwhile, V!Proper
  <1>2. steady' \subseteq V!Active' /\ steady' \subseteq steady
    BY ViewTypes DEF V!Watch, V!Active
  <1>3. V!TypeOK'
    BY <1>1, <1>2, ViewTypes, SameFinite DEF V!TypeOK
  <1>4. V!HealthyIsQuiet' /\ V!FailingIsTrue' /\ V!CountsAddUp'
    BY <1>1 DEF V!ViewsInv, V!HealthyIsQuiet, V!FailingIsTrue, V!CountsAddUp
  <1>5. V!KindsOf(V!Active)' = {incident'[i] : i \in IncidentIds} \ {None}
    BY DEF V!KindsOf, V!Active
  <1>6. alarmed' <=> alarmed \/ V!Failing(V!KindsOf(V!Active)', event')
    BY <1>5 DEF V!Watch
  <1>7. V!IncidentsAlarm(V!KindsOf(V!Active))' \/ V!EventsAlarm(event)' => alarmed'
    <2>1. PICK K, E : K = V!KindsOf(V!Active)' /\ E = event'
      OBVIOUS
    <2>2. V!IncidentsAlarm(K) \/ V!EventsAlarm(E) => alarmed'
      BY <1>6, <2>1, FailingSplits
    <2>3. QED
      BY <2>1, <2>2 DEF V!IncidentsAlarm, V!EventsAlarm
  <1>8. /\ V!Cardinality(V!Recent(event)) \in Nat /\ V!Cardinality(V!Recent(event))' \in Nat
        /\ V!Cardinality(V!Recent(event)) <= V!Cardinality(V!Recent(event))'
    <2>1. PICK E, F : E = event /\ F = event'
      OBVIOUS
    <2>2. V!Cardinality(V!Recent(E)) \in Nat /\ V!Cardinality(V!Recent(F)) \in Nat
          /\ V!Cardinality(V!Recent(E)) <= V!Cardinality(V!Recent(F))
      BY <2>1, RecentGrows
    <2>3. V!Recent(F) = V!Recent(event)'
      BY <2>1 DEF V!Recent
    <2>4. V!Cardinality(V!Recent(F)) = V!Cardinality(V!Recent(event))'
      BY <2>3, SameFinite
    <2>5. QED
      BY <2>1, <2>2, <2>4
  <1>9. \A c \in V!Classes :
          V!Counted(c) \in Nat /\ V!Counted(c)' \in Nat /\ V!Counted(c) <= V!Counted(c)'
    <2>1. SUFFICES ASSUME NEW c \in V!Classes
                   PROVE  V!Counted(c) \in Nat /\ V!Counted(c)' \in Nat /\ V!Counted(c) <= V!Counted(c)'
      OBVIOUS
    <2>2. PICK E, F : E = event /\ F = event'
      OBVIOUS
    <2>3. PICK X, Y : X = {e \in V!Recent(E) : V!CountedAs(e, c)} /\ Y = {e \in V!Recent(F) : V!CountedAs(e, c)}
      OBVIOUS
    <2>4. V!Cardinality(X) \in Nat /\ V!Cardinality(Y) \in Nat /\ V!Cardinality(X) <= V!Cardinality(Y)
      BY <2>2, <2>3, CountsGrow
    <2>5. V!Counted(c) = V!Cardinality(X)
      BY <2>2, <2>3 DEF V!Counted
    <2>6. Y = {e \in V!Recent(event) : V!CountedAs(e, c)}'
      BY <2>2, <2>3 DEF V!Recent, V!CountedAs
    <2>7. V!Counted(c)' = V!Cardinality(Y)
      BY <2>6, SameFinite DEF V!Counted
    <2>8. QED
      BY <2>4, <2>5, <2>7
  <1>10. V!ReadsAreTrue'
    <2>1. V!ReadsAreTrue /\ request.begun
      BY <1>1 DEF V!ViewsInv
    <2>2. request.count \in [V!Classes -> Nat]
      BY ViewTypes
    <2>3. \A c \in V!Classes \cap request.done : request.count[c] <= V!Counted(c)'
      BY <1>9, <2>1, <2>2 DEF V!ReadsAreTrue
    <2>4. "incidents" \in request.done /\ V!IncidentsAlarm(request.incidents) => alarmed'
      BY <1>6, <2>1 DEF V!ReadsAreTrue
    <2>5. "events" \in request.done /\ V!EventsAlarm(request.events) => alarmed'
      BY <1>6, <2>1 DEF V!ReadsAreTrue
    <2>6. V!IncidentsAlarm(request.incidents)' <=> V!IncidentsAlarm(request.incidents)
      BY <1>1 DEF V!IncidentsAlarm
    <2>7. V!EventsAlarm(request.events)' <=> V!EventsAlarm(request.events)
      BY <1>1 DEF V!EventsAlarm
    <2>8. "incidents" \in request.done /\ request.incidents = {} => steady' = {}
      BY <1>2, <2>1 DEF V!ReadsAreTrue
    <2>9. begun \in Nat /\ begun <= V!Cardinality(V!Recent(event))'
      BY <1>8, <2>1 DEF V!ReadsAreTrue
    <2>10. QED
      BY <1>1, <1>7, <2>1, <2>3, <2>4, <2>5, <2>6, <2>7, <2>8, <2>9 DEF V!ReadsAreTrue
  <1>11. QED
    BY <1>3, <1>4, <1>10 DEF V!ViewsInv

LEMMA MeanwhileViewsInv ==
  ASSUME V!Proper, V!ViewsInv, V!Open \/ V!Close \/ V!Arrive
  PROVE  V!ViewsInv'
  <1>1. CASE V!Open
    <2>1. V!Meanwhile /\ V!Watch /\ UNCHANGED <<event, completed>>
      BY <1>1 DEF V!Open
    <2>2. incident' \in [IncidentIds -> Kinds \cup {None}]
      BY <1>1, ViewTypes DEF V!Open
    <2>3. QED
      BY <2>1, <2>2, ViewTypes, ChangesKeepViews
  <1>2. CASE V!Close
    <2>1. V!Meanwhile /\ V!Watch /\ UNCHANGED <<event, completed>>
      BY <1>2 DEF V!Close
    <2>2. incident' \in [IncidentIds -> Kinds \cup {None}]
      BY <1>2, ViewTypes DEF V!Close
    <2>3. QED
      BY <2>1, <2>2, ViewTypes, ChangesKeepViews
  <1>3. CASE V!Arrive
    <2>1. V!Meanwhile /\ V!Watch /\ UNCHANGED <<incident, completed>>
      BY <1>3 DEF V!Arrive
    <2>2. PICK r \in Reports :
            event' = event \cup {[ties |-> r.ties, type |-> r.type, status |-> r.status,
                                  blank |-> r.blank, outcome |-> r.outcome,
                                  at |-> Now, id |-> V!Cardinality(event) + 1]}
      BY <1>3 DEF V!Arrive
    <2>3. PICK new : new = [ties |-> r.ties, type |-> r.type, status |-> r.status,
                            blank |-> r.blank, outcome |-> r.outcome,
                            at |-> Now, id |-> V!Cardinality(event) + 1]
      OBVIOUS
    <2>4. event' = event \cup {new} /\ new.at = Now
      BY <2>2, <2>3
    <2>5. IsFiniteSet(event')
      BY <2>4, ViewTypes, FS_AddElement
    <2>6. \A e \in event' : e.at \in 1 .. Now
      BY <2>4, ViewTypes
    <2>7. QED
      BY <2>1, <2>4, <2>5, <2>6, ViewTypes, ChangesKeepViews
  <1>4. QED
    BY <1>1, <1>2, <1>3

LEMMA CompleteViewsInv ==
  ASSUME V!Proper, V!ViewsInv, V!Complete
  PROVE  V!ViewsInv'
  <1>1. /\ changes' \in 0 .. MaxChanges /\ completed' = Now
        /\ UNCHANGED <<request, begun, answer, incident, event, steady, alarmed>>
    BY ViewTypes DEF V!Complete, V!Meanwhile, V!Proper
  <1>2. V!TypeOK'
    BY <1>1, ViewTypes, SameFinite DEF V!TypeOK, V!Active
  <1>3. V!ReadsAreTrue'
    BY <1>1, SameFinite DEF V!ViewsInv, V!ReadsAreTrue, V!IncidentsAlarm, V!EventsAlarm, V!KindsOf, V!Active,
      V!Counted, V!Recent
  <1>4. V!HealthyIsQuiet' /\ V!FailingIsTrue' /\ V!CountsAddUp'
    BY <1>1 DEF V!ViewsInv, V!HealthyIsQuiet, V!FailingIsTrue, V!CountsAddUp
  <1>5. QED
    BY <1>2, <1>3, <1>4 DEF V!ViewsInv

LEMMA BeginViewsInv ==
  ASSUME V!Proper, V!ViewsInv, V!Begin
  PROVE  V!ViewsInv'
  <1>1. /\ ~request.begun /\ request' = [V!Idle EXCEPT !.begun = TRUE]
        /\ steady' = V!Active /\ alarmed' = V!Failing(V!KindsOf(V!Active), event)
        /\ begun' = V!Cardinality(V!Recent(event))
        /\ UNCHANGED <<incident, event, completed, changes, answer>>
    BY DEF V!Begin
  <1>2. /\ request'.begun = TRUE /\ request'.done = {} /\ request'.count \in [V!Classes -> Nat]
    BY <1>1 DEF V!Idle
  <1>3. V!TypeOK'
    BY <1>1, <1>2, ViewTypes, SameFinite DEF V!TypeOK, V!Active
  <1>4. V!Cardinality(V!Recent(event)) \in Nat /\ V!Recent(event)' = V!Recent(event)
    BY <1>1, ViewTypes, RecentGrows DEF V!Recent
  <1>5. begun' \in Nat /\ begun' <= V!Cardinality(V!Recent(event))'
    BY <1>1, <1>4, SameFinite
  <1>6. V!IncidentsAlarm(V!KindsOf(V!Active))' \/ V!EventsAlarm(event)' => alarmed'
    <2>1. V!IncidentsAlarm(V!KindsOf(V!Active)) \/ V!EventsAlarm(event) => alarmed'
      BY <1>1, FailingSplits
    <2>2. QED
      BY <1>1, <2>1 DEF V!IncidentsAlarm, V!EventsAlarm, V!KindsOf, V!Active
  <1>7. V!ReadsAreTrue'
    BY <1>2, <1>5, <1>6 DEF V!ReadsAreTrue
  <1>8. V!HealthyIsQuiet' /\ V!FailingIsTrue' /\ V!CountsAddUp'
    BY <1>1 DEF V!ViewsInv, V!HealthyIsQuiet, V!FailingIsTrue, V!CountsAddUp
  <1>9. QED
    BY <1>3, <1>7, <1>8 DEF V!ViewsInv

LEMMA ReadViewsInv ==
  ASSUME V!Proper, V!ViewsInv, V!Read
  PROVE  V!ViewsInv'
  <1>1. request.begun /\ UNCHANGED <<incident, event, completed, changes, steady, alarmed, begun, answer>>
    BY DEF V!Read
  <1>2. PICK r \in V!Reads \ request.done :
          request' = [request EXCEPT
            !.done = @ \cup {r},
            !.incidents = IF r = "incidents" THEN V!KindsOf(V!Active) ELSE @,
            !.events = IF r = "events" THEN event ELSE @,
            !.completed = IF r = "stage" THEN completed ELSE @,
            !.count = [c \in V!Classes |->
                IF c = r THEN V!Cardinality({e \in V!Recent(event) : V!CountedAs(e, c)}) ELSE @[c]]]
    BY DEF V!Read
  <1>3. /\ request'.begun = request.begun /\ request'.done = request.done \cup {r}
        /\ request'.incidents = IF r = "incidents" THEN V!KindsOf(V!Active) ELSE request.incidents
        /\ request'.events = IF r = "events" THEN event ELSE request.events
        /\ request'.count = [c \in V!Classes |-> IF c = r THEN V!Counted(c) ELSE request.count[c]]
    BY <1>2 DEF V!Counted
  <1>4. \A c \in V!Classes : V!Counted(c) \in Nat
    <2>1. ASSUME NEW c \in V!Classes PROVE V!Counted(c) \in Nat
      <3>1. PICK X : X = {e \in V!Recent(event) : V!CountedAs(e, c)}
        OBVIOUS
      <3>2. V!Cardinality(X) \in Nat
        BY <3>1, ViewTypes, CountsGrow
      <3>3. QED
        BY <3>1, <3>2 DEF V!Counted
    <2>2. QED
      BY <2>1
  <1>5. request'.done \subseteq V!Reads /\ request'.count \in [V!Classes -> Nat]
    BY <1>3, <1>4, ViewTypes
  <1>6. V!TypeOK'
    BY <1>1, <1>5, ViewTypes, SameFinite DEF V!TypeOK, V!Active
  <1>7. V!HealthyIsQuiet' /\ V!FailingIsTrue' /\ V!CountsAddUp'
    BY <1>1 DEF V!ViewsInv, V!HealthyIsQuiet, V!FailingIsTrue, V!CountsAddUp
  <1>8. V!KindsOf(V!Active)' = V!KindsOf(V!Active) /\ V!Recent(event)' = V!Recent(event)
    BY <1>1 DEF V!KindsOf, V!Active, V!Recent
  <1>9. \A c : V!Counted(c)' = V!Counted(c)
    BY <1>8, SameFinite DEF V!Counted, V!CountedAs
  <1>10. V!ReadsAreTrue
    BY DEF V!ViewsInv
  <1>11. "incidents" \in request'.done /\ request'.incidents = {} => steady' = {}
    <2>1. CASE r = "incidents"
      <3>1. V!KindsOf(V!Active) = {} => V!Active = {}
        BY DEF V!KindsOf
      <3>2. QED
        BY <1>1, <1>3, <2>1, <3>1, ViewTypes
    <2>2. CASE r # "incidents"
      BY <1>1, <1>3, <1>10, <2>2 DEF V!ReadsAreTrue
    <2>3. QED
      BY <2>1, <2>2
  <1>12. "incidents" \in request'.done /\ V!IncidentsAlarm(request.incidents)' => alarmed'
    <2>1. PICK K : K = request'.incidents
      OBVIOUS
    <2>2. "incidents" \in request'.done /\ V!IncidentsAlarm(K) => alarmed
      BY <1>1, <1>3, <1>10, <2>1 DEF V!ReadsAreTrue
    <2>3. QED
      BY <1>1, <2>1, <2>2 DEF V!IncidentsAlarm
  <1>13. "events" \in request'.done /\ V!EventsAlarm(request.events)' => alarmed'
    <2>1. PICK E : E = request'.events
      OBVIOUS
    <2>2. "events" \in request'.done /\ V!EventsAlarm(E) => alarmed
      BY <1>1, <1>3, <1>10, <2>1 DEF V!ReadsAreTrue
    <2>3. QED
      BY <1>1, <2>1, <2>2 DEF V!EventsAlarm
  <1>14. V!IncidentsAlarm(V!KindsOf(V!Active))' \/ V!EventsAlarm(event)' => alarmed'
    BY <1>1, <1>8, <1>10 DEF V!ReadsAreTrue, V!IncidentsAlarm, V!EventsAlarm
  <1>15. begun' \in Nat /\ begun' <= V!Cardinality(V!Recent(event))'
    BY <1>1, <1>8, <1>10, SameFinite DEF V!ReadsAreTrue
  <1>16. \A c \in V!Classes \cap request'.done : request'.count[c] <= V!Counted(c)'
    <2>1. SUFFICES ASSUME NEW c \in V!Classes, c \in request'.done
                   PROVE  request'.count[c] <= V!Counted(c)
      BY <1>9
    <2>2. CASE c = r
      BY <1>3, <1>4, <2>1, <2>2
    <2>3. CASE c # r
      <3>1. c \in V!Classes \cap request.done /\ request'.count[c] = request.count[c]
        BY <1>3, <2>1, <2>3
      <3>2. request.count[c] <= V!Counted(c)
        BY <1>1, <1>10, <3>1 DEF V!ReadsAreTrue
      <3>3. QED
        BY <3>1, <3>2
    <2>4. QED
      BY <2>2, <2>3
  <1>17. "total" \in request'.done => begun' <= request'.count["total"]
    <2>1. "total" \in V!Classes
      BY DEF V!Classes
    <2>2. CASE r = "total"
      <3>1. V!Recent(event) = {e \in V!Recent(event) : V!CountedAs(e, "total")}
        BY DEF V!CountedAs
      <3>2. V!Counted("total") = V!Cardinality(V!Recent(event))
        BY <3>1 DEF V!Counted
      <3>3. QED
        BY <1>1, <1>3, <1>10, <2>1, <2>2, <3>2 DEF V!ReadsAreTrue
    <2>3. CASE r # "total"
      BY <1>1, <1>3, <1>10, <2>1, <2>3 DEF V!ReadsAreTrue
    <2>4. QED
      BY <2>2, <2>3
  <1>18. V!ReadsAreTrue'
    BY <1>11, <1>12, <1>13, <1>14, <1>15, <1>16, <1>17 DEF V!ReadsAreTrue
  <1>19. QED
    BY <1>6, <1>7, <1>18 DEF V!ViewsInv

(* The sum of an answer lies between the counts at its two ends.              *)
LEMMA SumIsBetween ==
  ASSUME V!Proper, V!ViewsInv, request.begun, request.done = V!Reads
  PROVE  V!CountSum(request) \in begun .. V!Cardinality(V!Recent(event))
  <1>1. IsFiniteSet(event) /\ request.count \in [V!Classes -> Nat]
    BY ViewTypes
  <1>2. PICK All : All = V!Recent(event)
    OBVIOUS
  <1>3. IsFiniteSet(All) /\ Cardinality(All) \in Nat
    BY <1>1, <1>2, RecentGrows, FS_CardinalityType
  <1>4. PICK X, Y, Z :
          /\ X = {e \in All : V!CountedAs(e, "succeeded")}
          /\ Y = {e \in All : V!CountedAs(e, "failed")}
          /\ Z = {e \in All : V!CountedAs(e, "timedOut")}
    OBVIOUS
  <1>5. X \in SUBSET All /\ Y \in SUBSET All /\ Z \in SUBSET All
    BY <1>4
  <1>6. /\ IsFiniteSet(X) /\ IsFiniteSet(Y) /\ IsFiniteSet(Z)
        /\ Cardinality(X) \in Nat /\ Cardinality(Y) \in Nat /\ Cardinality(Z) \in Nat
    BY <1>3, <1>5, FS_Subset, FS_CardinalityType
  <1>7. X \cap Y = {} /\ (X \cup Y) \cap Z = {} /\ (X \cup Y) \cup Z \in SUBSET All
    <2>1. \A e : /\ ~(V!CountedAs(e, "succeeded") /\ V!CountedAs(e, "failed"))
                 /\ ~(V!CountedAs(e, "succeeded") /\ V!CountedAs(e, "timedOut"))
                 /\ ~(V!CountedAs(e, "failed") /\ V!CountedAs(e, "timedOut"))
      <3>1. \A e : V!CountedAs(e, "succeeded") => e.type[2] \in {"succeeded", "completed"}
        <4>1. \A e : V!CountedAs(e, "succeeded") =>
                \/ e.type = <<"workflow", "succeeded">>
                \/ e.type = <<"workflow", "completed">> \/ e.type = <<"job", "completed">>
          BY DEF V!CountedAs
        <4>2. QED
          BY <4>1
      <3>2. \A e : V!CountedAs(e, "failed") => e.type[2] = "failed"
        <4>1. \A e : V!CountedAs(e, "failed") =>
                e.type = <<"workflow", "failed">> \/ e.type = <<"job", "failed">>
          BY DEF V!CountedAs
        <4>2. QED
          BY <4>1
      <3>3. \A e : V!CountedAs(e, "timedOut") => e.type[2] \in {"timed_out", "timeout"}
        <4>1. \A e : V!CountedAs(e, "timedOut") =>
                \/ e.type = <<"workflow", "timed_out">> \/ e.type = <<"job", "timed_out">>
                \/ e.type = <<"", "timeout">>
          BY DEF V!CountedAs
        <4>2. /\ <<"workflow", "timed_out">>[2] = "timed_out" /\ <<"job", "timed_out">>[2] = "timed_out"
              /\ <<"", "timeout">>[2] = "timeout"
          OBVIOUS
        <4>3. QED
          BY <4>1, <4>2, Zenon
      <3>4. QED
        BY <3>1, <3>2, <3>3
    <2>2. QED
      BY <1>4, <1>5, <2>1
  <1>8. Cardinality({}) = 0
    BY FS_EmptySet
  <1>9. IsFiniteSet(X \cup Y) /\ Cardinality(X \cup Y) = Cardinality(X) + Cardinality(Y)
    BY <1>6, <1>7, <1>8, FS_Union
  <1>10. Cardinality((X \cup Y) \cup Z) = Cardinality(X) + Cardinality(Y) + Cardinality(Z)
    <2>1. PICK XY : XY = X \cup Y
      OBVIOUS
    <2>2. IsFiniteSet(XY) /\ Cardinality(XY) = Cardinality(X) + Cardinality(Y) /\ XY \cap Z = {}
      BY <1>7, <1>9, <2>1
    <2>3. Cardinality(XY \cup Z) = Cardinality(XY) + Cardinality(Z) - Cardinality(XY \cap Z)
      BY <1>6, <2>2, FS_Union
    <2>4. Cardinality(XY \cap Z) = 0
      BY <1>8, <2>2
    <2>5. Cardinality(XY \cup Z) = Cardinality(XY) + Cardinality(Z)
      BY <1>6, <1>9, <2>1, <2>3, <2>4
    <2>6. QED
      BY <2>1, <2>2, <2>5
  <1>11. Cardinality(X) + Cardinality(Y) + Cardinality(Z) <= Cardinality(All)
    BY <1>3, <1>7, <1>10, FS_Subset
  <1>12. /\ V!Counted("total") = Cardinality(All) /\ V!Counted("succeeded") = Cardinality(X)
         /\ V!Counted("failed") = Cardinality(Y) /\ V!Counted("timedOut") = Cardinality(Z)
    <2>1. /\ All = {e \in V!Recent(event) : V!CountedAs(e, "total")}
          /\ X = {e \in V!Recent(event) : V!CountedAs(e, "succeeded")}
          /\ Y = {e \in V!Recent(event) : V!CountedAs(e, "failed")}
          /\ Z = {e \in V!Recent(event) : V!CountedAs(e, "timedOut")}
      BY <1>2, <1>4 DEF V!CountedAs
    <2>2. QED
      BY <2>1, SameFinite DEF V!Counted
  <1>13. /\ "total" \in V!Classes /\ "succeeded" \in V!Classes
         /\ "failed" \in V!Classes /\ "timedOut" \in V!Classes
         /\ V!Classes \cap request.done = V!Classes
    BY DEF V!Classes, V!Reads
  <1>14. PICK t \in Nat, s \in Nat, f \in Nat, o \in Nat :
           /\ t = request.count["total"] /\ s = request.count["succeeded"]
           /\ f = request.count["failed"] /\ o = request.count["timedOut"]
    BY <1>1, <1>13
  <1>15. /\ t <= Cardinality(All) /\ s <= Cardinality(X) /\ f <= Cardinality(Y) /\ o <= Cardinality(Z)
         /\ begun \in Nat /\ begun <= t
    BY <1>12, <1>13, <1>14 DEF V!ViewsInv, V!ReadsAreTrue
  <1>16. V!CountSum(request) = (s + f + o) + (IF 0 > t - (s + f + o) THEN 0 ELSE t - (s + f + o))
    BY <1>14 DEF V!CountSum, V!Most
  <1>17. V!CountSum(request) \in begun .. Cardinality(All)
    BY <1>3, <1>6, <1>11, <1>15, <1>16
  <1>18. QED
    BY <1>2, <1>17, SameFinite

LEMMA AnswerViewsInv ==
  ASSUME V!Proper, V!ViewsInv, V!Answer
  PROVE  V!ViewsInv'
  <1>1. /\ request.begun /\ request.done = V!Reads /\ request' = V!Idle
        /\ answer' = [given |-> TRUE, global |-> V!GlobalState(request), steady |-> steady,
                      alarmed |-> alarmed, begun |-> begun,
                      ended |-> V!Cardinality(V!Recent(event)), sum |-> V!CountSum(request)]
        /\ steady' = {} /\ alarmed' = FALSE /\ begun' = 0
        /\ UNCHANGED <<incident, event, completed, changes>>
    BY DEF V!Answer
  <1>2. request'.begun = FALSE /\ request'.done = {} /\ request'.count \in [V!Classes -> Nat]
    BY <1>1 DEF V!Idle
  <1>3. V!TypeOK'
    BY <1>1, <1>2, ViewTypes, SameFinite DEF V!TypeOK, V!Active
  <1>4. V!ReadsAreTrue'
    BY <1>2 DEF V!ReadsAreTrue
  <1>5. "incidents" \in request.done /\ "events" \in request.done /\ V!ReadsAreTrue
    BY <1>1 DEF V!Reads, V!ViewsInv
  <1>6. V!HealthyIsQuiet'
    <2>1. V!GlobalState(request) \in {"healthy", "unknown"} => steady = {}
      BY <1>1, <1>5, NothingAlarms DEF V!ReadsAreTrue
    <2>2. QED
      BY <1>1, <2>1 DEF V!HealthyIsQuiet
  <1>7. V!FailingIsTrue'
    <2>1. V!GlobalState(request) = "failing" => alarmed
      BY <1>1, <1>5, NothingAlarms, FailingSplits DEF V!ReadsAreTrue
    <2>2. answer'.global = V!GlobalState(request) /\ answer'.alarmed = alarmed
      BY <1>1
    <2>3. QED
      BY <2>1, <2>2 DEF V!FailingIsTrue
  <1>8. V!CountsAddUp'
    BY <1>1, SumIsBetween DEF V!CountsAddUp
  <1>9. QED
    BY <1>3, <1>4, <1>6, <1>7, <1>8 DEF V!ViewsInv

LEMMA NextViewsInv ==
  ASSUME V!Proper, V!ViewsInv, [V!Next]_(V!vars)
  PROVE  V!ViewsInv'
  <1>1. CASE V!Next
    BY <1>1, MeanwhileViewsInv, CompleteViewsInv, BeginViewsInv, ReadViewsInv, AnswerViewsInv DEF V!Next
  <1>2. CASE UNCHANGED V!vars
    <2>1. UNCHANGED <<incident, event, completed, request, changes, steady, alarmed, begun, answer>>
      BY <1>2 DEF V!vars
    <2>2. V!TypeOK'
      BY <2>1, ViewTypes, SameFinite DEF V!TypeOK, V!Active
    <2>3. V!ReadsAreTrue'
      BY <2>1, SameFinite DEF V!ViewsInv, V!ReadsAreTrue, V!IncidentsAlarm, V!EventsAlarm, V!KindsOf,
        V!Active, V!Counted, V!Recent
    <2>4. V!HealthyIsQuiet' /\ V!FailingIsTrue' /\ V!CountsAddUp'
      BY <2>1 DEF V!ViewsInv, V!HealthyIsQuiet, V!FailingIsTrue, V!CountsAddUp
    <2>5. QED
      BY <2>2, <2>3, <2>4 DEF V!ViewsInv
  <1>3. QED
    BY <1>1, <1>2

(* Where the last event of the workflow is an error to the dashboard, it is     *)
(* an error within the window of every scope that it is in.                     *)
LEMMA WindowsKnow ==
  ASSUME V!Proper, V!ViewsInv
  PROVE  V!WindowsKnowErrors
  <1>1. SUFFICES ASSUME NEW asked \in SUBSET V!Filters,
                        NEW e \in V!LatestOf(V!From(event, "workflow")),
                        V!EventStatus(e) \in {"failed", "timedOut"}, e.at >= Now - Fresh,
                        V!InScope(e, asked)
                 PROVE  V!WindowState(asked) \in {"failing", "degraded"}
    BY DEF V!WindowsKnowErrors
  <1>2. e \in event /\ e.at \in 1 .. Now
    BY ViewTypes DEF V!LatestOf, V!From
  <1>3. e.at <= Now /\ e.at >= Now - Hour
    BY <1>1, <1>2, ViewTypes
  <1>4. V!NormalizedStatus(e) \in {"failed", "timedOut"}
    <2>1. PICK ending : ending = e.type[2]
      OBVIOUS
    <2>2. \/ e.status \in {"timed_out", "timeout", "failed", "failure"}
          \/ ending \in {"timed_out", "timeout", "failed"}
      BY <1>1, <2>1 DEF V!EventStatus, V!TimedOut
    <2>3. ASSUME ending \in {"timed_out", "timeout", "failed"}
          PROVE  V!NormalizedStatus(e) \in {"failed", "timedOut"}
      BY <2>1, <2>3 DEF V!NormalizedStatus, V!TimedOut
    <2>4. ASSUME e.status \in {"timed_out", "timeout", "failed", "failure"}
          PROVE  V!NormalizedStatus(e) \in {"failed", "timedOut"}
      <3>1. e.status # None
        BY <2>4 DEF V!Proper
      <3>2. QED
        BY <2>4, <3>1 DEF V!NormalizedStatus, V!TimedOut
    <2>5. QED
      BY <2>2, <2>3, <2>4
  <1>5. PICK E : E = {x \in V!Recent(event) : x.at <= Now /\ V!InScope(x, asked)}
    OBVIOUS
  <1>6. PICK errors : errors = {x \in E : V!NormalizedStatus(x) \in {"failed", "timedOut"}}
    OBVIOUS
  <1>7. e \in E /\ e \in errors
    BY <1>1, <1>2, <1>3, <1>4, <1>5, <1>6 DEF V!Recent
  <1>8. errors \in SUBSET event
    BY <1>5, <1>6 DEF V!Recent
  <1>9. IsFiniteSet(errors)
    BY <1>8, ViewTypes, FS_Subset
  <1>10. V!Cardinality(errors) # 0
    BY <1>7, <1>9, FS_EmptySet, SameFinite
  <1>11. QED
    BY <1>5, <1>6, <1>7, <1>10 DEF V!WindowState

(* A group has every reason for attention that one of its incidents has.      *)
LEMMA GroupsAttend ==
  V!GroupsKeepAttention
  <1>1. SUFFICES ASSUME NEW i \in V!Active
                 PROVE  V!AttentionRank(V!Attention(V!Group(i))) <= V!AttentionRank(V!Attention({i}))
    BY DEF V!GroupsKeepAttention
  <1>2. PICK S : S = V!Group(i)
    OBVIOUS
  <1>3. i \in S
    BY <1>2 DEF V!Group
  <1>4. PICK k : k = incident[i]
    OBVIOUS
  <1>5. PICK few, many : few = V!Severities(V!KindsOf({i})) /\ many = V!Severities(V!KindsOf(S))
    OBVIOUS
  <1>6. few = {V!Severity(k)} /\ V!Severity(k) \in many
    BY <1>3, <1>4, <1>5 DEF V!Severities, V!KindsOf
  <1>7. \A X : V!Attention(X) \in {"urgent", "elevated", "normal", "unknown"}
    BY DEF V!Attention
  <1>8. V!Attention({i}) = "urgent" => V!Attention(S) = "urgent"
    BY <1>3, <1>4, <1>5, <1>6 DEF V!Attention, V!AtLeast, V!KindsOf
  <1>9. V!Attention({i}) = "elevated" => V!Attention(S) \in {"urgent", "elevated"}
    <2>1. ~(V!Cardinality({i}) > 1)
      <3>1. Cardinality({i}) = 1
        BY FS_Singleton
      <3>2. QED
        BY <3>1, SameFinite
    <2>2. SUFFICES ASSUME V!Attention({i}) = "elevated", V!Attention(S) # "urgent"
                   PROVE  V!Attention(S) = "elevated"
      BY <1>7
    <2>3. many # {"unknown"}
      BY <1>5, <1>6, <2>2 DEF V!Attention
    <2>4. \/ {"high", "medium"} \cap few # {}
          \/ V!AtLeast({i}, LAMBDA n : n.failures, 1)
          \/ V!AtLeast({i}, LAMBDA n : n.signals, 2)
      BY <1>5, <2>1, <2>2 DEF V!Attention
    <2>5. \/ {"high", "medium"} \cap many # {}
          \/ V!AtLeast(S, LAMBDA n : n.failures, 1)
          \/ V!AtLeast(S, LAMBDA n : n.signals, 2)
      BY <1>3, <1>6, <2>4 DEF V!AtLeast
    <2>6. QED
      BY <1>5, <2>2, <2>3, <2>5 DEF V!Attention
  <1>10. V!Attention({i}) = "normal" => V!Attention(S) # "unknown"
    BY <1>5, <1>6 DEF V!Attention
  <1>11. /\ V!AttentionRank("urgent") = 0 /\ V!AttentionRank("elevated") = 1
         /\ V!AttentionRank("normal") = 2 /\ V!AttentionRank("unknown") = 3
    BY DEF V!AttentionRank
  <1>12. QED
    BY <1>2, <1>7, <1>8, <1>9, <1>10, <1>11

----------------------------------------------------------------------------
(* The operational analysis.                                                  *)

LEMMA SameCounts ==
  /\ \A S : A!IsFiniteSet(S) <=> IsFiniteSet(S)
  /\ \A S : A!Cardinality(S) = Cardinality(S)
  BY DEF A!IsFiniteSet, IsFiniteSet, A!Cardinality, Cardinality

LEMMA FeedIsProper ==
  ASSUME A!Proper, A!TypeOK
  PROVE  /\ IsFiniteSet(feed) /\ feed \in SUBSET A!Events /\ visible \in SUBSET feed
         /\ \A d, e \in feed : d.id = e.id => d = e
         /\ \A e \in feed : /\ e.id \in Nat /\ e.delay \in Nat
                            /\ e.family \in A!Families /\ e.type \in A!Starts \cup A!Terminals
  <1>1. feed \in EventFeeds /\ visible \subseteq feed
    BY DEF A!TypeOK
  <1>2. feed \in SUBSET A!Events
    BY <1>1 DEF A!Events
  <1>3. /\ A!IsFiniteSet(feed)
        /\ \A d, e \in feed : d.id = e.id => d = e
        /\ \A e \in feed : /\ e.id \in Nat /\ e.delay \in Nat
                           /\ e.family \in A!Families /\ e.type \in A!Starts \cup A!Terminals
    BY <1>1, Zenon DEF A!Proper
  <1>4. QED
    BY <1>1, <1>2, <1>3, SameCounts

LEMMA EventTimes ==
  ASSUME A!TypeOK, NEW e \in A!Events
  PROVE  /\ row[e].ts \in Nat /\ row[e].created \in Nat
         /\ row[e].ts <= row[e].created /\ row[e].created <= now
  BY DEF A!TypeOK, A!EventRows

(* Events in the order of what a run reads. *)
LEMMA PlacesAreOrdered ==
  ASSUME A!Proper, A!TypeOK, NEW d \in visible, NEW e \in visible
  PROVE  /\ A!Behind(e, A!Place(e))
         /\ A!Behind(d, A!Place(e)) \/ A!Behind(e, A!Place(d))
         /\ A!Behind(d, A!Place(e)) /\ A!Behind(e, A!Place(d)) => d = e
         /\ \A f \in visible : A!Behind(d, A!Place(e)) /\ A!Behind(e, A!Place(f)) => A!Behind(d, A!Place(f))
         /\ A!Behind(d, A!Place(e)) /\ A!Behind(e, cursor) => A!Behind(d, cursor)
  <1>1. \A x \in visible : /\ x \in feed /\ x.id \in Nat /\ row[x].created \in Nat
                           /\ A!Place(x).created = row[x].created /\ A!Place(x).id = x.id
    BY FeedIsProper, EventTimes DEF A!Place
  <1>2. cursor.created \in Nat /\ cursor.id \in Nat
    BY DEF A!TypeOK, A!CursorRows
  <1>3. d.id = e.id => d = e
    BY <1>1, FeedIsProper
  <1>4. QED
    BY <1>1, <1>2, <1>3 DEF A!Behind

(* A run leaves the cursor at the last event that it read. *)
LEMMA EndIsLast ==
  ASSUME A!Proper, A!TypeOK, NEW S \in SUBSET visible, S # {}
  PROVE  \E m \in S : A!End(S) = A!Place(m) /\ \A d \in S : A!Behind(d, A!Place(m))
  <1> DEFINE R == {p \in S \X S : ~A!Behind(p[1], A!Place(p[2]))}
  <1>1. \A x, y \in S : <<x, y>> \in R <=> ~A!Behind(x, A!Place(y))
    OBVIOUS
  <1> HIDE DEF R
  <1>2. IsFiniteSet(S)
    <2>1. S \in SUBSET feed /\ IsFiniteSet(feed)
      BY FeedIsProper
    <2>2. QED
      BY <2>1, FS_Subset
  <1>3. \A x \in S : <<x, x>> \notin R
    BY <1>1, PlacesAreOrdered
  <1>4. \A x, y, z \in S : <<x, y>> \in R /\ <<y, z>> \in R => <<x, z>> \in R
    <2> SUFFICES ASSUME NEW x \in S, NEW y \in S, NEW z \in S, <<x, y>> \in R, <<y, z>> \in R
                 PROVE  <<x, z>> \in R
      OBVIOUS
    <2>1. ~A!Behind(x, A!Place(y)) /\ ~A!Behind(y, A!Place(z))
      BY <1>1
    <2>2. x \in visible /\ y \in visible /\ z \in visible
      OBVIOUS
    <2>3. A!Behind(y, A!Place(x)) /\ A!Behind(z, A!Place(y))
      BY <2>1, <2>2, PlacesAreOrdered
    <2>4. A!Behind(x, A!Place(z)) => A!Behind(x, A!Place(y))
      BY <2>2, <2>3, PlacesAreOrdered
    <2>5. QED
      BY <1>1, <2>1, <2>4
  <1>5. PICK m \in S : \A x \in S : <<x, m>> \notin R
    BY <1>2, <1>3, <1>4, HasMinimal
  <1>6. \A d \in S : A!Behind(d, A!Place(m))
    BY <1>1, <1>5
  <1> DEFINE final == CHOOSE e \in S : \A d \in S : A!Behind(d, A!Place(e))
  <1>7. final \in S /\ \A d \in S : A!Behind(d, A!Place(final))
    BY <1>6, Zenon
  <1>8. A!End(S) = A!Place(final)
    BY Zenon DEF A!End
  <1> HIDE DEF final
  <1>9. QED
    BY <1>7, <1>8

(* What a run has read is all there was up to its last event. *)
LEMMA FetchedIsFirst ==
  ASSUME A!Proper, A!TypeOK, NEW d \in A!Fetched, NEW e \in visible, A!Behind(e, A!Place(d))
  PROVE  A!Behind(e, cursor) \/ e \in A!Fetched
  <1> DEFINE ahead == {x \in visible : ~A!Behind(x, cursor)}
             upTo(x) == {y \in ahead : A!Behind(y, A!Place(x))}
  <1>1. A!Fetched = {x \in ahead : Cardinality(upTo(x)) <= BatchSize}
    BY SameCounts, Zenon DEF A!Fetched
  <1>2. d \in ahead /\ Cardinality(upTo(d)) <= BatchSize
    BY <1>1
  <1>3. PICK T, U : T = upTo(d) /\ U = upTo(e)
    OBVIOUS
  <1>4. U \in SUBSET T /\ T \in SUBSET feed
    <2>1. \A y \in U : y \in visible /\ A!Behind(y, A!Place(e)) /\ y \in ahead
      BY <1>3
    <2>2. \A y \in U : A!Behind(y, A!Place(d))
      BY <2>1, <1>2, PlacesAreOrdered
    <2>3. QED
      BY <1>3, <2>1, <2>2, FeedIsProper
  <1>5. IsFiniteSet(T) /\ IsFiniteSet(U) /\ Cardinality(U) <= Cardinality(T)
    <2>1. IsFiniteSet(T)
      BY <1>4, FeedIsProper, FS_Subset
    <2>2. QED
      BY <1>4, <2>1, FS_Subset
  <1>6. Cardinality(T) \in Nat /\ Cardinality(U) \in Nat
    BY <1>5, FS_CardinalityType
  <1>7. BatchSize \in Nat
    BY DEF A!Proper
  <1>8. Cardinality(U) <= BatchSize
    BY <1>2, <1>3, <1>5, <1>6, <1>7
  <1>9. CASE A!Behind(e, cursor)
    BY <1>9
  <1>10. CASE ~A!Behind(e, cursor)
    <2>1. e \in ahead /\ Cardinality(upTo(e)) <= BatchSize
      BY <1>3, <1>8, <1>10
    <2>2. QED
      BY <1>1, <2>1
  <1>11. QED
    BY <1>9, <1>10

(* The rules over other rows, so that two states can be compared: Newest,     *)
(* Duration and Baseline of the events in S with the rows q.                  *)
After(q, d, e) == q[d].ts > q[e].ts \/ (q[d].ts = q[e].ts /\ d.id > e.id)

NewestIn(q, S) == CHOOSE e \in S : \A d \in S \ {e} : After(q, e, d)

StartsIn(q, S, e) ==
  {s \in S : /\ s.correlation = e.correlation /\ s.family = e.family
             /\ s.type \in A!Starts /\ q[s].ts <= q[e].ts}

DurationIn(q, S, e) ==
  IF e.correlation = None \/ StartsIn(q, S, e) = {} THEN 0 ELSE q[e].ts - q[NewestIn(q, StartsIn(q, S, e))].ts

BaselineIn(q, S, e) ==
  {d \in S : /\ d.family = e.family /\ d.type \in A!Terminals
             /\ q[d].ts < q[e].ts /\ q[d].ts >= q[e].ts - DriftLookback /\ DurationIn(q, S, d) > 0}

(* Such rows: the events of S are told apart by their ids, and their times    *)
(* are numbers.                                                               *)
Dated(q, S) ==
  /\ IsFiniteSet(S)
  /\ \A x \in S : q[x].ts \in Nat /\ x.id \in Nat
  /\ \A x, y \in S : x.id = y.id => x = y

LEMMA RulesInRows ==
  ASSUME NEW e
  PROVE  /\ \A S : A!Newest(S) = NewestIn(row, S)
         /\ A!Duration(e) = DurationIn(row, visible, e)
         /\ A!Baseline(e) = BaselineIn(row, visible, e)
  <1>1. \A S : A!Newest(S) = NewestIn(row, S)
    BY Zenon DEF A!Newest, NewestIn, A!ComesAfter, After
  <1>2. ASSUME NEW x PROVE A!Duration(x) = DurationIn(row, visible, x)
    BY Zenon DEF A!Duration, DurationIn, StartsIn, A!Newest, NewestIn, A!ComesAfter, After
  <1>3. A!Baseline(e) = {d \in visible : /\ d.family = e.family /\ d.type \in A!Terminals
             /\ row[d].ts < row[e].ts /\ row[d].ts >= row[e].ts - DriftLookback /\ A!Duration(d) > 0}
    BY DEF A!Baseline, A!TerminalsOf
  <1>4. QED
    BY <1>1, <1>2, <1>3 DEF BaselineIn

LEMMA RulesInNextRows ==
  ASSUME NEW e
  PROVE  /\ A!Duration(e)' = DurationIn(row', visible', e)
         /\ A!Baseline(e)' = BaselineIn(row', visible', e)
  <1>2. ASSUME NEW x PROVE A!Duration(x)' = DurationIn(row', visible', x)
    BY Zenon DEF A!Duration, DurationIn, StartsIn, A!Newest, NewestIn, A!ComesAfter, After
  <1>3. A!Baseline(e)' = {d \in visible' : /\ d.family = e.family /\ d.type \in A!Terminals
             /\ row'[d].ts < row'[e].ts /\ row'[d].ts >= row'[e].ts - DriftLookback /\ A!Duration(d)' > 0}
    BY DEF A!Baseline, A!TerminalsOf
  <1>4. QED
    BY <1>2, <1>3 DEF BaselineIn

LEMMA VisibleIsDated ==
  ASSUME A!Proper, A!TypeOK, NEW S \in SUBSET visible
  PROVE  Dated(row, S)
  <1>1. S \in SUBSET feed /\ S \in SUBSET A!Events
    BY FeedIsProper
  <1>2. IsFiniteSet(S)
    BY <1>1, FeedIsProper, FS_Subset
  <1>3. QED
    BY <1>1, <1>2, FeedIsProper, EventTimes DEF Dated

LEMMA NewestIsLast ==
  ASSUME NEW q, NEW S, Dated(q, S), S # {}
  PROVE  /\ NewestIn(q, S) \in S
         /\ \A d \in S \ {NewestIn(q, S)} : After(q, NewestIn(q, S), d)
  <1> DEFINE R == {p \in S \X S : After(q, p[1], p[2])}
  <1>1. \A x, y \in S : <<x, y>> \in R <=> After(q, x, y)
    OBVIOUS
  <1> HIDE DEF R
  <1>2. \A x \in S : <<x, x>> \notin R
    BY <1>1 DEF Dated, After
  <1>3. \A x, y, z \in S : <<x, y>> \in R /\ <<y, z>> \in R => <<x, z>> \in R
    BY <1>1 DEF Dated, After
  <1>4. PICK m \in S : \A x \in S : <<x, m>> \notin R
    BY <1>2, <1>3, HasMinimal DEF Dated
  <1>5. \A d \in S \ {m} : After(q, m, d)
    <2> SUFFICES ASSUME NEW d \in S, d # m PROVE After(q, m, d)
      OBVIOUS
    <2>1. ~After(q, d, m)
      BY <1>1, <1>4
    <2>2. /\ q[d].ts \in Nat /\ q[m].ts \in Nat /\ d.id \in Nat /\ m.id \in Nat
          /\ d.id # m.id
      BY DEF Dated
    <2>3. QED
      BY <2>1, <2>2 DEF After
  <1>6. QED
    BY <1>5, Zenon DEF NewestIn

LEMMA NewestIs ==
  ASSUME NEW q, NEW S, Dated(q, S), NEW m \in S, \A d \in S \ {m} : After(q, m, d)
  PROVE  NewestIn(q, S) = m
  <1>1. NewestIn(q, S) \in S /\ \A d \in S \ {NewestIn(q, S)} : After(q, NewestIn(q, S), d)
    BY NewestIsLast
  <1>2. \A d \in S : ~(After(q, m, d) /\ After(q, d, m))
    BY DEF Dated, After
  <1>3. QED
    BY <1>1, <1>2

LEMMA DurationIsNat ==
  ASSUME NEW q, NEW S, Dated(q, S), NEW e \in S
  PROVE  DurationIn(q, S, e) \in Nat
  <1>1. CASE e.correlation = None \/ StartsIn(q, S, e) = {}
    BY <1>1 DEF DurationIn
  <1>2. CASE ~(e.correlation = None \/ StartsIn(q, S, e) = {})
    <2>1. PICK T : T = StartsIn(q, S, e)
      OBVIOUS
    <2>2. T \in SUBSET S /\ \A s \in T : q[s].ts <= q[e].ts
      BY <2>1 DEF StartsIn
    <2>3. Dated(q, T)
      BY <2>2, FS_Subset DEF Dated
    <2>4. PICK n : n = NewestIn(q, T)
      OBVIOUS
    <2>5. n \in T
      BY <1>2, <2>1, <2>3, <2>4, NewestIsLast
    <2>6. DurationIn(q, S, e) = q[e].ts - q[n].ts
      BY <1>2, <2>1, <2>4 DEF DurationIn
    <2>7. QED
      BY <2>2, <2>5, <2>6 DEF Dated
  <1>3. QED
    BY <1>1, <1>2

(* Rules depend on no other rows.                                             *)
LEMMA DurationsStay ==
  ASSUME NEW q, NEW p, NEW S, Dated(q, S), \A x \in S : p[x] = q[x], NEW e \in S
  PROVE  DurationIn(p, S, e) = DurationIn(q, S, e)
  <1>1. StartsIn(p, S, e) = StartsIn(q, S, e)
    BY DEF StartsIn
  <1>2. CASE e.correlation = None \/ StartsIn(q, S, e) = {}
    BY <1>1, <1>2 DEF DurationIn
  <1>3. CASE ~(e.correlation = None \/ StartsIn(q, S, e) = {})
    <2>1. PICK T : T = StartsIn(q, S, e)
      OBVIOUS
    <2>2. T \in SUBSET S
      BY <2>1 DEF StartsIn
    <2>3. Dated(q, T) /\ Dated(p, T)
      BY <2>2, FS_Subset DEF Dated
    <2>4. PICK n : n = NewestIn(q, T)
      OBVIOUS
    <2>5. n \in T /\ \A d \in T \ {n} : After(q, n, d)
      BY <1>3, <2>1, <2>3, <2>4, NewestIsLast
    <2>6. NewestIn(p, T) = n
      <3>1. \A d \in T \ {n} : After(p, n, d)
        BY <2>2, <2>5 DEF After
      <3>2. QED
        BY <2>3, <2>5, <3>1, NewestIs
    <2>7. DurationIn(q, S, e) = q[e].ts - q[n].ts /\ DurationIn(p, S, e) = p[e].ts - p[n].ts
      BY <1>1, <1>3, <2>1, <2>4, <2>6 DEF DurationIn
    <2>8. QED
      BY <2>2, <2>5, <2>7
  <1>4. QED
    BY <1>2, <1>3

LEMMA BaselineStays ==
  ASSUME NEW q, NEW p, NEW S, Dated(q, S), \A x \in S : p[x] = q[x], NEW e \in S
  PROVE  BaselineIn(p, S, e) = BaselineIn(q, S, e)
  <1>1. \A d \in S : DurationIn(p, S, d) = DurationIn(q, S, d)
    BY DurationsStay
  <1>2. QED
    BY <1>1 DEF BaselineIn

(* A run that took as long as the median drifts from half of the others.     *)
Shorter(q, S, d, e) ==
  DurationIn(q, S, d) < DurationIn(q, S, e) \/ (DurationIn(q, S, d) = DurationIn(q, S, e) /\ d.id < e.id)

Nth(q, S, B, k) == CHOOSE e \in B : Cardinality({d \in B : Shorter(q, S, d, e)}) = k - 1

LEMMA NthIsRanked ==
  ASSUME NEW q, NEW S, Dated(q, S), NEW B \in SUBSET S, NEW k \in 1 .. Cardinality(B)
  PROVE  /\ Nth(q, S, B, k) \in B
         /\ Cardinality({d \in B : Shorter(q, S, d, Nth(q, S, B, k))}) = k - 1
  <1> DEFINE R == {p \in B \X B : Shorter(q, S, p[1], p[2])}
  <1>1. \A x, y \in B : <<x, y>> \in R <=> Shorter(q, S, x, y)
    OBVIOUS
  <1> HIDE DEF R
  <1>2. \A x \in B : DurationIn(q, S, x) \in Nat /\ x.id \in Nat
    BY DurationIsNat DEF Dated
  <1>3. \A x, y \in B : x.id = y.id => x = y
    BY DEF Dated
  <1>4. \A x \in B : <<x, x>> \notin R
    BY <1>1, <1>2 DEF Shorter
  <1>5. \A x, y, z \in B : <<x, y>> \in R /\ <<y, z>> \in R => <<x, z>> \in R
    BY <1>1, <1>2 DEF Shorter
  <1>6. \A x, y \in B : x = y \/ <<x, y>> \in R \/ <<y, x>> \in R
    <2> SUFFICES ASSUME NEW x \in B, NEW y \in B, x # y PROVE Shorter(q, S, x, y) \/ Shorter(q, S, y, x)
      BY <1>1
    <2>1. /\ DurationIn(q, S, x) \in Nat /\ DurationIn(q, S, y) \in Nat /\ x.id \in Nat /\ y.id \in Nat
          /\ x.id # y.id
      BY <1>2, <1>3
    <2>2. QED
      BY <2>1 DEF Shorter
  <1>7. IsFiniteSet(B)
    BY FS_Subset DEF Dated
  <1>8. PICK e \in B : Cardinality({x \in B : <<x, e>> \in R}) = k - 1
    BY <1>4, <1>5, <1>6, <1>7, Ranked
  <1>9. {x \in B : <<x, e>> \in R} = {d \in B : Shorter(q, S, d, e)}
    BY <1>1
  <1>10. QED
    BY <1>8, <1>9, Zenon DEF Nth

LEMMA MedianSplits ==
  ASSUME NEW q, NEW S, Dated(q, S), NEW B \in SUBSET S, B # {}, NEW x \in B, NEW y \in B,
         Cardinality({d \in B : Shorter(q, S, d, x)}) = (Cardinality(B) + 1) \div 2 - 1,
         Cardinality({d \in B : Shorter(q, S, d, y)}) = Cardinality(B) \div 2
  PROVE  /\ DurationIn(q, S, x) <= DurationIn(q, S, y)
         /\ 2 * Cardinality({d \in B : DurationIn(q, S, d) <= DurationIn(q, S, x)}) >= Cardinality(B)
  <1>1. \A d \in B : DurationIn(q, S, d) \in Nat /\ d.id \in Nat
    BY DurationIsNat DEF Dated
  <1>2. IsFiniteSet(B) /\ Cardinality(B) \in Nat
    BY FS_Subset, FS_CardinalityType DEF Dated
  <1>3. PICK T, U, V1 : /\ T = {d \in B : Shorter(q, S, d, x)} /\ U = {d \in B : Shorter(q, S, d, y)}
                        /\ V1 = {d \in B : DurationIn(q, S, d) <= DurationIn(q, S, x)}
    OBVIOUS
  <1>4. T \in SUBSET B /\ U \in SUBSET B /\ V1 \in SUBSET B /\ x \notin T
    BY <1>1, <1>3 DEF Shorter
  <1>5. IsFiniteSet(T) /\ IsFiniteSet(U) /\ IsFiniteSet(V1)
    BY <1>2, <1>4, FS_Subset
  <1>6. Cardinality(T) = (Cardinality(B) + 1) \div 2 - 1 /\ Cardinality(U) = Cardinality(B) \div 2
    BY <1>3
  <1>7. Cardinality(T) \in Nat /\ Cardinality(U) \in Nat /\ Cardinality(V1) \in Nat
    BY <1>5, FS_CardinalityType
  <1>8. DurationIn(q, S, x) <= DurationIn(q, S, y)
    <2> SUFFICES ASSUME DurationIn(q, S, y) < DurationIn(q, S, x) PROVE FALSE
      BY <1>1
    <2>1. U \in SUBSET T /\ y \in T /\ y \notin U
      BY <1>1, <1>3 DEF Shorter
    <2>2. Cardinality(U) <= Cardinality(T) /\ Cardinality(U) # Cardinality(T)
      BY <1>5, <2>1, FS_Subset
    <2>3. QED
      BY <1>2, <1>6, <1>7, <2>2
  <1>9. T \cup {x} \in SUBSET V1
    BY <1>1, <1>3 DEF Shorter
  <1>10. Cardinality(T \cup {x}) = Cardinality(T) + 1
    BY <1>4, <1>5, FS_AddElement
  <1>11. Cardinality(T \cup {x}) <= Cardinality(V1)
    BY <1>5, <1>9, FS_Subset
  <1>12. 2 * Cardinality(V1) >= Cardinality(B)
    BY <1>2, <1>6, <1>7, <1>10, <1>11
  <1>13. QED
    BY <1>3, <1>8, <1>12

SlowIn(q, S, e) ==
  /\ Cardinality(BaselineIn(q, S, e)) >= MinSamples
  /\ 2 * Cardinality({d \in BaselineIn(q, S, e) : DurationIn(q, S, e) >= DriftRatio * DurationIn(q, S, d)})
       >= Cardinality(BaselineIn(q, S, e))

LEMMA SlowStays ==
  ASSUME NEW q, NEW p, NEW S, Dated(q, S), \A x \in S : p[x] = q[x], NEW e \in S, SlowIn(q, S, e)
  PROVE  SlowIn(p, S, e)
  <1>1. BaselineIn(p, S, e) = BaselineIn(q, S, e) /\ BaselineIn(q, S, e) \in SUBSET S
    BY BaselineStays DEF BaselineIn
  <1>2. \A d \in S : DurationIn(p, S, d) = DurationIn(q, S, d)
    BY DurationsStay
  <1>3. {d \in BaselineIn(q, S, e) : DurationIn(p, S, e) >= DriftRatio * DurationIn(p, S, d)}
          = {d \in BaselineIn(q, S, e) : DurationIn(q, S, e) >= DriftRatio * DurationIn(q, S, d)}
    BY <1>1, <1>2
  <1>4. QED
    BY <1>1, <1>3 DEF SlowIn

LEMMA HalfOfBoth ==
  ASSUME NEW r \in Nat, NEW x \in Nat, NEW y \in Nat, NEW d \in Nat, NEW e \in Nat,
         2 * e >= r * (x + y), d <= x, x <= y
  PROVE  e >= r * d
  <1>1. r * (x + y) = r * x + r * y
    OBVIOUS
  <1>2. ASSUME NEW z \in Nat, d <= z PROVE r * d <= r * z
    <2>1. PICK w \in Nat : z = d + w
      <3>1. z - d \in Nat /\ z = d + (z - d)
        BY <1>2
      <3>2. QED
        BY <3>1
    <2>2. r * z = r * d + r * w /\ r * w \in Nat /\ r * d \in Nat
      BY <2>1
    <2>3. QED
      BY <2>2
  <1>3. r * d <= r * x /\ r * d <= r * y
    BY <1>2
  <1>4. r * d \in Nat /\ r * x \in Nat /\ r * y \in Nat
    OBVIOUS
  <1> DEFINE rd == r * d rx == r * x ry == r * y
  <1>5. 2 * e >= rx + ry /\ rd <= rx /\ rd <= ry /\ rd \in Nat /\ rx \in Nat /\ ry \in Nat
    BY <1>1, <1>3, <1>4
  <1> HIDE DEF rd, rx, ry
  <1>6. e >= rd
    BY <1>5
  <1>7. QED
    BY <1>6 DEF rd

LEMMA OpenDriftIsSlow ==
  ASSUME A!Proper, A!TypeOK, NEW e \in visible, A!DriftVerdict(e) = "open"
  PROVE  SlowIn(row, visible, e)
  <1>1. Dated(row, visible)
    BY VisibleIsDated
  <1>2. PICK B : B = BaselineIn(row, visible, e)
    OBVIOUS
  <1>3. B \in SUBSET visible
    BY <1>2 DEF BaselineIn
  <1>4. A!Baseline(e) = B /\ \A x : A!Duration(x) = DurationIn(row, visible, x)
    BY <1>2, RulesInRows
  <1>5. IsFiniteSet(B) /\ Cardinality(B) \in Nat
    BY <1>1, <1>3, FS_Subset, FS_CardinalityType DEF Dated
  <1>6. MinSamples \in Nat \ {0} /\ DriftRatio \in Nat
    BY DEF A!Proper
  <1>7. ~(Cardinality(B) < MinSamples) /\ A!Drifts(e)
    BY <1>4, SameCounts, Zenon DEF A!DriftVerdict, A!Verdict
  <1>8. Cardinality(B) >= MinSamples /\ B # {}
    BY <1>5, <1>6, <1>7, FS_EmptySet
  <1> DEFINE n == Cardinality(B)
             low == Nth(row, visible, B, (n + 1) \div 2)
             high == Nth(row, visible, B, n \div 2 + 1)
  <1>9. A!TwiceMedian(B) = DurationIn(row, visible, low) + DurationIn(row, visible, high)
    BY <1>4, SameCounts, Zenon DEF A!TwiceMedian, Nth, Shorter
  <1>10. (n + 1) \div 2 \in 1 .. n /\ n \div 2 + 1 \in 1 .. n
    BY <1>5, <1>6, <1>8
  <1>11. /\ low \in B /\ Cardinality({d \in B : Shorter(row, visible, d, low)}) = (n + 1) \div 2 - 1
         /\ high \in B /\ Cardinality({d \in B : Shorter(row, visible, d, high)}) = (n \div 2 + 1) - 1
    BY <1>1, <1>3, <1>10, NthIsRanked
  <1>12. (n \div 2 + 1) - 1 = n \div 2
    BY <1>5
  <1> HIDE DEF low, high
  <1>13. /\ DurationIn(row, visible, low) <= DurationIn(row, visible, high)
         /\ 2 * Cardinality({d \in B : DurationIn(row, visible, d) <= DurationIn(row, visible, low)}) >= Cardinality(B)
    BY <1>1, <1>3, <1>8, <1>11, <1>12, MedianSplits
  <1>14. \A d \in visible : DurationIn(row, visible, d) \in Nat
    BY <1>1, DurationIsNat
  <1>15. 2 * DurationIn(row, visible, e) >= DriftRatio * (DurationIn(row, visible, low) + DurationIn(row, visible, high))
    BY <1>4, <1>7, <1>9 DEF A!Drifts
  <1>16. \A d \in B : DurationIn(row, visible, d) <= DurationIn(row, visible, low)
           => DurationIn(row, visible, e) >= DriftRatio * DurationIn(row, visible, d)
    <2> SUFFICES ASSUME NEW d \in B, DurationIn(row, visible, d) <= DurationIn(row, visible, low)
                 PROVE  DurationIn(row, visible, e) >= DriftRatio * DurationIn(row, visible, d)
      OBVIOUS
    <2>1. /\ DurationIn(row, visible, d) \in Nat /\ DurationIn(row, visible, low) \in Nat
          /\ DurationIn(row, visible, high) \in Nat /\ DurationIn(row, visible, e) \in Nat
      BY <1>3, <1>11, <1>14
    <2>2. QED
      BY <1>6, <1>13, <1>15, <2>1, HalfOfBoth
  <1>17. PICK T, U : /\ T = {d \in B : DurationIn(row, visible, d) <= DurationIn(row, visible, low)}
                     /\ U = {d \in B : DurationIn(row, visible, e) >= DriftRatio * DurationIn(row, visible, d)}
    OBVIOUS
  <1>18. T \in SUBSET U /\ U \in SUBSET B
    BY <1>16, <1>17
  <1>19. IsFiniteSet(U) /\ IsFiniteSet(T) /\ Cardinality(T) <= Cardinality(U)
    BY <1>5, <1>18, FS_Subset
  <1>20. Cardinality(T) \in Nat /\ Cardinality(U) \in Nat
    BY <1>19, FS_CardinalityType
  <1>21. 2 * Cardinality(U) >= Cardinality(B)
    BY <1>5, <1>13, <1>17, <1>19, <1>20
  <1>22. QED
    BY <1>2, <1>8, <1>17, <1>21 DEF SlowIn

(* What a rule says of the events.                                            *)
LEMMA FingerprintKinds ==
  ASSUME NEW f \in A!Fingerprints
  PROVE  \/ f[1] = "failed_burst" /\ f = <<"failed_burst", f[2]>> /\ f[2] \in A!Families
         \/ f[1] = "duration_drift" /\ f = <<"duration_drift", f[2]>> /\ f[2] \in A!Families
         \/ f[1] = "retry_spike" /\ f = <<"retry_spike", "both">>
         \/ f[1] = "stuck" /\ f = <<"stuck", f[2]>> /\ f[2] \in A!Correlations
  BY DEF A!Fingerprints

LEMMA BurstIsJustified ==
  ASSUME A!Proper, A!TypeOK, NEW f, f[1] = "failed_burst", NEW t \in Nat
  PROVE  A!FailedBurst(f[2], t) <=> A!Justified(f, t)
  <1> DEFINE Failed == {e \in visible : e.family = f[2] /\ e.type = "failed" /\ row[e].ts + FailedWindow >= t}
  <1>1. FailedWindow \in Nat /\ FailedThreshold \in Nat
    BY DEF A!Proper
  <1>2. visible \in SUBSET feed /\ IsFiniteSet(feed) /\ \A e \in visible : row[e].ts \in Nat
    BY FeedIsProper, EventTimes
  <1>3. IsFiniteSet(Failed)
    <2>1. Failed \in SUBSET feed
      BY <1>2
    <2> HIDE DEF Failed
    <2>2. QED
      BY <1>2, <2>1, FS_Subset
  <1>4. Cardinality(Failed) \in Nat
    <2> HIDE DEF Failed
    <2>1. QED
      BY <1>3, FS_CardinalityType
  <1>5. A!FailedBurst(f[2], t) <=> Cardinality(Failed) >= FailedThreshold
    <2>1. {e \in A!TerminalsOf(f[2]) : e.type = "failed" /\ row[e].ts >= t - FailedWindow} = Failed
      BY <1>1, <1>2 DEF A!TerminalsOf, A!Terminals
    <2> HIDE DEF Failed
    <2>2. QED
      BY <2>1, SameCounts DEF A!FailedBurst
  <1>6. A!Justified(f, t) <=> \E S \in SUBSET visible : Cardinality(S) = FailedThreshold /\ S \in SUBSET Failed
    <2>1. A!Justified(f, t) <=> \E S \in SUBSET visible :
                /\ Cardinality(S) = FailedThreshold
                /\ \A e \in S : e.family = f[2] /\ e.type = "failed" /\ row[e].ts + FailedWindow >= t
      BY SameCounts DEF A!Justified
    <2>2. ASSUME NEW S \in SUBSET visible
          PROVE  S \in SUBSET Failed
                   <=> \A e \in S : e.family = f[2] /\ e.type = "failed" /\ row[e].ts + FailedWindow >= t
      OBVIOUS
    <2> HIDE DEF Failed
    <2>3. QED
      BY <2>1, <2>2, Zenon
  <1>7. Failed \in SUBSET visible
    OBVIOUS
  <1> HIDE DEF Failed
  <1>8. ASSUME Cardinality(Failed) >= FailedThreshold
        PROVE  \E S \in SUBSET visible : Cardinality(S) = FailedThreshold /\ S \in SUBSET Failed
    BY <1>1, <1>3, <1>4, <1>7, <1>8, HasSubset
  <1>9. ASSUME NEW S \in SUBSET visible, Cardinality(S) = FailedThreshold, S \in SUBSET Failed
        PROVE  Cardinality(Failed) >= FailedThreshold
    BY <1>1, <1>3, <1>4, <1>9, FS_Subset
  <1>10. QED
    BY <1>5, <1>6, <1>8, <1>9

LEMMA StuckIsJustified ==
  ASSUME A!Proper, A!TypeOK, NEW f, f[1] = "stuck", NEW t \in Nat, \E e \in visible : e.correlation = f[2]
  PROVE  /\ A!StuckVerdict(f[2], t) \in {"open", "resolve"}
         /\ A!StuckVerdict(f[2], t) = "open" <=> A!Justified(f, t)
  <1>1. PICK S : S = {e \in visible : e.correlation = f[2]}
    OBVIOUS
  <1>2. S \in SUBSET visible /\ S # {}
    BY <1>1
  <1>3. Dated(row, S)
    BY <1>2, VisibleIsDated
  <1>4. PICK m : m = A!Newest(S)
    OBVIOUS
  <1>5. m \in S /\ \A d \in S \ {m} : After(row, m, d)
    BY <1>2, <1>3, <1>4, NewestIsLast, RulesInRows
  <1>6. \A e, d : A!ComesAfter(e, d) <=> After(row, e, d)
    BY DEF A!ComesAfter, After
  <1>7. StuckAge \in Nat /\ row[m].ts \in Nat /\ m.type \in A!Starts \cup A!Terminals
    BY <1>2, <1>5, FeedIsProper, EventTimes DEF A!Proper
  <1>8. A!StuckVerdict(f[2], t) =
          CASE m.type \in A!Terminals -> "resolve"
            [] m.type \in A!Starts -> A!Verdict(t - row[m].ts >= StuckAge)
            [] OTHER -> "keep"
    BY <1>1, <1>4, Zenon DEF A!StuckVerdict
  <1>9. /\ A!StuckVerdict(f[2], t) \in {"open", "resolve"}
        /\ A!StuckVerdict(f[2], t) = "open" <=> m.type \in A!Starts /\ row[m].ts + StuckAge <= t
    BY <1>7, <1>8 DEF A!Verdict, A!Starts, A!Terminals
  <1>10. A!Justified(f, t) <=>
            \E e \in S : /\ e.type \in A!Starts /\ row[e].ts + StuckAge <= t
                         /\ \A d \in S \ {e} : After(row, e, d)
    BY <1>1, <1>6 DEF A!Justified
  <1>11. \A e \in S : (\A d \in S \ {e} : After(row, e, d)) => e = m
    <2> SUFFICES ASSUME NEW e \in S, \A d \in S \ {e} : After(row, e, d), e # m PROVE FALSE
      OBVIOUS
    <2>1. After(row, e, m) /\ After(row, m, e)
      BY <1>5
    <2>2. QED
      BY <1>3, <1>5, <2>1 DEF Dated, After
  <1>12. QED
    BY <1>5, <1>9, <1>10, <1>11

RetryIn(q, S, t) ==
  LET candidates == {e \in {d \in S : d.family = "workflow" /\ d.type \in A!Terminals}
                            \cup {d \in S : d.family = "job" /\ d.type \in A!Terminals} :
                       q[e].ts >= t - RetryWindow}
      retried == {e \in candidates : e.attempt > 1}
  IN  /\ A!Cardinality(retried) >= RetryThreshold
      /\ 100 * A!Cardinality(retried) >= RetryPercent * A!Cardinality(candidates)

JustifiedIn(q, S, f, t) ==
  CASE f[1] = "failed_burst" ->
          \E T \in SUBSET S :
              /\ A!Cardinality(T) = FailedThreshold
              /\ \A e \in T : e.family = f[2] /\ e.type = "failed" /\ q[e].ts + FailedWindow >= t
    [] f[1] = "retry_spike" -> RetryIn(q, S, t)
    [] f[1] = "stuck" ->
          \E e \in S :
              /\ e.correlation = f[2] /\ e.type \in A!Starts /\ q[e].ts + StuckAge <= t
              /\ \A d \in S \ {e} : d.correlation = f[2] => After(q, e, d)

LEMMA AgreesInRows ==
  ASSUME NEW f
  PROVE  /\ \A t : A!Justified(f, t) <=> JustifiedIn(row, visible, f, t)
         /\ A!Agrees(f) <=> (finding[f] = "open" <=> JustifiedIn(row, visible, f, evaluated[f]))
         /\ A!Agrees(f)' <=> (finding'[f] = "open" <=> JustifiedIn(row', visible', f, evaluated'[f]))
  <1>1. \A t : A!Justified(f, t) = JustifiedIn(row, visible, f, t)
    BY Zenon DEF A!Justified, JustifiedIn, A!RetrySpike, RetryIn, A!TerminalsOf, A!ComesAfter, After
  <1>2. A!Agrees(f) = (finding[f] = "open" <=> JustifiedIn(row, visible, f, evaluated[f]))
    BY Zenon DEF A!Agrees, A!Justified, JustifiedIn, A!RetrySpike, RetryIn, A!TerminalsOf, A!ComesAfter, After
  <1>3. A!Agrees(f)' = (finding'[f] = "open" <=> JustifiedIn(row', visible', f, evaluated'[f]))
    BY Zenon DEF A!Agrees, A!Justified, JustifiedIn, A!RetrySpike, RetryIn, A!TerminalsOf, A!ComesAfter, After
  <1>4. QED
    BY <1>1, <1>2, <1>3

LEMMA JustifiedStays ==
  ASSUME NEW q, NEW p, NEW S, NEW f \in A!Fingerprints, f[1] # "duration_drift", NEW t,
         \A x \in S : p[x] = q[x]
  PROVE  /\ JustifiedIn(p, S, f, t) <=> JustifiedIn(q, S, f, t)
         /\ \A x : f[1] = "stuck" /\ x.correlation # f[2] =>
              (JustifiedIn(p, S \cup {x}, f, t) <=> JustifiedIn(q, S, f, t))
  <1>1. CASE f[1] = "failed_burst"
    <2>1. \A T \in SUBSET S : \A e \in T : p[e] = q[e]
      OBVIOUS
    <2>2. QED
      BY <1>1, <2>1 DEF JustifiedIn
  <1>2. CASE f[1] = "retry_spike"
    <2> DEFINE both == {d \in S : d.family = "workflow" /\ d.type \in A!Terminals}
                            \cup {d \in S : d.family = "job" /\ d.type \in A!Terminals}
               of(r) == {e \in both : r[e].ts >= t - RetryWindow}
    <2>1. of(p) = of(q)
      OBVIOUS
    <2>2. RetryIn(p, S, t) <=> RetryIn(q, S, t)
      <3>1. \A r : RetryIn(r, S, t) <=>
              /\ A!Cardinality({e \in of(r) : e.attempt > 1}) >= RetryThreshold
              /\ 100 * A!Cardinality({e \in of(r) : e.attempt > 1}) >= RetryPercent * A!Cardinality(of(r))
        BY Zenon DEF RetryIn
      <3> HIDE DEF of
      <3>2. QED
        BY <2>1, <3>1, Zenon
    <2>3. QED
      BY <1>2, <2>2 DEF JustifiedIn
  <1>3. CASE f[1] = "stuck"
    <2>1. JustifiedIn(p, S, f, t) <=> JustifiedIn(q, S, f, t)
      BY <1>3 DEF JustifiedIn, After
    <2>2. ASSUME NEW x, x.correlation # f[2]
          PROVE  JustifiedIn(p, S \cup {x}, f, t) <=> JustifiedIn(q, S, f, t)
      BY <1>3, <2>2 DEF JustifiedIn, After
    <2>3. QED
      BY <2>1, <2>2
  <1>4. QED
    BY <1>1, <1>2, <1>3, FingerprintKinds

(* What steps leave as it is.                                                 *)
DriftIsSlow(family) ==
  /\ (finding[<<"duration_drift", family>>] = "open") <=> (judged[family].event # None)
  /\ judged[family].event # None /\ judged[family].saw = visible => SlowIn(row, visible, judged[family].event)

LEMMA DriftsInRows ==
  /\ A!DriftsAreSlow <=> \A family \in A!Families : DriftIsSlow(family)
  /\ A!DriftsAreSlow' <=> \A family \in A!Families : DriftIsSlow(family)'
  <1>1. ASSUME NEW e
        PROVE  SlowIn(row, visible, e) <=>
                 /\ A!Cardinality(A!Baseline(e)) >= MinSamples
                 /\ 2 * A!Cardinality({d \in A!Baseline(e) : A!Duration(e) >= DriftRatio * A!Duration(d)})
                      >= A!Cardinality(A!Baseline(e))
    <2>1. \A x : A!Duration(x) = DurationIn(row, visible, x) /\ A!Baseline(x) = BaselineIn(row, visible, x)
      BY RulesInRows
    <2>2. {d \in A!Baseline(e) : A!Duration(e) >= DriftRatio * A!Duration(d)}
            = {d \in BaselineIn(row, visible, e) :
                 DurationIn(row, visible, e) >= DriftRatio * DurationIn(row, visible, d)}
      BY <2>1
    <2>3. QED
      BY <2>1, <2>2, SameCounts DEF SlowIn
  <1>2. ASSUME NEW e
        PROVE  SlowIn(row', visible', e) <=>
                 /\ A!Cardinality(A!Baseline(e)') >= MinSamples
                 /\ 2 * A!Cardinality({d \in A!Baseline(e)' : A!Duration(e)' >= DriftRatio * A!Duration(d)'})
                      >= A!Cardinality(A!Baseline(e)')
    <2>1. \A x : A!Duration(x)' = DurationIn(row', visible', x) /\ A!Baseline(x)' = BaselineIn(row', visible', x)
      BY RulesInNextRows
    <2>2. {d \in A!Baseline(e)' : A!Duration(e)' >= DriftRatio * A!Duration(d)'}
            = {d \in BaselineIn(row', visible', e) :
                 DurationIn(row', visible', e) >= DriftRatio * DurationIn(row', visible', d)}
      BY <2>1
    <2>3. QED
      BY <2>1, <2>2, SameCounts DEF SlowIn
  <1>3. QED
    BY <1>1, <1>2 DEF A!DriftsAreSlow, DriftIsSlow

LEMMA AnalysisTypes ==
  ASSUME A!TypeOK
  PROVE  /\ now \in 1 .. AnalysisNow /\ feed \in EventFeeds
         /\ row \in [A!Events -> A!EventRows] /\ visible \in SUBSET feed
         /\ \A e \in visible : row[e] # A!NoRow
         /\ finding \in [A!Fingerprints -> {"absent", "open", "resolved"}]
         /\ run \in A!Runs /\ run.at \in Nat /\ run.at <= now /\ run.access \in BOOLEAN
         /\ run.batch \in SUBSET visible /\ run.left \in SUBSET A!Fingerprints
         /\ run.left \in SUBSET A!Affected(run.batch)
         /\ run.at = 0 => run = A!Idle
         /\ run.batch = {} => run.left = {} /\ run.access = FALSE
         /\ evaluated \in [A!Fingerprints -> 0 .. now]
         /\ \A family \in A!Families :
              judged[family].event \in visible \cup {None} /\ judged[family].saw \subseteq visible
         /\ analysed \in SUBSET visible /\ late \in SUBSET visible /\ denied \in SUBSET visible
  <1>1. run \in A!Runs
    BY DEF A!TypeOK
  <1>2. run.at \in Nat /\ run.access \in BOOLEAN /\ run.left \in SUBSET A!Fingerprints
    BY <1>1 DEF A!Runs
  <1>3. QED
    BY <1>1, <1>2 DEF A!TypeOK

LEMMA SkippedStays ==
  ASSUME A!NothingIsSkipped, visible' = visible, \A e \in visible : row'[e] = row[e], cursor' = cursor,
         analysed \subseteq analysed', denied \subseteq denied',
         \A e \in visible : A!Behind(e, cursor) /\ e \in late => e \in late'
  PROVE  A!NothingIsSkipped'
  BY DEF A!NothingIsSkipped, A!Behind

LEMMA CoveredStays ==
  ASSUME A!TypeOK, A!BatchIsCovered, visible' = visible, \A e \in visible : row'[e] = row[e],
         cursor' = cursor, run'.batch = run.batch, late \subseteq late'
  PROVE  A!BatchIsCovered'
  <1>1. run.batch \in SUBSET visible
    BY AnalysisTypes
  <1>2. QED
    BY <1>1 DEF A!BatchIsCovered, A!Behind, A!Place

LEMMA AgreementStays ==
  ASSUME NEW f \in A!Fingerprints, f[1] # "duration_drift", A!Agrees(f) \/ A!Awaits(f),
         visible' = visible, \A e \in visible : row'[e] = row[e],
         finding'[f] = finding[f], evaluated'[f] = evaluated[f], A!Awaits(f) => A!Awaits(f)'
  PROVE  A!Agrees(f)' \/ A!Awaits(f)'
  BY AgreesInRows, JustifiedStays

LEMMA DriftStays ==
  ASSUME A!Proper, A!TypeOK, NEW family \in A!Families, DriftIsSlow(family),
         visible' = visible, \A e \in visible : row'[e] = row[e], judged'[family] = judged[family],
         (finding'[<<"duration_drift", family>>] = "open") <=> (finding[<<"duration_drift", family>>] = "open")
  PROVE  DriftIsSlow(family)'
  <1>1. PICK j : j = judged[family]
    OBVIOUS
  <1>2. j.event \in visible \cup {None}
    BY <1>1, AnalysisTypes
  <1>3. Dated(row, visible)
    BY VisibleIsDated
  <1>4. SlowIn(row, visible, j.event) /\ j.event \in visible => SlowIn(row', visible', j.event)
    BY <1>3, SlowStays
  <1>5. QED
    BY <1>1, <1>2, <1>4 DEF DriftIsSlow

(* A step of a run or of the surroundings after which all events are as they  *)
(* were.                                                                      *)
LEMMA EventsStayInv ==
  ASSUME A!Proper, A!AnalysisInv, A!TypeOK', visible' = visible, \A e \in visible : row'[e] = row[e],
         cursor' = cursor, finding' = finding, evaluated' = evaluated, judged' = judged,
         analysed' = analysed, denied' = denied,
         \A e \in visible : A!Behind(e, cursor) /\ e \in late => e \in late',
         A!BatchIsCovered',
         \A f \in A!Fingerprints : f[1] # "duration_drift" /\ A!Awaits(f) => A!Awaits(f)'
  PROVE  A!AnalysisInv'
  <1>1. A!NothingIsSkipped'
    BY SkippedStays DEF A!AnalysisInv
  <1>2. A!FindingsAgree'
    BY AgreementStays DEF A!FindingsAgree, A!AnalysisInv
  <1>3. A!DriftsAreSlow'
    BY DriftStays, DriftsInRows DEF A!AnalysisInv
  <1>4. QED
    BY <1>1, <1>2, <1>3 DEF A!AnalysisInv

LEMMA InitAnalysisInv ==
  ASSUME A!Proper, A!Init
  PROVE  A!AnalysisInv
  <1>1. A!TypeOK
    <2>1. A!Idle \in A!Runs /\ A!NoRow \in A!EventRows
      BY DEF A!Idle, A!Runs, A!NoRow, A!EventRows
    <2>2. AnalysisNow \in Nat \ {0} /\ MaxUpsets \in Nat
      BY DEF A!Proper
    <2>3. A!Idle.left = {} /\ A!Idle.batch = {} /\ A!Idle.at = 0 /\ A!Idle.access = FALSE /\ A!NoRow.ts = 0 /\ A!NoRow.created = 0
      BY DEF A!Idle, A!NoRow
    <2>4. [created |-> 0, id |-> 0] \in A!CursorRows
      BY DEF A!CursorRows
    <2>5. A!NotJudged.event = None /\ A!NotJudged.saw = {}
      BY DEF A!NotJudged
    <2>6. QED
      BY <2>1, <2>2, <2>3, <2>4, <2>5 DEF A!Init, A!TypeOK
  <1>2. A!NothingIsSkipped /\ A!BatchIsCovered /\ A!FindingsAgree
    BY DEF A!Init, A!NothingIsSkipped, A!BatchIsCovered, A!FindingsAgree
  <1>3. A!DriftsAreSlow
    <2>1. ASSUME NEW family \in A!Families PROVE DriftIsSlow(family)
      <3>1. <<"duration_drift", family>> \in A!Fingerprints
        BY DEF A!Fingerprints
      <3>2. judged[family].event = None /\ finding[<<"duration_drift", family>>] = "absent"
        BY <3>1 DEF A!Init, A!NotJudged
      <3>3. QED
        BY <3>2 DEF DriftIsSlow
    <2>2. QED
      BY <2>1, DriftsInRows
  <1>4. QED
    BY <1>1, <1>2, <1>3 DEF A!AnalysisInv

LEMMA InsertInv ==
  ASSUME A!Proper, A!AnalysisInv, NEW x \in feed, A!Insert(x)
  PROVE  A!AnalysisInv'
  <1>1. A!TypeOK
    BY DEF A!AnalysisInv
  <1>2. x \in A!Events /\ x.delay \in Nat /\ now \in Nat /\ now > x.delay /\ row[x] = A!NoRow
    BY <1>1, FeedIsProper, AnalysisTypes DEF A!Insert
  <1> DEFINE new == [ts |-> now - x.delay, created |-> now]
  <1>3. new \in A!EventRows /\ new.ts = now - x.delay /\ new.created = now /\ new # A!NoRow
    BY <1>2 DEF A!EventRows, A!NoRow
  <1>4. row' = [row EXCEPT ![x] = new]
    BY DEF A!Insert
  <1>5. \A e \in visible : e # x /\ row'[e] = row[e]
    BY <1>1, <1>2, <1>4, AnalysisTypes
  <1>6. /\ row' \in [A!Events -> A!EventRows]
        /\ \A e \in A!Events : row'[e].ts <= row'[e].created /\ row'[e].created <= now
        /\ \A e \in visible : row'[e] # A!NoRow
    <2>1. \A e \in A!Events : e # x => row'[e] = row[e]
      BY <1>1, <1>4, AnalysisTypes
    <2>2. row'[x] = new
      BY <1>1, <1>2, <1>4, AnalysisTypes
    <2>3. row' \in [A!Events -> A!EventRows]
      BY <1>1, <1>2, <1>3, <1>4, AnalysisTypes
    <2> HIDE DEF new
    <2>4. QED
      BY <1>1, <1>2, <1>3, <1>5, <2>1, <2>2, <2>3, EventTimes, AnalysisTypes
  <1>7. /\ visible' = visible /\ cursor' = cursor /\ finding' = finding /\ evaluated' = evaluated
        /\ judged' = judged /\ analysed' = analysed /\ denied' = denied /\ late' = late /\ run' = run
        /\ now' = now /\ feed' = feed /\ entitled' = entitled /\ upsets' = upsets
    BY DEF A!Insert, A!ghosts
  <1>8. A!TypeOK'
    BY <1>1, <1>6, <1>7 DEF A!TypeOK
  <1>9. A!BatchIsCovered'
    BY <1>1, <1>5, <1>7, CoveredStays DEF A!AnalysisInv
  <1>10. \A f \in A!Fingerprints : A!Awaits(f) => A!Awaits(f)'
    BY <1>7 DEF A!Awaits
  <1>11. QED
    BY <1>5, <1>7, <1>8, <1>9, <1>10, EventsStayInv

LEMMA CommitInv ==
  ASSUME A!Proper, A!AnalysisInv, NEW x \in feed, A!Commit(x)
  PROVE  A!AnalysisInv'
  <1>1. A!TypeOK
    BY DEF A!AnalysisInv
  <1>2. x \notin visible /\ visible' = visible \cup {x} /\ row[x] # A!NoRow
    BY DEF A!Commit
  <1>3. /\ row' = row /\ cursor' = cursor /\ finding' = finding /\ evaluated' = evaluated
        /\ judged' = judged /\ analysed' = analysed /\ denied' = denied /\ run' = run
        /\ now' = now /\ feed' = feed /\ entitled' = entitled /\ upsets' = upsets
    BY DEF A!Commit
  <1>4. late' \in SUBSET visible' /\ late \subseteq late'
    BY <1>1, <1>2, AnalysisTypes DEF A!Commit
  <1>5. /\ A!Behind(x, cursor) => x \in late'
        /\ run.batch # {} /\ A!Behind(x, A!End(run.batch)) => x \in late'
    BY DEF A!Commit
  <1>6. A!TypeOK'
    BY <1>1, <1>2, <1>3, <1>4 DEF A!TypeOK
  <1>7. A!NothingIsSkipped'
    BY <1>2, <1>3, <1>4, <1>5 DEF A!NothingIsSkipped, A!AnalysisInv, A!Behind
  <1>8. A!BatchIsCovered'
    <2> SUFFICES ASSUME NEW e \in visible', NEW d \in run.batch, A!Behind(e, A!Place(d))
                 PROVE  A!Behind(e, cursor) \/ e \in run.batch \cup late'
      BY <1>3 DEF A!BatchIsCovered, A!Behind, A!Place
    <2>1. CASE e \in visible
      BY <2>1, <1>4 DEF A!AnalysisInv, A!BatchIsCovered
    <2>2. CASE e = x
      <3>1. run.batch \in SUBSET visible /\ run.batch # {}
        BY <1>1, AnalysisTypes
      <3>2. PICK m \in run.batch : A!End(run.batch) = A!Place(m) /\ \A y \in run.batch : A!Behind(y, A!Place(m))
        BY <1>1, <3>1, EndIsLast
      <3>3. A!Behind(x, A!Place(m))
        <4>1. /\ row[x].created \in Nat /\ row[d].created \in Nat /\ row[m].created \in Nat
              /\ x.id \in Nat /\ d.id \in Nat /\ m.id \in Nat
          BY <1>1, <3>1, FeedIsProper, EventTimes
        <4>2. A!Behind(x, A!Place(d)) /\ A!Behind(d, A!Place(m))
          BY <2>2, <3>2
        <4>3. QED
          BY <4>1, <4>2 DEF A!Behind, A!Place
      <3>4. QED
        BY <1>5, <2>2, <3>1, <3>2, <3>3
    <2>3. QED
      BY <1>2, <2>1, <2>2
  <1>9. A!FindingsAgree'
    <2> SUFFICES ASSUME NEW f \in A!Fingerprints, f[1] # "duration_drift", evaluated[f] > 0
                 PROVE  A!Agrees(f)' \/ A!Awaits(f)'
      BY <1>3 DEF A!FindingsAgree
    <2>1. x \notin analysed /\ x \notin run.batch
      BY <1>1, <1>2, AnalysisTypes
    <2>2. CASE A!Awaits(f)
      BY <2>2, <1>2, <1>3 DEF A!Awaits
    <2>3. CASE f[1] = "stuck" => x.correlation = f[2]
      BY <2>1, <2>3, <1>2, <1>3 DEF A!Awaits
    <2>4. CASE A!Agrees(f) /\ f[1] = "stuck" /\ x.correlation # f[2]
      BY <2>4, <1>2, <1>3, AgreesInRows, JustifiedStays
    <2>5. QED
      BY <2>2, <2>3, <2>4 DEF A!AnalysisInv, A!FindingsAgree
  <1>10. A!DriftsAreSlow'
    <2>1. ASSUME NEW family \in A!Families PROVE DriftIsSlow(family)'
      <3>1. judged[family].saw # visible'
        BY <1>1, <1>2, AnalysisTypes
      <3>2. QED
        BY <1>3, <3>1, DriftsInRows DEF DriftIsSlow, A!AnalysisInv
    <2>2. QED
      BY <2>1, DriftsInRows
  <1>11. QED
    BY <1>6, <1>7, <1>8, <1>9, <1>10 DEF A!AnalysisInv

LEMMA AnalysisTickInv ==
  ASSUME A!Proper, A!AnalysisInv, A!Tick \/ A!ChangePlan
  PROVE  A!AnalysisInv'
  <1>1. A!TypeOK
    BY DEF A!AnalysisInv
  <1>2. /\ row' = row /\ visible' = visible /\ cursor' = cursor /\ finding' = finding
        /\ evaluated' = evaluated /\ judged' = judged /\ analysed' = analysed /\ denied' = denied
        /\ late' = late /\ run' = run /\ feed' = feed
    BY DEF A!Tick, A!ChangePlan, A!ghosts
  <1>3. now' \in 1 .. AnalysisNow /\ now <= now' /\ entitled' \in BOOLEAN /\ upsets' \in 0 .. MaxUpsets
    <2>1. AnalysisNow \in Nat /\ MaxUpsets \in Nat
      BY DEF A!Proper
    <2>2. now \in 1 .. AnalysisNow /\ entitled \in BOOLEAN /\ upsets \in 0 .. MaxUpsets
      BY <1>1 DEF A!TypeOK
    <2>3. CASE A!Tick
      BY <2>1, <2>2, <2>3 DEF A!Tick
    <2>4. CASE A!ChangePlan
      <3>1. now' = now /\ upsets' = upsets + 1 /\ upsets < MaxUpsets /\ entitled' = ~entitled
        BY <2>4 DEF A!ChangePlan
      <3>2. entitled' \in BOOLEAN
        BY <2>2, <3>1, Zenon
      <3>3. QED
        BY <2>1, <2>2, <3>1, <3>2
    <2>5. QED
      BY <2>3, <2>4
  <1>4. A!TypeOK'
    <2>1. now \in Nat /\ now' \in Nat
      BY <1>1, <1>3, AnalysisTypes
    <2>2. \A e \in A!Events : row[e].created \in Nat /\ row[e].created <= now'
      BY <1>1, <1>3, <2>1, EventTimes
    <2>3. run.at <= now' /\ evaluated \in [A!Fingerprints -> 0 .. now']
      BY <1>1, <1>3, <2>1, AnalysisTypes
    <2>4. QED
      BY <1>1, <1>2, <1>3, <2>2, <2>3 DEF A!TypeOK
  <1>5. A!BatchIsCovered'
    BY <1>1, <1>2, CoveredStays DEF A!AnalysisInv
  <1>6. \A f \in A!Fingerprints : A!Awaits(f) => A!Awaits(f)'
    BY <1>2 DEF A!Awaits
  <1>7. QED
    BY <1>2, <1>4, <1>5, <1>6, EventsStayInv

LEMMA IdleRun ==
  /\ A!Idle \in A!Runs /\ A!Idle.at = 0 /\ A!Idle.batch = {} /\ A!Idle.left = {} /\ A!Idle.access = FALSE
  BY DEF A!Idle, A!Runs

(* A run that has read nothing disturbs nothing.                              *)
LEMMA EmptyRunInv ==
  ASSUME A!Proper, A!AnalysisInv, run' \in A!Runs, run'.at <= now, run'.at = 0 => run' = A!Idle,
         run'.batch = {}, run'.left = {}, run'.access = FALSE, run.batch = {},
         UNCHANGED <<now, feed, row, visible, cursor, finding, entitled, upsets, A!ghosts>>
  PROVE  A!AnalysisInv'
  <1>1. A!TypeOK
    BY DEF A!AnalysisInv
  <1>2. /\ row' = row /\ visible' = visible /\ cursor' = cursor /\ finding' = finding
        /\ evaluated' = evaluated /\ judged' = judged /\ analysed' = analysed /\ denied' = denied
        /\ late' = late /\ now' = now /\ feed' = feed /\ entitled' = entitled /\ upsets' = upsets
    BY DEF A!ghosts
  <1>3. A!TypeOK'
    BY <1>1, <1>2 DEF A!TypeOK
  <1>4. A!BatchIsCovered'
    BY <1>2 DEF A!BatchIsCovered
  <1>5. \A f \in A!Fingerprints : A!Awaits(f) => A!Awaits(f)'
    BY <1>2 DEF A!Awaits
  <1>6. QED
    BY <1>2, <1>3, <1>4, <1>5, EventsStayInv

LEMMA BeginAnalysisInv ==
  ASSUME A!Proper, A!AnalysisInv, A!Begin
  PROVE  A!AnalysisInv'
  <1>1. /\ run = A!Idle /\ run' = [A!Idle EXCEPT !.at = now]
        /\ UNCHANGED <<now, feed, row, visible, cursor, finding, entitled, upsets, A!ghosts>>
    BY DEF A!Begin
  <1>2. now \in Nat /\ now > 0
    BY AnalysisTypes DEF A!AnalysisInv
  <1>3. /\ run'.at = now /\ run'.batch = {} /\ run'.left = {} /\ run'.access = FALSE
        /\ run' \in A!Runs
    BY <1>1, <1>2 DEF A!Idle, A!Runs
  <1>4. run'.at <= now /\ run'.at # 0 /\ run.batch = {}
    BY <1>1, <1>2, <1>3, IdleRun
  <1>5. QED
    BY <1>1, <1>3, <1>4, EmptyRunInv

(* A run that has read events answers for no fewer of them.                   *)
LEMMA FetchedRunInv ==
  ASSUME A!Proper, A!AnalysisInv, NEW F, F = A!Fetched, F # {}, run.at > 0, run.batch = {},
         run' = [at |-> run.at, batch |-> F, access |-> entitled,
                 left |-> IF entitled THEN A!Affected(F) ELSE {}],
         UNCHANGED <<now, feed, row, visible, cursor, finding, entitled, upsets, A!ghosts>>
  PROVE  A!AnalysisInv'
  <1>1. A!TypeOK
    BY DEF A!AnalysisInv
  <1>2. UNCHANGED <<now, feed, row, visible, cursor, finding, entitled, upsets, A!ghosts>>
    OBVIOUS
  <1>3. F \in SUBSET visible /\ F # {}
    BY DEF A!Fetched
  <1> DEFINE new == [at |-> run.at, batch |-> F, access |-> entitled,
                     left |-> IF entitled THEN A!Affected(F) ELSE {}]
  <1>4. /\ run' = new /\ row' = row /\ visible' = visible /\ cursor' = cursor /\ finding' = finding
        /\ evaluated' = evaluated /\ judged' = judged /\ analysed' = analysed /\ denied' = denied
        /\ late' = late /\ now' = now /\ feed' = feed /\ entitled' = entitled /\ upsets' = upsets
    BY <1>2 DEF A!ghosts
  <1>5. /\ new.at = run.at /\ new.batch = F /\ new.access = entitled
        /\ new.left = IF entitled THEN A!Affected(F) ELSE {}
        /\ new \in A!Runs /\ new # A!Idle
    <2>1. run.at \in Nat /\ entitled \in BOOLEAN /\ F \in SUBSET A!Events
      BY <1>1, <1>3, AnalysisTypes, FeedIsProper DEF A!TypeOK
    <2>2. A!Affected(F) \in SUBSET A!Fingerprints
      BY DEF A!Affected
    <2>3. new.batch = F /\ A!Idle.batch = {}
      BY DEF A!Idle
    <2>4. QED
      BY <1>3, <2>1, <2>2, <2>3 DEF A!Runs
  <1> HIDE DEF new
  <1>6. A!TypeOK'
    <2>1. run.at <= now
      BY <1>1, AnalysisTypes
    <2>2. run'.at # 0 /\ run'.batch # {} /\ run'.batch \subseteq visible
      BY <1>3, <1>4, <1>5
    <2>3. run'.left \subseteq A!Affected(run'.batch)
      BY <1>4, <1>5
    <2>4. QED
      BY <1>1, <1>4, <1>5, <2>1, <2>2, <2>3 DEF A!TypeOK
  <1>7. A!BatchIsCovered'
    <2> SUFFICES ASSUME NEW e \in visible, NEW d \in F, A!Behind(e, A!Place(d))
                 PROVE  A!Behind(e, cursor) \/ e \in F
      BY <1>4, <1>5 DEF A!BatchIsCovered, A!Behind, A!Place
    <2>1. QED
      BY <1>1, <1>2, FetchedIsFirst
  <1>8. ASSUME NEW f \in A!Fingerprints, f[1] # "duration_drift", A!Awaits(f) PROVE A!Awaits(f)'
    <2>1. PICK e \in visible \ analysed : f[1] = "stuck" => e.correlation = f[2]
      BY <1>8 DEF A!Awaits
    <2>2. e \in F => f \in A!Affected(F)
      BY <1>8, <2>1, FingerprintKinds DEF A!Affected
    <2>3. ~(new.access /\ e \in new.batch /\ f \notin new.left)
      BY <1>5, <2>2
    <2>4. QED
      BY <1>4, <2>1, <2>3 DEF A!Awaits
  <1>9. QED
    BY <1>4, <1>6, <1>7, <1>8, EventsStayInv

LEMMA FetchAnalysisInv ==
  ASSUME A!Proper, A!AnalysisInv, A!Fetch
  PROVE  A!AnalysisInv'
  <1>1. A!TypeOK
    BY DEF A!AnalysisInv
  <1>2. PICK F : F = A!Fetched
    OBVIOUS
  <1>0. /\ run.at > 0 /\ run.batch = {}
        /\ run' = IF F = {} THEN A!Idle
                  ELSE [at |-> run.at, batch |-> F, access |-> entitled,
                        left |-> IF entitled THEN A!Affected(F) ELSE {}]
        /\ UNCHANGED <<now, feed, row, visible, cursor, finding, entitled, upsets, A!ghosts>>
    BY <1>2 DEF A!Fetch
  <1>10. CASE F = {}
    <2>1. 0 <= now
      BY <1>1, AnalysisTypes
    <2>2. QED
      BY <1>0, <1>10, <2>1, IdleRun, EmptyRunInv
  <1>11. CASE F # {}
    BY <1>0, <1>2, <1>11, FetchedRunInv
  <1>12. QED
    BY <1>10, <1>11

(* The rule of a finding that is evaluated says whether it is justified.      *)
LEMMA VerdictIsJustified ==
  ASSUME A!Proper, A!TypeOK, NEW f \in run.left, f[1] # "duration_drift"
  PROVE  /\ A!VerdictOf(f) \in {"open", "resolve"}
         /\ A!VerdictOf(f) = "open" <=> JustifiedIn(row, visible, f, run.at)
  <1>1. f \in A!Fingerprints /\ f \in A!Affected(run.batch) /\ run.batch \in SUBSET visible /\ run.at \in Nat
    BY AnalysisTypes
  <1>2. CASE f[1] = "failed_burst"
    <2>1. A!VerdictOf(f) = A!Verdict(A!FailedBurst(f[2], run.at))
      BY <1>2 DEF A!VerdictOf
    <2>2. A!FailedBurst(f[2], run.at) <=> JustifiedIn(row, visible, f, run.at)
      BY <1>1, <1>2, BurstIsJustified, AgreesInRows
    <2>3. QED
      BY <2>1, <2>2 DEF A!Verdict
  <1>3. CASE f[1] = "retry_spike"
    <2>1. A!VerdictOf(f) = A!Verdict(A!RetrySpike(run.at))
      BY <1>3 DEF A!VerdictOf
    <2>2. A!RetrySpike(run.at) = RetryIn(row, visible, run.at)
      BY Zenon DEF A!RetrySpike, RetryIn, A!TerminalsOf
    <2>3. JustifiedIn(row, visible, f, run.at) = RetryIn(row, visible, run.at)
      BY <1>3 DEF JustifiedIn
    <2>4. QED
      BY <2>1, <2>2, <2>3 DEF A!Verdict
  <1>4. CASE f[1] = "stuck"
    <2>1. A!VerdictOf(f) = A!StuckVerdict(f[2], run.at)
      BY <1>4 DEF A!VerdictOf
    <2>2. \E e \in visible : e.correlation = f[2]
      BY <1>1, <1>4 DEF A!Affected
    <2>3. QED
      BY <1>1, <1>4, <2>1, <2>2, StuckIsJustified, AgreesInRows
  <1>5. QED
    BY <1>1, <1>2, <1>3, <1>4, FingerprintKinds

(* A drift is judged by an event that is there.                               *)
LEMMA DriftIsJudged ==
  ASSUME A!Proper, A!TypeOK, NEW family, <<"duration_drift", family>> \in run.left
  PROVE  /\ A!Newest(A!Candidates(family)) \in visible
         /\ A!VerdictOf(<<"duration_drift", family>>) = A!DriftVerdict(A!Newest(A!Candidates(family)))
         /\ A!VerdictOf(<<"duration_drift", family>>) \in {"open", "resolve", "keep"}
  <1> DEFINE f == <<"duration_drift", family>>
  <1>1. f[1] = "duration_drift" /\ f[2] = family
    OBVIOUS
  <1>2. f \in A!Affected(run.batch) /\ run.batch \in SUBSET visible
    BY AnalysisTypes
  <1>3. PICK S : S = A!Candidates(family)
    OBVIOUS
  <1>4. S \in SUBSET visible /\ S # {}
    BY <1>1, <1>2, <1>3 DEF A!Candidates, A!Affected
  <1>5. Dated(row, S)
    BY <1>4, VisibleIsDated
  <1>6. A!Newest(S) \in visible
    BY <1>4, <1>5, NewestIsLast, RulesInRows
  <1>7. A!VerdictOf(f) = A!DriftVerdict(A!Newest(S))
    BY <1>1, <1>3 DEF A!VerdictOf
  <1>8. A!DriftVerdict(A!Newest(S)) \in {"open", "resolve", "keep"}
    BY DEF A!DriftVerdict, A!Verdict
  <1>9. QED
    BY <1>3, <1>6, <1>7, <1>8

LEMMA EvaluateAnalysisInv ==
  ASSUME A!Proper, A!AnalysisInv, A!Evaluate
  PROVE  A!AnalysisInv'
  <1>1. A!TypeOK
    BY DEF A!AnalysisInv
  <1>2. PICK f0 \in A!InHand :
          /\ finding' = [finding EXCEPT ![f0] = A!Written(@, A!VerdictOf(f0))]
          /\ run' = [run EXCEPT !.left = @ \ {f0}]
          /\ evaluated' = [evaluated EXCEPT ![f0] = run.at]
          /\ judged' = [family \in A!Families |->
                 IF f0 # <<"duration_drift", family>> \/ A!VerdictOf(f0) = "keep" THEN judged[family]
                 ELSE IF A!VerdictOf(f0) = "open"
                      THEN [event |-> A!Newest(A!Candidates(family)), saw |-> visible]
                 ELSE A!NotJudged]
    BY Zenon DEF A!Evaluate
  <1> DEFINE H == {f0}
  <1>3. f0 \in run.left /\ H \in SUBSET run.left /\ f0 \in A!Fingerprints
    BY <1>1, AnalysisTypes DEF A!InHand
  <1>4. /\ row' = row /\ visible' = visible /\ cursor' = cursor /\ analysed' = analysed
        /\ denied' = denied /\ late' = late /\ now' = now /\ feed' = feed /\ entitled' = entitled
        /\ upsets' = upsets
    BY DEF A!Evaluate
  <1>6. /\ run' \in A!Runs /\ run'.at = run.at /\ run'.batch = run.batch /\ run'.access = run.access
        /\ run'.left = run.left \ H
    BY <1>1, <1>2, AnalysisTypes DEF A!Runs
  <1>7. finding' = [f \in A!Fingerprints |->
                      IF f \in H THEN A!Written(finding[f], A!VerdictOf(f)) ELSE finding[f]]
    BY <1>1, <1>2, <1>3, AnalysisTypes
  <1>8. evaluated' = [f \in A!Fingerprints |-> IF f \in H THEN run.at ELSE evaluated[f]]
    BY <1>1, <1>2, <1>3, AnalysisTypes
  <1>9. \A family \in A!Families :
          judged'[family] = IF <<"duration_drift", family>> \notin H
                                 \/ A!VerdictOf(<<"duration_drift", family>>) = "keep" THEN judged[family]
                            ELSE IF A!VerdictOf(<<"duration_drift", family>>) = "open" THEN
                                   [event |-> A!Newest(A!Candidates(family)), saw |-> visible]
                            ELSE A!NotJudged
    <2> SUFFICES ASSUME NEW family \in A!Families
                 PROVE  judged'[family] = IF <<"duration_drift", family>> \notin H
                                 \/ A!VerdictOf(<<"duration_drift", family>>) = "keep" THEN judged[family]
                            ELSE IF A!VerdictOf(<<"duration_drift", family>>) = "open" THEN
                                   [event |-> A!Newest(A!Candidates(family)), saw |-> visible]
                            ELSE A!NotJudged
      OBVIOUS
    <2>1. CASE f0 # <<"duration_drift", family>>
      <3>1. judged'[family] = judged[family]
        BY <1>2, <2>1
      <3>2. QED
        BY <2>1, <3>1
    <2>2. CASE f0 = <<"duration_drift", family>>
      BY <1>2, <2>2
    <2>3. QED
      BY <2>1, <2>2
  <1> HIDE DEF H
  <1>10. ASSUME NEW family \in A!Families
         PROVE  /\ judged'[family].event \in visible \cup {None} /\ judged'[family].saw \subseteq visible
                /\ DriftIsSlow(family)'
    <2> DEFINE f == <<"duration_drift", family>>
               e == A!Newest(A!Candidates(family))
    <2>1. f \in A!Fingerprints /\ finding[f] \in {"absent", "open", "resolved"}
      BY <1>1, AnalysisTypes DEF A!Fingerprints
    <2>2. None \notin visible
      <3>1. None \notin A!Events /\ visible \in SUBSET A!Events
        BY <1>1, FeedIsProper DEF A!Proper
      <3>2. QED
        BY <3>1
    <2>3. DriftIsSlow(family)
      BY DriftsInRows DEF A!AnalysisInv
    <2>4. judged[family].event \in visible \cup {None} /\ judged[family].saw \subseteq visible
      BY <1>1, AnalysisTypes
    <2>5. CASE f \notin H \/ A!VerdictOf(f) = "keep"
      <3>1. judged'[family] = judged[family]
        BY <1>9, <2>5
      <3>2. finding'[f] = "open" <=> finding[f] = "open"
        BY <1>7, <2>1, <2>5 DEF A!Written
      <3>3. DriftIsSlow(family)'
        BY <1>1, <1>4, <2>3, <3>1, <3>2, DriftStays
      <3>4. QED
        BY <2>4, <3>1, <3>3
    <2>6. CASE f \in H /\ A!VerdictOf(f) = "open"
      <3>1. e \in visible /\ A!DriftVerdict(e) = "open"
        BY <1>1, <1>3, <2>6, DriftIsJudged
      <3>2. judged'[family] = [event |-> e, saw |-> visible]
        BY <1>9, <2>6
      <3>3. judged'[family].event = e /\ judged'[family].saw = visible
        BY <3>2
      <3>4. finding'[f] = "open"
        BY <1>7, <2>1, <2>6 DEF A!Written
      <3> HIDE DEF e
      <3>5. SlowIn(row, visible, e)
        BY <1>1, <3>1, OpenDriftIsSlow
      <3>6. DriftIsSlow(family)'
        BY <1>4, <2>2, <3>1, <3>3, <3>4, <3>5 DEF DriftIsSlow
      <3>7. QED
        BY <3>1, <3>3, <3>6
    <2>7. CASE f \in H /\ A!VerdictOf(f) \notin {"open", "keep"}
      <3>1. A!VerdictOf(f) = "resolve"
        BY <1>1, <1>3, <2>7, DriftIsJudged
      <3>2. judged'[family] = A!NotJudged
        BY <1>9, <2>7
      <3>3. judged'[family].event = None /\ judged'[family].saw = {}
        BY <3>2 DEF A!NotJudged
      <3>4. finding'[f] # "open"
        BY <1>7, <2>1, <2>7, <3>1 DEF A!Written
      <3>5. DriftIsSlow(family)'
        BY <3>3, <3>4 DEF DriftIsSlow
      <3>6. QED
        BY <3>3, <3>5
    <2>8. QED
      BY <2>5, <2>6, <2>7
  <1>11. finding' \in [A!Fingerprints -> {"absent", "open", "resolved"}]
    <2>1. ASSUME NEW f \in A!Fingerprints
          PROVE  (IF f \in H THEN A!Written(finding[f], A!VerdictOf(f)) ELSE finding[f])
                   \in {"absent", "open", "resolved"}
      <3>1. finding[f] \in {"absent", "open", "resolved"}
        BY <1>1, AnalysisTypes
      <3>2. QED
        BY <3>1 DEF A!Written
    <2>2. QED
      BY <1>7, <2>1
  <1>12. evaluated' \in [A!Fingerprints -> 0 .. now]
    <2>1. run.at \in 0 .. now /\ evaluated \in [A!Fingerprints -> 0 .. now]
      BY <1>1, AnalysisTypes
    <2>2. QED
      BY <1>8, <2>1
  <1>13. A!TypeOK'
    <2>1. run.batch # {} /\ run.at # 0
      BY <1>1, <1>3, IdleRun, AnalysisTypes
    <2>2. run'.left \in SUBSET A!Affected(run'.batch)
      BY <1>1, <1>6, AnalysisTypes
    <2>3. QED
      BY <1>1, <1>4, <1>6, <1>10, <1>11, <1>12, <2>1, <2>2 DEF A!TypeOK
  <1>14. A!NothingIsSkipped'
    BY <1>4, SkippedStays DEF A!AnalysisInv
  <1>15. A!BatchIsCovered'
    BY <1>1, <1>4, <1>6, CoveredStays DEF A!AnalysisInv
  <1>16. A!FindingsAgree'
    <2> SUFFICES ASSUME NEW f \in A!Fingerprints, f[1] # "duration_drift", evaluated'[f] > 0
                 PROVE  A!Agrees(f)' \/ A!Awaits(f)'
      BY DEF A!FindingsAgree
    <2>1. CASE f \notin H
      <3>1. finding'[f] = finding[f] /\ evaluated'[f] = evaluated[f]
        BY <1>7, <1>8, <2>1
      <3>2. A!Awaits(f) => A!Awaits(f)'
        BY <1>4, <1>6, <2>1 DEF A!Awaits
      <3>3. A!Agrees(f) \/ A!Awaits(f)
        BY <3>1 DEF A!AnalysisInv, A!FindingsAgree
      <3>4. QED
        BY <1>4, <3>1, <3>2, <3>3, AgreementStays
    <2>2. CASE f \in H
      <3>1. /\ A!VerdictOf(f) \in {"open", "resolve"}
            /\ A!VerdictOf(f) = "open" <=> JustifiedIn(row, visible, f, run.at)
        BY <1>1, <1>3, <2>2, VerdictIsJustified
      <3>2. finding[f] \in {"absent", "open", "resolved"}
        BY <1>1, AnalysisTypes
      <3>3. finding'[f] = "open" <=> A!VerdictOf(f) = "open"
        BY <1>7, <2>2, <3>1, <3>2 DEF A!Written
      <3>4. evaluated'[f] = run.at
        BY <1>8, <2>2
      <3>5. QED
        BY <1>4, <3>1, <3>3, <3>4, AgreesInRows
    <2>3. QED
      BY <2>1, <2>2
  <1>17. A!DriftsAreSlow'
    BY <1>10, DriftsInRows
  <1>18. QED
    BY <1>13, <1>14, <1>15, <1>16, <1>17 DEF A!AnalysisInv

LEMMA AdvanceInv ==
  ASSUME A!Proper, A!AnalysisInv, A!Advance
  PROVE  A!AnalysisInv'
  <1>1. A!TypeOK
    BY DEF A!AnalysisInv
  <1>2. /\ row' = row /\ visible' = visible /\ finding' = finding /\ evaluated' = evaluated
        /\ judged' = judged /\ late' = late /\ now' = now /\ feed' = feed /\ entitled' = entitled
        /\ upsets' = upsets /\ run' = A!Idle /\ cursor' = A!End(run.batch)
        /\ run.batch # {} /\ run.left = {}
    BY DEF A!Advance
  <1>3. /\ analysed' = IF run.access THEN analysed \cup run.batch ELSE analysed
        /\ denied' = IF run.access THEN denied ELSE denied \cup run.batch
    BY DEF A!Advance
  <1>4. run.batch \in SUBSET visible /\ run.batch # {}
    BY <1>1, <1>2, AnalysisTypes
  <1>5. PICK m \in run.batch : A!End(run.batch) = A!Place(m) /\ \A y \in run.batch : A!Behind(y, A!Place(m))
    BY <1>1, <1>4, EndIsLast
  <1>6. cursor' = A!Place(m) /\ A!Place(m) \in A!CursorRows
    <2>1. m.id \in Nat /\ row[m].created \in Nat
      BY <1>1, <1>4, FeedIsProper, EventTimes
    <2>2. QED
      BY <1>2, <1>5, <2>1 DEF A!Place, A!CursorRows
  <1>7. A!TypeOK'
    <2>1. 0 <= now
      BY <1>1, AnalysisTypes
    <2>2. analysed' \cup late' \cup denied' \subseteq visible
      BY <1>1, <1>2, <1>3, <1>4, AnalysisTypes
    <2>3. QED
      BY <1>1, <1>2, <1>6, <2>1, <2>2, IdleRun DEF A!TypeOK
  <1>8. A!NothingIsSkipped'
    <2> SUFFICES ASSUME NEW e \in visible, A!Behind(e, A!Place(m))
                 PROVE  e \in analysed' \cup late' \cup denied'
      BY <1>2, <1>6 DEF A!NothingIsSkipped, A!Behind
    <2>1. A!Behind(e, cursor) \/ e \in run.batch \cup late
      BY DEF A!AnalysisInv, A!BatchIsCovered
    <2>2. A!Behind(e, cursor) => e \in analysed \cup late \cup denied
      BY DEF A!AnalysisInv, A!NothingIsSkipped
    <2>3. QED
      BY <1>2, <1>3, <2>1, <2>2
  <1>9. A!BatchIsCovered'
    BY <1>2, IdleRun DEF A!BatchIsCovered
  <1>10. A!FindingsAgree'
    <2> SUFFICES ASSUME NEW f \in A!Fingerprints, f[1] # "duration_drift", evaluated[f] > 0
                 PROVE  A!Agrees(f)' \/ A!Awaits(f)'
      BY <1>2 DEF A!FindingsAgree
    <2>1. A!Agrees(f) \/ A!Awaits(f)
      BY DEF A!AnalysisInv, A!FindingsAgree
    <2>2. A!Awaits(f) => A!Awaits(f)'
      BY <1>2, <1>3, IdleRun DEF A!Awaits
    <2>3. QED
      BY <1>2, <2>1, <2>2, AgreementStays
  <1>11. A!DriftsAreSlow'
    BY <1>1, <1>2, DriftStays, DriftsInRows DEF A!AnalysisInv
  <1>12. QED
    BY <1>7, <1>8, <1>9, <1>10, <1>11 DEF A!AnalysisInv

LEMMA AbortInv ==
  ASSUME A!Proper, A!AnalysisInv, A!Abort
  PROVE  A!AnalysisInv'
  <1>1. A!TypeOK
    BY DEF A!AnalysisInv
  <1>2. /\ row' = row /\ visible' = visible /\ finding' = finding /\ evaluated' = evaluated
        /\ judged' = judged /\ now' = now /\ feed' = feed /\ entitled' = entitled /\ cursor' = cursor
        /\ analysed' = analysed /\ denied' = denied /\ run' = A!Idle
        /\ late' = {e \in late : A!Behind(e, cursor)}
        /\ upsets < MaxUpsets /\ upsets' = upsets + 1
    BY DEF A!Abort
  <1>3. A!TypeOK'
    <2>1. 0 <= now
      BY <1>1, AnalysisTypes
    <2>2. upsets' \in 0 .. MaxUpsets
      <3>1. MaxUpsets \in Nat
        BY DEF A!Proper
      <3>2. QED
        BY <1>1, <1>2, <3>1 DEF A!TypeOK
    <2>3. late' \in SUBSET visible
      BY <1>1, <1>2, AnalysisTypes
    <2>4. QED
      BY <1>1, <1>2, <2>1, <2>2, <2>3, IdleRun DEF A!TypeOK
  <1>4. A!BatchIsCovered'
    BY <1>2, IdleRun DEF A!BatchIsCovered
  <1>5. \A f \in A!Fingerprints : A!Awaits(f) => A!Awaits(f)'
    BY <1>2, IdleRun DEF A!Awaits
  <1>6. QED
    BY <1>2, <1>3, <1>4, <1>5, EventsStayInv

LEMMA NextAnalysisInv ==
  ASSUME A!Proper, A!AnalysisInv, [A!Next]_(A!vars)
  PROVE  A!AnalysisInv'
  <1>1. CASE UNCHANGED A!vars
    <2>1. A!TypeOK /\ A!BatchIsCovered
      BY DEF A!AnalysisInv
    <2>2. A!TypeOK'
      BY <1>1, <2>1 DEF A!TypeOK, A!vars
    <2>3. A!BatchIsCovered'
      BY <1>1, <2>1, CoveredStays DEF A!vars
    <2>4. \A f \in A!Fingerprints : A!Awaits(f) => A!Awaits(f)'
      BY <1>1 DEF A!Awaits, A!vars
    <2>5. QED
      BY <1>1, <2>2, <2>3, <2>4, EventsStayInv DEF A!vars
  <1>2. CASE A!Next
    BY <1>2, InsertInv, CommitInv, AnalysisTickInv, BeginAnalysisInv, FetchAnalysisInv,
       EvaluateAnalysisInv, AdvanceInv, AbortInv DEF A!Next
  <1>3. QED
    BY <1>1, <1>2

(* A finding that waits for no event is what its rule says.                   *)
LEMMA FindingsFollow ==
  ASSUME A!AnalysisInv
  PROVE  A!FindingsFollowEvents
  <1>1. A!FindingsAreCurrent
    BY DEF A!FindingsAreCurrent, A!AnalysisInv, A!FindingsAgree, A!Agrees, A!Awaits
  <1>2. QED
    BY <1>1 DEF A!FindingsFollowEvents, A!AnalysisInv

----------------------------------------------------------------------------
(* The metrics.                                                               *)

LEMMA SameTotals == \A S : M!Cardinality(S) = Cardinality(S)
  BY DEF M!Cardinality, Cardinality

LEMMA MetricsBounds ==
  ASSUME M!Proper
  PROVE  /\ Lookback \in Nat /\ Start \in Nat /\ MetricsNow \in Nat /\ MaxBursts \in Nat
         /\ 2 <= Start /\ Start <= MetricsNow
  BY DEF M!Proper

LEMMA MetricsTypes ==
  ASSUME M!Proper, M!TypeOK
  PROVE  /\ now \in Nat /\ Start <= now /\ now <= MetricsNow
         /\ row \in Seq(M!Rows) /\ Len(row) \in Nat /\ DOMAIN row = 1 .. Len(row)
         /\ \A i \in DOMAIN row : row[i] \in M!Rows /\ row[i].at \in Nat /\ row[i].at <= now
  <1>1. row \in Seq(M!Rows) /\ \A i \in DOMAIN row : row[i].at <= now
    BY DEF M!TypeOK
  <1>2. Len(row) \in Nat /\ DOMAIN row = 1 .. Len(row) /\ \A i \in DOMAIN row : row[i] \in M!Rows
    BY <1>1
  <1>3. \A i \in DOMAIN row : row[i].at \in Nat
    BY <1>2 DEF M!Rows
  <1>4. now \in Nat /\ Start <= now /\ now <= MetricsNow
    BY MetricsBounds DEF M!TypeOK
  <1>5. QED
    BY <1>1, <1>2, <1>3, <1>4

LEMMA RowsAreFinite ==
  ASSUME M!Proper, M!TypeOK, NEW J \in SUBSET DOMAIN row
  PROVE  J \in SUBSET Nat /\ IsFiniteSet(J) /\ Cardinality(J) \in Nat /\ \A i \in J : i <= Len(row)
  <1>1. DOMAIN row = 1 .. Len(row) /\ Len(row) \in Nat
    BY MetricsTypes
  <1>2. IsFiniteSet(DOMAIN row)
    BY <1>1, FS_Interval
  <1>3. IsFiniteSet(J)
    BY <1>2, FS_Subset
  <1>4. QED
    BY <1>1, <1>3, FS_CardinalityType

(* The rows kept of a minute are one for each of its executions.              *)
LEMMA KeptIsOneEach ==
  ASSUME M!Proper, M!TypeOK, NEW J \in SUBSET DOMAIN row
  PROVE  Cardinality(M!Kept(J)) = Cardinality({row[i].execution : i \in J})
  <1> DEFINE K == M!Kept(J)
             E == {row[i].execution : i \in J}
             f == [i \in K |-> row[i].execution]
  <1>1. K \in SUBSET J /\ \A i \in K, j \in J : row[j].execution = row[i].execution => j <= i
    BY DEF M!Kept
  <1>2. \A i \in J : (\A j \in J : row[j].execution = row[i].execution => j <= i) => i \in K
    BY DEF M!Kept
  <1> HIDE DEF K
  <1>3. K \in SUBSET DOMAIN row /\ K \in SUBSET Nat /\ IsFiniteSet(K)
    BY <1>1, RowsAreFinite
  <1>4. f \in Injection(K, E)
    <2>1. f \in [K -> E]
      BY <1>1
    <2>2. \A i, j \in K : f[i] = f[j] => i = j
      <3> SUFFICES ASSUME NEW i \in K, NEW j \in K, row[i].execution = row[j].execution PROVE i = j
        OBVIOUS
      <3>1. i <= j /\ j <= i
        BY <1>1
      <3>2. QED
        BY <1>3, <3>1
    <2> HIDE DEF f, E
    <2>3. QED
      BY <2>1, <2>2 DEF Injection, IsInjective
  <1>5. \A x \in E : \E i \in K : f[i] = x
    <2> SUFFICES ASSUME NEW x \in E PROVE \E i \in K : row[i].execution = x
      OBVIOUS
    <2>1. PICK T : T = {i \in J : row[i].execution = x}
      OBVIOUS
    <2>2. T \in SUBSET J /\ T # {} /\ \A i \in T : row[i].execution = x
      BY <2>1
    <2>3. T \in SUBSET Nat /\ \A i \in T : i <= Len(row)
      BY <2>2, RowsAreFinite
    <2>4. Len(row) \in Nat
      BY MetricsTypes
    <2>5. PICK i \in T : \A j \in T : j <= i
      BY <2>2, <2>3, <2>4, HasGreatest
    <2>6. i \in K
      BY <1>2, <2>1, <2>2, <2>5
    <2>7. QED
      BY <2>2, <2>6
  <1>6. f \in Surjection(K, E)
    <2>1. f \in [K -> E]
      BY <1>1
    <2> HIDE DEF f, E
    <2>2. QED
      BY <1>5, <2>1 DEF Surjection
  <1>7. Cardinality(E) = Cardinality(K)
    <2> HIDE DEF f, E
    <2>1. QED
      BY <1>3, <1>4, <1>6, FS_Surjection
  <1>8. QED
    BY <1>7 DEF K

LEMMA MetricsAreNumbers ==
  ASSUME M!Proper, M!TypeOK, NEW m
  PROVE  /\ {M!Metrics(m).total, M!Metrics(m).failed, M!Metrics(m).retried, M!Metrics(m).duplicates} \subseteq Nat
         /\ M!Metrics(m).failed <= M!Metrics(m).total /\ M!Metrics(m).retried <= M!Metrics(m).total
         /\ M!Metrics(m).total = Cardinality(M!Kept(M!InMinute(m)))
  <1>1. PICK J, K : J = M!InMinute(m) /\ K = M!Kept(J)
    OBVIOUS
  <1>2. PICK F, T : F = {i \in K : row[i].status = "failed"} /\ T = {i \in K : row[i].retries > 0}
    OBVIOUS
  <1>3. J \in SUBSET DOMAIN row /\ K \in SUBSET J /\ F \in SUBSET K /\ T \in SUBSET K
    BY <1>1, <1>2 DEF M!InMinute, M!Base, M!Kept
  <1>4. /\ IsFiniteSet(J) /\ Cardinality(J) \in Nat /\ IsFiniteSet(K) /\ Cardinality(K) \in Nat
        /\ Cardinality(F) \in Nat /\ Cardinality(T) \in Nat
    <2>1. K \in SUBSET DOMAIN row /\ F \in SUBSET DOMAIN row /\ T \in SUBSET DOMAIN row
      BY <1>3
    <2>2. QED
      BY <1>3, <2>1, RowsAreFinite
  <1>5. Cardinality(K) <= Cardinality(J) /\ Cardinality(F) <= Cardinality(K) /\ Cardinality(T) <= Cardinality(K)
    BY <1>3, <1>4, FS_Subset
  <1>6. /\ M!Metrics(m).total = Cardinality(K) /\ M!Metrics(m).failed = Cardinality(F)
        /\ M!Metrics(m).retried = Cardinality(T) /\ M!Metrics(m).duplicates = Cardinality(J) - Cardinality(K)
    <2>1. M!Metrics(m) =
             [total |-> M!Cardinality(K), failed |-> M!Cardinality({i \in K : row[i].status = "failed"}),
              retried |-> M!Cardinality({i \in K : row[i].retries > 0}),
              duplicates |-> M!Cardinality(J) - M!Cardinality(K), p95 |-> M!Quantile(K)]
      BY <1>1 DEF M!Metrics
    <2>2. M!Metrics(m) =
             [total |-> Cardinality(K), failed |-> Cardinality(F), retried |-> Cardinality(T),
              duplicates |-> Cardinality(J) - Cardinality(K), p95 |-> M!Quantile(K)]
      BY <1>2, <2>1, SameTotals
    <2>3. QED
      BY <2>2
  <1>7. QED
    BY <1>1, <1>4, <1>5, <1>6

(* A rollup that reaches back to the start of a minute counts all of it.      *)
LEMMA WholeMinutesCount ==
  ASSUME M!Proper, M!TypeOK, NEW m \in M!Minutes, 2 * m >= now - Lookback
  PROVE  M!Metrics(m).total = M!Cardinality(M!Executions(m))
  <1> DEFINE J == {j \in DOMAIN row : M!MinuteOf(row[j]) = m}
  <1>1. M!InMinute(m) = J
    <2>1. m \in Nat /\ now \in Nat /\ Lookback \in Nat
      BY MetricsTypes, MetricsBounds DEF M!Minutes
    <2>2. \A j \in DOMAIN row : M!MinuteOf(row[j]) = m => row[j].at >= now - Lookback
      <3> SUFFICES ASSUME NEW j \in DOMAIN row, row[j].at \div 2 = m PROVE row[j].at >= now - Lookback
        BY DEF M!MinuteOf
      <3>1. row[j].at \in Nat
        BY MetricsTypes
      <3>2. row[j].at >= 2 * m
        BY <3>1, <2>1
      <3>3. QED
        BY <2>1, <3>1, <3>2
    <2>3. QED
      BY <2>2 DEF M!InMinute, M!Base
  <1>2. M!Executions(m) = {row[i].execution : i \in J}
    BY DEF M!Executions
  <1>3. J \in SUBSET DOMAIN row
    OBVIOUS
  <1> HIDE DEF J
  <1>4. QED
    BY <1>1, <1>2, <1>3, KeptIsOneEach, MetricsAreNumbers, SameTotals

LEMMA InitMetricsInv ==
  ASSUME M!Proper, M!Init
  PROVE  M!MetricsInv
  <1>1. M!NoMetrics.total = 0 /\ M!NoMetrics.failed = 0 /\ M!NoMetrics.retried = 0 /\ M!NoMetrics.duplicates = 0
    BY DEF M!NoMetrics
  <1>2. M!TypeOK
    <2>1. row \in Seq(M!Rows) /\ DOMAIN row = {}
      BY DEF M!Init
    <2>2. now \in Start .. MetricsNow /\ sent \in 0 .. MaxBursts
      BY MetricsBounds DEF M!Init
    <2>3. /\ DOMAIN minute = M!Minutes /\ DOMAIN peak = M!Minutes
          /\ \A m \in M!Minutes : minute[m] = M!NoMetrics
      BY DEF M!Init
    <2>4. history \in Histories /\ simulated = {} /\ unseen = {} /\ cut = {}
      BY DEF M!Init
    <2>5. \A m \in M!Minutes :
            /\ {minute[m].total, minute[m].failed, minute[m].retried, minute[m].duplicates} \subseteq Nat
            /\ minute[m].failed <= minute[m].total /\ minute[m].retried <= minute[m].total
      BY <1>1, <2>3
    <2>6. \A i \in DOMAIN row : row[i].at <= now
      BY <2>1
    <2>7. simulated \subseteq Scenarios /\ cut \subseteq M!Minutes /\ unseen \subseteq Nat
      BY <2>4
    <2>8. enabled \subseteq (UNION Watches) \cup {M!PolicyOf(s) : s \in Scenarios}
      BY DEF M!Init
    <2>9. QED
      BY <2>1, <2>2, <2>3, <2>4, <2>5, <2>6, <2>7, <2>8 DEF M!TypeOK
  <1>3. M!MinutesCountExecutions
    BY <1>1 DEF M!MinutesCountExecutions, M!Init
  <1>4. QED
    BY <1>2, <1>3 DEF M!MetricsInv

LEMMA StoredIsProper ==
  ASSUME M!Proper, M!TypeOK, NEW new \in Seq(M!Rows), \A i \in DOMAIN new : new[i].at <= now, M!Stored(new)
  PROVE  /\ row' \in Seq(M!Rows) /\ \A i \in DOMAIN row' : row'[i].at <= now
         /\ sent' \in 0 .. MaxBursts /\ unseen' \subseteq Nat
  <1>1. /\ row' = row \o new /\ sent < MaxBursts /\ sent' = sent + 1
        /\ unseen' = unseen \cup {M!MinuteOf(new[i]) : i \in DOMAIN new}
    BY DEF M!Stored
  <1>2. row \in Seq(M!Rows) /\ \A i \in DOMAIN row : row[i].at <= now
    BY DEF M!TypeOK
  <1>3. row \o new \in Seq(M!Rows)
    BY <1>2
  <1>4. ASSUME NEW i \in DOMAIN (row \o new) PROVE (row \o new)[i].at <= now
    <2>1. Len(row) \in Nat /\ Len(new) \in Nat /\ i \in 1 .. Len(row) + Len(new)
      BY <1>2
    <2>2. CASE i <= Len(row)
      BY <1>2, <2>1, <2>2
    <2>3. CASE i > Len(row)
      <3>1. (row \o new)[i] = new[i - Len(row)] /\ i - Len(row) \in DOMAIN new
        BY <1>2, <2>1, <2>3
      <3>2. QED
        BY <3>1
    <2>4. QED
      BY <2>1, <2>2, <2>3
  <1>5. sent' \in 0 .. MaxBursts
    BY <1>1, MetricsBounds DEF M!TypeOK
  <1>6. \A i \in DOMAIN new : M!MinuteOf(new[i]) \in Nat
    <2> SUFFICES ASSUME NEW i \in DOMAIN new PROVE M!MinuteOf(new[i]) \in Nat
      OBVIOUS
    <2>1. new[i] \in M!Rows
      OBVIOUS
    <2>2. new[i].at \in Nat
      BY <2>1 DEF M!Rows
    <2>3. QED
      BY <2>2 DEF M!MinuteOf
  <1>7. unseen' \subseteq Nat
    BY <1>1, <1>6 DEF M!TypeOK
  <1>8. QED
    BY <1>1, <1>3, <1>4, <1>5, <1>7

LEMMA SendInv ==
  ASSUME M!Proper, M!MetricsInv, M!Send
  PROVE  M!MetricsInv'
  <1>1. M!TypeOK /\ M!MinutesCountExecutions
    BY DEF M!MetricsInv
  <1>2. /\ now' = now /\ history' = history /\ minute' = minute /\ simulated' = simulated /\ enabled' = enabled
        /\ peak' = peak /\ cut' = cut
    BY DEF M!Send
  <1>3. PICK b \in Bursts : M!Stored([i \in DOMAIN b |->
            [execution |-> b[i].execution, at |-> now - b[i].age, status |-> b[i].status,
             retries |-> b[i].retries, duration |-> b[i].duration]])
    BY DEF M!Send
  <1> DEFINE new == [i \in DOMAIN b |->
            [execution |-> b[i].execution, at |-> now - b[i].age, status |-> b[i].status,
             retries |-> b[i].retries, duration |-> b[i].duration]]
             Sends == [execution : M!Names, age : 0 .. Start, status : M!Statuses, retries : Nat, duration : Nat]
  <1>4. b \in Seq(Sends)
    BY DEF M!Proper
  <1>5. Len(b) \in Nat /\ DOMAIN b = 1 .. Len(b) /\ \A i \in DOMAIN b : b[i] \in Sends
    <2> HIDE DEF Sends
    <2>1. QED
      BY <1>4
  <1>6. \A i \in DOMAIN b : new[i] \in M!Rows /\ new[i].at <= now
    <2> SUFFICES ASSUME NEW i \in DOMAIN b PROVE new[i] \in M!Rows /\ new[i].at <= now
      OBVIOUS
    <2>1. /\ b[i].execution \in M!Names /\ b[i].age \in 0 .. Start /\ b[i].status \in M!Statuses
          /\ b[i].retries \in Nat /\ b[i].duration \in Nat
      BY <1>5
    <2>2. now - b[i].age \in Nat /\ now - b[i].age <= now
      BY <1>1, <2>1, MetricsTypes, MetricsBounds
    <2>3. QED
      BY <2>1, <2>2 DEF M!Rows
  <1>7. new \in Seq(M!Rows) /\ DOMAIN new = DOMAIN b
    <2>1. new \in [1 .. Len(b) -> M!Rows]
      BY <1>5, <1>6
    <2> HIDE DEF new
    <2>2. new \in Seq(M!Rows)
      BY <1>5, <2>1
    <2>3. QED
      BY <1>5, <2>1, <2>2
  <1> HIDE DEF new
  <1>8. /\ row' \in Seq(M!Rows) /\ \A i \in DOMAIN row' : row'[i].at <= now
        /\ sent' \in 0 .. MaxBursts /\ unseen' \subseteq Nat
    BY <1>1, <1>3, <1>6, <1>7, StoredIsProper DEF new
  <1>9. M!TypeOK'
    BY <1>1, <1>2, <1>8 DEF M!TypeOK
  <1>10. M!MinutesCountExecutions'
    BY <1>1, <1>2 DEF M!MinutesCountExecutions
  <1>11. QED
    BY <1>9, <1>10 DEF M!MetricsInv

LEMMA SimulatedRows ==
  ASSUME M!Proper, M!TypeOK, NEW s \in Scenarios, NEW i \in 0 .. 35
  PROVE  M!Simulation(s, i) \in M!Rows /\ M!Simulation(s, i).at <= now
  <1>1. s \in {"webhook-failure", "retry-storm", "latency-spike", "duplicate-webhook"}
    BY DEF M!Proper
  <1>2. PICK r : r = M!Simulation(s, i)
    OBVIOUS
  <1>3. r.execution \in M!Names
    <2>1. i \div 6 \in Nat /\ i \in Nat
      OBVIOUS
    <2>2. <<s, i \div 6>> \in Scenarios \X Nat /\ <<s, i>> \in Scenarios \X Nat
      BY <2>1
    <2>3. r.execution = IF s = "duplicate-webhook" THEN <<s, i \div 6>> ELSE <<s, i>>
      BY <1>2 DEF M!Simulation
    <2>4. r.execution \in Scenarios \X Nat
      BY <2>2, <2>3
    <2>5. QED
      BY <2>4, Zenon DEF M!Names
  <1>4. r.at \in Nat /\ r.at <= now
    <2>1. now \in Nat /\ 2 <= now
      BY MetricsTypes, MetricsBounds
    <2>2. r.at = (30 * now - 36 + i) \div 30
      BY <1>2 DEF M!Simulation
    <2>3. QED
      BY <2>1, <2>2
  <1>5. r.status \in M!Statuses
    <2>1. r.status = CASE s = "webhook-failure" -> IF i % 5 = 0 THEN "timeout" ELSE "failed"
                       [] s = "retry-storm" ->
                             IF i % 6 = 0 THEN "success" ELSE IF i % 2 = 0 THEN "failed" ELSE "timeout"
                       [] s = "latency-spike" -> IF i % 10 = 0 THEN "failed" ELSE "success"
                       [] s = "duplicate-webhook" -> "success"
      BY <1>2 DEF M!Simulation
    <2>2. r.status \in {"timeout", "failed", "success"}
      BY <1>1, <2>1
    <2>3. QED
      BY <2>2 DEF M!Statuses
  <1>6. r.retries \in Nat
    <2>1. i \in Nat /\ i % 2 \in Nat /\ i % 3 \in Nat /\ i % 4 \in Nat /\ 3 + (i % 4) \in Nat
      OBVIOUS
    <2>2. r.retries = CASE s = "webhook-failure" -> i % 3
                        [] s = "retry-storm" -> 3 + (i % 4)
                        [] s = "latency-spike" -> i % 2
                        [] s = "duplicate-webhook" -> 0
      BY <1>2 DEF M!Simulation
    <2>3. QED
      BY <1>1, <2>1, <2>2
  <1>7. r.duration \in Nat
    <2>1. i \in Nat /\ \A x, y \in Nat : (x + y * i) \div 100 \in Nat
      <3>1. i \in Nat /\ \A x, y \in Nat : y * i \in Nat
        OBVIOUS
      <3>2. \A z \in Nat : z \div 100 \in Nat
        OBVIOUS
      <3>3. \A x, y \in Nat : x + y * i \in Nat
        BY <3>1
      <3>4. QED
        BY <3>1, <3>2, <3>3
    <2>2. /\ (800 + 25 * i) \div 100 \in Nat /\ (1200 + 40 * i) \div 100 \in Nat
          /\ (7000 + 120 * i) \div 100 \in Nat /\ (450 + 10 * i) \div 100 \in Nat
      BY <2>1
    <2>3. r.duration = CASE s = "webhook-failure" -> (800 + 25 * i) \div 100
                         [] s = "retry-storm" -> (1200 + 40 * i) \div 100
                         [] s = "latency-spike" -> (7000 + 120 * i) \div 100
                         [] s = "duplicate-webhook" -> (450 + 10 * i) \div 100
      BY <1>2 DEF M!Simulation
    <2>4. QED
      BY <1>1, <2>2, <2>3
  <1>8. r = [execution |-> r.execution, at |-> r.at, status |-> r.status, retries |-> r.retries, duration |-> r.duration]
    BY <1>2 DEF M!Simulation
  <1>9. r \in M!Rows
    BY <1>3, <1>4, <1>5, <1>6, <1>7, <1>8 DEF M!Rows
  <1>10. QED
    BY <1>2, <1>4, <1>9

LEMMA SimulateInv ==
  ASSUME M!Proper, M!MetricsInv, M!Simulate
  PROVE  M!MetricsInv'
  <1>1. M!TypeOK /\ M!MinutesCountExecutions
    BY DEF M!MetricsInv
  <1>2. /\ now' = now /\ history' = history /\ minute' = minute
        /\ peak' = peak /\ cut' = cut
    BY DEF M!Simulate
  <1>3. PICK s \in Scenarios : /\ simulated' = simulated \cup {s}
                               /\ enabled' = IF \E p \in enabled : p.metric = M!PolicyOf(s).metric
                                             THEN enabled ELSE enabled \cup {M!PolicyOf(s)}
                               /\ M!Stored([n \in 1 .. 36 |-> M!Simulation(s, n - 1)])
    BY DEF M!Simulate
  <1> DEFINE new == [n \in 1 .. 36 |-> M!Simulation(s, n - 1)]
  <1>4. \A n \in 1 .. 36 : new[n] \in M!Rows /\ new[n].at <= now
    <2>1. \A n \in 1 .. 36 : n - 1 \in 0 .. 35
      OBVIOUS
    <2>2. QED
      BY <1>1, <2>1, SimulatedRows
  <1>5. new \in Seq(M!Rows) /\ DOMAIN new = 1 .. 36
    <2>1. new \in [1 .. 36 -> M!Rows]
      BY <1>4
    <2>2. \A k \in Nat : \A f \in [1 .. k -> M!Rows] : f \in Seq(M!Rows)
      OBVIOUS
    <2>3. DOMAIN new = 1 .. 36
      OBVIOUS
    <2> HIDE DEF new
    <2>4. QED
      BY <2>1, <2>2, <2>3
  <1> HIDE DEF new
  <1>6. /\ row' \in Seq(M!Rows) /\ \A i \in DOMAIN row' : row'[i].at <= now
        /\ sent' \in 0 .. MaxBursts /\ unseen' \subseteq Nat
    BY <1>1, <1>3, <1>4, <1>5, StoredIsProper DEF new
  <1>7. /\ simulated' \subseteq Scenarios
        /\ enabled' \subseteq (UNION Watches) \cup {M!PolicyOf(r) : r \in Scenarios}
    <2>1. simulated' \subseteq Scenarios
      BY <1>1, <1>3 DEF M!TypeOK
    <2>2. enabled' = enabled \/ enabled' = enabled \cup {M!PolicyOf(s)}
      BY <1>3
    <2>3. PICK P : P = {M!PolicyOf(r) : r \in Scenarios}
      OBVIOUS
    <2>4. M!PolicyOf(s) \in P
      BY <2>3
    <2>5. enabled \subseteq (UNION Watches) \cup P
      BY <1>1, <2>3 DEF M!TypeOK
    <2>6. enabled' \subseteq (UNION Watches) \cup P
      <3>1. PICK q : q = M!PolicyOf(s)
        OBVIOUS
      <3>2. enabled' = enabled \/ enabled' = enabled \cup {q}
        BY <2>2, <3>1
      <3>3. q \in P
        BY <2>4, <3>1
      <3>4. QED
        BY <2>5, <3>2, <3>3
    <2>7. QED
      BY <2>1, <2>3, <2>6
  <1>8. M!TypeOK'
    BY <1>1, <1>2, <1>6, <1>7 DEF M!TypeOK
  <1>9. M!MinutesCountExecutions'
    BY <1>1, <1>2 DEF M!MinutesCountExecutions
  <1>10. QED
    BY <1>8, <1>9 DEF M!MetricsInv

(* A minute that a rollup writes has rows within reach; unless it counts every *)
(* execution of the minute, the reach began inside it.                        *)
LEMMA RollupInv ==
  ASSUME M!Proper, M!MetricsInv, M!Rollup
  PROVE  M!MetricsInv'
  <1>1. M!TypeOK /\ M!MinutesCountExecutions
    BY DEF M!MetricsInv
  <1>2. /\ now' = now /\ history' = history /\ row' = row /\ simulated' = simulated /\ sent' = sent /\ enabled' = enabled
        /\ unseen' \subseteq unseen
    BY DEF M!Rollup
  <1>3. /\ DOMAIN minute' = M!Minutes
        /\ \A m \in M!Minutes :
             minute'[m] = IF M!InMinute(m) # {} THEN M!Metrics(m) ELSE minute[m]
    BY DEF M!Rollup
  <1>4. /\ DOMAIN peak' = M!Minutes
        /\ \A m \in M!Minutes :
             peak'[m] = IF M!InMinute(m) # {} THEN M!Cardinality(M!Executions(m)) ELSE peak[m]
    BY DEF M!Rollup
  <1>5. cut' = cut \cup {m \in M!Minutes : 2 * m < now - Lookback /\ M!InMinute(m) # {}}
    BY DEF M!Rollup
  <1>6. \A m \in M!Minutes :
          /\ {minute'[m].total, minute'[m].failed, minute'[m].retried, minute'[m].duplicates} \subseteq Nat
          /\ minute'[m].failed <= minute'[m].total /\ minute'[m].retried <= minute'[m].total
    <2> SUFFICES ASSUME NEW m \in M!Minutes
                 PROVE  /\ {minute'[m].total, minute'[m].failed, minute'[m].retried, minute'[m].duplicates} \subseteq Nat
                        /\ minute'[m].failed <= minute'[m].total /\ minute'[m].retried <= minute'[m].total
      OBVIOUS
    <2>1. CASE M!InMinute(m) # {}
      <3>1. minute'[m] = M!Metrics(m)
        BY <1>3, <2>1
      <3>2. QED
        BY <1>1, <3>1, MetricsAreNumbers
    <2>2. CASE M!InMinute(m) = {}
      <3>1. minute'[m] = minute[m]
        BY <1>3, <2>2
      <3>2. QED
        BY <1>1, <3>1 DEF M!TypeOK
    <2>3. QED
      BY <2>1, <2>2
  <1>7. cut' \subseteq M!Minutes
    BY <1>1, <1>5 DEF M!TypeOK
  <1>8. M!TypeOK'
    BY <1>1, <1>2, <1>3, <1>4, <1>6, <1>7 DEF M!TypeOK
  <1>9. \A m \in M!Minutes \ cut' : minute'[m].total = peak'[m]
    <2> SUFFICES ASSUME NEW m \in M!Minutes, m \notin cut' PROVE minute'[m].total = peak'[m]
      OBVIOUS
    <2>1. CASE M!InMinute(m) # {}
      <3>1. ~(2 * m < now - Lookback)
        BY <1>5, <2>1
      <3>2. m \in Nat /\ now \in Nat /\ Lookback \in Nat
        BY <1>1, MetricsTypes, MetricsBounds DEF M!Minutes
      <3>3. 2 * m >= now - Lookback
        BY <3>1, <3>2
      <3>4. M!Metrics(m).total = M!Cardinality(M!Executions(m))
        BY <1>1, <3>3, WholeMinutesCount
      <3>5. QED
        BY <1>3, <1>4, <2>1, <3>4
    <2>2. CASE M!InMinute(m) = {}
      <3>1. m \notin cut /\ minute'[m] = minute[m] /\ peak'[m] = peak[m]
        BY <1>3, <1>4, <1>5, <2>2
      <3>2. QED
        BY <1>1, <3>1 DEF M!MinutesCountExecutions
    <2>3. QED
      BY <2>1, <2>2
  <1>10. M!MinutesCountExecutions'
    BY <1>9 DEF M!MinutesCountExecutions
  <1>11. QED
    BY <1>8, <1>10 DEF M!MetricsInv

LEMMA TickInv ==
  ASSUME M!Proper, M!MetricsInv, M!Tick
  PROVE  M!MetricsInv'
  <1>1. M!TypeOK /\ M!MinutesCountExecutions
    BY DEF M!MetricsInv
  <1>2. /\ history' = history /\ row' = row /\ minute' = minute /\ simulated' = simulated /\ enabled' = enabled
        /\ sent' = sent /\ unseen' = unseen /\ peak' = peak /\ cut' = cut
        /\ now < MetricsNow /\ now' = now + 1
    BY DEF M!Tick
  <1>3. now' \in Start .. MetricsNow /\ \A i \in DOMAIN row : row[i].at <= now'
    <2>1. now \in Nat /\ Start <= now /\ \A i \in DOMAIN row : row[i].at \in Nat /\ row[i].at <= now
      BY <1>1, MetricsTypes
    <2>2. QED
      BY <1>2, <2>1, MetricsBounds
  <1>4. M!TypeOK'
    BY <1>1, <1>2, <1>3 DEF M!TypeOK
  <1>5. M!MinutesCountExecutions'
    BY <1>1, <1>2 DEF M!MinutesCountExecutions
  <1>6. QED
    BY <1>4, <1>5 DEF M!MetricsInv

LEMMA NextMetricsInv ==
  ASSUME M!Proper, M!MetricsInv, [M!Next]_(M!vars)
  PROVE  M!MetricsInv'
  <1>1. CASE M!Send
    BY <1>1, SendInv
  <1>2. CASE M!Simulate
    BY <1>2, SimulateInv
  <1>3. CASE M!Rollup
    BY <1>3, RollupInv
  <1>4. CASE M!Tick
    BY <1>4, TickInv
  <1>5. CASE UNCHANGED M!vars
    <2>1. /\ now' = now /\ history' = history /\ row' = row /\ minute' = minute /\ simulated' = simulated /\ enabled' = enabled
          /\ sent' = sent /\ unseen' = unseen /\ peak' = peak /\ cut' = cut
      BY <1>5 DEF M!vars
    <2>2. QED
      BY <2>1 DEF M!MetricsInv, M!TypeOK, M!MinutesCountExecutions
  <1>6. QED
    BY <1>1, <1>2, <1>3, <1>4, <1>5 DEF M!Next

----------------------------------------------------------------------------
(* The whole.                                                              *)

(* The inductive invariant of the workflow detection.                         *)
THEOREM WorkflowInvariant == Spec => [](part = "workflow" => W!WorkflowInv)
  <1> DEFINE Inv == part = "workflow" => W!WorkflowInv
  <1>1. Init => Inv
    BY InitWorkflowInv, WorkflowIsProper DEF Init
  <1>2. Inv /\ [Next]_vars => Inv'
    <2> SUFFICES ASSUME Inv, [Next]_vars, part' = "workflow" PROVE W!WorkflowInv'
      OBVIOUS
    <2>1. part = "workflow"
      BY DEF Next, vars
    <2>2. W!WorkflowInv /\ [W!Next]_(W!vars)
      BY <2>1 DEF Next, vars, workflowVars, W!vars
    <2>3. QED
      BY <2>2, NextWorkflowInv, WorkflowIsProper
  <1>3. QED
    BY <1>1, <1>2, PTL DEF Spec

(* The incident of a rule is what the latest report asks for, each rule has   *)
(* one, and a breach mark is deserved (handleGenericWorkflowEventDetection,   *)
(* openOrRefreshBridgeIncident, markBreachedSla), whatever the reports and    *)
(* however many are handled at once, except for the causes the properties     *)
(* name.                                                                      *)
THEOREM IncidentsFollow == Spec => []IncidentsFollowWorkflow
  <1>1. (part = "workflow" => W!WorkflowInv) => IncidentsFollowWorkflow
    BY DEF IncidentsFollowWorkflow, W!WorkflowInv, W!IncidentsFollowWorkflow, W!IncidentsFollowReports,
      W!QuietRulesFollow
  <1>2. QED
    BY <1>1, WorkflowInvariant, PTL

(* The inductive invariant of the anomaly detection.                          *)
THEOREM AnomalyInvariant == Spec => [](part = "anomaly" => N!AnomalyInv)
  <1> DEFINE Inv == part = "anomaly" => N!AnomalyInv
  <1>1. Init => Inv
    BY InitAnomalyInv, AnomalyIsProper DEF Init
  <1>2. Inv /\ [Next]_vars => Inv'
    <2> SUFFICES ASSUME Inv, [Next]_vars, part' = "anomaly" PROVE N!AnomalyInv'
      OBVIOUS
    <2>1. part = "anomaly"
      BY DEF Next, vars
    <2>2. N!AnomalyInv /\ [N!Next]_(N!vars)
      BY <2>1 DEF Next, vars, anomalyVars, N!vars
    <2>3. QED
      BY <2>2, NextAnomalyInv, AnomalyIsProper
  <1>3. QED
    BY <1>1, <1>2, PTL DEF Spec

(* A triggered policy has an active incident after a run, the job resolves    *)
(* one only after three clear windows, suppresses fewer than Cooldown         *)
(* triggers in a row, and last_alert_at tells of an alert that was sent       *)
(* (upsertIncident, clearIncidentIfStable, shouldSuppressReopen), whatever    *)
(* the policies, however operators write meanwhile and wherever runs die,     *)
(* except for the causes the properties name.                                 *)
THEOREM AnomaliesAreKept == Spec => []AnomaliesAreTracked
  <1>1. (part = "anomaly" => N!AnomalyInv) => AnomaliesAreTracked
    BY AnomaliesFollow, AnomalyIsProper DEF AnomaliesAreTracked
  <1>2. QED
    BY <1>1, AnomalyInvariant, PTL

(* The inductive invariant of the dashboard.                                  *)
THEOREM ViewsInvariant == Spec => [](part = "views" => V!ViewsInv)
  <1> DEFINE Inv == part = "views" => V!ViewsInv
  <1>1. Init => Inv
    BY InitViewsInv, ViewsAreProper DEF Init
  <1>2. Inv /\ [Next]_vars => Inv'
    <2> SUFFICES ASSUME Inv, [Next]_vars, part' = "views" PROVE V!ViewsInv'
      OBVIOUS
    <2>1. part = "views"
      BY DEF Next, vars
    <2>2. V!ViewsInv /\ [V!Next]_(V!vars)
      BY <2>1 DEF Next, vars, viewsVars, V!vars
    <2>3. QED
      BY <2>2, NextViewsInv, ViewsAreProper
  <1>3. QED
    BY <1>1, <1>2, PTL DEF Spec

(* The dashboard says healthy or unknown only where no incident was active    *)
(* all through its reads, failing only where something was failing, counts    *)
(* that were between those at its two ends; the reliability windows miss no   *)
(* error that makes a workflow failing here, and groups keep attention        *)
(* (getOperationalDashboard, deriveGlobalState, eventStatus, normalizeStatus, *)
(* matchesScope, deriveAttention), whatever the incidents and events, their   *)
(* words and ties, and however they change between the reads.                 *)
THEOREM ViewsAreKept == Spec => []ViewsAreTrue
  <1>1. (part = "views" => V!ViewsInv) => ViewsAreTrue
    BY WindowsKnow, GroupsAttend, ViewsAreProper DEF ViewsAreTrue, V!ViewsAreTrue, V!ViewsInv
  <1>2. QED
    BY <1>1, ViewsInvariant, PTL

(* The inductive invariant of the operational analysis.                       *)
THEOREM AnalysisInvariant == Spec => [](part = "analysis" => A!AnalysisInv)
  <1> DEFINE Inv == part = "analysis" => A!AnalysisInv
  <1>1. Init => Inv
    BY InitAnalysisInv, AnalysisIsProper DEF Init
  <1>2. Inv /\ [Next]_vars => Inv'
    <2> SUFFICES ASSUME Inv, [Next]_vars, part' = "analysis" PROVE A!AnalysisInv'
      OBVIOUS
    <2>1. part = "analysis"
      BY DEF Next, vars
    <2>2. A!AnalysisInv /\ [A!Next]_(A!vars)
      BY <2>1 DEF Next, vars, analysisVars, A!vars
    <2>3. QED
      BY <2>2, NextAnalysisInv, AnalysisIsProper
  <1>3. QED
    BY <1>1, <1>2, PTL DEF Spec

(* No event of an entitled tenant is passed over by the cursor, and every     *)
(* finding is what its rule made of the events                                *)
(* (runOperationalEventsAnalysisBatch, analyzeOperationalEvents, upsertAlert, *)
(* resolveAlert), whatever the events, in whatever order they become visible  *)
(* and wherever a run dies, except for the causes the properties name.        *)
THEOREM AnalysesAreKept == Spec => [](part = "analysis" => A!FindingsFollowEvents)
  <1>1. (part = "analysis" => A!AnalysisInv) => (part = "analysis" => A!FindingsFollowEvents)
    BY FindingsFollow, AnalysisIsProper
  <1>2. QED
    BY <1>1, AnalysisInvariant, PTL

(* The inductive invariant of the metrics.                                    *)
THEOREM MetricsInvariant == Spec => [](part = "metrics" => M!MetricsInv)
  <1> DEFINE Inv == part = "metrics" => M!MetricsInv
  <1>1. Init => Inv
    BY InitMetricsInv, MetricsAreProper DEF Init
  <1>2. Inv /\ [Next]_vars => Inv'
    <2> SUFFICES ASSUME Inv, [Next]_vars, part' = "metrics" PROVE M!MetricsInv'
      OBVIOUS
    <2>1. part = "metrics"
      BY DEF Next, vars
    <2>2. M!MetricsInv /\ [M!Next]_(M!vars)
      BY <2>1 DEF Next, vars, metricsVars, M!vars
    <2>3. QED
      BY <2>2, NextMetricsInv, MetricsAreProper
  <1>3. QED
    BY <1>1, <1>2, PTL DEF Spec

(* A minute that no rollup reached the end of only counts each of the         *)
(* executions that a rollup could see in it once (buildAggregationQuery),     *)
(* whatever is sent, however late, and whenever rollups run.                  *)
THEOREM MinutesAreCounted == Spec => [](part = "metrics" => M!MinutesCountExecutions)
  <1>1. (part = "metrics" => M!MetricsInv) => (part = "metrics" => M!MinutesCountExecutions)
    BY DEF M!MetricsInv
  <1>2. QED
    BY <1>1, MetricsInvariant, PTL

(* Findings follow the events and minutes the executions, each but for the    *)
(* causes its module names (runOperationalEventsAnalysisBatch,                *)
(* runAggregateMetricsRollup).                                                *)
THEOREM AnalysesFollow == Spec => []AnalysesFollowEvents
  <1>1. /\ part = "analysis" => A!FindingsFollowEvents
        /\ part = "metrics" => M!MinutesCountExecutions
        => AnalysesFollowEvents
    BY DEF AnalysesFollowEvents
  <1>2. QED
    BY <1>1, AnalysesAreKept, MinutesAreCounted, PTL

(* The inductive invariants of the five modules hold together, which is what  *)
(* the model checker confirms of the small instance.                          *)
THEOREM DetectionsTypes == Spec => []TypeOK
  <1>1. /\ part = "workflow" => W!WorkflowInv
        /\ part = "analysis" => A!AnalysisInv
        /\ part = "anomaly" => N!AnomalyInv
        /\ part = "metrics" => M!MetricsInv
        /\ part = "views" => V!ViewsInv
        => TypeOK
    BY DEF TypeOK
  <1>2. QED
    BY <1>1, WorkflowInvariant, AnalysisInvariant, AnomalyInvariant, MetricsInvariant, ViewsInvariant, PTL
=============================================================================
