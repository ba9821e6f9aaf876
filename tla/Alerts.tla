------------------------------- MODULE Alerts -------------------------------
(***************************************************************************)
(* Alerting in monitorweb: the evaluator goroutine (web/alerts/evaluator), *)
(* the SQLite store it shares with the API handlers (web/alerts/store) and *)
(* the handlers that write to it (web/api/alerts).                         *)
(*                                                                         *)
(* Nothing spans two statements: no transaction, no lock.  The evaluator   *)
(* and a request are therefore modelled as the sequences of SQL statements *)
(* they execute, one statement a step, decided from what they read before. *)
(* The last steps of a sequence of the evaluator send the notification.    *)
(*                                                                         *)
(* Times are in units of 1/Sec of a second; the store keeps whole seconds. *)
(* A PromQL expression is a name; which instances (fingerprints) it        *)
(* returns is up to the environment.  The column expr of a row is a        *)
(* history variable: the expression the row was last written for.          *)
(* A definition whose comment begins with "Mutant" is a wrong form of the  *)
(* one after it, against which the properties are tried.                   *)
(***************************************************************************)
EXTENDS Integers, Sequences

CONSTANTS
  RuleIds,     \* rule ids, in the order AUTOINCREMENT hands them out
  Fps,         \* fingerprints of alert instances
  Exprs,       \* PromQL expressions
  Durations,   \* rule durations ("for"), in units
  Sec,         \* units in a second
  RateLimit,   \* five minutes
  Worlds       \* environments: [confs (the rules users write), silences (lengths they
               \* ask for; 0 is "none"), overlap (may a rule be updated or deleted
               \* during an evaluation?), dbFails (may a statement fail, with
               \* SQLITE_BUSY or a full disk?), and the bounds maxRestarts and maxTime]

ASSUME AlertsAssumption ==
  /\ RuleIds \subseteq Nat \ {0}
  /\ Durations \subseteq Nat
  /\ Sec \in Nat \ {0} /\ RateLimit \in Nat
  /\ \A w \in Worlds :
       /\ w.confs \subseteq [enabled : BOOLEAN, expr : Exprs, duration : Durations]
       /\ w.silences \subseteq Nat
       /\ w.overlap \in BOOLEAN /\ w.dbFails \in BOOLEAN
       /\ w.maxRestarts \in Nat /\ w.maxTime \in Nat

None == -1
NoExpr == "none"

VARIABLES
  world,     \* the one of Worlds that this is
  now,       \* the clock
  breach,    \* for each expression, the instances it returns at the moment
  rule,      \* table alert_rules
  row,       \* table alert_state
  history,   \* table alert_history: the states recorded for a rule
  restarts,
  epc, erules, erule, ecur, ehist, enow, etodo, eplan, \* the evaluator
  api,       \* the statements the request in progress has still to execute
  \* history variables: the last notification and the time of the last firing
  \* one, the firing ones since the acknowledgement, and since when every
  \* evaluation has seen the instance
  mailed, lastFired, sinceAck, seen

dbVars == <<rule, row, history>>
evalVars == <<epc, erules, erule, ecur, ehist, enow, etodo, eplan>>
ghostVars == <<mailed, lastFired, sinceAck, seen>>
vars == <<world, now, breach, dbVars, restarts, evalVars, api, ghostVars>>

NoRule == [phase |-> "unborn", enabled |-> FALSE, expr |-> NoExpr, duration |-> 0]
Conf == world.confs
Used == {c.expr : c \in world.confs}
NoRow == [status |-> "none", expr |-> NoExpr, since |-> None, ack |-> FALSE,
          silence |-> None, notified |-> None]

\* Mutant: a missing time is formatted too.
StoredAlways(t) == t - (t % Sec)

\* formatPtrTime: RFC 3339 with whole seconds.
Stored(t) == IF t = None THEN None ELSE t - (t % Sec)

NoCase == [id |-> 0, expr |-> NoExpr, duration |-> 0]
Instances == RuleIds \X Fps
AllInstances(v) == [x \in Instances |-> v]

\* NewStore: migrate drops the tables and makes new ones.
NewRules == [r \in RuleIds |-> NoRule]
NewStates == AllInstances(NoRow)
NewHistory == [r \in RuleIds |-> {}]

Init ==
  /\ world \in Worlds
  /\ now = 0
  /\ breach \in {b \in [Exprs -> SUBSET Fps] : \A e \in Exprs \ Used : b[e] = {}}
  /\ rule = NewRules /\ row = NewStates /\ history = NewHistory
  /\ restarts = 0
  /\ epc = "idle" /\ erules = {} /\ erule = NoCase /\ ecur = {} /\ etodo = {}
  /\ ehist = [f \in Fps |-> NoRow] /\ enow = 0 /\ eplan = <<>>
  /\ api = <<>>
  /\ mailed = AllInstances("none") /\ lastFired = AllInstances(None)
  /\ sinceAck = AllInstances(0) /\ seen = AllInstances(None)

(***************************************************************************)
(* The statements of the store.  A statement is a record whose field op    *)
(* names it; Exec is its effect on the tables.                             *)
(***************************************************************************)

CreateRule(st) ==
  /\ st.op = "create"
  /\ rule' = [rule EXCEPT ![st.id] = [phase |-> "live", enabled |-> st.conf.enabled,
                 expr |-> st.conf.expr, duration |-> st.conf.duration]]
  /\ UNCHANGED <<row, history, ghostVars>>

\* UPDATE alert_rules; without effect when the rule is gone.
UpdateRule(st) ==
  /\ st.op = "update"
  /\ rule' = IF rule[st.id].phase = "live"
             THEN [rule EXCEPT ![st.id] = [phase |-> "live", enabled |-> st.conf.enabled,
                      expr |-> st.conf.expr, duration |-> st.conf.duration]]
             ELSE rule
  /\ UNCHANGED <<row, history, ghostVars>>

DeleteRule(st) ==
  /\ st.op = "deleteRule"
  /\ rule' = [rule EXCEPT ![st.id] = [NoRule EXCEPT !.phase = "deleted"]]
  /\ UNCHANGED <<row, history, ghostVars>>

\* Mutant: only the rows of resolved instances go.
KeptIfActive(id) ==
  [x \in Instances |-> IF x[1] = id /\ row[x].status = "ok" THEN NoRow ELSE row[x]]

\* DELETE FROM alert_state WHERE rule_id = id.
WithoutStates(id) == [x \in Instances |-> IF x[1] = id THEN NoRow ELSE row[x]]

DeleteStates(st) ==
  /\ st.op = "deleteStates"
  /\ row' = WithoutStates(st.id)
  /\ mailed' = [x \in Instances |-> IF x[1] = st.id THEN "none" ELSE mailed[x]]
  /\ seen' = [x \in Instances |-> IF x[1] = st.id THEN None ELSE seen[x]]
  /\ lastFired' = [x \in Instances |-> IF x[1] = st.id THEN None ELSE lastFired[x]]
  /\ UNCHANGED <<rule, history, sinceAck>>

DeleteHistory(st) ==
  /\ st.op = "deleteHistory"
  /\ history' = [history EXCEPT ![st.id] = {}]
  /\ UNCHANGED <<rule, row, ghostVars>>

\* Mutant: the conflict clause also overwrites what the user set.
UpsertFields(old, st) ==
  [NoRow EXCEPT !.status = st.status, !.expr = st.expr, !.since = Stored(st.since)]

\* INSERT ... ON CONFLICT DO UPDATE: acknowledgement, silence and the time of
\* the last notification stay.
Upserted(old, st) ==
  [old EXCEPT !.status = st.status, !.expr = st.expr, !.since = Stored(st.since)]

UpsertState(st) ==
  /\ st.op = "upsert"
  /\ row' = [row EXCEPT ![st.x] = Upserted(@, st)]
  /\ UNCHANGED <<rule, history, ghostVars>>

\* The UPDATEs below touch an existing row, whatever its status.
Exists(x) == row[x].status # "none"

SetAcknowledged(st) ==
  /\ st.op = "ack"
  /\ row' = IF Exists(st.x)
            THEN [row EXCEPT ![st.x].ack = TRUE, ![st.x].silence = Stored(st.until)]
            ELSE row
  /\ sinceAck' = [sinceAck EXCEPT ![st.x] = 0]
  /\ UNCHANGED <<rule, history, mailed, lastFired, seen>>

Cleared(old) == [old EXCEPT !.ack = FALSE, !.silence = None]

ClearAck(st) ==
  /\ st.op = "clearAck"
  /\ row' = IF Exists(st.x) THEN [row EXCEPT ![st.x] = Cleared(@)] ELSE row
  /\ UNCHANGED <<rule, history, ghostVars>>

AddHistory(st) ==
  /\ st.op = "history"
  /\ history' = [history EXCEPT ![st.x[1]] = @ \cup {st.status}]
  /\ UNCHANGED <<rule, row, ghostVars>>

SetLastNotified(st) ==
  /\ st.op = "notified"
  /\ row' = IF Exists(st.x) THEN [row EXCEPT ![st.x].notified = Stored(now)] ELSE row
  /\ lastFired' = [lastFired EXCEPT ![st.x] = now]
  /\ UNCHANGED <<rule, history, mailed, sinceAck, seen>>

\* SendAlert: not a statement, it leaves the tables alone.  An error is logged,
\* and the notification counts as made.
SendAlert(st) ==
  /\ st.op = "mail"
  /\ mailed' = [mailed EXCEPT ![st.x] = st.status]
  /\ sinceAck' = [sinceAck EXCEPT ![st.x] =
                    IF st.status = "firing" /\ row[st.x].ack /\ @ < 2 THEN @ + 1 ELSE @]
  /\ UNCHANGED <<dbVars, lastFired, seen>>

Exec(st) ==
  \/ CreateRule(st) \/ UpdateRule(st) \/ DeleteRule(st)
  \/ DeleteStates(st) \/ DeleteHistory(st)
  \/ UpsertState(st) \/ SetAcknowledged(st) \/ ClearAck(st)
  \/ AddHistory(st) \/ SetLastNotified(st) \/ SendAlert(st)

(***************************************************************************)
(* Requests.                                                               *)
(***************************************************************************)

RuleWriteAllowed == world.overlap \/ epc = "idle"

Request(stmts) ==
  /\ api = <<>>
  /\ api' = stmts
  /\ UNCHANGED <<world, now, breach, dbVars, restarts, evalVars, ghostVars>>

\* POST /alerts/rules: the next id.
PostRule(r, conf) ==
  /\ RuleWriteAllowed
  /\ rule[r].phase = "unborn"
  /\ \A q \in RuleIds : q < r => rule[q].phase # "unborn"
  /\ Request(<<[op |-> "create", id |-> r, conf |-> conf]>>)

\* PUT: UPDATE the rule, then delete its state rows.
PutRule(r, conf) ==
  /\ RuleWriteAllowed
  /\ rule[r].phase # "unborn"
  /\ Request(<<[op |-> "update", id |-> r, conf |-> conf],
               [op |-> "deleteStates", id |-> r]>>)

\* DELETE: the rule, its state rows, its history.
DeleteRequest(r) ==
  /\ RuleWriteAllowed
  /\ rule[r].phase # "unborn"
  /\ Request(<<[op |-> "deleteRule", id |-> r], [op |-> "deleteStates", id |-> r],
               [op |-> "deleteHistory", id |-> r]>>)

\* POST /alerts/acknowledge for an instance the user has seen in some state.
Acknowledge(x, silence) ==
  /\ Exists(x)
  /\ Request(<<[op |-> "ack", x |-> x,
                until |-> IF silence = 0 THEN None ELSE now + silence]>>)

ApiStep ==
  /\ api # <<>>
  /\ Exec(Head(api))
  /\ api' = Tail(api)
  /\ UNCHANGED <<world, now, breach, restarts, evalVars>>

\* The first statement failing ends the request with an error; the errors of
\* the later ones are dropped.
ApiFail ==
  /\ world.dbFails
  /\ api # <<>>
  /\ api' = IF Head(api).op \in {"deleteStates", "deleteHistory"} THEN Tail(api)
            ELSE <<>>
  /\ UNCHANGED <<world, now, breach, dbVars, restarts, evalVars, ghostVars>>

(***************************************************************************)
(* The evaluator.                                                          *)
(***************************************************************************)

\* GetEnabledRules.
EvalBegin ==
  /\ epc = "idle"
  /\ world.overlap \/ api = <<>>
  /\ erules' = {[id |-> r, expr |-> rule[r].expr, duration |-> rule[r].duration] :
                  r \in {q \in RuleIds : rule[q].phase = "live" /\ rule[q].enabled}}
  /\ epc' = "rule"
  /\ UNCHANGED <<world, now, breach, dbVars, restarts, erule, ecur, ehist, enow, etodo, eplan,
                 api, ghostVars>>

EvalRule ==
  /\ epc = "rule"
  /\ \E r \in erules :
       /\ \A q \in erules : r.id <= q.id
       /\ erule' = r
       /\ erules' = erules \ {r}
  /\ epc' = "query"
  /\ UNCHANGED <<world, now, breach, dbVars, restarts, ecur, ehist, enow, etodo, eplan, api,
                 ghostVars>>

\* The locals of evaluate() and evaluateRule() end with them.
ForgetEval ==
  /\ epc' = "idle" /\ erules' = {} /\ erule' = NoCase /\ ecur' = {} /\ etodo' = {}
  /\ ehist' = [f \in Fps |-> NoRow] /\ enow' = 0 /\ eplan' = <<>>

EvalEnd ==
  /\ epc = "rule"
  /\ erules = {}
  /\ ForgetEval
  /\ UNCHANGED <<world, now, breach, dbVars, restarts, api, ghostVars>>

\* vm.Query.
EvalQuery ==
  /\ epc = "query"
  /\ ecur' = breach[erule.expr]
  /\ seen' = [x \in Instances |->
                IF x[1] # erule.id THEN seen[x]
                ELSE IF x[2] \notin ecur' THEN None
                ELSE IF seen[x] = None THEN now ELSE seen[x]]
  /\ epc' = "states"
  /\ UNCHANGED <<world, now, breach, dbVars, restarts, erules, erule, ehist, enow, etodo, eplan,
                 api, mailed, lastFired, sinceAck>>

\* The query, or reading the rows, fails: the rule keeps its state.
EvalQueryFail ==
  /\ epc \in {"query", "states"}
  /\ epc = "states" => world.dbFails
  /\ epc' = "rule"
  /\ UNCHANGED <<world, now, breach, dbVars, restarts, erules, erule, ecur, ehist, enow, etodo,
                 eplan, api, ghostVars>>

\* GetActiveStatesForRule.
Active(x) == IF row[x].status \in {"pending", "firing"} THEN row[x] ELSE NoRow

\* ... and now := time.Now().
EvalStates ==
  /\ epc = "states"
  /\ ehist' = [f \in Fps |-> Active(<<erule.id, f>>)]
  /\ enow' = now
  /\ etodo' = ecur \cup {f \in Fps : ehist'[f].status # "none"}
  /\ epc' = "instances"
  /\ UNCHANGED <<world, now, breach, dbVars, restarts, erules, erule, ecur, eplan, api,
                 ghostVars>>

Upsert(f, status, since) ==
  [op |-> "upsert", x |-> <<erule.id, f>>, status |-> status, expr |-> erule.expr,
   since |-> since]

\* fire() and recover().
Fire(f) == <<[op |-> "history", x |-> <<erule.id, f>>, status |-> "firing"],
             [op |-> "notified", x |-> <<erule.id, f>>],
             [op |-> "mail", x |-> <<erule.id, f>>, status |-> "firing"]>>
Recover(f) == <<[op |-> "history", x |-> <<erule.id, f>>, status |-> "recovered"],
                [op |-> "mail", x |-> <<erule.id, f>>, status |-> "recovered"]>>
Clear(f) == <<[op |-> "clearAck", x |-> <<erule.id, f>>]>>

\* Mutant: acknowledged instances are not skipped.
SuppressedIfSilent(h) == h.silence # None /\ enow < h.silence

\* The two tests that keep a firing instance quiet.
Suppressed(h) == h.ack \/ (h.silence # None /\ enow < h.silence)

\* The rate limit.
Recently(h) == h.notified # None /\ enow - h.notified < RateLimit

\* A pending instance has lasted for the rule's duration.
HeldLong(h) == enow - h.since >= erule.duration

\* A firing instance that is still there.
StillFiring(f, h) ==
  IF Suppressed(h) THEN <<Upsert(f, "firing", None)>>
  ELSE (IF h.silence # None THEN Clear(f) ELSE <<>>)
       \o <<Upsert(f, "firing", None)>>
       \o (IF Recently(h) THEN <<>> ELSE Fire(f))

\* An active instance the query no longer returns.
Gone(f, h) ==
  IF h.status = "pending" THEN <<Upsert(f, "ok", None)>>
  ELSE <<Upsert(f, "ok", None)>> \o Clear(f) \o Recover(f)

\* What evaluateRule does about instance f, given the row h read before.
Plan(f) ==
  LET h == ehist[f]
  IN  CASE f \notin ecur -> Gone(f, h)
        [] f \in ecur /\ h.status = "none" ->
             IF erule.duration = 0 THEN <<Upsert(f, "firing", None)>> \o Fire(f)
             ELSE <<Upsert(f, "pending", enow)>>
        [] f \in ecur /\ h.status = "pending" ->
             IF HeldLong(h) THEN <<Upsert(f, "firing", None)>> \o Fire(f)
             ELSE <<Upsert(f, "pending", h.since)>>
        [] f \in ecur /\ h.status = "firing" -> StillFiring(f, h)

\* The next instance: first those the query returned, then the others.
EvalInstance(f) ==
  /\ epc = "instances"
  /\ eplan = <<>>
  /\ f \in etodo
  /\ f \notin ecur => etodo \cap ecur = {}
  /\ eplan' = Plan(f)
  /\ etodo' = etodo \ {f}
  /\ UNCHANGED <<world, now, breach, dbVars, restarts, epc, erules, erule, ecur, ehist, enow,
                 api, ghostVars>>

EvalStep ==
  /\ eplan # <<>>
  /\ Exec(Head(eplan))
  /\ eplan' = Tail(eplan)
  /\ UNCHANGED <<world, now, breach, restarts, epc, erules, erule, ecur, ehist, enow, etodo, api>>

\* A statement of the evaluator that fails is logged and passed over.
EvalFail ==
  /\ world.dbFails
  /\ eplan # <<>>
  /\ Head(eplan).op # "mail"
  /\ eplan' = Tail(eplan)
  /\ IF Head(eplan).op = "notified"
     THEN lastFired' = [lastFired EXCEPT ![Head(eplan).x] = now]
     ELSE UNCHANGED lastFired
  /\ UNCHANGED <<world, now, breach, dbVars, restarts, epc, erules, erule, ecur, ehist, enow,
                 etodo, api, mailed, sinceAck, seen>>

EvalNextRule ==
  /\ epc = "instances"
  /\ eplan = <<>>
  /\ etodo = {}
  /\ epc' = "rule"
  /\ UNCHANGED <<world, now, breach, dbVars, restarts, erules, erule, ecur, ehist, enow, etodo,
                 eplan, api, ghostVars>>

(***************************************************************************)
(* The environment.                                                        *)
(***************************************************************************)

Clock ==
  /\ now < world.maxTime
  /\ now' = now + 1
  /\ UNCHANGED <<world, breach, dbVars, restarts, evalVars, api, ghostVars>>

\* An instance appears in, or disappears from, the result of an expression.
Flip(e, f) ==
  /\ breach' = [breach EXCEPT ![e] = IF f \in @ THEN @ \ {f} ELSE @ \cup {f}]
  /\ UNCHANGED <<world, now, dbVars, restarts, evalVars, api, ghostVars>>

\* The process ends, at any moment, and is started again: NewStore runs migrate.
Restart ==
  /\ restarts < world.maxRestarts
  /\ restarts' = restarts + 1
  /\ rule' = NewRules /\ row' = NewStates /\ history' = NewHistory
  /\ ForgetEval
  /\ mailed' = AllInstances("none") /\ lastFired' = AllInstances(None)
  /\ sinceAck' = AllInstances(0) /\ seen' = AllInstances(None)
  /\ api' = <<>>
  /\ UNCHANGED <<world, now, breach>>

EvalNext ==
  \/ EvalBegin \/ EvalRule \/ EvalEnd \/ EvalQuery \/ EvalQueryFail \/ EvalStates
  \/ (\E f \in Fps : EvalInstance(f)) \/ EvalStep \/ EvalFail \/ EvalNextRule

ApiNext ==
  \/ \E r \in RuleIds, conf \in Conf : PostRule(r, conf) \/ PutRule(r, conf)
  \/ \E r \in RuleIds : DeleteRequest(r)
  \/ \E x \in Instances, silence \in world.silences : Acknowledge(x, silence)
  \/ ApiStep \/ ApiFail

Next ==
  \/ EvalNext
  \/ ApiNext
  \/ Clock
  \/ \E e \in Used, f \in Fps : Flip(e, f)
  \/ Restart

Spec == Init /\ [][Next]_vars

(***************************************************************************)
(* Properties.                                                             *)
(***************************************************************************)

Times == Nat \cup {None}
Rows == [status : {"none", "ok", "pending", "firing"}, expr : Exprs \cup {NoExpr},
         since : Times, ack : BOOLEAN, silence : Times, notified : Times]

\* The tables and the evaluator's locals have their types; a row exists with a
\* status or not at all.
TypeOK ==
  /\ world \in Worlds
  /\ now \in 0 .. world.maxTime
  /\ breach \in [Exprs -> SUBSET Fps]
  /\ rule \in [RuleIds -> [phase : {"unborn", "live", "deleted"}, enabled : BOOLEAN,
                           expr : Exprs \cup {NoExpr}, duration : Durations \cup {0}]]
  /\ row \in [Instances -> Rows]
  /\ history \in [RuleIds -> SUBSET {"firing", "recovered"}]
  /\ restarts \in 0 .. world.maxRestarts
  /\ epc \in {"idle", "rule", "query", "states", "instances"}
  /\ erules \subseteq [id : RuleIds, expr : Exprs, duration : Durations]
  /\ ecur \subseteq Fps
  /\ ehist \in [Fps -> Rows]
  /\ enow \in 0 .. world.maxTime
  /\ etodo \subseteq Fps
  /\ mailed \in [Instances -> {"none", "firing", "recovered"}]
  /\ lastFired \in [Instances -> Times]
  /\ sinceAck \in [Instances -> 0 .. 2]
  /\ seen \in [Instances -> Times]

\* Statements succeed, and rules change between evaluations only.
Calm == ~world.overlap /\ ~world.dbFails

\* The evaluator is about to do st, and this step does it (or fails to).
Does(st) == eplan # <<>> /\ eplan' = Tail(eplan) /\ Head(eplan) = st
Notifies(x) == Does([op |-> "notified", x |-> x])
Mails(x, status) == Does([op |-> "mail", x |-> x, status |-> status])

\* Without faults and overlap, an acknowledgement that takes effect at any moment of
\* an evaluation stops the notifications of the instance, but for one that was
\* already decided (or the first one of an instance acknowledged while pending).
AckRespected == Calm => \A x \in Instances : row[x].ack => sinceAck[x] <= 1

\* Without faults and overlap: two firing notifications of one incident are the rate
\* limit apart, short by less than the second that the store rounds off; an incident
\* is notified only when every evaluation for the rule's duration (less that second)
\* has seen the instance; a recovery is mailed once, and only after a firing
\* notification.
NotifiedWhenDue ==
  [][\A x \in Instances :
       /\ Calm /\ Notifies(x) =>
            IF mailed[x] = "firing" THEN now - lastFired[x] > RateLimit - Sec
            ELSE seen[x] # None /\ now - seen[x] > erule.duration - Sec
       /\ Calm /\ Mails(x, "recovered") => mailed[x] = "firing"]_vars

AtRest == epc = "idle" /\ api = <<>>

\* Whatever fails, overlaps or restarts: a pending row says since when (so the
\* evaluator's fallback to now never restarts the wait), and a silence is never
\* without an acknowledgement (so the evaluator's two branches for a silence
\* alone are never taken).  Without faults and overlap, between evaluations and
\* requests: deleting a rule has removed its state rows and its history, and
\* updating it has reset its states, so that every row belongs to a rule that is
\* there, and a pending or firing one comes from the rule's current expression.
RowsRight ==
  \A x \in Instances :
    /\ row[x].status = "pending" => row[x].since # None
    /\ row[x].silence # None => row[x].ack
    /\ Calm /\ AtRest =>
         /\ Exists(x) \/ history[x[1]] # {} => rule[x[1]].phase = "live"
         /\ Active(x).status # "none" => row[x].expr = rule[x[1]].expr
=============================================================================
