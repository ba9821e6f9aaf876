---------------------------- MODULE AlertsProofs ----------------------------
(***************************************************************************)
(* Theorems about Alerts, for any rules, instances, durations and limits,  *)
(* and any number of requests, evaluations and restarts.                   *)
(***************************************************************************)
EXTENDS Alerts, SequenceTheorems, TLAPS

\* Concatenations of short sequences.
LEMMA ConcatIs ==
  ASSUME NEW S, NEW p \in Seq(S), NEW q \in Seq(S), NEW r \in Seq(S), Len(r) = Len(p) + Len(q),
         \A i \in 1 .. Len(r) : r[i] = IF i <= Len(p) THEN p[i] ELSE q[i - Len(p)]
  PROVE  p \o q = r
  BY ConcatProperties, SeqEqual

LEMMA ConcatTuples ==
  \A a, b, c, d : /\ <<a>> \o <<b, c, d>> = <<a, b, c, d>>
                  /\ (<<a>> \o <<b>>) \o <<c, d>> = <<a, b, c, d>>
<1> TAKE a, b, c, d
<1> DEFINE S == {a, b, c, d}
<1>a. a \in S /\ b \in S /\ c \in S /\ d \in S
  OBVIOUS
<1> HIDE DEF S
<1> DEFINE a1 == <<a>>
           b1 == <<b>>
           a2 == <<a, b>>
           c2 == <<c, d>>
           b3 == <<b, c, d>>
           a4 == <<a, b, c, d>>
<1>1. /\ a1 \in Seq(S) /\ b1 \in Seq(S) /\ a2 \in Seq(S) /\ c2 \in Seq(S) /\ b3 \in Seq(S)
      /\ a4 \in Seq(S)
      /\ Len(a1) = 1 /\ Len(b1) = 1 /\ Len(a2) = 2 /\ Len(c2) = 2 /\ Len(b3) = 3 /\ Len(a4) = 4
  BY <1>a
<1>2. /\ a1[1] = a /\ b1[1] = b /\ a2[1] = a /\ a2[2] = b /\ c2[1] = c /\ c2[2] = d
      /\ b3[1] = b /\ b3[2] = c /\ b3[3] = d
      /\ a4[1] = a /\ a4[2] = b /\ a4[3] = c /\ a4[4] = d
  OBVIOUS
<1> HIDE DEF a1, b1, a2, c2, b3, a4
<1>3. a1 \o b3 = a4
  <2>1. Len(a4) = Len(a1) + Len(b3)
    BY <1>1
  <2>2. \A i \in 1 .. Len(a4) : a4[i] = IF i <= Len(a1) THEN a1[i] ELSE b3[i - Len(a1)]
    BY <1>1, <1>2
  <2> QED
    BY <1>1, <2>1, <2>2, ConcatIs
<1>4. a1 \o b1 = a2
  <2>1. Len(a2) = Len(a1) + Len(b1)
    BY <1>1
  <2>2. \A i \in 1 .. Len(a2) : a2[i] = IF i <= Len(a1) THEN a1[i] ELSE b1[i - Len(a1)]
    BY <1>1, <1>2
  <2> QED
    BY <1>1, <2>1, <2>2, ConcatIs
<1>5. a2 \o c2 = a4
  <2>1. Len(a4) = Len(a2) + Len(c2)
    BY <1>1
  <2>2. \A i \in 1 .. Len(a4) : a4[i] = IF i <= Len(a2) THEN a2[i] ELSE c2[i - Len(a2)]
    BY <1>1, <1>2
  <2> QED
    BY <1>1, <2>1, <2>2, ConcatIs
<1>6. a1 \o b3 = a4 /\ (a1 \o b1) \o c2 = a4
  BY <1>3, <1>4, <1>5
<1> QED
  BY <1>6 DEF a1, b1, a2, c2, b3, a4

USE AlertsAssumption

(***************************************************************************)
(* Types.                                                                  *)
(***************************************************************************)

Cases == [id : RuleIds, expr : Exprs, duration : Durations]
Confs == [enabled : BOOLEAN, expr : Exprs, duration : Durations]
Rules == [phase : {"unborn", "live", "deleted"}, enabled : BOOLEAN,
          expr : Exprs \cup {NoExpr}, duration : Durations \cup {0}]

\* A rule that is there has an expression.
GoodRules == {w \in Rules : w.phase = "live" => w.expr \in Exprs /\ w.duration \in Durations}

\* The part of RowsRight that holds of every row at every moment.
GoodRows == {w \in Rows : /\ w.status = "pending" => w.since # None
                          /\ w.silence # None => w.ack}

\* The statements of a request.
RuleStmts == [op : {"create", "update"}, id : RuleIds, conf : Confs]
IdStmts == [op : {"deleteRule", "deleteStates", "deleteHistory"}, id : RuleIds]
AckStmts == [op : {"ack"}, x : Instances, until : Times]
ApiStmts == RuleStmts \cup IdStmts \cup AckStmts

\* The statements of the evaluator, for the rule it works on.
U(x, status, since) ==
  [op |-> "upsert", x |-> x, status |-> status, expr |-> erule.expr, since |-> since]
H(x, status) == [op |-> "history", x |-> x, status |-> status]
N(x) == [op |-> "notified", x |-> x]
M(x, status) == [op |-> "mail", x |-> x, status |-> status]
C(x) == [op |-> "clearAck", x |-> x]

Upserts == {st \in [op : {"upsert"}, x : Instances, status : {"ok", "pending", "firing"},
                    expr : Exprs, since : Times] : st.status = "pending" => st.since # None}
Notices == [op : {"history", "mail"}, x : Instances, status : {"firing", "recovered"}]
Marks == [op : {"notified", "clearAck"}, x : Instances]
EvalStmts == Upserts \cup Notices \cup Marks

TypeInv ==
  /\ TypeOK
  /\ rule \in [RuleIds -> GoodRules]
  /\ row \in [Instances -> GoodRows]
  /\ ehist \in [Fps -> GoodRows] /\ \A f \in Fps : ehist[f].status # "ok"
  /\ epc \in {"query", "states", "instances"} => erule \in Cases
  /\ epc = "instances" => \A f \in etodo \ ecur : ehist[f].status # "none"
  /\ api \in Seq(ApiStmts)
  /\ eplan \in Seq(EvalStmts)

LEMMA StoredType ==
  ASSUME NEW t \in Times
  PROVE  /\ Stored(t) \in Times /\ (t # None => Stored(t) # None)
         /\ t # None => Stored(t) <= t /\ t - Stored(t) < Sec /\ Stored(Stored(t)) = Stored(t)
<1>1. CASE t = None
  BY <1>1 DEF Stored, Times, None
<1>2. CASE t # None
  <2>1. t \in Nat /\ Sec \in Nat /\ Sec > 0
    BY <1>2 DEF Times, None
  <2>2. t % Sec \in Nat /\ t % Sec < Sec /\ t % Sec <= t
    BY <2>1, Z3
  <2>3. PICK s \in Nat : s = t - (t % Sec)
    BY <2>1, <2>2
  <2>4. s % Sec = 0
    <3>1. t \div Sec \in Nat /\ t = Sec * (t \div Sec) + (t % Sec)
      BY <2>1, Z3
    <3>2. PICK q \in Nat : s = q * Sec
      BY <2>1, <2>2, <2>3, <3>1, Z3
    <3> QED
      BY <2>1, <3>2, Z3
  <2>5. s # None /\ Stored(t) = s /\ Stored(s) = s
    BY <1>2, <2>3, <2>4 DEF Stored, None
  <2> QED
    BY <1>2, <2>1, <2>2, <2>3, <2>5 DEF Times, None
<1> QED
  BY <1>1, <1>2

LEMMA NoRowGood == NoRow \in GoodRows
  BY DEF NoRow, GoodRows, Rows, Times, None

LEMMA NoRuleGood == NoRule \in GoodRules /\ [NoRule EXCEPT !.phase = "deleted"] \in GoodRules
  BY DEF NoRule, GoodRules, Rules

\* What the statements make of a row.
LEMMA UpsertedRow ==
  ASSUME NEW old \in GoodRows, NEW st \in Upserts
  PROVE  /\ Upserted(old, st) \in GoodRows
         /\ Upserted(old, st).status = st.status /\ Upserted(old, st).expr = st.expr
         /\ Upserted(old, st).since = Stored(st.since)
         /\ Upserted(old, st).ack = old.ack /\ Upserted(old, st).silence = old.silence
         /\ Upserted(old, st).notified = old.notified
<1> DEFINE new == Upserted(old, st)
<1>1. PICK t \in Times : t = Stored(st.since) /\ (st.since # None => t # None)
  BY StoredType DEF Upserts
<1>2. new = [old EXCEPT !.status = st.status, !.expr = st.expr, !.since = t]
  BY <1>1 DEF Upserted
<1>3. /\ st.status \in {"ok", "pending", "firing"} /\ st.expr \in Exprs
      /\ st.status = "pending" => st.since # None
  BY DEF Upserts
<1>4. old \in Rows /\ (old.silence # None => old.ack)
  BY DEF GoodRows
<1>5. /\ new.status = st.status /\ new.expr = st.expr /\ new.since = t
      /\ new.ack = old.ack /\ new.silence = old.silence /\ new.notified = old.notified
  BY <1>2, <1>4 DEF Rows
<1>6. new \in Rows
  BY <1>2, <1>3, <1>4 DEF Rows
<1> QED
  BY <1>1, <1>3, <1>4, <1>5, <1>6 DEF GoodRows

LEMMA AckedRow ==
  ASSUME NEW old \in GoodRows, NEW s \in Times
  PROVE  LET new == [old EXCEPT !.ack = TRUE, !.silence = s]
         IN  /\ new \in GoodRows /\ new.ack = TRUE
             /\ new.status = old.status /\ new.expr = old.expr /\ new.since = old.since
             /\ new.notified = old.notified
  BY DEF GoodRows, Rows

LEMMA ClearedRow ==
  ASSUME NEW old \in GoodRows
  PROVE  /\ Cleared(old) \in GoodRows /\ Cleared(old).ack = FALSE
         /\ Cleared(old).status = old.status /\ Cleared(old).expr = old.expr
         /\ Cleared(old).since = old.since /\ Cleared(old).notified = old.notified
<1>1. None \in Times
  BY DEF Times
<1> QED
  BY <1>1 DEF GoodRows, Rows, Cleared

LEMMA NotifiedRow ==
  ASSUME NEW old \in GoodRows, NEW s \in Times
  PROVE  LET new == [old EXCEPT !.notified = s]
         IN  /\ new \in GoodRows /\ new.notified = s
             /\ new.status = old.status /\ new.expr = old.expr /\ new.since = old.since
             /\ new.ack = old.ack
  BY DEF GoodRows, Rows

\* The operation of a statement decides what executing it is.
LEMMA ExecOp ==
  ASSUME NEW st, Exec(st)
  PROVE  /\ st.op = "create" => CreateRule(st)
         /\ st.op = "update" => UpdateRule(st)
         /\ st.op = "deleteRule" => DeleteRule(st)
         /\ st.op = "deleteStates" => DeleteStates(st)
         /\ st.op = "deleteHistory" => DeleteHistory(st)
         /\ st.op = "ack" => SetAcknowledged(st)
         /\ st.op = "upsert" => UpsertState(st)
         /\ st.op = "clearAck" => ClearAck(st)
         /\ st.op = "history" => AddHistory(st)
         /\ st.op = "notified" => SetLastNotified(st)
         /\ st.op = "mail" => SendAlert(st)
  BY DEF Exec, CreateRule, UpdateRule, DeleteRule, DeleteStates, DeleteHistory, SetAcknowledged,
    UpsertState, ClearAck, AddHistory, SetLastNotified, SendAlert

LEMMA AlertsTypeInit == Init => TypeInv
<1> SUFFICES ASSUME Init PROVE TypeInv
  OBVIOUS
<1>1. /\ world \in Worlds /\ now = 0 /\ restarts = 0 /\ epc = "idle" /\ erules = {} /\ ecur = {}
      /\ etodo = {} /\ enow = 0 /\ eplan = <<>> /\ api = <<>>
      /\ breach \in [Exprs -> SUBSET Fps]
  BY DEF Init
<1>2. /\ now \in 0 .. world.maxTime /\ enow \in 0 .. world.maxTime
      /\ restarts \in 0 .. world.maxRestarts
  BY <1>1
<1>3. rule \in [RuleIds -> GoodRules] /\ rule \in [RuleIds -> Rules]
  BY NoRuleGood DEF Init, NewRules, GoodRules
<1>4. row \in [Instances -> GoodRows] /\ ehist \in [Fps -> GoodRows]
  BY NoRowGood DEF Init, NewStates, AllInstances
<1>a. \A f \in Fps : ehist[f].status # "ok"
  BY DEF Init, NoRow
<1>5. row \in [Instances -> Rows] /\ ehist \in [Fps -> Rows]
  BY <1>4 DEF GoodRows
<1>6. history \in [RuleIds -> SUBSET {"firing", "recovered"}]
  BY DEF Init, NewHistory
<1>7. /\ mailed \in [Instances -> {"none", "firing", "recovered"}]
      /\ sinceAck \in [Instances -> 0 .. 2]
  BY DEF Init, AllInstances
<1>8. lastFired \in [Instances -> Times] /\ seen \in [Instances -> Times]
  BY DEF Init, AllInstances, Times
<1>9. TypeOK
  BY <1>1, <1>2, <1>3, <1>5, <1>6, <1>7, <1>8 DEF TypeOK, Rules
<1> QED
  BY <1>1, <1>3, <1>4, <1>9, <1>a DEF TypeInv

\* The statements leave the types of the tables and of the history variables.
LEMMA ExecType ==
  ASSUME TypeInv, NEW st \in ApiStmts \cup EvalStmts, Exec(st)
  PROVE  /\ rule' \in [RuleIds -> GoodRules] /\ row' \in [Instances -> GoodRows]
         /\ history' \in [RuleIds -> SUBSET {"firing", "recovered"}]
         /\ mailed' \in [Instances -> {"none", "firing", "recovered"}]
         /\ lastFired' \in [Instances -> Times] /\ sinceAck' \in [Instances -> 0 .. 2]
         /\ seen' \in [Instances -> Times]
<1> USE DEF dbVars, ghostVars
<1>1. /\ rule \in [RuleIds -> GoodRules] /\ row \in [Instances -> GoodRows]
      /\ history \in [RuleIds -> SUBSET {"firing", "recovered"}]
      /\ mailed \in [Instances -> {"none", "firing", "recovered"}]
      /\ lastFired \in [Instances -> Times] /\ sinceAck \in [Instances -> 0 .. 2]
      /\ seen \in [Instances -> Times] /\ now \in Times
  BY DEF TypeInv, TypeOK, Times
<1>2. /\ st.op \in {"create", "update"} => st \in RuleStmts
      /\ st.op \in {"deleteRule", "deleteStates", "deleteHistory"} => st \in IdStmts
      /\ st.op = "ack" => st \in AckStmts
      /\ st.op = "upsert" => st \in Upserts
      /\ st.op \in {"history", "mail"} => st \in Notices
      /\ st.op \in {"notified", "clearAck"} => st \in Marks
      /\ st.op \in {"create", "update", "deleteRule", "deleteStates", "deleteHistory", "ack",
                    "upsert", "history", "mail", "notified", "clearAck"}
  BY DEF ApiStmts, RuleStmts, IdStmts, AckStmts, EvalStmts, Upserts, Notices, Marks
<1>3. CASE st.op \in {"create", "update"}
  <2>1. st.id \in RuleIds /\ st.conf \in Confs
    BY <1>2, <1>3 DEF RuleStmts
  <2>2. PICK new : new = [phase |-> "live", enabled |-> st.conf.enabled,
                          expr |-> st.conf.expr, duration |-> st.conf.duration]
    OBVIOUS
  <2>3. new \in GoodRules
    BY <2>1, <2>2 DEF Confs, GoodRules, Rules
  <2>4. CASE CreateRule(st)
    BY <1>1, <2>1, <2>2, <2>3, <2>4 DEF CreateRule
  <2>5. CASE UpdateRule(st)
    <3>1. rule' = rule \/ rule' = [rule EXCEPT ![st.id] = new]
      BY <2>2, <2>5 DEF UpdateRule
    <3> QED
      BY <1>1, <2>1, <2>3, <2>5, <3>1 DEF UpdateRule
  <2> QED
    BY <1>3, <2>4, <2>5, ExecOp
<1>4. CASE st.op = "deleteRule"
  <2>1. DeleteRule(st) /\ st.id \in RuleIds
    BY <1>2, <1>4, ExecOp DEF IdStmts
  <2> QED
    BY <1>1, <2>1, NoRuleGood DEF DeleteRule
<1>5. CASE st.op = "deleteStates"
  <2>1. DeleteStates(st)
    BY <1>5, ExecOp
  <2>2. None \in Times
    BY DEF Times
  <2>3. row' \in [Instances -> GoodRows]
    BY <1>1, <2>1, NoRowGood DEF DeleteStates, WithoutStates
  <2>4. mailed' \in [Instances -> {"none", "firing", "recovered"}]
    BY <1>1, <2>1 DEF DeleteStates
  <2>5. lastFired' \in [Instances -> Times] /\ seen' \in [Instances -> Times]
    BY <1>1, <2>1, <2>2 DEF DeleteStates
  <2> QED
    BY <1>1, <2>1, <2>3, <2>4, <2>5 DEF DeleteStates
<1>6. CASE st.op = "deleteHistory"
  <2>1. DeleteHistory(st) /\ st.id \in RuleIds
    BY <1>2, <1>6, ExecOp DEF IdStmts
  <2> QED
    BY <1>1, <2>1 DEF DeleteHistory
<1>7. CASE st.op = "ack"
  <2>1. SetAcknowledged(st) /\ st.x \in Instances /\ st.until \in Times
    BY <1>2, <1>7, ExecOp DEF AckStmts
  <2>2. PICK s \in Times : s = Stored(st.until)
    BY <2>1, StoredType
  <2>3. PICK new \in GoodRows : new = [row[st.x] EXCEPT !.ack = TRUE, !.silence = s]
    BY <1>1, <2>1, AckedRow
  <2>4. row' \in [Instances -> GoodRows]
    <3>1. row' = row \/ row' = [row EXCEPT ![st.x] = new]
      BY <2>1, <2>2, <2>3 DEF SetAcknowledged
    <3> QED
      BY <1>1, <2>1, <3>1
  <2> QED
    BY <1>1, <2>1, <2>4 DEF SetAcknowledged
<1>8. CASE st.op = "upsert"
  <2>1. UpsertState(st) /\ st.x \in Instances /\ st \in Upserts
    BY <1>2, <1>8, ExecOp DEF Upserts
  <2>2. row' \in [Instances -> GoodRows]
    BY <1>1, <2>1, UpsertedRow DEF UpsertState
  <2> QED
    BY <1>1, <2>1, <2>2 DEF UpsertState
<1>9. CASE st.op = "clearAck"
  <2>1. ClearAck(st) /\ st.x \in Instances
    BY <1>2, <1>9, ExecOp DEF Marks
  <2>2. row' \in [Instances -> GoodRows]
    BY <1>1, <2>1, ClearedRow DEF ClearAck
  <2> QED
    BY <1>1, <2>1, <2>2 DEF ClearAck
<1>10. CASE st.op = "history"
  <2>1. AddHistory(st) /\ st.x \in Instances /\ st.status \in {"firing", "recovered"}
    BY <1>2, <1>10, ExecOp DEF Notices
  <2>2. st.x[1] \in RuleIds
    BY <2>1 DEF Instances
  <2> QED
    BY <1>1, <2>1, <2>2 DEF AddHistory
<1>11. CASE st.op = "notified"
  <2>1. SetLastNotified(st) /\ st.x \in Instances
    BY <1>2, <1>11, ExecOp DEF Marks
  <2>2. PICK s \in Times : s = Stored(now)
    BY <1>1, StoredType
  <2>3. row' = row \/ row' = [row EXCEPT ![st.x] = [@ EXCEPT !.notified = s]]
    BY <2>1, <2>2 DEF SetLastNotified
  <2>4. row' \in [Instances -> GoodRows]
    BY <1>1, <2>1, <2>3, NotifiedRow
  <2>5. lastFired' \in [Instances -> Times]
    BY <1>1, <2>1 DEF SetLastNotified
  <2> QED
    BY <1>1, <2>1, <2>4, <2>5 DEF SetLastNotified
<1>12. CASE st.op = "mail"
  <2>1. SendAlert(st) /\ st.x \in Instances /\ st.status \in {"firing", "recovered"}
    BY <1>2, <1>12, ExecOp DEF Notices
  <2>2. sinceAck[st.x] \in 0 .. 2
    BY <1>1, <2>1
  <2>3. PICK n \in 0 .. 2 :
          n = IF st.status = "firing" /\ row[st.x].ack /\ sinceAck[st.x] < 2 THEN sinceAck[st.x] + 1
              ELSE sinceAck[st.x]
    BY <2>2
  <2>4. sinceAck' = [sinceAck EXCEPT ![st.x] = n]
    BY <2>1, <2>3 DEF SendAlert
  <2>5. mailed' \in [Instances -> {"none", "firing", "recovered"}]
    BY <1>1, <2>1 DEF SendAlert
  <2> QED
    BY <1>1, <2>1, <2>4, <2>5 DEF SendAlert
<1> QED
  BY <1>2, <1>3, <1>4, <1>5, <1>6, <1>7, <1>8, <1>9, <1>10, <1>11, <1>12

\* What a plan is made of.
LEMMA PlanStmts ==
  ASSUME erule \in Cases, NEW x \in Instances
  PROVE  /\ \A s \in {"ok", "firing"} : U(x, s, None) \in Upserts
         /\ \A t \in Nat : U(x, "pending", t) \in Upserts
         /\ \A s \in {"firing", "recovered"} : H(x, s) \in Notices /\ M(x, s) \in Notices
         /\ N(x) \in Marks /\ C(x) \in Marks
<1>1. erule.expr \in Exprs
  BY DEF Cases
<1>2. None \in Times /\ \A t \in Nat : t \in Times /\ t # None
  BY DEF Times, None
<1> QED
  BY <1>1, <1>2 DEF Upserts, Notices, Marks, U, H, N, M, C

\* A firing notification is owed to an instance that the query has returned.
Owed(h) ==
  \/ h.status = "none" /\ erule.duration = 0
  \/ h.status = "pending" /\ HeldLong(h)
  \/ h.status = "firing" /\ ~Suppressed(h) /\ ~Recently(h)

\* The plans there are.  Since a silence comes with an acknowledgement, the branch that
\* clears an expired silence is never taken.
LEMMA Plans ==
  ASSUME TypeInv, epc = "instances", NEW f \in etodo, NEW x, x = <<erule.id, f>>
  PROVE  \/ f \notin ecur /\ ehist[f].status = "pending" /\ Plan(f) = <<U(x, "ok", None)>>
         \/ /\ f \notin ecur /\ ehist[f].status = "firing"
            /\ Plan(f) = <<U(x, "ok", None), C(x), H(x, "recovered"), M(x, "recovered")>>
         \/ f \in ecur /\ ehist[f].status = "none" /\ Plan(f) = <<U(x, "pending", enow)>>
         \/ /\ f \in ecur /\ ehist[f].status = "pending"
            /\ Plan(f) = <<U(x, "pending", ehist[f].since)>>
         \/ f \in ecur /\ ehist[f].status = "firing" /\ Plan(f) = <<U(x, "firing", None)>>
         \/ /\ f \in ecur /\ Owed(ehist[f])
            /\ Plan(f) = <<U(x, "firing", None), H(x, "firing"), N(x), M(x, "firing")>>
<1>1. PICK h \in GoodRows : h = ehist[f]
  BY DEF TypeInv, TypeOK
<1>2. h.status \in {"none", "pending", "firing"} /\ (f \notin ecur => h.status # "none")
  BY <1>1 DEF TypeInv, TypeOK, GoodRows, Rows
<1>3. h.silence # None => Suppressed(h)
  BY DEF GoodRows, Suppressed
<1>4. (\A a : <<>> \o <<a>> = <<a>>) /\ \A a : <<a>> \o <<>> = <<a>>
  <2>1. \A a : <<>> \o <<a>> = <<a>>
    OBVIOUS
  <2>2. \A a : <<a>> \o <<>> = <<a>>
    OBVIOUS
  <2> QED
    BY <2>1, <2>2
<1>5. \A s, t : Upsert(f, s, t) = U(x, s, t)
  BY DEF Upsert, U
<1>6. /\ Fire(f) = <<H(x, "firing"), N(x), M(x, "firing")>>
      /\ Recover(f) = <<H(x, "recovered"), M(x, "recovered")>>
      /\ Clear(f) = <<C(x)>>
  BY DEF Fire, Recover, Clear, H, N, M, C
<1>7. CASE f \notin ecur
  <2>1. Plan(f) = Gone(f, h)
    BY <1>1, <1>7 DEF Plan
  <2> QED
    BY <1>1, <1>2, <1>5, <1>6, <1>7, <2>1, ConcatTuples DEF Gone
<1>8. CASE f \in ecur /\ h.status = "none"
  <2>1. Plan(f) = IF erule.duration = 0 THEN <<Upsert(f, "firing", None)>> \o Fire(f)
                  ELSE <<Upsert(f, "pending", enow)>>
    BY <1>1, <1>8 DEF Plan
  <2> QED
    BY <1>1, <1>5, <1>6, <1>8, <2>1, ConcatTuples DEF Owed
<1>9. CASE f \in ecur /\ h.status = "pending"
  <2>1. Plan(f) = IF HeldLong(h) THEN <<Upsert(f, "firing", None)>> \o Fire(f)
                  ELSE <<Upsert(f, "pending", h.since)>>
    BY <1>1, <1>9 DEF Plan
  <2> QED
    BY <1>1, <1>5, <1>6, <1>9, <2>1, ConcatTuples DEF Owed
<1>10. CASE f \in ecur /\ h.status = "firing"
  <2>1. Plan(f) = StillFiring(f, h)
    BY <1>1, <1>10 DEF Plan
  <2>2. CASE Suppressed(h)
    BY <1>1, <1>5, <1>10, <2>1, <2>2 DEF StillFiring
  <2>3. ASSUME ~Suppressed(h)
        PROVE  Plan(f) = <<U(x, "firing", None)>> \o (IF Recently(h) THEN <<>> ELSE Fire(f))
    BY <1>3, <1>4, <1>5, <2>1, <2>3 DEF StillFiring
  <2>4. CASE ~Suppressed(h) /\ Recently(h)
    BY <1>1, <1>4, <1>10, <2>3, <2>4
  <2>5. CASE ~Suppressed(h) /\ ~Recently(h)
    BY <1>1, <1>6, <1>10, <2>3, <2>5, ConcatTuples DEF Owed
  <2> QED
    BY <2>2, <2>4, <2>5
<1> QED
  BY <1>2, <1>7, <1>8, <1>9, <1>10

LEMMA PlanType ==
  ASSUME TypeInv, epc = "instances", NEW f \in etodo
  PROVE  Plan(f) \in Seq(EvalStmts)
<1>1. erule \in Cases /\ f \in Fps /\ enow \in Nat /\ ehist[f] \in GoodRows
  BY DEF TypeInv, TypeOK
<1>2. PICK x \in Instances : x = <<erule.id, f>>
  BY <1>1 DEF Cases, Instances
<1>3. /\ \A s \in {"ok", "firing"} : U(x, s, None) \in EvalStmts
      /\ \A t \in Nat : U(x, "pending", t) \in EvalStmts
      /\ \A s \in {"firing", "recovered"} : H(x, s) \in EvalStmts /\ M(x, s) \in EvalStmts
      /\ N(x) \in EvalStmts /\ C(x) \in EvalStmts
  BY <1>1, PlanStmts DEF EvalStmts
<1>4. ehist[f].status = "pending" => ehist[f].since \in Nat
  BY <1>1 DEF GoodRows, Rows, Times
<1>5. CASE Plan(f) = <<U(x, "ok", None), C(x), H(x, "recovered"), M(x, "recovered")>>
  BY <1>3, <1>5
<1>6. CASE Plan(f) = <<U(x, "firing", None), H(x, "firing"), N(x), M(x, "firing")>>
  BY <1>3, <1>6
<1>7. CASE \E t \in Nat : Plan(f) = <<U(x, "pending", t)>>
  BY <1>3, <1>7
<1>8. CASE \E s \in {"ok", "firing"} : Plan(f) = <<U(x, s, None)>>
  BY <1>3, <1>8
<1> QED
  BY <1>1, <1>2, <1>4, <1>5, <1>6, <1>7, <1>8, Plans

LEMMA HeadTail ==
  ASSUME NEW S, NEW q \in Seq(S), q # <<>>
  PROVE  Head(q) \in S /\ Tail(q) \in Seq(S)
  OBVIOUS

LEMMA AlertsTypeStep == TypeInv /\ [Next]_vars => TypeInv'
<1> SUFFICES ASSUME TypeInv, [Next]_vars PROVE TypeInv'
  OBVIOUS
<1> USE DEF dbVars, evalVars, ghostVars
<1>1. world \in Worlds /\ world.maxTime \in Nat /\ world.maxRestarts \in Nat
  BY DEF TypeInv, TypeOK
<1>2. ASSUME UNCHANGED <<world, now, breach, dbVars, restarts, evalVars, ghostVars>>,
             api' \in Seq(ApiStmts)
      PROVE  TypeInv'
  BY <1>2 DEF TypeInv, TypeOK
<1>3. ASSUME NEW st \in ApiStmts \cup EvalStmts, Exec(st), UNCHANGED <<world, now, breach, restarts>>,
             UNCHANGED <<epc, erules, erule, ecur, ehist, enow, etodo>>,
             api' \in Seq(ApiStmts), eplan' \in Seq(EvalStmts)
      PROVE  TypeInv'
  <2>1. /\ rule' \in [RuleIds -> GoodRules] /\ row' \in [Instances -> GoodRows]
        /\ history' \in [RuleIds -> SUBSET {"firing", "recovered"}]
        /\ mailed' \in [Instances -> {"none", "firing", "recovered"}]
        /\ lastFired' \in [Instances -> Times] /\ sinceAck' \in [Instances -> 0 .. 2]
        /\ seen' \in [Instances -> Times]
    BY <1>3, ExecType
  <2>2. rule' \in [RuleIds -> Rules] /\ row' \in [Instances -> Rows]
    BY <2>1 DEF GoodRules, GoodRows
  <2> QED
    BY <1>3, <2>1, <2>2 DEF TypeInv, TypeOK, Rules
<1>4. CASE ApiNext
  <2>1. ASSUME NEW r \in RuleIds, NEW conf \in Conf, PostRule(r, conf) PROVE TypeInv'
    <3>1. [op |-> "create", id |-> r, conf |-> conf] \in ApiStmts
      BY <1>1 DEF ApiStmts, RuleStmts, Confs, Conf
    <3> QED
      BY <1>2, <2>1, <3>1 DEF PostRule, Request
  <2>2. ASSUME NEW r \in RuleIds, NEW conf \in Conf, PutRule(r, conf) PROVE TypeInv'
    <3>1. /\ [op |-> "update", id |-> r, conf |-> conf] \in ApiStmts
          /\ [op |-> "deleteStates", id |-> r] \in ApiStmts
      BY <1>1 DEF ApiStmts, RuleStmts, IdStmts, Confs, Conf
    <3> QED
      BY <1>2, <2>2, <3>1 DEF PutRule, Request
  <2>3. ASSUME NEW r \in RuleIds, DeleteRequest(r) PROVE TypeInv'
    <3>1. \A op \in {"deleteRule", "deleteStates", "deleteHistory"} : [op |-> op, id |-> r] \in ApiStmts
      BY DEF ApiStmts, IdStmts
    <3> QED
      BY <1>2, <2>3, <3>1 DEF DeleteRequest, Request
  <2>4. ASSUME NEW x \in Instances, NEW silence \in world.silences, Acknowledge(x, silence)
        PROVE  TypeInv'
    <3>1. PICK until \in Times : until = IF silence = 0 THEN None ELSE now + silence
      <4>1. silence \in Nat /\ now \in Nat
        BY <1>1 DEF TypeInv, TypeOK
      <4>2. None \in Times /\ now + silence \in Times
        BY <4>1 DEF Times
      <4> QED
        BY <4>2
    <3>2. [op |-> "ack", x |-> x, until |-> until] \in ApiStmts
      BY DEF ApiStmts, AckStmts
    <3> QED
      BY <1>2, <2>4, <3>1, <3>2 DEF Acknowledge, Request
  <2>5. ASSUME api # <<>> PROVE Head(api) \in ApiStmts /\ Tail(api) \in Seq(ApiStmts)
    BY <2>5, HeadTail DEF TypeInv
  <2>6. CASE ApiStep
    <3>1. /\ Head(api) \in ApiStmts /\ Exec(Head(api)) /\ api' \in Seq(ApiStmts)
          /\ eplan' \in Seq(EvalStmts)
      BY <2>5, <2>6 DEF ApiStep, TypeInv
    <3> QED
      BY <1>3, <2>6, <3>1 DEF ApiStep
  <2>7. CASE ApiFail
    <3>1. api' \in Seq(ApiStmts)
      BY <2>5, <2>7 DEF ApiFail
    <3> QED
      BY <1>2, <2>7, <3>1 DEF ApiFail
  <2> QED
    BY <1>4, <2>1, <2>2, <2>3, <2>4, <2>6, <2>7 DEF ApiNext
<1>5. CASE EvalNext
  <2>1. CASE EvalBegin
    <3>1. erules' \subseteq Cases
      BY <2>1 DEF EvalBegin, TypeInv, GoodRules, Cases
    <3> QED
      BY <2>1, <3>1 DEF EvalBegin, TypeInv, TypeOK, Cases
  <2>2. CASE EvalRule
    BY <2>2 DEF EvalRule, TypeInv, TypeOK, Cases
  <2>3. CASE EvalQuery
    <3>1. ecur' \subseteq Fps
      BY <2>3 DEF EvalQuery, TypeInv, TypeOK, Cases
    <3>2. seen' \in [Instances -> Times]
      <4>1. now \in Times /\ None \in Times /\ seen \in [Instances -> Times]
        BY DEF TypeInv, TypeOK, Times
      <4> QED
        BY <2>3, <4>1 DEF EvalQuery
    <3> QED
      BY <2>3, <3>1, <3>2 DEF EvalQuery, TypeInv, TypeOK
  <2>4. CASE EvalQueryFail
    BY <2>4 DEF EvalQueryFail, TypeInv, TypeOK
  <2>5. CASE EvalStates
    <3>1. erule \in Cases
      BY <2>5 DEF EvalStates, TypeInv
    <3>2. \A f \in Fps : Active(<<erule.id, f>>) \in GoodRows /\ Active(<<erule.id, f>>).status # "ok"
      <4>1. \A f \in Fps : row[<<erule.id, f>>] \in GoodRows
        BY <3>1 DEF TypeInv, Cases, Instances
      <4>2. NoRow.status # "ok"
        BY DEF NoRow
      <4> QED
        BY <4>1, <4>2, NoRowGood DEF Active
    <3>3. ehist' \in [Fps -> GoodRows] /\ \A f \in Fps : ehist'[f].status # "ok"
      BY <2>5, <3>2 DEF EvalStates
    <3>4. ehist' \in [Fps -> Rows]
      BY <3>3 DEF GoodRows
    <3>5. etodo' \subseteq Fps /\ \A f \in etodo' \ ecur' : ehist'[f].status # "none"
      BY <2>5 DEF EvalStates, TypeInv, TypeOK
    <3> QED
      BY <2>5, <3>1, <3>3, <3>4, <3>5 DEF EvalStates, TypeInv, TypeOK
  <2>6. ASSUME NEW f \in Fps, EvalInstance(f) PROVE TypeInv'
    <3>1. eplan' \in Seq(EvalStmts)
      BY <2>6, PlanType DEF EvalInstance
    <3> QED
      BY <2>6, <3>1 DEF EvalInstance, TypeInv, TypeOK
  <2>7. ASSUME eplan # <<>> PROVE Head(eplan) \in EvalStmts /\ Tail(eplan) \in Seq(EvalStmts)
    BY <2>7, HeadTail DEF TypeInv
  <2>8. CASE EvalStep
    <3>1. /\ Head(eplan) \in EvalStmts /\ Exec(Head(eplan)) /\ api' \in Seq(ApiStmts)
          /\ eplan' \in Seq(EvalStmts)
      BY <2>7, <2>8 DEF EvalStep, TypeInv
    <3> QED
      BY <1>3, <2>8, <3>1 DEF EvalStep
  <2>9. CASE EvalFail
    <3>1. eplan' \in Seq(EvalStmts)
      BY <2>7, <2>9 DEF EvalFail
    <3>2. lastFired' \in [Instances -> Times]
      <4>1. lastFired \in [Instances -> Times] /\ now \in Times
        BY DEF TypeInv, TypeOK, Times
      <4> QED
        BY <2>9, <4>1 DEF EvalFail
    <3> QED
      BY <2>9, <3>1, <3>2 DEF EvalFail, TypeInv, TypeOK
  <2>10. CASE EvalNextRule
    BY <2>10 DEF EvalNextRule, TypeInv, TypeOK
  <2>11. CASE EvalEnd
    <3>1. ehist' \in [Fps -> GoodRows] /\ ehist' \in [Fps -> Rows] /\ \A f \in Fps : ehist'[f].status # "ok"
      BY <2>11, NoRowGood DEF EvalEnd, ForgetEval, GoodRows, NoRow
    <3> QED
      BY <1>1, <2>11, <3>1 DEF EvalEnd, ForgetEval, TypeInv, TypeOK
  <2> QED
    BY <1>5, <2>1, <2>2, <2>3, <2>4, <2>5, <2>6, <2>8, <2>9, <2>10, <2>11 DEF EvalNext
<1>6. CASE Clock
  BY <1>1, <1>6 DEF Clock, TypeInv, TypeOK
<1>7. ASSUME NEW e \in Used, NEW f \in Fps, Flip(e, f) PROVE TypeInv'
  <2>1. breach' \in [Exprs -> SUBSET Fps]
    BY ZenonT(30), <1>7 DEF Flip, TypeInv, TypeOK
  <2> QED
    BY <1>7, <2>1 DEF Flip, TypeInv, TypeOK
<1>8. CASE Restart
  <2>1. /\ UNCHANGED <<world, now, breach>> /\ restarts' \in 0 .. world.maxRestarts
        /\ epc' = "idle" /\ erules' = {} /\ ecur' = {} /\ etodo' = {}
        /\ enow' \in 0 .. world.maxTime /\ eplan' = <<>> /\ api' = <<>>
    BY <1>1, <1>8 DEF Restart, ForgetEval, TypeInv, TypeOK
  <2>2. rule' \in [RuleIds -> GoodRules] /\ rule' \in [RuleIds -> Rules]
    BY <1>8, NoRuleGood DEF Restart, NewRules, GoodRules
  <2>3. row' \in [Instances -> GoodRows] /\ ehist' \in [Fps -> GoodRows]
    BY <1>8, NoRowGood DEF Restart, ForgetEval, NewStates, AllInstances
  <2>4. row' \in [Instances -> Rows] /\ ehist' \in [Fps -> Rows]
    BY <2>3 DEF GoodRows
  <2>5. \A f \in Fps : ehist'[f].status # "ok"
    BY <1>8 DEF Restart, ForgetEval, NoRow
  <2>6. history' \in [RuleIds -> SUBSET {"firing", "recovered"}]
    BY <1>8 DEF Restart, NewHistory
  <2>7. /\ mailed' \in [Instances -> {"none", "firing", "recovered"}]
        /\ sinceAck' \in [Instances -> 0 .. 2]
    BY <1>8 DEF Restart, AllInstances
  <2>8. lastFired' \in [Instances -> Times] /\ seen' \in [Instances -> Times]
    BY <1>8 DEF Restart, AllInstances, Times
  <2>9. TypeOK'
    BY <2>1, <2>2, <2>4, <2>6, <2>7, <2>8 DEF TypeInv, TypeOK, Rules
  <2> QED
    BY <2>1, <2>2, <2>3, <2>5, <2>9 DEF TypeInv
<1>9. CASE UNCHANGED vars
  BY <1>9 DEF vars, TypeInv, TypeOK
<1> QED
  BY <1>4, <1>5, <1>6, <1>7, <1>8, <1>9 DEF Next

LEMMA AlertsTypes == Spec => []TypeInv
  BY AlertsTypeInit, AlertsTypeStep, PTL DEF Spec

\* The tables, the rows the evaluator works on and what it is about to do keep their types,
\* whatever fails, overlaps or restarts; every plan evaluateRule makes is defined.
THEOREM AlertsTypeCorrect == Spec => []TypeOK
<1>1. TypeInv => TypeOK
  BY DEF TypeInv
<1> QED
  BY <1>1, AlertsTypes, PTL

(***************************************************************************)
(* Without faults and overlap.                                             *)
(*                                                                         *)
(* A request that writes a rule runs while the evaluator is idle: until    *)
(* its last statement one rule is unsettled, the others and what the       *)
(* evaluator works from agree with the tables.                             *)
(***************************************************************************)

CreateSt(r, c) == [op |-> "create", id |-> r, conf |-> c]
UpdateSt(r, c) == [op |-> "update", id |-> r, conf |-> c]
Del(op, r) == [op |-> op, id |-> r]
AckSt(x, t) == [op |-> "ack", x |-> x, until |-> t]

\* What RowsRight says of the rows of an instance, and of the history of a rule.
Settled(x) ==
  /\ Exists(x) => rule[x[1]].phase = "live"
  /\ Active(x).status # "none" => row[x].expr = rule[x[1]].expr
Kept(r) == history[r] # {} => rule[r].phase = "live"
RuleSettled(r) == \A x \in Instances : x[1] = r => Settled(x)

\* No request is in progress, or one that writes no rule.
NoRuleRequest == api = <<>> \/ \E x \in Instances, t \in Times : api = <<AckSt(x, t)>>

\* How far the request that writes rule r has come, and what is not settled yet.
Unsettled(r) ==
  /\ epc = "idle"
  /\ \A q \in RuleIds \ {r} : RuleSettled(q) /\ Kept(q)
  /\ \/ /\ RuleSettled(r) /\ Kept(r)
        /\ \/ \E c \in Confs : api = <<CreateSt(r, c)>> /\ rule[r].phase = "unborn"
           \/ \E c \in Confs : api = <<UpdateSt(r, c), Del("deleteStates", r)>>
           \/ api = <<Del("deleteRule", r), Del("deleteStates", r), Del("deleteHistory", r)>>
     \/ api = <<Del("deleteStates", r)>> /\ Kept(r)
     \/ api = <<Del("deleteStates", r), Del("deleteHistory", r)>>
     \/ api = <<Del("deleteHistory", r)>> /\ RuleSettled(r)

TablesInv ==
  \/ NoRuleRequest /\ \A r \in RuleIds : RuleSettled(r) /\ Kept(r)
  \/ \E r \in RuleIds : Unsettled(r)

\* The rules the evaluator has read are still the rules there are.
Current(c) == rule[c.id].phase = "live" /\ rule[c.id].expr = c.expr

RulesInv ==
  /\ epc = "idle" => erules = {} /\ eplan = <<>>
  /\ \A c \in erules : Current(c)
  /\ epc \in {"query", "states", "instances"} => Current(erule)

(***************************************************************************)
(* An instance and the plan for it.                                        *)
(***************************************************************************)

\* What the statement "notified" may rely on.
Due(x) ==
  IF mailed[x] = "firing" THEN enow - lastFired[x] > RateLimit - Sec
  ELSE seen[x] # None /\ enow - seen[x] > erule.duration - Sec

IsFiring(x) == row[x].status = "firing"
IsMailed(x) == mailed[x] = "firing"

\* The notification of a firing instance that is not sent yet, and the recovery.
Firing1(x) == eplan = <<U(x, "firing", None), H(x, "firing"), N(x), M(x, "firing")>>
Firing2(x) == eplan = <<H(x, "firing"), N(x), M(x, "firing")>>
Firing3(x) == eplan = <<N(x), M(x, "firing")>>
Firing4(x) == eplan = <<M(x, "firing")>>
Gone1(x) == eplan = <<U(x, "ok", None), C(x), H(x, "recovered"), M(x, "recovered")>>
Gone2(x) == eplan = <<C(x), H(x, "recovered"), M(x, "recovered")>>
Gone3(x) == eplan = <<H(x, "recovered"), M(x, "recovered")>>
Gone4(x) == eplan = <<M(x, "recovered")>>
Notifying(x) == Firing1(x) \/ Firing2(x) \/ Firing3(x) \/ Firing4(x)

\* What is left of a plan for instance x, and what holds at that point of it.
Stage(x) ==
  \/ /\ \E t \in Nat : eplan = <<U(x, "pending", t)>> /\ seen[x] - Stored(t) < Sec
     /\ ~IsFiring(x) /\ ~IsMailed(x) /\ seen[x] # None
  \/ eplan = <<U(x, "ok", None)>> /\ ~IsFiring(x) /\ ~IsMailed(x)
  \/ eplan = <<U(x, "firing", None)>> /\ IsFiring(x) /\ IsMailed(x)
  \/ Firing1(x) /\ Due(x)
  \/ (Firing2(x) \/ Firing3(x)) /\ Due(x) /\ IsFiring(x)
  \/ Firing4(x) /\ IsFiring(x) /\ lastFired[x] # None
  \/ Gone1(x) /\ IsMailed(x)
  \/ (Gone2(x) \/ Gone3(x) \/ Gone4(x)) /\ IsMailed(x) /\ row[x].status = "ok"

PlanInv ==
  eplan # <<>> =>
    epc = "instances" /\ \E f \in Fps \ etodo : Stage(<<erule.id, f>>)

\* The evaluator has asked about x; it has still to decide about it; it is at it.
Asked(x) == epc \in {"states", "instances"} /\ x[1] = erule.id
Todo(x) == epc = "instances" /\ x[1] = erule.id /\ x[2] \in etodo
Planned(x) == eplan # <<>> /\ Head(eplan).x = x

\* The row that was read is the row there is, but for an acknowledgement since.
ReadRight(x) ==
  LET h == ehist[x[2]]
  IN  /\ h.status = Active(x).status /\ h.since = Active(x).since
      /\ h.notified = Active(x).notified
      /\ h.ack => row[x].ack

SeenInv(x) ==
  /\ seen[x] <= now
  /\ Asked(x) /\ x[2] \in ecur => seen[x] # None
  /\ epc = "instances" => seen[x] <= enow /\ enow <= now

MarksInv(x) ==
  /\ Stored(row[x].since) = row[x].since
  /\ row[x].notified = Stored(lastFired[x])
  /\ IsMailed(x) => lastFired[x] # None
  /\ ~Planned(x) => (IsMailed(x) <=> IsFiring(x))

\* A pending instance has been seen since then, or is about to be dropped.
PendingInv(x) ==
  row[x].status = "pending" =>
    \/ seen[x] # None /\ seen[x] - row[x].since < Sec
    \/ /\ Asked(x) /\ x[2] \notin ecur
       /\ epc = "states" \/ Todo(x) \/ eplan = <<U(x, "ok", None)>>

\* The notification that was already decided has been sent: no other one is on its way.
AckInv(x) ==
  row[x].ack /\ sinceAck[x] # 0 =>
    /\ sinceAck[x] = 1
    /\ IsFiring(x) \/ Gone2(x)
    /\ ~Notifying(x)
    /\ Todo(x) => ehist[x[2]].status = "firing" /\ ehist[x[2]].ack

InstanceInv(x) ==
  /\ Todo(x) => ReadRight(x)
  /\ SeenInv(x) /\ MarksInv(x) /\ PendingInv(x) /\ AckInv(x)

CalmInv ==
  /\ TablesInv /\ RulesInv /\ PlanInv
  /\ \A x \in Instances : InstanceInv(x)

LEMMA CalmInit == Init => CalmInv
<1> SUFFICES ASSUME Init PROVE CalmInv
  OBVIOUS
<1>1. /\ epc = "idle" /\ erules = {} /\ eplan = <<>> /\ api = <<>> /\ now = 0
      /\ rule = NewRules /\ row = NewStates /\ history = NewHistory
      /\ mailed = AllInstances("none") /\ lastFired = AllInstances(None)
      /\ sinceAck = AllInstances(0) /\ seen = AllInstances(None)
  BY DEF Init
<1>2. TablesInv
  BY <1>1 DEF TablesInv, NoRuleRequest, RuleSettled, Settled, Kept, Exists, Active, NewStates,
    NewHistory, AllInstances, NoRow
<1>3. RulesInv /\ PlanInv
  BY <1>1 DEF RulesInv, PlanInv
<1>4. ASSUME NEW x \in Instances PROVE InstanceInv(x)
  <2>1. row[x] = NoRow /\ mailed[x] = "none" /\ lastFired[x] = None /\ seen[x] = None
    BY <1>1 DEF NewStates, AllInstances
  <2>2. Stored(None) = None
    BY DEF Stored
  <2> QED
    BY <1>1, <2>1, <2>2 DEF InstanceInv, Todo, SeenInv, Asked, MarksInv, PendingInv, AckInv, NoRow,
      IsMailed, IsFiring, None
<1> QED
  BY <1>2, <1>3, <1>4 DEF CalmInv

(***************************************************************************)
(* The tables.                                                             *)
(***************************************************************************)

\* Being settled depends on the rule and on the status and the expression of the rows.
LEMMA SettledSame ==
  ASSUME NEW r \in RuleIds, RuleSettled(r), rule'[r] = rule[r],
         \A x \in Instances : x[1] = r =>
           row'[x].status = row[x].status /\ row'[x].expr = row[x].expr
  PROVE  RuleSettled(r)'
<1> SUFFICES ASSUME NEW x \in Instances, x[1] = r PROVE Settled(x)'
  BY DEF RuleSettled
<1>1. Settled(x) /\ row'[x].status = row[x].status /\ row'[x].expr = row[x].expr
  BY DEF RuleSettled
<1> QED
  BY <1>1 DEF Settled, Exists, Active, NoRow

\* The heads and the tails of a request.
LEMMA RequestTuples ==
  \A a, b, c : /\ <<a>> # <<>> /\ Head(<<a>>) = a /\ Tail(<<a>>) = <<>>
               /\ <<a, b>> # <<>> /\ Head(<<a, b>>) = a /\ Tail(<<a, b>>) = <<b>>
               /\ <<a, b, c>> # <<>> /\ Head(<<a, b, c>>) = a /\ Tail(<<a, b, c>>) = <<b, c>>
  OBVIOUS

\* While the evaluator works no rule is being written.
LEMMA BusyTables ==
  ASSUME TablesInv, epc # "idle" \/ api = <<>>
  PROVE  NoRuleRequest /\ \A r \in RuleIds : RuleSettled(r) /\ Kept(r)
<1>1. ASSUME NEW r \in RuleIds, Unsettled(r) PROVE FALSE
  <2>1. epc = "idle"
    BY <1>1 DEF Unsettled
  <2>2. api # <<>>
    BY <1>1, RequestTuples DEF Unsettled
  <2> QED
    BY <2>1, <2>2
<1> QED
  BY <1>1 DEF TablesInv

\* The tables and the request stay.
LEMMA TablesFrame ==
  ASSUME UNCHANGED <<rule, row, history>>
  PROVE  /\ \A r \in RuleIds : RuleSettled(r)' <=> RuleSettled(r)
         /\ \A r \in RuleIds : Kept(r)' <=> Kept(r)
  BY DEF RuleSettled, Settled, Exists, Active, Kept

\* A request that begins.
LEMMA TablesRequest ==
  ASSUME TypeInv, Calm, TablesInv,
         \/ \E r \in RuleIds, conf \in Conf : PostRule(r, conf) \/ PutRule(r, conf)
         \/ \E r \in RuleIds : DeleteRequest(r)
         \/ \E x \in Instances, silence \in world.silences : Acknowledge(x, silence)
  PROVE  TablesInv'
<1> USE DEF dbVars, evalVars, ghostVars
<1>1. /\ api = <<>> /\ UNCHANGED <<world, now, breach, dbVars, restarts, evalVars, ghostVars>>
  BY DEF PostRule, PutRule, DeleteRequest, Acknowledge, Request
<1>2. \A r \in RuleIds : RuleSettled(r) /\ Kept(r)
  BY <1>1, BusyTables
<1>3. \A r \in RuleIds : RuleSettled(r)' /\ Kept(r)'
  BY <1>1, <1>2, TablesFrame
<1>4. ASSUME RuleWriteAllowed PROVE epc' = "idle"
  BY <1>1, <1>4 DEF RuleWriteAllowed, Calm
<1>5. Conf \subseteq Confs
  BY DEF TypeInv, TypeOK, Conf, Confs
<1>6. ASSUME NEW r \in RuleIds, NEW conf \in Conf, PostRule(r, conf) PROVE TablesInv'
  <2>1. epc' = "idle" /\ api' = <<CreateSt(r, conf)>> /\ rule'[r].phase = "unborn" /\ conf \in Confs
    BY <1>1, <1>4, <1>5, <1>6 DEF PostRule, Request, CreateSt
  <2>2. Unsettled(r)'
    BY <1>3, <2>1 DEF Unsettled, CreateSt
  <2> QED
    BY <2>2 DEF TablesInv
<1>7. ASSUME NEW r \in RuleIds, NEW conf \in Conf, PutRule(r, conf) PROVE TablesInv'
  <2>1. epc' = "idle" /\ api' = <<UpdateSt(r, conf), Del("deleteStates", r)>> /\ conf \in Confs
    BY <1>4, <1>5, <1>7 DEF PutRule, Request, UpdateSt, Del
  <2>2. Unsettled(r)'
    BY <1>3, <2>1 DEF Unsettled, UpdateSt, Del
  <2> QED
    BY <2>2 DEF TablesInv
<1>8. ASSUME NEW r \in RuleIds, DeleteRequest(r) PROVE TablesInv'
  <2>1. /\ epc' = "idle"
        /\ api' = <<Del("deleteRule", r), Del("deleteStates", r), Del("deleteHistory", r)>>
    BY <1>4, <1>8 DEF DeleteRequest, Request, Del
  <2>2. Unsettled(r)'
    BY <1>3, <2>1 DEF Unsettled, Del
  <2> QED
    BY <2>2 DEF TablesInv
<1>9. ASSUME NEW x \in Instances, NEW silence \in world.silences, Acknowledge(x, silence)
      PROVE  TablesInv'
  <2>1. PICK t \in Times : t = IF silence = 0 THEN None ELSE now + silence
    <3>1. silence \in Nat /\ now \in Nat
      BY DEF TypeInv, TypeOK
    <3>2. None \in Times /\ now + silence \in Times
      BY <3>1 DEF Times
    <3> QED
      BY <3>2
  <2>2. api' = <<AckSt(x, t)>>
    BY <1>9, <2>1 DEF Acknowledge, Request, AckSt
  <2>3. NoRuleRequest'
    BY <2>2 DEF NoRuleRequest, AckSt
  <2> QED
    BY <1>3, <2>3 DEF TablesInv
<1> QED
  BY <1>6, <1>7, <1>8, <1>9

\* A statement that changes one rule at most, and none of the rows and histories.
LEMMA OtherRules ==
  ASSUME NEW r \in RuleIds, \A q \in RuleIds \ {r} : RuleSettled(q) /\ Kept(q),
         \A q \in RuleIds \ {r} : rule'[q] = rule[q] /\ history'[q] = history[q],
         \A x \in Instances : x[1] # r => row'[x] = row[x]
  PROVE  \A q \in RuleIds \ {r} : RuleSettled(q)' /\ Kept(q)'
<1> SUFFICES ASSUME NEW q \in RuleIds \ {r} PROVE RuleSettled(q)' /\ Kept(q)'
  OBVIOUS
<1>1. RuleSettled(q)'
  BY SettledSame
<1>2. Kept(q)'
  BY DEF Kept
<1> QED
  BY <1>1, <1>2

\* A statement of a request that writes rule r.
LEMMA TablesWrite ==
  ASSUME TypeInv, NEW r \in RuleIds, Unsettled(r), ApiStep
  PROVE  TablesInv'
<1> USE DEF dbVars, ghostVars
<1>1. /\ rule \in [RuleIds -> GoodRules] /\ row \in [Instances -> GoodRows]
      /\ history \in [RuleIds -> SUBSET {"firing", "recovered"}]
  BY DEF TypeInv, TypeOK
<1>2. epc' = "idle" /\ epc = "idle" /\ Exec(Head(api)) /\ api' = Tail(api)
  BY DEF ApiStep, evalVars, Unsettled
<1>3. \A q \in RuleIds \ {r} : RuleSettled(q) /\ Kept(q)
  BY DEF Unsettled
<1>4. ASSUME api' = <<>>, \A q \in RuleIds \ {r} : RuleSettled(q)' /\ Kept(q)',
             RuleSettled(r)', Kept(r)'
      PROVE  TablesInv'
  BY <1>4 DEF TablesInv, NoRuleRequest
<1>5. ASSUME NEW c \in Confs, api = <<CreateSt(r, c)>>, rule[r].phase = "unborn",
             RuleSettled(r), Kept(r)
      PROVE  TablesInv'
  <2>1. Head(api) = CreateSt(r, c) /\ api' = <<>>
    BY <1>2, <1>5, RequestTuples
  <2>2. CreateRule(CreateSt(r, c))
    BY <1>2, <2>1, ExecOp DEF CreateSt
  <2>3. /\ rule' = [rule EXCEPT ![r] = [phase |-> "live", enabled |-> c.enabled,
                                        expr |-> c.expr, duration |-> c.duration]]
        /\ UNCHANGED <<row, history>>
    BY <2>2 DEF CreateRule, CreateSt
  <2>4. rule'[r].phase = "live" /\ \A q \in RuleIds \ {r} : rule'[q] = rule[q]
    BY <1>1, <2>3
  <2>5. \A q \in RuleIds \ {r} : RuleSettled(q)' /\ Kept(q)'
    BY <1>3, <2>3, <2>4, OtherRules
  <2>6. \A x \in Instances : x[1] = r => row'[x].status = "none"
    BY <1>5, <2>3 DEF RuleSettled, Settled, Exists
  <2>7. RuleSettled(r)'
    BY <2>6 DEF RuleSettled, Settled, Exists, Active, NoRow
  <2>8. Kept(r)'
    BY <2>4 DEF Kept
  <2> QED
    BY <1>4, <2>1, <2>5, <2>7, <2>8
<1>6. ASSUME NEW c \in Confs, api = <<UpdateSt(r, c), Del("deleteStates", r)>>, Kept(r)
      PROVE  TablesInv'
  <2>1. Head(api) = UpdateSt(r, c) /\ api' = <<Del("deleteStates", r)>>
    BY <1>2, <1>6, RequestTuples
  <2>2. UpdateRule(UpdateSt(r, c))
    BY <1>2, <2>1, ExecOp DEF UpdateSt
  <2>3. /\ \/ rule' = rule
           \/ rule' = [rule EXCEPT ![r] = [phase |-> "live", enabled |-> c.enabled,
                                           expr |-> c.expr, duration |-> c.duration]]
        /\ UNCHANGED <<row, history>>
    BY <2>2 DEF UpdateRule, UpdateSt
  <2>4. (rule[r].phase = "live" => rule'[r].phase = "live") /\ \A q \in RuleIds \ {r} : rule'[q] = rule[q]
    BY <1>1, <2>3
  <2>5. \A q \in RuleIds \ {r} : RuleSettled(q)' /\ Kept(q)'
    BY <1>3, <2>3, <2>4, OtherRules
  <2>6. Kept(r)'
    BY <1>6, <2>3, <2>4 DEF Kept
  <2>7. Unsettled(r)'
    BY <1>2, <2>1, <2>5, <2>6 DEF Unsettled, Del
  <2> QED
    BY <2>7 DEF TablesInv
<1>7. ASSUME api = <<Del("deleteRule", r), Del("deleteStates", r), Del("deleteHistory", r)>>
      PROVE  TablesInv'
  <2>1. Head(api) = Del("deleteRule", r) /\ api' = <<Del("deleteStates", r), Del("deleteHistory", r)>>
    BY <1>2, <1>7, RequestTuples
  <2>2. DeleteRule(Del("deleteRule", r))
    BY <1>2, <2>1, ExecOp DEF Del
  <2>3. (\A q \in RuleIds \ {r} : rule'[q] = rule[q]) /\ UNCHANGED <<row, history>>
    BY <1>1, <2>2 DEF DeleteRule, Del
  <2>4. \A q \in RuleIds \ {r} : RuleSettled(q)' /\ Kept(q)'
    BY <1>3, <2>3, OtherRules
  <2>5. Unsettled(r)'
    BY <1>2, <2>1, <2>4 DEF Unsettled, Del
  <2> QED
    BY <2>5 DEF TablesInv
<1>8. ASSUME Head(api) = Del("deleteStates", r)
      PROVE  /\ \A q \in RuleIds \ {r} : RuleSettled(q)' /\ Kept(q)'
             /\ RuleSettled(r)' /\ (Kept(r) => Kept(r)')
  <2>1. DeleteStates(Del("deleteStates", r))
    BY <1>2, <1>8, ExecOp DEF Del
  <2>2. row' = [x \in Instances |-> IF x[1] = r THEN NoRow ELSE row[x]] /\ UNCHANGED <<rule, history>>
    BY <2>1 DEF DeleteStates, WithoutStates, Del
  <2>3. \A x \in Instances : IF x[1] = r THEN row'[x] = NoRow ELSE row'[x] = row[x]
    BY <2>2
  <2>4. \A q \in RuleIds \ {r} : RuleSettled(q)' /\ Kept(q)'
    BY <1>3, <2>2, <2>3, OtherRules
  <2>5. RuleSettled(r)'
    BY <2>3 DEF RuleSettled, Settled, Exists, Active, NoRow
  <2> QED
    BY <2>2, <2>4, <2>5 DEF Kept
<1>9. CASE api = <<Del("deleteStates", r)>> /\ Kept(r)
  <2>1. Head(api) = Del("deleteStates", r) /\ api' = <<>>
    BY <1>2, <1>9, RequestTuples
  <2> QED
    BY <1>4, <1>8, <1>9, <2>1
<1>10. CASE api = <<Del("deleteStates", r), Del("deleteHistory", r)>>
  <2>1. Head(api) = Del("deleteStates", r) /\ api' = <<Del("deleteHistory", r)>>
    BY <1>2, <1>10, RequestTuples
  <2>2. Unsettled(r)'
    BY <1>2, <1>8, <2>1 DEF Unsettled, Del
  <2> QED
    BY <2>2 DEF TablesInv
<1>11. CASE api = <<Del("deleteHistory", r)>> /\ RuleSettled(r)
  <2>1. Head(api) = Del("deleteHistory", r) /\ api' = <<>>
    BY <1>2, <1>11, RequestTuples
  <2>2. DeleteHistory(Del("deleteHistory", r))
    BY <1>2, <2>1, ExecOp DEF Del
  <2>3. /\ history'[r] = {} /\ (\A q \in RuleIds \ {r} : history'[q] = history[q])
        /\ UNCHANGED <<rule, row>>
    BY <1>1, <2>2 DEF DeleteHistory, Del
  <2>4. \A q \in RuleIds \ {r} : RuleSettled(q)' /\ Kept(q)'
    BY <1>3, <2>3, OtherRules
  <2>5. RuleSettled(r)'
    BY <1>11, <2>3, SettledSame
  <2> QED
    BY <1>4, <2>1, <2>3, <2>4, <2>5 DEF Kept
<1> QED
  BY <1>5, <1>6, <1>7, <1>9, <1>10, <1>11 DEF Unsettled

(***************************************************************************)
(* What one statement does, instance by instance.                          *)
(***************************************************************************)

\* The step leaves the data of instance x alone.
SameData(x) ==
  /\ row'[x] = row[x] /\ mailed'[x] = mailed[x] /\ lastFired'[x] = lastFired[x]
  /\ sinceAck'[x] = sinceAck[x] /\ seen'[x] = seen[x]

\* The acknowledgement of x.
LEMMA DoAck ==
  ASSUME TypeInv, NEW x \in Instances, NEW t \in Times, Exec(AckSt(x, t))
  PROVE  /\ UNCHANGED <<rule, history, mailed, lastFired, seen>>
         /\ \A y \in Instances \ {x} : SameData(y)
         /\ sinceAck'[x] = 0 /\ (row[x].ack => row'[x].ack)
         /\ \A y \in Instances : /\ row'[y].status = row[y].status /\ row'[y].expr = row[y].expr
                                 /\ row'[y].since = row[y].since
                                 /\ row'[y].notified = row[y].notified
<1>1. SetAcknowledged(AckSt(x, t)) /\ AckSt(x, t).x = x /\ AckSt(x, t).until = t
  BY ExecOp DEF AckSt
<1>2. row \in [Instances -> GoodRows] /\ sinceAck \in [Instances -> 0 .. 2]
  BY DEF TypeInv, TypeOK
<1>3. PICK s \in Times : s = Stored(t)
  BY StoredType
<1>4. /\ row' = row \/ row' = [row EXCEPT ![x] = [@ EXCEPT !.ack = TRUE, !.silence = s]]
      /\ sinceAck' = [sinceAck EXCEPT ![x] = 0]
      /\ UNCHANGED <<rule, history, mailed, lastFired, seen>>
  BY <1>1, <1>3 DEF SetAcknowledged
<1>5. \A y \in Instances \ {x} : SameData(y)
  BY <1>2, <1>4 DEF SameData
<1>6. /\ row'[x].status = row[x].status /\ row'[x].expr = row[x].expr
      /\ row'[x].since = row[x].since /\ row'[x].notified = row[x].notified
      /\ row[x].ack => row'[x].ack
  <2>1. row' = row \/ row'[x] = [row[x] EXCEPT !.ack = TRUE, !.silence = s]
    BY <1>2, <1>4
  <2>2. CASE row' = row
    BY <2>2
  <2>3. CASE row'[x] = [row[x] EXCEPT !.ack = TRUE, !.silence = s]
    <3>1. PICK old \in GoodRows : old = row[x]
      BY <1>2
    <3>2. /\ row'[x].ack = TRUE /\ row'[x].status = old.status /\ row'[x].expr = old.expr
          /\ row'[x].since = old.since /\ row'[x].notified = old.notified
      BY <2>3, <3>1 DEF GoodRows, Rows
    <3> QED
      BY <3>1, <3>2
  <2> QED
    BY <2>1, <2>2, <2>3
<1> QED
  BY <1>2, <1>4, <1>5, <1>6 DEF SameData

LEMMA DoUpsert ==
  ASSUME TypeInv, NEW x \in Instances, NEW s, NEW t, U(x, s, t) \in Upserts, Exec(U(x, s, t))
  PROVE  /\ UNCHANGED <<rule, history, mailed, lastFired, sinceAck, seen>>
         /\ \A y \in Instances \ {x} : SameData(y)
         /\ row'[x].status = s /\ row'[x].expr = erule.expr /\ row'[x].since = Stored(t)
         /\ row'[x].ack = row[x].ack /\ row'[x].notified = row[x].notified
<1>1. /\ UpsertState(U(x, s, t)) /\ U(x, s, t).x = x /\ U(x, s, t).status = s
      /\ U(x, s, t).expr = erule.expr /\ U(x, s, t).since = t
  BY ExecOp DEF U
<1>2. row \in [Instances -> GoodRows]
  BY DEF TypeInv
<1>3. /\ row' = [row EXCEPT ![x] = Upserted(@, U(x, s, t))]
      /\ UNCHANGED <<rule, history, mailed, lastFired, sinceAck, seen>>
  BY <1>1 DEF UpsertState, ghostVars
<1>4. row'[x] = Upserted(row[x], U(x, s, t)) /\ \A y \in Instances \ {x} : row'[y] = row[y]
  BY <1>2, <1>3
<1>5. /\ row'[x].status = s /\ row'[x].expr = erule.expr /\ row'[x].since = Stored(t)
      /\ row'[x].ack = row[x].ack /\ row'[x].notified = row[x].notified
  BY <1>1, <1>2, <1>4, UpsertedRow
<1> QED
  BY <1>3, <1>4, <1>5 DEF SameData

LEMMA DoHistory ==
  ASSUME TypeInv, NEW x \in Instances, NEW s, Exec(H(x, s))
  PROVE  /\ UNCHANGED <<rule, row, mailed, lastFired, sinceAck, seen>>
         /\ \A r \in RuleIds \ {x[1]} : history'[r] = history[r]
         /\ \A y \in Instances : SameData(y)
<1>1. AddHistory(H(x, s)) /\ H(x, s).x = x
  BY ExecOp DEF H
<1> QED
  BY <1>1 DEF AddHistory, ghostVars, SameData, TypeInv, TypeOK

LEMMA DoNotified ==
  ASSUME TypeInv, NEW x \in Instances, Exec(N(x)), Exists(x)
  PROVE  /\ UNCHANGED <<rule, history, mailed, sinceAck, seen>>
         /\ \A y \in Instances \ {x} : SameData(y)
         /\ lastFired'[x] = now /\ row'[x].notified = Stored(now)
         /\ row'[x].status = row[x].status /\ row'[x].expr = row[x].expr
         /\ row'[x].since = row[x].since /\ row'[x].ack = row[x].ack
<1>1. SetLastNotified(N(x)) /\ N(x).x = x
  BY ExecOp DEF N
<1>2. /\ row \in [Instances -> GoodRows] /\ lastFired \in [Instances -> Times] /\ now \in Times
  BY DEF TypeInv, TypeOK, Times
<1>3. PICK s \in Times : s = Stored(now)
  BY <1>2, StoredType
<1>4. /\ row' = [row EXCEPT ![x] = [@ EXCEPT !.notified = s]]
      /\ lastFired' = [lastFired EXCEPT ![x] = now]
      /\ UNCHANGED <<rule, history, mailed, sinceAck, seen>>
  BY <1>1, <1>3 DEF SetLastNotified
<1>5. row'[x] = [row[x] EXCEPT !.notified = s] /\ \A y \in Instances \ {x} : row'[y] = row[y]
  BY <1>2, <1>4
<1>6. /\ row'[x].notified = s /\ row'[x].status = row[x].status /\ row'[x].expr = row[x].expr
      /\ row'[x].since = row[x].since /\ row'[x].ack = row[x].ack
  BY <1>2, <1>5, NotifiedRow
<1> QED
  BY <1>2, <1>3, <1>4, <1>5, <1>6 DEF SameData

LEMMA DoMail ==
  ASSUME TypeInv, NEW x \in Instances, NEW s, Exec(M(x, s))
  PROVE  /\ UNCHANGED <<rule, row, history, lastFired, seen>>
         /\ \A y \in Instances \ {x} : SameData(y)
         /\ mailed'[x] = s
         /\ sinceAck'[x] = IF s = "firing" /\ row[x].ack /\ sinceAck[x] < 2 THEN sinceAck[x] + 1
                           ELSE sinceAck[x]
<1>1. SendAlert(M(x, s)) /\ M(x, s).x = x /\ M(x, s).status = s
  BY ExecOp DEF M
<1>2. sinceAck \in [Instances -> 0 .. 2] /\ mailed \in [Instances -> {"none", "firing", "recovered"}]
  BY DEF TypeInv, TypeOK
<1>3. /\ mailed' = [mailed EXCEPT ![x] = s]
      /\ sinceAck' = [sinceAck EXCEPT ![x] =
                        IF s = "firing" /\ row[x].ack /\ @ < 2 THEN @ + 1 ELSE @]
      /\ UNCHANGED <<rule, row, history, lastFired, seen>>
  BY <1>1 DEF SendAlert, dbVars
<1> QED
  BY <1>2, <1>3 DEF SameData

LEMMA DoClear ==
  ASSUME TypeInv, NEW x \in Instances, Exec(C(x)), Exists(x)
  PROVE  /\ UNCHANGED <<rule, history, mailed, lastFired, sinceAck, seen>>
         /\ \A y \in Instances \ {x} : SameData(y)
         /\ row'[x].ack = FALSE
         /\ row'[x].status = row[x].status /\ row'[x].expr = row[x].expr
         /\ row'[x].since = row[x].since /\ row'[x].notified = row[x].notified
<1>1. ClearAck(C(x)) /\ C(x).x = x
  BY ExecOp DEF C
<1>2. row \in [Instances -> GoodRows]
  BY DEF TypeInv
<1>3. /\ row' = [row EXCEPT ![x] = Cleared(@)]
      /\ UNCHANGED <<rule, history, mailed, lastFired, sinceAck, seen>>
  BY <1>1 DEF ClearAck, ghostVars
<1>4. row'[x] = Cleared(row[x]) /\ \A y \in Instances \ {x} : row'[y] = row[y]
  BY <1>2, <1>3
<1> QED
  BY <1>2, <1>3, <1>4, ClearedRow DEF SameData

(***************************************************************************)
(* A statement of a plan.                                                  *)
(***************************************************************************)

LEMMA PlanTuples ==
  \A a, b, c, d : <<a, b, c, d>> # <<>> /\ Head(<<a, b, c, d>>) = a /\ Tail(<<a, b, c, d>>) = <<b, c, d>>
  OBVIOUS

\* The statement a plan begins with says which plan it is.
LEMMA PlanHeads ==
  ASSUME NEW x
  PROVE  /\ \A s, t : eplan = <<U(x, s, t)>> => eplan # <<>> /\ Head(eplan) = U(x, s, t)
         /\ Firing1(x) => eplan # <<>> /\ Head(eplan) = U(x, "firing", None)
         /\ Firing2(x) => eplan # <<>> /\ Head(eplan) = H(x, "firing")
         /\ Firing3(x) => eplan # <<>> /\ Head(eplan) = N(x)
         /\ Firing4(x) => eplan # <<>> /\ Head(eplan) = M(x, "firing")
         /\ Gone1(x) => eplan # <<>> /\ Head(eplan) = U(x, "ok", None)
         /\ Gone2(x) => eplan # <<>> /\ Head(eplan) = C(x)
         /\ Gone3(x) => eplan # <<>> /\ Head(eplan) = H(x, "recovered")
         /\ Gone4(x) => eplan # <<>> /\ Head(eplan) = M(x, "recovered")
  BY RequestTuples, PlanTuples DEF Firing1, Firing2, Firing3, Firing4, Gone1, Gone2, Gone3, Gone4

LEMMA StagePlanned ==
  \A x : /\ Stage(x) => Planned(x)
         /\ Gone2(x) => Planned(x) /\ Head(eplan).op = "clearAck"
         /\ Notifying(x) => Planned(x) /\ Head(eplan).op # "clearAck"
         /\ \A s, t : eplan = <<U(x, s, t)>> => Planned(x) /\ Head(eplan).op # "clearAck"
<1> TAKE x
<1>1. /\ \A s, t : U(x, s, t).x = x /\ U(x, s, t).op = "upsert"
      /\ \A s : H(x, s).x = x /\ H(x, s).op = "history" /\ M(x, s).x = x /\ M(x, s).op = "mail"
      /\ N(x).x = x /\ N(x).op = "notified" /\ C(x).x = x /\ C(x).op = "clearAck"
  BY DEF U, H, M, N, C
<1>2. \A s, t : eplan = <<U(x, s, t)>> => Planned(x) /\ Head(eplan).op # "clearAck"
  BY <1>1, PlanHeads DEF Planned
<1>3. Notifying(x) => Planned(x) /\ Head(eplan).op # "clearAck"
  BY <1>1, PlanHeads DEF Planned, Notifying
<1>4. Gone2(x) => Planned(x) /\ Head(eplan).op = "clearAck"
  BY <1>1, PlanHeads DEF Planned
<1>5. Gone1(x) \/ Gone3(x) \/ Gone4(x) => Planned(x)
  BY <1>1, PlanHeads DEF Planned
<1>6. Stage(x) => Planned(x)
  BY <1>2, <1>3, <1>4, <1>5 DEF Stage, Notifying
<1> QED
  BY <1>2, <1>3, <1>4, <1>6

LEMMA StagePlannedNext ==
  (\A x : /\ Stage(x) => Planned(x)
          /\ Gone2(x) => Planned(x) /\ Head(eplan).op = "clearAck"
          /\ Notifying(x) => Planned(x) /\ Head(eplan).op # "clearAck"
          /\ \A s, t : eplan = <<U(x, s, t)>> => Planned(x) /\ Head(eplan).op # "clearAck")'
  BY StagePlanned, PTL

\* What the statement has to establish about its own instance.
LEMMA OwnInstance ==
  ASSUME TypeInv, epc = "instances", NEW f \in Fps \ etodo, NEW x \in Instances, x = <<erule.id, f>>,
         InstanceInv(x), UNCHANGED <<now, epc, erule, ecur, enow, etodo, seen>>,
         Stored(row'[x].since) = row'[x].since, row'[x].notified = Stored(lastFired'[x]),
         IsMailed(x)' => lastFired'[x] # None, Planned(x)' \/ (IsMailed(x)' <=> IsFiring(x)'),
         row'[x].status = "pending" => seen[x] # None /\ seen[x] - row'[x].since < Sec,
         row'[x].ack /\ sinceAck'[x] # 0 =>
           sinceAck'[x] = 1 /\ (IsFiring(x)' \/ Gone2(x)') /\ ~Notifying(x)'
  PROVE  InstanceInv(x)'
<1>1. ~Todo(x)'
  BY DEF Todo
<1>2. SeenInv(x)'
  BY DEF InstanceInv, SeenInv, Asked
<1>3. MarksInv(x)'
  BY DEF MarksInv
<1>4. PendingInv(x)'
  BY DEF PendingInv
<1>5. AckInv(x)'
  BY <1>1 DEF AckInv
<1> QED
  BY <1>1, <1>2, <1>3, <1>4, <1>5 DEF InstanceInv

\* A statement of the plan for x: the plan goes on, and nothing but x is touched.
LEMMA OwnStep ==
  ASSUME TypeInv, epc = "instances", NEW f \in Fps \ etodo, NEW x \in Instances, x = <<erule.id, f>>,
         Stage(x), InstanceInv(x), EvalStep
  PROVE  /\ InstanceInv(x)' /\ (eplan' = <<>> \/ (Stage(x)' /\ Planned(x)'))
         /\ UNCHANGED <<rule, seen>> /\ \A y \in Instances \ {x} : SameData(y)
         /\ \A r \in RuleIds \ {erule.id} : history'[r] = history[r]
         /\ \/ row'[x].expr = erule.expr
            \/ row'[x].status = row[x].status /\ row'[x].expr = row[x].expr
<1>1. /\ Exec(Head(eplan)) /\ eplan' = Tail(eplan)
      /\ UNCHANGED <<now, epc, erules, erule, ecur, ehist, enow, etodo, api>>
  BY DEF EvalStep
<1>2. /\ erule \in Cases /\ row[x] \in GoodRows /\ now \in Nat /\ lastFired[x] \in Times
      /\ sinceAck[x] \in 0 .. 2 /\ x[1] = erule.id
  BY DEF TypeInv, TypeOK
<1>3. /\ Stored(row[x].since) = row[x].since /\ row[x].notified = Stored(lastFired[x])
      /\ IsMailed(x) => lastFired[x] # None
  BY DEF InstanceInv, MarksInv
<1>4. /\ \A s \in {"ok", "firing"} : U(x, s, None) \in Upserts
      /\ \A t \in Nat : U(x, "pending", t) \in Upserts
  BY <1>2, PlanStmts
<1>5. row[x].ack /\ sinceAck[x] # 0 => IsFiring(x) \/ Gone2(x)
  BY DEF InstanceInv, AckInv
<1>6. Notifying(x) => ~(row[x].ack /\ sinceAck[x] # 0)
  BY DEF InstanceInv, AckInv
<1>7. row[x].ack /\ sinceAck[x] # 0 => sinceAck[x] = 1
  BY DEF InstanceInv, AckInv
<1>8. eplan' = <<>> => ~Planned(x)' /\ ~Notifying(x)' /\ ~Gone2(x)'
  BY RequestTuples, PlanTuples DEF Planned, Notifying, Firing1, Firing2, Firing3, Firing4, Gone2
<1>9. Stored(None) = None
  BY DEF Stored
<1>a. UNCHANGED <<now, epc, erule, ecur, enow, etodo>>
  BY <1>1
<1>10. ASSUME NEW t \in Nat, eplan = <<U(x, "pending", t)>>, seen[x] - Stored(t) < Sec, seen[x] # None,
              ~IsFiring(x), ~IsMailed(x)
       PROVE  /\ InstanceInv(x)' /\ eplan' = <<>> /\ UNCHANGED <<rule, history, seen>>
              /\ \A y \in Instances \ {x} : SameData(y)
              /\ row'[x].expr = erule.expr
  <2>1. Exec(U(x, "pending", t)) /\ eplan' = <<>>
    BY <1>1, <1>10, RequestTuples
  <2>2. /\ UNCHANGED <<rule, history, mailed, lastFired, sinceAck, seen>>
        /\ \A y \in Instances \ {x} : SameData(y)
        /\ row'[x].status = "pending" /\ row'[x].expr = erule.expr /\ row'[x].since = Stored(t)
        /\ row'[x].ack = row[x].ack /\ row'[x].notified = row[x].notified
    BY <1>4, <2>1, DoUpsert
  <2>3. Stored(Stored(t)) = Stored(t)
    BY StoredType DEF Times, None
  <2>4. ~IsFiring(x)' /\ ~IsMailed(x)'
    BY <1>10, <2>2 DEF IsFiring, IsMailed
  <2>5. ~(row[x].ack /\ sinceAck[x] # 0)
    BY <1>5, <1>10, StagePlanned
  <2>6. InstanceInv(x)'
    BY <1>a, <1>3, <1>10, <2>2, <2>3, <2>4, <2>5, OwnInstance
  <2> QED
    BY <2>1, <2>2, <2>6
<1>11. ASSUME eplan = <<U(x, "ok", None)>>, ~IsFiring(x), ~IsMailed(x)
       PROVE  /\ InstanceInv(x)' /\ eplan' = <<>> /\ UNCHANGED <<rule, history, seen>>
              /\ \A y \in Instances \ {x} : SameData(y)
              /\ row'[x].expr = erule.expr
  <2>1. Exec(U(x, "ok", None)) /\ eplan' = <<>>
    BY <1>1, <1>11, RequestTuples
  <2>2. /\ UNCHANGED <<rule, history, mailed, lastFired, sinceAck, seen>>
        /\ \A y \in Instances \ {x} : SameData(y)
        /\ row'[x].status = "ok" /\ row'[x].expr = erule.expr /\ row'[x].since = Stored(None)
        /\ row'[x].ack = row[x].ack /\ row'[x].notified = row[x].notified
    BY <1>4, <2>1, DoUpsert
  <2>4. ~IsFiring(x)' /\ ~IsMailed(x)'
    BY <1>11, <2>2 DEF IsFiring, IsMailed
  <2>5. ~(row[x].ack /\ sinceAck[x] # 0)
    BY <1>5, <1>11, StagePlanned
  <2>6. InstanceInv(x)'
    BY <1>a, <1>3, <1>9, <2>2, <2>4, <2>5, OwnInstance
  <2> QED
    BY <2>1, <2>2, <2>6
<1>12. ASSUME eplan = <<U(x, "firing", None)>>, IsFiring(x), IsMailed(x)
       PROVE  /\ InstanceInv(x)' /\ eplan' = <<>> /\ UNCHANGED <<rule, history, seen>>
              /\ \A y \in Instances \ {x} : SameData(y)
              /\ row'[x].expr = erule.expr
  <2>1. Exec(U(x, "firing", None)) /\ eplan' = <<>>
    BY <1>1, <1>12, RequestTuples
  <2>2. /\ UNCHANGED <<rule, history, mailed, lastFired, sinceAck, seen>>
        /\ \A y \in Instances \ {x} : SameData(y)
        /\ row'[x].status = "firing" /\ row'[x].expr = erule.expr /\ row'[x].since = Stored(None)
        /\ row'[x].ack = row[x].ack /\ row'[x].notified = row[x].notified
    BY <1>4, <2>1, DoUpsert
  <2>4. IsFiring(x)' /\ IsMailed(x)'
    BY <1>12, <2>2 DEF IsFiring, IsMailed
  <2>5. lastFired'[x] # None /\ ~Notifying(x)'
    BY <1>3, <1>8, <1>12, <2>1, <2>2
  <2>6. InstanceInv(x)'
    BY <1>a, <1>3, <1>7, <1>9, <2>2, <2>4, <2>5, OwnInstance
  <2> QED
    BY <2>1, <2>2, <2>6
<1>13. ASSUME Firing1(x), Due(x)
       PROVE  /\ InstanceInv(x)' /\ Stage(x)' /\ UNCHANGED <<rule, history, seen>>
              /\ \A y \in Instances \ {x} : SameData(y)
              /\ row'[x].expr = erule.expr
  <2>1. Exec(U(x, "firing", None)) /\ Firing2(x)'
    BY <1>1, <1>13, PlanTuples DEF Firing1, Firing2
  <2>2. /\ UNCHANGED <<rule, history, mailed, lastFired, sinceAck, seen>>
        /\ \A y \in Instances \ {x} : SameData(y)
        /\ row'[x].status = "firing" /\ row'[x].expr = erule.expr /\ row'[x].since = Stored(None)
        /\ row'[x].ack = row[x].ack /\ row'[x].notified = row[x].notified
    BY <1>4, <2>1, DoUpsert
  <2>3. IsFiring(x)' /\ (IsMailed(x)' <=> IsMailed(x))
    BY <2>2 DEF IsFiring, IsMailed
  <2>4. Due(x)'
    BY <1>a, <1>13, <2>2 DEF Due
  <2>5. Stage(x)' /\ Planned(x)'
    BY <2>1, <2>3, <2>4, StagePlannedNext DEF Stage
  <2>6. ~(row[x].ack /\ sinceAck[x] # 0)
    BY <1>6, <1>13 DEF Notifying
  <2>7. InstanceInv(x)'
    BY <1>a, <1>3, <1>9, <2>2, <2>3, <2>5, <2>6, OwnInstance
  <2> QED
    BY <2>2, <2>5, <2>7
<1>14. ASSUME Firing2(x), Due(x), IsFiring(x)
       PROVE  /\ InstanceInv(x)' /\ Stage(x)' /\ UNCHANGED <<rule, row, seen>>
              /\ \A r \in RuleIds \ {x[1]} : history'[r] = history[r]
              /\ \A y \in Instances \ {x} : SameData(y)
  <2>1. Exec(H(x, "firing")) /\ Firing3(x)'
    BY <1>1, <1>14, RequestTuples DEF Firing2, Firing3
  <2>2. /\ UNCHANGED <<rule, row, mailed, lastFired, sinceAck, seen>>
        /\ \A r \in RuleIds \ {x[1]} : history'[r] = history[r]
        /\ \A y \in Instances : SameData(y)
    BY <2>1, DoHistory
  <2>3. IsFiring(x)' /\ (IsMailed(x)' <=> IsMailed(x))
    BY <1>14, <2>2 DEF IsFiring, IsMailed
  <2>4. Due(x)'
    BY <1>a, <1>14, <2>2 DEF Due
  <2>5. Stage(x)' /\ Planned(x)'
    BY <2>1, <2>3, <2>4, StagePlannedNext DEF Stage
  <2>6. ~(row[x].ack /\ sinceAck[x] # 0) /\ row[x].status # "pending"
    BY <1>6, <1>14 DEF Notifying, IsFiring
  <2>7. InstanceInv(x)'
    BY <1>a, <1>3, <2>2, <2>3, <2>5, <2>6, OwnInstance
  <2> QED
    BY <2>2, <2>5, <2>7
<1>15. ASSUME Firing3(x), Due(x), IsFiring(x)
       PROVE  /\ InstanceInv(x)' /\ Stage(x)' /\ UNCHANGED <<rule, history, seen>>
              /\ row'[x].status = row[x].status /\ row'[x].expr = row[x].expr
              /\ \A y \in Instances \ {x} : SameData(y)
  <2>1. Exec(N(x)) /\ Firing4(x)'
    BY <1>1, <1>15, RequestTuples DEF Firing3, Firing4
  <2>2. /\ UNCHANGED <<rule, history, mailed, sinceAck, seen>>
        /\ \A y \in Instances \ {x} : SameData(y)
        /\ lastFired'[x] = now /\ row'[x].notified = Stored(now)
        /\ row'[x].status = row[x].status /\ row'[x].expr = row[x].expr
        /\ row'[x].since = row[x].since /\ row'[x].ack = row[x].ack
    BY <1>15, <2>1, DoNotified DEF Exists, IsFiring
  <2>3. IsFiring(x)' /\ (IsMailed(x)' <=> IsMailed(x))
    BY <1>15, <2>2 DEF IsFiring, IsMailed
  <2>4. lastFired'[x] # None
    BY <1>2, <2>2 DEF None
  <2>5. Stage(x)' /\ Planned(x)'
    BY <2>1, <2>3, <2>4, StagePlannedNext DEF Stage
  <2>6. ~(row[x].ack /\ sinceAck[x] # 0) /\ row[x].status # "pending"
    BY <1>6, <1>15 DEF Notifying, IsFiring
  <2>7. InstanceInv(x)'
    BY <1>a, <1>3, <2>2, <2>3, <2>4, <2>5, <2>6, OwnInstance
  <2> QED
    BY <2>2, <2>5, <2>7
<1>16. ASSUME Firing4(x), IsFiring(x), lastFired[x] # None
       PROVE  /\ InstanceInv(x)' /\ eplan' = <<>> /\ UNCHANGED <<rule, row, history, seen>>
              /\ \A y \in Instances \ {x} : SameData(y)
  <2>1. Exec(M(x, "firing")) /\ eplan' = <<>>
    BY <1>1, <1>16, RequestTuples DEF Firing4
  <2>2. /\ UNCHANGED <<rule, row, history, lastFired, seen>>
        /\ \A y \in Instances \ {x} : SameData(y)
        /\ mailed'[x] = "firing"
        /\ sinceAck'[x] = IF row[x].ack /\ sinceAck[x] < 2 THEN sinceAck[x] + 1 ELSE sinceAck[x]
    BY <2>1, DoMail
  <2>3. IsFiring(x)' /\ IsMailed(x)' /\ row[x].status # "pending"
    BY <1>16, <2>2 DEF IsFiring, IsMailed
  <2>4. ~(row[x].ack /\ sinceAck[x] # 0)
    BY <1>6, <1>16 DEF Notifying
  <2>5. row'[x].ack => sinceAck'[x] = 1
    BY <1>2, <2>2, <2>4
  <2>6. ~Notifying(x)'
    BY <1>8, <2>1
  <2>7. InstanceInv(x)'
    BY <1>a, <1>3, <1>16, <2>2, <2>3, <2>5, <2>6, OwnInstance
  <2> QED
    BY <2>1, <2>2, <2>7
<1>17. ASSUME Gone1(x), IsMailed(x)
       PROVE  /\ InstanceInv(x)' /\ Stage(x)' /\ UNCHANGED <<rule, history, seen>>
              /\ \A y \in Instances \ {x} : SameData(y)
              /\ row'[x].expr = erule.expr
  <2>1. Exec(U(x, "ok", None)) /\ Gone2(x)'
    BY <1>1, <1>17, PlanTuples DEF Gone1, Gone2
  <2>2. /\ UNCHANGED <<rule, history, mailed, lastFired, sinceAck, seen>>
        /\ \A y \in Instances \ {x} : SameData(y)
        /\ row'[x].status = "ok" /\ row'[x].expr = erule.expr /\ row'[x].since = Stored(None)
        /\ row'[x].ack = row[x].ack /\ row'[x].notified = row[x].notified
    BY <1>4, <2>1, DoUpsert
  <2>3. IsMailed(x)' /\ lastFired'[x] # None
    BY <1>3, <1>17, <2>2 DEF IsMailed
  <2>4. Stage(x)' /\ Planned(x)' /\ ~Notifying(x)'
    BY <2>1, <2>2, <2>3, StagePlannedNext DEF Stage
  <2>5. InstanceInv(x)'
    BY <1>a, <1>3, <1>7, <1>9, <2>1, <2>2, <2>3, <2>4, OwnInstance
  <2> QED
    BY <2>2, <2>4, <2>5
<1>18. ASSUME Gone2(x), IsMailed(x), row[x].status = "ok"
       PROVE  /\ InstanceInv(x)' /\ Stage(x)' /\ UNCHANGED <<rule, history, seen>>
              /\ row'[x].status = row[x].status /\ row'[x].expr = row[x].expr
              /\ \A y \in Instances \ {x} : SameData(y)
  <2>1. Exec(C(x)) /\ Gone3(x)'
    BY <1>1, <1>18, RequestTuples DEF Gone2, Gone3
  <2>2. /\ UNCHANGED <<rule, history, mailed, lastFired, sinceAck, seen>>
        /\ \A y \in Instances \ {x} : SameData(y)
        /\ row'[x].ack = FALSE
        /\ row'[x].status = row[x].status /\ row'[x].expr = row[x].expr
        /\ row'[x].since = row[x].since /\ row'[x].notified = row[x].notified
    BY <1>18, <2>1, DoClear DEF Exists
  <2>3. IsMailed(x)' /\ lastFired'[x] # None /\ row'[x].status = "ok"
    BY <1>3, <1>18, <2>2 DEF IsMailed
  <2>4. Stage(x)' /\ Planned(x)'
    BY <2>1, <2>3, StagePlannedNext DEF Stage
  <2>5. InstanceInv(x)'
    BY <1>a, <1>3, <2>2, <2>3, <2>4, OwnInstance
  <2> QED
    BY <2>2, <2>4, <2>5
<1>19. ASSUME Gone3(x) \/ Gone4(x), row[x].status = "ok"
       PROVE  ~(row[x].ack /\ sinceAck[x] # 0)
  <2>1. ~IsFiring(x)
    BY <1>19 DEF IsFiring
  <2>2. Head(eplan) = H(x, "recovered") \/ Head(eplan) = M(x, "recovered")
    BY <1>19, PlanHeads
  <2>3. Head(eplan).op # "clearAck"
    BY <2>2 DEF H, M
  <2>4. ~Gone2(x)
    BY <2>3, StagePlanned
  <2> QED
    BY <1>5, <2>1, <2>4
<1>20. ASSUME Gone3(x), IsMailed(x), row[x].status = "ok"
       PROVE  /\ InstanceInv(x)' /\ Stage(x)' /\ UNCHANGED <<rule, row, seen>>
              /\ \A r \in RuleIds \ {x[1]} : history'[r] = history[r]
              /\ \A y \in Instances \ {x} : SameData(y)
  <2>1. Exec(H(x, "recovered")) /\ Gone4(x)'
    BY <1>1, <1>20, RequestTuples DEF Gone3, Gone4
  <2>2. /\ UNCHANGED <<rule, row, mailed, lastFired, sinceAck, seen>>
        /\ \A r \in RuleIds \ {x[1]} : history'[r] = history[r]
        /\ \A y \in Instances : SameData(y)
    BY <2>1, DoHistory
  <2>3. IsMailed(x)' /\ lastFired'[x] # None /\ row'[x].status = "ok"
    BY <1>3, <1>20, <2>2 DEF IsMailed
  <2>4. Stage(x)' /\ Planned(x)'
    BY <2>1, <2>3, StagePlannedNext DEF Stage
  <2>5. InstanceInv(x)'
    BY <1>a, <1>3, <1>19, <1>20, <2>2, <2>3, <2>4, OwnInstance
  <2> QED
    BY <2>2, <2>4, <2>5
<1>21. ASSUME Gone4(x), IsMailed(x), row[x].status = "ok"
       PROVE  /\ InstanceInv(x)' /\ eplan' = <<>> /\ UNCHANGED <<rule, row, history, seen>>
              /\ \A y \in Instances \ {x} : SameData(y)
  <2>1. Exec(M(x, "recovered")) /\ eplan' = <<>>
    BY <1>1, <1>21, RequestTuples DEF Gone4
  <2>2. /\ UNCHANGED <<rule, row, history, lastFired, seen>>
        /\ \A y \in Instances \ {x} : SameData(y)
        /\ mailed'[x] = "recovered" /\ sinceAck'[x] = sinceAck[x]
    BY <2>1, DoMail
  <2>3. ~IsFiring(x)' /\ ~IsMailed(x)' /\ row'[x].status = "ok"
    BY <1>21, <2>2 DEF IsFiring, IsMailed
  <2>4. InstanceInv(x)'
    BY <1>a, <1>3, <1>19, <1>21, <2>2, <2>3, OwnInstance
  <2> QED
    BY <2>1, <2>2, <2>4
<1>22. CASE eplan' = <<>> /\ InstanceInv(x)' /\ UNCHANGED <<rule, history, seen>>
            /\ (\A y \in Instances \ {x} : SameData(y))
            /\ (row'[x].expr = erule.expr \/ UNCHANGED row)
  BY <1>22
<1>23. CASE Stage(x)' /\ InstanceInv(x)' /\ UNCHANGED <<rule, seen>>
            /\ (\A r \in RuleIds \ {x[1]} : history'[r] = history[r])
            /\ (\A y \in Instances \ {x} : SameData(y))
            /\ \/ row'[x].expr = erule.expr
               \/ row'[x].status = row[x].status /\ row'[x].expr = row[x].expr
  <2>1. Planned(x)'
    BY <1>23, StagePlannedNext
  <2> QED
    BY <1>2, <1>23, <2>1
<1>24. CASE \/ \E t \in Nat : /\ eplan = <<U(x, "pending", t)>> /\ seen[x] - Stored(t) < Sec
                              /\ ~IsFiring(x) /\ ~IsMailed(x) /\ seen[x] # None
            \/ eplan = <<U(x, "ok", None)>> /\ ~IsFiring(x) /\ ~IsMailed(x)
            \/ eplan = <<U(x, "firing", None)>> /\ IsFiring(x) /\ IsMailed(x)
            \/ Firing4(x) /\ IsFiring(x) /\ lastFired[x] # None
            \/ Gone4(x) /\ IsMailed(x) /\ row[x].status = "ok"
  BY <1>10, <1>11, <1>12, <1>16, <1>21, <1>22, <1>24
<1>25. CASE \/ Firing1(x) /\ Due(x)
            \/ (Firing2(x) \/ Firing3(x)) /\ Due(x) /\ IsFiring(x)
            \/ Gone1(x) /\ IsMailed(x)
            \/ (Gone2(x) \/ Gone3(x)) /\ IsMailed(x) /\ row[x].status = "ok"
  BY <1>13, <1>14, <1>15, <1>17, <1>18, <1>20, <1>23, <1>25
<1> QED
  BY <1>24, <1>25 DEF Stage

(***************************************************************************)
(* The other steps, for one instance.                                      *)
(***************************************************************************)

\* Neither the instance nor the evaluator does anything.
LEMMA InstanceSame ==
  ASSUME NEW y \in Instances, InstanceInv(y), SameData(y), UNCHANGED <<now, evalVars>>
  PROVE  InstanceInv(y)'
<1>1. UNCHANGED <<now, epc, erules, erule, ecur, ehist, enow, etodo, eplan>>
  BY DEF evalVars
<1>2. (Todo(y)' <=> Todo(y)) /\ (Asked(y)' <=> Asked(y)) /\ (Planned(y)' <=> Planned(y))
  BY <1>1 DEF Todo, Asked, Planned
<1>3. (Todo(y) => ReadRight(y)) => (Todo(y)' => ReadRight(y)')
  BY <1>1, <1>2 DEF ReadRight, Active, SameData
<1>4. SeenInv(y) => SeenInv(y)'
  BY <1>1, <1>2 DEF SeenInv, SameData
<1>5. MarksInv(y) => MarksInv(y)'
  BY <1>2 DEF MarksInv, IsMailed, IsFiring, SameData
<1>6. PendingInv(y) => PendingInv(y)'
  BY <1>1, <1>2 DEF PendingInv, SameData, U
<1>7. AckInv(y) => AckInv(y)'
  <2>1. (Gone2(y)' <=> Gone2(y)) /\ (Notifying(y)' <=> Notifying(y))
    BY <1>1 DEF Gone2, Notifying, Firing1, Firing2, Firing3, Firing4, U
  <2> QED
    BY <1>1, <1>2, <2>1 DEF AckInv, IsFiring, SameData
<1> QED
  BY <1>3, <1>4, <1>5, <1>6, <1>7 DEF InstanceInv

\* The evaluator is at another instance.
LEMMA OtherInstance ==
  ASSUME NEW y \in Instances, InstanceInv(y), SameData(y), ~Planned(y), ~Planned(y)',
         UNCHANGED <<now, epc, erule, ecur, ehist, enow>>, Todo(y)' <=> Todo(y)
  PROVE  InstanceInv(y)'
<1>1. /\ ~Gone2(y) /\ ~Notifying(y) /\ eplan # <<U(y, "ok", None)>>
      /\ ~Gone2(y)' /\ ~Notifying(y)'
  BY StagePlanned, StagePlannedNext
<1>2. Asked(y)' <=> Asked(y)
  BY DEF Asked
<1>3. Todo(y)' => ReadRight(y)'
  BY DEF InstanceInv, ReadRight, Active, SameData
<1>4. SeenInv(y)'
  BY <1>2 DEF InstanceInv, SeenInv, SameData
<1>5. MarksInv(y)'
  BY DEF InstanceInv, MarksInv, IsMailed, IsFiring, SameData
<1>6. PendingInv(y)'
  BY <1>1, <1>2 DEF InstanceInv, PendingInv, SameData
<1>7. AckInv(y)'
  BY <1>1 DEF InstanceInv, AckInv, IsFiring, SameData
<1> QED
  BY <1>3, <1>4, <1>5, <1>6, <1>7 DEF InstanceInv

\* The evaluator is between two rules, or goes there.
LEMMA BetweenRules ==
  ASSUME NEW y \in Instances, InstanceInv(y), SameData(y), UNCHANGED now, eplan = <<>>, eplan' = <<>>,
         epc \in {"idle", "rule", "query"} \/ (epc = "instances" /\ etodo = {}),
         epc' \in {"idle", "rule", "query"}
  PROVE  InstanceInv(y)'
<1>1. ~Planned(y) /\ ~Planned(y)' /\ ~Todo(y) /\ ~Todo(y)' /\ ~Asked(y)'
  BY DEF Planned, Todo, Asked
<1>2. /\ ~Gone2(y) /\ ~Notifying(y) /\ eplan # <<U(y, "ok", None)>>
      /\ ~Gone2(y)' /\ ~Notifying(y)'
  BY <1>1, StagePlanned, StagePlannedNext
<1>3. SeenInv(y)'
  BY <1>1 DEF InstanceInv, SeenInv, SameData
<1>4. MarksInv(y)'
  BY <1>1 DEF InstanceInv, MarksInv, IsMailed, IsFiring, SameData
<1>5. PendingInv(y)'
  BY <1>1, <1>2 DEF InstanceInv, PendingInv, SameData, Asked
<1>6. AckInv(y)'
  BY <1>1, <1>2 DEF InstanceInv, AckInv, IsFiring, SameData
<1> QED
  BY <1>1, <1>3, <1>4, <1>5, <1>6 DEF InstanceInv

\* No row, nothing sent, the evaluator idle.
LEMMA BlankInstance ==
  ASSUME NEW y \in Instances, row'[y] = NoRow, mailed'[y] = "none", lastFired'[y] = None,
         seen'[y] = None, epc' = "idle", eplan' = <<>>, now' \in Nat
  PROVE  InstanceInv(y)'
<1>1. Stored(None) = None
  BY DEF Stored
<1> QED
  BY <1>1 DEF InstanceInv, Todo, SeenInv, Asked, MarksInv, PendingInv, AckInv, NoRow, IsMailed,
    IsFiring, None

\* The clock.
LEMMA ClockInstance ==
  ASSUME TypeInv, NEW y \in Instances, InstanceInv(y), Clock
  PROVE  InstanceInv(y)'
<1>1. UNCHANGED <<epc, erules, erule, ecur, ehist, enow, etodo, eplan, row, mailed, lastFired,
                  sinceAck, seen>>
  BY DEF Clock, dbVars, evalVars, ghostVars
<1>2. seen[y] \in Int /\ enow \in Int /\ now \in Nat /\ now' = now + 1
  BY DEF TypeInv, TypeOK, Times, None, Clock
<1>3. (Todo(y)' <=> Todo(y)) /\ (Asked(y)' <=> Asked(y)) /\ (Planned(y)' <=> Planned(y))
  BY <1>1 DEF Todo, Asked, Planned
<1>4. Todo(y)' => ReadRight(y)'
  BY <1>1, <1>3 DEF InstanceInv, ReadRight, Active
<1>5. SeenInv(y)'
  <2>1. seen[y] <= now => seen[y] <= now + 1
    BY <1>2
  <2>2. enow <= now => enow <= now + 1
    BY <1>2
  <2> QED
    BY <1>1, <1>2, <1>3, <2>1, <2>2 DEF InstanceInv, SeenInv
<1>6. MarksInv(y)'
  BY <1>1, <1>3 DEF InstanceInv, MarksInv, IsMailed, IsFiring
<1>7. PendingInv(y)'
  BY <1>1, <1>3 DEF InstanceInv, PendingInv, U
<1>8. AckInv(y)'
  <2>1. (Gone2(y)' <=> Gone2(y)) /\ (Notifying(y)' <=> Notifying(y))
    BY <1>1 DEF Gone2, Notifying, Firing1, Firing2, Firing3, Firing4, U
  <2> QED
    BY <1>1, <1>3, <2>1 DEF InstanceInv, AckInv, IsFiring
<1> QED
  BY <1>4, <1>5, <1>6, <1>7, <1>8 DEF InstanceInv

\* An acknowledgement of x, at any moment.
LEMMA AckInstance ==
  ASSUME TypeInv, NEW x \in Instances, NEW t \in Times, Exec(AckSt(x, t)), UNCHANGED <<now, evalVars>>,
         NEW y \in Instances, InstanceInv(y)
  PROVE  InstanceInv(y)'
<1>1. /\ UNCHANGED <<rule, history, mailed, lastFired, seen>>
      /\ \A z \in Instances \ {x} : SameData(z)
      /\ sinceAck'[x] = 0 /\ (row[x].ack => row'[x].ack)
      /\ row'[y].status = row[y].status /\ row'[y].expr = row[y].expr
      /\ row'[y].since = row[y].since /\ row'[y].notified = row[y].notified
  BY DoAck
<1>2. CASE y # x
  BY <1>1, <1>2, InstanceSame
<1>3. CASE y = x
  <2>1. UNCHANGED <<epc, erules, erule, ecur, ehist, enow, etodo, eplan>>
    BY DEF evalVars
  <2>2. (Todo(y)' <=> Todo(y)) /\ (Asked(y)' <=> Asked(y)) /\ (Planned(y)' <=> Planned(y))
    BY <2>1 DEF Todo, Asked, Planned
  <2>3. /\ Active(y)'.status = Active(y).status /\ Active(y)'.since = Active(y).since
        /\ Active(y)'.notified = Active(y).notified
    BY <1>1 DEF Active
  <2>4. Todo(y)' => ReadRight(y)'
    <3>1. SUFFICES ASSUME Todo(y) PROVE ReadRight(y)'
      BY <2>2
    <3>2. /\ ehist[y[2]].status = Active(y).status /\ ehist[y[2]].since = Active(y).since
          /\ ehist[y[2]].notified = Active(y).notified
      BY <3>1 DEF InstanceInv, ReadRight
    <3>3. ehist[y[2]].ack => row[y].ack
      BY <3>1 DEF InstanceInv, ReadRight
    <3>4. ehist'[y[2]].ack => row'[y].ack
      BY <1>1, <1>3, <2>1, <3>3
    <3>5. /\ ehist'[y[2]].status = Active(y)'.status /\ ehist'[y[2]].since = Active(y)'.since
          /\ ehist'[y[2]].notified = Active(y)'.notified
      BY <2>1, <2>3, <3>2
    <3> QED
      BY <3>4, <3>5 DEF ReadRight
  <2>5. SeenInv(y)'
    BY <1>1, <2>1, <2>2 DEF InstanceInv, SeenInv
  <2>6. MarksInv(y)'
    BY <1>1, <2>2 DEF InstanceInv, MarksInv, IsMailed, IsFiring
  <2>7. PendingInv(y)'
    BY <1>1, <2>1, <2>2 DEF InstanceInv, PendingInv, U
  <2>8. AckInv(y)'
    BY <1>1, <1>3 DEF AckInv
  <2> QED
    BY <2>4, <2>5, <2>6, <2>7, <2>8 DEF InstanceInv
<1> QED
  BY <1>2, <1>3

\* The query, with what it returns.
LEMMA QueryInstance ==
  ASSUME TypeInv, RulesInv, PlanInv, EvalQuery, NEW y \in Instances, InstanceInv(y)
  PROVE  InstanceInv(y)'
<1>1. /\ epc = "query" /\ epc' = "states"
      /\ UNCHANGED <<now, row, erule, eplan, mailed, lastFired, sinceAck>>
  BY DEF EvalQuery, dbVars
<1>2. eplan = <<>> /\ eplan' = <<>>
  BY <1>1 DEF PlanInv
<1>3. ~Planned(y) /\ ~Planned(y)' /\ ~Todo(y)' /\ ~Asked(y) /\ now \in Nat /\ seen[y] \in Times
  BY <1>1, <1>2 DEF Planned, Todo, Asked, TypeInv, TypeOK
<1>4. /\ ~Gone2(y) /\ eplan # <<U(y, "ok", None)>> /\ ~Gone2(y)' /\ ~Notifying(y)'
  BY <1>3, StagePlanned, StagePlannedNext
<1>5. seen'[y] = IF y[1] # erule.id THEN seen[y]
                 ELSE IF y[2] \notin ecur' THEN None
                 ELSE IF seen[y] = None THEN now ELSE seen[y]
  BY DEF EvalQuery
<1>6. SeenInv(y)'
  <2>1. seen[y] <= now
    BY DEF InstanceInv, SeenInv
  <2>2. seen'[y] <= now
    BY <1>3, <1>5, <2>1 DEF None
  <2>3. Asked(y)' /\ y[2] \in ecur' => seen'[y] # None
    BY <1>1, <1>3, <1>5 DEF Asked, None
  <2> QED
    BY <1>1, <2>2, <2>3 DEF SeenInv
<1>7. MarksInv(y)'
  BY <1>1, <1>3 DEF InstanceInv, MarksInv, IsMailed, IsFiring
<1>8. PendingInv(y)'
  <2>1. SUFFICES ASSUME row[y].status = "pending" PROVE PendingInv(y)'
    BY <1>1 DEF PendingInv
  <2>2. seen[y] # None /\ seen[y] - row[y].since < Sec
    BY <1>3, <2>1 DEF InstanceInv, PendingInv
  <2>3. CASE seen'[y] = seen[y]
    BY <1>1, <2>2, <2>3 DEF PendingInv
  <2>4. CASE y[1] = erule.id /\ y[2] \notin ecur'
    BY <1>1, <2>4 DEF PendingInv, Asked
  <2> QED
    BY <1>5, <2>2, <2>3, <2>4
<1>9. AckInv(y)'
  BY <1>1, <1>3, <1>4 DEF InstanceInv, AckInv, IsFiring
<1> QED
  BY <1>3, <1>6, <1>7, <1>8, <1>9 DEF InstanceInv

\* The rows are read.
LEMMA StatesInstance ==
  ASSUME TypeInv, PlanInv, EvalStates, NEW y \in Instances, InstanceInv(y)
  PROVE  InstanceInv(y)'
<1>1. /\ epc = "states" /\ epc' = "instances" /\ enow' = now
      /\ ehist' = [f \in Fps |-> Active(<<erule.id, f>>)]
      /\ etodo' = ecur \cup {f \in Fps : ehist'[f].status # "none"}
      /\ UNCHANGED <<now, row, erule, ecur, eplan, mailed, lastFired, sinceAck, seen>>
  BY DEF EvalStates, dbVars, ghostVars
<1>2. eplan = <<>> /\ eplan' = <<>>
  BY <1>1 DEF PlanInv
<1>3. ~Planned(y) /\ ~Planned(y)' /\ ~Todo(y) /\ (Asked(y)' <=> Asked(y))
  BY <1>1, <1>2 DEF Planned, Todo, Asked
<1>4. /\ ~Gone2(y) /\ eplan # <<U(y, "ok", None)>> /\ ~Gone2(y)' /\ ~Notifying(y)'
  BY <1>3, StagePlanned, StagePlannedNext
<1>5. y = <<y[1], y[2]>> /\ y[2] \in Fps /\ now \in Nat
  BY DEF Instances, TypeInv, TypeOK
<1>6. Active(y)' = Active(y) /\ NoRow.ack = FALSE
  BY <1>1 DEF Active, NoRow
<1>7. ASSUME y[1] = erule.id PROVE ehist'[y[2]] = Active(y)
  BY <1>1, <1>5, <1>7
<1>8. Todo(y)' => ReadRight(y)'
  <2>1. SUFFICES ASSUME y[1] = erule.id PROVE ReadRight(y)'
    BY <1>1 DEF Todo
  <2>2. ehist'[y[2]] = Active(y)'
    BY <1>6, <1>7, <2>1
  <2>3. ehist'[y[2]].ack => row'[y].ack
    BY <1>1, <1>6, <1>7, <2>1 DEF Active
  <2> QED
    BY <2>2, <2>3 DEF ReadRight
<1>9. SeenInv(y)'
  BY <1>1, <1>3, <1>5 DEF InstanceInv, SeenInv
<1>10. MarksInv(y)'
  BY <1>1, <1>3 DEF InstanceInv, MarksInv, IsMailed, IsFiring
<1>11. PendingInv(y)'
  <2>1. SUFFICES ASSUME row[y].status = "pending" PROVE PendingInv(y)'
    BY <1>1 DEF PendingInv
  <2>2. CASE seen[y] # None /\ seen[y] - row[y].since < Sec
    BY <1>1, <2>2 DEF PendingInv
  <2>3. CASE Asked(y) /\ y[2] \notin ecur
    <3>1. y[1] = erule.id /\ ehist'[y[2]].status = "pending"
      BY <1>7, <2>1, <2>3 DEF Asked, Active
    <3>2. Todo(y)'
      BY <1>1, <1>5, <3>1 DEF Todo
    <3> QED
      BY <1>1, <1>3, <2>3, <3>2 DEF PendingInv
  <2> QED
    BY <2>1, <2>2, <2>3 DEF InstanceInv, PendingInv
<1>12. AckInv(y)'
  <2>1. SUFFICES ASSUME row[y].ack, sinceAck[y] # 0 PROVE AckInv(y)'
    BY <1>1 DEF AckInv
  <2>2. sinceAck[y] = 1 /\ row[y].status = "firing"
    BY <1>4, <2>1 DEF InstanceInv, AckInv, IsFiring
  <2>3. Todo(y)' => ehist'[y[2]] = row[y]
    BY <1>1, <1>7, <2>2 DEF Todo, Active
  <2> QED
    BY <1>1, <1>4, <2>1, <2>2, <2>3 DEF AckInv, IsFiring
<1> QED
  BY <1>8, <1>9, <1>10, <1>11, <1>12 DEF InstanceInv

\* The plan for x is due.
LEMMA OwedIsDue ==
  ASSUME TypeInv, NEW x \in Instances, InstanceInv(x), Todo(x), x[2] \in ecur, ~Planned(x),
         Owed(ehist[x[2]])
  PROVE  Due(x)
<1> DEFINE h == ehist[x[2]]
<1>1. /\ h.status = Active(x).status /\ h.since = Active(x).since /\ h.notified = Active(x).notified
  BY DEF InstanceInv, ReadRight
<1>2. /\ Active(x).status = "none" => ~IsFiring(x)
      /\ Active(x).status \in {"pending", "firing"} => Active(x) = row[x]
  BY DEF Active, IsFiring, NoRow
<1>3. IsMailed(x) <=> IsFiring(x)
  BY DEF InstanceInv, MarksInv
<1>4. /\ seen[x] # None /\ seen[x] <= enow
  BY DEF InstanceInv, SeenInv, Todo, Asked
<1>5. /\ seen[x] \in Times /\ enow \in Nat /\ lastFired[x] \in Times /\ row[x].since \in Times
      /\ row[x].notified \in Times /\ erule.duration \in Nat /\ Sec \in Nat \ {0} /\ RateLimit \in Nat
  <2>1. erule \in Cases /\ row[x] \in Rows
    BY DEF TypeInv, TypeOK, Todo
  <2>2. erule.duration \in Nat
    BY <2>1 DEF Cases
  <2>3. row[x].since \in Times /\ row[x].notified \in Times
    BY <2>1 DEF Rows
  <2> QED
    BY <2>2, <2>3 DEF TypeInv, TypeOK
<1>6. CASE h.status = "none" /\ erule.duration = 0
  <2>1. ~IsMailed(x)
    BY <1>1, <1>2, <1>3, <1>6
  <2>2. enow - seen[x] > erule.duration - Sec
    BY <1>4, <1>5, <1>6 DEF Times
  <2> QED
    BY <1>4, <2>1, <2>2 DEF Due, IsMailed
<1>7. CASE h.status = "pending" /\ HeldLong(h)
  <2>1. row[x].status = "pending" /\ h.since = row[x].since
    BY <1>1, <1>2, <1>7 DEF Active
  <2>2. ~IsMailed(x)
    BY <1>3, <2>1 DEF IsFiring
  <2>3. seen[x] - row[x].since < Sec
    BY <2>1 DEF InstanceInv, PendingInv
  <2>4. enow - row[x].since >= erule.duration
    BY <1>7, <2>1 DEF HeldLong
  <2>5. row[x].since \in Int /\ seen[x] \in Int
    BY <1>5 DEF Times, None
  <2>6. enow - seen[x] > erule.duration - Sec
    BY <1>5, <2>3, <2>4, <2>5
  <2> QED
    BY <1>4, <2>2, <2>6 DEF Due, IsMailed
<1>8. CASE h.status = "firing" /\ ~Recently(h)
  <2>1. row[x].status = "firing" /\ h.notified = row[x].notified
    BY <1>1, <1>2, <1>8 DEF Active
  <2>2. IsMailed(x)
    BY <1>3, <2>1 DEF IsFiring
  <2>3. lastFired[x] # None /\ row[x].notified = Stored(lastFired[x])
    BY <2>2 DEF InstanceInv, MarksInv
  <2>4. row[x].notified # None /\ lastFired[x] - row[x].notified < Sec
    BY <1>5, <2>3, StoredType
  <2>5. ~(enow - row[x].notified < RateLimit)
    BY <1>8, <2>1, <2>4 DEF Recently
  <2>6. lastFired[x] \in Int /\ row[x].notified \in Int
    BY <1>5 DEF Times, None
  <2>7. enow - lastFired[x] > RateLimit - Sec
    BY <1>5, <2>4, <2>5, <2>6
  <2> QED
    BY <2>2, <2>7 DEF Due, IsMailed
<1> QED
  BY <1>6, <1>7, <1>8 DEF Owed

\* evaluateRule decides about an instance.
LEMMA DecideInstance ==
  ASSUME TypeInv, NEW f \in Fps, EvalInstance(f), NEW x \in Instances, x = <<erule.id, f>>, InstanceInv(x)
  PROVE  InstanceInv(x)' /\ Stage(x)' /\ Planned(x)'
<1>1. /\ epc = "instances" /\ eplan = <<>> /\ f \in etodo /\ eplan' = Plan(f)
      /\ etodo' = etodo \ {f}
      /\ UNCHANGED <<now, row, epc, erule, ecur, ehist, enow, mailed, lastFired, sinceAck, seen>>
  BY DEF EvalInstance, dbVars, ghostVars
<1>2. x[1] = erule.id /\ x[2] = f
  OBVIOUS
<1>3. Todo(x) /\ ~Todo(x)' /\ ~Planned(x)
  BY <1>1, <1>2 DEF Todo, Planned
<1>4. /\ ehist[f].status = Active(x).status /\ ehist[f].since = Active(x).since
      /\ IsMailed(x) <=> IsFiring(x)
      /\ Stored(row[x].since) = row[x].since
  BY <1>2, <1>3 DEF InstanceInv, ReadRight, MarksInv
<1>5. /\ ehist[f].status = "none" => ~IsFiring(x)
      /\ ehist[f].status = "pending" => row[x].status = "pending" /\ ehist[f].since = row[x].since
      /\ ehist[f].status = "firing" => IsFiring(x)
      /\ row[x].status = "pending" => ehist[f].status = "pending"
  BY <1>4 DEF Active, IsFiring, NoRow
<1>6. f \in ecur => seen[x] # None /\ seen[x] <= enow
  BY <1>1, <1>2 DEF InstanceInv, SeenInv, Asked
<1>7. enow \in Nat /\ seen[x] \in Times /\ row[x] \in GoodRows /\ Sec \in Nat
  BY DEF TypeInv, TypeOK
<1>8. /\ \A s, t : U(x, s, t)' = U(x, s, t)
      /\ (IsMailed(x)' <=> IsMailed(x)) /\ (IsFiring(x)' <=> IsFiring(x)) /\ (Due(x)' <=> Due(x))
  BY <1>1 DEF U, IsMailed, IsFiring, Due
<1>9. Stage(x)'
  <2>1. CASE f \notin ecur /\ ehist[f].status = "pending" /\ Plan(f) = <<U(x, "ok", None)>>
    <3>1. eplan' = <<U(x, "ok", None)>>' /\ ~IsFiring(x)' /\ ~IsMailed(x)'
      BY <1>1, <1>4, <1>5, <1>8, <2>1 DEF IsFiring
    <3> QED
      BY <3>1 DEF Stage
  <2>2. CASE /\ f \notin ecur /\ ehist[f].status = "firing"
             /\ Plan(f) = <<U(x, "ok", None), C(x), H(x, "recovered"), M(x, "recovered")>>
    <3>1. Gone1(x)' /\ IsMailed(x)'
      BY <1>1, <1>4, <1>5, <1>8, <2>2 DEF Gone1
    <3> QED
      BY <3>1 DEF Stage
  <2>3. CASE f \in ecur /\ ehist[f].status = "none" /\ Plan(f) = <<U(x, "pending", enow)>>
    <3>1. enow - Stored(enow) < Sec /\ Stored(enow) \in Nat
      BY <1>7, StoredType DEF Times, None
    <3>2. seen[x] - Stored(enow) < Sec
      BY <1>6, <1>7, <2>3, <3>1 DEF Times
    <3>3. /\ eplan' = <<U(x, "pending", enow)>>' /\ ~IsFiring(x)' /\ ~IsMailed(x)' /\ seen'[x] # None
          /\ seen'[x] - Stored(enow) < Sec
      BY <1>1, <1>4, <1>5, <1>6, <1>8, <2>3, <3>2
    <3> QED
      BY <1>1, <1>7, <3>3 DEF Stage, Stored
  <2>4. CASE /\ f \in ecur /\ ehist[f].status = "pending"
             /\ Plan(f) = <<U(x, "pending", ehist[f].since)>>
    <3>1. row[x].status = "pending" /\ ehist[f].since = row[x].since
      BY <1>5, <2>4
    <3>2. seen[x] # None /\ seen[x] - row[x].since < Sec
      BY <1>2, <2>4, <3>1 DEF InstanceInv, PendingInv
    <3>3. PICK t \in Nat : t = row[x].since
      BY <1>7, <3>1 DEF GoodRows, Rows, Times
    <3>4. /\ eplan' = <<U(x, "pending", t)>>' /\ ~IsFiring(x)' /\ ~IsMailed(x)' /\ seen'[x] # None
          /\ seen'[x] - Stored(t) < Sec
      BY <1>1, <1>4, <1>8, <2>4, <3>1, <3>2, <3>3 DEF IsFiring
    <3> QED
      BY <3>4 DEF Stage, Stored
  <2>5. CASE f \in ecur /\ ehist[f].status = "firing" /\ Plan(f) = <<U(x, "firing", None)>>
    <3>1. eplan' = <<U(x, "firing", None)>>' /\ IsFiring(x)' /\ IsMailed(x)'
      BY <1>1, <1>4, <1>5, <1>8, <2>5
    <3> QED
      BY <3>1 DEF Stage
  <2>6. CASE /\ f \in ecur /\ Owed(ehist[f])
             /\ Plan(f) = <<U(x, "firing", None), H(x, "firing"), N(x), M(x, "firing")>>
    <3>1. Firing1(x)' /\ Due(x)'
      BY <1>1, <1>2, <1>3, <1>8, <2>6, OwedIsDue DEF Firing1
    <3> QED
      BY <3>1 DEF Stage
  <2> QED
    BY <1>1, <2>1, <2>2, <2>3, <2>4, <2>5, <2>6, Plans
<1>10. Planned(x)'
  BY <1>9, StagePlannedNext
<1>11. SeenInv(x)'
  BY <1>1 DEF InstanceInv, SeenInv, Asked
<1>12. MarksInv(x)'
  BY <1>1, <1>10 DEF InstanceInv, MarksInv, IsMailed
<1>13. PendingInv(x)'
  <2>1. SUFFICES ASSUME row[x].status = "pending", f \notin ecur PROVE PendingInv(x)'
    BY <1>1, <1>2 DEF InstanceInv, PendingInv
  <2>2. ehist[f].status = "pending"
    BY <1>5, <2>1
  <2>3. eplan' = <<U(x, "ok", None)>>
    BY <1>1, <2>1, <2>2, Plans
  <2>4. eplan' = <<U(x, "ok", None)>>' /\ Asked(x)' /\ f \notin ecur'
    BY <1>1, <1>2, <1>8, <2>1, <2>3 DEF Asked
  <2> QED
    BY <1>2, <2>4 DEF PendingInv
<1>14. AckInv(x)'
  <2>1. SUFFICES ASSUME row[x].ack, sinceAck[x] # 0 PROVE AckInv(x)'
    BY <1>1 DEF AckInv
  <2>2. sinceAck[x] = 1 /\ IsFiring(x) /\ ehist[f].status = "firing" /\ ehist[f].ack
    BY <1>2, <1>3, <2>1, StagePlanned DEF InstanceInv, AckInv
  <2>3. ~Owed(ehist[f])
    BY <2>2 DEF Owed, Suppressed
  <2>4. \/ eplan' = <<U(x, "firing", None)>>
        \/ eplan' = <<U(x, "ok", None), C(x), H(x, "recovered"), M(x, "recovered")>>
    BY <1>1, <2>2, <2>3, Plans
  <2>5. ~Notifying(x)'
    <3>1. U(x, "firing", None).op = "upsert" /\ U(x, "firing", None) # U(x, "ok", None)
      BY DEF U
    <3>2. Head(eplan').op = "upsert"
      BY <2>4, RequestTuples, PlanTuples DEF U
    <3>3. ~Firing2(x)' /\ ~Firing3(x)' /\ ~Firing4(x)'
      BY <3>2, RequestTuples DEF Firing2, Firing3, Firing4, H, N, M
    <3>4. ~Firing1(x)'
      <4>1. SUFFICES ASSUME eplan' = <<U(x, "firing", None), H(x, "firing"), N(x), M(x, "firing")>>
                     PROVE  FALSE
        BY <1>8 DEF Firing1
      <4>2. \A a, b, c, d, e : <<a>> # <<b, c, d, e>>
        OBVIOUS
      <4>3. Head(eplan') = U(x, "firing", None)
        BY <4>1, PlanTuples
      <4>4. eplan' # <<U(x, "firing", None)>>
        BY <4>1, <4>2
      <4> QED
        BY <2>4, <3>1, <4>3, <4>4, PlanTuples
    <3> QED
      BY <3>3, <3>4 DEF Notifying
  <2> QED
    BY <1>1, <1>3, <1>8, <2>2, <2>5 DEF AckInv
<1> QED
  BY <1>3, <1>9, <1>10, <1>11, <1>12, <1>13, <1>14 DEF InstanceInv

(***************************************************************************)
(* Every step.                                                             *)
(***************************************************************************)

\* What a step of a request that writes a rule does to the instances.
LEMMA WriteInstance ==
  ASSUME TypeInv, RulesInv, NEW r \in RuleIds, Unsettled(r), ApiStep, NEW y \in Instances, InstanceInv(y)
  PROVE  InstanceInv(y)'
<1>1. /\ Exec(Head(api)) /\ UNCHANGED <<now, evalVars>> /\ epc' = "idle" /\ eplan' = <<>>
  BY DEF ApiStep, evalVars, Unsettled, RulesInv
<1>2. \/ Head(api) = Del("deleteStates", r)
      \/ Head(api).op \in {"create", "update", "deleteRule", "deleteHistory"}
  BY RequestTuples DEF Unsettled, CreateSt, UpdateSt, Del
<1>3. CASE Head(api) = Del("deleteStates", r)
  <2>1. DeleteStates(Head(api)) /\ Head(api).id = r
    BY <1>1, <1>3, ExecOp DEF Del
  <2>2. CASE y[1] = r
    <3>1. row'[y] = NoRow /\ mailed'[y] = "none" /\ lastFired'[y] = None /\ seen'[y] = None
      BY <2>1, <2>2 DEF DeleteStates, WithoutStates
    <3>2. now' \in Nat
      BY <1>1 DEF TypeInv, TypeOK
    <3> QED
      BY <1>1, <3>1, <3>2, BlankInstance
  <2>3. CASE y[1] # r
    <3>1. SameData(y)
      BY <2>1, <2>3 DEF DeleteStates, WithoutStates, SameData
    <3> QED
      BY <1>1, <3>1, InstanceSame
  <2> QED
    BY <2>2, <2>3
<1>4. CASE Head(api).op \in {"create", "update", "deleteRule", "deleteHistory"}
  <2>1. UNCHANGED <<row, ghostVars>>
    BY <1>1, <1>4, ExecOp DEF CreateRule, UpdateRule, DeleteRule, DeleteHistory
  <2>2. SameData(y)
    BY <2>1 DEF SameData, ghostVars
  <2> QED
    BY <1>1, <2>2, InstanceSame
<1> QED
  BY <1>2, <1>3, <1>4

\* A step that leaves the tables and the evaluator alone.
LEMMA CalmFrame ==
  ASSUME CalmInv, UNCHANGED <<now, dbVars, evalVars, ghostVars>>, TablesInv'
  PROVE  CalmInv'
<1>1. UNCHANGED <<rule, row, epc, erules, erule, enow, etodo, eplan, mailed, lastFired, seen>>
  BY DEF dbVars, evalVars, ghostVars
<1>2. RulesInv'
  BY <1>1 DEF CalmInv, RulesInv, Current
<1>3. PlanInv'
  <2>1. \A x : Stage(x)' <=> Stage(x)
    BY <1>1 DEF Stage, U, IsFiring, IsMailed, Due, Firing1, Firing2, Firing3, Firing4, Gone1, Gone2,
      Gone3, Gone4, Stored
  <2> QED
    BY <1>1, <2>1 DEF CalmInv, PlanInv
<1>4. ASSUME NEW y \in Instances PROVE InstanceInv(y)'
  <2>1. SameData(y)
    BY DEF SameData, dbVars, ghostVars
  <2> QED
    BY <2>1, InstanceSame DEF CalmInv
<1> QED
  BY <1>2, <1>3, <1>4 DEF CalmInv

\* A step of the evaluator that executes no statement.
LEMMA TablesIdle ==
  ASSUME TablesInv, epc # "idle" \/ api = <<>>, UNCHANGED <<dbVars, api>>
  PROVE  TablesInv'
<1>1. NoRuleRequest /\ \A r \in RuleIds : RuleSettled(r) /\ Kept(r)
  BY BusyTables
<1>2. \A r \in RuleIds : RuleSettled(r)' /\ Kept(r)'
  BY <1>1, TablesFrame DEF dbVars
<1>3. NoRuleRequest'
  BY <1>1 DEF NoRuleRequest, AckSt, dbVars
<1> QED
  BY <1>2, <1>3 DEF TablesInv

LEMMA CalmApi ==
  ASSUME TypeInv, Calm, CalmInv, ApiNext
  PROVE  CalmInv'
<1> USE DEF dbVars, evalVars, ghostVars
<1>1. CASE \/ \E r \in RuleIds, conf \in Conf : PostRule(r, conf) \/ PutRule(r, conf)
           \/ \E r \in RuleIds : DeleteRequest(r)
           \/ \E x \in Instances, silence \in world.silences : Acknowledge(x, silence)
  <2>1. UNCHANGED <<now, dbVars, evalVars, ghostVars>>
    BY <1>1 DEF PostRule, PutRule, DeleteRequest, Acknowledge, Request
  <2>2. TablesInv'
    BY <1>1, TablesRequest DEF CalmInv
  <2> QED
    BY <2>1, <2>2, CalmFrame
<1>2. CASE ApiStep
  <2>1. /\ Exec(Head(api)) /\ api # <<>> /\ api' = Tail(api)
        /\ UNCHANGED <<now, epc, erules, erule, ecur, ehist, enow, etodo, eplan>>
    BY <1>2 DEF ApiStep
  <2>2. CASE \E r \in RuleIds : Unsettled(r)
    <3>1. PICK r \in RuleIds : Unsettled(r)
      BY <2>2
    <3>2. TablesInv'
      BY <1>2, <3>1, TablesWrite
    <3>3. RulesInv' /\ PlanInv'
      <4>1. epc' = "idle" /\ erules' = {} /\ eplan' = <<>>
        BY <2>1, <3>1 DEF CalmInv, RulesInv, Unsettled
      <4> QED
        BY <4>1 DEF RulesInv, PlanInv
    <3>4. \A y \in Instances : InstanceInv(y)'
      BY <1>2, <3>1, WriteInstance DEF CalmInv
    <3> QED
      BY <3>2, <3>3, <3>4 DEF CalmInv
  <2>3. CASE NoRuleRequest /\ \A r \in RuleIds : RuleSettled(r) /\ Kept(r)
    <3>1. PICK x \in Instances, t \in Times : api = <<AckSt(x, t)>>
      BY <2>1, <2>3 DEF NoRuleRequest
    <3>2. Exec(AckSt(x, t)) /\ api' = <<>>
      BY <2>1, <3>1, RequestTuples
    <3>3. /\ UNCHANGED <<rule, history, mailed, lastFired, seen>>
          /\ \A y \in Instances : /\ row'[y].status = row[y].status /\ row'[y].expr = row[y].expr
      BY <3>2, DoAck
    <3>4. TablesInv'
      <4>1. \A r \in RuleIds : RuleSettled(r)'
        BY <2>3, <3>3, SettledSame
      <4>2. \A r \in RuleIds : Kept(r)'
        BY <2>3, <3>3 DEF Kept
      <4> QED
        BY <3>2, <4>1, <4>2 DEF TablesInv, NoRuleRequest
    <3>5. RulesInv'
      BY <2>1, <3>3 DEF CalmInv, RulesInv, Current
    <3>6. PlanInv'
      <4>1. SUFFICES ASSUME eplan # <<>> PROVE PlanInv'
        BY <2>1 DEF PlanInv
      <4>2. PICK f \in Fps \ etodo : Stage(<<erule.id, f>>)
        BY <4>1 DEF CalmInv, PlanInv
      <4>3. epc = "instances" /\ erule \in Cases
        BY <4>1 DEF CalmInv, PlanInv, TypeInv
      <4>4. PICK y \in Instances : y = <<erule.id, f>>
        BY <4>3 DEF Cases, Instances, TypeInv, TypeOK
      <4>5. row'[y].status = row[y].status
        BY <3>3
      <4>6. Stage(y)'
        BY <2>1, <3>3, <4>2, <4>4, <4>5 DEF Stage, U, IsFiring, IsMailed, Due, Firing1, Firing2,
          Firing3, Firing4, Gone1, Gone2, Gone3, Gone4, Stored
      <4> QED
        BY <2>1, <4>3, <4>4, <4>6 DEF PlanInv
    <3>7. \A y \in Instances : InstanceInv(y)'
      BY <2>1, <3>2, AckInstance DEF CalmInv
    <3> QED
      BY <3>4, <3>5, <3>6, <3>7 DEF CalmInv
  <2> QED
    BY <2>2, <2>3 DEF CalmInv, TablesInv
<1>3. ~ApiFail
  BY DEF ApiFail, Calm
<1> QED
  BY <1>1, <1>2, <1>3 DEF ApiNext

LEMMA CalmEval ==
  ASSUME TypeInv, Calm, CalmInv, EvalNext
  PROVE  CalmInv'
<1> USE DEF dbVars, evalVars, ghostVars
<1>1. TablesInv /\ RulesInv /\ PlanInv /\ \A y \in Instances : InstanceInv(y)
  BY DEF CalmInv
<1>2. epc # "instances" => eplan = <<>>
  BY <1>1 DEF PlanInv
<1>3. ASSUME UNCHANGED <<now, rule, row, history, api, mailed, lastFired, sinceAck, seen>>,
             epc # "idle" \/ api = <<>>,
             eplan = <<>>, eplan' = <<>>, epc' \in {"idle", "rule", "query"},
             epc \in {"idle", "rule", "query"} \/ (epc = "instances" /\ etodo = {}),
             RulesInv'
      PROVE  CalmInv'
  <2>1. TablesInv'
    BY <1>1, <1>3, TablesIdle
  <2>2. PlanInv'
    BY <1>3 DEF PlanInv
  <2>3. ASSUME NEW y \in Instances PROVE InstanceInv(y)'
    <3>1. SameData(y)
      BY <1>3 DEF SameData
    <3> QED
      BY <1>1, <1>3, <3>1, BetweenRules
  <2> QED
    BY <1>3, <2>1, <2>2, <2>3 DEF CalmInv
<1>4. CASE EvalBegin
  <2>1. /\ epc = "idle" /\ api = <<>> /\ epc' = "rule"
        /\ UNCHANGED <<now, rule, row, history, api, mailed, lastFired, sinceAck, seen, eplan>>
    BY <1>4 DEF EvalBegin, Calm
  <2>2. \A c \in erules' : rule[c.id].phase = "live" /\ rule[c.id].expr = c.expr
    BY <1>4 DEF EvalBegin
  <2>3. RulesInv'
    BY <2>1, <2>2 DEF RulesInv, Current
  <2> QED
    BY <1>2, <1>3, <2>1, <2>3
<1>5. CASE EvalRule
  <2>1. /\ epc = "rule" /\ epc' = "query" /\ erules' \subseteq erules /\ erule' \in erules
        /\ UNCHANGED <<now, rule, row, history, api, mailed, lastFired, sinceAck, seen, eplan>>
    BY <1>5 DEF EvalRule
  <2>2. RulesInv'
    BY <1>1, <2>1 DEF RulesInv, Current
  <2> QED
    BY <1>2, <1>3, <2>1, <2>2
<1>6. CASE EvalEnd
  <2>1. /\ epc = "rule" /\ epc' = "idle" /\ erules' = {} /\ eplan' = <<>>
        /\ UNCHANGED <<now, rule, row, history, api, mailed, lastFired, sinceAck, seen>>
    BY <1>6 DEF EvalEnd, ForgetEval
  <2>2. RulesInv'
    BY <2>1 DEF RulesInv
  <2> QED
    BY <1>2, <1>3, <2>1, <2>2
<1>7. CASE EvalQueryFail
  <2>1. /\ epc = "query" /\ epc' = "rule"
        /\ UNCHANGED <<now, rule, row, history, api, mailed, lastFired, sinceAck, seen, erules, eplan>>
    BY <1>7 DEF EvalQueryFail, Calm
  <2>2. RulesInv'
    BY <1>1, <2>1 DEF RulesInv, Current
  <2> QED
    BY <1>2, <1>3, <2>1, <2>2
<1>8. CASE EvalNextRule
  <2>1. /\ epc = "instances" /\ epc' = "rule" /\ eplan = <<>> /\ etodo = {}
        /\ UNCHANGED <<now, rule, row, history, api, mailed, lastFired, sinceAck, seen, erules, eplan>>
    BY <1>8 DEF EvalNextRule
  <2>2. RulesInv'
    BY <1>1, <2>1 DEF RulesInv, Current
  <2> QED
    BY <1>3, <2>1, <2>2
<1>9. CASE EvalQuery
  <2>1. epc = "query" /\ epc' = "states" /\ UNCHANGED <<rule, row, history, api, erules, erule, eplan>>
    BY <1>9 DEF EvalQuery
  <2>2. TablesInv'
    BY <1>1, <2>1, TablesIdle
  <2>3. RulesInv' /\ PlanInv'
    BY <1>1, <1>2, <2>1 DEF RulesInv, Current, PlanInv
  <2>4. \A y \in Instances : InstanceInv(y)'
    BY <1>1, <1>9, QueryInstance
  <2> QED
    BY <2>2, <2>3, <2>4 DEF CalmInv
<1>10. CASE EvalStates
  <2>1. /\ epc = "states" /\ epc' = "instances"
        /\ UNCHANGED <<rule, row, history, api, erules, erule, eplan>>
    BY <1>10 DEF EvalStates
  <2>2. TablesInv'
    BY <1>1, <2>1, TablesIdle
  <2>3. RulesInv' /\ PlanInv'
    BY <1>1, <1>2, <2>1 DEF RulesInv, Current, PlanInv
  <2>4. \A y \in Instances : InstanceInv(y)'
    BY <1>1, <1>10, StatesInstance
  <2> QED
    BY <2>2, <2>3, <2>4 DEF CalmInv
<1>11. ASSUME NEW f \in Fps, EvalInstance(f) PROVE CalmInv'
  <2>1. /\ epc = "instances" /\ eplan = <<>> /\ f \in etodo /\ etodo' = etodo \ {f}
        /\ UNCHANGED <<now, rule, row, history, api, epc, erules, erule, ecur, ehist, enow,
                       mailed, lastFired, sinceAck, seen>>
    BY <1>11 DEF EvalInstance
  <2>2. PICK x \in Instances : x = <<erule.id, f>>
    BY <2>1 DEF TypeInv, Cases, Instances
  <2>3. InstanceInv(x)' /\ Stage(x)' /\ Planned(x)'
    BY <1>1, <1>11, <2>2, DecideInstance
  <2>4. TablesInv'
    BY <1>1, <2>1, TablesIdle
  <2>5. RulesInv'
    BY <1>1, <2>1 DEF RulesInv, Current
  <2>6. PlanInv'
    BY <2>1, <2>2, <2>3 DEF PlanInv
  <2>7. ASSUME NEW y \in Instances, y # x PROVE InstanceInv(y)'
    <3>1. SameData(y) /\ ~Planned(y) /\ ~Planned(y)'
      BY <2>1, <2>3, <2>7 DEF SameData, Planned
    <3>2. y[1] = erule.id => y[2] # f
      BY <2>2, <2>7 DEF Instances
    <3>3. Todo(y)' <=> Todo(y)
      BY <2>1, <3>2 DEF Todo
    <3> QED
      BY <1>1, <2>1, <3>1, <3>3, OtherInstance
  <2> QED
    BY <2>3, <2>4, <2>5, <2>6, <2>7 DEF CalmInv
<1>12. CASE EvalStep
  <2>1. /\ eplan # <<>> /\ epc = "instances"
        /\ UNCHANGED <<now, epc, erules, erule, ecur, ehist, enow, etodo, api>>
    BY <1>1, <1>12 DEF EvalStep, PlanInv
  <2>2. PICK f \in Fps \ etodo : Stage(<<erule.id, f>>)
    BY <1>1, <2>1 DEF PlanInv
  <2>3. PICK x \in Instances : x = <<erule.id, f>>
    BY <2>1 DEF TypeInv, Cases, Instances
  <2>4. /\ InstanceInv(x)' /\ (eplan' = <<>> \/ (Stage(x)' /\ Planned(x)'))
        /\ UNCHANGED <<rule, seen>> /\ \A y \in Instances \ {x} : SameData(y)
        /\ \A r \in RuleIds \ {erule.id} : history'[r] = history[r]
        /\ \/ row'[x].expr = erule.expr
           \/ row'[x].status = row[x].status /\ row'[x].expr = row[x].expr
    BY <1>1, <1>12, <2>1, <2>2, <2>3, OwnStep
  <2>5. /\ NoRuleRequest /\ \A r \in RuleIds : RuleSettled(r) /\ Kept(r)
        /\ rule[erule.id].phase = "live" /\ rule[erule.id].expr = erule.expr /\ erule.id \in RuleIds
    BY <1>1, <2>1, BusyTables DEF RulesInv, Current, TypeInv, Cases
  <2>6. TablesInv'
    <3>1. ASSUME NEW r \in RuleIds PROVE RuleSettled(r)'
      <4>1. SUFFICES ASSUME NEW y \in Instances, y[1] = r PROVE Settled(y)'
        BY DEF RuleSettled
      <4>2. Settled(y)
        BY <2>5, <4>1 DEF RuleSettled
      <4>3. CASE y # x
        BY <2>4, <4>2, <4>3 DEF Settled, Exists, Active, NoRow, SameData
      <4>4. CASE y = x
        <5>1. y[1] = erule.id
          BY <2>3, <4>4
        <5> QED
          BY <2>4, <2>5, <4>2, <4>4, <5>1 DEF Settled, Exists, Active, NoRow
      <4> QED
        BY <4>3, <4>4
    <3>2. ASSUME NEW r \in RuleIds PROVE Kept(r)'
      BY <2>4, <2>5 DEF Kept
    <3>3. NoRuleRequest'
      BY <2>1, <2>5 DEF NoRuleRequest, AckSt
    <3> QED
      BY <3>1, <3>2, <3>3 DEF TablesInv
  <2>7. RulesInv'
    BY <1>1, <2>1, <2>4 DEF RulesInv, Current
  <2>8. PlanInv'
    BY <2>1, <2>3, <2>4 DEF PlanInv
  <2>9. ASSUME NEW y \in Instances, y # x PROVE InstanceInv(y)'
    <3>1. Planned(x)
      BY <2>2, <2>3, StagePlanned
    <3>2. ~Planned(y) /\ ~Planned(y)'
      BY <2>4, <2>9, <3>1 DEF Planned
    <3>3. Todo(y)' <=> Todo(y)
      BY <2>1 DEF Todo
    <3> QED
      BY <1>1, <2>1, <2>4, <2>9, <3>2, <3>3, OtherInstance
  <2> QED
    BY <2>4, <2>6, <2>7, <2>8, <2>9 DEF CalmInv
<1>13. ~EvalFail
  BY DEF EvalFail, Calm
<1> QED
  BY <1>4, <1>5, <1>6, <1>7, <1>8, <1>9, <1>10, <1>11, <1>12, <1>13 DEF EvalNext

LEMMA CalmStep == TypeInv /\ Calm /\ CalmInv /\ [Next]_vars => CalmInv' /\ UNCHANGED world
<1> SUFFICES ASSUME TypeInv, Calm, CalmInv, [Next]_vars PROVE CalmInv' /\ UNCHANGED world
  OBVIOUS
<1> USE DEF dbVars, evalVars, ghostVars
<1>1. CASE EvalNext
  BY <1>1, CalmEval DEF EvalNext, EvalBegin, EvalRule, EvalEnd, EvalQuery, EvalQueryFail, EvalStates,
    EvalInstance, EvalStep, EvalFail, EvalNextRule
<1>2. CASE ApiNext
  BY <1>2, CalmApi DEF ApiNext, PostRule, PutRule, DeleteRequest, Acknowledge, Request, ApiStep, ApiFail
<1>3. ASSUME UNCHANGED <<dbVars, api, epc>> PROVE TablesInv'
  <2>1. \A r \in RuleIds : (RuleSettled(r)' <=> RuleSettled(r)) /\ (Kept(r)' <=> Kept(r))
    BY <1>3, TablesFrame
  <2>2. NoRuleRequest' <=> NoRuleRequest
    BY <1>3 DEF NoRuleRequest, AckSt
  <2>3. \A r \in RuleIds : Unsettled(r)' <=> Unsettled(r)
    BY <1>3, <2>1 DEF Unsettled, CreateSt, UpdateSt, Del
  <2> QED
    BY <2>1, <2>2, <2>3 DEF CalmInv, TablesInv
<1>4. CASE Clock
  <2>1. UNCHANGED <<world, dbVars, evalVars, api, ghostVars>>
    BY <1>4 DEF Clock
  <2>2. TablesInv'
    BY <1>3, <2>1
  <2>3. RulesInv'
    BY <2>1 DEF CalmInv, RulesInv, Current
  <2>4. PlanInv'
    <3>1. \A x : Stage(x)' <=> Stage(x)
      BY <2>1 DEF Stage, U, IsFiring, IsMailed, Due, Firing1, Firing2, Firing3, Firing4, Gone1, Gone2,
        Gone3, Gone4, Stored
    <3> QED
      BY <2>1, <3>1 DEF CalmInv, PlanInv
  <2>5. \A y \in Instances : InstanceInv(y)'
    BY <1>4, ClockInstance DEF CalmInv
  <2> QED
    BY <2>1, <2>2, <2>3, <2>4, <2>5 DEF CalmInv
<1>5. ASSUME NEW e \in Used, NEW f \in Fps, Flip(e, f) PROVE CalmInv' /\ UNCHANGED world
  <2>1. UNCHANGED <<world, now, dbVars, evalVars, api, ghostVars>>
    BY <1>5 DEF Flip
  <2> QED
    BY <1>3, <2>1, CalmFrame
<1>6. CASE Restart
  <2>1. /\ UNCHANGED <<world, now>> /\ epc' = "idle" /\ erules' = {} /\ eplan' = <<>> /\ api' = <<>>
        /\ rule' = NewRules /\ row' = NewStates /\ history' = NewHistory
        /\ mailed' = AllInstances("none") /\ lastFired' = AllInstances(None)
        /\ seen' = AllInstances(None)
    BY <1>6 DEF Restart, ForgetEval
  <2>2. TablesInv'
    BY <2>1 DEF TablesInv, NoRuleRequest, RuleSettled, Settled, Kept, Exists, Active, NewStates,
      NewHistory, AllInstances, NoRow
  <2>3. RulesInv' /\ PlanInv'
    BY <2>1 DEF RulesInv, PlanInv
  <2>4. ASSUME NEW y \in Instances PROVE InstanceInv(y)'
    <3>1. row'[y] = NoRow /\ mailed'[y] = "none" /\ lastFired'[y] = None /\ seen'[y] = None /\ now' \in Nat
      BY <2>1 DEF NewStates, AllInstances, TypeInv, TypeOK
    <3> QED
      BY <2>1, <3>1, BlankInstance
  <2> QED
    BY <2>1, <2>2, <2>3, <2>4 DEF CalmInv
<1>7. CASE UNCHANGED vars
  <2>1. UNCHANGED <<world, now, dbVars, evalVars, api, ghostVars>>
    BY <1>7 DEF vars
  <2> QED
    BY <1>3, <2>1, CalmFrame
<1> QED
  BY <1>1, <1>2, <1>4, <1>5, <1>6, <1>7 DEF Next

LEMMA SameWorld == [Next]_vars => UNCHANGED world
<1> SUFFICES ASSUME [Next]_vars PROVE UNCHANGED world
  OBVIOUS
<1>1. CASE EvalNext
  BY <1>1 DEF EvalNext, EvalBegin, EvalRule, EvalEnd, EvalQuery, EvalQueryFail, EvalStates,
    EvalInstance, EvalStep, EvalFail, EvalNextRule
<1>2. CASE ApiNext
  BY <1>2 DEF ApiNext, PostRule, PutRule, DeleteRequest, Acknowledge, Request, ApiStep, ApiFail
<1>3. CASE Clock \/ Restart \/ (\E e \in Used, f \in Fps : Flip(e, f)) \/ UNCHANGED vars
  BY <1>3 DEF Clock, Restart, Flip, vars
<1> QED
  BY <1>1, <1>2, <1>3 DEF Next

LEMMA CalmAlways == Spec => [](Calm => CalmInv)
<1>1. TypeInv /\ (Calm => CalmInv) /\ [Next]_vars => (Calm => CalmInv)'
  <2> SUFFICES ASSUME TypeInv, Calm => CalmInv, [Next]_vars, Calm' PROVE CalmInv'
    OBVIOUS
  <2>1. Calm
    BY SameWorld DEF Calm
  <2> QED
    BY <2>1, CalmStep
<1> QED
  BY <1>1, CalmInit, AlertsTypes, PTL DEF Spec

\* Whatever fails, overlaps or restarts, a pending row says since when and a silence comes
\* with an acknowledgement; without faults and overlap, at rest, every row and history
\* belongs to a rule that is there, and an active row to its current expression.
THEOREM RowsAreRight == Spec => []RowsRight
<1>1. TypeInv /\ (Calm => CalmInv) => RowsRight
  <2> SUFFICES ASSUME TypeInv, Calm => CalmInv, NEW x \in Instances
               PROVE  /\ row[x].status = "pending" => row[x].since # None
                      /\ row[x].silence # None => row[x].ack
                      /\ Calm /\ AtRest =>
                           /\ Exists(x) \/ history[x[1]] # {} => rule[x[1]].phase = "live"
                           /\ Active(x).status # "none" => row[x].expr = rule[x[1]].expr
    BY DEF RowsRight
  <2>1. row[x] \in GoodRows /\ x[1] \in RuleIds
    BY DEF TypeInv, Instances
  <2>2. (row[x].status = "pending" => row[x].since # None) /\ (row[x].silence # None => row[x].ack)
    BY <2>1 DEF GoodRows
  <2>3. Calm /\ AtRest => RuleSettled(x[1]) /\ Kept(x[1])
    BY <2>1, BusyTables DEF AtRest, CalmInv
  <2> QED
    BY <2>2, <2>3 DEF RuleSettled, Settled, Kept
<1> QED
  BY <1>1, AlertsTypes, CalmAlways, PTL

\* Without faults and overlap, an acknowledgement lets through one firing notification at
\* most, the one that was decided before it took effect.
THEOREM AcksAreRespected == Spec => []AckRespected
<1>1. TypeInv /\ (Calm => CalmInv) => AckRespected
  <2> SUFFICES ASSUME TypeInv, CalmInv, NEW x \in Instances, row[x].ack PROVE sinceAck[x] <= 1
    BY DEF AckRespected
  <2>1. sinceAck[x] # 0 => sinceAck[x] = 1
    BY DEF CalmInv, InstanceInv, AckInv
  <2> QED
    BY <2>1
<1> QED
  BY <1>1, AlertsTypes, CalmAlways, PTL

\* What the evaluator is about to do says where its plan is.
LEMMA PlanAt ==
  ASSUME TypeInv, CalmInv, eplan # <<>>, NEW x \in Instances, Head(eplan).x = x
  PROVE  /\ Stage(x) /\ epc = "instances"
         /\ Head(eplan) = N(x) => Due(x)
         /\ Head(eplan) = M(x, "recovered") => IsMailed(x)
<1>1. PICK f \in Fps \ etodo : Stage(<<erule.id, f>>)
  BY DEF CalmInv, PlanInv
<1>2. Stage(x)
  BY <1>1, StagePlanned DEF Planned
<1>3. Head(eplan) = N(x) => Due(x)
  BY <1>2, PlanHeads DEF Stage, U, H, N, M, C
<1>4. Head(eplan) = M(x, "recovered") => IsMailed(x)
  BY <1>2, PlanHeads DEF Stage, U, H, N, M, C
<1> QED
  BY <1>2, <1>3, <1>4 DEF CalmInv, PlanInv

\* Without faults and overlap, firing notifications of one incident are the rate limit
\* apart (short by less than a second), the first one comes when the instance has been
\* seen for the rule's duration (less a second), and a recovery is mailed only after one.
THEOREM NotificationsAreDue == Spec => NotifiedWhenDue
<1> DEFINE A == \A x \in Instances :
                  /\ Calm /\ Notifies(x) =>
                       IF mailed[x] = "firing" THEN now - lastFired[x] > RateLimit - Sec
                       ELSE seen[x] # None /\ now - seen[x] > erule.duration - Sec
                  /\ Calm /\ Mails(x, "recovered") => mailed[x] = "firing"
<1>1. TypeInv /\ (Calm => CalmInv) => A
  <2> SUFFICES ASSUME TypeInv, CalmInv, NEW x \in Instances
               PROVE  /\ Notifies(x) =>
                           IF mailed[x] = "firing" THEN now - lastFired[x] > RateLimit - Sec
                           ELSE seen[x] # None /\ now - seen[x] > erule.duration - Sec
                      /\ Mails(x, "recovered") => mailed[x] = "firing"
    OBVIOUS
  <2>1. ASSUME Notifies(x)
        PROVE  IF mailed[x] = "firing" THEN now - lastFired[x] > RateLimit - Sec
               ELSE seen[x] # None /\ now - seen[x] > erule.duration - Sec
    <3>1. eplan # <<>> /\ Head(eplan) = N(x) /\ Head(eplan).x = x
      BY <2>1 DEF Notifies, Does, N
    <3>2. Due(x) /\ epc = "instances"
      BY <3>1, PlanAt
    <3>3. enow <= now
      BY <3>2 DEF CalmInv, InstanceInv, SeenInv
    <3>4. /\ enow \in Int /\ now \in Int /\ lastFired[x] \in Int /\ seen[x] \in Int
          /\ RateLimit \in Int /\ Sec \in Int
      BY DEF TypeInv, TypeOK, Times, None
    <3>5. erule.duration \in Int
      <4>1. erule \in Cases
        BY <3>2 DEF TypeInv
      <4>2. erule.duration \in Nat
        BY <4>1 DEF Cases
      <4> QED
        BY <4>2
    <3>6. CASE mailed[x] = "firing"
      BY <3>2, <3>3, <3>4, <3>6 DEF Due
    <3>7. CASE mailed[x] # "firing"
      BY <3>2, <3>3, <3>4, <3>5, <3>7 DEF Due
    <3> QED
      BY <3>6, <3>7
  <2>2. ASSUME Mails(x, "recovered") PROVE mailed[x] = "firing"
    <3>1. eplan # <<>> /\ Head(eplan) = M(x, "recovered") /\ Head(eplan).x = x
      BY <2>2 DEF Mails, Does, M
    <3> QED
      BY <3>1, PlanAt DEF IsMailed
  <2> QED
    BY <2>1, <2>2
<1>2. TypeInv /\ (Calm => CalmInv) => [A]_vars
  BY <1>1
<1> HIDE DEF A
<1>3. Spec => [][A]_vars
  BY <1>2, AlertsTypes, CalmAlways, PTL
<1> QED
  BY <1>3 DEF A, NotifiedWhenDue
=============================================================================
