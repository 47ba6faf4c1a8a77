-------------------------- MODULE AtProtocolProofs --------------------------
(***************************************************************************)
(* The pool of test/peq_test.cpp is never misused and none of the fatal    *)
(* errors of its callbacks is reached, whatever the delays and however     *)
(* many transaction objects there are.                                     *)
(*                                                                         *)
(* The inductive invariant gives every transaction one stage of its life,  *)
(* from which its place, its references, the flags of both sides and the   *)
(* length of the pipeline follow.                                          *)
(***************************************************************************)
EXTENDS AtProtocol, Lemmas

Tgt == ToSet(m_peq["target"])
Ini == ToSet(m_peq["initiator"])

TgtEvent == [trans : Trans, phase : {"BEGIN_REQ", "internal", "END_RESP"},
             delay : Nat, delta : BOOLEAN]
IniEvent == [trans : Trans, phase : {"END_REQ", "BEGIN_RESP"},
             delay : Nat, delta : BOOLEAN]

TypeOK ==
  /\ thread \in {"idle", "blocked", "notified"}
  /\ request \in Trans \cup {None} /\ request_in_progress \in Trans \cup {None}
  /\ next_response_pending \in Trans \cup {None}
  /\ end_req_pending \in Trans \cup {None}
  /\ n_trans \in Nat /\ response_in_progress \in BOOLEAN
  /\ free_list \in Seq(Trans) /\ created \in 0 .. MaxTrans
  /\ ref_count \in [Trans -> Nat]

\* A queue holds at most one event of a transaction and a phase.
Keyed(S) == \A e, f \in S : e.trans = f.trans /\ e.phase = f.phase => e = f
Holds(S, t, p) == \E e \in S : e.trans = t /\ e.phase = p

Queued ==
  /\ m_peq = [side \in {"initiator", "target"} |-> m_peq[side]]
  /\ m_peq["target"] \in Seq(TgtEvent) /\ IsInjective(m_peq["target"])
  /\ m_peq["initiator"] \in Seq(IniEvent) /\ IsInjective(m_peq["initiator"])
  /\ Keyed(Tgt) /\ Keyed(Ini)

Stage == {"free", "held", "req", "deferred", "work", "wait", "resp", "done"}
Answered == {"resp", "done"}
Pipelined == {"work", "wait"} \cup Answered

Placed(stage) == \A t \in Trans :
  /\ stage[t] = "held" <=> request = t
  /\ stage[t] = "req" <=> Holds(Tgt, t, "BEGIN_REQ")
  /\ stage[t] = "deferred" <=> end_req_pending = t
  /\ stage[t] = "work" <=> Holds(Tgt, t, "internal")
  /\ stage[t] = "wait" <=> next_response_pending = t
  /\ stage[t] = "resp" <=> Holds(Ini, t, "BEGIN_RESP")
  /\ stage[t] = "done" <=> Holds(Tgt, t, "END_RESP")

Counted(stage) == \A t \in Trans :
  ref_count[t] = IF stage[t] = "free" THEN 0
                 ELSE IF stage[t] \in {"held", "req", "done"} THEN 1 ELSE 2

\* One request is under way until its END_REQ has arrived.
Requested(stage) ==
  /\ \A t \in Trans : stage[t] \in {"req", "deferred"} => request_in_progress = t
  /\ \A t \in Trans : Holds(Ini, t, "END_REQ") =>
       request_in_progress = t /\ stage[t] \in {"work", "wait", "resp"}
  /\ request_in_progress # None =>
       \/ stage[request_in_progress] \in {"req", "deferred"}
       \/ Holds(Ini, request_in_progress, "END_REQ")
  /\ thread = "idle" <=> request = None
  /\ thread = "notified" => request_in_progress = None

\* One response is under way until its END_RESP has arrived.
Responded(stage) ==
  /\ \A t, u \in Trans : stage[t] \in Answered /\ stage[u] \in Answered => t = u
  /\ response_in_progress <=> \E t \in Trans : stage[t] \in Answered
  /\ next_response_pending # None => response_in_progress

InPipeline(stage) == {t \in Trans : stage[t] \in Pipelined}

Bounded(stage) ==
  /\ n_trans = Cardinality(InPipeline(stage)) /\ n_trans <= 2
  /\ end_req_pending # None => n_trans = 2

\* END_REQ is due no later than the internal event notified with it, so that a
\* BEGIN_RESP that is due finds no END_REQ of its own transaction.
Before(e, f) == e.delay <= f.delay /\ (e.delta /\ f.delay = 0 => f.delta)

Timely(stage) ==
  /\ \A e \in Tgt \cup Ini : e.delta => e.delay = 0
  /\ \A e \in Ini : e.phase = "END_REQ" =>
       /\ \A f \in Tgt : f.phase = "internal" /\ f.trans = e.trans => Before(e, f)
       /\ stage[e.trans] \in {"wait", "resp"} => IsDue(e)
       /\ \A f \in Ini : f.phase = "BEGIN_RESP" /\ f.trans = e.trans => f.delta

Pooled(stage) ==
  /\ IsInjective(free_list)
  /\ ToSet(free_list) = {t \in 1 .. created : stage[t] = "free"}
  /\ \A t \in Trans : t > created => stage[t] = "free"
  /\ created <= 4

Good(stage) ==
  /\ stage \in [Trans -> Stage]
  /\ TypeOK /\ Queued
  /\ Placed(stage) /\ Counted(stage) /\ Requested(stage) /\ Responded(stage)
  /\ Bounded(stage) /\ Timely(stage) /\ Pooled(stage)

IInv == \E stage \in [Trans -> Stage] : Good(stage)

-----------------------------------------------------------------------------
(* The queues.                                                             *)

\* Taking the only event of its key off a queue.
LEMMA HoldsWithout ==
  ASSUME NEW S, NEW e \in S, Keyed(S)
  PROVE  /\ Keyed(S \ {e})
         /\ \A t, p : Holds(S \ {e}, t, p) <=>
                        Holds(S, t, p) /\ ~ (t = e.trans /\ p = e.phase)
<1>1. Keyed(S \ {e})
  BY DEF Keyed
<1>2. ASSUME NEW t, NEW p
      PROVE  Holds(S \ {e}, t, p) <=> Holds(S, t, p) /\ ~ (t = e.trans /\ p = e.phase)
  BY DEF Keyed, Holds
<1> QED
  BY <1>1, <1>2

\* Notifying an event that the queue does not hold yet.
LEMMA HoldsWith ==
  ASSUME NEW S, NEW e, ~ Holds(S, e.trans, e.phase), Keyed(S)
  PROVE  /\ Keyed(S \cup {e}) /\ e \notin S
         /\ \A t, p : Holds(S \cup {e}, t, p) <=>
                        Holds(S, t, p) \/ (t = e.trans /\ p = e.phase)
<1>1. Keyed(S \cup {e}) /\ e \notin S
  BY DEF Keyed, Holds
<1>2. ASSUME NEW t, NEW p
      PROVE  Holds(S \cup {e}, t, p) <=> Holds(S, t, p) \/ (t = e.trans /\ p = e.phase)
  BY DEF Holds
<1> QED
  BY <1>1, <1>2

\* The members of an event, and the queue it belongs to.
LEMMA EventIs ==
  ASSUME NEW t \in Trans, NEW phase, NEW d \in Nat
  PROVE  LET e == Event(t, phase, d) IN
         /\ e.trans = t /\ e.phase = phase /\ e.delay = d /\ e.delta = (d = 0)
         /\ phase \in {"BEGIN_REQ", "internal", "END_RESP"} => e \in TgtEvent
         /\ phase \in {"END_REQ", "BEGIN_RESP"} => e \in IniEvent
BY DEF Event, TgtEvent, IniEvent

\* The events F for the target and G for the initiator that a notification
\* of the acceptance of a and of the response to r consists of.
Notified(F, G, a, r) ==
  /\ \A f \in F \cup G : f.delta => f.delay = 0
  /\ \A f \in F : f.phase = "internal" /\ f.trans = a
  /\ \A g \in G :
       \/ g.phase = "BEGIN_RESP" /\ g.trans = r /\ g.delta
       \/ /\ g.phase = "END_REQ" /\ g.trans = a
          /\ \A f \in F : Before(g, f)

\* What Notify makes of the two queues.
LEMMA NotifyEffect ==
  ASSUME Queued, NEW k \in DOMAIN m_peq["target"],
         NEW a \in Trans \cup {None}, NEW r \in Trans \cup {None},
         a # None => ~ Holds(Tgt, a, "internal") /\ ~ Holds(Ini, a, "END_REQ"),
         r # None => ~ Holds(Ini, r, "BEGIN_RESP"),
         Notify(k, a, r)
  PROVE  /\ Queued'
         /\ \E F, G :
              /\ Tgt' = (Tgt \ {m_peq["target"][k]}) \cup F /\ Ini' = Ini \cup G
              /\ Notified(F, G, a, r)
         /\ \A t, p : Holds(Tgt', t, p) <=>
              \/ /\ Holds(Tgt, t, p)
                 /\ ~ (t = m_peq["target"][k].trans /\ p = m_peq["target"][k].phase)
              \/ a # None /\ t = a /\ p = "internal"
         /\ \A t, p : Holds(Ini', t, p) <=>
              \/ Holds(Ini, t, p)
              \/ r # None /\ t = r /\ p = "BEGIN_RESP"
              \/ a # None /\ t = a /\ p = "END_REQ"
<1> DEFINE tq == m_peq["target"]
           iq == m_peq["initiator"]
           left == RemoveAt(tq, k)
<1>types. /\ tq \in Seq(TgtEvent) /\ IsInjective(tq) /\ Keyed(Tgt) /\ Tgt = ToSet(tq)
          /\ iq \in Seq(IniEvent) /\ IsInjective(iq) /\ Keyed(Ini) /\ Ini = ToSet(iq)
          /\ m_peq = [side \in {"initiator", "target"} |-> m_peq[side]]
          /\ tq[k] \in Tgt
  BY DEF Queued, Tgt, Ini, ToSet
<1>0. PICK accept, latency \in IF a = None THEN {0} ELSE rand_ps :
        m_peq' = [m_peq EXCEPT
          !["target"] = left \o Latency(a, accept + latency),
          !["initiator"] = iq \o Response(r) \o Acceptance(a, accept)]
  BY Zenon DEF Notify
<1>1. accept \in Nat /\ latency \in Nat
  BY BoundsAssumption DEF rand_ps
<1>2. /\ m_peq' = [side \in {"initiator", "target"} |-> m_peq'[side]]
      /\ m_peq'["target"] = left \o Latency(a, accept + latency)
      /\ m_peq'["initiator"] = iq \o Response(r) \o Acceptance(a, accept)
  <2>1. DOMAIN m_peq = {"initiator", "target"}
    BY <1>types, Zenon
  <2> DEFINE tq2 == left \o Latency(a, accept + latency)
             iq2 == iq \o Response(r) \o Acceptance(a, accept)
  <2> HIDE DEF tq2, iq2
  <2>2. m_peq' = [m_peq EXCEPT !["target"] = tq2, !["initiator"] = iq2]
    BY <1>0 DEF tq2, iq2
  <2>3. m_peq'["target"] = tq2 /\ m_peq'["initiator"] = iq2
    BY <2>1, <2>2
  <2>4. m_peq' = [side \in {"initiator", "target"} |-> m_peq'[side]]
    BY <2>1, <2>2
  <2> QED
    BY <2>3, <2>4 DEF tq2, iq2
<1>3. /\ left \in Seq(TgtEvent) /\ IsInjective(left) /\ ToSet(left) = Tgt \ {tq[k]}
      /\ Keyed(ToSet(left))
      /\ \A t, p : Holds(ToSet(left), t, p) => Holds(Tgt, t, p)
  <2>1. left \in Seq(TgtEvent) /\ IsInjective(left) /\ ToSet(left) = Tgt \ {tq[k]}
    BY <1>types, ToSetRemoveAt
  <2>2. /\ Keyed(Tgt \ {tq[k]})
        /\ \A t, p : Holds(Tgt \ {tq[k]}, t, p) => Holds(Tgt, t, p)
    BY <1>types, HoldsWithout
  <2> QED
    BY <2>1, <2>2
<1> DEFINE T2 == (Tgt \ {tq[k]}) \cup
             IF a = None THEN {} ELSE {Event(a, "internal", accept + latency)}
<1>4. /\ m_peq'["target"] \in Seq(TgtEvent) /\ IsInjective(m_peq'["target"])
      /\ Keyed(ToSet(m_peq'["target"])) /\ ToSet(m_peq'["target"]) = T2
  <2>1. CASE a = None
    <3>1. Latency(a, accept + latency) = << >>
      BY <2>1 DEF Latency
    <3>2. m_peq'["target"] = left
      BY <1>2, <1>3, <3>1
    <3>3. T2 = Tgt \ {tq[k]}
      BY <2>1
    <3> QED
      BY <1>3, <3>2, <3>3
  <2>2. CASE a # None
    <3> DEFINE e == Event(a, "internal", accept + latency)
    <3>1. /\ e \in TgtEvent /\ e.trans = a /\ e.phase = "internal"
          /\ a \in Trans /\ accept + latency \in Nat
      BY <1>1, <2>2, EventIs
    <3>2. m_peq'["target"] = left \o <<e>>
      BY <1>2, <2>2 DEF Latency
    <3> HIDE DEF e
    <3>3. ~ Holds(ToSet(left), e.trans, e.phase)
      BY <1>3, <2>2, <3>1
    <3>4. Keyed(ToSet(left) \cup {e}) /\ e \notin ToSet(left)
      <4>1. PICK S, d : S = ToSet(left) /\ d = e
        OBVIOUS
      <4>2. Keyed(S) /\ ~ Holds(S, d.trans, d.phase)
        BY <1>3, <3>3, <4>1, Zenon
      <4>3. Keyed(S \cup {d}) /\ d \notin S
        BY <4>2, HoldsWith
      <4> QED
        BY <4>1, <4>3, Zenon
    <3>5. /\ m_peq'["target"] = Append(left, e)
          /\ Append(left, e) \in Seq(TgtEvent)
          /\ ToSet(Append(left, e)) = ToSet(left) \cup {e}
      BY <1>3, <3>1, <3>2, ToSetAppend
    <3>6. IsInjective(Append(left, e))
      BY <1>3, <3>1, <3>4, InjectiveAppend
    <3>7. T2 = ToSet(left) \cup {e}
      BY <1>3, <2>2 DEF e
    <3> QED
      BY <3>4, <3>5, <3>6, <3>7
  <2> QED
    BY <2>1, <2>2
<1> DEFINE mid == iq \o Response(r)
           M2 == Ini \cup (IF r = None THEN {} ELSE {Event(r, "BEGIN_RESP", 0)})
<1>5. /\ mid \in Seq(IniEvent) /\ IsInjective(mid) /\ Keyed(ToSet(mid))
      /\ ToSet(mid) = M2 
      /\ a # None => ~ Holds(ToSet(mid), a, "END_REQ")
  <2>1. CASE r = None
    <3>1. Response(r) = << >>
      BY <2>1 DEF Response
    <3>2. mid = iq
      BY <1>types, <3>1
    <3>3. M2 = Ini
      BY <2>1
    <3> QED
      BY <1>types, <3>2, <3>3
  <2>2. CASE r # None
    <3> DEFINE e == Event(r, "BEGIN_RESP", 0)
    <3>1. /\ e \in IniEvent /\ e.trans = r /\ e.phase = "BEGIN_RESP"
          /\ r \in Trans
      BY <1>1, <2>2, EventIs
    <3>2. mid = iq \o <<e>>
      BY <2>2 DEF Response
    <3>3. M2 = Ini \cup {e}
      BY <2>2
    <3> HIDE DEF e, mid, M2
    <3>4. ~ Holds(ToSet(iq), e.trans, e.phase)
      BY <1>types, <2>2, <3>1
    <3>5. /\ Keyed(ToSet(iq) \cup {e}) /\ e \notin ToSet(iq)
          /\ \A t, p : Holds(ToSet(iq) \cup {e}, t, p) <=>
                         Holds(ToSet(iq), t, p) \/ (t = e.trans /\ p = e.phase)
      BY <1>types, <3>4, HoldsWith
    <3>6. /\ mid = Append(iq, e)
          /\ Append(iq, e) \in Seq(IniEvent)
          /\ ToSet(Append(iq, e)) = ToSet(iq) \cup {e}
      BY <1>types, <3>1, <3>2, ToSetAppend
    <3>7. IsInjective(Append(iq, e))
      BY <1>types, <3>1, <3>5, InjectiveAppend
    <3>8. a # None => ~ Holds(ToSet(iq) \cup {e}, a, "END_REQ")
      <4>1. e.phase # "END_REQ"
        BY <3>1
      <4> QED
        BY <1>types, <4>1, <3>5
    <3>9. ToSet(mid) = M2 /\ ToSet(mid) = ToSet(iq) \cup {e} /\ mid = Append(iq, e)
      BY <1>types, <3>3, <3>6
    <3> QED
      BY <3>5, <3>6, <3>7, <3>8, <3>9, Zenon
  <2> QED
    BY <2>1, <2>2
<1> HIDE DEF mid, M2
<1> DEFINE I2 == M2 \cup (IF a = None THEN {} ELSE {Event(a, "END_REQ", accept)})
<1>6. /\ m_peq'["initiator"] \in Seq(IniEvent) /\ IsInjective(m_peq'["initiator"])
      /\ Keyed(ToSet(m_peq'["initiator"])) /\ ToSet(m_peq'["initiator"]) = I2
  <2>0. m_peq'["initiator"] = mid \o Acceptance(a, accept)
    BY <1>2 DEF mid
  <2>1. CASE a = None
    <3>1. Acceptance(a, accept) = << >>
      BY <2>1 DEF Acceptance
    <3>2. m_peq'["initiator"] = mid
      BY <2>0, <1>5, <3>1
    <3>3. I2 = M2
      BY <2>1
    <3> QED
      BY <1>5, <3>2, <3>3
  <2>2. CASE a # None
    <3> DEFINE e == Event(a, "END_REQ", accept)
    <3>1. /\ e \in IniEvent /\ e.trans = a /\ e.phase = "END_REQ"
          /\ a \in Trans
      BY <1>1, <2>2, EventIs
    <3>2. m_peq'["initiator"] = mid \o <<e>>
      BY <2>0, <2>2 DEF Acceptance
    <3>3. I2 = M2 \cup {e}
      BY <2>2
    <3> HIDE DEF e, I2
    <3>4. ~ Holds(ToSet(mid), e.trans, e.phase)
      BY <1>5, <2>2, <3>1
    <3>5. Keyed(ToSet(mid) \cup {e}) /\ e \notin ToSet(mid)
      BY <1>5, <3>4, HoldsWith
    <3>6. /\ m_peq'["initiator"] = Append(mid, e)
          /\ Append(mid, e) \in Seq(IniEvent)
          /\ ToSet(Append(mid, e)) = ToSet(mid) \cup {e}
      BY <1>5, <3>1, <3>2, ToSetAppend
    <3>7. IsInjective(Append(mid, e))
      BY <1>5, <3>1, <3>5, InjectiveAppend
    <3> QED
      BY <1>5, <3>3, <3>5, <3>6, <3>7
  <2> QED
    BY <2>1, <2>2
<1>7. Queued'
  BY <1>2, <1>4, <1>6 DEF Queued, Tgt, Ini
<1>8. Tgt' = T2 /\ Ini' = I2
  BY <1>4, <1>6 DEF Tgt, Ini
<1>9. Ini' = Ini \cup (IF r = None THEN {} ELSE {Event(r, "BEGIN_RESP", 0)})
                 \cup (IF a = None THEN {} ELSE {Event(a, "END_REQ", accept)})
  BY <1>8 DEF M2
<1>10. ASSUME NEW t, NEW p
       PROVE  Holds(Tgt', t, p) <=>
                \/ Holds(Tgt, t, p) /\ ~ (t = tq[k].trans /\ p = tq[k].phase)
                \/ a # None /\ t = a /\ p = "internal"
  <2>1. Holds(Tgt \ {tq[k]}, t, p) <=>
          Holds(Tgt, t, p) /\ ~ (t = tq[k].trans /\ p = tq[k].phase)
    BY <1>types, HoldsWithout
  <2>2. CASE a = None
    <3>1. Tgt' = Tgt \ {tq[k]}
      BY <1>8, <2>2
    <3> QED
      BY <2>1, <2>2, <3>1
  <2>3. CASE a # None
    <3>1. Tgt' = (Tgt \ {tq[k]}) \cup {Event(a, "internal", accept + latency)}
      BY <1>8, <2>3
    <3>2. Event(a, "internal", accept + latency).trans = a
          /\ Event(a, "internal", accept + latency).phase = "internal"
      BY DEF Event
    <3>3. Holds(Tgt', t, p) <=> Holds(Tgt \ {tq[k]}, t, p) \/ (t = a /\ p = "internal")
      BY <3>1, <3>2 DEF Holds
    <3> QED
      BY <2>1, <2>3, <3>3
  <2> QED
    BY <2>2, <2>3
<1>11. ASSUME NEW t, NEW p
       PROVE  Holds(Ini', t, p) <=>
                \/ Holds(Ini, t, p)
                \/ r # None /\ t = r /\ p = "BEGIN_RESP"
                \/ a # None /\ t = a /\ p = "END_REQ"
  <2> DEFINE A == IF r = None THEN {} ELSE {Event(r, "BEGIN_RESP", 0)}
             B == IF a = None THEN {} ELSE {Event(a, "END_REQ", accept)}
  <2>1. Holds(A, t, p) <=> r # None /\ t = r /\ p = "BEGIN_RESP"
    <3>1. /\ Event(r, "BEGIN_RESP", 0).trans = r
          /\ Event(r, "BEGIN_RESP", 0).phase = "BEGIN_RESP"
      BY DEF Event
    <3>2. A = IF r = None THEN {} ELSE {Event(r, "BEGIN_RESP", 0)}
      OBVIOUS
    <3> HIDE DEF A
    <3> QED
      BY <3>1, <3>2 DEF Holds
  <2>2. Holds(B, t, p) <=> a # None /\ t = a /\ p = "END_REQ"
    <3>1. /\ Event(a, "END_REQ", accept).trans = a
          /\ Event(a, "END_REQ", accept).phase = "END_REQ"
      BY DEF Event
    <3>2. B = IF a = None THEN {} ELSE {Event(a, "END_REQ", accept)}
      OBVIOUS
    <3> HIDE DEF B
    <3> QED
      BY <3>1, <3>2 DEF Holds
  <2> HIDE DEF A, B
  <2>3. Ini' = Ini \cup A \cup B
    BY <1>9 DEF A, B
  <2>4. Holds(Ini', t, p) <=> Holds(Ini, t, p) \/ Holds(A, t, p) \/ Holds(B, t, p)
    BY <2>3 DEF Holds
  <2> QED
    BY <2>1, <2>2, <2>4
<1> DEFINE F == IF a = None THEN {} ELSE {Event(a, "internal", accept + latency)}
           GR == IF r = None THEN {} ELSE {Event(r, "BEGIN_RESP", 0)}
           GA == IF a = None THEN {} ELSE {Event(a, "END_REQ", accept)}
<1>12. Tgt' = (Tgt \ {tq[k]}) \cup F /\ Ini' = Ini \cup (GR \cup GA)
  BY <1>8, <1>9
<1>13. Notified(F, GR \cup GA, a, r)
  <2>1. \A f \in F : /\ f.phase = "internal" /\ f.trans = a
                     /\ f.delay = accept + latency /\ f.delta = (accept + latency = 0)
    <3>1. PICK d : d = accept + latency
      OBVIOUS
    <3>2. F = IF a = None THEN {} ELSE {Event(a, "internal", d)}
      BY <3>1
    <3> HIDE DEF F
    <3>3. \A f \in F : /\ f.phase = "internal" /\ f.trans = a
                       /\ f.delay = d /\ f.delta = (d = 0)
      BY <3>2 DEF Event
    <3> QED
      BY <3>1, <3>3
  <2>2. \A g \in GR : /\ g.phase = "BEGIN_RESP" /\ g.trans = r
                      /\ g.delay = 0 /\ g.delta
    <3>1. PICK d : d = 0
      OBVIOUS
    <3>2. GR = IF r = None THEN {} ELSE {Event(r, "BEGIN_RESP", d)}
      BY <3>1
    <3> HIDE DEF GR
    <3>3. \A g \in GR : /\ g.phase = "BEGIN_RESP" /\ g.trans = r
                        /\ g.delay = d /\ g.delta = (d = 0)
      BY <3>2 DEF Event
    <3> QED
      BY <3>1, <3>3
  <2>3. \A g \in GA : /\ g.phase = "END_REQ" /\ g.trans = a
                      /\ g.delay = accept /\ g.delta = (accept = 0)
    BY DEF Event
  <2> HIDE DEF F, GR, GA
  <2>4. \A g \in GA, f \in F : Before(g, f)
    BY <1>1, <2>1, <2>3 DEF Before
  <2> QED
    BY <2>1, <2>2, <2>3, <2>4 DEF Notified
<1> HIDE DEF F, GR, GA
<1> QED
  BY <1>7, <1>10, <1>11, <1>12, <1>13

\* The events stay in time: an accepted transaction is not answered yet, and
\* only one whose END_REQ is due begins to wait for its response or gets it.
LEMMA NotifyTimely ==
  ASSUME Queued, Queued', NEW stage, NEW s, Timely(stage),
         NEW e, NEW a, NEW r, NEW F, NEW G, Notified(F, G, a, r),
         Tgt' = (Tgt \ {e}) \cup F, Ini' = Ini \cup G,
         a \in Trans => /\ ~ Holds(Ini, a, "BEGIN_RESP") /\ ~ Holds(Ini, a, "END_REQ")
                        /\ ~ Holds(Tgt, a, "internal")
                        /\ s[a] \notin {"wait", "resp"},
         \A u \in Trans : s[u] \in {"wait", "resp"} =>
           \/ stage[u] \in {"wait", "resp"}
           \/ \A g \in Ini : g.phase = "END_REQ" /\ g.trans = u => IsDue(g)
  PROVE  Timely(s)'
<1>1. \A f \in Tgt' \cup Ini' : f.delta => f.delay = 0
  BY DEF Timely, Notified
<1>2. ASSUME NEW g \in Ini', g.phase = "END_REQ"
      PROVE  /\ \A f \in Tgt' : f.phase = "internal" /\ f.trans = g.trans => Before(g, f)
             /\ s[g.trans] \in {"wait", "resp"} => IsDue(g)
             /\ \A f \in Ini' : f.phase = "BEGIN_RESP" /\ f.trans = g.trans => f.delta
  <2>0. g.trans \in Trans /\ g \in IniEvent
    <3>1. g \in IniEvent
      BY DEF Queued, Ini, ToSet
    <3> QED
      BY <3>1 DEF IniEvent
  <2>1. CASE g \in Ini
    BY <1>2, <2>0, <2>1 DEF Timely, Notified, Holds
  <2>2. CASE g \in G
    BY <1>2, <2>0, <2>2 DEF Notified, Holds
  <2> QED
    BY <2>1, <2>2
<1> QED
  BY <1>1, <1>2 DEF Timely
-----------------------------------------------------------------------------
(* The target.                                                             *)

\* A callback is given an event of its queue that is due.
LEMMA FiresEvent ==
  ASSUME Queued, NEW side \in {"initiator", "target"}, NEW phase, NEW k,
         Fires(side, phase, k)
  PROVE  /\ k \in DOMAIN m_peq[side]
         /\ m_peq[side][k] \in ToSet(m_peq[side])
         /\ m_peq[side][k].trans \in Trans /\ m_peq[side][k].phase = phase
         /\ IsDue(m_peq[side][k])
         /\ Holds(ToSet(m_peq[side]), m_peq[side][k].trans, phase)
<1>1. /\ k \in DOMAIN m_peq[side] /\ m_peq[side][k].phase = phase
      /\ IsDue(m_peq[side][k])
  BY DEF Fires
<1>2. m_peq[side] \in Seq(TgtEvent) \/ m_peq[side] \in Seq(IniEvent)
  BY DEF Queued
<1>3. m_peq[side][k].trans \in Trans
  <2>1. m_peq[side][k] \in TgtEvent \/ m_peq[side][k] \in IniEvent
    BY <1>1, <1>2
  <2> QED
    BY <2>1 DEF TgtEvent, IniEvent
<1>4. m_peq[side][k] \in ToSet(m_peq[side])
  BY <1>1 DEF ToSet
<1> QED
  BY <1>1, <1>3, <1>4 DEF Holds

\* The transactions in the pipeline are finitely many.
LEMMA PipelineFinite ==
  ASSUME NEW stage
  PROVE  IsFiniteSet(InPipeline(stage)) /\ Cardinality(InPipeline(stage)) \in Nat
<1>1. IsFiniteSet(Trans)
  BY BoundsAssumption, FS_Interval DEF Trans
<1>2. InPipeline(stage) \in SUBSET Trans
  BY DEF InPipeline
<1> QED
  BY <1>1, <1>2, FS_Subset, FS_CardinalityType

\* The events of the two queues.
LEMMA EventTypes ==
  ASSUME Queued
  PROVE  /\ \A e \in Tgt : e \in TgtEvent /\ e.trans \in Trans
         /\ \A e \in Ini : e \in IniEvent /\ e.trans \in Trans
<1>1. ASSUME NEW e \in Tgt  PROVE e \in TgtEvent
  BY DEF Queued, Tgt, ToSet
<1>2. ASSUME NEW e \in Ini  PROVE e \in IniEvent
  BY DEF Queued, Ini, ToSet
<1> QED
  BY <1>1, <1>2 DEF TgtEvent, IniEvent

\* A step that leaves the pool alone and frees nothing.
LEMMA PoolUnchanged ==
  ASSUME NEW stage, NEW s, Pooled(stage), TypeOK,
         free_list' = free_list, created' = created,
         \A u \in Trans : s[u] = "free" <=> stage[u] = "free"
  PROVE  Pooled(s)'
<1>1. \A u \in 1 .. created : u \in Trans
  BY BoundsAssumption DEF TypeOK, Trans
<1>2. {u \in 1 .. created : stage[u] = "free"} = {u \in 1 .. created : s[u] = "free"}
  BY <1>1
<1>3. /\ IsInjective(free_list)' /\ ToSet(free_list)' = ToSet(free_list)
      /\ created' <= 4
  BY Zenon DEF Pooled
<1>4. ToSet(free_list') = {u \in 1 .. created' : s[u] = "free"}
  BY <1>2, <1>3 DEF Pooled
<1>5. \A u \in Trans : u > created' => s[u] = "free"
  BY DEF Pooled
<1> QED
  BY <1>3, <1>4, <1>5 DEF Pooled


\* peq_cb() of the target, BEGIN_REQ: the request is accepted or deferred.
LEMMA TargetBeginReqGood ==
  ASSUME NEW stage \in [Trans -> Stage], Good(stage), TargetBeginReq
  PROVE  IInv'
<1>inv. /\ TypeOK /\ Queued /\ Placed(stage) /\ Counted(stage) /\ Requested(stage)
        /\ Responded(stage) /\ Bounded(stage) /\ Timely(stage) /\ Pooled(stage)
  BY DEF Good
<1>1. PICK k \in DOMAIN m_peq["target"] :
        /\ Fires("target", "BEGIN_REQ", k)
        /\ TargetAcquire(m_peq["target"][k].trans)
        /\ IF PipelineFull
           THEN /\ end_req_pending' = m_peq["target"][k].trans
                /\ Notify(k, None, None) /\ UNCHANGED n_trans
           ELSE /\ n_trans' = n_trans + 1 /\ Notify(k, m_peq["target"][k].trans, None)
                /\ UNCHANGED end_req_pending
        /\ UNCHANGED <<initiator, response_in_progress, next_response_pending>>
  BY DEF TargetBeginReq
<1>2. PICK e : e = m_peq["target"][k]
  OBVIOUS
<1>3. PICK t : t = e.trans
  OBVIOUS
<1>e. /\ e \in Tgt /\ t \in Trans /\ e.phase = "BEGIN_REQ" /\ stage[t] = "req"
      /\ Holds(Tgt, t, "BEGIN_REQ")
  <2>1. Holds(Tgt, t, "BEGIN_REQ") /\ e \in Tgt /\ t \in Trans /\ e.phase = "BEGIN_REQ"
    BY <1>1, <1>2, <1>3, <1>inv, FiresEvent DEF Tgt
  <2> QED
    BY <2>1, <1>inv DEF Placed
<1>same. /\ thread' = thread /\ request' = request
         /\ request_in_progress' = request_in_progress
         /\ response_in_progress' = response_in_progress
         /\ next_response_pending' = next_response_pending
         /\ free_list' = free_list /\ created' = created
         /\ ref_count' = [ref_count EXCEPT ![t] = @ + 1]
  BY <1>1, <1>2, <1>3 DEF initiator, TargetAcquire, acquire
<1>none. None \notin Trans
  BY DEF None, Trans
<1>rip. /\ request_in_progress = t
        /\ \A u \in Trans : stage[u] # "deferred"
        /\ \A u \in Trans : ~ Holds(Ini, u, "END_REQ")
  BY <1>e, <1>inv DEF Requested
<1>placed. \A u \in Trans : /\ Holds(Tgt, u, "internal") => u # t
                            /\ Holds(Ini, u, "BEGIN_RESP") => u # t
  BY <1>e, <1>inv DEF Placed
<1>4. PICK new \in {"deferred", "work"} : new = IF PipelineFull THEN "deferred" ELSE "work"
  OBVIOUS
<1>5. PICK a \in {t, None} : a = IF PipelineFull THEN None ELSE t
  OBVIOUS
<1>6. PICK none \in {None} : TRUE
  OBVIOUS
<1>7. /\ Notify(k, a, none) /\ none = None
      /\ end_req_pending' = (IF a = None THEN t ELSE end_req_pending)
      /\ n_trans' = (IF a = None THEN n_trans ELSE n_trans + 1)
      /\ new = (IF a = None THEN "deferred" ELSE "work")
      /\ a \in Trans \cup {None} /\ none \in Trans \cup {None}
  BY <1>1, <1>2, <1>3, <1>4, <1>5, <1>6, <1>e, <1>none
<1>8. PICK F, G :
        /\ Queued'
        /\ Tgt' = (Tgt \ {e}) \cup F /\ Ini' = Ini \cup G
        /\ Notified(F, G, a, none)
        /\ \A u, p : Holds(Tgt', u, p) <=>
             \/ Holds(Tgt, u, p) /\ ~ (u = t /\ p = "BEGIN_REQ")
             \/ a # None /\ u = a /\ p = "internal"
        /\ \A u, p : Holds(Ini', u, p) <=>
             Holds(Ini, u, p) \/ (a # None /\ u = a /\ p = "END_REQ")
  <2>1. /\ a # None => ~ Holds(Tgt, a, "internal") /\ ~ Holds(Ini, a, "END_REQ")
        /\ none # None => ~ Holds(Ini, none, "BEGIN_RESP")
    BY <1>e, <1>rip, <1>placed, <1>5, <1>6
  <2> QED
    BY <2>1, <1>inv, <1>1, <1>2, <1>3, <1>e, <1>7, NotifyEffect
<1> DEFINE s == [stage EXCEPT ![t] = new]
<1>s. /\ s \in [Trans -> Stage] /\ s[t] = new
      /\ \A u \in Trans : u # t => s[u] = stage[u]
  BY <1>e, <1>4 DEF Stage
<1> HIDE DEF s
<1>11. TypeOK'
  BY <1>inv, <1>same, <1>e, <1>7 DEF TypeOK
<1>12. Placed(s)'
  <2>1. CASE a = None
    <3>1. end_req_pending' = t /\ new = "deferred"
      BY <1>7, <2>1
    <3>2. /\ \A u, p : Holds(Tgt', u, p) <=>
               Holds(Tgt, u, p) /\ ~ (u = t /\ p = "BEGIN_REQ")
          /\ \A u, p : Holds(Ini', u, p) <=> Holds(Ini, u, p)
      BY <1>8, <2>1
    <3> QED
      BY <1>inv, <1>same, <1>e, <1>none, <1>rip, <1>s, <3>1, <3>2 DEF Placed
  <2>2. CASE a # None
    <3>1. end_req_pending' = end_req_pending /\ new = "work" /\ a = t
      BY <1>5, <1>7, <2>2
    <3>2. /\ \A u, p : Holds(Tgt', u, p) <=>
               \/ Holds(Tgt, u, p) /\ ~ (u = t /\ p = "BEGIN_REQ")
               \/ u = t /\ p = "internal"
          /\ \A u, p : Holds(Ini', u, p) <=> Holds(Ini, u, p) \/ (u = t /\ p = "END_REQ")
      BY <1>8, <2>2, <3>1
    <3> QED
      BY <1>inv, <1>same, <1>e, <1>none, <1>rip, <1>s, <3>1, <3>2 DEF Placed
  <2> QED
    BY <2>1, <2>2
<1>13. Counted(s)'
  BY <1>inv, <1>same, <1>e, <1>4, <1>s DEF Counted, TypeOK
<1>14. Requested(s)'
  BY <1>inv, <1>same, <1>e, <1>none, <1>rip, <1>5, <1>7, <1>8, <1>s DEF Requested
<1>15. Responded(s)'
  BY <1>inv, <1>same, <1>e, <1>4, <1>s DEF Responded, Answered
<1>16. Bounded(s)'
  <2>1. CASE a = None
    <3>1. InPipeline(s) = InPipeline(stage)
      BY <1>e, <1>7, <1>s, <2>1 DEF InPipeline, Pipelined, Answered
    <3>2. n_trans = 2
      BY <1>5, <1>e, <1>none, <2>1 DEF PipelineFull
    <3> QED
      BY <3>1, <3>2, <1>inv, <1>7, <2>1 DEF Bounded
  <2>2. CASE a # None
    <3>1. InPipeline(s) = InPipeline(stage) \cup {t} /\ t \notin InPipeline(stage)
      BY <1>e, <1>7, <1>s, <2>2 DEF InPipeline, Pipelined, Answered
    <3>2. Cardinality(InPipeline(s)) = Cardinality(InPipeline(stage)) + 1
      BY <3>1, PipelineFinite, FS_AddElement
    <3>3. n_trans # 2 /\ n_trans \in Nat
      BY <1>5, <1>inv, <2>2 DEF PipelineFull, TypeOK
    <3>4. end_req_pending = None
      BY <3>3, <1>inv DEF Bounded
    <3> QED
      BY <3>2, <3>3, <3>4, <1>inv, <1>7, <2>2 DEF Bounded
  <2> QED
    BY <2>1, <2>2
<1>17. Timely(s)'
  <2>1. a \in Trans => a = t /\ s[t] = "work"
    BY <1>5, <1>7, <1>none, <1>s
  <2>2. \A u \in Trans : s[u] \in {"wait", "resp"} => stage[u] \in {"wait", "resp"}
    BY <1>4, <1>s
  <2> QED
    BY <1>inv, <1>e, <1>rip, <1>placed, <1>8, <2>1, <2>2, NotifyTimely
<1>18. Pooled(s)'
  BY <1>inv, <1>same, <1>e, <1>4, <1>s, PoolUnchanged
<1> QED
  BY <1>8, <1>s, <1>11, <1>12, <1>13, <1>14, <1>15, <1>16, <1>17, <1>18 DEF IInv, Good

\* peq_cb() of the target, internal event: the response is sent, or waits for the
\* one under way.
LEMMA TargetInternalGood ==
  ASSUME NEW stage \in [Trans -> Stage], Good(stage), TargetInternal
  PROVE  IInv'
<1>inv. /\ TypeOK /\ Queued /\ Placed(stage) /\ Counted(stage) /\ Requested(stage)
        /\ Responded(stage) /\ Bounded(stage) /\ Timely(stage) /\ Pooled(stage)
  BY DEF Good
<1>1. PICK k \in DOMAIN m_peq["target"] :
        /\ Fires("target", "internal", k)
        /\ IF response_in_progress
           THEN /\ next_response_pending = None
                /\ next_response_pending' = m_peq["target"][k].trans
                /\ Notify(k, None, None)
                /\ UNCHANGED response_in_progress
           ELSE /\ response_in_progress' = TRUE
                /\ Notify(k, None, m_peq["target"][k].trans)
                /\ UNCHANGED next_response_pending
        /\ UNCHANGED <<initiator, n_trans, end_req_pending, mm>>
  BY DEF TargetInternal
<1>2. PICK e : e = m_peq["target"][k]
  OBVIOUS
<1>3. PICK t : t = e.trans
  OBVIOUS
<1>e. /\ e \in Tgt /\ t \in Trans /\ e.phase = "internal" /\ stage[t] = "work"
      /\ IsDue(e)
  <2>1. /\ Holds(Tgt, t, "internal") /\ e \in Tgt /\ t \in Trans
        /\ e.phase = "internal" /\ IsDue(e)
    BY <1>1, <1>2, <1>3, <1>inv, FiresEvent DEF Tgt
  <2> QED
    BY <2>1, <1>inv DEF Placed
<1>same. /\ thread' = thread /\ request' = request
         /\ request_in_progress' = request_in_progress
         /\ n_trans' = n_trans /\ end_req_pending' = end_req_pending
         /\ free_list' = free_list /\ created' = created /\ ref_count' = ref_count
  BY <1>1 DEF initiator, mm
<1>none. None \notin Trans
  BY DEF None, Trans
<1>4. PICK r \in {t, None} : r = IF response_in_progress THEN None ELSE t
  OBVIOUS
<1>5. PICK none \in {None} : TRUE
  OBVIOUS
<1>6. PICK new \in {"wait", "resp"} : new = IF r = None THEN "wait" ELSE "resp"
  OBVIOUS
<1>7. /\ Notify(k, none, r) /\ none = None
      /\ response_in_progress' = TRUE
      /\ r = None => /\ response_in_progress /\ next_response_pending = None
                     /\ next_response_pending' = t /\ new = "wait"
      /\ r # None => /\ ~ response_in_progress
                     /\ next_response_pending' = next_response_pending
                     /\ r = t /\ new = "resp"
  <2>1. CASE response_in_progress
    BY <1>1, <1>2, <1>3, <1>4, <1>5, <1>6, <1>inv, <2>1 DEF TypeOK
  <2>2. CASE ~ response_in_progress
    <3>1. r = t /\ r # None
      BY <1>4, <1>e, <1>none, <2>2
    <3> QED
      BY <1>1, <1>2, <1>3, <1>5, <1>6, <2>2, <3>1
  <2> QED
    BY <2>1, <2>2
<1>resp. \A u \in Trans : ~ Holds(Ini, t, "BEGIN_RESP")
  BY <1>e, <1>inv DEF Placed
<1>8. PICK F, G :
        /\ Queued'
        /\ Tgt' = (Tgt \ {e}) \cup F /\ Ini' = Ini \cup G
        /\ Notified(F, G, none, r)
        /\ \A u, p : Holds(Tgt', u, p) <=>
             Holds(Tgt, u, p) /\ ~ (u = t /\ p = "internal")
        /\ \A u, p : Holds(Ini', u, p) <=>
             Holds(Ini, u, p) \/ (r # None /\ u = r /\ p = "BEGIN_RESP")
  <2>1. /\ none # None => ~ Holds(Tgt, none, "internal") /\ ~ Holds(Ini, none, "END_REQ")
        /\ r # None => ~ Holds(Ini, r, "BEGIN_RESP")
        /\ none \in Trans \cup {None} /\ r \in Trans \cup {None}
    BY <1>4, <1>5, <1>e, <1>resp
  <2> QED
    BY <2>1, <1>inv, <1>1, <1>2, <1>3, <1>e, <1>7, NotifyEffect
<1> DEFINE s == [stage EXCEPT ![t] = new]
<1>s. /\ s \in [Trans -> Stage] /\ s[t] = new
      /\ \A u \in Trans : u # t => s[u] = stage[u]
  BY <1>e, <1>6 DEF Stage
<1> HIDE DEF s
<1>11. TypeOK'
  BY <1>inv, <1>same, <1>e, <1>7 DEF TypeOK
<1>12. Placed(s)'
  <2>1. CASE r = None
    <3>1. next_response_pending = None /\ next_response_pending' = t /\ new = "wait"
      BY <1>7, <2>1
    <3>2. /\ \A u, p : Holds(Tgt', u, p) <=>
               Holds(Tgt, u, p) /\ ~ (u = t /\ p = "internal")
          /\ \A u, p : Holds(Ini', u, p) <=> Holds(Ini, u, p)
      BY <1>8, <2>1
    <3> QED
      BY <1>inv, <1>same, <1>e, <1>none, <1>s, <3>1, <3>2 DEF Placed
  <2>2. CASE r # None
    <3>1. next_response_pending' = next_response_pending /\ new = "resp" /\ r = t
      BY <1>7, <2>2
    <3>2. /\ \A u, p : Holds(Tgt', u, p) <=>
               Holds(Tgt, u, p) /\ ~ (u = t /\ p = "internal")
          /\ \A u, p : Holds(Ini', u, p) <=>
               Holds(Ini, u, p) \/ (u = t /\ p = "BEGIN_RESP")
      BY <1>8, <2>2, <3>1
    <3> QED
      BY <1>inv, <1>same, <1>e, <1>none, <1>s, <3>1, <3>2 DEF Placed
  <2> QED
    BY <2>1, <2>2
<1>13. Counted(s)'
  BY <1>inv, <1>same, <1>e, <1>6, <1>s DEF Counted
<1>14. Requested(s)'
  <2>1. ASSUME NEW u \in Trans
        PROVE  Holds(Ini', u, "END_REQ") <=> Holds(Ini, u, "END_REQ")
    <3>1. PICK p : p = "END_REQ"
      OBVIOUS
    <3>2. Holds(Ini', u, p) <=> Holds(Ini, u, p) \/ (r # None /\ u = r /\ p = "BEGIN_RESP")
      BY <1>8
    <3> QED
      BY <3>1, <3>2
  <2>2. request_in_progress \in Trans \cup {None}
    BY <1>inv DEF TypeOK
  <2> QED
    BY <1>inv, <1>same, <1>e, <1>6, <1>s, <2>1, <2>2 DEF Requested
<1>15. Responded(s)'
  <2>1. CASE r = None
    <3>1. \A u \in Trans : s[u] \in Answered <=> stage[u] \in Answered
      BY <1>7, <1>e, <1>s, <2>1 DEF Answered
    <3> QED
      BY <1>inv, <1>7, <2>1, <3>1 DEF Responded
  <2>2. CASE r # None
    <3>1. \A u \in Trans : s[u] \in Answered <=> u = t
      BY <1>inv, <1>7, <1>e, <1>s, <2>2 DEF Answered, Responded
    <3> QED
      BY <1>7, <1>e, <3>1 DEF Responded
  <2> QED
    BY <2>1, <2>2
<1>16. Bounded(s)'
  <2>1. InPipeline(s) = InPipeline(stage)
    BY <1>e, <1>6, <1>s DEF InPipeline, Pipelined, Answered
  <2> QED
    BY <2>1, <1>inv, <1>same DEF Bounded
<1>17. Timely(s)'
  <2>1. \A g \in Ini : g.phase = "END_REQ" /\ g.trans = t => IsDue(g)
    <3> SUFFICES ASSUME NEW g \in Ini, g.phase = "END_REQ", g.trans = t
                 PROVE  IsDue(g)
      OBVIOUS
    <3>1. Before(g, e)
      BY <1>inv, <1>e, <1>3 DEF Timely
    <3>2. g.delay \in Nat /\ g.delta \in BOOLEAN
      BY <1>inv, EventTypes DEF IniEvent
    <3> QED
      BY <3>1, <3>2, <1>e DEF Before, IsDue
  <2>2. \A u \in Trans : s[u] \in {"wait", "resp"} => u = t \/ stage[u] \in {"wait", "resp"}
    BY <1>s
  <2>3. none \notin Trans
    BY <1>7, <1>none
  <2> QED
    BY <1>inv, <1>8, <2>1, <2>2, <2>3, NotifyTimely
<1>18. Pooled(s)'
  BY <1>inv, <1>same, <1>e, <1>6, <1>s, PoolUnchanged
<1> QED
  BY <1>8, <1>s, <1>11, <1>12, <1>13, <1>14, <1>15, <1>16, <1>17, <1>18 DEF IInv, Good

\* A transaction that is released comes first in the pool.
LEMMA PoolReleased ==
  ASSUME NEW stage, NEW s, NEW t \in Trans, Pooled(stage), TypeOK,
         free_list' = <<t>> \o free_list, created' = created,
         stage[t] # "free", s[t] = "free",
         \A u \in Trans : u # t => (s[u] = "free" <=> stage[u] = "free")
  PROVE  Pooled(s)' /\ free_list' \in Seq(Trans)
<1>1. /\ \A u \in 1 .. created : u \in Trans
      /\ free_list \in Seq(Trans) /\ created \in Nat /\ t \in Nat /\ 1 <= t
  BY BoundsAssumption DEF TypeOK, Trans
<1>2. t <= created
  BY <1>1 DEF Pooled
<1>3. t \notin ToSet(free_list) /\ IsInjective(free_list)
  BY DEF Pooled
<1>4. /\ free_list' \in Seq(Trans) /\ IsInjective(free_list')
      /\ ToSet(free_list') = ToSet(free_list) \cup {t}
  BY <1>1, <1>3, ToSetCons
<1>5. {u \in 1 .. created : s[u] = "free"} = {u \in 1 .. created : stage[u] = "free"} \cup {t}
  BY <1>1, <1>2
<1>6. ToSet(free_list') = {u \in 1 .. created' : s[u] = "free"}
  BY <1>4, <1>5 DEF Pooled
<1>7. \A u \in Trans : u > created' => s[u] = "free"
  BY DEF Pooled
<1>8. created' <= 4
  BY DEF Pooled
<1> QED
  BY <1>4, <1>6, <1>7, <1>8 DEF Pooled

\* peq_cb() of the target, END_RESP: the pipeline has a free place, the response
\* and the request that waited for it go on.
LEMMA TargetEndRespGood ==
  ASSUME NEW stage \in [Trans -> Stage], Good(stage), TargetEndResp
  PROVE  IInv'
<1>inv. /\ TypeOK /\ Queued /\ Placed(stage) /\ Counted(stage) /\ Requested(stage)
        /\ Responded(stage) /\ Bounded(stage) /\ Timely(stage) /\ Pooled(stage)
  BY DEF Good
<1>1. PICK k \in DOMAIN m_peq["target"] :
        /\ Fires("target", "END_RESP", k)
        /\ response_in_progress
        /\ release(m_peq["target"][k].trans)
        /\ response_in_progress' = (next_response_pending # None)
        /\ next_response_pending' = None
        /\ n_trans' = IF end_req_pending = None THEN n_trans - 1 ELSE n_trans
        /\ end_req_pending' = None
        /\ Notify(k, end_req_pending, next_response_pending)
        /\ UNCHANGED initiator
  BY DEF TargetEndResp
<1>2. PICK e : e = m_peq["target"][k]
  OBVIOUS
<1>3. PICK t : t = e.trans
  OBVIOUS
<1>4. PICK a, r : a = end_req_pending /\ r = next_response_pending
  OBVIOUS
<1>none. None \notin Trans
  BY DEF None, Trans
<1>e. /\ e \in Tgt /\ t \in Trans /\ e.phase = "END_RESP" /\ stage[t] = "done"
      /\ a \in Trans \cup {None} /\ r \in Trans \cup {None}
      /\ a # None => a \in Trans /\ stage[a] = "deferred" /\ request_in_progress = a
      /\ r # None => r \in Trans /\ stage[r] = "wait"
  <2>1. Holds(Tgt, t, "END_RESP") /\ e \in Tgt /\ t \in Trans /\ e.phase = "END_RESP"
    BY <1>1, <1>2, <1>3, <1>inv, FiresEvent DEF Tgt
  <2>2. stage[t] = "done"
    BY <2>1, <1>inv DEF Placed
  <2>3. a \in Trans \cup {None} /\ r \in Trans \cup {None}
    BY <1>4, <1>inv DEF TypeOK
  <2>4. \A u \in Trans : /\ stage[u] = "deferred" <=> a = u
                         /\ stage[u] = "wait" <=> r = u
    BY <1>4, <1>inv DEF Placed
  <2>5. a # None => a \in Trans /\ stage[a] = "deferred" /\ request_in_progress = a
    BY <2>3, <2>4, <1>inv DEF Requested
  <2>6. r # None => r \in Trans /\ stage[r] = "wait"
    BY <2>3, <2>4
  <2> QED
    BY <2>1, <2>2, <2>3, <2>5, <2>6
<1>same. /\ thread' = thread /\ request' = request
         /\ request_in_progress' = request_in_progress
         /\ response_in_progress' = (r # None) /\ next_response_pending' = None
         /\ n_trans' = (IF a = None THEN n_trans - 1 ELSE n_trans)
         /\ end_req_pending' = None /\ created' = created
         /\ ref_count' = [ref_count EXCEPT ![t] = @ - 1]
         /\ free_list' = <<t>> \o free_list
  <2>1. ref_count[t] = 1
    BY <1>inv, <1>e DEF Counted
  <2> QED
    BY <2>1, <1>1, <1>2, <1>3, <1>4 DEF initiator, release
<1>quiet. /\ a # None => /\ ~ Holds(Tgt, a, "internal") /\ ~ Holds(Ini, a, "END_REQ")
                         /\ ~ Holds(Ini, a, "BEGIN_RESP")
          /\ r # None => ~ Holds(Ini, r, "BEGIN_RESP")
          /\ \A u \in Trans : stage[u] = "deferred" <=> a # None /\ u = a
          /\ \A u \in Trans : stage[u] = "wait" <=> r # None /\ u = r
  <2>1. a # None => ~ Holds(Ini, a, "END_REQ")
    BY <1>inv, <1>e DEF Requested
  <2> QED
    BY <2>1, <1>inv, <1>e, <1>4, <1>none DEF Placed
<1>8. PICK F, G :
        /\ Queued'
        /\ Tgt' = (Tgt \ {e}) \cup F /\ Ini' = Ini \cup G
        /\ Notified(F, G, a, r)
        /\ \A u, p : Holds(Tgt', u, p) <=>
             \/ Holds(Tgt, u, p) /\ ~ (u = t /\ p = "END_RESP")
             \/ a # None /\ u = a /\ p = "internal"
        /\ \A u, p : Holds(Ini', u, p) <=>
             \/ Holds(Ini, u, p)
             \/ r # None /\ u = r /\ p = "BEGIN_RESP"
             \/ a # None /\ u = a /\ p = "END_REQ"
  <2>1. /\ Notify(k, a, r) /\ k \in DOMAIN m_peq["target"]
        /\ a \in Trans \cup {None} /\ r \in Trans \cup {None}
        /\ a # None => ~ Holds(Tgt, a, "internal") /\ ~ Holds(Ini, a, "END_REQ")
        /\ r # None => ~ Holds(Ini, r, "BEGIN_RESP")
    BY <1>1, <1>4, <1>e, <1>quiet
  <2>2. e = m_peq["target"][k] /\ t = e.trans /\ e.phase = "END_RESP"
    BY <1>2, <1>3, <1>e
  <2>3. /\ Queued'
        /\ \E F, G :
             /\ Tgt' = (Tgt \ {m_peq["target"][k]}) \cup F /\ Ini' = Ini \cup G
             /\ Notified(F, G, a, r)
        /\ \A u, p : Holds(Tgt', u, p) <=>
             \/ /\ Holds(Tgt, u, p)
                /\ ~ (u = m_peq["target"][k].trans /\ p = m_peq["target"][k].phase)
             \/ a # None /\ u = a /\ p = "internal"
        /\ \A u, p : Holds(Ini', u, p) <=>
             \/ Holds(Ini, u, p)
             \/ r # None /\ u = r /\ p = "BEGIN_RESP"
             \/ a # None /\ u = a /\ p = "END_REQ"
    BY <2>1, <1>inv, NotifyEffect
  <2> QED
    BY <2>2, <2>3, Zenon
<1> DEFINE s == [u \in Trans |-> IF u = t THEN "free"
                                 ELSE IF r # None /\ u = r THEN "resp"
                                 ELSE IF a # None /\ u = a THEN "work" ELSE stage[u]]
<1>s. /\ s \in [Trans -> Stage] /\ s[t] = "free"
      /\ a # None => s[a] = "work" 
      /\ r # None => s[r] = "resp"
      /\ \A u \in Trans : s[u] = stage[u] \/ u = t \/ (r # None /\ u = r) \/ (a # None /\ u = a)
  BY <1>e DEF Stage
<1> HIDE DEF s
<1>11. TypeOK'
  <2>1. ref_count' \in [Trans -> Nat]
    BY <1>inv, <1>e, <1>same DEF Counted, TypeOK
  <2>2. n_trans' \in Nat
    <3>1. t \in InPipeline(stage)
      BY <1>e DEF InPipeline, Pipelined, Answered
    <3>2. n_trans # 0
      BY <3>1, <1>inv, PipelineFinite, FS_EmptySet DEF Bounded
    <3> QED
      BY <3>2, <1>inv, <1>same DEF TypeOK
  <2>3. free_list' \in Seq(Trans)
    BY <1>inv, <1>e, <1>same, ToSetCons DEF TypeOK
  <2>4. None \in Trans \cup {None} /\ (r # None) \in BOOLEAN
    OBVIOUS
  <2> QED
    BY <2>1, <2>2, <2>3, <2>4, <1>inv, <1>same DEF TypeOK
<1>12. Placed(s)'
  <2> SUFFICES ASSUME NEW u \in Trans
               PROVE  /\ s[u] = "held" <=> request' = u
                      /\ s[u] = "req" <=> Holds(Tgt', u, "BEGIN_REQ")
                      /\ s[u] = "deferred" <=> end_req_pending' = u
                      /\ s[u] = "work" <=> Holds(Tgt', u, "internal")
                      /\ s[u] = "wait" <=> next_response_pending' = u
                      /\ s[u] = "resp" <=> Holds(Ini', u, "BEGIN_RESP")
                      /\ s[u] = "done" <=> Holds(Tgt', u, "END_RESP")
    BY DEF Placed
  <2>1. /\ stage[u] = "held" <=> request' = u
        /\ stage[u] = "req" <=> Holds(Tgt, u, "BEGIN_REQ")
        /\ stage[u] = "work" <=> Holds(Tgt, u, "internal")
        /\ stage[u] = "resp" <=> Holds(Ini, u, "BEGIN_RESP")
        /\ stage[u] = "done" <=> Holds(Tgt, u, "END_RESP")
        /\ end_req_pending' # u /\ next_response_pending' # u
    BY <1>inv, <1>same, <1>none DEF Placed
  <2>2. /\ Holds(Tgt', u, "BEGIN_REQ") <=> Holds(Tgt, u, "BEGIN_REQ")
        /\ Holds(Tgt', u, "internal") <=> Holds(Tgt, u, "internal") \/ (a # None /\ u = a)
        /\ Holds(Ini', u, "BEGIN_RESP") <=> Holds(Ini, u, "BEGIN_RESP") \/ (r # None /\ u = r)
        /\ Holds(Tgt', u, "END_RESP") <=> Holds(Tgt, u, "END_RESP") /\ u # t
    <3>1. ASSUME NEW p
          PROVE  /\ Holds(Tgt', u, p) <=>
                      \/ Holds(Tgt, u, p) /\ ~ (u = t /\ p = "END_RESP")
                      \/ a # None /\ u = a /\ p = "internal"
                 /\ Holds(Ini', u, p) <=>
                      \/ Holds(Ini, u, p)
                      \/ r # None /\ u = r /\ p = "BEGIN_RESP"
                      \/ a # None /\ u = a /\ p = "END_REQ"
      BY <1>8
    <3> QED
      BY <3>1
  <2> QED
    BY <2>1, <2>2, <1>e, <1>s, <1>quiet
<1>13. Counted(s)'
  BY <1>inv, <1>same, <1>e, <1>s DEF Counted, TypeOK
<1>14. Requested(s)'
  <2>1. request_in_progress \in Trans \cup {None}
    BY <1>inv DEF TypeOK
  <2>2. \A u \in Trans : Holds(Ini', u, "END_REQ") <=>
          Holds(Ini, u, "END_REQ") \/ (a # None /\ u = a)
    BY <1>8
  <2> QED
    BY <1>inv, <1>same, <1>e, <1>none, <1>quiet, <1>s, <2>1, <2>2 DEF Requested
<1>15. Responded(s)'
  <2>1. \A u \in Trans : stage[u] \in Answered <=> u = t
    BY <1>inv, <1>e DEF Responded, Answered
  <2>2. \A u \in Trans : s[u] \in Answered <=> r # None /\ u = r
    BY <2>1, <1>e, <1>s DEF Answered
  <2> QED
    BY <2>2, <1>e, <1>same DEF Responded
<1>16. Bounded(s)'
  <2>1. t \in InPipeline(stage)
    BY <1>e DEF InPipeline, Pipelined, Answered
  <2>2. /\ IsFiniteSet(InPipeline(stage) \ {t})
        /\ Cardinality(InPipeline(stage) \ {t}) = Cardinality(InPipeline(stage)) - 1
    BY <2>1, PipelineFinite, FS_RemoveElement
  <2>3. n_trans \in Nat /\ n_trans = Cardinality(InPipeline(stage)) /\ n_trans <= 2
    BY <1>inv DEF TypeOK, Bounded
  <2>4. CASE a = None
    <3>1. InPipeline(s) = InPipeline(stage) \ {t}
      BY <1>e, <1>s, <2>4 DEF InPipeline, Pipelined, Answered
    <3>2. n_trans' = n_trans - 1
      BY <1>same, <2>4
    <3> QED
      BY <2>2, <2>3, <3>1, <3>2, <1>same DEF Bounded
  <2>5. CASE a # None
    <3>1. /\ InPipeline(s) = (InPipeline(stage) \ {t}) \cup {a}
          /\ a \notin InPipeline(stage) \ {t}
      BY <1>e, <1>s, <2>5 DEF InPipeline, Pipelined, Answered
    <3>2. Cardinality(InPipeline(s)) = Cardinality(InPipeline(stage) \ {t}) + 1
      BY <2>2, <3>1, FS_AddElement
    <3>3. n_trans' = n_trans
      BY <1>same, <2>5
    <3>4. Cardinality(InPipeline(stage)) \in Nat
      BY PipelineFinite
    <3> QED
      BY <2>2, <2>3, <3>2, <3>3, <3>4, <1>same DEF Bounded
  <2> QED
    BY <2>4, <2>5
<1>17. Timely(s)'
  <2>1. a \in Trans => a # None
    BY <1>none
  <2>2. \A u \in Trans : s[u] \in {"wait", "resp"} => stage[u] \in {"wait", "resp"}
    BY <1>e, <1>s
  <2>3. a \in Trans => s[a] \notin {"wait", "resp"}
    BY <2>1, <1>s
  <2> QED
    BY <1>inv, <1>8, <1>quiet, <2>1, <2>2, <2>3, NotifyTimely
<1>18. Pooled(s)'
  <2>1. \A u \in Trans : u # t => (s[u] = "free" <=> stage[u] = "free")
    BY <1>e, <1>s
  <2> QED
    BY <2>1, <1>inv, <1>same, <1>e, <1>s, PoolReleased
<1> QED
  BY <1>8, <1>s, <1>11, <1>12, <1>13, <1>14, <1>15, <1>16, <1>17, <1>18 DEF IInv, Good

-----------------------------------------------------------------------------
(* The initiator.                                                          *)

\* Both queues get new contents.
LEMMA QueuesBecome ==
  ASSUME Queued, NEW tq, NEW iq,
         m_peq' = [m_peq EXCEPT !["target"] = tq, !["initiator"] = iq],
         tq \in Seq(TgtEvent), IsInjective(tq), Keyed(ToSet(tq)),
         iq \in Seq(IniEvent), IsInjective(iq), Keyed(ToSet(iq))
  PROVE  Queued' /\ Tgt' = ToSet(tq) /\ Ini' = ToSet(iq)
<1>1. m_peq = [side \in {"initiator", "target"} |-> m_peq[side]]
  BY DEF Queued
<1>2. DOMAIN m_peq = {"initiator", "target"}
  BY <1>1, Zenon
<1>3. m_peq'["target"] = tq /\ m_peq'["initiator"] = iq
  BY <1>2
<1>4. m_peq' = [side \in {"initiator", "target"} |-> m_peq'[side]]
  BY <1>2
<1> QED
  BY <1>3, <1>4 DEF Queued, Tgt, Ini

\* One event more for the target.
LEMMA TargetGets ==
  ASSUME Queued, NEW e \in TgtEvent, ~ Holds(Tgt, e.trans, e.phase)
  PROVE  LET tq == Append(m_peq["target"], e) IN
         /\ tq \in Seq(TgtEvent) /\ IsInjective(tq) /\ Keyed(ToSet(tq))
         /\ ToSet(tq) = Tgt \cup {e}
         /\ \A t, p : Holds(Tgt \cup {e}, t, p) <=>
                        Holds(Tgt, t, p) \/ (t = e.trans /\ p = e.phase)
<1>1. /\ m_peq["target"] \in Seq(TgtEvent) /\ IsInjective(m_peq["target"])
      /\ Keyed(Tgt) /\ Tgt = ToSet(m_peq["target"])
  BY DEF Queued, Tgt
<1>2. /\ Keyed(Tgt \cup {e}) /\ e \notin Tgt
      /\ \A t, p : Holds(Tgt \cup {e}, t, p) <=>
                     Holds(Tgt, t, p) \/ (t = e.trans /\ p = e.phase)
  BY <1>1, HoldsWith
<1>3. /\ Append(m_peq["target"], e) \in Seq(TgtEvent)
      /\ ToSet(Append(m_peq["target"], e)) = Tgt \cup {e}
  BY <1>1, ToSetAppend
<1>4. IsInjective(Append(m_peq["target"], e))
  BY <1>1, <1>2, InjectiveAppend
<1> QED
  BY <1>2, <1>3, <1>4

\* One event less for the initiator.
LEMMA InitiatorTakes ==
  ASSUME Queued, NEW k \in DOMAIN m_peq["initiator"]
  PROVE  LET e == m_peq["initiator"][k]
             iq == RemoveAt(m_peq["initiator"], k)
         IN
         /\ iq \in Seq(IniEvent) /\ IsInjective(iq) /\ Keyed(ToSet(iq))
         /\ ToSet(iq) = Ini \ {e}
         /\ \A t, p : Holds(Ini \ {e}, t, p) <=>
                        Holds(Ini, t, p) /\ ~ (t = e.trans /\ p = e.phase)
<1>1. /\ m_peq["initiator"] \in Seq(IniEvent) /\ IsInjective(m_peq["initiator"])
      /\ Keyed(Ini) /\ Ini = ToSet(m_peq["initiator"])
      /\ m_peq["initiator"][k] \in Ini
  BY DEF Queued, Ini, ToSet
<1>2. /\ RemoveAt(m_peq["initiator"], k) \in Seq(IniEvent)
      /\ IsInjective(RemoveAt(m_peq["initiator"], k))
      /\ ToSet(RemoveAt(m_peq["initiator"], k)) = Ini \ {m_peq["initiator"][k]}
  BY <1>1, ToSetRemoveAt
<1>3. PICK e : e = m_peq["initiator"][k]
  OBVIOUS
<1>4. /\ Keyed(Ini \ {e})
      /\ \A t, p : Holds(Ini \ {e}, t, p) <=>
                     Holds(Ini, t, p) /\ ~ (t = e.trans /\ p = e.phase)
  <2>1. PICK S : S = Ini
    OBVIOUS
  <2>2. Keyed(S) /\ e \in S
    BY <1>1, <1>3, <2>1, Zenon
  <2>3. /\ Keyed(S \ {e})
        /\ \A t, p : Holds(S \ {e}, t, p) <=>
                       Holds(S, t, p) /\ ~ (t = e.trans /\ p = e.phase)
    BY <2>2, HoldsWithout
  <2> QED
    BY <2>1, <2>3, Zenon
<1> QED
  BY <1>2, <1>3, <1>4

\* Nothing is accepted or begins to wait for its response or to get it.
LEMMA StillTimely ==
  ASSUME NEW stage, NEW s, Timely(stage), Ini' \subseteq Ini,
         \A f \in Tgt' : f \in Tgt \/ (f.phase # "internal" /\ (f.delta => f.delay = 0)),
         \A g \in Ini : s[g.trans] \in {"wait", "resp"} =>
                          stage[g.trans] \in {"wait", "resp"}
  PROVE  Timely(s)'
<1>1. \A f \in Tgt' \cup Ini' : f.delta => f.delay = 0
  BY DEF Timely
<1>2. ASSUME NEW g \in Ini', g.phase = "END_REQ"
      PROVE  /\ \A f \in Tgt' : f.phase = "internal" /\ f.trans = g.trans => Before(g, f)
             /\ s[g.trans] \in {"wait", "resp"} => IsDue(g)
             /\ \A f \in Ini' : f.phase = "BEGIN_RESP" /\ f.trans = g.trans => f.delta
  BY <1>2 DEF Timely
<1> QED
  BY <1>1, <1>2 DEF Timely

\* peq_cb() of the initiator, END_REQ: the request is no longer in progress.
LEMMA InitiatorEndReqGood ==
  ASSUME NEW stage \in [Trans -> Stage], Good(stage), InitiatorEndReq
  PROVE  IInv'
<1>inv. /\ TypeOK /\ Queued /\ Placed(stage) /\ Counted(stage) /\ Requested(stage)
        /\ Responded(stage) /\ Bounded(stage) /\ Timely(stage) /\ Pooled(stage)
  BY DEF Good
<1>1. PICK k \in DOMAIN m_peq["initiator"] :
        /\ Fires("initiator", "END_REQ", k)
        /\ EndRequest
        /\ m_peq' = [m_peq EXCEPT !["initiator"] = RemoveAt(@, k)]
        /\ UNCHANGED <<target, mm>>
  BY DEF InitiatorEndReq
<1>2. PICK e, t : e = m_peq["initiator"][k] /\ t = e.trans
  OBVIOUS
<1>e. /\ e \in Ini /\ t \in Trans /\ e.phase = "END_REQ"
      /\ Holds(Ini, t, "END_REQ")
  BY <1>1, <1>2, <1>inv, FiresEvent DEF Ini
<1>same. /\ request' = request /\ n_trans' = n_trans
         /\ response_in_progress' = response_in_progress
         /\ next_response_pending' = next_response_pending
         /\ end_req_pending' = end_req_pending
         /\ free_list' = free_list /\ created' = created /\ ref_count' = ref_count
         /\ request_in_progress' = None
         /\ thread' = IF thread = "blocked" THEN "notified" ELSE thread
  BY <1>1 DEF target, mm, EndRequest
<1>none. None \notin Trans
  BY DEF None, Trans
<1>rip. request_in_progress = t /\ stage[t] \in {"work", "wait", "resp"}
  BY <1>e, <1>inv DEF Requested
<1>8. /\ Queued' /\ Tgt' = Tgt /\ Ini' = Ini \ {e}
      /\ \A u, p : Holds(Ini', u, p) <=> Holds(Ini, u, p) /\ ~ (u = t /\ p = "END_REQ")
  <2> DEFINE iq == RemoveAt(m_peq["initiator"], k)
             tq == m_peq["target"]
  <2>1. m_peq' = [m_peq EXCEPT !["target"] = tq, !["initiator"] = iq]
    <3>1. m_peq = [side \in {"initiator", "target"} |-> m_peq[side]]
      BY <1>inv DEF Queued
    <3>2. m_peq' = [m_peq EXCEPT !["initiator"] = iq]
      BY <1>1
    <3> HIDE DEF iq
    <3> QED
      BY <3>1, <3>2
  <2>2. /\ iq \in Seq(IniEvent) /\ IsInjective(iq) /\ Keyed(ToSet(iq))
        /\ ToSet(iq) = Ini \ {e}
        /\ \A u, p : Holds(Ini \ {e}, u, p) <=> Holds(Ini, u, p) /\ ~ (u = t /\ p = "END_REQ")
    BY <1>inv, <1>1, <1>2, <1>e, InitiatorTakes
  <2>3. tq \in Seq(TgtEvent) /\ IsInjective(tq) /\ Keyed(ToSet(tq)) /\ Tgt = ToSet(tq)
    BY <1>inv DEF Queued, Tgt
  <2> HIDE DEF iq, tq
  <2>4. Queued' /\ Tgt' = ToSet(tq) /\ Ini' = ToSet(iq)
    BY <2>1, <2>2, <2>3, <1>inv, QueuesBecome
  <2> QED
    BY <2>2, <2>3, <2>4
<1>11. TypeOK'
  BY <1>inv, <1>same DEF TypeOK
<1>12. Placed(stage)'
  <2>1. \A u \in Trans : Holds(Ini', u, "BEGIN_RESP") <=> Holds(Ini, u, "BEGIN_RESP")
    BY <1>8
  <2> QED
    BY <2>1, <1>inv, <1>same, <1>8 DEF Placed
<1>13. Counted(stage)'
  BY <1>inv, <1>same DEF Counted
<1>14. Requested(stage)'
  <2>1. \A u \in Trans : Holds(Ini', u, "END_REQ") <=> Holds(Ini, u, "END_REQ") /\ u # t
    BY <1>8
  <2>2. \A u \in Trans : stage[u] \notin {"req", "deferred"}
    BY <1>rip, <1>inv DEF Requested
  <2>3. \A u \in Trans : ~ Holds(Ini', u, "END_REQ")
    BY <2>1, <1>rip, <1>inv DEF Requested
  <2> QED
    BY <2>2, <2>3, <1>inv, <1>same DEF Requested, TypeOK
<1>15. Responded(stage)'
  BY <1>inv, <1>same DEF Responded
<1>16. Bounded(stage)'
  BY <1>inv, <1>same DEF Bounded
<1>17. Timely(stage)'
  BY <1>inv, <1>8, StillTimely
<1>18. Pooled(stage)'
  BY <1>inv, <1>same, PoolUnchanged
<1> QED
  BY <1>8, <1>11, <1>12, <1>13, <1>14, <1>15, <1>16, <1>17, <1>18 DEF IInv, Good

\* peq_cb() of the initiator, BEGIN_RESP: the transaction is released and END_RESP
\* sent; no END_REQ of it is left to come.
LEMMA InitiatorBeginRespGood ==
  ASSUME NEW stage \in [Trans -> Stage], Good(stage), InitiatorBeginResp
  PROVE  IInv'
<1>inv. /\ TypeOK /\ Queued /\ Placed(stage) /\ Counted(stage) /\ Requested(stage)
        /\ Responded(stage) /\ Bounded(stage) /\ Timely(stage) /\ Pooled(stage)
  BY DEF Good
<1>1. PICK k \in DOMAIN m_peq["initiator"], delay \in rand_ps :
        /\ Fires("initiator", "BEGIN_RESP", k)
        /\ IF request_in_progress = m_peq["initiator"][k].trans
           THEN EndRequest ELSE UNCHANGED initiator
        /\ release(m_peq["initiator"][k].trans)
        /\ m_peq' = [m_peq EXCEPT
             !["initiator"] = RemoveAt(@, k),
             !["target"] = Append(@, Event(m_peq["initiator"][k].trans, "END_RESP", delay))]
        /\ UNCHANGED target
  BY Zenon DEF InitiatorBeginResp
<1>2. PICK e, t : e = m_peq["initiator"][k] /\ t = e.trans
  OBVIOUS
<1>3. PICK f : f = Event(t, "END_RESP", delay)
  OBVIOUS
<1>none. None \notin Trans
  BY DEF None, Trans
<1>e. /\ e \in Ini /\ t \in Trans /\ e.phase = "BEGIN_RESP" /\ stage[t] = "resp"
      /\ IsDue(e) /\ Holds(Ini, t, "BEGIN_RESP")
  <2>1. /\ Holds(Ini, t, "BEGIN_RESP") /\ e \in Ini /\ t \in Trans
        /\ e.phase = "BEGIN_RESP" /\ IsDue(e)
    BY <1>1, <1>2, <1>inv, FiresEvent DEF Ini
  <2> QED
    BY <2>1, <1>inv DEF Placed
<1>f. /\ f \in TgtEvent /\ f.trans = t /\ f.phase = "END_RESP"
      /\ f.delta => f.delay = 0
  <2>1. delay \in Nat
    BY BoundsAssumption DEF rand_ps
  <2>2. LET g == Event(t, "END_RESP", delay) IN
        g \in TgtEvent /\ g.trans = t /\ g.phase = "END_RESP" /\ g.delta = (g.delay = 0)
    BY <2>1, <1>e, EventIs
  <2> QED
    BY <2>2, <1>3
\* The request of the transaction has ended already.
<1>rip. request_in_progress # t /\ ~ Holds(Ini, t, "END_REQ")
  <2>1. ~ Holds(Ini, t, "END_REQ")
    BY <1>inv, <1>2, <1>e DEF Timely, Holds, IsDue
  <2> QED
    BY <2>1, <1>inv, <1>e, <1>none DEF Requested
<1>same. /\ thread' = thread /\ request' = request
         /\ request_in_progress' = request_in_progress /\ n_trans' = n_trans
         /\ response_in_progress' = response_in_progress
         /\ next_response_pending' = next_response_pending
         /\ end_req_pending' = end_req_pending
         /\ free_list' = free_list /\ created' = created
         /\ ref_count' = [ref_count EXCEPT ![t] = @ - 1]
  <2>1. ref_count[t] = 2
    BY <1>inv, <1>e DEF Counted
  <2>2. UNCHANGED <<initiator, target>>
    BY <1>1, <1>2, <1>rip
  <2>3. release(t)
    BY <1>1, <1>2
  <2> QED
    BY <2>1, <2>2, <2>3 DEF initiator, target, release
<1>8. /\ Queued' /\ Tgt' = Tgt \cup {f} /\ Ini' = Ini \ {e}
      /\ \A u, p : Holds(Ini', u, p) <=> Holds(Ini, u, p) /\ ~ (u = t /\ p = "BEGIN_RESP")
      /\ \A u, p : Holds(Tgt', u, p) <=> Holds(Tgt, u, p) \/ (u = t /\ p = "END_RESP")
  <2> DEFINE iq == RemoveAt(m_peq["initiator"], k)
             tq == Append(m_peq["target"], f)
  <2>1. m_peq' = [m_peq EXCEPT !["target"] = tq, !["initiator"] = iq]
    <3>1. m_peq = [side \in {"initiator", "target"} |-> m_peq[side]]
      BY <1>inv DEF Queued
    <3>2. m_peq' = [m_peq EXCEPT !["initiator"] = iq, !["target"] = tq]
      BY <1>1, <1>2, <1>3
    <3> HIDE DEF iq, tq
    <3> QED
      BY <3>1, <3>2
  <2>2. /\ iq \in Seq(IniEvent) /\ IsInjective(iq) /\ Keyed(ToSet(iq))
        /\ ToSet(iq) = Ini \ {e}
        /\ \A u, p : Holds(Ini \ {e}, u, p) <=> Holds(Ini, u, p) /\ ~ (u = t /\ p = "BEGIN_RESP")
    <3>1. PICK d : d = m_peq["initiator"][k]
      OBVIOUS
    <3>2. /\ iq \in Seq(IniEvent) /\ IsInjective(iq) /\ Keyed(ToSet(iq))
          /\ ToSet(iq) = Ini \ {d}
          /\ \A u, p : Holds(Ini \ {d}, u, p) <=> Holds(Ini, u, p) /\ ~ (u = d.trans /\ p = d.phase)
      BY <1>inv, <1>1, <3>1, InitiatorTakes
    <3>3. d = e /\ d.trans = t /\ d.phase = "BEGIN_RESP"
      BY <1>1, <1>2, <1>e, <3>1
    <3> HIDE DEF iq
    <3> QED
      BY <3>2, <3>3, Zenon
  <2>3. ~ Holds(Tgt, t, "END_RESP")
    BY <1>inv, <1>e DEF Placed
  <2>4. /\ tq \in Seq(TgtEvent) /\ IsInjective(tq) /\ Keyed(ToSet(tq))
        /\ ToSet(tq) = Tgt \cup {f}
        /\ \A u, p : Holds(Tgt \cup {f}, u, p) <=> Holds(Tgt, u, p) \/ (u = t /\ p = "END_RESP")
    BY <1>inv, <1>f, <2>3, TargetGets
  <2> HIDE DEF iq, tq
  <2>5. Queued' /\ Tgt' = ToSet(tq) /\ Ini' = ToSet(iq)
    BY <2>1, <2>2, <2>4, <1>inv, QueuesBecome
  <2>6. Tgt' = Tgt \cup {f} /\ Ini' = Ini \ {e}
    <3>1. Tgt' = Tgt \cup {f}
      BY <2>4, <2>5, Zenon
    <3>2. Ini' = Ini \ {e}
      BY <2>2, <2>5, Zenon
    <3> QED
      BY <3>1, <3>2
  <2>7. \A u, p : Holds(Ini', u, p) <=> Holds(Ini, u, p) /\ ~ (u = t /\ p = "BEGIN_RESP")
    BY <2>2, <2>6
  <2>8. \A u, p : Holds(Tgt', u, p) <=> Holds(Tgt, u, p) \/ (u = t /\ p = "END_RESP")
    BY <2>4, <2>6
  <2> QED
    BY <2>5, <2>6, <2>7, <2>8
<1> DEFINE s == [stage EXCEPT ![t] = "done"]
<1>s. /\ s \in [Trans -> Stage] /\ s[t] = "done"
      /\ \A u \in Trans : u # t => s[u] = stage[u]
  BY <1>e DEF Stage
<1> HIDE DEF s
<1>11. TypeOK'
  <2>1. ref_count[t] = 2 /\ ref_count \in [Trans -> Nat]
    BY <1>inv, <1>e DEF Counted, TypeOK
  <2>2. ref_count' \in [Trans -> Nat]
    BY <2>1, <1>e, <1>same
  <2> QED
    BY <2>2, <1>inv, <1>same DEF TypeOK
<1>12. Placed(s)'
  <2> SUFFICES ASSUME NEW u \in Trans
               PROVE  /\ s[u] = "held" <=> request' = u
                      /\ s[u] = "req" <=> Holds(Tgt', u, "BEGIN_REQ")
                      /\ s[u] = "deferred" <=> end_req_pending' = u
                      /\ s[u] = "work" <=> Holds(Tgt', u, "internal")
                      /\ s[u] = "wait" <=> next_response_pending' = u
                      /\ s[u] = "resp" <=> Holds(Ini', u, "BEGIN_RESP")
                      /\ s[u] = "done" <=> Holds(Tgt', u, "END_RESP")
    BY DEF Placed
  <2>1. /\ stage[u] = "held" <=> request' = u
        /\ stage[u] = "req" <=> Holds(Tgt, u, "BEGIN_REQ")
        /\ stage[u] = "deferred" <=> end_req_pending' = u
        /\ stage[u] = "work" <=> Holds(Tgt, u, "internal")
        /\ stage[u] = "wait" <=> next_response_pending' = u
        /\ stage[u] = "resp" <=> Holds(Ini, u, "BEGIN_RESP")
        /\ stage[u] = "done" <=> Holds(Tgt, u, "END_RESP")
    BY <1>inv, <1>same DEF Placed
  <2>2. /\ Holds(Tgt', u, "BEGIN_REQ") <=> Holds(Tgt, u, "BEGIN_REQ")
        /\ Holds(Tgt', u, "internal") <=> Holds(Tgt, u, "internal")
        /\ Holds(Ini', u, "BEGIN_RESP") <=> Holds(Ini, u, "BEGIN_RESP") /\ u # t
        /\ Holds(Tgt', u, "END_RESP") <=> Holds(Tgt, u, "END_RESP") \/ u = t
    BY <1>8
  <2> QED
    BY <2>1, <2>2, <1>e, <1>s
<1>13. Counted(s)'
  BY <1>inv, <1>same, <1>e, <1>s DEF Counted, TypeOK
<1>14. Requested(s)'
  <2>1. \A u \in Trans : Holds(Ini', u, "END_REQ") <=> Holds(Ini, u, "END_REQ")
    BY <1>8
  <2>2. request_in_progress \in Trans \cup {None}
    BY <1>inv DEF TypeOK
  <2> QED
    BY <1>inv, <1>same, <1>e, <1>rip, <1>s, <2>1, <2>2 DEF Requested
<1>15. Responded(s)'
  <2>1. \A u \in Trans : s[u] \in Answered <=> stage[u] \in Answered
    BY <1>e, <1>s DEF Answered
  <2> QED
    BY <2>1, <1>inv, <1>same DEF Responded
<1>16. Bounded(s)'
  <2>1. InPipeline(s) = InPipeline(stage)
    BY <1>e, <1>s DEF InPipeline, Pipelined, Answered
  <2> QED
    BY <2>1, <1>inv, <1>same DEF Bounded
<1>17. Timely(s)'
  <2>1. \A g \in Ini : s[g.trans] \in {"wait", "resp"} => stage[g.trans] \in {"wait", "resp"}
    BY <1>inv, <1>s, EventTypes
  <2>2. \A g \in Tgt' : g \in Tgt \/ (g.phase # "internal" /\ (g.delta => g.delay = 0))
    BY <1>8, <1>f
  <2> QED
    BY <1>inv, <1>8, <2>1, <2>2, StillTimely
<1>18. Pooled(s)'
  BY <1>inv, <1>same, <1>e, <1>s, PoolUnchanged
<1> QED
  BY <1>8, <1>s, <1>11, <1>12, <1>13, <1>14, <1>15, <1>16, <1>17, <1>18 DEF IInv, Good

\* A transaction that the pool gives was in nobody's hands, and there are never
\* more than four: without a free one, all are in the pipeline or requested.
LEMMA PoolGives ==
  ASSUME NEW stage \in [Trans -> Stage], Good(stage), NEW s, NEW t \in Trans,
         thread = "idle", allocate(t), s[t] # "free",
         \A u \in Trans : u # t => s[u] = stage[u]
  PROVE  /\ stage[t] = "free" /\ Pooled(s)'
         /\ free_list' \in Seq(Trans) /\ created' \in 0 .. MaxTrans
<1>inv. /\ TypeOK /\ Placed(stage) /\ Requested(stage) /\ Bounded(stage) /\ Pooled(stage)
  BY DEF Good
<1>types. /\ free_list \in Seq(Trans) /\ created \in 0 .. MaxTrans /\ created \in Nat
          /\ \A u : u \in Trans <=> u \in Nat /\ 1 <= u /\ u <= MaxTrans
          /\ MaxTrans \in Nat
  BY <1>inv, BoundsAssumption DEF TypeOK, Trans
<1>pool. /\ IsInjective(free_list) /\ created <= 4
         /\ ToSet(free_list) = {u \in 1 .. created : stage[u] = "free"}
         /\ \A u \in Trans : u > created => stage[u] = "free"
  BY <1>inv DEF Pooled
<1>1. CASE free_list # << >> /\ t = Head(free_list) /\ free_list' = Tail(free_list)
           /\ created' = created
  <2>1. /\ t \in ToSet(free_list) /\ free_list' \in Seq(Trans) /\ IsInjective(free_list')
        /\ ToSet(free_list') = ToSet(free_list) \ {t}
    BY <1>1, <1>types, <1>pool, ToSetTail
  <2>2. stage[t] = "free" /\ t \in 1 .. created
    BY <2>1, <1>pool
  <2>3. ToSet(free_list') = {u \in 1 .. created' : s[u] = "free"}
    BY <2>1, <1>pool, <1>types, <1>1
  <2>4. \A u \in Trans : u > created' => s[u] = "free"
    BY <2>2, <1>pool, <1>types, <1>1
  <2>5. created' <= 4
    BY <1>1, <1>pool
  <2> QED
    BY <2>1, <2>2, <2>3, <2>4, <2>5, <1>1, <1>types DEF Pooled
<1>2. CASE free_list = << >> /\ created < MaxTrans /\ t = created + 1
           /\ created' = t /\ free_list' = free_list
  <2>1. ToSet(free_list) = {}
    BY <1>2 DEF ToSet
  <2>2. \A u \in 1 .. created : u \in InPipeline(stage) \cup {request_in_progress}
    <3> SUFFICES ASSUME NEW u \in 1 .. created, u \notin InPipeline(stage)
                 PROVE  u = request_in_progress
      OBVIOUS
    <3>1. u \in Trans /\ stage[u] # "free" /\ u # None
      <4>1. u \in Nat /\ 1 <= u /\ u <= MaxTrans
        <5>1. created \in Nat /\ created <= MaxTrans /\ MaxTrans \in Nat
          BY <1>types
        <5> QED
          BY <5>1
      <4>2. u \in Trans
        BY <4>1, <1>types
      <4>4. u # None
        BY <4>1 DEF None
      <4>3. stage[u] # "free"
        BY <2>1, <1>pool, Zenon
      <4> QED
        BY <4>2, <4>3, <4>4
    <3>2. stage[u] # "held"
      BY <3>1, <1>inv DEF Placed, Requested
    <3>3. stage[u] \in {"req", "deferred"}
      BY <3>1, <3>2 DEF InPipeline, Pipelined, Answered, Stage
    <3> QED
      BY <3>1, <3>3, <1>inv DEF Requested
  <2>3. created <= 3
    <3> DEFINE P == InPipeline(stage)
               R == {request_in_progress}
    <3>1. /\ IsFiniteSet(P) /\ Cardinality(P) \in Nat /\ Cardinality(P) <= 2
          /\ IsFiniteSet(R) /\ Cardinality(R) = 1
      BY <1>inv, PipelineFinite, FS_Singleton DEF Bounded
    <3> HIDE DEF P, R
    <3>2. IsFiniteSet(P \cap R) /\ Cardinality(P \cap R) \in Nat
      BY <3>1, FS_Subset, FS_CardinalityType
    <3>3. IsFiniteSet(P \cup R)
          /\ Cardinality(P \cup R) = Cardinality(P) + Cardinality(R) - Cardinality(P \cap R)
      BY <3>1, FS_Union
    <3>4. 1 .. created \in SUBSET (P \cup R)
      BY <2>2 DEF P, R
    <3>5. Cardinality(1 .. created) <= Cardinality(P \cup R)
      BY <3>3, <3>4, FS_Subset
    <3>6. Cardinality(1 .. created) = IF 1 > created THEN 0 ELSE created - 1 + 1
      BY <1>types, FS_Interval
    <3> QED
      BY <3>1, <3>2, <3>3, <3>5, <3>6, <1>types
  <2>4. stage[t] = "free"
    BY <1>2, <1>types, <1>pool
  <2>5. {u \in 1 .. created' : s[u] = "free"} = {}
    <3> SUFFICES ASSUME NEW u \in 1 .. created', s[u] = "free"
                 PROVE  FALSE
      OBVIOUS
    <3>1. u # t /\ u \in 1 .. created
      BY <1>2, <1>types
    <3> QED
      BY <3>1, <2>1, <1>types, <1>pool
  <2>6. ToSet(free_list') = {u \in 1 .. created' : s[u] = "free"} /\ IsInjective(free_list')
    BY <2>1, <2>5, <1>2, <1>pool
  <2>7. \A u \in Trans : u > created' => s[u] = "free"
    BY <1>2, <1>pool, <1>types
  <2>8. created' <= 4 /\ created' \in 0 .. MaxTrans
    BY <2>3, <1>2, <1>types
  <2> QED
    BY <2>4, <2>6, <2>7, <2>8, <1>2, <1>types DEF Pooled
<1> QED
  BY <1>1, <1>2 DEF allocate

\* A request is sent when none is under way.
LEMMA SendBeginReqKeeps ==
  ASSUME NEW stage \in [Trans -> Stage], Good(stage), NEW t \in Trans,
         SendBeginReq(t), request_in_progress = None,
         request \in {None, t}, stage[t] \in {"free", "held"}
  PROVE  LET s == [stage EXCEPT ![t] = "req"] IN
         /\ s \in [Trans -> Stage] /\ Queued' /\ Placed(s)' /\ Requested(s)'
         /\ Responded(s)' /\ Bounded(s)' /\ Timely(s)'
         /\ thread' = "idle" /\ request' = None /\ request_in_progress' = t
         /\ UNCHANGED target
<1>inv. /\ TypeOK /\ Queued /\ Placed(stage) /\ Counted(stage) /\ Requested(stage)
        /\ Responded(stage) /\ Bounded(stage) /\ Timely(stage) /\ Pooled(stage)
  BY DEF Good
<1>1. PICK delay \in rand_ps :
        m_peq' = [m_peq EXCEPT !["target"] = Append(@, Event(t, "BEGIN_REQ", delay))]
  BY DEF SendBeginReq
<1>same. /\ thread' = "idle" /\ request' = None /\ request_in_progress' = t
         /\ UNCHANGED target
         /\ n_trans' = n_trans /\ response_in_progress' = response_in_progress
         /\ next_response_pending' = next_response_pending
         /\ end_req_pending' = end_req_pending
  BY DEF SendBeginReq, target
<1>none. None \notin Trans
  BY DEF None, Trans
<1>3. PICK f : f = Event(t, "BEGIN_REQ", delay)
  OBVIOUS
<1>f. /\ f \in TgtEvent /\ f.trans = t /\ f.phase = "BEGIN_REQ"
      /\ f.delta => f.delay = 0
  <2>1. delay \in Nat
    BY BoundsAssumption DEF rand_ps
  <2>2. LET g == Event(t, "BEGIN_REQ", delay) IN
        g \in TgtEvent /\ g.trans = t /\ g.phase = "BEGIN_REQ" /\ g.delta = (g.delay = 0)
    BY <2>1, EventIs
  <2> QED
    BY <2>2, <1>3
<1>8. /\ Queued' /\ Tgt' = Tgt \cup {f} /\ Ini' = Ini
      /\ \A u, p : Holds(Tgt', u, p) <=> Holds(Tgt, u, p) \/ (u = t /\ p = "BEGIN_REQ")
  <2> DEFINE iq == m_peq["initiator"]
             tq == Append(m_peq["target"], f)
  <2>1. m_peq' = [m_peq EXCEPT !["target"] = tq, !["initiator"] = iq]
    <3>1. m_peq = [side \in {"initiator", "target"} |-> m_peq[side]]
      BY <1>inv DEF Queued
    <3>2. m_peq' = [m_peq EXCEPT !["target"] = tq]
      BY <1>1, <1>3
    <3> HIDE DEF tq
    <3> QED
      BY <3>1, <3>2
  <2>2. /\ iq \in Seq(IniEvent) /\ IsInjective(iq) /\ Keyed(ToSet(iq)) /\ Ini = ToSet(iq)
    BY <1>inv DEF Queued, Ini
  <2>3. ~ Holds(Tgt, t, "BEGIN_REQ")
    BY <1>inv DEF Placed
  <2>4. /\ tq \in Seq(TgtEvent) /\ IsInjective(tq) /\ Keyed(ToSet(tq))
        /\ ToSet(tq) = Tgt \cup {f}
        /\ \A u, p : Holds(Tgt \cup {f}, u, p) <=> Holds(Tgt, u, p) \/ (u = t /\ p = "BEGIN_REQ")
    BY <1>inv, <1>f, <2>3, TargetGets
  <2> HIDE DEF iq, tq
  <2>5. Queued' /\ Tgt' = ToSet(tq) /\ Ini' = ToSet(iq)
    BY <2>1, <2>2, <2>4, <1>inv, QueuesBecome
  <2>6. Tgt' = Tgt \cup {f} /\ Ini' = Ini
    <3>1. Tgt' = Tgt \cup {f}
      BY <2>4, <2>5, Zenon
    <3>2. Ini' = Ini
      BY <2>2, <2>5, Zenon
    <3> QED
      BY <3>1, <3>2
  <2>7. \A u, p : Holds(Tgt', u, p) <=> Holds(Tgt, u, p) \/ (u = t /\ p = "BEGIN_REQ")
    BY <2>4, <2>6
  <2> QED
    BY <2>5, <2>6, <2>7
<1> DEFINE s == [stage EXCEPT ![t] = "req"]
<1>s. /\ s \in [Trans -> Stage] /\ s[t] = "req"
      /\ \A u \in Trans : u # t => s[u] = stage[u]
  BY DEF Stage
<1> HIDE DEF s
<1>12. Placed(s)'
  <2> SUFFICES ASSUME NEW u \in Trans
               PROVE  /\ s[u] = "held" <=> request' = u
                      /\ s[u] = "req" <=> Holds(Tgt', u, "BEGIN_REQ")
                      /\ s[u] = "deferred" <=> end_req_pending' = u
                      /\ s[u] = "work" <=> Holds(Tgt', u, "internal")
                      /\ s[u] = "wait" <=> next_response_pending' = u
                      /\ s[u] = "resp" <=> Holds(Ini', u, "BEGIN_RESP")
                      /\ s[u] = "done" <=> Holds(Tgt', u, "END_RESP")
    BY DEF Placed
  <2>1. /\ stage[u] = "held" <=> request = u
        /\ stage[u] = "req" <=> Holds(Tgt, u, "BEGIN_REQ")
        /\ stage[u] = "deferred" <=> end_req_pending' = u
        /\ stage[u] = "work" <=> Holds(Tgt, u, "internal")
        /\ stage[u] = "wait" <=> next_response_pending' = u
        /\ stage[u] = "resp" <=> Holds(Ini', u, "BEGIN_RESP")
        /\ stage[u] = "done" <=> Holds(Tgt, u, "END_RESP")
    BY <1>inv, <1>same, <1>8 DEF Placed
  <2>2. /\ Holds(Tgt', u, "BEGIN_REQ") <=> Holds(Tgt, u, "BEGIN_REQ") \/ u = t
        /\ Holds(Tgt', u, "internal") <=> Holds(Tgt, u, "internal")
        /\ Holds(Tgt', u, "END_RESP") <=> Holds(Tgt, u, "END_RESP")
    BY <1>8
  <2>3. request' # u
    BY <1>same, <1>none
  <2> QED
    BY <2>1, <2>2, <2>3, <1>s, <1>none
<1>14. Requested(s)'
  <2>1. \A u \in Trans : /\ stage[u] \notin {"req", "deferred"}
                         /\ ~ Holds(Ini', u, "END_REQ")
    BY <1>inv, <1>8, <1>none DEF Requested
  <2> QED
    BY <2>1, <1>same, <1>s DEF Requested
<1>15. Responded(s)'
  <2>1. \A u \in Trans : s[u] \in Answered <=> stage[u] \in Answered
    BY <1>s DEF Answered
  <2> QED
    BY <2>1, <1>inv, <1>same DEF Responded
<1>16. Bounded(s)'
  <2>1. InPipeline(s) = InPipeline(stage)
    BY <1>s DEF InPipeline, Pipelined, Answered
  <2> QED
    BY <2>1, <1>inv, <1>same DEF Bounded
<1>17. Timely(s)'
  <2>1. \A g \in Ini : s[g.trans] \in {"wait", "resp"} => stage[g.trans] \in {"wait", "resp"}
    BY <1>inv, <1>s, EventTypes
  <2>2. \A g \in Tgt' : g \in Tgt \/ (g.phase # "internal" /\ (g.delta => g.delay = 0))
    BY <1>8, <1>f
  <2> QED
    BY <1>inv, <1>8, <2>1, <2>2, StillTimely
<1> QED
  BY <1>8, <1>s, <1>12, <1>14, <1>15, <1>16, <1>17, <1>same DEF s

\* The initiator's thread sends the request it holds, or blocks.
LEMMA thread_processGood ==
  ASSUME NEW stage \in [Trans -> Stage], Good(stage), thread_process
  PROVE  IInv'
<1>inv. /\ TypeOK /\ Placed(stage) /\ Counted(stage) /\ Requested(stage) /\ Pooled(stage)
  BY DEF Good
<1>1. PICK t : t = request
  OBVIOUS
<1>none. None \notin Trans
  BY DEF None, Trans
<1>2. /\ t \in Trans /\ stage[t] = "held" /\ request_in_progress = None
      /\ SendBeginReq(t) /\ UNCHANGED mm /\ request \in {None, t}
  BY <1>1, <1>inv DEF thread_process, TypeOK, Placed, Requested
<1> DEFINE s == [stage EXCEPT ![t] = "req"]
<1>3. /\ s \in [Trans -> Stage] /\ Queued' /\ Placed(s)' /\ Requested(s)'
      /\ Responded(s)' /\ Bounded(s)' /\ Timely(s)'
      /\ thread' = "idle" /\ request' = None /\ request_in_progress' = t
      /\ UNCHANGED target
  BY <1>2, SendBeginReqKeeps
<1>s. s[t] = "req" /\ \A u \in Trans : u # t => s[u] = stage[u]
  BY <1>2
<1> HIDE DEF s
<1>same. /\ free_list' = free_list /\ created' = created /\ ref_count' = ref_count
  BY <1>2 DEF mm
<1>4. TypeOK'
  BY <1>inv, <1>2, <1>3, <1>same DEF TypeOK, target
<1>5. Counted(s)'
  BY <1>inv, <1>2, <1>same, <1>s DEF Counted
<1>6. Pooled(s)'
  BY <1>inv, <1>2, <1>same, <1>s, PoolUnchanged
<1> QED
  BY <1>3, <1>4, <1>5, <1>6 DEF IInv, Good

\* The initiator's thread takes a transaction out of the pool, which creates one
\* only when all others are in use.
LEMMA NewTransactionGood ==
  ASSUME NEW stage \in [Trans -> Stage], Good(stage), NEW t \in Trans, NewTransaction(t)
  PROVE  IInv'
<1>inv. /\ TypeOK /\ Queued /\ Placed(stage) /\ Counted(stage) /\ Requested(stage)
        /\ Responded(stage) /\ Bounded(stage) /\ Timely(stage) /\ Pooled(stage)
  BY DEF Good
<1>none. None \notin Trans
  BY DEF None, Trans
<1>1. /\ thread = "idle" /\ allocate(t) /\ request = None
      /\ ref_count' = [ref_count EXCEPT ![t] = @ + 1]
  BY <1>inv DEF NewTransaction, allocate, Requested
<1>2. CASE request_in_progress = None /\ SendBeginReq(t)
  <2> DEFINE s == [stage EXCEPT ![t] = "req"]
  <2>s. /\ s[t] = "req" /\ \A u \in Trans : u # t => s[u] = stage[u]
    OBVIOUS
  <2> HIDE DEF s
  <2>1. /\ stage[t] = "free" /\ Pooled(s)'
        /\ free_list' \in Seq(Trans) /\ created' \in 0 .. MaxTrans
    BY <1>1, <2>s, PoolGives
  <2>2. /\ s \in [Trans -> Stage] /\ Queued' /\ Placed(s)' /\ Requested(s)'
        /\ Responded(s)' /\ Bounded(s)' /\ Timely(s)'
        /\ thread' = "idle" /\ request' = None /\ request_in_progress' = t
        /\ UNCHANGED target
    BY <1>1, <1>2, <2>1, SendBeginReqKeeps DEF s
  <2>3. TypeOK'
    BY <1>inv, <1>1, <2>1, <2>2 DEF TypeOK, target
  <2>4. Counted(s)'
    BY <1>inv, <1>1, <2>1, <2>s DEF Counted, TypeOK
  <2> QED
    BY <2>1, <2>2, <2>3, <2>4 DEF IInv, Good
<1>3. CASE /\ request_in_progress # None /\ thread' = "blocked" /\ request' = t
           /\ UNCHANGED <<request_in_progress, target, m_peq>>
  <2> DEFINE s == [stage EXCEPT ![t] = "held"]
  <2>s. /\ s \in [Trans -> Stage] /\ s[t] = "held"
        /\ \A u \in Trans : u # t => s[u] = stage[u]
    BY DEF Stage
  <2> HIDE DEF s
  <2>1. /\ stage[t] = "free" /\ Pooled(s)'
        /\ free_list' \in Seq(Trans) /\ created' \in 0 .. MaxTrans
    BY <1>1, <2>s, PoolGives
  <2>2. /\ Tgt' = Tgt /\ Ini' = Ini /\ Queued'
        /\ request_in_progress' = request_in_progress
        /\ n_trans' = n_trans /\ response_in_progress' = response_in_progress
        /\ next_response_pending' = next_response_pending
        /\ end_req_pending' = end_req_pending
    BY <1>3, <1>inv DEF Tgt, Ini, Queued, target
  <2>3. TypeOK'
    BY <1>inv, <1>1, <1>3, <2>1, <2>2 DEF TypeOK
  <2>4. Placed(s)'
    BY <1>inv, <1>1, <1>3, <1>none, <2>1, <2>2, <2>s DEF Placed
  <2>5. Counted(s)'
    BY <1>inv, <1>1, <2>1, <2>s DEF Counted, TypeOK
  <2>6. Requested(s)'
    BY <1>inv, <1>3, <1>none, <2>1, <2>2, <2>s DEF Requested, TypeOK
  <2>7. Responded(s)'
    <3>1. \A u \in Trans : s[u] \in Answered <=> stage[u] \in Answered
      BY <2>1, <2>s DEF Answered
    <3> QED
      BY <3>1, <1>inv, <2>2 DEF Responded
  <2>8. Bounded(s)'
    <3>1. InPipeline(s) = InPipeline(stage)
      BY <2>1, <2>s DEF InPipeline, Pipelined, Answered
    <3> QED
      BY <3>1, <1>inv, <2>2 DEF Bounded
  <2>9. Timely(s)'
    <3>1. \A g \in Ini : s[g.trans] \in {"wait", "resp"} => stage[g.trans] \in {"wait", "resp"}
      BY <1>inv, <2>s, EventTypes
    <3> QED
      BY <1>inv, <2>2, <3>1, StillTimely
  <2> QED
    BY <2>1, <2>2, <2>3, <2>4, <2>5, <2>6, <2>7, <2>8, <2>9, <2>s DEF IInv, Good
<1> QED
  BY <1>2, <1>3 DEF NewTransaction

-----------------------------------------------------------------------------
(* Time.                                                                   *)

\* A queue whose events keep their transactions and phases.
LEMMA SameKeys ==
  ASSUME NEW E, NEW q \in Seq(E), IsInjective(q), Keyed(ToSet(q)),
         NEW r, r = [k \in DOMAIN q |-> r[k]], \A k \in DOMAIN q : r[k] \in E,
         \A k \in DOMAIN q : r[k].trans = q[k].trans /\ r[k].phase = q[k].phase
  PROVE  /\ r \in Seq(E) /\ IsInjective(r) /\ Keyed(ToSet(r))
         /\ \A t, p : Holds(ToSet(r), t, p) <=> Holds(ToSet(q), t, p)
<1>1. DOMAIN r = DOMAIN q /\ DOMAIN q = 1 .. Len(q) /\ Len(q) \in Nat
  OBVIOUS
<1>2. r \in Seq(E)
  BY <1>1
<1>3. \A k, l \in DOMAIN q :
        r[k].trans = r[l].trans /\ r[k].phase = r[l].phase => k = l
  BY DEF Keyed, ToSet, IsInjective
<1>4. IsInjective(r)
  BY <1>1, <1>3 DEF IsInjective
<1>5. Keyed(ToSet(r))
  BY <1>1, <1>3 DEF Keyed, ToSet
<1>6. ASSUME NEW t, NEW p
      PROVE  Holds(ToSet(r), t, p) <=> Holds(ToSet(q), t, p)
  BY <1>1 DEF Holds, ToSet
<1> QED
  BY <1>2, <1>4, <1>5, <1>6

\* Time passes only when nothing is due: a delta cycle takes no instant and the
\* next instant is one, for every event.
Sooner(e, f, step) ==
  /\ f.trans = e.trans /\ f.phase = e.phase /\ ~ f.delta
  /\ f.delay + step = e.delay

\* Time and delta cycles pass.
LEMMA AdvanceGood ==
  ASSUME NEW stage \in [Trans -> Stage], Good(stage), Advance
  PROVE  IInv'
<1>inv. /\ TypeOK /\ Queued /\ Placed(stage) /\ Counted(stage) /\ Requested(stage)
        /\ Responded(stage) /\ Bounded(stage) /\ Timely(stage) /\ Pooled(stage)
  BY DEF Good
<1> DEFINE Sides == {"initiator", "target"}
<1>1. /\ m_peq = [side \in Sides |-> m_peq[side]]
      /\ m_peq["target"] \in Seq(TgtEvent) /\ IsInjective(m_peq["target"])
      /\ m_peq["initiator"] \in Seq(IniEvent) /\ IsInjective(m_peq["initiator"])
      /\ Keyed(ToSet(m_peq["target"])) /\ Keyed(ToSet(m_peq["initiator"]))
  BY <1>inv DEF Queued, Tgt, Ini
<1>2. DOMAIN m_peq = Sides
  BY <1>1, Zenon
<1>3. \A side \in Sides : \A k \in DOMAIN m_peq[side] :
        ~ (m_peq[side][k].delay = 0 /\ ~ m_peq[side][k].delta)
  BY <1>2 DEF Advance, NoneDue, IsDue
<1>4. \A side \in Sides : \A k \in DOMAIN m_peq[side] :
        /\ m_peq[side][k].delay \in Nat /\ m_peq[side][k].delta \in BOOLEAN
        /\ m_peq[side][k] = [trans |-> m_peq[side][k].trans, phase |-> m_peq[side][k].phase,
                             delay |-> m_peq[side][k].delay, delta |-> m_peq[side][k].delta]
  <2>1. \A side \in Sides : \A k \in DOMAIN m_peq[side] :
          m_peq[side][k] \in TgtEvent \/ m_peq[side][k] \in IniEvent
    BY <1>1
  <2> QED
    BY <2>1 DEF TgtEvent, IniEvent
<1>5. PICK step \in {0, 1} :
        \A side \in Sides : \A k \in DOMAIN m_peq[side] :
          \/ step = 0 /\ m_peq'[side][k] = [m_peq[side][k] EXCEPT !.delta = FALSE]
          \/ /\ step = 1 /\ ~ m_peq[side][k].delta
             /\ m_peq'[side][k] = [m_peq[side][k] EXCEPT !.delay = @ - 1]
  <2>1. CASE m_peq' = [side \in Sides |-> [k \in DOMAIN m_peq[side] |->
               [m_peq[side][k] EXCEPT !.delta = FALSE]]]
    <3>1. \A side \in Sides : m_peq'[side] = [k \in DOMAIN m_peq[side] |->
            [m_peq[side][k] EXCEPT !.delta = FALSE]]
      BY <2>1
    <3>2. ASSUME NEW side \in Sides, NEW k \in DOMAIN m_peq[side]
          PROVE  m_peq'[side][k] = [m_peq[side][k] EXCEPT !.delta = FALSE]
      BY <3>1, Zenon
    <3> QED
      BY <3>2
  <2>2. CASE /\ \A side \in Sides : \A k \in DOMAIN m_peq[side] : ~ m_peq[side][k].delta
             /\ m_peq' = [side \in Sides |-> [k \in DOMAIN m_peq[side] |->
                  [m_peq[side][k] EXCEPT !.delay = @ - 1]]]
    <3>1. \A side \in Sides : m_peq'[side] = [k \in DOMAIN m_peq[side] |->
            [m_peq[side][k] EXCEPT !.delay = @ - 1]]
      BY <2>2
    <3>2. ASSUME NEW side \in Sides, NEW k \in DOMAIN m_peq[side]
          PROVE  m_peq'[side][k] = [m_peq[side][k] EXCEPT !.delay = @ - 1]
      BY <3>1, Zenon
    <3> QED
      BY <3>2, <2>2
  <2> QED
    BY <2>1, <2>2, <1>2 DEF Advance
<1>7. m_peq' = [side \in Sides |-> m_peq'[side]]
  BY <1>2 DEF Advance
<1>8. \A side \in Sides :
        m_peq'[side] = [k \in DOMAIN m_peq[side] |-> m_peq'[side][k]]
  <2>1. \A side \in Sides : DOMAIN m_peq'[side] = DOMAIN m_peq[side]
    BY <1>2 DEF Advance
  <2>2. \A side \in Sides : m_peq'[side] = [k \in DOMAIN m_peq'[side] |-> m_peq'[side][k]]
    BY <1>2 DEF Advance
  <2> QED
    BY <2>1, <2>2
<1>9. ASSUME NEW side \in Sides, NEW k \in DOMAIN m_peq[side]
      PROVE  /\ m_peq[side][k] \in TgtEvent => m_peq'[side][k] \in TgtEvent
             /\ m_peq[side][k] \in IniEvent => m_peq'[side][k] \in IniEvent
             /\ Sooner(m_peq[side][k], m_peq'[side][k], step)
  <2>1. PICK e, f : e = m_peq[side][k] /\ f = m_peq'[side][k]
    OBVIOUS
  <2>2. /\ e.delay \in Nat /\ e.delta \in BOOLEAN /\ ~ (e.delay = 0 /\ ~ e.delta)
        /\ e = [trans |-> e.trans, phase |-> e.phase, delay |-> e.delay, delta |-> e.delta]
    BY <1>3, <1>4, <2>1
  <2>3. \/ step = 0 /\ f = [e EXCEPT !.delta = FALSE]
        \/ step = 1 /\ ~ e.delta /\ f = [e EXCEPT !.delay = @ - 1]
    BY <1>5, <2>1
  <2>4. /\ f = [trans |-> e.trans, phase |-> e.phase, delay |-> f.delay, delta |-> FALSE]
        /\ f.delay \in Nat /\ f.delay + step = e.delay
    <3>0. PICK t, p, d, b : e = [trans |-> t, phase |-> p, delay |-> d, delta |-> b]
      BY <2>2
    <3>1. CASE step = 0 /\ f = [e EXCEPT !.delta = FALSE]
      <4>1. f = [trans |-> t, phase |-> p, delay |-> d, delta |-> FALSE]
        BY <3>0, <3>1
      <4>2. e.trans = t /\ e.phase = p /\ e.delay = d /\ f.delay = d /\ d \in Nat
        BY <2>2, <3>0, <4>1
      <4>3. d + step = d
        BY <3>1, <4>2
      <4> QED
        BY <4>1, <4>2, <4>3
    <3>2. CASE step = 1 /\ ~ e.delta /\ f = [e EXCEPT !.delay = @ - 1]
      <4>1. e.delay - 1 \in Nat /\ (e.delay - 1) + 1 = e.delay
        BY <2>2, <3>2
      <4> QED
        BY <2>2, <3>2, <4>1
    <3> QED
      BY <2>3, <3>1, <3>2
  <2>5. e \in TgtEvent => f \in TgtEvent
    <3>1. PICK d : d = f.delay
      OBVIOUS
    <3>2. d \in Nat /\ f = [trans |-> e.trans, phase |-> e.phase, delay |-> d, delta |-> FALSE]
      BY <2>4, <3>1
    <3> QED
      BY <3>2 DEF TgtEvent
  <2>6. e \in IniEvent => f \in IniEvent
    <3>1. PICK d : d = f.delay
      OBVIOUS
    <3>2. d \in Nat /\ f = [trans |-> e.trans, phase |-> e.phase, delay |-> d, delta |-> FALSE]
      BY <2>4, <3>1
    <3> QED
      BY <3>2 DEF IniEvent
  <2>7. Sooner(e, f, step)
    BY <2>4 DEF Sooner
  <2> QED
    BY <2>1, <2>5, <2>6, <2>7
<1>10. /\ \A k \in DOMAIN m_peq["target"] :
            m_peq'["target"][k] \in TgtEvent
              /\ Sooner(m_peq["target"][k], m_peq'["target"][k], step)
       /\ \A k \in DOMAIN m_peq["initiator"] :
            m_peq'["initiator"][k] \in IniEvent
              /\ Sooner(m_peq["initiator"][k], m_peq'["initiator"][k], step)
  BY <1>1, <1>9
<1>11. /\ m_peq'["target"] \in Seq(TgtEvent) /\ IsInjective(m_peq'["target"])
       /\ Keyed(ToSet(m_peq'["target"]))
       /\ \A t, p : Holds(ToSet(m_peq'["target"]), t, p) <=>
                      Holds(ToSet(m_peq["target"]), t, p)
  <2>1. PICK q, r : q = m_peq["target"] /\ r = m_peq'["target"]
    OBVIOUS
  <2>2. /\ q \in Seq(TgtEvent) /\ IsInjective(q) /\ Keyed(ToSet(q))
        /\ r = [k \in DOMAIN q |-> r[k]] /\ \A k \in DOMAIN q : r[k] \in TgtEvent
        /\ \A k \in DOMAIN q : r[k].trans = q[k].trans /\ r[k].phase = q[k].phase
    BY <2>1, <1>1, <1>8, <1>10 DEF Sooner
  <2>3. /\ r \in Seq(TgtEvent) /\ IsInjective(r) /\ Keyed(ToSet(r))
        /\ \A t, p : Holds(ToSet(r), t, p) <=> Holds(ToSet(q), t, p)
    BY <2>2, SameKeys
  <2> QED
    BY <2>1, <2>3, Zenon
<1>12. /\ m_peq'["initiator"] \in Seq(IniEvent) /\ IsInjective(m_peq'["initiator"])
       /\ Keyed(ToSet(m_peq'["initiator"]))
       /\ \A t, p : Holds(ToSet(m_peq'["initiator"]), t, p) <=>
                      Holds(ToSet(m_peq["initiator"]), t, p)
  <2>1. PICK q, r : q = m_peq["initiator"] /\ r = m_peq'["initiator"]
    OBVIOUS
  <2>2. /\ q \in Seq(IniEvent) /\ IsInjective(q) /\ Keyed(ToSet(q))
        /\ r = [k \in DOMAIN q |-> r[k]] /\ \A k \in DOMAIN q : r[k] \in IniEvent
        /\ \A k \in DOMAIN q : r[k].trans = q[k].trans /\ r[k].phase = q[k].phase
    BY <2>1, <1>1, <1>8, <1>10 DEF Sooner
  <2>3. /\ r \in Seq(IniEvent) /\ IsInjective(r) /\ Keyed(ToSet(r))
        /\ \A t, p : Holds(ToSet(r), t, p) <=> Holds(ToSet(q), t, p)
    BY <2>2, SameKeys
  <2> QED
    BY <2>1, <2>3, Zenon
<1>13. /\ Queued'
       /\ \A t, p : Holds(Tgt', t, p) <=> Holds(Tgt, t, p)
       /\ \A t, p : Holds(Ini', t, p) <=> Holds(Ini, t, p)
  <2>1. Queued'
    BY <1>7, <1>11, <1>12 DEF Queued, Tgt, Ini
  <2> QED
    BY <2>1, <1>11, <1>12 DEF Tgt, Ini
<1>14. /\ \A f \in Tgt' : f \in TgtEvent /\ \E e \in Tgt : Sooner(e, f, step)
       /\ \A f \in Ini' : f \in IniEvent /\ \E e \in Ini : Sooner(e, f, step)
  BY <1>8, <1>10 DEF Tgt, Ini, ToSet
<1>same. /\ thread' = thread /\ request' = request
         /\ request_in_progress' = request_in_progress
         /\ n_trans' = n_trans /\ response_in_progress' = response_in_progress
         /\ next_response_pending' = next_response_pending
         /\ end_req_pending' = end_req_pending
         /\ free_list' = free_list /\ created' = created /\ ref_count' = ref_count
  BY DEF Advance, initiator, target, mm
<1>15. TypeOK'
  BY <1>inv, <1>same DEF TypeOK
<1>16. Placed(stage)'
  <2> SUFFICES ASSUME NEW u \in Trans
               PROVE  /\ stage[u] = "held" <=> request' = u
                      /\ stage[u] = "req" <=> Holds(Tgt', u, "BEGIN_REQ")
                      /\ stage[u] = "deferred" <=> end_req_pending' = u
                      /\ stage[u] = "work" <=> Holds(Tgt', u, "internal")
                      /\ stage[u] = "wait" <=> next_response_pending' = u
                      /\ stage[u] = "resp" <=> Holds(Ini', u, "BEGIN_RESP")
                      /\ stage[u] = "done" <=> Holds(Tgt', u, "END_RESP")
    BY DEF Placed
  <2> QED
    BY <1>inv, <1>same, <1>13 DEF Placed
<1>17. Counted(stage)' /\ Responded(stage)' /\ Bounded(stage)'
  BY <1>inv, <1>same DEF Counted, Responded, Bounded
<1>18. Requested(stage)'
  <2>1. \A u \in Trans : Holds(Ini', u, "END_REQ") <=> Holds(Ini, u, "END_REQ")
    BY <1>13
  <2> QED
    BY <2>1, <1>inv, <1>same DEF Requested, TypeOK
<1>19. Timely(stage)'
  <2>1. \A f \in Tgt' \cup Ini' : ~ f.delta
    BY <1>14 DEF Sooner
  <2>2. ASSUME NEW g \in Ini', g.phase = "END_REQ"
        PROVE  /\ \A f \in Tgt' : f.phase = "internal" /\ f.trans = g.trans => Before(g, f)
               /\ stage[g.trans] \in {"wait", "resp"} => IsDue(g)
               /\ \A f \in Ini' : f.phase = "BEGIN_RESP" /\ f.trans = g.trans => f.delta
    <3>1. PICK d \in Ini : Sooner(d, g, step)
      BY <1>14
    <3>2. d.phase = "END_REQ" /\ d.trans = g.trans /\ d.trans \in Trans
      BY <3>1, <2>2, <1>inv, EventTypes DEF Sooner
    <3>3. ~ IsDue(d)
      BY <1>3 DEF Ini, ToSet, IsDue
    <3>4. stage[g.trans] \notin {"wait", "resp"}
      BY <3>2, <3>3, <1>inv DEF Timely
    <3>5. ASSUME NEW f \in Tgt', f.phase = "internal", f.trans = g.trans
          PROVE  Before(g, f)
      <4>1. PICK e \in Tgt : Sooner(e, f, step)
        BY <1>14
      <4>2. Before(d, e)
        BY <3>2, <3>5, <4>1, <1>inv DEF Timely, Sooner
      <4>3. g.delay <= f.delay
        <5>1. d.delay \in Nat /\ e.delay \in Nat /\ d.delay <= e.delay
          BY <4>2, <1>inv, EventTypes DEF Before, TgtEvent, IniEvent
        <5>2. /\ g.delay \in Nat /\ f.delay \in Nat
              /\ g.delay + step = d.delay /\ f.delay + step = e.delay
          BY <1>14, <3>1, <4>1 DEF Sooner, TgtEvent, IniEvent
        <5> QED
          BY <5>1, <5>2
      <4> QED
        BY <4>3, <2>1 DEF Before
    <3>6. ASSUME NEW f \in Ini', f.phase = "BEGIN_RESP", f.trans = g.trans
          PROVE  FALSE
      <4>1. Holds(Ini', f.trans, "BEGIN_RESP")
        BY <3>6 DEF Holds
      <4>2. stage[f.trans] = "resp"
        BY <4>1, <3>2, <3>6, <1>16 DEF Placed
      <4> QED
        BY <4>2, <3>4, <3>6
    <3> QED
      BY <3>4, <3>5, <3>6
  <2> QED
    BY <2>1, <2>2 DEF Timely
<1>20. Pooled(stage)'
  BY <1>inv, <1>same, PoolUnchanged
<1> QED
  BY <1>13, <1>15, <1>16, <1>17, <1>18, <1>19, <1>20 DEF IInv, Good

-----------------------------------------------------------------------------
(* The invariant and what it says.                                         *)

\* At the start every transaction is free.
LEMMA InitGood == Init => IInv
<1> SUFFICES ASSUME Init PROVE IInv
  OBVIOUS
<1> DEFINE s == [t \in Trans |-> "free"]
<1>1. s \in [Trans -> Stage] /\ \A t \in Trans : s[t] = "free"
  BY DEF Stage
<1> HIDE DEF s
<1>none. None \notin Trans
  BY DEF None, Trans
<1>2. /\ m_peq = [side \in {"initiator", "target"} |-> m_peq[side]]
      /\ m_peq["target"] = << >> /\ m_peq["initiator"] = << >>
  BY DEF Init
<1>3. Tgt = {} /\ Ini = {}
  BY <1>2 DEF Tgt, Ini, ToSet
<1>4. Queued
  <2>1. /\ << >> \in Seq(TgtEvent) /\ << >> \in Seq(IniEvent)
        /\ \A k, l \in DOMAIN << >> : << >>[k] = << >>[l] => k = l
    OBVIOUS
  <2>2. Keyed(Tgt) /\ Keyed(Ini)
    BY <1>3 DEF Keyed
  <2> QED
    BY <1>2, <2>1, <2>2 DEF Queued, IsInjective
<1>5. \A t, p : ~ Holds(Tgt, t, p) /\ ~ Holds(Ini, t, p)
  BY <1>3 DEF Holds
<1>6. TypeOK
  <2>1. << >> \in Seq(Trans) /\ 0 \in 0 .. MaxTrans /\ [t \in Trans |-> 0] \in [Trans -> Nat]
    BY BoundsAssumption
  <2> QED
    BY <2>1 DEF Init, TypeOK
<1>7. Placed(s)
  BY <1>1, <1>5, <1>none DEF Placed, Init
<1>8. Counted(s) /\ Requested(s) /\ Responded(s)
  BY <1>1, <1>5 DEF Counted, Requested, Responded, Init, Answered
<1>9. Bounded(s)
  <2>1. InPipeline(s) = {}
    BY <1>1 DEF InPipeline, Pipelined, Answered
  <2> QED
    BY <2>1, FS_EmptySet DEF Bounded, Init
<1>10. Timely(s)
  BY <1>3 DEF Timely
<1>11. Pooled(s)
  <2>1. /\ free_list = << >> /\ created = 0
    BY DEF Init
  <2>2. ToSet(free_list) = {} /\ {u \in 1 .. created : s[u] = "free"} = {}
    BY <2>1 DEF ToSet
  <2> QED
    BY <2>1, <2>2, <1>1 DEF Pooled, IsInjective
<1> QED
  BY <1>1, <1>4, <1>6, <1>7, <1>8, <1>9, <1>10, <1>11 DEF IInv, Good

\* Every step keeps each transaction in one stage of its life.
LEMMA NextGood == IInv /\ [Next]_vars => IInv'
<1> SUFFICES ASSUME IInv, [Next]_vars PROVE IInv'
  OBVIOUS
<1>1. PICK stage \in [Trans -> Stage] : Good(stage)
  BY DEF IInv
<1>2. CASE \E t \in Trans : NewTransaction(t)
  BY <1>1, <1>2, NewTransactionGood
<1>3. CASE thread_process
  BY <1>1, <1>3, thread_processGood
<1>4. CASE Callback
  BY <1>1, <1>4, InitiatorEndReqGood, InitiatorBeginRespGood, TargetBeginReqGood,
     TargetInternalGood, TargetEndRespGood DEF Callback
<1>5. CASE Advance
  BY <1>1, <1>5, AdvanceGood
<1>6. CASE UNCHANGED vars
  <2>1. Good(stage)'
    BY <1>1, <1>6 DEF vars, initiator, target, mm, Good, TypeOK, Queued, Placed, Counted,
       Requested, Responded, Bounded, InPipeline, Timely, Pooled, Tgt, Ini
  <2> QED
    BY <2>1, <1>1 DEF IInv
<1> QED
  BY <1>2, <1>3, <1>4, <1>5, <1>6 DEF Next

\* Every transaction has its one stage at all times.
THEOREM StagesInvariant == Spec => []IInv
BY InitGood, NextGood, PTL DEF Spec

\* The transactions that somebody names are those that are not free.
LEMMA NamedIs ==
  ASSUME NEW stage \in [Trans -> Stage], Good(stage)
  PROVE  Named = {t \in Trans : stage[t] # "free"}
<1>inv. /\ TypeOK /\ Queued /\ Placed(stage) /\ Requested(stage)
  BY DEF Good
<1>none. None \notin Trans
  BY DEF None, Trans
<1> DEFINE Pointers == {t \in Trans : t \in {request, request_in_progress,
                              next_response_pending, end_req_pending}}
           Live == {t \in Trans : stage[t] # "free"}
           InQueue(t) == \E e \in Tgt \cup Ini : e.trans = t
<1>1. DOMAIN m_peq = {"initiator", "target"}
  <2>1. m_peq = [side \in {"initiator", "target"} |-> m_peq[side]]
    BY <1>inv DEF Queued
  <2> QED
    BY <2>1, Zenon
<1>2. \A t : t \in Named <=> InQueue(t) \/ t \in Pointers
  <2> SUFFICES ASSUME NEW t PROVE t \in Named <=> InQueue(t) \/ t \in Pointers
    OBVIOUS
  <2>1. InQueue(t) <=>
          \E side \in DOMAIN m_peq : \E k \in DOMAIN m_peq[side] : m_peq[side][k].trans = t
    BY <1>1 DEF Tgt, Ini, ToSet
  <2>2. InQueue(t) => t \in Trans
    BY <1>inv, EventTypes
  <2> QED
    BY <2>1, <2>2 DEF Named
<1>3. \A e \in Tgt : e.trans \in Trans /\ e.phase \in {"BEGIN_REQ", "internal", "END_RESP"}
                     /\ Holds(Tgt, e.trans, e.phase)
  BY <1>inv, EventTypes DEF TgtEvent, Holds
<1>4. \A e \in Ini : e.trans \in Trans /\ e.phase \in {"END_REQ", "BEGIN_RESP"}
                     /\ Holds(Ini, e.trans, e.phase)
  BY <1>inv, EventTypes DEF IniEvent, Holds
<1>5. \A e \in Tgt : e.trans \in Live
  BY <1>3, <1>inv DEF Placed
<1>6. \A e \in Ini : e.trans \in Live
  BY <1>4, <1>inv DEF Placed, Requested
<1>7. Pointers \subseteq Trans
  BY <1>inv DEF TypeOK
<1>8. Pointers \subseteq Live
  <2>1. /\ request # None => request \in Live
        /\ next_response_pending # None => next_response_pending \in Live
        /\ end_req_pending # None => end_req_pending \in Live
    BY <1>inv DEF TypeOK, Placed
  <2>2. request_in_progress # None => request_in_progress \in Live
    BY <1>inv DEF TypeOK, Requested
  <2> QED
    BY <2>1, <2>2, <1>none
<1>9. ASSUME NEW t \in Live  PROVE InQueue(t) \/ t \in Pointers
  <2>1. stage[t] \in {"held", "req", "deferred", "work", "wait", "resp", "done"}
    BY DEF Stage
  <2>3. Holds(Tgt, t, "BEGIN_REQ") \/ Holds(Tgt, t, "internal") \/ Holds(Tgt, t, "END_RESP")
          => InQueue(t)
    BY DEF Holds
  <2>4. Holds(Ini, t, "BEGIN_RESP") => InQueue(t)
    BY DEF Holds
  <2>5. t \in Trans /\ t # None
    BY <1>none
  <2>6. CASE stage[t] \in {"req", "work", "resp", "done"}
    BY <2>3, <2>4, <2>5, <2>6, <1>inv DEF Placed
  <2>7. CASE stage[t] \in {"held", "deferred", "wait"}
    BY <2>5, <2>7, <1>inv DEF Placed
  <2> QED
    BY <2>1, <2>6, <2>7
<1>10. \A t : InQueue(t) => t \in Live
  BY <1>5, <1>6
<1> HIDE DEF Live, Pointers, InQueue
<1>12. Named = Live
  BY <1>2, <1>8, <1>9, <1>10
<1> QED
  BY <1>12 DEF Live

\* What the stages say of the pool.
LEMMA GoodPool ==
  ASSUME NEW stage \in [Trans -> Stage], Good(stage)
  PROVE  PoolSafe
<1>inv. /\ TypeOK /\ Counted(stage) /\ Pooled(stage)
  BY DEF Good
<1>1. \A u : u \in 1 .. created => u \in Trans
  BY <1>inv, BoundsAssumption DEF TypeOK, Trans
<1>2. \A u \in Trans : stage[u] # "free" => u \in 1 .. created
  BY <1>inv, BoundsAssumption DEF TypeOK, Trans, Pooled
<1>3. \A u \in Trans : /\ ref_count[u] = 0 <=> stage[u] = "free"
                       /\ ref_count[u] > 0 <=> stage[u] # "free"
  BY <1>inv DEF Counted
<1>4. ToSet(free_list) = {t \in 1 .. created : ref_count[t] = 0}
  BY <1>inv, <1>1, <1>3 DEF Pooled
<1>5. Named = {t \in 1 .. created : ref_count[t] > 0}
  <2>1. {t \in Trans : stage[t] # "free"} = {t \in 1 .. created : ref_count[t] > 0}
    BY <1>1, <1>2, <1>3
  <2> QED
    BY <2>1, NamedIs
<1>6. Len(free_list) = Cardinality(ToSet(free_list))
  BY <1>inv, LenIsCardinality DEF Pooled, TypeOK
<1> QED
  BY <1>4, <1>5, <1>6, <1>inv DEF PoolSafe, Pooled

\* The events of a phase in a queue are as many as their transactions.
LEMMA EventsAreTransactions ==
  ASSUME Queued, NEW side \in {"initiator", "target"}, NEW phase
  PROVE  LET H == {t \in Trans : Holds(ToSet(m_peq[side]), t, phase)} IN
         Cardinality(Events(side, phase)) = Cardinality(H)
<1> DEFINE q == m_peq[side]
           K == {k \in DOMAIN q : q[k].phase = phase}
           H == {t \in Trans : Holds(ToSet(q), t, phase)}
           f == [k \in K |-> q[k].trans]
<1>1. /\ q \in Seq(TgtEvent) \/ q \in Seq(IniEvent)
      /\ IsInjective(q) /\ Keyed(ToSet(q))
  BY DEF Queued, Tgt, Ini
<1>2. DOMAIN q = 1 .. Len(q) /\ Len(q) \in Nat
  BY <1>1
<1>3. \A k \in DOMAIN q : q[k].trans \in Trans
  <2>1. \A k \in DOMAIN q : q[k] \in TgtEvent \/ q[k] \in IniEvent
    BY <1>1
  <2> QED
    BY <2>1 DEF TgtEvent, IniEvent
<1>4. \A k, l \in DOMAIN q : q[k].trans = q[l].trans /\ q[k].phase = q[l].phase => k = l
  BY <1>1 DEF Keyed, ToSet, IsInjective
<1>5. IsFiniteSet(K)
  <2>1. IsFiniteSet(1 .. Len(q))
    <3>1. 1 \in Int /\ Len(q) \in Int
      BY <1>2
    <3> HIDE DEF q
    <3> QED
      BY <3>1, FS_Interval
  <2>2. K \subseteq 1 .. Len(q)
    BY <1>2
  <2> HIDE DEF K
  <2> QED
    BY <2>1, <2>2, FS_Subset
<1>6. f \in Bijection(K, H)
  <2>1. f \in [K -> H]
    BY <1>3 DEF Holds, ToSet
  <2>2. \A k, l \in K : f[k] = f[l] => k = l
    BY <1>4
  <2>3. \A t \in H : \E k \in K : f[k] = t
    BY DEF Holds, ToSet
  <2> HIDE DEF f, K, H
  <2> QED
    BY <2>1, <2>2, <2>3 DEF Bijection, Injection, Surjection, IsInjective
<1>7. ExistsBijection(K, H)
  BY <1>6 DEF ExistsBijection
<1> HIDE DEF f, H
<1>8. Cardinality(H) = Cardinality(K)
  BY <1>5, <1>7, FS_Bijection
<1> QED
  BY <1>8 DEF Events, H

\* A set with no element besides x has at most one element.
LEMMA AtMostOne ==
  ASSUME NEW x, NEW S \in SUBSET {x}
  PROVE  IsFiniteSet(S) /\ Cardinality(S) = IF S = {} THEN 0 ELSE 1
<1>1. S = {} \/ S = {x}
  OBVIOUS
<1>2. /\ IsFiniteSet({}) /\ Cardinality({}) = 0
      /\ IsFiniteSet({x}) /\ Cardinality({x}) = 1
  BY FS_EmptySet, FS_Singleton
<1>3. CASE S = {}
  BY <1>2, <1>3
<1>4. CASE S = {x}
  <2>1. S # {}
    BY <1>4
  <2> QED
    BY <1>2, <1>4, <2>1
<1> QED
  BY <1>1, <1>3, <1>4

\* What the stages say of the conditions of the fatal errors.
LEMMA GoodNoFatal ==
  ASSUME NEW stage \in [Trans -> Stage], Good(stage)
  PROVE  NoFatal
<1>inv. /\ TypeOK /\ Queued /\ Placed(stage) /\ Requested(stage) /\ Responded(stage)
        /\ Bounded(stage)
  BY DEF Good
<1>none. None \notin Trans
  BY DEF None, Trans
<1> DEFINE At(name) == {t \in Trans : stage[t] = name}
           Ends == {t \in Trans : Holds(Ini, t, "END_REQ")}
<1>1. /\ Cardinality(Events("target", "BEGIN_REQ")) = Cardinality(At("req"))
      /\ Cardinality(Events("target", "internal")) = Cardinality(At("work"))
      /\ Cardinality(Events("target", "END_RESP")) = Cardinality(At("done"))
      /\ Cardinality(Events("initiator", "BEGIN_RESP")) = Cardinality(At("resp"))
      /\ Cardinality(Events("initiator", "END_REQ")) = Cardinality(Ends)
  <2> DEFINE OfTgt(phase) == {t \in Trans : Holds(Tgt, t, phase)}
             OfIni(phase) == {t \in Trans : Holds(Ini, t, phase)}
  <2>1. /\ \A phase : Cardinality(Events("target", phase)) = Cardinality(OfTgt(phase))
        /\ \A phase : Cardinality(Events("initiator", phase)) = Cardinality(OfIni(phase))
    BY <1>inv, EventsAreTransactions DEF Tgt, Ini
  <2>2. /\ OfTgt("BEGIN_REQ") = At("req") /\ OfTgt("internal") = At("work")
        /\ OfTgt("END_RESP") = At("done") /\ OfIni("BEGIN_RESP") = At("resp")
    BY <1>inv DEF Placed
  <2>3. OfIni("END_REQ") = Ends
    OBVIOUS
  <2> HIDE DEF OfTgt, OfIni, At, Ends
  <2> QED
    BY <2>1, <2>2, <2>3
\* One request.
<1>2. Cardinality(At("req")) + Cardinality(Ends)
        + (IF end_req_pending = None THEN 0 ELSE 1) <= 1
  <2>1. At("req") \in SUBSET {request_in_progress} /\ Ends \in SUBSET {request_in_progress}
    BY <1>inv DEF Requested
  <2>2. At("req") = {} \/ Ends = {}
    BY <1>inv DEF Requested
  <2>3. end_req_pending # None => At("req") = {} /\ Ends = {}
    BY <1>inv, <1>none DEF Requested, Placed, TypeOK
  <2> HIDE DEF At, Ends
  <2>4. /\ Cardinality(At("req")) = IF At("req") = {} THEN 0 ELSE 1
        /\ Cardinality(Ends) = IF Ends = {} THEN 0 ELSE 1
    BY <2>1, AtMostOne
  <2> QED
    BY <2>2, <2>3, <2>4
\* One response.
<1>3. /\ IsFiniteSet(At("resp")) /\ IsFiniteSet(At("done"))
      /\ Cardinality(At("resp")) \in Nat /\ Cardinality(At("done")) \in Nat
      /\ Cardinality(At("resp")) + Cardinality(At("done"))
           = (IF response_in_progress THEN 1 ELSE 0)
  <2>1. PICK x : At("resp") \in SUBSET {x} /\ At("done") \in SUBSET {x}
    BY <1>inv DEF Responded, Answered
  <2>2. At("resp") = {} \/ At("done") = {}
    BY <1>inv DEF Responded, Answered
  <2>3. response_in_progress <=> At("resp") # {} \/ At("done") # {}
    BY <1>inv DEF Responded, Answered
  <2> HIDE DEF At
  <2>4. /\ Cardinality(At("resp")) = IF At("resp") = {} THEN 0 ELSE 1
        /\ Cardinality(At("done")) = IF At("done") = {} THEN 0 ELSE 1
        /\ IsFiniteSet(At("resp")) /\ IsFiniteSet(At("done"))
    BY <2>1, AtMostOne
  <2> QED
    BY <2>2, <2>3, <2>4
<1>4. /\ IsFiniteSet(At("wait"))
      /\ Cardinality(At("wait")) = IF next_response_pending = None THEN 0 ELSE 1
  <2>1. At("wait") \in SUBSET {next_response_pending}
    BY <1>inv DEF Placed
  <2>2. next_response_pending = None <=> At("wait") = {}
    BY <1>inv, <1>none DEF Placed, TypeOK
  <2> HIDE DEF At
  <2> QED
    BY <2>1, <2>2, AtMostOne
\* The pipeline.
<1>5. n_trans = Cardinality(At("work"))
                 + (IF response_in_progress THEN 1 ELSE 0)
                 + (IF next_response_pending = None THEN 0 ELSE 1)
  <2>1. InPipeline(stage) = ((At("work") \cup At("wait")) \cup At("resp")) \cup At("done")
    BY DEF InPipeline, Pipelined, Answered
  <2>2. /\ At("work") \cap At("wait") = {}
        /\ (At("work") \cup At("wait")) \cap At("resp") = {}
        /\ ((At("work") \cup At("wait")) \cup At("resp")) \cap At("done") = {}
    OBVIOUS
  <2>3. IsFiniteSet(At("work")) /\ Cardinality(At("work")) \in Nat
    <3>1. At("work") \in SUBSET InPipeline(stage)
      BY DEF InPipeline, Pipelined
    <3> HIDE DEF At
    <3> QED
      BY <3>1, PipelineFinite, FS_Subset, FS_CardinalityType
  <2> HIDE DEF At
  <2>4. Cardinality({}) = 0
    BY FS_EmptySet
  <2>5. /\ IsFiniteSet(At("work") \cup At("wait"))
        /\ Cardinality(At("work") \cup At("wait"))
             = Cardinality(At("work")) + Cardinality(At("wait")) - 0
    BY <1>4, <2>2, <2>3, <2>4, FS_Union
  <2>6. /\ IsFiniteSet((At("work") \cup At("wait")) \cup At("resp"))
        /\ Cardinality((At("work") \cup At("wait")) \cup At("resp"))
             = Cardinality(At("work") \cup At("wait")) + Cardinality(At("resp")) - 0
    BY <1>3, <2>2, <2>4, <2>5, FS_Union
  <2>7. Cardinality(((At("work") \cup At("wait")) \cup At("resp")) \cup At("done"))
          = Cardinality((At("work") \cup At("wait")) \cup At("resp"))
              + Cardinality(At("done")) - 0
    <3> DEFINE U == (At("work") \cup At("wait")) \cup At("resp")
               D == At("done")
    <3>1. IsFiniteSet(U) /\ IsFiniteSet(D) /\ U \cap D = {}
      BY <1>3, <2>2, <2>6
    <3> HIDE DEF U, D
    <3>2. Cardinality(U \cup D) = Cardinality(U) + Cardinality(D) - Cardinality(U \cap D)
      BY <3>1, FS_Union
    <3>3. Cardinality(U \cup D) = Cardinality(U) + Cardinality(D) - 0
      BY <3>1, <3>2, <2>4, Zenon
    <3> QED
      BY <3>3 DEF U, D
  <2>8. n_trans =
          Cardinality(((At("work") \cup At("wait")) \cup At("resp")) \cup At("done"))
    BY <1>inv, <2>1 DEF Bounded
  <2> QED
    BY <1>3, <1>4, <2>3, <2>5, <2>6, <2>7, <2>8
<1>6. ASSUME response_in_progress, next_response_pending # None
      PROVE  Events("target", "internal") = {}
  <2>1. /\ Cardinality(At("work")) \in Nat /\ IsFiniteSet(At("work"))
    <3>1. At("work") \in SUBSET InPipeline(stage)
      BY DEF InPipeline, Pipelined
    <3> HIDE DEF At
    <3> QED
      BY <3>1, PipelineFinite, FS_Subset, FS_CardinalityType
  <2>2. n_trans <= 2
    BY <1>inv DEF Bounded
  <2> HIDE DEF At
  <2>3. Cardinality(At("work")) = 0
    BY <1>5, <1>6, <2>1, <2>2
  <2>4. At("work") = {}
    BY <2>1, <2>3, FS_EmptySet
  <2>5. \A t \in Trans : ~ Holds(Tgt, t, "internal")
    BY <2>4, <1>inv DEF At, Placed
  <2>6. \A e \in Tgt : e.phase # "internal"
    BY <2>5, <1>inv, EventTypes DEF Holds
  <2> QED
    BY <2>6 DEF Events, Tgt, ToSet
<1> HIDE DEF At, Ends
<1> QED
  BY <1>1, <1>2, <1>3, <1>5, <1>6 DEF NoFatal

\* The pool is never misused: a transaction is free exactly when no queue and no
\* pointer names it, and four objects are enough, for all delays.
THEOREM PoolIsSafe == Spec => []PoolSafe
<1>1. IInv => PoolSafe
  BY GoodPool DEF IInv
<1> QED
  BY <1>1, StagesInvariant, PTL

\* None of the fatal errors of the two peq_cb() is reached, for all delays.
THEOREM NothingFatal == Spec => []NoFatal
<1>1. IInv => NoFatal
  BY GoodNoFatal DEF IInv
<1> QED
  BY <1>1, StagesInvariant, PTL
=============================================================================
