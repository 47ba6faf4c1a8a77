---------------------------------- MODULE Peq --------------------------------
(***************************************************************************)
(* modules/peq/peq.h, a queue of payloads that is asked for what has       *)
(* expired, and its client peq_test() in test/peq_test.cpp: while fewer    *)
(* than max_dep payloads are in the queue it pushes one of Pushes          *)
(* payloads, then it lets a nanosecond pass and pops until nothing more    *)
(* comes.                                                                  *)
(***************************************************************************)
EXTENDS Naturals, Sequences, SequencesExt

CONSTANTS MaxTime,    \* bound on the instants
          MaxDelay,   \* the longest delay
          MaxDep,     \* max_dep (10)
          Pushes      \* 20

VARIABLES now, i,     \* i: payloads pushed so far
          m_peq,      \* the multimap: payloads by the instant they expire at
          step        \* where the loop of peq_test() is

vars == <<now, i, m_peq, step>>

Instants == 0 .. MaxTime
Payload  == 1 .. Pushes

Init == now = 0 /\ i = 0 /\ m_peq = <<>> /\ step = "push"

\* The first place of the queue that is not before instant t.
Place(q, t) == Min({k \in 1 .. Len(q) + 1 : k <= Len(q) => q[k].t >= t})

\* std::multimap::insert(): behind the payloads of the same instant.
insert(q, e) == InsertAt(q, Place(q, e.t + 1), e)

push_delayed_payload ==
  /\ step = "push" /\ i < Pushes /\ Len(m_peq) < MaxDep
  /\ i' = i + 1
  /\ \E delay \in 1 .. MaxDelay :
       /\ now + delay <= MaxTime
       /\ m_peq' = insert(m_peq, [p |-> i', t |-> now + delay])
  /\ step' = "wait"
  /\ UNCHANGED now

\* Nothing can be pushed; the loop goes on if something is in the queue.
NoPush ==
  /\ step = "push" /\ (i = Pushes \/ Len(m_peq) >= MaxDep)
  /\ step' = IF i = Pushes /\ m_peq = <<>> THEN "done" ELSE "wait"
  /\ UNCHANGED <<now, i, m_peq>>

sc_start ==
  /\ step = "wait" /\ now < MaxTime
  /\ now' = now + 1 /\ step' = "pop"
  /\ UNCHANGED <<i, m_peq>>

Expired == m_peq # <<>> /\ Head(m_peq).t <= now

pop_expired_payload ==
  /\ step = "pop"
  /\ IF Expired THEN m_peq' = Tail(m_peq) /\ UNCHANGED step
     ELSE step' = "push" /\ UNCHANGED m_peq
  /\ UNCHANGED <<now, i>>

Next == push_delayed_payload \/ NoPush \/ sc_start \/ pop_expired_payload

Spec == Init /\ [][Next]_vars /\ WF_vars(Next)

-----------------------------------------------------------------------------

TypeOK ==
  /\ now \in Instants /\ i \in 0 .. Pushes
  /\ m_peq \in Seq([p : Payload, t : Instants])
  /\ step \in {"push", "wait", "pop", "done"}

PayloadsAt(t) ==
  LET first == Place(m_peq, t)
  IN  [k \in 1 .. Place(m_peq, t + 1) - first |-> m_peq[first + k - 1].p]

\* Asked until it has nothing more in every nanosecond, the queue keeps the
\* promise of an event queue: each payload in its instant, in the order pushed.
Queue == INSTANCE EventQueue WITH
  yield <- <<>>,
  due   <- PayloadsAt(now),
  soon  <- <<>>,
  later <- [t \in Instants |-> IF t > now THEN PayloadsAt(t) ELSE <<>>]

\* No payload waits for ever.
Waiting(p) == \E k \in DOMAIN m_peq : m_peq[k].p = p
EveryPayloadHandedOver == \A p \in Payload : Waiting(p) ~> ~ Waiting(p)

ImplementsEventQueue == Queue!Spec
=============================================================================
