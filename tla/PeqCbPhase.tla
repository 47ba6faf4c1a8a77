------------------------------ MODULE PeqCbPhase -----------------------------
(***************************************************************************)
(* tlm_utils/peq_with_cb_and_phase.h, the payload event queue of the       *)
(* four-phase initiator and target.  One event, m_e, starts the method     *)
(* fec(), which hands the payloads that are due to the owner's callback.   *)
(* The event holds one notification only, of which the earliest wins, so   *)
(* fec() must notify it again for every payload it leaves behind.          *)
(*                                                                         *)
(* The event is SystemC's: a notification replaces a later one, and an     *)
(* immediate one cancels every other.  The owner and other processes may   *)
(* notify at any point of an evaluation, the callback in the middle of     *)
(* fec().  As the owners in this repository, it does so with a delay or    *)
(* in a delta cycle, never immediately.                                    *)
(***************************************************************************)
EXTENDS Naturals, Sequences, SequencesExt

CONSTANTS MaxTime,    \* bound on the instants
          MaxNotes    \* bound on the notifications

VARIABLES now,
          parity,               \* of sc_delta_count()
          m_e,                  \* instant of the pending notification: now for
                                \* the next delta cycle, Never for none
          fec,                  \* the method's progress
          m_ppq,                \* timed payloads, by time
          m_delta,              \* payloads by the parity of their delta cycle:
                                \* m_even_delta and m_uneven_delta
          m_immediate_yield,
          notes                 \* notifications so far: each has its own payload

lists == <<m_ppq, m_delta, m_immediate_yield>>
vars  == <<now, parity, m_e, fec, lists, notes>>

Instants == 0 .. MaxTime
Never == MaxTime + 1
Payload == 1 .. MaxNotes

Init ==
  /\ now = 0 /\ parity = 0
  /\ m_e = Never /\ fec = "idle"
  /\ m_ppq = <<>> /\ m_delta = [b \in {0, 1} |-> <<>>] /\ m_immediate_yield = <<>>
  /\ notes = 0

-----------------------------------------------------------------------------
(* The lists and the event.                                                *)

\* sc_event::notify(): the earlier notification stays.
Earlier(e, t) == IF t < e THEN t ELSE e

\* The first place of the list that is not before instant t.
Place(q, t) == Min({k \in 1 .. Len(q) + 1 : k <= Len(q) => q[k].t >= t})

\* Mutant of insert: a payload goes before those of the same instant.
insertBefore(q, e) == InsertAt(q, Place(q, e.t), e)

\* time_ordered_list::insert(): before the first payload that is later.
insert(q, e) == InsertAt(q, Place(q, e.t + 1), e)

\* The delta cycle after this one.
OtherParity == 1 - parity

\* What notify() leaves of the queue: for the next delta cycle, or for the
\* instant t at which the delay ends.
AfterDelta ==
  [ppq |-> m_ppq, notes |-> notes + 1, e |-> Earlier(m_e, now),
   delta |-> [m_delta EXCEPT ![OtherParity] = Append(@, notes + 1)]]

AfterTimed(t) ==
  [ppq |-> insert(m_ppq, [p |-> notes + 1, t |-> t]), notes |-> notes + 1,
   e |-> Earlier(m_e, t), delta |-> m_delta]

AfterNotify ==
  IF notes < MaxNotes
  THEN {AfterDelta} \cup {AfterTimed(t) : t \in now + 1 .. MaxTime}
  ELSE {}

Untouched == [ppq |-> m_ppq, notes |-> notes, e |-> m_e, delta |-> m_delta]

-----------------------------------------------------------------------------
(* Calls of the owner and of other processes.                              *)

Outside == fec \in {"idle", "triggered"}

notify ==
  /\ Outside
  /\ \E q \in AfterNotify :
       m_ppq' = q.ppq /\ m_delta' = q.delta /\ m_e' = q.e /\ notes' = q.notes
  /\ UNCHANGED <<now, parity, fec, m_immediate_yield>>

notify_immediate ==
  /\ Outside /\ notes < MaxNotes
  /\ notes' = notes + 1
  /\ m_immediate_yield' = Append(m_immediate_yield, notes')
  /\ m_e' = Never /\ fec' = "triggered"
  /\ UNCHANGED <<now, parity, m_ppq, m_delta>>

cancel_all ==
  /\ Outside
  /\ m_ppq' = <<>> /\ m_delta' = [b \in {0, 1} |-> <<>>] /\ m_immediate_yield' = <<>>
  /\ m_e' = Never
  /\ UNCHANGED <<now, parity, fec, notes>>

-----------------------------------------------------------------------------
(* fec(), one callback at a time; a callback may notify.                   *)

fecStarts ==
  /\ fec = "triggered" /\ fec' = "yield"
  /\ UNCHANGED <<now, parity, m_e, lists, notes>>

YieldOne ==
  /\ fec = "yield" /\ m_immediate_yield # <<>>
  /\ m_immediate_yield' = Tail(m_immediate_yield)
  /\ \E q \in {Untouched} \cup AfterNotify :
       m_ppq' = q.ppq /\ m_delta' = q.delta /\ m_e' = q.e /\ notes' = q.notes
  /\ UNCHANGED <<now, parity, fec>>

YieldDone ==
  /\ fec = "yield" /\ m_immediate_yield = <<>>
  /\ fec' = "delta"
  /\ UNCHANGED <<now, parity, m_e, lists, notes>>

DeltaOne ==
  /\ fec = "delta" /\ m_delta[parity] # <<>>
  /\ \E q \in {Untouched} \cup AfterNotify :
       /\ m_delta' = [q.delta EXCEPT ![parity] = Tail(@)]
       /\ m_ppq' = q.ppq /\ m_e' = q.e /\ notes' = q.notes
  /\ UNCHANGED <<now, parity, fec, m_immediate_yield>>

\* The other list keeps the event notified; without timed payloads fec() returns.
DeltaDone ==
  /\ fec = "delta" /\ m_delta[parity] = <<>>
  /\ m_e' = IF m_delta[OtherParity] # <<>> THEN Earlier(m_e, now) ELSE m_e
  /\ fec' = IF m_ppq = <<>> THEN "idle" ELSE "timed"
  /\ UNCHANGED <<now, parity, lists, notes>>

TopIsNow == m_ppq # <<>> /\ Head(m_ppq).t = now

\* delete_top() follows the callback, which may have inserted another payload.
TimedOne ==
  /\ fec = "timed" /\ TopIsNow
  /\ \E q \in {Untouched} \cup AfterNotify :
       /\ m_ppq' = Tail(q.ppq)
       /\ m_delta' = q.delta /\ m_e' = q.e /\ notes' = q.notes
  /\ UNCHANGED <<now, parity, fec, m_immediate_yield>>

\* Mutant of Renotified: fec() leaves its event as it is.
NotRenotified == m_e

\* The event for the payloads that are left.
Renotified == IF m_ppq # <<>> THEN Earlier(m_e, Head(m_ppq).t) ELSE m_e

TimedDone ==
  /\ fec = "timed" /\ ~ TopIsNow
  /\ m_e' = Renotified
  /\ fec' = "idle"
  /\ UNCHANGED <<now, parity, lists, notes>>

fecStep == fecStarts \/ YieldOne \/ YieldDone \/ DeltaOne \/ DeltaDone \/ TimedOne \/ TimedDone

-----------------------------------------------------------------------------
(* The simulation.                                                         *)

\* Another delta cycle of this instant, for the event or for other processes.
NextDelta ==
  /\ fec = "idle"
  /\ parity' = OtherParity
  /\ IF m_e = now THEN fec' = "triggered" /\ m_e' = Never ELSE UNCHANGED <<fec, m_e>>
  /\ UNCHANGED <<now, lists, notes>>

\* The first delta cycle of a later instant, at which the event or some other
\* process is due.
NextInstant(t) ==
  /\ fec = "idle" /\ m_e # now
  /\ t > now /\ t <= m_e
  /\ now' = t /\ parity' = OtherParity
  /\ IF m_e = t THEN fec' = "triggered" /\ m_e' = Never ELSE UNCHANGED <<fec, m_e>>
  /\ UNCHANGED <<lists, notes>>

SomeInstant == \E t \in Instants : NextInstant(t)

Next ==
  \/ notify \/ notify_immediate \/ cancel_all
  \/ fecStep
  \/ NextDelta \/ SomeInstant

\* The kernel runs the method it has triggered, and time passes.
Spec ==
  /\ Init /\ [][Next]_vars
  /\ WF_vars(fecStep) /\ WF_vars(NextDelta) /\ WF_vars(SomeInstant)

-----------------------------------------------------------------------------

TypeOK ==
  /\ now \in Instants /\ parity \in {0, 1} /\ notes \in 0 .. MaxNotes
  /\ m_e \in now .. Never
  /\ fec \in {"idle", "triggered", "yield", "delta", "timed"}
  /\ m_ppq \in Seq([p : Payload, t : Instants])
  /\ m_delta \in [{0, 1} -> Seq(Payload)] /\ m_immediate_yield \in Seq(Payload)

Payloads(q) == [k \in DOMAIN q |-> q[k].p]
PayloadsAt(t) ==
  LET first == Place(m_ppq, t)
  IN  [k \in 1 .. Place(m_ppq, t + 1) - first |-> m_ppq[first + k - 1].p]

\* The queue keeps the promise of a payload event queue although one event
\* stands for all payloads: it hands over every payload in the delta cycle it
\* is due in, in the order of the notifications.
Queue == INSTANCE EventQueue WITH
  yield <- m_immediate_yield,
  due   <- m_delta[parity] \o PayloadsAt(now),
  soon  <- m_delta[OtherParity],
  later <- [t \in Instants |-> IF t > now THEN PayloadsAt(t) ELSE <<>>]

\* No payload waits for ever: time does not have to stand still for it either.
Waiting(p) ==
  \/ p \in ToSet(Payloads(m_ppq)) \cup ToSet(m_immediate_yield)
  \/ \E b \in {0, 1} : p \in ToSet(m_delta[b])
EveryPayloadHandedOver == \A p \in Payload : Waiting(p) ~> ~ Waiting(p)

ImplementsEventQueue == Queue!Spec
=============================================================================
