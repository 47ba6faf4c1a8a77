------------------------------ MODULE AtProtocol -----------------------------
(***************************************************************************)
(* test/peq_test.cpp: an initiator and a target that talk the four-phase   *)
(* base protocol of TLM-2.  Both keep the calls they receive in a payload  *)
(* event queue (m_peq) until the time annotated to the call has passed.    *)
(* The target pipelines two transactions and puts off END_REQ, and so the  *)
(* next request, while its pipeline is full.  Transactions come from a     *)
(* pool (mm) and go back to it when their reference count reaches 0.       *)
(*                                                                         *)
(* Time is SystemC's: delta cycles at one instant, then the next instant.  *)
(* A call annotated with no delay is due one delta cycle later, any other  *)
(* in the first delta cycle of its instant; what is due in one delta cycle *)
(* runs in any order, but from one queue in the order it was notified.     *)
(* The initiator's pause between transactions may have any length.         *)
(***************************************************************************)
EXTENDS Naturals, Sequences, SequencesExt, FiniteSets

CONSTANTS MaxDelay,   \* bound on the instants rand_ps() may annotate
          MaxTrans    \* bound on the transaction objects

ASSUME BoundsAssumption == MaxDelay \in Nat /\ MaxTrans \in Nat

Trans == 1 .. MaxTrans
None  == 0

VARIABLES thread,               \* thread_process(): idle, blocked, notified
          request,              \* its transaction while it is not idle
          request_in_progress,
          n_trans, response_in_progress, next_response_pending, end_req_pending,
          m_peq,                \* one queue for each side
          free_list, created, ref_count

initiator == <<thread, request, request_in_progress>>
target == <<n_trans, response_in_progress, next_response_pending, end_req_pending>>
mm == <<free_list, created, ref_count>>
vars == <<initiator, target, m_peq, mm>>

Init ==
  /\ thread = "idle" /\ request = None /\ request_in_progress = None
  /\ n_trans = 0 /\ response_in_progress = FALSE
  /\ next_response_pending = None /\ end_req_pending = None
  /\ m_peq = [side \in {"initiator", "target"} |-> <<>>]
  /\ free_list = <<>> /\ created = 0 /\ ref_count = [t \in Trans |-> 0]

-----------------------------------------------------------------------------
(* The payload event queues, the time and the pool.                        *)

rand_ps == 0 .. MaxDelay

Event(t, phase, delay) ==
  [trans |-> t, phase |-> phase, delay |-> delay, delta |-> delay = 0]

IsDue(e) == e.delay = 0 /\ ~ e.delta
NoneDue(side) == \A k \in DOMAIN m_peq[side] : ~ IsDue(m_peq[side][k])

\* The callback of a side runs with the first due event that has this phase;
\* no other due event was notified before it.
Fires(side, phase, k) ==
  /\ k \in DOMAIN m_peq[side]
  /\ m_peq[side][k].phase = phase
  /\ IsDue(m_peq[side][k])
  /\ \A l \in 1 .. k - 1 : ~ IsDue(m_peq[side][l])

\* The next delta cycle, or the next instant if there is none.
Advance ==
  LET Pending(P(_)) == \E side \in DOMAIN m_peq :
        \E k \in DOMAIN m_peq[side] : P(m_peq[side][k])
      InDelta(e) == e.delta
      Later(e) == e.delay > 0
  IN
  /\ \A side \in DOMAIN m_peq : NoneDue(side)
  /\ \/ /\ Pending(InDelta)
        /\ m_peq' = [side \in DOMAIN m_peq |-> [k \in DOMAIN m_peq[side] |->
             [m_peq[side][k] EXCEPT !.delta = FALSE]]]
     \/ /\ ~ Pending(InDelta) /\ Pending(Later)
        /\ m_peq' = [side \in DOMAIN m_peq |-> [k \in DOMAIN m_peq[side] |->
             [m_peq[side][k] EXCEPT !.delay = @ - 1]]]
  /\ UNCHANGED <<initiator, target, mm>>

\* acquire() and release(), which returns the object to the pool.
acquire(t) ==
  /\ ref_count' = [ref_count EXCEPT ![t] = @ + 1]
  /\ UNCHANGED <<free_list, created>>

release(t) ==
  /\ ref_count' = [ref_count EXCEPT ![t] = @ - 1]
  /\ free_list' = IF ref_count[t] = 1 THEN <<t>> \o free_list ELSE free_list
  /\ UNCHANGED created

\* mm::allocate() and the acquire() that follows.
allocate(t) ==
  /\ \/ /\ free_list # <<>> /\ t = Head(free_list)
        /\ free_list' = Tail(free_list)
        /\ UNCHANGED created
     \/ /\ free_list = <<>> /\ created < MaxTrans /\ t = created + 1
        /\ created' = t
        /\ UNCHANGED free_list
  /\ ref_count' = [ref_count EXCEPT ![t] = @ + 1]

-----------------------------------------------------------------------------
(* The initiator.                                                          *)

\* nb_transport_fw() of the target accepts the call into its queue: all
\* attributes are supported.
SendBeginReq(t) ==
  /\ request_in_progress' = t
  /\ thread' = "idle" /\ request' = None
  /\ \E delay \in rand_ps :
       m_peq' = [m_peq EXCEPT !["target"] = Append(@, Event(t, "BEGIN_REQ", delay))]
  /\ UNCHANGED target

\* thread_process(): a new transaction, sent at once or held back.
NewTransaction(t) ==
  /\ thread = "idle"
  /\ allocate(t)
  /\ IF request_in_progress = None
     THEN SendBeginReq(t)
     ELSE /\ thread' = "blocked" /\ request' = t
          /\ UNCHANGED <<request_in_progress, target, m_peq>>

\* wait(end_request_event) returns.
thread_process ==
  /\ thread = "notified"
  /\ SendBeginReq(request)
  /\ UNCHANGED mm

\* Mutant of EndRequest: the event that the thread waits for is not notified.
EndRequestUnheard ==
  /\ request_in_progress' = None
  /\ UNCHANGED <<thread, request>>

\* end_request_event.notify(): lost unless the thread waits for it.
EndRequest ==
  /\ request_in_progress' = None
  /\ thread' = IF thread = "blocked" THEN "notified" ELSE thread
  /\ UNCHANGED request

InitiatorEndReq ==
  \E k \in DOMAIN m_peq["initiator"] :
    /\ Fires("initiator", "END_REQ", k)
    /\ EndRequest
    /\ m_peq' = [m_peq EXCEPT !["initiator"] = RemoveAt(@, k)]
    /\ UNCHANGED <<target, mm>>

\* BEGIN_RESP also ends the request of its own transaction.  The initiator
\* checks and releases the transaction, then answers END_RESP.
InitiatorBeginResp ==
  \E k \in DOMAIN m_peq["initiator"], delay \in rand_ps :
    LET t == m_peq["initiator"][k].trans IN
    /\ Fires("initiator", "BEGIN_RESP", k)
    /\ IF request_in_progress = t THEN EndRequest ELSE UNCHANGED initiator
    /\ release(t)
    /\ m_peq' = [m_peq EXCEPT !["initiator"] = RemoveAt(@, k),
                              !["target"] = Append(@, Event(t, "END_RESP", delay))]
    /\ UNCHANGED target

-----------------------------------------------------------------------------
(* The target.                                                             *)

\* What send_end_req() puts into the queues, for no transaction or one: the
\* acceptance after some delay and the response some time later.
Acceptance(t, accept) ==
  IF t = None THEN <<>> ELSE <<Event(t, "END_REQ", accept)>>
Latency(t, delay) ==
  IF t = None THEN <<>> ELSE <<Event(t, "internal", delay)>>

\* What send_response() puts into the queue of the initiator.
Response(t) == IF t = None THEN <<>> ELSE <<Event(t, "BEGIN_RESP", 0)>>

\* The target takes event k off its queue, accepts transaction a and responds
\* to transaction r.
Notify(k, a, r) ==
  \E accept, latency \in IF a = None THEN {0} ELSE rand_ps :
    m_peq' = [m_peq EXCEPT
      !["target"] = RemoveAt(@, k) \o Latency(a, accept + latency),
      !["initiator"] = @ \o Response(r) \o Acceptance(a, accept)]

\* Mutant of PipelineFull: one transaction more.
PipelineFullLate == n_trans = 3

\* END_REQ is deferred until the pipeline is clear.
PipelineFull == n_trans = 2

\* Mutant of TargetAcquire: the target relies on the initiator's reference.
TargetAcquireNot(t) == UNCHANGED mm

TargetAcquire(t) == acquire(t)

TargetBeginReq ==
  \E k \in DOMAIN m_peq["target"] :
    LET t == m_peq["target"][k].trans IN
    /\ Fires("target", "BEGIN_REQ", k)
    /\ TargetAcquire(t)
    /\ IF PipelineFull
       THEN end_req_pending' = t /\ Notify(k, None, None) /\ UNCHANGED n_trans
       ELSE n_trans' = n_trans + 1 /\ Notify(k, t, None) /\ UNCHANGED end_req_pending
    /\ UNCHANGED <<initiator, response_in_progress, next_response_pending>>

\* The command is executed and answered, or its answer waits for END_RESP of
\* the one before.  (Two waiting answers are a fatal error.)
TargetInternal ==
  \E k \in DOMAIN m_peq["target"] :
    LET t == m_peq["target"][k].trans IN
    /\ Fires("target", "internal", k)
    /\ IF response_in_progress
       THEN /\ next_response_pending = None
            /\ next_response_pending' = t
            /\ Notify(k, None, None)
            /\ UNCHANGED response_in_progress
       ELSE /\ response_in_progress' = TRUE
            /\ Notify(k, None, t)
            /\ UNCHANGED next_response_pending
    /\ UNCHANGED <<initiator, n_trans, end_req_pending, mm>>

\* END_RESP releases the transaction, starts the waiting response and accepts
\* the deferred request.  (Without a response it is a fatal error.)
TargetEndResp ==
  \E k \in DOMAIN m_peq["target"] :
    /\ Fires("target", "END_RESP", k)
    /\ response_in_progress
    /\ release(m_peq["target"][k].trans)
    /\ response_in_progress' = (next_response_pending # None)
    /\ next_response_pending' = None
    /\ n_trans' = IF end_req_pending = None THEN n_trans - 1 ELSE n_trans
    /\ end_req_pending' = None
    /\ Notify(k, end_req_pending, next_response_pending)
    /\ UNCHANGED initiator

Callback ==
  \/ InitiatorEndReq \/ InitiatorBeginResp
  \/ TargetBeginReq \/ TargetInternal \/ TargetEndResp

Next ==
  \/ \E t \in Trans : NewTransaction(t)
  \/ thread_process
  \/ Callback
  \/ Advance

\* The simulation goes on: processes that are due run, and time passes.  The
\* loop of thread_process() ends (after 1000 transactions).
Spec ==
  /\ Init /\ [][Next]_vars
  /\ WF_vars(thread_process) /\ WF_vars(Callback) /\ WF_vars(Advance)
  /\ <>[][\A t \in Trans : ~ NewTransaction(t)]_vars

-----------------------------------------------------------------------------

\* The transactions that a queue or a pointer of either side still names.
Named == {t \in Trans :
  \/ \E side \in DOMAIN m_peq :
       \E k \in DOMAIN m_peq[side] : m_peq[side][k].trans = t
  \/ t \in {request, request_in_progress, next_response_pending, end_req_pending}}

\* A transaction goes back to the pool exactly when nobody names it any more:
\* its two holders release it in different callbacks, separated by a delay, and
\* the next transaction may get the same object.  Four objects are enough: two
\* in the pipeline, one deferred and one held back by the initiator.
PoolSafe ==
  /\ ToSet(free_list) = {t \in 1 .. created : ref_count[t] = 0}
  /\ Named = {t \in 1 .. created : ref_count[t] > 0}
  /\ Len(free_list) = Cardinality(ToSet(free_list))
  /\ created <= 4

Events(side, phase) == {k \in DOMAIN m_peq[side] : m_peq[side][k].phase = phase}

\* The exclusion rules of the protocol, which the fatal errors of both peq_cb()
\* check: one request at a time, one response at a time, and never more than one
\* response behind it or one request deferred, whatever the delays.
NoFatal ==
  /\ Cardinality(Events("target", "BEGIN_REQ"))
       + Cardinality(Events("initiator", "END_REQ"))
       + (IF end_req_pending = None THEN 0 ELSE 1) <= 1
  /\ Cardinality(Events("initiator", "BEGIN_RESP"))
       + Cardinality(Events("target", "END_RESP"))
       = (IF response_in_progress THEN 1 ELSE 0)
  /\ \A k \in Events("target", "internal") :
       IsDue(m_peq["target"][k]) =>
         ~ (response_in_progress /\ next_response_pending # None)
  /\ n_trans = Cardinality(Events("target", "internal"))
                 + (IF response_in_progress THEN 1 ELSE 0)
                 + (IF next_response_pending = None THEN 0 ELSE 1)

\* Every transaction comes back to the pool: no request stays deferred or held
\* back, and no notification that the initiator waits for is lost.
EveryTransactionReturns ==
  \A t \in Trans : ref_count[t] > 0 ~> ref_count[t] = 0
=============================================================================
