------------------------------ MODULE CreditNode -----------------------------
(***************************************************************************)
(* modules/node/node.cpp: two nodes, the tx socket of each bound to the rx *)
(* socket of the other, that send each other data under credit-based flow  *)
(* control.  Every clock edge runs mth_entry() of both nodes, in either    *)
(* order: it sends one message if a credit is left, and gives back one     *)
(* credit if it owes one.  Both calls are nb_transport_fw() calls of the   *)
(* peer and take effect at once, in the middle of the caller's method.     *)
(***************************************************************************)
EXTENDS Naturals

CONSTANT MaxCredit   \* bound on the credits in node.xml or set by set_credit()

Node == {0, 1}
Peer(n) == 1 - n

VARIABLES m_credit,      \* messages the node may still send
          m_credit_ret,  \* credits it owes its peer
          ran,           \* nodes whose method has run in this clock cycle
          granted,       \* the credits a node was configured with
          idle           \* history: cycles in a row without a credit to send,
                         \* counted up to 2

vars == <<m_credit, m_credit_ret, ran, granted, idle>>

\* get_config() or set_credit(), before the simulation starts.
Init ==
  /\ granted \in [Node -> 0 .. MaxCredit]
  /\ m_credit = granted
  /\ m_credit_ret = [n \in Node |-> 0]
  /\ ran = Node
  /\ idle = [n \in Node |-> 0]

posedge ==
  /\ ran = Node
  /\ ran' = {}
  /\ UNCHANGED <<m_credit, m_credit_ret, granted, idle>>

Sends(n) == m_credit[n] > 0

\* Mutant of Returns: a node that sends data gives back no credit.
ReturnsElse(n) == m_credit_ret[n] > 0 /\ ~ Sends(n)

Returns(n) == m_credit_ret[n] > 0

\* Mutant of CreditsAfter: a credit message sets the credits of its receiver.
CreditsAfterSet(n) ==
  [m_credit EXCEPT ![n] = IF Sends(n) THEN @ - 1 ELSE @,
                   ![Peer(n)] = IF Returns(n) THEN 1 ELSE @]

\* The credits after n sent data and its peer got a credit message.
CreditsAfter(n) ==
  [m_credit EXCEPT ![n] = IF Sends(n) THEN @ - 1 ELSE @,
                   ![Peer(n)] = IF Returns(n) THEN @ + 1 ELSE @]

\* The credits that are owed after the peer got data and n gave back a credit.
OwedAfter(n) ==
  [m_credit_ret EXCEPT ![n] = IF Returns(n) THEN @ - 1 ELSE @,
                       ![Peer(n)] = IF Sends(n) THEN @ + 1 ELSE @]

mth_entry(n) ==
  /\ n \notin ran
  /\ m_credit' = CreditsAfter(n)
  /\ m_credit_ret' = OwedAfter(n)
  /\ ran' = ran \cup {n}
  /\ idle' = [idle EXCEPT ![n] = IF Sends(n) THEN 0 ELSE IF @ = 2 THEN 2 ELSE @ + 1]
  /\ UNCHANGED granted

Next == posedge \/ \E n \in Node : mth_entry(n)

Spec == Init /\ [][Next]_vars

-----------------------------------------------------------------------------

TypeOK ==
  /\ granted \in [Node -> 0 .. MaxCredit]
  /\ m_credit \in [Node -> Nat] /\ m_credit_ret \in [Node -> Nat]
  /\ ran \subseteq Node
  /\ idle \in [Node -> 0 .. 2]

\* No credit is lost and none is invented, whatever the order in which the two
\* methods run and call into each other: a node has the credits it was given,
\* less those its peer still owes it.
CreditsConserved ==
  \A n \in Node : m_credit[n] + m_credit_ret[Peer(n)] = granted[n]

\* Traffic never stalls: a node with any credit at all is without one for at
\* most one cycle at a time, and its peer owes it at most two, although each
\* gives back one per cycle only.
NeverStalls ==
  \A n \in Node :
    /\ granted[n] > 0 => idle[n] <= 1
    /\ m_credit_ret[n] <= 2
=============================================================================
