------------------------------ MODULE EventQueue -----------------------------
(***************************************************************************)
(* What a payload event queue promises.  A payload notified without a      *)
(* delay is due in the next delta cycle, one notified with a delay in the  *)
(* first delta cycle of its instant, and one notified immediately at once. *)
(* Neither a delta cycle nor an instant ends before everything due in it   *)
(* has been handed over, in the order of the notifications.                *)
(***************************************************************************)
EXTENDS Naturals, Sequences

CONSTANTS MaxTime,    \* bound on the instants
          Payload     \* what may be notified

VARIABLES now,
          yield,   \* payloads notified immediately
          due,     \* payloads of this delta cycle
          soon,    \* payloads of the next delta cycle
          later    \* payloads of every later instant

vars == <<now, yield, due, soon, later>>

Instants == 0 .. MaxTime

Init ==
  /\ now = 0
  /\ yield = <<>> /\ due = <<>> /\ soon = <<>>
  /\ later = [t \in Instants |-> <<>>]

Immediately(p) == yield' = Append(yield, p) /\ UNCHANGED <<now, due, soon, later>>

InOneDelta(p) == soon' = Append(soon, p) /\ UNCHANGED <<now, yield, due, later>>

AtInstant(p, t) ==
  /\ t > now
  /\ later' = [later EXCEPT ![t] = Append(@, p)]
  /\ UNCHANGED <<now, yield, due, soon>>

\* The first payload that is due goes to the owner, whose callback may notify
\* another one.
HandOver ==
  /\ \/ yield # <<>> /\ yield' = Tail(yield) /\ UNCHANGED due
     \/ yield = <<>> /\ due # <<>> /\ due' = Tail(due) /\ UNCHANGED yield
  /\ \/ UNCHANGED <<soon, later>>
     \/ \E p \in Payload : soon' = Append(soon, p) /\ UNCHANGED later
     \/ \E p \in Payload, t \in Instants :
          /\ t > now
          /\ later' = [later EXCEPT ![t] = Append(@, p)]
          /\ UNCHANGED soon
  /\ UNCHANGED now

AllHandedOver == yield = <<>> /\ due = <<>>

NextDelta ==
  /\ AllHandedOver
  /\ due' = soon /\ soon' = <<>>
  /\ UNCHANGED <<now, yield, later>>

NextInstant(t) ==
  /\ AllHandedOver /\ soon = <<>>
  /\ t > now
  /\ \A u \in now + 1 .. t - 1 : later[u] = <<>>
  /\ now' = t /\ due' = later[t]
  /\ later' = [later EXCEPT ![t] = <<>>]
  /\ UNCHANGED <<yield, soon>>

CancelAll ==
  /\ yield' = <<>> /\ due' = <<>> /\ soon' = <<>>
  /\ later' = [t \in Instants |-> <<>>]
  /\ UNCHANGED now

Next ==
  \/ \E p \in Payload : Immediately(p) \/ InOneDelta(p)
  \/ \E p \in Payload, t \in Instants : AtInstant(p, t)
  \/ HandOver \/ NextDelta \/ CancelAll
  \/ \E t \in Instants : NextInstant(t)

Spec == Init /\ [][Next]_vars
=============================================================================
