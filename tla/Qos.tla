--------------------------------- MODULE Qos ---------------------------------
(***************************************************************************)
(* class Qos of test/test.cpp: queues of data, one for each virtual        *)
(* channel, that a program fills with in() and empties with sp_sch(), the  *)
(* highest channel first, or rr_sch(), one channel after the other.  Both  *)
(* serve until the counter cnt is 0, whatever the queues hold.             *)
(***************************************************************************)
EXTENDS Naturals

CONSTANTS ChannelNum,   \* VIRTURL_CHANNEL_NUM
          MaxData       \* bound on the data of a channel

Channels == 0 .. ChannelNum - 1

VARIABLES vc,         \* lengths of the queues
          cnt, last_sch,
          call,       \* the call that is being made
          passed      \* history: per channel, how often rr_sch() has served
                      \* others since it waits or was served

vars == <<vc, cnt, last_sch, call, passed>>

Init ==
  /\ vc = [c \in Channels |-> 0]
  /\ cnt = 0 /\ last_sch = 0
  /\ call = "none"
  /\ passed = [c \in Channels |-> 0]

in(priority) ==
  /\ call = "none" /\ vc[priority] < MaxData
  /\ vc' = [vc EXCEPT ![priority] = @ + 1]
  /\ cnt' = cnt + 1
  /\ UNCHANGED <<last_sch, call, passed>>

Call ==
  /\ call = "none" /\ call' \in {"sp_sch", "rr_sch"}
  /\ passed' = [c \in Channels |-> 0]
  /\ UNCHANGED <<vc, cnt, last_sch>>

Return ==
  /\ call # "none" /\ cnt = 0
  /\ call' = "none"
  /\ UNCHANGED <<vc, cnt, last_sch, passed>>

Serve(c) ==
  /\ vc' = [vc EXCEPT ![c] = @ - 1]
  /\ cnt' = cnt - 1
  /\ passed' = [d \in Channels |-> IF d = c \/ vc[d] = 0 THEN 0 ELSE passed[d] + 1]
  /\ UNCHANGED call

Waiting == {c \in Channels : vc[c] > 0}

sp_sch ==
  /\ call = "sp_sch" /\ cnt > 0
  /\ \E c \in Waiting : (\A d \in Waiting : d <= c) /\ Serve(c)
  /\ UNCHANGED last_sch

\* Steps from the channel that is next to c, going round.
Ahead(c) == (c + ChannelNum - last_sch) % ChannelNum

\* Mutant of NextChannel: the turn stays with the channel that was served.
NextChannelStays(c) == c

NextChannel(c) == (c + 1) % ChannelNum

\* The first channel that waits is served, and the one behind it is next.
rr_sch ==
  /\ call = "rr_sch" /\ cnt > 0
  /\ \E c \in Waiting :
       /\ \A d \in Waiting : Ahead(c) <= Ahead(d)
       /\ Serve(c)
       /\ last_sch' = NextChannel(c)

Next == Call \/ Return \/ sp_sch \/ rr_sch \/ \E c \in Channels : in(c)

Loop == Return \/ sp_sch \/ rr_sch

Spec == Init /\ [][Next]_vars /\ WF_vars(Loop)

-----------------------------------------------------------------------------

TypeOK ==
  /\ vc \in [Channels -> 0 .. MaxData]
  /\ cnt \in Nat /\ last_sch \in Channels
  /\ call \in {"none", "sp_sch", "rr_sch"}

\* While a channel waits, rr_sch() serves others fewer than ChannelNum times in all:
\* the next channel moves on past every one that is served or empty.
WaitsOneRound == call = "rr_sch" => \A c \in Channels : passed[c] < ChannelNum

\* Every call returns, and leaves no data behind: the loops run until the counter
\* is 0, which must be when the queues are empty, and not earlier or never.
EveryCallReturns == call # "none" ~> call = "none" /\ Waiting = {}
=============================================================================
