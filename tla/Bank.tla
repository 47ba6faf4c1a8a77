--------------------------------- MODULE Bank --------------------------------
(***************************************************************************)
(* bank.cpp: B keeps lists of cells in two banks.  A names a list; B then  *)
(* writes its cells, one in every clock cycle, each into a free slice of   *)
(* the bank with most of them that is not being read, and chains the       *)
(* slices.  Some lists at a time are read, one slice every few cycles, and *)
(* a slice is free again when it is read.  A bank can be read once in a    *)
(* cycle; a reader that finds it taken tries again in the next cycle.      *)
(*                                                                         *)
(* A of the program names a list in every cycle; here it may pause, names  *)
(* are used again, and no more than MaxWaiting lists wait to be written:   *)
(* B looks at the first one only.                                          *)
(***************************************************************************)
EXTENDS Integers, Sequences, SequencesExt, FiniteSets, FiniteSetsExt

CONSTANTS SliceNum,      \* slices of a bank (128)
          LinkNum,       \* lists read at a time (4)
          Delay,         \* cycles between two reads of a list (4)
          WriteSlices,   \* cells of a list (16)
          Lists,         \* names of lists
          MaxWaiting     \* bound on the lists that wait to be written

Banks  == {0, 1}
Slices == 0 .. SliceNum - 1
Places == Banks \X Slices
NoPlace == <<-1, -1>>
NoList  == 0

VARIABLES encode_que, decode_que,
          decode_que_head,   \* lists that are being read
          queue_map,         \* per list the place of its first slice that is
                             \* left, and the cycles until it is read
          encode_vec,        \* owner and next place of every slice
          bank_deep_vec,     \* free slices of each bank
          written,           \* cells of the first waiting list written so far
          last               \* place of the last of them

vars == <<encode_que, decode_que, decode_que_head, queue_map, encode_vec,
          bank_deep_vec, written, last>>

Free   == [queue_id |-> NoList, next |-> NoPlace]
Absent == [place |-> NoPlace, counter |-> 0, delay |-> 0]
Fresh  == [place |-> <<0, 0>>, counter |-> 0, delay |-> 0]   \* what map's [] inserts

Init ==
  /\ encode_que = <<>> /\ decode_que = <<>> /\ decode_que_head = <<>>
  /\ queue_map = [q \in Lists |-> Absent]
  /\ encode_vec = [p \in Places |-> Free]
  /\ bank_deep_vec = [b \in Banks |-> SliceNum]
  /\ written = 0 /\ last = NoPlace

-----------------------------------------------------------------------------
(* One clock cycle of B: lists begin to be read, one slice of some lists   *)
(* is read, and one cell is written.                                       *)

\* The lists that begin to be read when enough of them are waiting.
Starting == IF Len(decode_que) > LinkNum THEN LinkNum - Len(decode_que_head) ELSE 0

Heads   == decode_que_head \o SubSeq(decode_que, 1, Starting)
Waiting == SubSeq(decode_que, Starting + 1, Len(decode_que))

DelayedBy(q, d) ==
  [IF queue_map[q] = Absent THEN Fresh ELSE queue_map[q] EXCEPT !.delay = d]

\* Readers start together, one cycle apart from each other.
Info ==
  [q \in Lists |->
     IF \E d \in 1 .. Starting : decode_que[d] = q
     THEN DelayedBy(q, CHOOSE d \in 1 .. Starting : decode_que[d] = q)
     ELSE queue_map[q]]

\* Mutant of CountedDown: a list that has not begun does not come closer to it.
CountedDownOnce(info) ==
  IF info.delay > 1 THEN info
  ELSE [info EXCEPT !.delay = 0, !.counter = IF @ > 0 THEN @ - 1 ELSE 0]

\* The wait for the start, and then for the next slice.
CountedDown(info) ==
  IF info.delay > 1 THEN [info EXCEPT !.delay = @ - 1]
  ELSE [info EXCEPT !.delay = 0, !.counter = IF @ > 0 THEN @ - 1 ELSE 0]

IsReady(info) == info # Absent /\ info.delay <= 1 /\ info.counter <= 1

\* Of the readers that are ready, in their order, the first of each bank.
FirstOfBanks(info) ==
  LET At(k) == info[Heads[k]] IN
  {Heads[k] : k \in {l \in DOMAIN Heads :
     /\ IsReady(At(l))
     /\ \A m \in 1 .. l - 1 : IsReady(At(m)) => At(m).place[1] # At(l).place[1]}}

NextOf(info, q) == encode_vec[info[q].place].next

InfoAfter(info, readers, q) ==
  IF q \in readers
  THEN IF NextOf(info, q) = NoPlace THEN Absent
       ELSE [place |-> NextOf(info, q), counter |-> Delay, delay |-> 0]
  ELSE IF IsReady(info[q]) THEN [CountedDown(info[q]) EXCEPT !.counter = 1]
  ELSE CountedDown(info[q])

\* SelectSeq for the members of S, as a recursive function.
Kept(s, S) ==
  LET kept[k \in 0 .. Len(s)] ==
        IF k = 0 THEN <<>>
        ELSE IF s[k] \in S THEN Append(kept[k - 1], s[k]) ELSE kept[k - 1]
  IN kept[Len(s)]

\* A list that was read to its end makes room for one that waits.
Replacing(heads, left) == Len(left) < Len(heads) /\ Waiting # <<>>

\* What the readers leave to the writer.
AfterReads(info, readers) ==
  LET heads == Heads
      left  == Kept(heads, {q \in Lists : q \in readers => NextOf(info, q) # NoPlace})
      read  == {info[q].place : q \in readers}
      next  == IF Replacing(heads, left) THEN {Head(Waiting)} ELSE {}
  IN
  [heads |-> left \o (IF next # {} THEN <<Head(Waiting)>> ELSE <<>>),
   que   |-> IF next # {} THEN Tail(Waiting) ELSE Waiting,
   map   |-> [q \in Lists |->
                IF q \in next THEN DelayedBy(q, LinkNum - Len(left) - 1)
                ELSE IF q \in ToSet(heads) THEN InfoAfter(info, readers, q)
                ELSE queue_map[q]],
   vec   |-> [p \in Places |-> IF p \in read THEN Free ELSE encode_vec[p]],
   deep  |-> [b \in Banks |-> bank_deep_vec[b] + Cardinality({p \in read : p[1] = b})],
   reading |-> {p[1] : p \in read}]

\* The bank that is not being read and has more free slices, or else bank 0.
WriteBank(st) ==
  LET open == {b \in Banks \ st.reading : st.deep[b] > 0}
      deepest == {b \in open : \A c \in open : st.deep[b] >= st.deep[c]}
  IN IF deepest = {} THEN 0 ELSE Min(deepest)

FreeSlices(st) == {j \in Slices : st.vec[<<WriteBank(st), j>>] = Free}

\* The cell is chained behind the last one.
Chain(st, q, place) ==
  LET linked == IF last # NoPlace
                THEN [st.vec EXCEPT ![last].next = place]
                ELSE st.vec
  IN [linked EXCEPT ![place] = [queue_id |-> q, next |-> NoPlace]]

\* Mutant of LastAfter: the first cell of a list is chained to the list before.
LastAfterAll(place) == place

\* A list of its own begins after WriteSlices cells.
LastAfter(place) == IF written + 1 = WriteSlices THEN NoPlace ELSE place

WriteCell(st, q) ==
  LET place == <<WriteBank(st), Min(FreeSlices(st))>> IN
  /\ encode_vec' = Chain(st, q, place)
  /\ bank_deep_vec' = [st.deep EXCEPT ![place[1]] = @ - 1]
  /\ queue_map' = IF last = NoPlace
                  THEN [st.map EXCEPT ![q] = [place |-> place, counter |-> Delay, delay |-> 0]]
                  ELSE st.map
  /\ last' = LastAfter(place)

\* No slice of the bank is free: the cell is lost.
LoseCell(st) ==
  /\ encode_vec' = st.vec /\ bank_deep_vec' = st.deep /\ queue_map' = st.map
  /\ last' = LastAfter(last)

Write(st) ==
  IF encode_que = <<>>
  THEN /\ encode_vec' = st.vec /\ bank_deep_vec' = st.deep /\ queue_map' = st.map
       /\ decode_que' = st.que
       /\ UNCHANGED <<encode_que, written, last>>
  ELSE /\ IF FreeSlices(st) # {} THEN WriteCell(st, Head(encode_que)) ELSE LoseCell(st)
       /\ IF written + 1 = WriteSlices
          THEN /\ written' = 0
               /\ encode_que' = Tail(encode_que)
               /\ decode_que' = Append(st.que, Head(encode_que))
          ELSE written' = written + 1 /\ encode_que' = encode_que /\ decode_que' = st.que

process ==
  \E info \in {Info} :
    \E st \in {AfterReads(info, FirstOfBanks(info))} :
      decode_que_head' = st.heads /\ Write(st)

-----------------------------------------------------------------------------
(* A names a list, before or after B has had its cycle.                    *)

InUse == ToSet(encode_que) \cup ToSet(decode_que) \cup ToSet(decode_que_head)

rcv_from ==
  /\ Len(encode_que) < MaxWaiting /\ InUse # Lists
  /\ encode_que' = Append(encode_que, Min(Lists \ InUse))
  /\ UNCHANGED <<decode_que, decode_que_head, queue_map, encode_vec, bank_deep_vec,
                 written, last>>

Next == process \/ rcv_from

\* The clock ticks, and A of the program never stops.
Spec == Init /\ [][Next]_vars /\ WF_vars(process) /\ WF_vars(rcv_from)

-----------------------------------------------------------------------------

TypeOK ==
  /\ \A que \in {encode_que, decode_que, decode_que_head} : que \in Seq(Lists)
  /\ queue_map \in [Lists -> [place : Places \cup {NoPlace}, counter : 0 .. Delay,
                              delay : 0 .. LinkNum]]
  /\ encode_vec \in [Places -> [queue_id : Lists \cup {NoList}, next : Places \cup {NoPlace}]]
  /\ bank_deep_vec \in [Banks -> 0 .. SliceNum]
  /\ written \in 0 .. WriteSlices - 1 /\ last \in Places \cup {NoPlace}

\* The slices from place p on, with NoPlace behind the last one.
Chained(p) ==
  LET at[k \in 0 .. WriteSlices] ==
        IF k = 0 THEN p
        ELSE LET before == at[k - 1]
             IN IF before = NoPlace THEN NoPlace ELSE encode_vec[before].next
  IN {at[k] : k \in 0 .. WriteSlices}

OwnedBy(q) == {p \in Places : encode_vec[p].queue_id = q}

CellsLeft(q) == Cardinality(OwnedBy(q))

\* No cell is lost, mixed up or freed twice, although a slice is freed and
\* written again in one cycle and the two banks are shared by lists that are
\* written, waiting and read: the chain of a list holds its own slices and all
\* of them, a waiting list is complete, and each bank knows its free slices.
ListsIntact ==
  /\ \A q \in Lists :
       IF CellsLeft(q) > 0
       THEN Chained(queue_map[q].place) = OwnedBy(q) \cup {NoPlace}
       ELSE q \notin ToSet(decode_que) \cup ToSet(decode_que_head)
  /\ \A q \in ToSet(decode_que) : CellsLeft(q) = WriteSlices
  /\ \A q \in Lists : CellsLeft(q) > 0 => q \in InUse
  /\ encode_que # <<>> => CellsLeft(Head(encode_que)) = written
  /\ \A b \in Banks :
       bank_deep_vec[b] = Cardinality({j \in Slices : encode_vec[<<b, j>>] = Free})

\* Every list is read to its end, although readers wait for their turn, for a
\* bank and for enough lists to be waiting.
EveryListRead == \A q \in Lists : q \in InUse ~> q \notin InUse
=============================================================================
