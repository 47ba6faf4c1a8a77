---------------------------- MODULE TransportProofs --------------------------
(***************************************************************************)
(* CopiesExactly, MovesExactly and ImplementsEventQueue for every value of *)
(* the constants.                                                          *)
(*                                                                         *)
(* The DMA controllers copy faithfully in a memory of any size, with       *)
(* transfers and bursts of any length, and so does the DMA device whatever *)
(* its host does.  The property does not say what is in data_buffer or buf *)
(* between the two halves of a burst, nor how the registers of the device  *)
(* follow the transfer that was programmed; the inductive invariants do.   *)
(*                                                                         *)
(* The memory is served byte after byte; Carried says what is done after   *)
(* some of them: at every address the last byte that was stored there.     *)
(* An induction over the bytes is a step from the least number of bytes    *)
(* for which this is wrong.                                                *)
(*                                                                         *)
(* The payload event queues hand over every payload when it is due, for    *)
(* any number of payloads and instants.  The lists are sorted by instant;  *)
(* what the abstract queue holds for an instant is the stretch of the list *)
(* between two places, and the first lemmas say how insertion and deletion *)
(* move these.                                                             *)
(***************************************************************************)
EXTENDS Transport, Lemmas, SequenceTheorems

(***************************************************************************)
(* The DMA controllers, unit "dma_ctrl".                                   *)
(***************************************************************************)

CtrlType ==
  /\ src_addr \in 0 .. MEM_SIZE /\ dst_addr \in 0 .. MEM_SIZE
  /\ length \in 1 .. MaxLength /\ burst_size \in 1 .. MaxBurst
  /\ i \in Nat
  /\ data_buffer \in [0 .. MaxLength - 1 -> Nat]
  /\ mem \in [Ctrl!Addresses -> Nat]
  /\ step \in {"read", "write", "failed"}

\* Bytes of the region that were written.
Copied(a) == dst_addr <= a /\ a < dst_addr + i /\ a < dst_addr + length

MemRight == Ctrl!ForwardSafe => \A a \in Ctrl!Addresses : mem[a] = IF Copied(a) THEN src_addr + (a - dst_addr) ELSE a

\* The burst that was read and not yet written.
BufferRight ==
  step = "write" =>
    /\ src_addr + i + Ctrl!current_len <= MEM_SIZE
    /\ Ctrl!ForwardSafe => \A k \in i .. i + Ctrl!current_len - 1 : data_buffer[k] = src_addr + k

\* Every byte of the region that was copied lies in the memory.
PrefixFits ==
  \A n \in 1 .. length :
    n <= i => src_addr + n <= MEM_SIZE /\ dst_addr + n <= MEM_SIZE

Progress ==
  /\ i = 0 \/ i >= burst_size
  /\ step # "read" => i < length
  /\ step = "failed" => ~ Ctrl!Fits

CtrlInv == CtrlType /\ MemRight /\ BufferRight /\ PrefixFits /\ Progress

\* A burst is not empty, stays in the region, and is a whole one or the last one.
LEMMA CtrlBurst ==
  ASSUME MEM_SIZE \in Nat, MaxLength \in Nat, MaxBurst \in Nat, CtrlType, i < length
  PROVE  /\ Ctrl!current_len \in Nat /\ Ctrl!current_len >= 1
         /\ Ctrl!current_len <= burst_size /\ i + Ctrl!current_len <= length
         /\ Ctrl!current_len = burst_size \/ i + Ctrl!current_len = length
  BY DEF CtrlType, Ctrl!current_len

\* A burst beyond the end of the memory belongs to a region beyond its end.
LEMMA BeyondTheEnd ==
  ASSUME MEM_SIZE \in Nat, MaxLength \in Nat, MaxBurst \in Nat, CtrlType, i < length,
         NEW addr \in Nat, ~ Ctrl!InMemory(addr + i)
  PROVE  addr + length > MEM_SIZE
<1>1. Ctrl!current_len \in Nat /\ Ctrl!current_len >= 1 /\ i + Ctrl!current_len <= length
  BY CtrlBurst
<1>2. i \in Nat /\ length \in Nat
  BY DEF CtrlType
<1> QED
  BY <1>1, <1>2 DEF Ctrl!InMemory

LEMMA CtrlInit ==
  ASSUME MEM_SIZE \in Nat, MaxLength \in Nat, MaxBurst \in Nat, Ctrl!Init
  PROVE  CtrlInv
<1>1. CtrlType
  BY DEF Ctrl!Init, CtrlType, Ctrl!Unread, Ctrl!Addresses
<1>2. MemRight
  BY <1>1 DEF Ctrl!Init, CtrlType, MemRight, Copied, Ctrl!Addresses
<1>3. BufferRight /\ Progress
  BY DEF Ctrl!Init, BufferRight, Progress
<1>4. PrefixFits
  BY <1>1 DEF Ctrl!Init, PrefixFits, CtrlType
<1> QED
  BY <1>1, <1>2, <1>3, <1>4 DEF CtrlInv

\* The first half of a burst: what is read are the bytes of the source as they
\* were, because no burst that was written has touched them.
LEMMA ReadKeepsCtrlInv ==
  ASSUME MEM_SIZE \in Nat, MaxLength \in Nat, MaxBurst \in Nat, CtrlInv, Ctrl!ReadBurst
  PROVE  CtrlInv'
<1> USE DEF CtrlInv
<1>0. step = "read" /\ i < length /\ UNCHANGED <<Ctrl!registers, i, mem>>
  BY DEF Ctrl!ReadBurst
<1>1. /\ src_addr' = src_addr /\ dst_addr' = dst_addr /\ length' = length
      /\ burst_size' = burst_size /\ i' = i /\ mem' = mem
  BY <1>0 DEF Ctrl!registers
<1>2. Ctrl!current_len' = Ctrl!current_len /\ Ctrl!ForwardSafe' = Ctrl!ForwardSafe /\ Ctrl!Fits' = Ctrl!Fits
  BY <1>1 DEF Ctrl!current_len, Ctrl!ForwardSafe, Ctrl!Fits
<1>3. /\ Ctrl!current_len \in Nat /\ Ctrl!current_len >= 1 /\ i + Ctrl!current_len <= length
      /\ i \in Nat /\ src_addr \in Nat /\ length \in Nat /\ length <= MaxLength
      /\ dst_addr \in Nat /\ burst_size \in Nat
  BY <1>0, CtrlBurst DEF CtrlType
<1>4. MemRight' /\ PrefixFits'
  BY <1>1, <1>2 DEF MemRight, PrefixFits, Copied
<1>5. CASE ~ Ctrl!InMemory(src_addr + i)
  <2>1. step' = "failed" /\ data_buffer' = data_buffer
    BY <1>5 DEF Ctrl!ReadBurst
  <2>2. CtrlType'
    BY <1>1, <2>1 DEF CtrlType
  <2>3. src_addr + length > MEM_SIZE
    BY <1>0, <1>3, <1>5, BeyondTheEnd
  <2>4. ~ Ctrl!Fits
    BY <1>3, <2>3 DEF Ctrl!Fits
  <2>5. Progress' /\ BufferRight'
    BY <1>0, <1>1, <1>2, <2>1, <2>4 DEF Progress, BufferRight
  <2> QED
    BY <1>4, <2>2, <2>5
<1>6. CASE Ctrl!InMemory(src_addr + i)
  <2>1. /\ step' = "write"
        /\ data_buffer' = [k \in DOMAIN data_buffer |->
             IF k \in {i + j : j \in Ctrl!BurstBytes} THEN mem[src_addr + k] ELSE data_buffer[k]]
    BY <1>6 DEF Ctrl!ReadBurst
  <2>2. src_addr + i + Ctrl!current_len <= MEM_SIZE
    BY <1>3, <1>6 DEF Ctrl!InMemory
  <2>3. \A k : k \in {i + j : j \in Ctrl!BurstBytes} <=> k \in i .. i + Ctrl!current_len - 1
    <3>1. ASSUME NEW k \in i .. i + Ctrl!current_len - 1 PROVE k - i \in Ctrl!BurstBytes /\ k = i + (k - i)
      BY <1>3 DEF Ctrl!BurstBytes
    <3>2. ASSUME NEW j \in Ctrl!BurstBytes PROVE i + j \in i .. i + Ctrl!current_len - 1
      BY <1>3 DEF Ctrl!BurstBytes
    <3> QED
      BY <3>1, <3>2
  <2>4. ASSUME NEW k \in i .. i + Ctrl!current_len - 1
        PROVE  k \in 0 .. MaxLength - 1 /\ src_addr + k \in Ctrl!Addresses /\ k \in Nat /\ k < length
    BY <1>3, <2>2 DEF Ctrl!Addresses
  <2>5. DOMAIN data_buffer = 0 .. MaxLength - 1
    BY DEF CtrlType
  <2>6. CtrlType'
    <3>1. ASSUME NEW k \in 0 .. MaxLength - 1 PROVE data_buffer'[k] \in Nat
      <4>1. CASE k \in i .. i + Ctrl!current_len - 1
        BY <4>1, <2>1, <2>3, <2>4, <2>5 DEF CtrlType
      <4>2. CASE k \notin i .. i + Ctrl!current_len - 1
        BY <4>2, <2>1, <2>3, <2>5 DEF CtrlType
      <4> QED
        BY <4>1, <4>2
    <3>2. data_buffer' \in [0 .. MaxLength - 1 -> Nat]
      BY <2>1, <2>5, <3>1
    <3> QED
      BY <1>1, <2>1, <3>2 DEF CtrlType
  <2>7. ASSUME Ctrl!ForwardSafe, NEW k \in i .. i + Ctrl!current_len - 1
        PROVE  data_buffer'[k] = src_addr + k
    <3>1. data_buffer'[k] = mem[src_addr + k]
      BY <2>1, <2>3, <2>4, <2>5
    <3>2. length <= burst_size => i = 0
      BY <1>0, <1>3 DEF Progress
    <3>3. ~ Copied(src_addr + k)
      BY <1>3, <2>4, <2>7, <3>2 DEF Copied, Ctrl!ForwardSafe
    <3> QED
      BY <2>4, <2>7, <3>1, <3>3 DEF MemRight
  <2>8. BufferRight'
    BY <1>1, <1>2, <2>2, <2>7 DEF BufferRight
  <2>9. Progress'
    BY <1>0, <1>1, <2>1 DEF Progress
  <2> QED
    BY <1>4, <2>6, <2>8, <2>9
<1> QED
  BY <1>5, <1>6

\* The second half: the region that was copied grows by the burst and by
\* nothing else.
LEMMA WriteKeepsCtrlInv ==
  ASSUME MEM_SIZE \in Nat, MaxLength \in Nat, MaxBurst \in Nat, CtrlInv, Ctrl!WriteBurst
  PROVE  CtrlInv'
<1> USE DEF CtrlInv
<1>0. step = "write" /\ i < length
  BY DEF Ctrl!WriteBurst, Progress
<1>1. /\ src_addr' = src_addr /\ dst_addr' = dst_addr /\ length' = length
      /\ burst_size' = burst_size /\ data_buffer' = data_buffer
  BY DEF Ctrl!WriteBurst, Ctrl!registers
<1>2. Ctrl!ForwardSafe' = Ctrl!ForwardSafe /\ Ctrl!Fits' = Ctrl!Fits
  BY <1>1 DEF Ctrl!ForwardSafe, Ctrl!Fits
<1>3. /\ Ctrl!current_len \in Nat /\ Ctrl!current_len >= 1 /\ i + Ctrl!current_len <= length
      /\ Ctrl!current_len <= burst_size
      /\ Ctrl!current_len = burst_size \/ i + Ctrl!current_len = length
      /\ i \in Nat /\ src_addr \in Nat /\ length \in Nat /\ length <= MaxLength
      /\ dst_addr \in Nat /\ burst_size \in Nat
  BY <1>0, CtrlBurst DEF CtrlType
<1>4. CASE ~ Ctrl!InMemory(dst_addr + i)
  <2>1. step' = "failed" /\ i' = i /\ mem' = mem
    BY <1>4 DEF Ctrl!WriteBurst
  <2>2. CtrlType'
    BY <1>1, <2>1 DEF CtrlType
  <2>3. dst_addr + length > MEM_SIZE
    BY <1>0, <1>3, <1>4, BeyondTheEnd
  <2>4. ~ Ctrl!Fits
    BY <1>3, <2>3 DEF Ctrl!Fits
  <2>5. Progress' /\ BufferRight'
    BY <1>0, <1>1, <1>2, <2>1, <2>4 DEF Progress, BufferRight
  <2>6. MemRight' /\ PrefixFits'
    BY <1>1, <1>2, <2>1 DEF MemRight, PrefixFits, Copied
  <2> QED
    BY <2>2, <2>5, <2>6
<1>5. CASE Ctrl!InMemory(dst_addr + i)
  <2>1. /\ step' = "read" /\ i' = i + burst_size
        /\ mem' = [a \in Ctrl!Addresses |->
             IF a \in {dst_addr + i + j : j \in Ctrl!BurstBytes} THEN data_buffer[a - dst_addr] ELSE mem[a]]
    BY <1>5 DEF Ctrl!WriteBurst
  <2>2. /\ dst_addr + i + Ctrl!current_len <= MEM_SIZE
        /\ src_addr + i + Ctrl!current_len <= MEM_SIZE
    BY <1>0, <1>3, <1>5 DEF Ctrl!InMemory, BufferRight
  <2>3. ASSUME NEW a \in Ctrl!Addresses
        PROVE  a \in {dst_addr + i + j : j \in Ctrl!BurstBytes} <=>
                 dst_addr + i <= a /\ a < dst_addr + i + Ctrl!current_len
    <3>1. ASSUME dst_addr + i <= a, a < dst_addr + i + Ctrl!current_len
          PROVE  a - (dst_addr + i) \in Ctrl!BurstBytes /\ a = dst_addr + i + (a - (dst_addr + i))
      BY <1>3, <3>1 DEF Ctrl!BurstBytes, Ctrl!Addresses
    <3>2. ASSUME NEW j \in Ctrl!BurstBytes, a = dst_addr + i + j
          PROVE  dst_addr + i <= a /\ a < dst_addr + i + Ctrl!current_len
      BY <1>3, <3>2 DEF Ctrl!BurstBytes
    <3> QED
      BY <3>1, <3>2
  <2>4. ASSUME NEW a \in Ctrl!Addresses, dst_addr + i <= a, a < dst_addr + i + Ctrl!current_len
        PROVE  a - dst_addr \in i .. i + Ctrl!current_len - 1 /\ a - dst_addr \in 0 .. MaxLength - 1
    BY <1>3, <2>4 DEF Ctrl!Addresses
  <2>5. ASSUME NEW a \in Ctrl!Addresses
        PROVE  Copied(a)' <=>
                 Copied(a) \/ (dst_addr + i <= a /\ a < dst_addr + i + Ctrl!current_len)
    BY <1>1, <1>3, <2>1 DEF Copied, Ctrl!Addresses
  <2>6. CtrlType'
    <3>1. ASSUME NEW a \in Ctrl!Addresses PROVE mem'[a] \in Nat
      <4>1. CASE dst_addr + i <= a /\ a < dst_addr + i + Ctrl!current_len
        BY <4>1, <2>1, <2>3, <2>4 DEF CtrlType
      <4>2. CASE ~ (dst_addr + i <= a /\ a < dst_addr + i + Ctrl!current_len)
        BY <4>2, <2>1, <2>3 DEF CtrlType
      <4> QED
        BY <4>1, <4>2
    <3>2. mem' \in [Ctrl!Addresses -> Nat]
      BY <2>1, <3>1
    <3>3. i' \in Nat
      BY <1>3, <2>1
    <3> QED
      BY <1>1, <2>1, <3>2, <3>3 DEF CtrlType
  <2>7. ASSUME Ctrl!ForwardSafe, NEW a \in Ctrl!Addresses
        PROVE  mem'[a] = IF Copied(a)' THEN src_addr + (a - dst_addr) ELSE a
    <3>1. CASE dst_addr + i <= a /\ a < dst_addr + i + Ctrl!current_len
      <4>1. mem'[a] = data_buffer[a - dst_addr]
        BY <3>1, <2>1, <2>3
      <4>2. data_buffer[a - dst_addr] = src_addr + (a - dst_addr)
        BY <1>0, <2>4, <2>7, <3>1 DEF BufferRight
      <4> QED
        BY <2>5, <3>1, <4>1, <4>2
    <3>2. CASE ~ (dst_addr + i <= a /\ a < dst_addr + i + Ctrl!current_len)
      <4>1. mem'[a] = mem[a]
        BY <3>2, <2>1, <2>3
      <4> QED
        BY <2>5, <2>7, <3>2, <4>1 DEF MemRight
    <3> QED
      BY <3>1, <3>2
  <2>8. MemRight'
    BY <1>1, <1>2, <2>7 DEF MemRight
  <2>9. PrefixFits'
    <3>1. ASSUME NEW n \in 1 .. length, n <= i + burst_size
          PROVE  src_addr + n <= MEM_SIZE /\ dst_addr + n <= MEM_SIZE
      BY <1>3, <2>2, <3>1
    <3> QED
      BY <1>1, <2>1, <3>1 DEF PrefixFits
  <2>10. BufferRight' /\ Progress'
    BY <1>1, <1>3, <2>1 DEF BufferRight, Progress
  <2> QED
    BY <2>6, <2>8, <2>9, <2>10
<1> QED
  BY <1>4, <1>5

LEMMA CtrlInvCopies ==
  ASSUME MEM_SIZE \in Nat, MaxLength \in Nat, MaxBurst \in Nat, CtrlInv
  PROVE  Ctrl!CopiesExactly
<1> USE DEF CtrlInv
<1>1. Ctrl!Completed => Ctrl!Fits
  <2>1. ASSUME Ctrl!Completed PROVE length \in 1 .. length /\ length <= i
    BY <2>1 DEF Ctrl!Completed, CtrlType
  <2> QED
    BY <2>1 DEF PrefixFits, Ctrl!Fits
<1>2. step = "failed" => ~ Ctrl!Fits /\ i < length
  BY DEF Progress
<1> QED
  BY <1>1, <1>2 DEF Ctrl!CopiesExactly, MemRight, Copied

(***************************************************************************)
(* The DMA device, unit "demo_dma".                                        *)
(***************************************************************************)

DemoType ==
  /\ dst_addr \in Nat /\ src_addr \in Nat /\ len \in Nat
  /\ tlen \in Nat
  /\ job \in [dst : Nat, src : Nat, len : Nat]
  /\ memory \in [Demo!Destinations -> Nat]

\* The registers follow the transfer: what is left ends where it ends.
OnTheWay ==
  /\ job.dst + job.len <= MaxLen /\ job.src + job.len <= MaxLen
  /\ len <= job.len
  /\ dst_addr + len = job.dst + job.len
  /\ src_addr + len = job.src + job.len

\* A burst that is under way is part of what is left.
InBurst ==
  thread \in {"reading", "writing"} => len > 0 /\ tlen <= len /\ buf = src_addr

\* The first address that was not written yet.
Frontier == IF thread = "writing" THEN dst_addr + tlen ELSE dst_addr

DemoMemory ==
  \A a \in Demo!Destinations :
    memory[a] = IF job.dst <= a /\ a < Frontier THEN job.src + (a - job.dst) ELSE Demo!Unwritten

DemoInv == DemoType /\ OnTheWay /\ InBurst /\ DemoMemory

LEMMA DemoInit ==
  ASSUME MaxLen \in Nat, Demo!Init
  PROVE  DemoInv
<1>1. DemoType
  BY DEF Demo!Init, DemoType, Demo!Unwritten, Demo!Destinations
<1>2. OnTheWay /\ InBurst
  BY DEF Demo!Init, OnTheWay, InBurst
<1>3. DemoMemory
  BY DEF Demo!Init, DemoMemory, Frontier, Demo!Destinations, Demo!Unwritten
<1> QED
  BY <1>1, <1>2, <1>3 DEF DemoInv

\* A step that leaves the copied bytes and the registers but ctrl alone, and
\* neither begins nor ends a burst.
LEMMA DemoIdle ==
  ASSUME DemoInv, UNCHANGED <<dst_addr, src_addr, len, tlen, buf, memory, job>>,
         thread' = thread \/ {thread, thread'} \cap {"reading", "writing"} = {}
  PROVE  DemoInv'
<1>1. DemoType' /\ OnTheWay'
  BY DEF DemoInv, DemoType, OnTheWay
<1>2. InBurst'
  BY DEF DemoInv, InBurst
<1>3. Frontier' = Frontier
  BY DEF Frontier
<1>4. DemoMemory'
  BY <1>3 DEF DemoInv, DemoMemory
<1> QED
  BY <1>1, <1>2, <1>4 DEF DemoInv

\* The host programs only when nothing is left, so no burst is under way.
LEMMA DemoProgram ==
  ASSUME MaxLen \in Nat, DemoInv, NEW dst \in 0 .. 1, NEW src \in 0 .. 1, NEW n \in 0 .. MaxLen,
         dst + n <= MaxLen, src + n <= MaxLen, Demo!Program(dst, src, n)
  PROVE  DemoInv'
<1>1. thread \notin {"reading", "writing"}
  BY DEF Demo!Program, Demo!Finished, DemoInv, InBurst
<1>2. /\ dst_addr' = dst /\ src_addr' = src /\ len' = n /\ thread' = thread /\ tlen' = tlen
      /\ job' = [dst |-> dst, src |-> src, len |-> n]
      /\ memory' = [a \in Demo!Destinations |-> Demo!Unwritten]
  BY DEF Demo!Program, Demo!local
<1>3. DemoType'
  BY <1>2 DEF DemoInv, DemoType, Demo!Destinations, Demo!Unwritten
<1>4. OnTheWay'
  BY <1>2 DEF OnTheWay
<1>5. InBurst'
  BY <1>1, <1>2 DEF InBurst
<1>6. DemoMemory'
  <2>1. Frontier' = dst
    BY <1>1, <1>2 DEF Frontier
  <2> QED
    BY <1>2, <2>1 DEF DemoMemory, Demo!Destinations
<1> QED
  BY <1>3, <1>4, <1>5, <1>6 DEF DemoInv

\* A burst begins, or the iteration has nothing to copy.
LEMMA DemoIterate ==
  ASSUME Burst \in Nat, DemoInv, thread \notin {"reading", "writing"}, NEW level, Demo!Iterate(level),
         UNCHANGED <<memory, job>>
  PROVE  DemoInv'
<1>1. CASE len > 0 /\ "RUN" \in ctrl
  <2>1. /\ tlen' = Demo!BurstLength /\ buf' = src_addr /\ thread' = "reading"
        /\ dst_addr' = dst_addr /\ src_addr' = src_addr /\ len' = len
    BY <1>1 DEF Demo!Iterate
  <2>2. Demo!BurstLength \in Nat /\ Demo!BurstLength <= len
    BY DEF Demo!BurstLength, DemoInv, DemoType
  <2>3. DemoType' /\ OnTheWay' /\ InBurst'
    BY <1>1, <2>1, <2>2 DEF DemoInv, DemoType, OnTheWay, InBurst
  <2>4. Frontier' = Frontier
    BY <2>1 DEF Frontier
  <2>5. DemoMemory'
    BY <2>4 DEF DemoInv, DemoMemory
  <2> QED
    BY <2>3, <2>5 DEF DemoInv
<1>2. CASE ~ (len > 0 /\ "RUN" \in ctrl)
  <2>1. /\ UNCHANGED <<dst_addr, src_addr, len, tlen, buf>>
        /\ thread' \in {"waiting", "pausing"}
    BY <1>2 DEF Demo!Iterate, Demo!Conclude, Demo!local
  <2> QED
    BY <2>1, DemoIdle
<1> QED
  BY <1>1, <1>2

\* The burst that was read is written behind the bytes copied before.
LEMMA DemoWrite ==
  ASSUME MaxLen \in Nat, DemoInv, Demo!Write
  PROVE  DemoInv'
<1>1. /\ thread = "reading" /\ thread' = "writing"
      /\ dst_addr' = dst_addr /\ src_addr' = src_addr /\ len' = len
      /\ tlen' = tlen /\ buf' = buf /\ job' = job
      /\ memory' = [a \in Demo!Destinations |->
           IF a \in dst_addr .. dst_addr + tlen - 1 THEN buf + (a - dst_addr) ELSE memory[a]]
  BY DEF Demo!Write, Demo!regs, Demo!local
<1>2. OnTheWay' /\ InBurst'
  BY <1>1 DEF DemoInv, OnTheWay, InBurst
<1>3. /\ dst_addr \in Nat /\ src_addr \in Nat /\ len \in Nat /\ tlen \in Nat
      /\ job.dst \in Nat /\ job.src \in Nat /\ job.len \in Nat
      /\ buf = src_addr /\ len <= job.len
      /\ dst_addr + len = job.dst + job.len /\ src_addr + len = job.src + job.len
  BY <1>1 DEF DemoInv, DemoType, OnTheWay, InBurst
<1>4. Frontier = dst_addr /\ Frontier' = dst_addr + tlen
  BY <1>1 DEF Frontier
<1>5. ASSUME NEW a \in Demo!Destinations
      PROVE  /\ memory'[a] = IF job.dst <= a /\ a < Frontier' THEN job.src + (a - job.dst) ELSE Demo!Unwritten
             /\ memory'[a] \in Nat
  <2>1. a \in Nat /\ Demo!Unwritten \in Nat
    BY DEF Demo!Destinations, Demo!Unwritten
  <2>2. CASE a \in dst_addr .. dst_addr + tlen - 1
    <3>1. memory'[a] = src_addr + (a - dst_addr)
      BY <1>1, <1>3, <2>2
    <3> QED
      BY <1>3, <1>4, <2>1, <2>2, <3>1
  <2>3. CASE a \notin dst_addr .. dst_addr + tlen - 1
    <3>1. memory'[a] = memory[a]
      BY <1>1, <2>3
    <3>2. memory[a] = IF job.dst <= a /\ a < dst_addr THEN job.src + (a - job.dst) ELSE Demo!Unwritten
      BY <1>4 DEF DemoInv, DemoMemory
    <3> QED
      BY <1>3, <1>4, <2>1, <2>3, <3>1, <3>2
  <2> QED
    BY <2>2, <2>3
<1>6. DemoType'
  BY <1>1, <1>5 DEF DemoInv, DemoType
<1>7. DemoMemory'
  BY <1>1, <1>5 DEF DemoMemory
<1> QED
  BY <1>2, <1>6, <1>7 DEF DemoInv

\* The registers move past the burst.
LEMMA DemoEndBurst ==
  ASSUME MaxLen \in Nat, DemoInv, Demo!EndBurst
  PROVE  DemoInv'
<1>1. /\ thread = "writing" /\ thread' \in {"waiting", "pausing"}
      /\ dst_addr' = dst_addr + tlen /\ src_addr' = src_addr + tlen /\ len' = len - tlen
      /\ tlen' = tlen /\ job' = job /\ memory' = memory
  BY DEF Demo!EndBurst, Demo!Conclude, Demo!local
<1>2. DemoType'
  BY <1>1 DEF DemoInv, DemoType, InBurst
<1>3. OnTheWay' /\ InBurst'
  BY <1>1 DEF DemoInv, DemoType, OnTheWay, InBurst
<1>4. Frontier' = Frontier
  BY <1>1 DEF Frontier
<1>5. DemoMemory'
  BY <1>1, <1>4 DEF DemoInv, DemoMemory
<1> QED
  BY <1>2, <1>3, <1>5 DEF DemoInv

LEMMA DemoKeepsInv ==
  ASSUME MaxLen \in Nat, Burst \in Nat, DemoInv, Demo!Next
  PROVE  DemoInv'
<1>1. CASE Demo!Host
  <2>1. CASE \E dst, src \in 0 .. 1, n \in 0 .. MaxLen :
               dst + n <= MaxLen /\ src + n <= MaxLen /\ Demo!Program(dst, src, n)
    BY <2>1, DemoProgram
  <2>2. CASE \/ \E flags \in {{}, {"RUN"}} : Demo!WriteCtrl(flags)
             \/ Demo!Wake
    <3>1. UNCHANGED <<dst_addr, src_addr, len, tlen, buf, memory, job, thread>>
      BY <2>2 DEF Demo!WriteCtrl, Demo!Wake, Demo!regs, Demo!local
    <3> QED
      BY <3>1, DemoIdle
  <2> QED
    BY <1>1, <2>1, <2>2 DEF Demo!Host
<1>2. CASE Demo!ev_dma_copy
  <2>1. CASE thread \in {"unborn", "waiting"} /\ Demo!Iterate(irq)
    BY <1>2, <2>1, DemoIterate DEF Demo!ev_dma_copy
  <2>2. CASE thread = "unborn" /\ Demo!Wait(irq)
    BY <1>2, <2>2, DemoIdle DEF Demo!ev_dma_copy, Demo!Wait, Demo!regs, Demo!local
  <2>3. CASE UNCHANGED <<Demo!regs, irq, thread, Demo!local>>
    BY <1>2, <2>3, DemoIdle DEF Demo!ev_dma_copy, Demo!regs, Demo!local
  <2> QED
    BY <1>2, <2>1, <2>2, <2>3 DEF Demo!ev_dma_copy
<1>3. CASE Demo!EndPause
  <2>1. thread = "pausing" /\ UNCHANGED <<memory, job>>
    BY <1>3 DEF Demo!EndPause
  <2>2. CASE Demo!Iterate(Demo!update_irqs)
    BY <2>1, <2>2, DemoIterate
  <2>3. CASE Demo!Wait(Demo!update_irqs)
    BY <2>1, <2>3, DemoIdle DEF Demo!Wait, Demo!regs, Demo!local
  <2> QED
    BY <1>3, <2>2, <2>3 DEF Demo!EndPause
<1> QED
  BY <1>1, <1>2, <1>3, DemoWrite, DemoEndBurst DEF Demo!Next, Demo!do_dma_copy

LEMMA DemoInvCopies ==
  ASSUME MaxLen \in Nat, DemoInv
  PROVE  Demo!CopyFaithful
<1>1. /\ dst_addr \in Nat /\ len \in Nat /\ tlen \in Nat
      /\ job.dst \in Nat /\ job.src \in Nat /\ job.len \in Nat
      /\ len <= job.len /\ dst_addr + len = job.dst + job.len /\ job.src + job.len <= MaxLen
  BY DEF DemoInv, DemoType, OnTheWay
<1>2. Frontier \in Nat /\ dst_addr <= Frontier /\ Frontier <= job.dst + job.len
  BY <1>1 DEF DemoInv, InBurst, Frontier
<1>3. ASSUME NEW a \in Demo!Destinations
      PROVE  /\ memory[a] # Demo!Unwritten =>
                  a \in job.dst .. job.dst + job.len - 1 /\ memory[a] = job.src + (a - job.dst)
             /\ a \in job.dst .. job.dst + (job.len - len) - 1 => memory[a] # Demo!Unwritten
  <2>1. memory[a] = IF job.dst <= a /\ a < Frontier THEN job.src + (a - job.dst) ELSE Demo!Unwritten
    BY DEF DemoInv, DemoMemory
  <2>2. a \in Nat
    BY DEF Demo!Destinations
  <2> QED
    BY <1>1, <1>2, <2>1, <2>2 DEF Demo!Unwritten
<1> QED
  BY <1>1, <1>3 DEF Demo!CopyFaithful

(***************************************************************************)
(* The memory, unit "memory".                                              *)
(***************************************************************************)

MemBounds ==
  /\ Size \in Nat /\ AddrSpace \in Nat /\ Size < AddrSpace
  /\ MaxLen \in Nat /\ MaxLen < AddrSpace
  /\ 0 \in Byte

\* A transaction as the initiator sends it, with its data.
GoodTrans(t) ==
  /\ t = [command |-> t.command, addr |-> t.addr, len |-> t.len, be |-> t.be, ptr |-> t.ptr,
          width |-> t.width]
  /\ t.command \in Mem!Commands /\ t.addr \in Mem!Addresses /\ t.len \in 1 .. MaxLen
  /\ t.width \in 1 .. MaxLen /\ t.be \in Mem!Patterns
  /\ t.command = "read" => t.ptr = [k \in 1 .. t.len |-> 0]
  /\ t.command # "read" => t.ptr \in [1 .. t.len -> Byte]

\* A sum that is not too large passes the top once at most.
LEMMA Sum64Is ==
  ASSUME MemBounds, NEW a \in Mem!Addresses, NEW b \in 0 .. AddrSpace
  PROVE  /\ Mem!Sum64(a, b) = IF a + b < AddrSpace THEN a + b ELSE a + b - AddrSpace
         /\ Mem!Sum64(a, b) \in Mem!Addresses
<1> DEFINE n == a + b
           r == IF n < AddrSpace THEN n ELSE n - AddrSpace
<1>1. /\ n \in Nat /\ AddrSpace \in Nat \ {0} /\ r \in 0 .. AddrSpace - 1
      /\ n = r + 0 * AddrSpace \/ n = r + 1 * AddrSpace
  BY DEF MemBounds, Mem!Addresses
<1> HIDE DEF n, r
<1>2. \A q \in 0 .. AddrSpace - 1, m \in Nat : n = q + m * AddrSpace => q = n % AddrSpace
  BY <1>1, ModIs, Zenon
<1>3. 0 \in Nat /\ 1 \in Nat
  OBVIOUS
<1>4. r = n % AddrSpace
  BY <1>1, <1>2, <1>3, Zenon
<1>5. Mem!Sum64(a, b) = r
  <2>1. Mem!Sum64(a, b) = n % AddrSpace
    BY DEF Mem!Sum64, n
  <2> QED
    BY <1>4, <2>1
<1>6. Mem!Sum64(a, b) \in Mem!Addresses
  BY <1>1, <1>5 DEF Mem!Addresses
<1>7. n = a + b
  BY DEF n
<1>8. r = IF n < AddrSpace THEN n ELSE n - AddrSpace
  BY DEF r
<1>9. a \in Nat /\ b \in Nat /\ AddrSpace \in Nat
  BY DEF MemBounds, Mem!Addresses
<1>10. r = IF a + b < AddrSpace THEN a + b ELSE a + b - AddrSpace
  BY <1>7, <1>8, <1>9
<1> QED
  BY <1>5, <1>6, <1>10

\* Where position pos of a transaction lies.
At(t, pos) == Mem!Sum64(t.addr, pos % t.width)

\* The reference finds that place.
LEMMA PlaceIsAt ==
  ASSUME MemBounds, NEW t, t.addr \in Mem!Addresses, t.width \in 1 .. MaxLen, NEW pos \in 0 .. MaxLen - 1
  PROVE  Mem!Place(t, pos) = At(t, pos) /\ At(t, pos) \in Mem!Addresses
<1> DEFINE w == t.width
           e == pos % w
           d == pos \div w
<1>1. /\ w \in Nat \ {0} /\ pos \in Nat /\ w <= MaxLen /\ t.addr \in Mem!Addresses
      /\ MaxLen \in Nat /\ AddrSpace \in Nat /\ MaxLen < AddrSpace
  BY DEF MemBounds
<1>2. /\ e \in 0 .. w - 1 /\ d \in 0 .. pos /\ pos = e + d * w
      /\ \A r \in 0 .. w - 1, m \in Nat : pos = r + m * w => r = e
  BY <1>1, ModIs, Zenon
<1>3. Mem!Offset(t, pos) = CHOOSE o \in 0 .. w - 1 : \E m \in 0 .. pos : pos = o + m * w
  BY DEF Mem!Offset
<1>4. At(t, pos) = Mem!Sum64(t.addr, e)
  BY DEF At
<1>5. Mem!Place(t, pos) = IF t.addr + Mem!Offset(t, pos) < AddrSpace THEN t.addr + Mem!Offset(t, pos)
                          ELSE t.addr + Mem!Offset(t, pos) - AddrSpace
  BY DEF Mem!Place
<1> HIDE DEF w, e, d
<1>6. \A o \in 0 .. w - 1 : (\E m \in 0 .. pos : pos = o + m * w) => o = e
  <2>1. \A m \in 0 .. pos : m \in Nat
    BY <1>1
  <2> QED
    BY <1>2, <2>1, Zenon
<1>7. Mem!Offset(t, pos) = e
  BY <1>2, <1>3, <1>6, Zenon
<1>8. e \in 0 .. AddrSpace
  BY <1>1, <1>2
<1> QED
  BY <1>1, <1>4, <1>5, <1>7, <1>8, Sum64Is

\* A repetition of the pattern enables what the loop finds enabled.
LEMMA MovesIsEnabled ==
  ASSUME MaxLen \in Nat, NEW t, t.be \in Mem!Patterns, t.len \in Nat, NEW pos \in 0 .. MaxLen - 1
  PROVE  Mem!Moves(t, pos) <=> pos < t.len /\ Mem!Enabled(t, pos)
<1>1. PICK n \in 0 .. 2 : t.be \in [1 .. n -> BOOLEAN]
  BY DEF Mem!Patterns
<1>2. t.be \in Seq(BOOLEAN) /\ Len(t.be) = n /\ DOMAIN t.be = 1 .. n
  BY <1>1
<1>3. CASE t.be = <<>>
  BY <1>3 DEF Mem!Moves, Mem!Enabled
<1>4. CASE t.be # <<>>
  <2>1. n # 0
    BY <1>2, <1>4
  <2>2. /\ pos % n \in 0 .. n - 1
        /\ pos \div n \in 0 .. pos
        /\ pos = (pos % n) + (pos \div n) * n
        /\ \A r \in 0 .. n - 1, m \in Nat : pos = r + m * n => r = pos % n
    <3>1. pos \in Nat /\ n \in Nat \ {0}
      BY <2>1
    <3> QED
      BY <3>1, ModIs, Zenon
  <2>3. ASSUME NEW k \in 1 .. n, t.be[k], \E m \in 0 .. pos : pos = k - 1 + m * n
        PROVE  t.be[(pos % n) + 1]
    <3>0. k - 1 \in 0 .. n - 1 /\ k - 1 + 1 = k
      OBVIOUS
    <3>1. PICK m \in 0 .. pos : pos = k - 1 + m * n
      BY <2>3
    <3>2. k - 1 = pos % n
      BY <2>2, <3>0, <3>1
    <3> QED
      BY <2>3, <3>0, <3>2
  <2>4. (pos % n) + 1 \in 1 .. n /\ \E m \in 0 .. pos : pos = ((pos % n) + 1) - 1 + m * n
    <3>1. pos % n \in 0 .. n - 1 /\ pos \div n \in 0 .. pos
      BY <2>2
    <3> DEFINE e == pos % n
               d == pos \div n
    <3>2. e \in 0 .. n - 1 /\ d \in 0 .. pos /\ pos = e + d * n
      BY <2>2, <3>1
    <3> HIDE DEF e, d
    <3>3. e + 1 \in 1 .. n /\ (e + 1) - 1 = e
      BY <3>2
    <3>4. e + 1 \in 1 .. n /\ \E m \in 0 .. pos : pos = (e + 1) - 1 + m * n
      BY <3>2, <3>3
    <3> QED
      BY <3>4 DEF e
  <2>5. t.be[(pos % n) + 1] <=> \E k \in 1 .. n : t.be[k] /\ \E m \in 0 .. pos : pos = k - 1 + m * n
    BY <2>3, <2>4
  <2> QED
    BY <1>2, <1>4, <2>5 DEF Mem!Moves, Mem!Enabled
<1> QED
  BY <1>3, <1>4

\* The loop of the slow path, one position after the other.
LEMMA LoopIs ==
  ASSUME NEW t, t.len \in Nat
  PROVE  \E f : /\ Mem!ByteByByte(t) = f[t.len] /\ f[0] = Mem!Begun(t)
                /\ \A n \in 1 .. t.len : f[n] = Mem!MoveByte(t, f[n - 1], n - 1)
<1> DEFINE E(f, n) == [k \in 0 .. n |-> IF k = 0 THEN Mem!Begun(t) ELSE Mem!MoveByte(t, f[k - 1], k - 1)]
           Without == {n \in Nat : ~ \E f : f = E(f, n)}
           loop == CHOOSE f : f = E(f, t.len)
<1>1. Mem!ByteByByte(t) = loop[t.len]
  BY DEF Mem!ByteByByte
<1>2. Without = {}
  <2> SUFFICES ASSUME Without # {}  PROVE FALSE
    OBVIOUS
  <2>1. PICK n \in Without : \A m \in Without : n <= m
    <3>1. Without \in SUBSET Nat /\ Without # {}
      OBVIOUS
    <3> HIDE DEF Without
    <3> QED
      BY <3>1, LeastNat
  <2>2. CASE n = 0
    <3> DEFINE f == [k \in 0 .. 0 |-> Mem!Begun(t)]
    <3>1. f = E(f, 0)
      OBVIOUS
    <3> QED
      BY <2>1, <2>2, <3>1
  <2>3. CASE n # 0
    <3>1. n \in Nat /\ n - 1 \in Nat /\ n - 1 \notin Without
      <4>1. n \in Nat
        BY <2>1
      <4> HIDE DEF Without
      <4>2. n - 1 \in Nat /\ ~ (n <= n - 1)
        BY <4>1, <2>3
      <4> QED
        BY <2>1, <4>1, <4>2
    <3>2. PICK f : f = E(f, n - 1)
      BY <3>1
    <3> DEFINE g == [k \in 0 .. n |-> IF k = n THEN Mem!MoveByte(t, f[n - 1], n - 1) ELSE f[k]]
    <3>3. ASSUME NEW k \in 0 .. n
          PROVE  g[k] = IF k = 0 THEN Mem!Begun(t) ELSE Mem!MoveByte(t, g[k - 1], k - 1)
      <4>1. CASE k = n
        <5>1. g[k - 1] = f[n - 1] /\ k # 0
          BY <3>1, <4>1, <2>3
        <5> QED
          BY <4>1, <5>1
      <4>2. CASE k # n
        <5>1. k \in 0 .. n - 1 /\ g[k] = f[k]
          BY <3>1, <4>2
        <5>2. f[k] = IF k = 0 THEN Mem!Begun(t) ELSE Mem!MoveByte(t, f[k - 1], k - 1)
          BY <3>2, <5>1
        <5>3. k # 0 => g[k - 1] = f[k - 1]
          BY <3>1, <4>2
        <5> QED
          BY <5>1, <5>2, <5>3
      <4> QED
        BY <4>1, <4>2
    <3>4. DOMAIN g = 0 .. n /\ g = [k \in 0 .. n |-> g[k]]
      OBVIOUS
    <3> HIDE DEF g
    <3>5. g = E(g, n)
      BY <3>3, <3>4
    <3> QED
      BY <2>1, <3>1, <3>5
  <2> QED
    BY <2>2, <2>3
<1>3. \E f : f = E(f, t.len)
  BY <1>2
<1>4. loop = E(loop, t.len)
  <2> HIDE DEF E
  <2> QED
    BY <1>3
<1> HIDE DEF loop
<1>5. loop[0] = Mem!Begun(t) /\ \A n \in 1 .. t.len : loop[n] = Mem!MoveByte(t, loop[n - 1], n - 1)
  <2>1. loop = [k \in 0 .. t.len |-> IF k = 0 THEN Mem!Begun(t) ELSE Mem!MoveByte(t, loop[k - 1], k - 1)]
    BY <1>4
  <2>2. \A k \in 0 .. t.len : loop[k] = IF k = 0 THEN Mem!Begun(t) ELSE Mem!MoveByte(t, loop[k - 1], k - 1)
    BY <2>1
  <2> QED
    BY <2>2
<1> QED
  BY <1>1, <1>5

\* Position pos moves a byte.
Active(t, pos) == pos \in 0 .. t.len - 1 /\ Mem!Enabled(t, pos)

\* What is done after n positions: the byte that was stored last at an address is there.
Carried(t, done, n) ==
  /\ done.error \in BOOLEAN
  /\ done.error <=> \E pos \in 0 .. n - 1 : Active(t, pos) /\ At(t, pos) >= Size
  /\ done.mem \in [Mem!Addresses -> Byte]
  /\ t.command # "read" =>
       /\ done.ptr = t.ptr
       /\ ~ done.error => \A a \in Mem!Addresses :
            /\ (\A pos \in 0 .. n - 1 : Active(t, pos) => At(t, pos) # a) => done.mem[a] = mem_map[a]
            /\ \A pos \in 0 .. n - 1 :
                 /\ Active(t, pos) /\ At(t, pos) = a
                 /\ \A q \in 0 .. n - 1 : Active(t, q) /\ At(t, q) = a => q <= pos
                 => done.mem[a] = t.ptr[pos + 1]
  /\ t.command = "read" =>
       /\ done.mem = mem_map
       /\ done.ptr \in [1 .. t.len -> Byte]
       /\ ~ done.error => \A pos \in 0 .. t.len - 1 :
            done.ptr[pos + 1] = IF pos < n /\ Active(t, pos) THEN mem_map[At(t, pos)] ELSE 0

\* The record of the loop has these fields and no other.
WholeRecord(done) == done = [mem |-> done.mem, ptr |-> done.ptr, error |-> done.error]

\* Another position.
LEMMA CarriedStep ==
  ASSUME MemBounds, NEW t, GoodTrans(t), mem_map \in [Mem!Addresses -> Byte],
         NEW n \in 0 .. t.len - 1, NEW done, WholeRecord(done), Carried(t, done, n)
  PROVE  WholeRecord(Mem!MoveByte(t, done, n)) /\ Carried(t, Mem!MoveByte(t, done, n), n + 1)
<1> DEFINE next == Mem!MoveByte(t, done, n)
           at == At(t, n)
<1>1. t.len \in Nat /\ n \in Nat /\ n \in 0 .. MaxLen - 1 /\ MaxLen \in Nat /\ Size \in Nat
  BY DEF GoodTrans, MemBounds
<1>2. at \in Mem!Addresses
  BY <1>1, PlaceIsAt DEF GoodTrans
<1>3. next = IF done.error \/ ~ Active(t, n) THEN done
             ELSE IF at >= Size THEN [done EXCEPT !.error = TRUE]
             ELSE IF t.command = "read" THEN [done EXCEPT !.ptr[n + 1] = mem_map[at]]
             ELSE [done EXCEPT !.mem[at] = t.ptr[n + 1]]
  BY DEF Mem!MoveByte, Active, At
<1>4. 0 .. n = (0 .. n - 1) \cup {n} /\ n + 1 - 1 = n
  BY <1>1
<1> HIDE DEF next
<1>5. CASE done.error
  <2>1. next = done
    BY <1>3, <1>5
  <2>2. \E pos \in 0 .. n + 1 - 1 : Active(t, pos) /\ At(t, pos) >= Size
    BY <1>4, <1>5 DEF Carried
  <2>3. Carried(t, done, n + 1)
    BY <1>5, <2>2 DEF Carried
  <2> QED
    BY <2>1, <2>3 DEF next
<1>6. CASE ~ done.error /\ ~ Active(t, n)
  <2>1. next = done
    BY <1>3, <1>6
  <2>2. \A pos \in 0 .. t.len - 1 : pos < n + 1 /\ Active(t, pos) <=> pos < n /\ Active(t, pos)
    BY <1>1, <1>6
  <2> QED
    BY <1>4, <1>6, <2>1, <2>2 DEF Carried, next
<1>7. CASE ~ done.error /\ Active(t, n) /\ at >= Size
  <2>1. next = [mem |-> done.mem, ptr |-> done.ptr, error |-> TRUE]
    BY <1>3, <1>7 DEF WholeRecord
  <2> QED
    BY <1>4, <1>7, <2>1 DEF Carried, WholeRecord, next
<1>8. CASE ~ done.error /\ Active(t, n) /\ ~ (at >= Size)
  <2>1. at \in Mem!Addresses
    BY <1>2
  <2>2. \A pos \in 0 .. n : ~ (Active(t, pos) /\ At(t, pos) >= Size)
    BY <1>4, <1>8 DEF Carried
  <2>3. CASE t.command = "read"
    <3>1. next = [mem |-> done.mem, ptr |-> [done.ptr EXCEPT ![n + 1] = mem_map[at]], error |-> FALSE]
      <4>1. done.error = FALSE
        BY <1>8 DEF Carried
      <4>2. next = [done EXCEPT !.ptr[n + 1] = mem_map[at]]
        BY <1>3, <1>8, <2>3
      <4> QED
        BY <4>1, <4>2 DEF WholeRecord
    <3>2. next.ptr \in [1 .. t.len -> Byte] /\ next.mem = mem_map /\ next.mem \in [Mem!Addresses -> Byte]
      BY <1>1, <2>1, <2>3, <3>1 DEF Carried
    <3>3. ASSUME NEW pos \in 0 .. t.len - 1
          PROVE  next.ptr[pos + 1] = IF pos < n + 1 /\ Active(t, pos) THEN mem_map[At(t, pos)] ELSE 0
      <4>1. pos + 1 \in 1 .. t.len /\ n + 1 \in 1 .. t.len
        BY <1>1
      <4>2. CASE pos = n
        BY <1>1, <1>8, <2>3, <3>1, <4>1, <4>2 DEF Carried
      <4>3. CASE pos # n
        <5>1. next.ptr[pos + 1] = done.ptr[pos + 1] /\ (pos < n + 1 <=> pos < n)
          BY <1>1, <2>3, <3>1, <4>1, <4>3 DEF Carried
        <5> QED
          BY <1>8, <2>3, <5>1 DEF Carried
      <4> QED
        BY <4>2, <4>3
    <3> QED
      BY <1>4, <2>2, <2>3, <3>1, <3>2, <3>3 DEF Carried, WholeRecord, next
  <2>4. CASE t.command # "read"
    <3>1. next = [mem |-> [done.mem EXCEPT ![at] = t.ptr[n + 1]], ptr |-> done.ptr, error |-> FALSE]
      <4>1. done.error = FALSE
        BY <1>8 DEF Carried
      <4>2. next = [done EXCEPT !.mem[at] = t.ptr[n + 1]]
        BY <1>3, <1>8, <2>4
      <4> QED
        BY <4>1, <4>2 DEF WholeRecord
    <3>2. t.ptr[n + 1] \in Byte
      BY <1>1, <2>4 DEF GoodTrans
    <3>3. next.mem \in [Mem!Addresses -> Byte] /\ next.ptr = t.ptr
      BY <2>1, <2>4, <3>1, <3>2 DEF Carried
    <3>4. ASSUME NEW a \in Mem!Addresses
          PROVE  /\ (\A pos \in 0 .. n : Active(t, pos) => At(t, pos) # a) => next.mem[a] = mem_map[a]
                 /\ \A pos \in 0 .. n :
                      /\ Active(t, pos) /\ At(t, pos) = a
                      /\ \A q \in 0 .. n : Active(t, q) /\ At(t, q) = a => q <= pos
                      => next.mem[a] = t.ptr[pos + 1]
      <4>1. CASE a = at
        <5>1. next.mem[a] = t.ptr[n + 1]
          BY <2>4, <3>1, <4>1 DEF Carried
        <5>2. ASSUME NEW pos \in 0 .. n,
                     \A q \in 0 .. n : Active(t, q) /\ At(t, q) = a => q <= pos
              PROVE  pos = n
          BY <1>1, <1>8, <4>1, <5>2
        <5> QED
          BY <1>1, <1>8, <4>1, <5>1, <5>2
      <4>2. CASE a # at
        <5>1. next.mem[a] = done.mem[a]
          BY <2>4, <3>1, <4>2 DEF Carried
        <5>2. /\ (\A pos \in 0 .. n - 1 : Active(t, pos) => At(t, pos) # a) => done.mem[a] = mem_map[a]
              /\ \A pos \in 0 .. n - 1 :
                   /\ Active(t, pos) /\ At(t, pos) = a
                   /\ \A q \in 0 .. n - 1 : Active(t, q) /\ At(t, q) = a => q <= pos
                   => done.mem[a] = t.ptr[pos + 1]
          BY <1>8, <2>4 DEF Carried
        <5> QED
          BY <1>4, <4>2, <5>1, <5>2
      <4> QED
        BY <4>1, <4>2
    <3> QED
      BY <1>4, <2>2, <2>4, <3>1, <3>3, <3>4 DEF Carried, WholeRecord, next
  <2> QED
    BY <2>3, <2>4
<1> QED
  BY <1>5, <1>6, <1>7, <1>8

\* Both ways carry a transaction out to its end.
LEMMA SlowCarried ==
  ASSUME MemBounds, NEW t, GoodTrans(t), mem_map \in [Mem!Addresses -> Byte]
  PROVE  Carried(t, Mem!ByteByByte(t), t.len)
<1>1. t.len \in Nat
  BY DEF GoodTrans, MemBounds
<1>2. PICK f : /\ Mem!ByteByByte(t) = f[t.len] /\ f[0] = Mem!Begun(t)
               /\ \A n \in 1 .. t.len : f[n] = Mem!MoveByte(t, f[n - 1], n - 1)
  BY <1>1, LoopIs
<1> DEFINE Wrong == {n \in 0 .. t.len : ~ (WholeRecord(f[n]) /\ Carried(t, f[n], n))}
<1>3. Wrong = {}
  <2> SUFFICES ASSUME Wrong # {}  PROVE FALSE
    OBVIOUS
  <2>1. PICK n \in Wrong : \A m \in Wrong : n <= m
    <3>1. Wrong \in SUBSET Nat /\ Wrong # {}
      BY <1>1
    <3> HIDE DEF Wrong
    <3> QED
      BY <3>1, LeastNat
  <2>2. CASE n = 0
    <3>1. WholeRecord(f[0])
      BY <1>2 DEF WholeRecord, Mem!Begun
    <3>2. t.command = "read" => t.ptr \in [1 .. t.len -> Byte] /\ \A pos \in 0 .. t.len - 1 : t.ptr[pos + 1] = 0
      <4> SUFFICES ASSUME t.command = "read"
                   PROVE  t.ptr \in [1 .. t.len -> Byte] /\ \A pos \in 0 .. t.len - 1 : t.ptr[pos + 1] = 0
        OBVIOUS
      <4>1. t.ptr = [k \in 1 .. t.len |-> 0] /\ 0 \in Byte
        BY DEF GoodTrans, MemBounds
      <4> QED
        BY <1>1, <4>1
    <3>3. Carried(t, f[0], 0)
      BY <1>2, <3>2 DEF Carried, Mem!Begun
    <3> QED
      BY <2>1, <2>2, <3>1, <3>3
  <2>3. CASE n # 0
    <3>1. n \in 1 .. t.len /\ n - 1 \in 0 .. t.len - 1 /\ n - 1 + 1 = n
      BY <1>1, <2>1, <2>3
    <3>2. n - 1 \notin Wrong
      <4> HIDE DEF Wrong
      <4>1. ~ (n <= n - 1)
        BY <3>1
      <4> QED
        BY <2>1, <4>1
    <3>3. WholeRecord(f[n - 1]) /\ Carried(t, f[n - 1], n - 1)
      BY <1>1, <3>1, <3>2
    <3>4. WholeRecord(Mem!MoveByte(t, f[n - 1], n - 1)) /\ Carried(t, Mem!MoveByte(t, f[n - 1], n - 1), n - 1 + 1)
      BY <3>1, <3>3, CarriedStep
    <3>5. WholeRecord(f[n]) /\ Carried(t, f[n], n)
      BY <1>2, <3>1, <3>4
    <3> QED
      BY <2>1, <3>5
  <2> QED
    BY <2>2, <2>3
<1>4. t.len \in 0 .. t.len
  BY <1>1
<1> QED
  BY <1>2, <1>3, <1>4

\* What has been done in the end, whichever way.
Finished(t, done) ==
  /\ done.error \in BOOLEAN
  /\ done.error <=> ~ Mem!OverTheTop(t) /\ \E pos \in 0 .. t.len - 1 : Active(t, pos) /\ At(t, pos) >= Size
  /\ done.mem \in [Mem!Addresses -> Byte]
  /\ t.command # "read" => done.ptr = t.ptr
  /\ Mem!Stores(t) /\ ~ done.error => \A a \in Mem!Addresses :
       /\ (\A pos \in 0 .. t.len - 1 : Active(t, pos) => At(t, pos) # a) => done.mem[a] = mem_map[a]
       /\ \A pos \in 0 .. t.len - 1 :
            /\ Active(t, pos) /\ At(t, pos) = a
            /\ \A q \in 0 .. t.len - 1 : Active(t, q) /\ At(t, q) = a => q <= pos
            => done.mem[a] = t.ptr[pos + 1]
  /\ ~ Mem!Stores(t) => done.mem = mem_map
  /\ t.command = "read" /\ ~ done.error => \A pos \in 0 .. t.len - 1 :
       done.ptr[pos + 1] = IF Active(t, pos) THEN mem_map[At(t, pos)] ELSE 0

\* Byte by byte, every command but a read stores.
LEMMA SlowFinished ==
  ASSUME MemBounds, NEW t, GoodTrans(t), mem_map \in [Mem!Addresses -> Byte], Mem!Slow(t)
  PROVE  Finished(t, Mem!ByteByByte(t))
<1> DEFINE done == Mem!ByteByByte(t)
<1>1. Carried(t, done, t.len)
  BY SlowCarried
<1>2. ~ Mem!OverTheTop(t)
  BY DEF Mem!OverTheTop
<1>3. Mem!Stores(t) <=> t.command # "read"
  BY DEF Mem!Stores, GoodTrans, Mem!Commands
<1>4. \A pos \in 0 .. t.len - 1 : pos < t.len
  BY DEF GoodTrans, MemBounds
<1> HIDE DEF done
<1>5. Finished(t, done)
  BY <1>1, <1>2, <1>3, <1>4 DEF Carried, Finished
<1> QED
  BY <1>5 DEF done

\* Where the bytes of one piece lie, and which byte it is that an address gets.
LEMMA PieceAt ==
  ASSUME MemBounds, NEW t, GoodTrans(t), ~ Mem!Slow(t), NEW pos \in 0 .. t.len - 1
  PROVE  /\ Active(t, pos) /\ At(t, pos) = Mem!Sum64(t.addr, pos) /\ At(t, pos) \in Mem!Addresses
         /\ At(t, pos) = IF t.addr + pos < AddrSpace THEN t.addr + pos ELSE t.addr + pos - AddrSpace
         /\ \A a \in Mem!Addresses : At(t, pos) = a <=> Mem!Behind(t, a) = pos
<1>1. /\ t.len \in Nat \ {0} /\ t.width = t.len /\ t.addr \in Mem!Addresses /\ t.len < AddrSpace
      /\ AddrSpace \in Nat /\ pos \in Nat /\ pos < t.len /\ pos \in 0 .. AddrSpace
  BY DEF GoodTrans, MemBounds, Mem!Slow
<1>2. Active(t, pos)
  BY DEF Active, Mem!Enabled, Mem!Slow
<1>3. pos = pos % t.len
  <2>1. \A r \in 0 .. t.len - 1, m \in Nat : pos = r + m * t.len => r = pos % t.len
    BY <1>1, ModIs, Zenon
  <2>2. pos = pos + 0 * t.len /\ 0 \in Nat
    BY <1>1
  <2> QED
    BY <2>1, <2>2
<1>4. At(t, pos) = Mem!Sum64(t.addr, pos)
  BY <1>1, <1>3 DEF At
<1>5. /\ At(t, pos) = IF t.addr + pos < AddrSpace THEN t.addr + pos ELSE t.addr + pos - AddrSpace
      /\ At(t, pos) \in Mem!Addresses
  BY <1>1, <1>4, Sum64Is
<1>6. ASSUME NEW a \in Mem!Addresses
      PROVE  At(t, pos) = a <=> Mem!Behind(t, a) = pos
  <2>1. AddrSpace - t.addr \in 0 .. AddrSpace
    BY <1>1 DEF Mem!Addresses
  <2>2. Mem!Behind(t, a) = IF a + (AddrSpace - t.addr) < AddrSpace THEN a + (AddrSpace - t.addr)
                           ELSE a + (AddrSpace - t.addr) - AddrSpace
    BY <2>1, Sum64Is DEF Mem!Behind
  <2>3. /\ a \in Nat /\ a < AddrSpace /\ t.addr \in Nat /\ t.addr < AddrSpace
        /\ pos \in Nat /\ pos < AddrSpace /\ AddrSpace \in Nat
    BY <1>1 DEF Mem!Addresses
  <2>4. Mem!Behind(t, a) = IF a < t.addr THEN a + AddrSpace - t.addr ELSE a - t.addr
    BY <2>2, <2>3
  <2> QED
    BY <1>5, <2>3, <2>4
<1> QED
  BY <1>2, <1>4, <1>5, <1>6

\* The one comparison finds a byte beyond the end, unless the sum passes the top.
LEMMA PieceRefused ==
  ASSUME MemBounds, NEW t, GoodTrans(t), ~ Mem!Slow(t)
  PROVE  Mem!Sum64(t.addr, t.len) > Size <=>
           ~ Mem!OverTheTop(t) /\ \E pos \in 0 .. t.len - 1 : Active(t, pos) /\ At(t, pos) >= Size
<1> DEFINE a == t.addr
           l == t.len
<1>1. /\ l \in Nat \ {0} /\ a \in Nat /\ a < AddrSpace /\ l < AddrSpace
      /\ AddrSpace \in Nat /\ Size \in Nat /\ Size < AddrSpace
      /\ a \in Mem!Addresses /\ l \in 0 .. AddrSpace
  BY DEF GoodTrans, MemBounds, Mem!Addresses
<1>2. Mem!Sum64(a, l) = IF a + l < AddrSpace THEN a + l ELSE a + l - AddrSpace
  BY <1>1, Sum64Is
<1>3. Mem!OverTheTop(t) <=> a + l >= AddrSpace /\ a + l - AddrSpace <= Size
  BY DEF Mem!OverTheTop
<1>4. \A pos \in 0 .. l - 1 :
        Active(t, pos) /\ At(t, pos) = IF a + pos < AddrSpace THEN a + pos ELSE a + pos - AddrSpace
  BY PieceAt
<1> SUFFICES Mem!Sum64(a, l) > Size <=>
               ~ Mem!OverTheTop(t) /\ \E pos \in 0 .. l - 1 : Active(t, pos) /\ At(t, pos) >= Size
  OBVIOUS
<1> HIDE DEF a, l
<1>5. CASE a + l < AddrSpace
  <2>1. \A pos \in 0 .. l - 1 : At(t, pos) = a + pos
    BY <1>1, <1>4, <1>5
  <2>2. l - 1 \in 0 .. l - 1
    BY <1>1
  <2>3. Mem!Sum64(a, l) > Size => At(t, l - 1) >= Size
    BY <1>1, <1>2, <1>5, <2>1, <2>2
  <2>4. ASSUME NEW pos \in 0 .. l - 1, At(t, pos) >= Size  PROVE Mem!Sum64(a, l) > Size
    <3>1. a + pos >= Size
      BY <2>1, <2>4
    <3> QED
      BY <1>1, <1>2, <1>5, <3>1
  <2>5. ~ Mem!OverTheTop(t)
    BY <1>1, <1>3, <1>5
  <2> QED
    BY <1>4, <2>2, <2>3, <2>4, <2>5
<1>6. CASE ~ (a + l < AddrSpace)
  <2> DEFINE top == AddrSpace - 1 - a
  <2>1. top \in 0 .. l - 1 /\ a + top < AddrSpace /\ a + top >= Size
    BY <1>1, <1>6
  <2> HIDE DEF top
  <2>2. Active(t, top) /\ At(t, top) >= Size
    BY <1>4, <2>1
  <2>3. Mem!Sum64(a, l) > Size <=> ~ Mem!OverTheTop(t)
    BY <1>1, <1>2, <1>3, <1>6
  <2> QED
    BY <2>1, <2>2, <2>3
<1> QED
  BY <1>5, <1>6

\* In one piece, only a write stores.
LEMMA PieceFinished ==
  ASSUME MemBounds, NEW t, GoodTrans(t), mem_map \in [Mem!Addresses -> Byte], ~ Mem!Slow(t)
  PROVE  Finished(t, Mem!InOnePiece(t))
<1> DEFINE done == Mem!InOnePiece(t)
           refused == Mem!Sum64(t.addr, t.len) > Size
<1>1. t.len \in Nat \ {0}
  BY DEF GoodTrans, MemBounds
<1>2. refused <=> ~ Mem!OverTheTop(t) /\ \E pos \in 0 .. t.len - 1 : Active(t, pos) /\ At(t, pos) >= Size
  BY PieceRefused
<1>3. Mem!Stores(t) <=> t.command = "write"
  BY DEF Mem!Stores
<1>4. \A pos \in 0 .. t.len - 1 :
        /\ Active(t, pos) /\ At(t, pos) = Mem!Sum64(t.addr, pos) /\ At(t, pos) \in Mem!Addresses
        /\ \A a \in Mem!Addresses : At(t, pos) = a <=> Mem!Behind(t, a) = pos
  BY PieceAt
<1>5. CASE refused
  <2>1. done = [mem |-> mem_map, ptr |-> t.ptr, error |-> TRUE]
    BY <1>5 DEF Mem!InOnePiece, Mem!Begun
  <2> HIDE DEF done, refused
  <2>2. Finished(t, done)
    BY <1>2, <1>5, <2>1 DEF Finished
  <2> QED
    BY <2>2 DEF done
<1>6. CASE ~ refused /\ t.command = "read"
  <2>1. done = [mem |-> mem_map, error |-> FALSE,
                ptr |-> [k \in 1 .. t.len |-> mem_map[Mem!Sum64(t.addr, k - 1)]]]
    BY <1>6 DEF Mem!InOnePiece, Mem!Begun
  <2> HIDE DEF done, refused
  <2>2. ASSUME NEW pos \in 0 .. t.len - 1  PROVE done.ptr[pos + 1] = mem_map[At(t, pos)]
    <3>1. pos + 1 \in 1 .. t.len /\ pos + 1 - 1 = pos
      BY <1>1
    <3> QED
      BY <1>4, <2>1, <3>1
  <2>3. ~ Mem!Stores(t)
    BY <1>3, <1>6
  <2>4. Finished(t, done)
    BY <1>2, <1>4, <1>6, <2>1, <2>2, <2>3 DEF Finished
  <2> QED
    BY <2>4 DEF done
<1>7. CASE ~ refused /\ t.command = "write"
  <2>1. done = [mem |-> [a \in Mem!Addresses |-> IF Mem!Behind(t, a) < t.len
                                                 THEN t.ptr[Mem!Behind(t, a) + 1] ELSE mem_map[a]],
                ptr |-> t.ptr, error |-> FALSE]
    BY <1>7 DEF Mem!InOnePiece, Mem!Begun
  <2> HIDE DEF done, refused
  <2>2. t.ptr \in [1 .. t.len -> Byte]
    BY <1>7 DEF GoodTrans
  <2>3. \A a \in Mem!Addresses : Mem!Behind(t, a) \in Nat
    <3> SUFFICES ASSUME NEW a \in Mem!Addresses  PROVE Mem!Behind(t, a) \in Nat
      OBVIOUS
    <3>1. AddrSpace - t.addr \in 0 .. AddrSpace
      BY DEF GoodTrans, MemBounds, Mem!Addresses
    <3>2. Mem!Behind(t, a) \in Mem!Addresses
      BY <3>1, Sum64Is DEF Mem!Behind
    <3> QED
      BY <3>2 DEF Mem!Addresses, MemBounds
  <2>4. ASSUME NEW a \in Mem!Addresses
        PROVE  /\ (IF Mem!Behind(t, a) < t.len THEN t.ptr[Mem!Behind(t, a) + 1] ELSE mem_map[a]) \in Byte
               /\ (\A pos \in 0 .. t.len - 1 : At(t, pos) # a) => done.mem[a] = mem_map[a]
               /\ \A pos \in 0 .. t.len - 1 : At(t, pos) = a => done.mem[a] = t.ptr[pos + 1]
    <3> DEFINE b == Mem!Behind(t, a)
    <3>1. b \in Nat /\ (b < t.len => b \in 0 .. t.len - 1 /\ b + 1 \in 1 .. t.len)
      BY <1>1, <2>3
    <3>2. \A pos \in 0 .. t.len - 1 : At(t, pos) = a <=> b = pos
      BY <1>4
    <3>3. done.mem[a] = IF b < t.len THEN t.ptr[b + 1] ELSE mem_map[a]
      BY <2>1
    <3> HIDE DEF b
    <3>4. mem_map[a] \in Byte /\ (b < t.len => t.ptr[b + 1] \in Byte)
      BY <2>2, <3>1
    <3>5. \A pos \in 0 .. t.len - 1 : pos < t.len
      BY <1>1
    <3>6. (IF b < t.len THEN t.ptr[b + 1] ELSE mem_map[a]) \in Byte
      BY <3>4
    <3> QED
      BY <3>1, <3>2, <3>3, <3>5, <3>6 DEF b
  <2>5. done.mem \in [Mem!Addresses -> Byte]
    BY <2>1, <2>4
  <2>6. Finished(t, done)
    BY <1>2, <1>3, <1>4, <1>7, <2>1, <2>4, <2>5 DEF Finished
  <2> QED
    BY <2>6 DEF done
<1>8. CASE ~ refused /\ t.command = "ignore"
  <2>1. done = [mem |-> mem_map, ptr |-> t.ptr, error |-> FALSE]
    BY <1>8 DEF Mem!InOnePiece, Mem!Begun
  <2> HIDE DEF done, refused
  <2>2. Finished(t, done)
    BY <1>2, <1>3, <1>8, <2>1 DEF Finished
  <2> QED
    BY <2>2 DEF done
<1> QED
  BY <1>5, <1>6, <1>7, <1>8 DEF GoodTrans, Mem!Commands

MemInv ==
  /\ Mem!TypeOK /\ Mem!MovesExactly
  /\ trans # Mem!None /\ before = Mem!NotYet => GoodTrans(trans)
  /\ trans = Mem!None => before = Mem!NotYet

\* What is carried out is what the reference asks for.
LEMMA ServedMovesExactly ==
  ASSUME MemBounds, MemInv, Mem!b_transport
  PROVE  Mem!TypeOK' /\ Mem!MovesExactly' /\ before' # Mem!NotYet /\ trans' # Mem!None
<1> DEFINE t == trans
           u == trans'
           len_1 == t.len - 1
<1>1. GoodTrans(t) /\ mem_map \in [Mem!Addresses -> Byte]
  BY DEF MemInv, Mem!b_transport, Mem!TypeOK
<1>2. PICK done : /\ Finished(t, done)
                  /\ mem_map' = done.mem /\ aborted' = done.error
                  /\ u = [t EXCEPT !.ptr = done.ptr]
  <2>1. Finished(t, IF Mem!Slow(t) THEN Mem!ByteByByte(t) ELSE Mem!InOnePiece(t))
    BY <1>1, SlowFinished, PieceFinished
  <2> QED
    BY <2>1 DEF Mem!b_transport
<1>3. before' = mem_map
  BY DEF Mem!b_transport
<1>4. before' # Mem!NotYet
  <2>1. 0 \in DOMAIN mem_map
    BY <1>1 DEF Mem!Addresses, MemBounds
  <2> QED
    BY <1>3, <2>1 DEF Mem!NotYet
<1>5. /\ u.command = t.command /\ u.addr = t.addr /\ u.len = t.len /\ u.be = t.be
      /\ u.width = t.width /\ u.ptr = done.ptr
  BY <1>1, <1>2 DEF GoodTrans
<1>6. trans' # Mem!None
  <2>1. trans'.command # "none"
    BY <1>1, <1>5 DEF GoodTrans, Mem!Commands
  <2> QED
    BY <2>1 DEF Mem!None
<1>7. Mem!TypeOK'
  BY <1>1, <1>2, <1>3 DEF Mem!TypeOK, Finished, Mem!Addresses
<1>8. t.len \in Nat \ {0} /\ t.len <= MaxLen /\ MaxLen \in Nat
  BY <1>1 DEF GoodTrans, MemBounds
<1>9. ASSUME NEW pos \in 0 .. MaxLen - 1
      PROVE  (Mem!Moves(u, pos) <=> pos < t.len /\ Active(t, pos)) /\ Mem!Place(u, pos) = At(t, pos)
  <2>1. Mem!Moves(u, pos) <=> pos < u.len /\ Mem!Enabled(u, pos)
    BY <1>1, <1>5, <1>8, MovesIsEnabled DEF GoodTrans
  <2>2. Mem!Place(u, pos) = At(u, pos)
    BY <1>1, <1>5, <1>8, PlaceIsAt DEF GoodTrans
  <2> QED
    BY <1>5, <1>8, <2>1, <2>2 DEF Active, At, Mem!Enabled
<1>10. Mem!Moved(u) = {pos \in 0 .. len_1 : Active(t, pos)}
  BY <1>8, <1>9 DEF Mem!Moved
<1>11. \A pos \in 0 .. len_1 : Mem!Place(u, pos) = At(t, pos) /\ pos \in 0 .. MaxLen - 1
  BY <1>8, <1>9
<1>12. aborted' <=> ~ Mem!OverTheTop(u) /\ \E pos \in Mem!Moved(u) : Mem!Place(u, pos) >= Size
  <2>1. Mem!OverTheTop(u) <=> Mem!OverTheTop(t)
    BY <1>5 DEF Mem!OverTheTop, Mem!Slow
  <2> QED
    BY <1>2, <1>10, <1>11, <2>1 DEF Finished
<1>13. Mem!Stores(u) <=> Mem!Stores(t)
  BY <1>5 DEF Mem!Stores, Mem!Slow
<1>14. ASSUME ~ aborted', NEW a \in Mem!Addresses
       PROVE  mem_map'[a] = IF Mem!Stores(u) /\ Mem!Hits(u, a) # {} THEN u.ptr[Mem!Max(Mem!Hits(u, a)) + 1]
                            ELSE before'[a]
  <2>1. Mem!Hits(u, a) = {pos \in 0 .. len_1 : Active(t, pos) /\ At(t, pos) = a}
    BY <1>10, <1>11 DEF Mem!Hits
  <2>2. CASE ~ Mem!Stores(u)
    BY <1>2, <1>3, <1>13, <2>2 DEF Finished
  <2>3. CASE Mem!Stores(u)
    <3>1. /\ (\A pos \in 0 .. len_1 : Active(t, pos) => At(t, pos) # a) => done.mem[a] = mem_map[a]
          /\ \A pos \in 0 .. len_1 :
               /\ Active(t, pos) /\ At(t, pos) = a
               /\ \A q \in 0 .. len_1 : Active(t, q) /\ At(t, q) = a => q <= pos
               => done.mem[a] = t.ptr[pos + 1]
      BY <1>2, <1>13, <1>14, <2>3 DEF Finished
    <3>2. CASE Mem!Hits(u, a) = {}
      BY <1>2, <1>3, <2>1, <3>1, <3>2
    <3>3. CASE Mem!Hits(u, a) # {}
      <4> DEFINE last == Max(Mem!Hits(u, a))
      <4>1. len_1 \in Nat /\ Mem!Hits(u, a) \in SUBSET (0 .. len_1)
        BY <1>8, <2>1
      <4>2. last \in Mem!Hits(u, a) /\ \A k \in Mem!Hits(u, a) : k <= last
        BY <3>3, <4>1, MaxIs
      <4> HIDE DEF last
      <4>3. done.mem[a] = t.ptr[last + 1]
        BY <2>1, <3>1, <4>2
      <4>4. done.ptr = t.ptr
        BY <1>2, <1>13, <2>3 DEF Finished, Mem!Stores
      <4>5. Mem!Max(Mem!Hits(u, a)) = last
        BY DEF last, Max, Mem!Max
      <4> QED
        BY <1>2, <1>5, <2>3, <3>3, <4>3, <4>4, <4>5
    <3> QED
      BY <3>2, <3>3
  <2> QED
    BY <2>2, <2>3
<1>15. ASSUME u.command = "read"
       PROVE  /\ mem_map' = before'
              /\ ~ aborted' => \A pos \in 0 .. u.len - 1 :
                   u.ptr[pos + 1] = IF pos \in Mem!Moved(u) THEN before'[Mem!Place(u, pos)] ELSE 0
  <2>1. ~ Mem!Stores(t)
    BY <1>5, <1>15 DEF Mem!Stores
  <2>2. /\ done.mem = mem_map
        /\ ~ done.error => \A pos \in 0 .. len_1 :
             done.ptr[pos + 1] = IF Active(t, pos) THEN mem_map[At(t, pos)] ELSE 0
    BY <1>2, <1>5, <1>15, <2>1 DEF Finished
  <2> QED
    BY <1>2, <1>3, <1>5, <1>8, <1>10, <1>11, <2>2
<1>16. ASSUME ~ aborted', NEW a \in Mem!Addresses
       PROVE  mem_map'[a] = Mem!ByteAfter(trans, a)'
  BY <1>14, <1>16 DEF Mem!ByteAfter
<1>17. Mem!MovesExactly'
  BY <1>12, <1>15, <1>16 DEF Mem!MovesExactly
<1> QED
  BY <1>4, <1>6, <1>7, <1>17

LEMMA MemInit ==
  ASSUME MemBounds, Mem!Init
  PROVE  MemInv
BY DEF Mem!Init, MemInv, MemBounds, Mem!TypeOK, Mem!MovesExactly

LEMMA MemKeeps ==
  ASSUME MemBounds, MemInv, Mem!Next
  PROVE  MemInv'
<1>1. CASE Mem!Send
  <2>1. PICK command \in Mem!Commands, addr \in Mem!Addresses, len_ \in 1 .. MaxLen, width \in 0 .. MaxLen,
             be \in Mem!Patterns :
          \E ptr \in IF command = "read" THEN {[k \in 1 .. len_ |-> 0]} ELSE [1 .. len_ -> Byte] :
            trans' = [command |-> command, addr |-> addr, len |-> len_, be |-> be, ptr |-> ptr,
                      width |-> IF width = 0 THEN len_ ELSE width]
    BY <1>1 DEF Mem!Send, Mem!DataLengths
  <2>2. PICK ptr : /\ ptr \in IF command = "read" THEN {[k \in 1 .. len_ |-> 0]} ELSE [1 .. len_ -> Byte]
                   /\ trans' = [command |-> command, addr |-> addr, len |-> len_, be |-> be, ptr |-> ptr,
                                width |-> IF width = 0 THEN len_ ELSE width]
    BY <2>1
  <2>3. (IF width = 0 THEN len_ ELSE width) \in 1 .. MaxLen
    BY DEF MemBounds
  <2>4. GoodTrans(trans)'
    BY <2>2, <2>3 DEF GoodTrans
  <2>5. trans' # Mem!None
    <3>1. trans'.command # "none"
      BY <2>2 DEF Mem!Commands
    <3> QED
      BY <3>1 DEF Mem!None
  <2>6. before' = Mem!NotYet /\ mem_map' = mem_map /\ aborted' = aborted
    BY <1>1 DEF Mem!Send, MemInv
  <2> QED
    BY <2>4, <2>5, <2>6 DEF MemInv, Mem!TypeOK, Mem!MovesExactly, Mem!Addresses
<1>2. CASE Mem!b_transport
  BY <1>2, ServedMovesExactly DEF MemInv
<1>3. CASE Mem!Return
  BY <1>3 DEF Mem!Return, MemInv, Mem!TypeOK, Mem!MovesExactly, Mem!Addresses
<1> QED
  BY <1>1, <1>2, <1>3 DEF Mem!Next

(***************************************************************************)
(* The packet generator and its receiver, unit "gen".                      *)
(***************************************************************************)

PacketBounds == MemSize \in Nat /\ Lengths \in SUBSET Nat

PacketInv ==
  /\ sent \in Seq(Packets!Packets) /\ packet_counter = Len(sent)
  /\ success_count \in Nat /\ error_count \in Nat /\ total_received \in Nat
  /\ received_reads \in Nat /\ received_writes \in Nat
  /\ memory \in [Packets!Addresses -> Nat]
  /\ Packets!StatisticsAgree

LEMMA PacketInit ==
  ASSUME PacketBounds, Packets!Init
  PROVE  PacketInv
<1>1. sent = <<>> /\ sent \in Seq(Packets!Packets) /\ Len(sent) = 0 /\ DOMAIN sent = {}
  BY DEF Packets!Init
<1>2. Packets!Whole = {} /\ Packets!Writes = {}
  BY <1>1 DEF Packets!Whole, Packets!Writes
<1>3. Packets!Cardinality({}) = 0
  BY FS_EmptySet DEF Packets!Cardinality, Cardinality
<1>4. \A a : Packets!Max({k \in Packets!Writes : Packets!Covers(sent[k], a)} \cup {0}) = 0
  BY <1>2 DEF Packets!Max
<1> QED
  BY <1>1, <1>2, <1>3, <1>4 DEF Packets!Init, PacketInv, Packets!StatisticsAgree

\* Counting one more packet.
LEMMA CountIs ==
  ASSUME NEW n \in Nat, NEW S \in SUBSET (1 .. n)
  PROVE  /\ Packets!Cardinality(S) \in Nat
         /\ Packets!Cardinality(S \cup {n + 1}) = Packets!Cardinality(S) + 1
<1>1. IsFiniteSet(1 .. n)
  BY FS_Interval
<1>2. IsFiniteSet(S)
  BY <1>1, FS_Subset
<1>3. n + 1 \notin S
  OBVIOUS
<1>4. Cardinality(S) \in Nat /\ Cardinality(S \cup {n + 1}) = Cardinality(S) + 1
  BY <1>2, <1>3, FS_CardinalityType, FS_AddElement
<1>5. \A T : Packets!Cardinality(T) = Cardinality(T)
  BY DEF Packets!Cardinality, Cardinality
<1> QED
  BY <1>4, <1>5

LEMMA PacketKeeps ==
  ASSUME PacketBounds, PacketInv, Packets!Next
  PROVE  PacketInv'
<1> DEFINE n == Len(sent)
<1>1. PICK pkt \in Packets!Packets : /\ sent' = Append(sent, pkt)
                                     /\ Packets!Refused(pkt) \/ Packets!Accepted(pkt)
  BY DEF Packets!Next, Packets!send_packet
<1>2. /\ sent \in Seq(Packets!Packets) /\ n \in Nat /\ packet_counter = n /\ packet_counter' = n + 1
      /\ sent' \in Seq(Packets!Packets) /\ Len(sent') = n + 1
      /\ DOMAIN sent = 1 .. n /\ DOMAIN sent' = (1 .. n) \cup {n + 1}
      /\ sent'[n + 1] = pkt
      /\ \A k \in 1 .. n : sent'[k] = sent[k]
  <2>1. sent \in Seq(Packets!Packets) /\ n \in Nat /\ packet_counter = n /\ packet_counter' = n + 1
    BY DEF PacketInv, Packets!Next, Packets!send_packet
  <2>2. (1 .. n) \cup {n + 1} = 1 .. n + 1
    BY <2>1
  <2> QED
    BY <1>1, <2>1, <2>2, AppendProperties
<1>3. pkt.address \in Nat /\ pkt.length \in Nat /\ pkt.address < MemSize /\ MemSize \in Nat
  <2>1. pkt.address \in Packets!Addresses /\ pkt.length \in Lengths
    BY Zenon DEF Packets!Packets
  <2>2. MemSize \in Nat /\ pkt.length \in Nat
    BY <2>1, Zenon DEF PacketBounds
  <2>3. pkt.address \in 0 .. MemSize - 1
    BY <2>1, Zenon DEF Packets!Addresses
  <2> QED
    BY <2>2, <2>3
<1>4. Packets!Fits(pkt) <=> pkt.address + pkt.length <= MemSize
  BY <1>3 DEF Packets!Fits
<1> HIDE DEF n
<1>5. Packets!Whole \in SUBSET (1 .. n) /\ Packets!Writes \in SUBSET (1 .. n)
  BY <1>2 DEF Packets!Whole, Packets!Writes
<1>6. Packets!Whole' = IF Packets!Fits(pkt) THEN Packets!Whole \cup {n + 1} ELSE Packets!Whole
  <2>1. \A k \in 1 .. n : k \in Packets!Whole' <=> k \in Packets!Whole
    BY <1>2 DEF Packets!Whole
  <2>2. n + 1 \in Packets!Whole' <=> Packets!Fits(pkt)
    BY <1>2, <1>4 DEF Packets!Whole
  <2>3. Packets!Whole' \subseteq (1 .. n) \cup {n + 1} /\ n + 1 \notin 1 .. n
    BY <1>2 DEF Packets!Whole
  <2> QED
    <3>1. CASE Packets!Fits(pkt)
      BY <1>5, <2>1, <2>2, <2>3, <3>1, Zenon
    <3>2. CASE ~ Packets!Fits(pkt)
      <4>1. n + 1 \notin Packets!Whole'
        BY <2>2, <3>2, Zenon
      <4>2. Packets!Whole' = Packets!Whole
        BY <1>5, <2>1, <2>3, <4>1
      <4> QED
        BY <3>2, <4>2, Zenon
    <3> QED
      BY <3>1, <3>2, Zenon
<1>7. Packets!Writes' = IF Packets!Fits(pkt) /\ pkt.type # "READ" THEN Packets!Writes \cup {n + 1}
                        ELSE Packets!Writes
  <2>1. \A k \in 1 .. n : k \in Packets!Writes' <=> k \in Packets!Writes
    BY <1>2, <1>5, <1>6 DEF Packets!Writes
  <2>2. n + 1 \in Packets!Writes' <=> Packets!Fits(pkt) /\ pkt.type # "READ"
    BY <1>2, <1>5, <1>6 DEF Packets!Writes
  <2>3. Packets!Writes' \subseteq (1 .. n) \cup {n + 1} /\ n + 1 \notin 1 .. n
    BY <1>2 DEF Packets!Whole, Packets!Writes
  <2> QED
    <3>1. CASE Packets!Fits(pkt) /\ pkt.type # "READ"
      BY <1>5, <2>1, <2>2, <2>3, <3>1, Zenon
    <3>2. CASE ~ (Packets!Fits(pkt) /\ pkt.type # "READ")
      <4>1. n + 1 \notin Packets!Writes'
        BY <2>2, <3>2, Zenon
      <4>2. Packets!Writes' = Packets!Writes
        BY <1>5, <2>1, <2>3, <4>1
      <4> QED
        BY <3>2, <4>2, Zenon
    <3> QED
      BY <3>1, <3>2, Zenon
<1>8. /\ Packets!Cardinality(Packets!Whole \cup {n + 1}) = Packets!Cardinality(Packets!Whole) + 1
      /\ Packets!Cardinality(Packets!Writes \cup {n + 1}) = Packets!Cardinality(Packets!Writes) + 1
  BY <1>2, <1>5, CountIs
<1>9. Packets!Refused(pkt) \/ Packets!Accepted(pkt)
  BY <1>1
<1> DEFINE WritersOf(a) == {k \in Packets!Writes : Packets!Covers(sent[k], a)}
           Written == Packets!Fits(pkt) /\ pkt.type # "READ"
<1>10. ASSUME NEW a \in Packets!Addresses
       PROVE  WritersOf(a)' = IF Written /\ Packets!Covers(pkt, a) THEN WritersOf(a) \cup {n + 1} ELSE WritersOf(a)
  <2>1. \A k \in 1 .. n : Packets!Covers(sent'[k], a) <=> Packets!Covers(sent[k], a)
    BY <1>2
  <2>2. WritersOf(a)' = {k \in Packets!Writes' : Packets!Covers(sent'[k], a)}
    BY DEF Packets!Covers
  <2> HIDE DEF WritersOf, Written
  <2>3. CASE Written
    BY <1>2, <1>5, <1>7, <2>1, <2>2, <2>3 DEF WritersOf, Written
  <2>4. CASE ~ Written
    BY <1>2, <1>5, <1>7, <2>1, <2>2, <2>4 DEF WritersOf, Written
  <2> QED
    BY <2>3, <2>4
<1>11. memory' = [a \in Packets!Addresses |-> IF Written /\ Packets!Covers(pkt, a) THEN n + 1 ELSE memory[a]]
  <2>1. memory = [a \in Packets!Addresses |-> memory[a]]
    BY DEF PacketInv
  <2> QED
    BY <1>2, <1>9, <2>1 DEF Packets!Refused, Packets!Accepted
<1>12. ASSUME NEW a \in Packets!Addresses
       PROVE  memory'[a] = Packets!Max(WritersOf(a)' \cup {0})
  <2>1. memory[a] = Packets!Max(WritersOf(a) \cup {0})
    BY DEF PacketInv, Packets!StatisticsAgree
  <2>2. WritersOf(a) \in SUBSET (1 .. n)
    BY <1>5
  <2>3. CASE Written /\ Packets!Covers(pkt, a)
    <3>1. memory'[a] = n + 1 /\ WritersOf(a)' = WritersOf(a) \cup {n + 1}
      BY <1>10, <1>11, <2>3
    <3> HIDE DEF WritersOf
    <3>2. Packets!Max((WritersOf(a) \cup {n + 1}) \cup {0}) = n + 1
      BY <1>2, <2>2 DEF Packets!Max
    <3> QED
      BY <3>1, <3>2
  <2>4. CASE ~ (Written /\ Packets!Covers(pkt, a))
    <3>1. memory'[a] = memory[a] /\ WritersOf(a)' = WritersOf(a)
      BY <1>10, <1>11, <2>4
    <3> QED
      BY <2>1, <3>1
  <2> QED
    BY <2>3, <2>4
<1>13. memory' \in [Packets!Addresses -> Nat]
  BY <1>2, <1>11 DEF PacketInv
<1>14. /\ success_count' + error_count' = packet_counter'
       /\ total_received' = Packets!Cardinality(Packets!Whole') /\ success_count' = total_received'
       /\ received_writes' = Packets!Cardinality(Packets!Writes')
       /\ received_reads' + received_writes' = total_received'
       /\ success_count' \in Nat /\ error_count' \in Nat /\ total_received' \in Nat
       /\ received_reads' \in Nat /\ received_writes' \in Nat
  <2>0. /\ success_count + error_count = packet_counter
        /\ total_received = Packets!Cardinality(Packets!Whole) /\ success_count = total_received
        /\ received_writes = Packets!Cardinality(Packets!Writes)
        /\ received_reads + received_writes = total_received
        /\ success_count \in Nat /\ error_count \in Nat /\ total_received \in Nat
        /\ received_reads \in Nat /\ received_writes \in Nat
    BY DEF PacketInv, Packets!StatisticsAgree
  <2>1. CASE Packets!Refused(pkt)
    <3>1. Packets!Whole' = Packets!Whole /\ Packets!Writes' = Packets!Writes
      BY <1>6, <1>7, <2>1 DEF Packets!Refused
    <3>2. /\ error_count' = error_count + 1 /\ success_count' = success_count
          /\ received_reads' = received_reads /\ received_writes' = received_writes
          /\ total_received' = total_received
      BY <2>1 DEF Packets!Refused
    <3>3. packet_counter' = packet_counter + 1 /\ packet_counter \in Nat
      BY <1>2
    <3>4. success_count + error_count = packet_counter /\ success_count \in Nat /\ error_count \in Nat
      BY <2>0
    <3>5. success_count' + error_count' = packet_counter' /\ error_count' \in Nat
      BY <3>2, <3>3, <3>4
    <3> QED
      BY <2>0, <3>1, <3>2, <3>5
  <2>2. CASE Packets!Accepted(pkt)
    <3>1. /\ Packets!Cardinality(Packets!Whole') = total_received + 1
          /\ Packets!Cardinality(Packets!Writes') =
               IF pkt.type # "READ" THEN received_writes + 1 ELSE received_writes
      BY <1>6, <1>7, <1>8, <2>0, <2>2 DEF Packets!Accepted
    <3>2. /\ error_count' = error_count /\ success_count' = success_count + 1
          /\ total_received' = total_received + 1
          /\ received_reads' = IF pkt.type = "READ" THEN received_reads + 1 ELSE received_reads
          /\ received_writes' = IF pkt.type = "READ" THEN received_writes ELSE received_writes + 1
      BY <2>2 DEF Packets!Accepted
    <3> DEFINE whole == Packets!Cardinality(Packets!Whole')
               writes == Packets!Cardinality(Packets!Writes')
    <3>3. packet_counter' = packet_counter + 1
      BY <1>2
    <3>4. whole = total_received + 1
          /\ writes = IF pkt.type # "READ" THEN received_writes + 1 ELSE received_writes
      BY <3>1
    <3> HIDE DEF whole, writes
    <3>5. /\ success_count' + error_count' = packet_counter'
          /\ total_received' = whole /\ success_count' = total_received'
          /\ received_writes' = writes
          /\ received_reads' + received_writes' = total_received'
          /\ success_count' \in Nat /\ error_count' \in Nat /\ total_received' \in Nat
          /\ received_reads' \in Nat /\ received_writes' \in Nat
      BY <2>0, <3>2, <3>3, <3>4
    <3> QED
      BY <3>5 DEF whole, writes
  <2> QED
    BY <1>9, <2>1, <2>2
<1>15. Packets!StatisticsAgree'
  <2>1. \A a \in Packets!Addresses : WritersOf(a)' = {k \in Packets!Writes' : Packets!Covers(sent'[k], a)}
    BY DEF Packets!Covers
  <2> HIDE DEF WritersOf
  <2> QED
    BY <1>12, <1>14, <2>1 DEF Packets!StatisticsAgree, Packets!Cardinality, Packets!Addresses
<1> QED
  BY <1>2, <1>13, <1>14, <1>15 DEF PacketInv, Packets!Addresses, Packets!Packets, n

(***************************************************************************)
(* Lists of payloads in the order of their instants.                       *)
(***************************************************************************)

Sorted(q) == \A j, k \in 1 .. Len(q) : j <= k => q[j].t <= q[k].t

IsPlace(q, t, n) ==
  /\ n \in 1 .. Len(q) + 1
  /\ \A k \in 1 .. n - 1 : q[k].t < t
  /\ \A k \in n .. Len(q) : q[k].t >= t

\* The payloads of instant t.
PayloadsIn(q, t) ==
  [k \in 1 .. Cb!Place(q, t + 1) - Cb!Place(q, t) |-> q[Cb!Place(q, t) + k - 1].p]

\* Place divides a sorted list, and nothing else does.
LEMMA PlaceIs ==
  ASSUME NEW E, \A e \in E : e.t \in Nat, NEW q \in Seq(E), Sorted(q), NEW t \in Nat
  PROVE  /\ IsPlace(q, t, Cb!Place(q, t))
         /\ \A n : IsPlace(q, t, n) => n = Cb!Place(q, t)
<1>1. /\ Len(q) \in Nat
      /\ \A k \in 1 .. Len(q) : q[k] \in E /\ q[k].t \in Nat
  OBVIOUS
<1> DEFINE S == {k \in 1 .. Len(q) + 1 : k <= Len(q) => q[k].t >= t}
<1>2. Len(q) + 1 \in S /\ S \subseteq Nat
  BY <1>1
<1>3. PICK m \in S : \A k \in S : m <= k
  BY <1>2, LeastNat
<1>4. Cb!Min(S) = m
  <2>1. \A x \in S : (\A y \in S : x <= y) => x = m
    BY <1>2, <1>3
  <2> QED
    BY <1>3, <2>1, Zenon DEF Cb!Min
<1>5. Cb!Place(q, t) = m
  BY <1>4 DEF Cb!Place
<1>6. m \in 1 .. Len(q) + 1 /\ (m <= Len(q) => q[m].t >= t)
  BY <1>3
<1>7. \A k \in 1 .. m - 1 : q[k].t < t
  <2> SUFFICES ASSUME NEW k \in 1 .. m - 1 PROVE q[k].t < t
    OBVIOUS
  <2>1. k \in 1 .. Len(q) /\ k \in 1 .. Len(q) + 1 /\ ~ (m <= k)
    BY <1>1, <1>6
  <2>2. k \notin S
    BY <2>1, <1>3
  <2>3. ~ (q[k].t >= t)
    BY <2>1, <2>2
  <2> QED
    BY <2>1, <2>3, <1>1
<1>8. \A k \in m .. Len(q) : q[k].t >= t
  BY <1>1, <1>6 DEF Sorted
<1>9. ASSUME NEW n, IsPlace(q, t, n) PROVE n = m
  <2>1. n \in 1 .. Len(q) + 1 /\ \A k \in 1 .. n - 1 : q[k].t < t
    BY <1>9 DEF IsPlace
  <2>2. \A k \in n .. Len(q) : q[k].t >= t
    BY <1>9 DEF IsPlace
  <2>3. n \in S
    BY <1>1, <2>1, <2>2
  <2>4. m <= n
    BY <1>3, <2>3
  <2>5. ~ (m < n)
    BY <1>1, <1>6, <2>1
  <2> QED
    BY <1>1, <1>6, <2>1, <2>4, <2>5
<1> HIDE DEF S
<1> QED
  BY <1>5, <1>6, <1>7, <1>8, <1>9 DEF IsPlace

\* A later instant has a later place.
LEMMA PlaceGrows ==
  ASSUME NEW E, \A e \in E : e.t \in Nat, NEW q \in Seq(E), Sorted(q),
         NEW t \in Nat, NEW u \in Nat, t <= u
  PROVE  /\ Cb!Place(q, t) \in 1 .. Len(q) + 1 /\ Cb!Place(q, u) \in 1 .. Len(q) + 1
         /\ Cb!Place(q, t) <= Cb!Place(q, u)
<1>1. /\ Len(q) \in Nat
      /\ \A k \in 1 .. Len(q) : q[k] \in E /\ q[k].t \in Nat
  OBVIOUS
<1> DEFINE m == Cb!Place(q, t)
           n == Cb!Place(q, u)
<1>2. IsPlace(q, t, m) /\ IsPlace(q, u, n)
  BY PlaceIs
<1> HIDE DEF m, n
<1>3. /\ m \in 1 .. Len(q) + 1 /\ n \in 1 .. Len(q) + 1
      /\ \A k \in 1 .. m - 1 : q[k].t < t
      /\ \A k \in n .. Len(q) : q[k].t >= u
  BY <1>2 DEF IsPlace
<1>4. m <= n
  <2> SUFFICES ASSUME ~ (m <= n) PROVE FALSE
    OBVIOUS
  <2>1. n \in 1 .. m - 1 /\ n \in n .. Len(q) /\ n \in 1 .. Len(q)
    BY <1>1, <1>3
  <2> QED
    BY <1>1, <1>3, <2>1
<1> QED
  BY <1>3, <1>4 DEF m, n

\* What insertion makes of a sequence.
LEMMA InsertAtIs ==
  ASSUME NEW E, NEW q \in Seq(E), NEW n \in 1 .. Len(q) + 1, NEW e \in E
  PROVE  /\ Cb!InsertAt(q, n, e) \in Seq(E)
         /\ Len(Cb!InsertAt(q, n, e)) = Len(q) + 1
         /\ \A k \in 1 .. Len(q) + 1 :
              Cb!InsertAt(q, n, e)[k] = IF k < n THEN q[k] ELSE IF k = n THEN e ELSE q[k-1]
<1> DEFINE a == SubSeq(q, 1, n - 1)
           b == SubSeq(q, n, Len(q))
           c == a \o <<e>>
<1>1. n \in 1 .. Len(q) + 1 /\ Len(q) \in Nat /\ n \in Nat
  OBVIOUS
<1>2. a \in Seq(E) /\ Len(a) = n - 1 /\ \A j \in 1 .. n - 1 : a[j] = q[j]
  BY <1>1
<1>3. b \in Seq(E) /\ Len(b) = Len(q) - n + 1
  BY <1>1
<1>4. \A j \in 1 .. Len(q) - n + 1 : b[j] = q[n + j - 1]
  BY <1>1
<1>5. Cb!InsertAt(q, n, e) = c \o b
  BY DEF Cb!InsertAt
<1> HIDE DEF a, b
<1>6. /\ c \in Seq(E) /\ Len(c) = n
      /\ \A j \in 1 .. n - 1 : c[j] = q[j]
      /\ c[n] = e
  BY <1>1, <1>2
<1> HIDE DEF c
<1>7. (c \o b) \in Seq(E) /\ Len(c \o b) = Len(q) + 1
  <2>1. (c \o b) \in Seq(E) /\ Len(c \o b) = Len(c) + Len(b)
    BY <1>3, <1>6, ConcatProperties
  <2> QED
    BY <1>1, <1>3, <1>6, <2>1
<1>8. ASSUME NEW k \in 1 .. Len(q) + 1
      PROVE  (c \o b)[k] = IF k < n THEN q[k] ELSE IF k = n THEN e ELSE q[k-1]
  <2>1. CASE k <= n
    <3>1. k \in 1 .. Len(c) /\ (k < n => k \in 1 .. n - 1)
      BY <1>1, <1>6, <2>1
    <3>2. (c \o b)[k] = c[k]
      BY <1>3, <1>6, <3>1, ConcatProperties
    <3> QED
      BY <1>1, <1>6, <2>1, <3>1, <3>2
  <2>2. CASE ~ (k <= n)
    <3>1. k - n \in 1 .. Len(q) - n + 1 /\ n + (k - n) - 1 = k - 1
      BY <1>1, <2>2
    <3>2. (c \o b)[k] = b[k - n]
      BY <1>1, <1>3, <1>6, <2>2
    <3> QED
      BY <3>1, <3>2, <1>4, <2>2, <1>1
  <2> QED
    BY <2>1, <2>2
<1> QED
  BY <1>5, <1>7, <1>8

\* A payload joins those of its instant, behind them, and moves no other.
LEMMA InsertPayloads ==
  ASSUME NEW E, \A x \in E : x.t \in Nat, NEW q \in Seq(E), Sorted(q), NEW e \in E
  PROVE  /\ Cb!insert(q, e) \in Seq(E) /\ Sorted(Cb!insert(q, e))
         /\ Len(Cb!insert(q, e)) = Len(q) + 1
         /\ \A k \in 1 .. Len(q) + 1 : Cb!insert(q, e)[k] = e
              \/ \E j \in 1 .. Len(q) : Cb!insert(q, e)[k] = q[j]
         /\ \A u \in Nat : PayloadsIn(Cb!insert(q, e), u) =
              IF u = e.t THEN Append(PayloadsIn(q, u), e.p) ELSE PayloadsIn(q, u)
<1> DEFINE n == Cb!Place(q, e.t + 1)
           r == Cb!insert(q, e)
<1>1. /\ Len(q) \in Nat /\ e.t \in Nat
      /\ \A k \in 1 .. Len(q) : q[k] \in E /\ q[k].t \in Nat
  OBVIOUS
<1>2. /\ n \in 1 .. Len(q) + 1
      /\ \A k \in 1 .. n - 1 : q[k].t <= e.t
      /\ \A k \in n .. Len(q) : q[k].t > e.t
  <2>1. IsPlace(q, e.t + 1, n)
    BY <1>1, PlaceIs
  <2>2. n \in 1 .. Len(q) + 1
    BY <2>1 DEF IsPlace
  <2>3. \A k \in 1 .. n - 1 : q[k].t < e.t + 1
    BY <2>1 DEF IsPlace
  <2>4. \A k \in n .. Len(q) : q[k].t >= e.t + 1
    BY <2>1 DEF IsPlace
  <2> HIDE DEF n
  <2>5. \A k \in 1 .. n - 1 : q[k].t <= e.t
    BY <1>1, <2>2, <2>3
  <2>6. \A k \in n .. Len(q) : q[k].t > e.t
    BY <1>1, <2>2, <2>4
  <2> QED
    BY <2>2, <2>5, <2>6
<1>3. r = Cb!InsertAt(q, n, e)
  BY DEF Cb!insert
<1>order. ASSUME NEW u \in Nat
          PROVE  /\ u <= e.t => Cb!Place(q, u) <= n
                 /\ u < e.t => Cb!Place(q, u + 1) <= n
                 /\ u > e.t => n <= Cb!Place(q, u)
  <2>1. e.t + 1 \in Nat /\ u + 1 \in Nat
    BY <1>1
  <2> HIDE DEF n
  <2>2. \A t, v \in Nat : t <= v => Cb!Place(q, t) <= Cb!Place(q, v)
    BY PlaceGrows
  <2>3. /\ u <= e.t => u <= e.t + 1
        /\ u < e.t => u + 1 <= e.t + 1
        /\ u > e.t => e.t + 1 <= u
    BY <1>1
  <2>4. n = Cb!Place(q, e.t + 1)
    BY DEF n
  <2> QED
    BY <2>1, <2>2, <2>3, <2>4, Zenon
<1> HIDE DEF n, r
<1>4. /\ r \in Seq(E) /\ Len(r) = Len(q) + 1
      /\ \A k \in 1 .. Len(q) + 1 : r[k] = IF k < n THEN q[k] ELSE IF k = n THEN e ELSE q[k-1]
  <2>1. PICK m \in 1 .. Len(q) + 1 : m = n
    BY <1>2
  <2>2. /\ Cb!InsertAt(q, m, e) \in Seq(E) /\ Len(Cb!InsertAt(q, m, e)) = Len(q) + 1
        /\ \A k \in 1 .. Len(q) + 1 : Cb!InsertAt(q, m, e)[k]
              = IF k < m THEN q[k] ELSE IF k = m THEN e ELSE q[k-1]
    BY InsertAtIs
  <2>3. r = Cb!InsertAt(q, m, e)
    BY <2>1, <1>3
  <2> QED
    BY <2>1, <2>2, <2>3, Zenon
<1>below. \A k \in 1 .. Len(q) + 1 : k < n => r[k] = q[k]
  BY <1>4, Zenon
<1>above. \A k \in 1 .. Len(q) + 1 : k > n => r[k] = q[k-1]
  <2>1. \A k \in 1 .. Len(q) + 1 : k > n => ~(k < n) /\ k # n
    BY <1>2
  <2> QED
    BY <1>4, <2>1, Zenon
<1>5. ASSUME NEW j \in 1 .. Len(r), NEW k \in 1 .. Len(r), j <= k
      PROVE  r[j].t <= r[k].t
  <2>1. /\ j < n => j \in 1 .. n - 1 /\ j \in 1 .. Len(q)
        /\ j > n => j - 1 \in n .. Len(q) /\ j - 1 \in 1 .. Len(q)
        /\ k < n => k \in 1 .. n - 1 /\ k \in 1 .. Len(q)
        /\ k > n => k - 1 \in n .. Len(q) /\ k - 1 \in 1 .. Len(q)
    BY <1>1, <1>2, <1>4, <1>5
  <2>2. /\ r[j] = IF j < n THEN q[j] ELSE IF j = n THEN e ELSE q[j-1]
        /\ r[k] = IF k < n THEN q[k] ELSE IF k = n THEN e ELSE q[k-1]
    BY <1>4
  <2>3. CASE k < n
    BY <1>5, <1>2, <2>1, <2>2, <2>3 DEF Sorted
  <2>4. CASE k = n
    BY <1>1, <1>5, <1>2, <2>1, <2>2, <2>4
  <2>5. CASE k > n /\ j <= n
    <3>1. r[k].t > e.t
      BY <1>2, <2>1, <2>2, <2>5
    <3>2. r[j].t <= e.t
      <4>1. CASE j < n
        BY <1>2, <2>1, <2>2, <4>1
      <4>2. CASE j = n
        BY <1>1, <2>2, <4>2
      <4> QED
        BY <1>2, <2>5, <4>1, <4>2
    <3>3. r[k].t \in Nat /\ r[j].t \in Nat
      BY <1>4
    <3> QED
      BY <1>1, <3>1, <3>2, <3>3
  <2>6. CASE k > n /\ j > n
    <3>1. j - 1 <= k - 1
      BY <1>5
    <3>2. j - 1 \in 1 .. Len(q) /\ k - 1 \in 1 .. Len(q)
      BY <2>1, <2>6
    <3>3. q[j-1].t <= q[k-1].t
      BY <3>1, <3>2 DEF Sorted
    <3>4. r[j] = q[j-1] /\ r[k] = q[k-1]
      BY <1>4, <1>above, <2>6, Zenon
    <3> QED
      BY <3>3, <3>4
  <2> QED
    BY <1>2, <1>4, <2>3, <2>4, <2>5, <2>6
<1>6. Sorted(r)
  BY <1>5 DEF Sorted
<1>7. ASSUME NEW k \in 1 .. Len(q) + 1
      PROVE  r[k] = e \/ \E j \in 1 .. Len(q) : r[k] = q[j]
  <2>1. CASE k < n
    BY <1>1, <1>2, <1>4, <2>1
  <2>2. CASE k = n
    BY <1>4, <2>2
  <2>3. CASE k > n
    <3>1. k - 1 \in 1 .. Len(q) /\ r[k] = q[k-1]
      BY <1>1, <1>2, <1>above, <2>3
    <3> QED
      BY <3>1
  <2> QED
    BY <1>2, <2>1, <2>2, <2>3
<1>8. ASSUME NEW u \in Nat
      PROVE  Cb!Place(r, u) = IF u <= e.t THEN Cb!Place(q, u) ELSE Cb!Place(q, u) + 1
  <2> DEFINE m == Cb!Place(q, u)
             w == IF u <= e.t THEN m ELSE m + 1
  <2>1. IsPlace(q, u, m)
    BY PlaceIs
  <2>2. /\ u <= e.t => m <= n
        /\ u > e.t => n <= m
    BY <1>order
  <2> HIDE DEF m
  <2>3. /\ m \in 1 .. Len(q) + 1
        /\ \A k \in 1 .. m - 1 : q[k].t < u
        /\ \A k \in m .. Len(q) : q[k].t >= u
    BY <2>1 DEF IsPlace
  <2>4. w \in 1 .. Len(r) + 1
    BY <1>1, <1>4, <2>3
  <2>5. ASSUME NEW k \in 1 .. w - 1 PROVE r[k].t < u
    <3>0. k \in 1 .. Len(q) + 1
      BY <1>1, <1>4, <2>3
    <3>1. CASE k < n
      <4>1. k \in 1 .. m - 1
        BY <2>2, <2>3, <1>2, <3>1
      <4> QED
        BY <4>1, <2>3, <1>4, <3>0, <3>1
    <3>2. CASE k = n
      <4>1. u > e.t
        BY <2>2, <2>3, <1>2, <3>2, <1>1
      <4> QED
        BY <4>1, <1>4, <3>0, <3>2
    <3>3. CASE k > n
      <4>1. k - 1 \in 1 .. m - 1
        BY <2>2, <2>3, <1>2, <3>3, <1>1
      <4>2. r[k] = q[k-1]
        BY <1>above, <3>0, <3>3, Zenon
      <4> QED
        BY <4>1, <4>2, <2>3
    <3> QED
      BY <1>2, <3>1, <3>2, <3>3
  <2>6. ASSUME NEW k \in w .. Len(r) PROVE r[k].t >= u
    <3>0. k \in 1 .. Len(q) + 1
      BY <1>1, <1>4, <2>3
    <3>1. CASE k < n
      <4>1. k \in m .. Len(q)
        BY <2>2, <2>3, <1>2, <3>1, <1>1
      <4> QED
        BY <4>1, <2>3, <1>4, <3>0, <3>1
    <3>2. CASE k = n
      <4>1. u <= e.t
        BY <2>2, <2>3, <1>2, <3>2, <1>1
      <4> QED
        BY <4>1, <1>1, <1>4, <3>0, <3>2
    <3>3. CASE k > n
      <4>1. k - 1 \in m .. Len(q)
        BY <2>2, <2>3, <1>2, <3>3, <3>0, <1>1
      <4>2. r[k] = q[k-1]
        BY <1>above, <3>0, <3>3, Zenon
      <4> QED
        BY <4>1, <4>2, <2>3
    <3> QED
      BY <1>2, <3>1, <3>2, <3>3
  <2>7. IsPlace(r, u, w)
    BY <2>4, <2>5, <2>6 DEF IsPlace
  <2> HIDE DEF w
  <2>8. w = Cb!Place(r, u)
    BY <1>4, <1>6, <2>7, PlaceIs
  <2> QED
    BY <2>8 DEF w, m
<1>9. ASSUME NEW u \in Nat
      PROVE  PayloadsIn(r, u) =
               IF u = e.t THEN Append(PayloadsIn(q, u), e.p) ELSE PayloadsIn(q, u)
  <2> DEFINE m == Cb!Place(q, u)
             x == Cb!Place(q, u + 1)
             a == Cb!Place(r, u)
             b == Cb!Place(r, u + 1)
  <2>1. m \in 1 .. Len(q) + 1 /\ x \in 1 .. Len(q) + 1 /\ m <= x
    BY PlaceGrows
  <2>2. /\ a = IF u <= e.t THEN m ELSE m + 1
        /\ b = IF u < e.t THEN x ELSE x + 1
    <3>1. u + 1 \in Nat /\ (u + 1 <= e.t <=> u < e.t)
      BY <1>1
    <3> QED
      BY <1>8, <3>1
  <2>3. /\ u = e.t => x = n
        /\ u > e.t => n <= m
        /\ u < e.t => x <= n
    <3>1. u = e.t => x = n
      BY Zenon DEF n
    <3> QED
      BY <1>order, <3>1
  <2>4. PayloadsIn(q, u) = [k \in 1 .. x - m |-> q[m + k - 1].p]
    BY DEF PayloadsIn
  <2>5. PayloadsIn(r, u) = [k \in 1 .. b - a |-> r[a + k - 1].p]
    BY DEF PayloadsIn
  <2> HIDE DEF m, x, a, b
  <2>6. CASE u < e.t
    <3>1. \A k \in 1 .. x - m : m + k - 1 < n /\ m + k - 1 \in 1 .. Len(q) + 1
      BY <1>1, <1>2, <2>1, <2>3, <2>6
    <3>2. \A k \in 1 .. x - m : r[m + k - 1] = q[m + k - 1]
      BY <1>below, <3>1
    <3>3. a = m /\ b = x
      BY <1>1, <2>2, <2>6
    <3>5. PayloadsIn(r, u) = PayloadsIn(q, u)
      BY <2>4, <2>5, <3>2, <3>3
    <3> QED
      BY <1>1, <2>6, <3>5
  <2>7. CASE u > e.t
    <3>1. \A k \in 1 .. x - m : /\ m + k > n /\ m + k \in 1 .. Len(q) + 1
                                /\ m + 1 + k - 1 = m + k
      BY <1>1, <1>2, <2>1, <2>3, <2>7
    <3>2. ASSUME NEW k \in 1 .. x - m PROVE r[m + k] = q[m + k - 1]
      <4>1. m \in Nat /\ n \in Nat /\ k \in Nat
        BY <1>2, <2>1
      <4>2. PICK j \in 1 .. Len(q) + 1 : j = m + k
        BY <3>1
      <4>3. j > n /\ j - 1 = m + k - 1
        BY <3>1, <4>1, <4>2
      <4>5. r[j] = q[j - 1]
        BY <1>above, <4>3, Zenon
      <4> QED
        BY <4>2, <4>3, <4>5
    <3>3. a = m + 1 /\ b = x + 1
      BY <1>1, <2>2, <2>7
    <3>4. b - a = x - m
      BY <2>1, <1>1, <3>3
    <3>5. \A k \in 1 .. x - m : r[a + k - 1] = q[m + k - 1]
      BY <3>1, <3>2, <3>3
    <3>7. PayloadsIn(r, u) = PayloadsIn(q, u)
      BY <2>4, <2>5, <3>4, <3>5
    <3> QED
      BY <1>1, <2>7, <3>7
  <2>8. CASE u = e.t
    <3>1. \A k \in 1 .. x - m : m + k - 1 < n /\ m + k - 1 \in 1 .. Len(q) + 1
      BY <1>1, <1>2, <2>1, <2>3, <2>8
    <3>2. \A k \in 1 .. x - m : r[m + k - 1] = q[m + k - 1]
      BY <1>below, <3>1
    <3>3. PICK d \in Nat : d = x - m
      BY <2>1, <1>1
    <3>4. x + 1 - m = d + 1 /\ m + (d + 1) - 1 = n
      BY <2>1, <2>3, <2>8, <1>1, <3>3
    <3>5. a = m /\ b = x + 1
      BY <1>1, <2>2, <2>8
    <3>6. b - a = d + 1
      <4>1. b - a = (x + 1) - m
        BY <3>5, Zenon
      <4> QED
        BY <4>1, <3>4, <2>1, <1>1
    <3>7. PayloadsIn(r, u) = [k \in 1 .. d + 1 |-> r[m + k - 1].p]
      BY <2>5, <3>5, <3>6
    <3>8. r[n] = e
      BY <1>2, <1>4
    <3>9. PayloadsIn(q, u) = [k \in 1 .. d |-> q[m + k - 1].p]
      BY <2>4, <3>3, Zenon
    <3>10. Append(PayloadsIn(q, u), e.p)
             = [k \in 1 .. d + 1 |-> IF k = d + 1 THEN e.p ELSE q[m + k - 1].p]
      <4> DEFINE g == [k \in 1 .. d |-> q[m + k - 1].p]
      <4>1. Len(g) = d /\ \A k \in 1 .. d : g[k] = q[m + k - 1].p
        <5>1. DOMAIN g = 1 .. d
          OBVIOUS
        <5>2. Len(g) = d
          BY <3>3, <5>1
        <5> QED
          BY <5>2
      <4> HIDE DEF g
      <4>2. g = PayloadsIn(q, u)
        BY <3>9 DEF g
      <4>3. Append(g, e.p) = [k \in 1 .. d + 1 |-> IF k = d + 1 THEN e.p ELSE g[k]]
        <5>1. PICK G : G = {g[k] : k \in 1 .. d}
          OBVIOUS
        <5>2. g \in [1 .. d -> G]
          BY <5>1 DEF g
        <5>3. g \in Seq(G)
          BY <3>3, <5>2, SeqDef
        <5> QED
          BY <4>1, <5>3, <3>3
      <4>4. \A k \in 1 .. d + 1 : k = d + 1 \/ k \in 1 .. d
        OBVIOUS
      <4> QED
        BY <4>1, <4>2, <4>3, <4>4
    <3>11. ASSUME NEW k \in 1 .. d + 1
          PROVE  r[m + k - 1].p = IF k = d + 1 THEN e.p ELSE q[m + k - 1].p
      <4>1. CASE k = d + 1
        BY <3>4, <3>8, <4>1
      <4>2. CASE k \in 1 .. d
        BY <3>2, <3>3, <4>2
      <4> QED
        BY <4>1, <4>2
    <3>12. Append(PayloadsIn(q, u), e.p) = PayloadsIn(r, u)
      BY <3>7, <3>10, <3>11, Zenon
    <3> QED
      BY <2>8, <3>12
  <2> QED
    BY <1>1, <2>6, <2>7, <2>8
<1> QED
  BY <1>4, <1>6, <1>7, <1>9 DEF r

\* They are payloads.
LEMMA PayloadsType ==
  ASSUME NEW E, NEW P, \A x \in E : x.t \in Nat /\ x.p \in P,
         NEW q \in Seq(E), Sorted(q), NEW u \in Nat
  PROVE  PayloadsIn(q, u) \in Seq(P)
<1> DEFINE m == Cb!Place(q, u)
           x == Cb!Place(q, u + 1)
<1>1. m \in 1 .. Len(q) + 1 /\ x \in 1 .. Len(q) + 1 /\ m <= x
  BY PlaceGrows
<1>2. PayloadsIn(q, u) = [k \in 1 .. x - m |-> q[m + k - 1].p]
  BY DEF PayloadsIn
<1> HIDE DEF m, x
<1>3. \A k \in 1 .. x - m : m + k - 1 \in 1 .. Len(q)
  BY <1>1
<1>4. \A k \in 1 .. Len(q) : q[k].p \in P
  OBVIOUS
<1>5. [k \in 1 .. x - m |-> q[m + k - 1].p] \in [1 .. x - m -> P]
  BY <1>3, <1>4
<1>6. PICK d \in Nat : d = x - m
  BY <1>1
<1>7. PICK g : g = [k \in 1 .. x - m |-> q[m + k - 1].p]
  OBVIOUS
<1>8. g \in [1 .. d -> P]
  BY <1>5, <1>6, <1>7, Zenon
<1>9. g \in Seq(P)
  BY <1>8, SeqDef
<1> QED
  BY <1>2, <1>7, <1>9

\* There are none if no element is of that instant.
LEMMA NonePayloads ==
  ASSUME NEW E, \A x \in E : x.t \in Nat, NEW q \in Seq(E), Sorted(q), NEW u \in Nat,
         \A k \in 1 .. Len(q) : q[k].t # u
  PROVE  PayloadsIn(q, u) = <<>>
<1> DEFINE m == Cb!Place(q, u)
<1>1. IsPlace(q, u, m)
  BY PlaceIs
<1> HIDE DEF m
<1>2. \A k \in 1 .. Len(q) : q[k].t \in Nat
  OBVIOUS
<1>3. /\ m \in 1 .. Len(q) + 1
      /\ \A k \in 1 .. m - 1 : q[k].t < u
      /\ \A k \in m .. Len(q) : q[k].t >= u
  BY <1>1 DEF IsPlace
<1>4. IsPlace(q, u + 1, m)
  <2>1. \A k \in 1 .. m - 1 : q[k].t < u + 1
    BY <1>2, <1>3
  <2>2. \A k \in m .. Len(q) : k \in 1 .. Len(q) /\ q[k].t >= u + 1
    BY <1>2, <1>3
  <2> QED
    BY <1>3, <2>1, <2>2 DEF IsPlace
<1>5. m = Cb!Place(q, u + 1)
  BY <1>4, PlaceIs
<1>6. PayloadsIn(q, u) = [k \in 1 .. m - m |-> q[m + k - 1].p]
  BY <1>5 DEF PayloadsIn, m
<1>7. m - m = 0
  BY <1>3
<1> QED
  BY <1>6, <1>7

\* Those of the first element come first, and the tail is without the first one.
LEMMA TailPayloads ==
  ASSUME NEW E, \A x \in E : x.t \in Nat, NEW q \in Seq(E), Sorted(q), q # <<>>
  PROVE  /\ Tail(q) \in Seq(E) /\ Sorted(Tail(q))
         /\ \A k \in 1 .. Len(Tail(q)) : \E j \in 1 .. Len(q) : Tail(q)[k] = q[j]
         /\ PayloadsIn(q, Head(q).t) # <<>>
         /\ PayloadsIn(Tail(q), Head(q).t) = Tail(PayloadsIn(q, Head(q).t))
         /\ \A u \in Nat : u # Head(q).t => PayloadsIn(Tail(q), u) = PayloadsIn(q, u)
<1> DEFINE r == Tail(q)
           h == Head(q).t
<1>1. /\ Len(q) \in Nat \ {0} /\ h \in Nat /\ h = q[1].t
      /\ \A k \in 1 .. Len(q) : q[k] \in E /\ q[k].t \in Nat
  OBVIOUS
<1>2. r \in Seq(E) /\ Len(r) = Len(q) - 1 /\ \A k \in 1 .. Len(q) - 1 : r[k] = q[k + 1]
  OBVIOUS
<1> HIDE DEF r, h
<1>3. \A k \in 1 .. Len(q) : q[k].t >= h
  BY <1>1 DEF Sorted
<1>4. \A j, k \in 1 .. Len(q) - 1 : j <= k => r[j].t <= r[k].t
  <2> SUFFICES ASSUME NEW j \in 1 .. Len(q) - 1, NEW k \in 1 .. Len(q) - 1, j <= k
               PROVE  r[j].t <= r[k].t
    OBVIOUS
  <2>1. j + 1 \in 1 .. Len(q) /\ k + 1 \in 1 .. Len(q) /\ j + 1 <= k + 1
    BY <1>1
  <2> QED
    BY <1>2, <2>1 DEF Sorted
<1>5. Sorted(r)
  BY <1>2, <1>4 DEF Sorted
<1>6. \A k \in 1 .. Len(r) : \E j \in 1 .. Len(q) : r[k] = q[j]
  <2> SUFFICES ASSUME NEW k \in 1 .. Len(r) PROVE \E j \in 1 .. Len(q) : r[k] = q[j]
    OBVIOUS
  <2>1. k + 1 \in 1 .. Len(q) /\ k \in 1 .. Len(q) - 1
    BY <1>1, <1>2
  <2> QED
    BY <1>2, <2>1
<1>7. ASSUME NEW u \in Nat, u > h
      PROVE  /\ Cb!Place(q, u) \in 2 .. Len(q) + 1
             /\ Cb!Place(r, u) = Cb!Place(q, u) - 1
  <2> DEFINE m == Cb!Place(q, u)
  <2>1. IsPlace(q, u, m)
    BY PlaceIs
  <2> HIDE DEF m
  <2>2. /\ m \in 1 .. Len(q) + 1
        /\ \A k \in 1 .. m - 1 : q[k].t < u
        /\ \A k \in m .. Len(q) : q[k].t >= u
    BY <2>1 DEF IsPlace
  <2>3. m # 1
    BY <1>1, <1>7, <2>2
  <2>4. PICK n \in 1 .. Len(q) : n = m - 1
    BY <1>1, <2>2, <2>3
  <2>5. ASSUME NEW k \in 1 .. n - 1 PROVE r[k].t < u
    <3>1. k \in 1 .. Len(q) - 1 /\ k + 1 \in 1 .. m - 1
      BY <1>1, <2>2, <2>4
    <3> QED
      BY <1>2, <2>2, <3>1
  <2>6. ASSUME NEW k \in n .. Len(r) PROVE r[k].t >= u
    <3>1. k \in 1 .. Len(q) - 1 /\ k + 1 \in m .. Len(q)
      BY <1>1, <1>2, <2>2, <2>4
    <3> QED
      BY <1>2, <2>2, <3>1
  <2>7. IsPlace(r, u, n)
    BY <1>1, <1>2, <2>4, <2>5, <2>6 DEF IsPlace
  <2>8. n = Cb!Place(r, u)
    BY <1>2, <1>5, <2>7, PlaceIs
  <2> QED
    BY <2>2, <2>3, <2>4, <2>8, <1>1 DEF m
<1>8. Cb!Place(q, h) = 1 /\ Cb!Place(r, h) = 1
  <2>1. \A k \in 1 .. Len(r) : r[k].t >= h
    BY <1>3, <1>6
  <2>2. IsPlace(q, h, 1) /\ IsPlace(r, h, 1)
    BY <1>1, <1>2, <1>3, <2>1 DEF IsPlace
  <2>3. 1 = Cb!Place(q, h)
    BY <1>1, <2>2, PlaceIs
  <2>4. 1 = Cb!Place(r, h)
    BY <1>1, <1>2, <1>5, <2>2, PlaceIs
  <2> QED
    BY <2>3, <2>4
<1>9. PayloadsIn(q, h) # <<>> /\ PayloadsIn(r, h) = Tail(PayloadsIn(q, h))
  <2>1. PICK n \in 1 .. Len(q) : n = Cb!Place(q, h + 1) - 1
    BY <1>1, <1>7
  <2>2. Cb!Place(r, h + 1) = n
    BY <1>1, <1>7, <2>1
  <2>3. PayloadsIn(q, h) = [k \in 1 .. n |-> q[1 + k - 1].p]
    BY <1>8, <2>1 DEF PayloadsIn
  <2>4. PayloadsIn(r, h) = [k \in 1 .. n - 1 |-> r[1 + k - 1].p]
    BY <1>8, <2>2 DEF PayloadsIn
  <2>5. PICK g : g = [k \in 1 .. n |-> q[k].p]
    OBVIOUS
  <2>6. g = PayloadsIn(q, h)
    <3>1. \A k \in 1 .. n : 1 + k - 1 = k
      OBVIOUS
    <3> QED
      BY <2>3, <2>5, <3>1
  <2>7. n \in Nat \ {0} /\ n - 1 \in Nat
    BY <1>1
  <2>8. PICK P : P = {q[k].p : k \in 1 .. n}
    OBVIOUS
  <2>9. g \in [1 .. n -> P]
    BY <2>5, <2>8
  <2>10. g \in Seq(P) /\ Len(g) = n
    BY <2>7, <2>9, SeqDef
  <2>11. Tail(g) = [k \in 1 .. n - 1 |-> g[k + 1]]
    <3>1. /\ Tail(g) \in Seq(P) /\ Len(Tail(g)) = n - 1
          /\ \A k \in 1 .. n - 1 : Tail(g)[k] = g[k + 1]
      BY <2>7, <2>10
    <3>2. Tail(g) \in [1 .. n - 1 -> P]
      BY <3>1, LenProperties
    <3> QED
      BY <3>1, <3>2
  <2>12. \A k \in 1 .. n - 1 : k + 1 \in 1 .. n /\ 1 + k - 1 = k /\ k \in 1 .. Len(q) - 1
    BY <1>1
  <2>13. \A k \in 1 .. n - 1 : r[1 + k - 1].p = g[k + 1]
    BY <1>2, <2>5, <2>12
  <2>14. PayloadsIn(r, h) = Tail(g)
    BY <2>4, <2>11, <2>13, Zenon
  <2> QED
    BY <2>6, <2>7, <2>10, <2>14
<1>10. ASSUME NEW u \in Nat, u # h PROVE PayloadsIn(r, u) = PayloadsIn(q, u)
  <2>1. CASE u < h
    <3>1. \A k \in 1 .. Len(q) : q[k].t # u
      BY <1>1, <1>3, <2>1
    <3>2. \A k \in 1 .. Len(r) : r[k].t # u
      BY <1>6, <3>1
    <3>3. PayloadsIn(q, u) = <<>>
      BY <3>1, NonePayloads
    <3>4. PayloadsIn(r, u) = <<>>
      BY <1>2, <1>5, <3>2, NonePayloads
    <3> QED
      BY <3>3, <3>4
  <2>2. CASE u > h
    <3> DEFINE m == Cb!Place(q, u)
               x == Cb!Place(q, u + 1)
               a == Cb!Place(r, u)
               b == Cb!Place(r, u + 1)
    <3>1. m \in 2 .. Len(q) + 1 /\ a = m - 1
      BY <1>7, <2>2
    <3>2. x \in 2 .. Len(q) + 1 /\ b = x - 1
      BY <1>1, <1>7, <2>2
    <3>3. PayloadsIn(q, u) = [k \in 1 .. x - m |-> q[m + k - 1].p]
      BY DEF PayloadsIn
    <3>4. PayloadsIn(r, u) = [k \in 1 .. b - a |-> r[a + k - 1].p]
      BY DEF PayloadsIn
    <3> HIDE DEF m, x, a, b
    <3>5. b - a = x - m
      BY <3>1, <3>2
    <3>6. ASSUME NEW k \in 1 .. x - m PROVE r[a + k - 1] = q[m + k - 1]
      <4>1. PICK j \in 1 .. Len(q) - 1 : j = a + k - 1
        BY <1>1, <3>1, <3>2
      <4>2. j + 1 = m + k - 1
        BY <3>1, <4>1
      <4>3. r[j] = q[j + 1]
        BY <1>2
      <4> QED
        BY <4>1, <4>2, <4>3
    <3> QED
      BY <3>3, <3>4, <3>5, <3>6
  <2> QED
    BY <1>1, <1>10, <2>1, <2>2
<1>11. /\ PayloadsIn(q, Head(q).t) # <<>>
       /\ PayloadsIn(Tail(q), Head(q).t) = Tail(PayloadsIn(q, Head(q).t))
  BY <1>9 DEF r, h
<1>12. \A u \in Nat : u # Head(q).t => PayloadsIn(Tail(q), u) = PayloadsIn(q, u)
  BY <1>10 DEF r, h
<1>13. Tail(q) \in Seq(E) /\ Sorted(Tail(q))
  BY <1>2, <1>5 DEF r
<1>14. \A k \in 1 .. Len(Tail(q)) : \E j \in 1 .. Len(q) : Tail(q)[k] = q[j]
  BY <1>6 DEF r
<1> QED
  BY <1>11, <1>12, <1>13, <1>14

\* The payloads of the instants after n, as the event queue has them.
LaterIn(q, n, T) == [t \in 0 .. T |-> IF t > n THEN PayloadsIn(q, t) ELSE <<>>]

\* A payload that is notified for a later instant changes that instant only.
LEMMA LaterInsert ==
  ASSUME NEW E, \A x \in E : x.t \in Nat, NEW q \in Seq(E), Sorted(q),
         NEW n \in Nat, NEW T \in Nat, NEW e \in E, e.t \in n + 1 .. T
  PROVE  /\ PayloadsIn(Cb!insert(q, e), n) = PayloadsIn(q, n)
         /\ LaterIn(Cb!insert(q, e), n, T) = [LaterIn(q, n, T) EXCEPT ![e.t] = Append(@, e.p)]
<1> DEFINE r == Cb!insert(q, e)
<1>1. \A u \in Nat : PayloadsIn(r, u) =
        IF u = e.t THEN Append(PayloadsIn(q, u), e.p) ELSE PayloadsIn(q, u)
  <2> HIDE DEF r
  <2>1. \A u \in Nat : PayloadsIn(Cb!insert(q, e), u) =
          IF u = e.t THEN Append(PayloadsIn(q, u), e.p) ELSE PayloadsIn(q, u)
    BY InsertPayloads
  <2>2. r = Cb!insert(q, e)
    BY DEF r
  <2> QED
    BY <2>1, <2>2, Zenon
<1> HIDE DEF r
<1>2. PayloadsIn(r, n) = PayloadsIn(q, n)
  BY <1>1
<1>3. LaterIn(r, n, T) = [LaterIn(q, n, T) EXCEPT ![e.t] = Append(@, e.p)]
  <2>1. PICK f : f = LaterIn(q, n, T)
    OBVIOUS
  <2>2. /\ f = [u \in 0 .. T |-> f[u]]
        /\ \A u \in 0 .. T : f[u] = IF u > n THEN PayloadsIn(q, u) ELSE <<>>
    BY <2>1 DEF LaterIn
  <2>3. [f EXCEPT ![e.t] = Append(@, e.p)]
          = [u \in 0 .. T |-> IF u = e.t THEN Append(f[u], e.p) ELSE f[u]]
    BY <2>2
  <2>4. ASSUME NEW u \in 0 .. T
        PROVE  (IF u > n THEN PayloadsIn(r, u) ELSE <<>>)
                 = IF u = e.t THEN Append(f[u], e.p) ELSE f[u]
    <3>1. u \in Nat
      OBVIOUS
    <3>2. CASE u = e.t
      <4>1. u > n
        BY <3>2
      <4>2. PayloadsIn(r, u) = Append(PayloadsIn(q, u), e.p)
        BY <1>1, <3>1, <3>2
      <4>3. f[u] = PayloadsIn(q, u)
        BY <2>2, <4>1
      <4> QED
        BY <3>2, <4>1, <4>2, <4>3, Zenon
    <3>3. CASE u # e.t
      BY <1>1, <2>2, <3>1, <3>3
    <3> QED
      BY <3>2, <3>3
  <2>5. LaterIn(r, n, T) = [f EXCEPT ![e.t] = Append(@, e.p)]
    BY <2>3, <2>4, Zenon DEF LaterIn
  <2> QED
    BY <2>1, <2>5, Zenon
<1> QED
  BY <1>2, <1>3 DEF r

\* Handing over the first payload takes it from those that are due.
LEMMA LaterPop ==
  ASSUME NEW E, \A x \in E : x.t \in Nat, NEW q \in Seq(E), Sorted(q), q # <<>>,
         NEW n \in Nat, NEW T \in Nat, Head(q).t = n
  PROVE  /\ PayloadsIn(q, n) # <<>> /\ PayloadsIn(Tail(q), n) = Tail(PayloadsIn(q, n))
         /\ LaterIn(Tail(q), n, T) = LaterIn(q, n, T)
<1>1. /\ PayloadsIn(q, n) # <<>>
      /\ PayloadsIn(Tail(q), n) = Tail(PayloadsIn(q, n))
      /\ \A u \in Nat : u # n => PayloadsIn(Tail(q), u) = PayloadsIn(q, u)
  BY TailPayloads
<1>2. \A t \in 0 .. T : t > n => PayloadsIn(Tail(q), t) = PayloadsIn(q, t)
  BY <1>1
<1> QED
  BY <1>1, <1>2 DEF LaterIn

\* An instant begins, if none before it has payloads, with its own.
LEMMA LaterBegins ==
  ASSUME NEW E, \A x \in E : x.t \in Nat, NEW q \in Seq(E), Sorted(q),
         NEW n \in Nat, NEW T \in Nat, NEW t \in n + 1 .. T,
         \A k \in 1 .. Len(q) : q[k].t >= t
  PROVE  /\ \A u \in n + 1 .. t - 1 : LaterIn(q, n, T)[u] = <<>>
         /\ LaterIn(q, n, T)[t] = PayloadsIn(q, t)
         /\ LaterIn(q, t, T) = [LaterIn(q, n, T) EXCEPT ![t] = <<>>]
<1>1. ASSUME NEW u \in Nat, u < t PROVE PayloadsIn(q, u) = <<>>
  <2>1. \A k \in 1 .. Len(q) : q[k].t \in Nat /\ q[k].t # u
    BY <1>1
  <2> QED
    BY <2>1, NonePayloads
<1>2. \A u \in n + 1 .. t - 1 : LaterIn(q, n, T)[u] = <<>>
  BY <1>1 DEF LaterIn
<1>3. LaterIn(q, n, T)[t] = PayloadsIn(q, t)
  BY DEF LaterIn
<1>4. LaterIn(q, t, T) = [LaterIn(q, n, T) EXCEPT ![t] = <<>>]
  <2>1. PICK f : f = LaterIn(q, n, T)
    OBVIOUS
  <2>2. /\ f = [u \in 0 .. T |-> f[u]]
        /\ \A u \in 0 .. T : f[u] = IF u > n THEN PayloadsIn(q, u) ELSE <<>>
    BY <2>1 DEF LaterIn
  <2>3. [f EXCEPT ![t] = <<>>]
          = [u \in 0 .. T |-> IF u = t THEN <<>> ELSE f[u]]
    BY <2>2
  <2>4. ASSUME NEW u \in 0 .. T
        PROVE  (IF u > t THEN PayloadsIn(q, u) ELSE <<>>)
                 = IF u = t THEN <<>> ELSE f[u]
    BY <1>1, <2>2
  <2>5. LaterIn(q, t, T) = [f EXCEPT ![t] = <<>>]
    BY <2>3, <2>4, Zenon DEF LaterIn
  <2> QED
    BY <2>1, <2>5, Zenon
<1> QED
  BY <1>2, <1>3, <1>4

\* Without payloads there are none at any instant.
LEMMA LaterNone ==
  ASSUME NEW n, NEW T \in Nat
  PROVE  /\ \A u \in Nat : PayloadsIn(<<>>, u) = <<>>
         /\ LaterIn(<<>>, n, T) = [t \in 0 .. T |-> <<>>]
<1> DEFINE E == [p : {0}, t : Nat]
<1>1. \A u \in Nat : PayloadsIn(<<>>, u) = <<>>
  <2>1. <<>> \in Seq(E) /\ Sorted(<<>>) /\ \A x \in E : x.t \in Nat
    BY DEF Sorted
  <2>2. \A u \in Nat, k \in 1 .. Len(<<>>) : <<>>[k].t # u
    OBVIOUS
  <2> HIDE DEF E
  <2> QED
    BY <2>1, <2>2, NonePayloads
<1> QED
  BY <1>1 DEF LaterIn

(***************************************************************************)
(* The payload event queue with a callback, unit "peq_with_cb_and_phase".  *)
(***************************************************************************)

CbPayloads == 1 .. MaxNotes
CbEntries == [p : CbPayloads, t : 0 .. CbTime]

CbInv ==
  /\ now \in 0 .. CbTime /\ parity \in {0, 1} /\ notes \in 0 .. MaxNotes
  /\ m_e \in now .. CbTime + 1
  /\ fec \in {"idle", "triggered", "yield", "delta", "timed"}
  /\ m_ppq \in Seq(CbEntries) /\ m_delta \in [{0, 1} -> Seq(CbPayloads)]
  /\ m_immediate_yield \in Seq(CbPayloads)
  \* No timed payload is late, and fec() leaves none that is due.
  /\ Sorted(m_ppq) /\ \A k \in 1 .. Len(m_ppq) : m_ppq[k].t >= now
  \* fec() empties its lists one after the other ...
  /\ fec \in {"delta", "timed", "idle"} => m_immediate_yield = <<>>
  /\ fec \in {"timed", "idle"} => m_delta[parity] = <<>>
  \* ... and the event stays notified for the earliest of the others.
  /\ fec \in {"timed", "idle"} => (m_delta[1 - parity] # <<>> => m_e = now)
  /\ fec = "idle" => \A k \in 1 .. Len(m_ppq) : m_ppq[k].t > now /\ m_ppq[k].t >= m_e

\* The state of the event queue that the lists stand for.
CbDue == m_delta[parity] \o PayloadsIn(m_ppq, now)
CbSoon == m_delta[1 - parity]
CbLater == LaterIn(m_ppq, now, CbTime)

\* The promise, in these terms.
LEMMA CbQueue ==
  /\ UNCHANGED Cb!Queue!vars <=> UNCHANGED <<now, m_immediate_yield, CbDue, CbSoon, CbLater>>
  /\ Cb!Queue!Init <=> /\ now = 0 /\ m_immediate_yield = <<>> /\ CbDue = <<>> /\ CbSoon = <<>>
                       /\ CbLater = [t \in 0 .. CbTime |-> <<>>]
  /\ \A p : Cb!Queue!Immediately(p) <=>
       /\ m_immediate_yield' = Append(m_immediate_yield, p)
       /\ UNCHANGED <<now, CbDue, CbSoon, CbLater>>
  /\ \A p : Cb!Queue!InOneDelta(p) <=>
       /\ CbSoon' = Append(CbSoon, p)
       /\ UNCHANGED <<now, m_immediate_yield, CbDue, CbLater>>
  /\ \A p, t : Cb!Queue!AtInstant(p, t) <=>
       /\ t > now /\ CbLater' = [CbLater EXCEPT ![t] = Append(@, p)]
       /\ UNCHANGED <<now, m_immediate_yield, CbDue, CbSoon>>
  /\ Cb!Queue!HandOver <=>
       /\ \/ /\ m_immediate_yield # <<>> /\ m_immediate_yield' = Tail(m_immediate_yield)
             /\ UNCHANGED CbDue
          \/ /\ m_immediate_yield = <<>> /\ CbDue # <<>> /\ CbDue' = Tail(CbDue)
             /\ UNCHANGED m_immediate_yield
       /\ \/ UNCHANGED <<CbSoon, CbLater>>
          \/ \E p \in CbPayloads : CbSoon' = Append(CbSoon, p) /\ UNCHANGED CbLater
          \/ \E p \in CbPayloads, t \in 0 .. CbTime :
               /\ t > now /\ CbLater' = [CbLater EXCEPT ![t] = Append(@, p)]
               /\ UNCHANGED CbSoon
       /\ UNCHANGED now
  /\ Cb!Queue!NextDelta <=>
       /\ m_immediate_yield = <<>> /\ CbDue = <<>> /\ CbDue' = CbSoon /\ CbSoon' = <<>>
       /\ UNCHANGED <<now, m_immediate_yield, CbLater>>
  /\ \A t : Cb!Queue!NextInstant(t) <=>
       /\ m_immediate_yield = <<>> /\ CbDue = <<>> /\ CbSoon = <<>>
       /\ t > now /\ \A u \in now + 1 .. t - 1 : CbLater[u] = <<>>
       /\ now' = t /\ CbDue' = CbLater[t] /\ CbLater' = [CbLater EXCEPT ![t] = <<>>]
       /\ UNCHANGED <<m_immediate_yield, CbSoon>>
  /\ Cb!Queue!CancelAll <=>
       /\ m_immediate_yield' = <<>> /\ CbDue' = <<>> /\ CbSoon' = <<>>
       /\ CbLater' = [t \in 0 .. CbTime |-> <<>>]
       /\ UNCHANGED now
  /\ Cb!Queue!Next <=>
       \/ \E p \in CbPayloads : Cb!Queue!Immediately(p) \/ Cb!Queue!InOneDelta(p)
       \/ \E p \in CbPayloads, t \in 0 .. CbTime : Cb!Queue!AtInstant(p, t)
       \/ Cb!Queue!HandOver \/ Cb!Queue!NextDelta \/ Cb!Queue!CancelAll
       \/ \E t \in 0 .. CbTime : Cb!Queue!NextInstant(t)
BY DEF CbDue, CbSoon, CbLater, LaterIn, PayloadsIn, CbPayloads, Cb!PayloadsAt, Cb!OtherParity,
       Cb!Instants, Cb!Payload, Cb!Queue!vars, Cb!Queue!Init, Cb!Queue!Immediately,
       Cb!Queue!InOneDelta, Cb!Queue!AtInstant, Cb!Queue!HandOver, Cb!Queue!AllHandedOver,
       Cb!Queue!NextDelta, Cb!Queue!NextInstant, Cb!Queue!CancelAll, Cb!Queue!Next,
       Cb!Queue!Instants

\* What a notification with a delay makes of the queue r, in terms of the promise.
Notified(r) ==
  \/ /\ \E p \in CbPayloads : r.delta[1 - parity] = Append(CbSoon, p)
     /\ LaterIn(r.ppq, now, CbTime) = CbLater
  \/ /\ \E p \in CbPayloads, t \in 0 .. CbTime :
          t > now /\ LaterIn(r.ppq, now, CbTime) = [CbLater EXCEPT ![t] = Append(@, p)]
     /\ r.delta[1 - parity] = CbSoon

\* The queue r can take the place of this one.
Sound(r) ==
  /\ r.notes \in 0 .. MaxNotes /\ r.e \in now .. CbTime + 1
  /\ r.ppq \in Seq(CbEntries) /\ r.delta \in [{0, 1} -> Seq(CbPayloads)]
  /\ Sorted(r.ppq) /\ \A k \in 1 .. Len(r.ppq) : r.ppq[k].t >= now
  /\ r.delta[parity] = m_delta[parity]
  /\ PayloadsIn(r.ppq, now) = PayloadsIn(m_ppq, now)
  /\ fec \in {"timed", "idle"} => (r.delta[1 - parity] # <<>> => r.e = now)
  /\ fec = "idle" => \A k \in 1 .. Len(r.ppq) : r.ppq[k].t > now /\ r.ppq[k].t >= r.e

\* notify() changes nothing but the list it appends to or inserts into, and leaves
\* the event notified for what it appends or inserts.
LEMMA CbNotifies ==
  ASSUME CbTime \in Nat, MaxNotes \in Nat, CbInv
  PROVE  /\ Sound(Cb!Untouched)
         /\ \A r \in Cb!AfterNotify : Sound(r) /\ Notified(r)
<1>inv. /\ now \in 0 .. CbTime /\ parity \in {0, 1} /\ notes \in 0 .. MaxNotes
        /\ m_e \in now .. CbTime + 1
        /\ m_ppq \in Seq(CbEntries) /\ m_delta \in [{0, 1} -> Seq(CbPayloads)]
        /\ Sorted(m_ppq) /\ \A k \in 1 .. Len(m_ppq) : m_ppq[k].t >= now
        /\ fec \in {"timed", "idle"} => (m_delta[1 - parity] # <<>> => m_e = now)
        /\ fec = "idle" => \A k \in 1 .. Len(m_ppq) : m_ppq[k].t > now /\ m_ppq[k].t >= m_e
  BY DEF CbInv
<1>1. Sound(Cb!Untouched)
  BY <1>inv DEF Sound, Cb!Untouched
<1>2. 1 - parity \in {0, 1} /\ 1 - parity # parity
  BY <1>inv
<1>3. ASSUME NEW t \in now .. CbTime
      PROVE  /\ Cb!Earlier(m_e, t) \in now .. CbTime + 1
             /\ Cb!Earlier(m_e, t) <= m_e /\ Cb!Earlier(m_e, t) <= t
             /\ m_e = now => Cb!Earlier(m_e, t) = now
             /\ t = now => Cb!Earlier(m_e, t) = now
  BY <1>inv DEF Cb!Earlier
<1>4. ASSUME notes < MaxNotes PROVE Sound(Cb!AfterDelta) /\ Notified(Cb!AfterDelta)
  <2> DEFINE r == Cb!AfterDelta
  <2>1. notes + 1 \in CbPayloads /\ notes + 1 \in 0 .. MaxNotes
    BY <1>inv, <1>4 DEF CbPayloads
  <2>2. /\ r.ppq = m_ppq /\ r.notes = notes + 1 /\ r.e = Cb!Earlier(m_e, now)
        /\ r.delta = [m_delta EXCEPT ![1 - parity] = Append(@, notes + 1)]
    BY DEF Cb!AfterDelta, Cb!OtherParity
  <2> HIDE DEF r
  <2>3. /\ r.delta \in [{0, 1} -> Seq(CbPayloads)]
        /\ r.delta[parity] = m_delta[parity]
        /\ r.delta[1 - parity] = Append(m_delta[1 - parity], notes + 1)
    BY <1>inv, <1>2, <2>1, <2>2
  <2>4. r.e = now
    BY <1>inv, <1>3, <2>2
  <2>5. Sound(r)
    BY <1>inv, <2>1, <2>2, <2>3, <2>4 DEF Sound
  <2>6. Notified(r)
    BY <2>1, <2>2, <2>3 DEF Notified, CbSoon, CbLater
  <2> QED
    BY <2>5, <2>6 DEF r
<1>5. ASSUME notes < MaxNotes, NEW t \in now + 1 .. CbTime
      PROVE  Sound(Cb!AfterTimed(t)) /\ Notified(Cb!AfterTimed(t))
  <2> DEFINE r == Cb!AfterTimed(t)
  <2>1. notes + 1 \in CbPayloads /\ notes + 1 \in 0 .. MaxNotes
    BY <1>inv, <1>5 DEF CbPayloads
  <2>e. PICK e \in CbEntries : e = [p |-> notes + 1, t |-> t]
    <3>1. t \in 0 .. CbTime
      BY <1>inv
    <3>2. [p |-> notes + 1, t |-> t] \in CbEntries
      BY <2>1, <3>1 DEF CbEntries
    <3> QED
      BY <3>2
  <2>q. PICK q \in Seq(CbEntries) : q = m_ppq
    BY <1>inv
  <2>n. PICK n \in Nat : n = now
    BY <1>inv
  <2>2. /\ r.ppq = Cb!insert(q, e) /\ r.notes = notes + 1 /\ r.e = Cb!Earlier(m_e, t)
        /\ r.delta = m_delta
    BY <2>e, <2>q DEF Cb!AfterTimed
  <2>3. e.t = t /\ e.p = notes + 1 /\ t \in 0 .. CbTime /\ t > now
    BY <1>inv, <2>1, <2>e
  <2>4. \A x \in CbEntries : x.t \in Nat
    BY DEF CbEntries
  <2>s. Sorted(q)
    BY <1>inv, <2>q
  <2> HIDE DEF r
  <2>5. /\ r.ppq \in Seq(CbEntries) /\ Sorted(r.ppq) /\ Len(r.ppq) = Len(m_ppq) + 1
        /\ \A k \in 1 .. Len(r.ppq) : r.ppq[k] = e \/ \E j \in 1 .. Len(m_ppq) : r.ppq[k] = m_ppq[j]
    <3>1. /\ Cb!insert(q, e) \in Seq(CbEntries) /\ Sorted(Cb!insert(q, e))
          /\ Len(Cb!insert(q, e)) = Len(q) + 1
          /\ \A k \in 1 .. Len(q) + 1 : Cb!insert(q, e)[k] = e
               \/ \E j \in 1 .. Len(q) : Cb!insert(q, e)[k] = q[j]
      BY <2>4, <2>s, InsertPayloads
    <3> QED
      BY <2>2, <2>q, <3>1
  <2>6. /\ PayloadsIn(r.ppq, now) = PayloadsIn(m_ppq, now)
        /\ LaterIn(r.ppq, now, CbTime) = [LaterIn(m_ppq, now, CbTime) EXCEPT ![t] = Append(@, notes + 1)]
    <3>1. e.t \in n + 1 .. CbTime
      BY <2>3, <2>n
    <3>2. /\ PayloadsIn(Cb!insert(q, e), n) = PayloadsIn(q, n)
          /\ LaterIn(Cb!insert(q, e), n, CbTime)
               = [LaterIn(q, n, CbTime) EXCEPT ![e.t] = Append(@, e.p)]
      BY <2>4, <2>s, <3>1, LaterInsert
    <3> QED
      BY <2>2, <2>3, <2>n, <2>q, <3>2, Zenon
  <2>7. ASSUME NEW k \in 1 .. Len(r.ppq)
        PROVE  r.ppq[k].t >= now /\ (fec = "idle" => r.ppq[k].t > now /\ r.ppq[k].t >= r.e)
    <3>1. CASE r.ppq[k] = e
      BY <1>inv, <1>3, <2>2, <2>3, <3>1
    <3>2. ASSUME NEW j \in 1 .. Len(m_ppq), r.ppq[k] = m_ppq[j]
          PROVE  r.ppq[k].t >= now /\ (fec = "idle" => r.ppq[k].t > now /\ r.ppq[k].t >= r.e)
      <4>1. m_ppq[j].t \in Nat
        BY <1>inv, <2>4
      <4>2. r.e <= m_e /\ r.e \in Nat
        BY <1>inv, <1>3, <2>2, <2>3
      <4>3. m_e \in Nat
        BY <1>inv
      <4>4. m_ppq[j].t >= now /\ (fec = "idle" => m_ppq[j].t > now /\ m_ppq[j].t >= m_e)
        BY <1>inv
      <4>5. m_ppq[j].t >= m_e => m_ppq[j].t >= r.e
        BY <4>1, <4>2, <4>3
      <4> QED
        BY <3>2, <4>4, <4>5
    <3> QED
      BY <2>5, <3>1, <3>2
  <2>8. r.e \in now .. CbTime + 1 /\ (m_e = now => r.e = now)
    BY <1>inv, <1>3, <2>2, <2>3
  <2>9. Sound(r)
    BY <1>inv, <2>1, <2>2, <2>5, <2>6, <2>7, <2>8 DEF Sound
  <2>10. Notified(r)
    BY <2>1, <2>2, <2>3, <2>6 DEF Notified, CbSoon, CbLater
  <2> QED
    BY <2>9, <2>10 DEF r
<1>6. \A r \in Cb!AfterNotify :
        /\ notes < MaxNotes
        /\ r = Cb!AfterDelta \/ \E t \in now + 1 .. CbTime : r = Cb!AfterTimed(t)
  BY DEF Cb!AfterNotify
<1> QED
  BY <1>1, <1>4, <1>5, <1>6

\* Every step keeps the invariant and is a step of the promise, or none: the calls
\* of the owner and of other processes.
LEMMA CbOwnerStep ==
  ASSUME CbTime \in Nat, MaxNotes \in Nat, CbInv,
         Cb!notify \/ Cb!notify_immediate \/ Cb!cancel_all
  PROVE  CbInv' /\ Cb!Queue!Next
<1>inv. /\ now \in 0 .. CbTime /\ parity \in {0, 1} /\ notes \in 0 .. MaxNotes
        /\ m_e \in now .. CbTime + 1
        /\ fec \in {"idle", "triggered", "yield", "delta", "timed"}
        /\ m_ppq \in Seq(CbEntries) /\ m_delta \in [{0, 1} -> Seq(CbPayloads)]
        /\ m_immediate_yield \in Seq(CbPayloads)
        /\ Sorted(m_ppq) /\ \A k \in 1 .. Len(m_ppq) : m_ppq[k].t >= now
        /\ fec \in {"delta", "timed", "idle"} => m_immediate_yield = <<>>
        /\ fec \in {"timed", "idle"} => m_delta[parity] = <<>>
  BY DEF CbInv
<1>1. ASSUME Cb!notify PROVE CbInv' /\ Cb!Queue!Next
  <2>1. PICK r \in Cb!AfterNotify :
          m_ppq' = r.ppq /\ m_delta' = r.delta /\ m_e' = r.e /\ notes' = r.notes
    BY <1>1 DEF Cb!notify
  <2>2. UNCHANGED <<now, parity, fec, m_immediate_yield>>
    BY <1>1 DEF Cb!notify
  <2>3. Sound(r) /\ Notified(r)
    BY <2>1, CbNotifies
  <2>4. CbInv'
    BY <1>inv, <2>1, <2>2, <2>3 DEF CbInv, Sound
  <2>5. CbDue' = CbDue
    BY <2>1, <2>2, <2>3 DEF Sound, CbDue
  <2>6. CbSoon' = r.delta[1 - parity] /\ CbLater' = LaterIn(r.ppq, now, CbTime)
    BY <2>1, <2>2 DEF CbSoon, CbLater
  <2>7. CASE /\ \E p \in CbPayloads : r.delta[1 - parity] = Append(CbSoon, p)
             /\ LaterIn(r.ppq, now, CbTime) = CbLater
    <3>1. \E p \in CbPayloads : Cb!Queue!InOneDelta(p)
      BY <2>2, <2>5, <2>6, <2>7, CbQueue
    <3> QED
      BY <2>4, <3>1, CbQueue
  <2>8. CASE /\ \E p \in CbPayloads, t \in 0 .. CbTime :
                  t > now /\ LaterIn(r.ppq, now, CbTime) = [CbLater EXCEPT ![t] = Append(@, p)]
             /\ r.delta[1 - parity] = CbSoon
    <3>1. \E p \in CbPayloads, t \in 0 .. CbTime : Cb!Queue!AtInstant(p, t)
      BY <2>2, <2>5, <2>6, <2>8, CbQueue
    <3> QED
      BY <2>4, <3>1, CbQueue
  <2> QED
    BY <2>3, <2>7, <2>8 DEF Notified
<1>2. ASSUME Cb!notify_immediate PROVE CbInv' /\ Cb!Queue!Next
  <2>1. /\ notes' = notes + 1 /\ m_immediate_yield' = Append(m_immediate_yield, notes + 1)
        /\ m_e' = CbTime + 1 /\ fec' = "triggered" /\ notes < MaxNotes
        /\ UNCHANGED <<now, parity, m_ppq, m_delta>>
    BY <1>2 DEF Cb!notify_immediate, Cb!Never
  <2>2. notes + 1 \in CbPayloads /\ notes + 1 \in 0 .. MaxNotes
    <3>1. notes \in 0 .. MaxNotes /\ notes < MaxNotes
      BY <1>inv, <2>1
    <3> QED
      BY <3>1 DEF CbPayloads
  <2>3. CbInv'
    BY <1>inv, <2>1, <2>2 DEF CbInv
  <2>4. UNCHANGED <<CbDue, CbSoon, CbLater>>
    BY <2>1 DEF CbDue, CbSoon, CbLater
  <2>5. Cb!Queue!Immediately(notes + 1)
    BY <2>1, <2>4, CbQueue
  <2> QED
    BY <2>2, <2>3, <2>5, CbQueue
<1>3. ASSUME Cb!cancel_all PROVE CbInv' /\ Cb!Queue!Next
  <2>1. /\ m_ppq' = <<>> /\ m_delta' = [b \in {0, 1} |-> <<>>] /\ m_immediate_yield' = <<>>
        /\ m_e' = CbTime + 1
        /\ UNCHANGED <<now, parity, fec, notes>>
    BY <1>3 DEF Cb!cancel_all, Cb!Never
  <2>2. 1 - parity \in {0, 1}
    BY <1>inv
  <2>3. CbInv'
    <3>1. Sorted(m_ppq') /\ m_ppq' \in Seq(CbEntries) /\ Len(m_ppq') = 0
      BY <2>1 DEF Sorted
    <3>2. m_delta' \in [{0, 1} -> Seq(CbPayloads)] /\ m_immediate_yield' \in Seq(CbPayloads)
      BY <2>1
    <3>3. m_delta'[parity'] = <<>> /\ m_delta'[1 - parity'] = <<>>
      BY <1>inv, <2>1, <2>2
    <3> QED
      BY <1>inv, <2>1, <3>1, <3>2, <3>3 DEF CbInv
  <2>4. now \in Nat /\ now' = now
    BY <1>inv, <2>1
  <2>5. CbSoon' = <<>> /\ CbDue' = <<>> /\ CbLater' = [t \in 0 .. CbTime |-> <<>>]
    <3>1. PayloadsIn(<<>>, now) = <<>> /\ LaterIn(<<>>, now, CbTime) = [t \in 0 .. CbTime |-> <<>>]
      BY <2>4, LaterNone
    <3>2. CbSoon' = <<>>
      BY <1>inv, <2>1, <2>2 DEF CbSoon
    <3>3. m_delta'[parity'] = <<>>
      BY <1>inv, <2>1
    <3>4. CbDue' = <<>> \o <<>>
      BY <2>1, <2>4, <3>1, <3>3 DEF CbDue
    <3>5. CbLater' = [t \in 0 .. CbTime |-> <<>>]
      BY <2>1, <2>4, <3>1 DEF CbLater
    <3> QED
      BY <3>2, <3>4, <3>5
  <2>6. Cb!Queue!CancelAll
    BY <2>1, <2>5, CbQueue
  <2> QED
    BY <2>3, <2>6, CbQueue
<1> QED
  BY <1>1, <1>2, <1>3

\* What a callback may do besides taking its payload.
LEMMA CbCallback ==
  ASSUME CbTime \in Nat, MaxNotes \in Nat, CbInv,
         NEW r \in {Cb!Untouched} \cup Cb!AfterNotify,
         now' = now, CbSoon' = r.delta[1 - parity], CbLater' = LaterIn(r.ppq, now, CbTime)
  PROVE  /\ Sound(r)
         /\ \/ UNCHANGED <<CbSoon, CbLater>>
            \/ \E p \in CbPayloads : CbSoon' = Append(CbSoon, p) /\ UNCHANGED CbLater
            \/ \E p \in CbPayloads, t \in 0 .. CbTime :
                 /\ t > now /\ CbLater' = [CbLater EXCEPT ![t] = Append(@, p)]
                 /\ UNCHANGED CbSoon
<1>1. CASE r = Cb!Untouched
  <2>1. r.delta = m_delta /\ r.ppq = m_ppq
    BY <1>1 DEF Cb!Untouched
  <2>2. CbSoon' = CbSoon /\ CbLater' = CbLater
    BY <2>1 DEF CbSoon, CbLater
  <2> QED
    BY <1>1, <2>2, CbNotifies
<1>2. CASE r \in Cb!AfterNotify
  BY <1>2, CbNotifies DEF Notified
<1> QED
  BY <1>1, <1>2

\* One callback of fec().
LEMMA CbCallbackStep ==
  ASSUME CbTime \in Nat, MaxNotes \in Nat, CbInv,
         Cb!YieldOne \/ Cb!DeltaOne \/ Cb!TimedOne
  PROVE  CbInv' /\ Cb!Queue!HandOver
<1>inv. /\ now \in 0 .. CbTime /\ parity \in {0, 1} /\ notes \in 0 .. MaxNotes
        /\ fec \in {"idle", "triggered", "yield", "delta", "timed"}
        /\ m_ppq \in Seq(CbEntries) /\ m_delta \in [{0, 1} -> Seq(CbPayloads)]
        /\ m_immediate_yield \in Seq(CbPayloads)
        /\ Sorted(m_ppq) /\ \A k \in 1 .. Len(m_ppq) : m_ppq[k].t >= now
        /\ fec \in {"delta", "timed", "idle"} => m_immediate_yield = <<>>
        /\ fec \in {"timed", "idle"} => m_delta[parity] = <<>>
  BY DEF CbInv
<1>0. /\ now \in Nat /\ 1 - parity \in {0, 1} /\ 1 - parity # parity
      /\ \A x \in CbEntries : x.t \in Nat /\ x.p \in CbPayloads
  BY <1>inv DEF CbEntries
<1>p. ASSUME NEW q \in Seq(CbEntries), Sorted(q) PROVE PayloadsIn(q, now) \in Seq(CbPayloads)
  BY <1>0, <1>p, PayloadsType
<1>1. ASSUME Cb!YieldOne PROVE CbInv' /\ Cb!Queue!HandOver
  <2>1. PICK r \in {Cb!Untouched} \cup Cb!AfterNotify :
          m_ppq' = r.ppq /\ m_delta' = r.delta /\ m_e' = r.e /\ notes' = r.notes
    BY <1>1 DEF Cb!YieldOne
  <2>2. /\ fec = "yield" /\ m_immediate_yield # <<>>
        /\ m_immediate_yield' = Tail(m_immediate_yield)
        /\ UNCHANGED <<now, parity, fec>>
    BY <1>1 DEF Cb!YieldOne
  <2>3. CbSoon' = r.delta[1 - parity] /\ CbLater' = LaterIn(r.ppq, now, CbTime)
    BY <2>1, <2>2 DEF CbSoon, CbLater
  <2>4. /\ Sound(r)
        /\ \/ UNCHANGED <<CbSoon, CbLater>>
           \/ \E p \in CbPayloads : CbSoon' = Append(CbSoon, p) /\ UNCHANGED CbLater
           \/ \E p \in CbPayloads, t \in 0 .. CbTime :
                /\ t > now /\ CbLater' = [CbLater EXCEPT ![t] = Append(@, p)]
                /\ UNCHANGED CbSoon
    BY <2>1, <2>2, <2>3, CbCallback
  <2>5. m_immediate_yield' \in Seq(CbPayloads)
    BY <1>inv, <2>2
  <2>6. CbInv'
    BY <1>inv, <2>1, <2>2, <2>4, <2>5 DEF CbInv, Sound
  <2>7. CbDue' = CbDue
    BY <2>1, <2>2, <2>4 DEF Sound, CbDue
  <2>8. Cb!Queue!HandOver
    BY <2>2, <2>4, <2>7, CbQueue
  <2> QED
    BY <2>6, <2>8
<1>2. ASSUME Cb!DeltaOne PROVE CbInv' /\ Cb!Queue!HandOver
  <2>1. PICK r \in {Cb!Untouched} \cup Cb!AfterNotify :
          /\ m_delta' = [r.delta EXCEPT ![parity] = Tail(@)]
          /\ m_ppq' = r.ppq /\ m_e' = r.e /\ notes' = r.notes
    BY <1>2 DEF Cb!DeltaOne
  <2>2. /\ fec = "delta" /\ m_delta[parity] # <<>>
        /\ UNCHANGED <<now, parity, fec, m_immediate_yield>>
    BY <1>2 DEF Cb!DeltaOne
  <2>t. r.delta \in [{0, 1} -> Seq(CbPayloads)] /\ r.delta[parity] = m_delta[parity]
    BY <2>1, CbNotifies DEF Sound
  <2>d. /\ m_delta' \in [{0, 1} -> Seq(CbPayloads)]
        /\ m_delta'[1 - parity] = r.delta[1 - parity]
        /\ m_delta'[parity] = Tail(m_delta[parity])
    <3>1. m_delta[parity] \in Seq(CbPayloads)
      BY <1>inv
    <3>2. Tail(m_delta[parity]) \in Seq(CbPayloads)
      BY <2>2, <3>1
    <3> QED
      BY <1>inv, <1>0, <2>1, <2>t, <3>2
  <2>3. CbSoon' = r.delta[1 - parity] /\ CbLater' = LaterIn(r.ppq, now, CbTime)
    BY <2>1, <2>2, <2>d DEF CbSoon, CbLater
  <2>4. /\ Sound(r)
        /\ \/ UNCHANGED <<CbSoon, CbLater>>
           \/ \E p \in CbPayloads : CbSoon' = Append(CbSoon, p) /\ UNCHANGED CbLater
           \/ \E p \in CbPayloads, t \in 0 .. CbTime :
                /\ t > now /\ CbLater' = [CbLater EXCEPT ![t] = Append(@, p)]
                /\ UNCHANGED CbSoon
    BY <2>1, <2>2, <2>3, CbCallback
  <2>5. CbInv'
    BY <1>inv, <2>1, <2>2, <2>d, <2>4 DEF CbInv, Sound
  <2>6. CbDue # <<>> /\ CbDue' = Tail(CbDue)
    <3>1. PICK d \in Seq(CbPayloads) : d = m_delta[parity]
      BY <1>inv
    <3>2. PICK g \in Seq(CbPayloads) : g = PayloadsIn(m_ppq, now)
      BY <1>inv, <1>p
    <3>3. d # <<>> => d \o g # <<>> /\ Tail(d) \o g = Tail(d \o g)
      <4> SUFFICES ASSUME d # <<>> PROVE d \o g # <<>> /\ Tail(d) \o g = Tail(d \o g)
        OBVIOUS
      <4>1. /\ Tail(d) \in Seq(CbPayloads) /\ Len(Tail(d)) = Len(d) - 1 /\ Len(d) \in Nat \ {0}
            /\ \A k \in 1 .. Len(d) - 1 : Tail(d)[k] = d[k + 1]
        OBVIOUS
      <4>2. /\ d \o g \in Seq(CbPayloads) /\ Len(d \o g) = Len(d) + Len(g)
            /\ \A k \in 1 .. Len(d) + Len(g) :
                 (d \o g)[k] = IF k <= Len(d) THEN d[k] ELSE g[k - Len(d)]
        BY ConcatProperties
      <4>3. /\ Tail(d) \o g \in Seq(CbPayloads) /\ Len(Tail(d) \o g) = Len(d) - 1 + Len(g)
            /\ \A k \in 1 .. Len(d) - 1 + Len(g) :
                 (Tail(d) \o g)[k] = IF k <= Len(d) - 1 THEN Tail(d)[k] ELSE g[k - (Len(d) - 1)]
        BY <4>1, ConcatProperties
      <4>4. PICK c \in Seq(CbPayloads) : c = d \o g
        BY <4>2
      <4>5. c # <<>> /\ Len(c) = Len(d) + Len(g) /\ Len(g) \in Nat
        BY <4>1, <4>2, <4>4
      <4>6. /\ Tail(c) \in Seq(CbPayloads) /\ Len(Tail(c)) = Len(d) - 1 + Len(g)
            /\ \A k \in 1 .. Len(d) - 1 + Len(g) : Tail(c)[k] = c[k + 1]
        BY <4>1, <4>5
      <4>7. ASSUME NEW k \in 1 .. Len(d) - 1 + Len(g) PROVE Tail(c)[k] = (Tail(d) \o g)[k]
        <5>1. /\ k + 1 \in 1 .. Len(d) + Len(g) /\ k + 1 - Len(d) = k - (Len(d) - 1)
              /\ k \in Nat /\ (k + 1 <= Len(d) <=> k <= Len(d) - 1)
          BY <4>1, <4>5
        <5> QED
          BY <4>1, <4>2, <4>3, <4>4, <4>6, <5>1
      <4>8. Tail(c) = Tail(d) \o g
        BY <4>3, <4>6, <4>7, SeqEqual
      <4> QED
        BY <4>4, <4>5, <4>8
    <3>4. CbDue = d \o g
      BY <3>1, <3>2 DEF CbDue
    <3>5. CbDue' = Tail(d) \o g
      BY <2>1, <2>2, <2>d, <2>4, <3>1, <3>2 DEF CbDue, Sound
    <3> QED
      BY <2>2, <3>1, <3>3, <3>4, <3>5
  <2>7. Cb!Queue!HandOver
    BY <1>inv, <2>2, <2>4, <2>6, CbQueue
  <2> QED
    BY <2>5, <2>7
<1>3. ASSUME Cb!TimedOne PROVE CbInv' /\ Cb!Queue!HandOver
  <2>1. PICK r \in {Cb!Untouched} \cup Cb!AfterNotify :
          m_ppq' = Tail(r.ppq) /\ m_delta' = r.delta /\ m_e' = r.e /\ notes' = r.notes
    BY <1>3 DEF Cb!TimedOne
  <2>2. /\ fec = "timed" /\ m_ppq # <<>> /\ Head(m_ppq).t = now
        /\ UNCHANGED <<now, parity, fec, m_immediate_yield>>
    BY <1>3 DEF Cb!TimedOne, Cb!TopIsNow
  <2>3. Sound(r)
    BY <2>1, CbNotifies
  <2>q. PICK q \in Seq(CbEntries) : q = r.ppq
    BY <2>3 DEF Sound
  <2>n. PICK n \in Nat : n = now
    BY <1>0
  <2>s. Sorted(q) /\ \A k \in 1 .. Len(q) : q[k].t >= n
    BY <2>3, <2>q, <2>n DEF Sound
  <2>4. PayloadsIn(q, n) = PayloadsIn(m_ppq, now) /\ PayloadsIn(q, n) # <<>>
    <3>1. PayloadsIn(m_ppq, Head(m_ppq).t) # <<>>
      BY <1>inv, <1>0, <2>2, TailPayloads
    <3> QED
      BY <2>2, <2>3, <2>q, <2>n, <3>1 DEF Sound
  <2>5. q # <<>> /\ Head(q).t = n
    <3>1. PICK k \in 1 .. Len(q) : q[k].t = n
      BY <1>0, <2>s, <2>4, NonePayloads
    <3>2. 1 \in 1 .. Len(q) /\ q # <<>> /\ Head(q) = q[1] /\ 1 <= k /\ q[1] \in CbEntries
      OBVIOUS
    <3>3. q[1].t <= n /\ q[1].t >= n
      BY <2>s, <3>1, <3>2 DEF Sorted
    <3> QED
      BY <1>0, <3>2, <3>3
  <2>6. /\ PayloadsIn(Tail(q), n) = Tail(PayloadsIn(q, n))
        /\ LaterIn(Tail(q), n, CbTime) = LaterIn(q, n, CbTime)
    BY <1>0, <2>s, <2>5, LaterPop
  <2>7. /\ Tail(q) \in Seq(CbEntries) /\ Sorted(Tail(q))
        /\ \A k \in 1 .. Len(Tail(q)) : Tail(q)[k].t >= n
    <3>1. /\ Tail(q) \in Seq(CbEntries) /\ Sorted(Tail(q))
          /\ \A k \in 1 .. Len(Tail(q)) : \E j \in 1 .. Len(q) : Tail(q)[k] = q[j]
      BY <1>0, <2>s, <2>5, TailPayloads
    <3> QED
      BY <2>s, <3>1
  <2>8. CbSoon' = r.delta[1 - parity] /\ CbLater' = LaterIn(r.ppq, now, CbTime)
    BY <2>1, <2>2, <2>6, <2>q, <2>n DEF CbSoon, CbLater
  <2>9. \/ UNCHANGED <<CbSoon, CbLater>>
        \/ \E p \in CbPayloads : CbSoon' = Append(CbSoon, p) /\ UNCHANGED CbLater
        \/ \E p \in CbPayloads, t \in 0 .. CbTime :
             /\ t > now /\ CbLater' = [CbLater EXCEPT ![t] = Append(@, p)]
             /\ UNCHANGED CbSoon
    BY <2>1, <2>2, <2>8, CbCallback
  <2>10. CbInv'
    BY <1>inv, <2>1, <2>2, <2>3, <2>7, <2>q, <2>n DEF CbInv, Sound
  <2>11. CbDue # <<>> /\ CbDue' = Tail(CbDue)
    <3>1. m_delta[parity] = <<>> /\ m_delta'[parity'] = <<>>
      BY <1>inv, <2>1, <2>2, <2>3 DEF Sound
    <3>2. PICK g \in Seq(CbPayloads) : g = PayloadsIn(m_ppq, now)
      BY <1>inv, <1>p
    <3>3. CbDue = <<>> \o g
      BY <3>1, <3>2 DEF CbDue
    <3>4. CbDue' = <<>> \o Tail(g)
      BY <2>1, <2>2, <2>4, <2>6, <2>q, <2>n, <3>1, <3>2 DEF CbDue
    <3>5. g # <<>>
      BY <2>4, <3>2
    <3>6. <<>> \o g = g /\ <<>> \o Tail(g) = Tail(g)
      <4>1. Tail(g) \in Seq(CbPayloads)
        BY <3>5
      <4> QED
        BY <4>1, ConcatEmptySeq
    <3> QED
      BY <3>3, <3>4, <3>5, <3>6
  <2>12. Cb!Queue!HandOver
    BY <1>inv, <2>2, <2>9, <2>11, CbQueue
  <2> QED
    BY <2>10, <2>12
<1> QED
  BY <1>1, <1>2, <1>3

\* fec() going on to its next list, and returning, changes nothing of the promise.
LEMMA CbQuietStep ==
  ASSUME CbTime \in Nat, MaxNotes \in Nat, CbInv,
         Cb!fecStarts \/ Cb!YieldDone \/ Cb!DeltaDone \/ Cb!TimedDone
  PROVE  CbInv' /\ UNCHANGED Cb!Queue!vars
<1>inv. /\ now \in 0 .. CbTime /\ parity \in {0, 1} /\ notes \in 0 .. MaxNotes
        /\ m_e \in now .. CbTime + 1
        /\ fec \in {"idle", "triggered", "yield", "delta", "timed"}
        /\ m_ppq \in Seq(CbEntries) /\ m_delta \in [{0, 1} -> Seq(CbPayloads)]
        /\ m_immediate_yield \in Seq(CbPayloads)
        /\ Sorted(m_ppq) /\ \A k \in 1 .. Len(m_ppq) : m_ppq[k].t >= now
        /\ fec \in {"delta", "timed", "idle"} => m_immediate_yield = <<>>
        /\ fec \in {"timed", "idle"} => m_delta[parity] = <<>>
        /\ fec \in {"timed", "idle"} => (m_delta[1 - parity] # <<>> => m_e = now)
  BY DEF CbInv
<1>1. UNCHANGED <<now, parity, m_ppq, m_delta, m_immediate_yield, notes>>
  BY DEF Cb!fecStarts, Cb!YieldDone, Cb!DeltaDone, Cb!TimedDone, Cb!lists
<1>2. UNCHANGED Cb!Queue!vars
  <2>1. UNCHANGED <<CbDue, CbSoon, CbLater>>
    BY <1>1 DEF CbDue, CbSoon, CbLater
  <2> QED
    BY <1>1, <2>1, CbQueue
<1>3. CASE Cb!fecStarts
  BY <1>inv, <1>1, <1>2, <1>3 DEF CbInv, Cb!fecStarts
<1>4. CASE Cb!YieldDone
  BY <1>inv, <1>1, <1>2, <1>4 DEF CbInv, Cb!YieldDone
<1>5. CASE Cb!DeltaDone
  <2>1. /\ fec = "delta" /\ m_delta[parity] = <<>>
        /\ m_e' = IF m_delta[1 - parity] # <<>> THEN Cb!Earlier(m_e, now) ELSE m_e
        /\ fec' = IF m_ppq = <<>> THEN "idle" ELSE "timed"
    BY <1>5 DEF Cb!DeltaDone, Cb!OtherParity
  <2>2. m_e' \in now .. CbTime + 1 /\ (m_delta[1 - parity] # <<>> => m_e' = now)
    BY <1>inv, <2>1 DEF Cb!Earlier
  <2>3. fec' = "idle" => Len(m_ppq) = 0
    BY <2>1
  <2>4. \A k \in 1 .. Len(m_ppq) : fec' # "idle"
    BY <2>3
  <2> QED
    BY <1>inv, <1>1, <1>2, <2>1, <2>2, <2>4 DEF CbInv
<1>6. CASE Cb!TimedDone
  <2>1. /\ fec = "timed" /\ fec' = "idle" /\ ~ (m_ppq # <<>> /\ Head(m_ppq).t = now)
        /\ m_e' = IF m_ppq # <<>> THEN Cb!Earlier(m_e, Head(m_ppq).t) ELSE m_e
    BY <1>6 DEF Cb!TimedDone, Cb!TopIsNow, Cb!Renotified
  <2>2. CASE m_ppq = <<>>
    <3>1. m_e' = m_e /\ Len(m_ppq) = 0
      BY <2>1, <2>2
    <3>2. \A k \in 1 .. Len(m_ppq) : FALSE
      BY <3>1
    <3> QED
      BY <1>inv, <1>1, <1>2, <2>1, <3>1, <3>2 DEF CbInv
  <2>3. CASE m_ppq # <<>>
    <3>1. PICK h \in CbEntries : h = Head(m_ppq) /\ h = m_ppq[1]
      BY <1>inv, <2>3
    <3>2. 1 \in 1 .. Len(m_ppq) /\ h.t \in 0 .. CbTime
      <4>1. h.t \in 0 .. CbTime
        BY <3>1 DEF CbEntries
      <4>2. PICK q \in Seq(CbEntries) : q = m_ppq
        BY <1>inv
      <4>3. q # <<>> => 1 \in 1 .. Len(q)
        OBVIOUS
      <4> QED
        BY <2>3, <4>1, <4>2, <4>3
    <3>3. h.t >= now /\ h.t # now
      BY <1>inv, <2>1, <2>3, <3>1, <3>2
    <3>4. m_e' = Cb!Earlier(m_e, h.t)
      BY <2>1, <2>3, <3>1
    <3>5. m_e' \in now .. CbTime + 1 /\ m_e' <= h.t /\ (m_e = now => m_e' = now)
      BY <1>inv, <3>2, <3>3, <3>4 DEF Cb!Earlier
    <3>6. ASSUME NEW k \in 1 .. Len(m_ppq) PROVE m_ppq[k].t > now /\ m_ppq[k].t >= m_e'
      <4>1. m_ppq[k] \in CbEntries /\ 1 <= k
        BY <1>inv
      <4>2. h.t <= m_ppq[k].t /\ m_ppq[k].t \in Nat
        BY <1>inv, <3>1, <3>2, <4>1 DEF Sorted, CbEntries
      <4> QED
        BY <1>inv, <3>2, <3>3, <3>5, <4>2
    <3> QED
      BY <1>inv, <1>1, <1>2, <2>1, <3>5, <3>6 DEF CbInv
  <2> QED
    BY <1>2, <2>2, <2>3
<1> QED
  BY <1>2, <1>3, <1>4, <1>5, <1>6

\* The simulation goes on: with a delta cycle, or with an instant.
LEMMA CbTimeStep ==
  ASSUME CbTime \in Nat, MaxNotes \in Nat, CbInv, Cb!NextDelta \/ Cb!SomeInstant
  PROVE  CbInv' /\ Cb!Queue!Next
<1>inv. /\ now \in 0 .. CbTime /\ parity \in {0, 1} /\ notes \in 0 .. MaxNotes
        /\ m_e \in now .. CbTime + 1
        /\ m_ppq \in Seq(CbEntries) /\ m_delta \in [{0, 1} -> Seq(CbPayloads)]
        /\ m_immediate_yield \in Seq(CbPayloads)
        /\ Sorted(m_ppq) /\ \A k \in 1 .. Len(m_ppq) : m_ppq[k].t >= now
        /\ fec = "idle" => /\ m_immediate_yield = <<>> /\ m_delta[parity] = <<>>
                           /\ m_delta[1 - parity] # <<>> => m_e = now
        /\ fec = "idle" => \A k \in 1 .. Len(m_ppq) : m_ppq[k].t > now /\ m_ppq[k].t >= m_e
  BY DEF CbInv
<1>0. /\ now \in Nat /\ 1 - parity \in {0, 1} /\ 1 - (1 - parity) = parity
      /\ \A x \in CbEntries : x.t \in Nat /\ x.p \in CbPayloads
  BY <1>inv DEF CbEntries
<1>idle. fec = "idle"
  BY DEF Cb!NextDelta, Cb!SomeInstant, Cb!NextInstant
<1>1. PayloadsIn(m_ppq, now) = <<>>
  <2>1. \A k \in 1 .. Len(m_ppq) : m_ppq[k].t # now
    BY <1>inv, <1>0, <1>idle
  <2> QED
    BY <1>inv, <1>0, <2>1, NonePayloads
<1>2. CbDue = <<>>
  <2>1. CbDue = <<>> \o <<>>
    BY <1>inv, <1>idle, <1>1 DEF CbDue
  <2> QED
    BY <2>1
<1>3. ASSUME Cb!NextDelta PROVE CbInv' /\ Cb!Queue!Next
  <2>1. /\ parity' = 1 - parity
        /\ IF m_e = now THEN fec' = "triggered" /\ m_e' = CbTime + 1 ELSE UNCHANGED <<fec, m_e>>
        /\ UNCHANGED <<now, m_ppq, m_delta, m_immediate_yield, notes>>
    BY <1>3 DEF Cb!NextDelta, Cb!OtherParity, Cb!lists, Cb!Never
  <2>2. ASSUME m_e = now PROVE CbInv'
    BY <1>inv, <1>0, <2>1, <2>2 DEF CbInv
  <2>3. ASSUME m_e # now PROVE CbInv'
    <3>1. m_delta[parity'] = <<>> /\ m_delta[1 - parity'] = <<>> /\ fec' = "idle" /\ m_e' = m_e
      BY <1>inv, <1>0, <1>idle, <2>1, <2>3
    <3> QED
      BY <1>inv, <1>0, <1>idle, <2>1, <3>1 DEF CbInv
  <2>4. CbDue' = CbSoon
    <3>1. CbDue' = m_delta[1 - parity] \o <<>>
      BY <2>1, <1>1 DEF CbDue
    <3>2. m_delta[1 - parity] \in Seq(CbPayloads)
      BY <1>inv, <1>0
    <3> QED
      BY <3>1, <3>2, ConcatEmptySeq DEF CbSoon
  <2>5. CbSoon' = <<>>
    BY <1>inv, <1>0, <1>idle, <2>1 DEF CbSoon
  <2>6. CbLater' = CbLater
    BY <2>1 DEF CbLater
  <2>7. Cb!Queue!NextDelta
    BY <1>inv, <1>idle, <1>2, <2>1, <2>4, <2>5, <2>6, CbQueue
  <2> QED
    BY <2>2, <2>3, <2>7, CbQueue
<1>4. ASSUME NEW t \in 0 .. CbTime, Cb!NextInstant(t) PROVE CbInv' /\ Cb!Queue!Next
  <2>1. /\ m_e # now /\ t > now /\ t <= m_e
        /\ now' = t /\ parity' = 1 - parity
        /\ IF m_e = t THEN fec' = "triggered" /\ m_e' = CbTime + 1 ELSE UNCHANGED <<fec, m_e>>
        /\ UNCHANGED <<m_ppq, m_delta, m_immediate_yield, notes>>
    BY <1>4 DEF Cb!NextInstant, Cb!OtherParity, Cb!lists, Cb!Never
  <2>2. m_delta[parity] = <<>> /\ m_delta[1 - parity] = <<>> /\ m_immediate_yield = <<>>
    BY <1>inv, <1>idle, <2>1
  <2>3. \A k \in 1 .. Len(m_ppq) : m_ppq[k].t \in Nat /\ m_ppq[k].t >= m_e
    BY <1>inv, <1>0, <1>idle
  <2>4. ASSUME NEW k \in 1 .. Len(m_ppq) PROVE m_ppq[k].t >= t /\ (m_e # t => m_ppq[k].t > t)
    <3>1. m_ppq[k].t \in Nat /\ m_ppq[k].t >= m_e
      BY <2>3
    <3> QED
      BY <1>inv, <2>1, <3>1
  <2>5. ASSUME m_e = t PROVE CbInv'
    BY <1>inv, <1>0, <2>1, <2>2, <2>4, <2>5 DEF CbInv
  <2>6. ASSUME m_e # t PROVE CbInv'
    <3>1. fec' = "idle" /\ m_e' = m_e /\ m_e \in t .. CbTime + 1
      BY <1>inv, <1>idle, <2>1, <2>6
    <3>2. m_delta[parity'] = <<>> /\ m_delta[1 - parity'] = <<>>
      BY <1>0, <2>1, <2>2
    <3> QED
      BY <1>inv, <1>0, <2>1, <2>2, <2>3, <2>4, <2>6, <3>1, <3>2 DEF CbInv
  <2>7. PICK n \in Nat : n = now
    BY <1>0
  <2>8. PICK q \in Seq(CbEntries) : q = m_ppq
    BY <1>inv
  <2>9. /\ \A u \in n + 1 .. t - 1 : LaterIn(q, n, CbTime)[u] = <<>>
        /\ LaterIn(q, n, CbTime)[t] = PayloadsIn(q, t)
        /\ LaterIn(q, t, CbTime) = [LaterIn(q, n, CbTime) EXCEPT ![t] = <<>>]
    <3>1. /\ Sorted(q) /\ t \in n + 1 .. CbTime
          /\ \A k \in 1 .. Len(q) : q[k].t >= t
      BY <1>inv, <2>1, <2>4, <2>7, <2>8
    <3> QED
      BY <1>0, <3>1, LaterBegins
  <2>10. CbLater = LaterIn(q, n, CbTime) /\ CbLater' = LaterIn(q, t, CbTime)
    BY <2>1, <2>7, <2>8 DEF CbLater
  <2>11. CbSoon = <<>> /\ CbSoon' = <<>>
    BY <1>0, <2>1, <2>2 DEF CbSoon
  <2>12. CbDue' = CbLater[t]
    <3>1. m_delta'[parity'] = <<>>
      BY <1>0, <2>1, <2>2
    <3>2. CbDue' = <<>> \o PayloadsIn(q, t)
      BY <2>1, <2>8, <3>1 DEF CbDue
    <3>3. PayloadsIn(q, t) \in Seq(CbPayloads)
      <4>1. Sorted(q) /\ t \in Nat
        BY <1>inv, <2>8
      <4> QED
        BY <1>0, <4>1, PayloadsType
    <3> QED
      BY <2>9, <2>10, <3>2, <3>3, ConcatEmptySeq
  <2>13. /\ \A u \in now + 1 .. t - 1 : CbLater[u] = <<>>
         /\ CbLater' = [CbLater EXCEPT ![t] = <<>>]
    BY <2>7, <2>9, <2>10, Zenon
  <2>14. Cb!Queue!NextInstant(t)
    BY <1>2, <2>1, <2>2, <2>11, <2>12, <2>13, CbQueue
  <2> QED
    BY <2>5, <2>6, <2>14, CbQueue
<1> QED
  BY <1>3, <1>4 DEF Cb!SomeInstant, Cb!Instants

\* The queue as a whole.
LEMMA CbImplements ==
  ASSUME CbTime \in Nat, MaxNotes \in Nat
  PROVE  /\ Cb!Init => CbInv /\ Cb!Queue!Init
         /\ CbInv => Cb!TypeOK
         /\ CbInv /\ Cb!Next => CbInv' /\ [Cb!Queue!Next]_(Cb!Queue!vars)
<1>1. ASSUME Cb!Init PROVE CbInv /\ Cb!Queue!Init
  <2>1. /\ now = 0 /\ parity = 0 /\ m_e = CbTime + 1 /\ fec = "idle" /\ m_ppq = <<>>
        /\ m_delta = [b \in {0, 1} |-> <<>>] /\ m_immediate_yield = <<>> /\ notes = 0
    BY <1>1 DEF Cb!Init, Cb!Never
  <2>2. /\ Sorted(<<>>) /\ <<>> \in Seq(CbEntries) /\ <<>> \in Seq(CbPayloads)
        /\ Len(<<>>) = 0
    BY DEF Sorted
  <2>3. m_delta \in [{0, 1} -> Seq(CbPayloads)] /\ m_delta[0] = <<>> /\ m_delta[1] = <<>>
    BY <2>1
  <2>4. CbInv
    BY <2>1, <2>2, <2>3 DEF CbInv
  <2>5. PayloadsIn(<<>>, 0) = <<>> /\ LaterIn(<<>>, 0, CbTime) = [t \in 0 .. CbTime |-> <<>>]
    BY LaterNone
  <2>6. CbSoon = <<>> /\ CbLater = [t \in 0 .. CbTime |-> <<>>]
    BY <2>1, <2>3, <2>5 DEF CbSoon, CbLater
  <2>7. CbDue = <<>> \o <<>>
    BY <2>1, <2>3, <2>5 DEF CbDue
  <2>8. CbDue = <<>>
    BY <2>7
  <2> QED
    BY <2>1, <2>4, <2>6, <2>8, CbQueue
<1>2. CbInv => Cb!TypeOK
  BY DEF CbInv, Cb!TypeOK, CbEntries, CbPayloads, Cb!Payload, Cb!Instants, Cb!Never
<1>3. ASSUME CbInv, Cb!Next PROVE CbInv' /\ [Cb!Queue!Next]_(Cb!Queue!vars)
  <2>1. CASE Cb!notify \/ Cb!notify_immediate \/ Cb!cancel_all
    BY <1>3, <2>1, CbOwnerStep
  <2>2. CASE Cb!YieldOne \/ Cb!DeltaOne \/ Cb!TimedOne
    BY <1>3, <2>2, CbCallbackStep, CbQueue
  <2>3. CASE Cb!fecStarts \/ Cb!YieldDone \/ Cb!DeltaDone \/ Cb!TimedDone
    BY <1>3, <2>3, CbQuietStep
  <2>4. CASE Cb!NextDelta \/ Cb!SomeInstant
    BY <1>3, <2>4, CbTimeStep
  <2> QED
    BY <1>3, <2>1, <2>2, <2>3, <2>4 DEF Cb!Next, Cb!fecStep
<1> QED
  BY <1>1, <1>2, <1>3

(***************************************************************************)
(* The payload event queue that is polled, unit "peq".                     *)
(***************************************************************************)

PqPayloads == 1 .. Pushes
PqEntries == [p : PqPayloads, t : 0 .. PeqTime]

PqInv ==
  /\ now \in 0 .. PeqTime /\ i \in 0 .. Pushes
  /\ m_peq \in Seq(PqEntries)
  /\ step \in {"push", "wait", "pop", "done"}
  \* Nothing expires while the client does not ask.
  /\ Sorted(m_peq) /\ \A k \in 1 .. Len(m_peq) : m_peq[k].t >= now
  /\ step # "pop" => \A k \in 1 .. Len(m_peq) : m_peq[k].t > now

\* The state of the event queue that the multimap stands for.
PqDue == PQ!PayloadsAt(now)
PqLater == [t \in 0 .. PeqTime |-> IF t > now THEN PQ!PayloadsAt(t) ELSE <<>>]

\* The multimap places its payloads as the other queue does.
LEMMA PqPlaces ==
  /\ \A q, e : PQ!insert(q, e) = Cb!insert(q, e)
  /\ PqDue = PayloadsIn(m_peq, now) /\ PqLater = LaterIn(m_peq, now, PeqTime)
  /\ PqDue' = PayloadsIn(m_peq', now') /\ PqLater' = LaterIn(m_peq', now', PeqTime)
<1>1. ASSUME NEW q, NEW t PROVE PQ!Place(q, t) = Cb!Place(q, t)
  BY DEF PQ!Place, Cb!Place, PQ!Min, Cb!Min
<1>2. ASSUME NEW q, NEW e PROVE PQ!insert(q, e) = Cb!insert(q, e)
  BY <1>1 DEF PQ!insert, Cb!insert, PQ!InsertAt, Cb!InsertAt
<1>3. \A t : PQ!PayloadsAt(t) = PayloadsIn(m_peq, t)
  BY <1>1 DEF PQ!PayloadsAt, PayloadsIn
<1>4. \A t : PQ!PayloadsAt(t)' = PayloadsIn(m_peq', t)
  BY <1>1 DEF PQ!PayloadsAt, PayloadsIn
<1>5. PqDue = PayloadsIn(m_peq, now) /\ PqLater = LaterIn(m_peq, now, PeqTime)
  BY <1>3 DEF PqDue, PqLater, LaterIn
<1>6. PqDue' = PayloadsIn(m_peq', now')
  BY <1>1 DEF PqDue, PQ!PayloadsAt, PayloadsIn
<1>7. PqLater' = LaterIn(m_peq', now', PeqTime)
  BY <1>4 DEF PqLater, LaterIn
<1> QED
  BY <1>2, <1>5, <1>6, <1>7

\* The promise, in these terms.
LEMMA PqQueue ==
  /\ UNCHANGED PQ!Queue!vars <=> UNCHANGED <<now, PqDue, PqLater>>
  /\ PQ!Queue!Init <=> now = 0 /\ PqDue = <<>> /\ PqLater = [t \in 0 .. PeqTime |-> <<>>]
  /\ \A p, t : PQ!Queue!AtInstant(p, t) <=>
       t > now /\ PqLater' = [PqLater EXCEPT ![t] = Append(@, p)] /\ UNCHANGED <<now, PqDue>>
  /\ PqDue # <<>> /\ PqDue' = Tail(PqDue) /\ UNCHANGED <<now, PqLater>> => PQ!Queue!HandOver
  /\ \A t : PQ!Queue!NextInstant(t) <=>
       /\ PqDue = <<>> /\ t > now /\ \A u \in now + 1 .. t - 1 : PqLater[u] = <<>>
       /\ now' = t /\ PqDue' = PqLater[t] /\ PqLater' = [PqLater EXCEPT ![t] = <<>>]
  /\ \/ \E p \in PqPayloads, t \in 0 .. PeqTime : PQ!Queue!AtInstant(p, t)
     \/ PQ!Queue!HandOver
     \/ \E t \in 0 .. PeqTime : PQ!Queue!NextInstant(t)
     => PQ!Queue!Next
BY DEF PqDue, PqLater, PqPayloads, PQ!Instants, PQ!Payload, PQ!Queue!vars, PQ!Queue!Init,
       PQ!Queue!AtInstant, PQ!Queue!HandOver, PQ!Queue!AllHandedOver, PQ!Queue!NextInstant,
       PQ!Queue!Next, PQ!Queue!Instants

\* The queue as a whole, with the client that polls it.
LEMMA PqImplements ==
  ASSUME PeqTime \in Nat, MaxDelay \in Nat, Pushes \in Nat
  PROVE  /\ PQ!Init => PqInv /\ PQ!Queue!Init
         /\ PqInv => PQ!TypeOK
         /\ PqInv /\ PQ!Next => PqInv' /\ [PQ!Queue!Next]_(PQ!Queue!vars)
<1>1. ASSUME PQ!Init PROVE PqInv /\ PQ!Queue!Init
  <2>1. now = 0 /\ i = 0 /\ m_peq = <<>> /\ step = "push"
    BY <1>1 DEF PQ!Init
  <2>2. Sorted(<<>>) /\ <<>> \in Seq(PqEntries) /\ Len(<<>>) = 0
    BY DEF Sorted
  <2>3. PqInv
    BY <2>1, <2>2 DEF PqInv
  <2>4. PayloadsIn(<<>>, 0) = <<>> /\ LaterIn(<<>>, 0, PeqTime) = [t \in 0 .. PeqTime |-> <<>>]
    BY LaterNone
  <2>5. PqDue = <<>> /\ PqLater = [t \in 0 .. PeqTime |-> <<>>]
    BY <2>1, <2>4, PqPlaces
  <2> QED
    BY <2>1, <2>3, <2>5, PqQueue
<1>2. PqInv => PQ!TypeOK
  BY DEF PqInv, PQ!TypeOK, PqEntries, PqPayloads, PQ!Payload, PQ!Instants
<1>3. ASSUME PqInv, PQ!Next PROVE PqInv' /\ [PQ!Queue!Next]_(PQ!Queue!vars)
  <2>inv. /\ now \in 0 .. PeqTime /\ i \in 0 .. Pushes /\ m_peq \in Seq(PqEntries)
          /\ step \in {"push", "wait", "pop", "done"}
          /\ Sorted(m_peq) /\ \A k \in 1 .. Len(m_peq) : m_peq[k].t >= now
          /\ step # "pop" => \A k \in 1 .. Len(m_peq) : m_peq[k].t > now
    BY <1>3 DEF PqInv
  <2>n. PICK n \in Nat : n = now
    BY <2>inv
  <2>q. PICK q \in Seq(PqEntries) : q = m_peq
    BY <2>inv
  <2>0. /\ \A x \in PqEntries : x.t \in Nat
        /\ Sorted(q) /\ \A k \in 1 .. Len(q) : q[k] \in PqEntries /\ q[k].t \in Nat /\ q[k].t >= n
    <3>1. \A x \in PqEntries : x.t \in Nat
      BY DEF PqEntries
    <3>2. \A k \in 1 .. Len(q) : q[k] \in PqEntries
      OBVIOUS
    <3>3. Sorted(q) /\ \A k \in 1 .. Len(q) : q[k].t >= n
      BY <2>inv, <2>n, <2>q
    <3> QED
      BY <3>1, <3>2, <3>3
  <2>d. PqDue = PayloadsIn(q, n) /\ PqLater = LaterIn(q, n, PeqTime)
    BY <2>n, <2>q, PqPlaces
  <2>1. CASE PQ!push_delayed_payload
    <3>1. /\ step = "push" /\ i < Pushes /\ i' = i + 1 /\ step' = "wait" /\ now' = now
      BY <2>1 DEF PQ!push_delayed_payload
    <3>2. PICK delay \in 1 .. MaxDelay :
            now + delay <= PeqTime /\ m_peq' = PQ!insert(m_peq, [p |-> i + 1, t |-> now + delay])
      BY <2>1 DEF PQ!push_delayed_payload
    <3>3. i + 1 \in PqPayloads /\ now + delay \in n + 1 .. PeqTime /\ i + 1 \in 0 .. Pushes
      BY <2>inv, <2>n, <3>1, <3>2 DEF PqPayloads
    <3>4. PICK e \in PqEntries : e = [p |-> i + 1, t |-> now + delay]
      <4>1. now + delay \in 0 .. PeqTime
        BY <2>n, <3>3
      <4>2. [p |-> i + 1, t |-> now + delay] \in PqEntries
        BY <3>3, <4>1 DEF PqEntries
      <4> QED
        BY <4>2
    <3>5. e.t \in n + 1 .. PeqTime /\ e.p = i + 1 /\ e.t > n
      BY <2>n, <3>3, <3>4
    <3>6. m_peq' = Cb!insert(q, e)
      BY <2>q, <3>2, <3>4, PqPlaces
    <3>7. /\ Cb!insert(q, e) \in Seq(PqEntries) /\ Sorted(Cb!insert(q, e))
          /\ Len(Cb!insert(q, e)) = Len(q) + 1
          /\ \A k \in 1 .. Len(q) + 1 : Cb!insert(q, e)[k] = e
               \/ \E j \in 1 .. Len(q) : Cb!insert(q, e)[k] = q[j]
      BY <2>0, InsertPayloads
    <3>8. \A k \in 1 .. Len(q) : q[k].t > n
      BY <2>inv, <2>n, <2>q, <3>1
    <3>9. \A k \in 1 .. Len(m_peq') : m_peq'[k].t > n /\ m_peq'[k].t >= n
      <4> SUFFICES ASSUME NEW k \in 1 .. Len(q) + 1
                   PROVE  Cb!insert(q, e)[k].t > n /\ Cb!insert(q, e)[k].t >= n
        BY <3>6, <3>7, Zenon
      <4>1. CASE Cb!insert(q, e)[k] = e
        BY <3>5, <4>1
      <4>2. ASSUME NEW j \in 1 .. Len(q), Cb!insert(q, e)[k] = q[j]
            PROVE  Cb!insert(q, e)[k].t > n /\ Cb!insert(q, e)[k].t >= n
        <5>1. q[j].t > n /\ q[j].t \in Nat
          BY <2>0, <3>8
        <5> QED
          BY <2>n, <4>2, <5>1
      <4> QED
        BY <3>7, <4>1, <4>2
    <3>10. PqInv'
      BY <2>inv, <2>n, <3>1, <3>3, <3>6, <3>7, <3>9 DEF PqInv
    <3>11. /\ PayloadsIn(Cb!insert(q, e), n) = PayloadsIn(q, n)
           /\ LaterIn(Cb!insert(q, e), n, PeqTime)
                = [LaterIn(q, n, PeqTime) EXCEPT ![e.t] = Append(@, e.p)]
      BY <2>0, <3>5, LaterInsert, SMTT(30)
    <3>12. PqDue' = PqDue /\ PqLater' = [PqLater EXCEPT ![e.t] = Append(@, e.p)]
      <4>1. PqDue' = PayloadsIn(Cb!insert(q, e), n) /\ PqLater' = LaterIn(Cb!insert(q, e), n, PeqTime)
        BY <2>n, <3>1, <3>6, PqPlaces
      <4> QED
        BY <2>d, <3>11, <4>1, Zenon
    <3>13. PQ!Queue!AtInstant(e.p, e.t)
      BY <2>n, <3>1, <3>5, <3>12, PqQueue
    <3>14. e.p \in PqPayloads /\ e.t \in 0 .. PeqTime
      BY DEF PqEntries
    <3> QED
      BY <3>10, <3>13, <3>14, PqQueue
  <2>2. CASE PQ!NoPush
    <3>1. UNCHANGED <<now, i, m_peq>> /\ step = "push" /\ step' \in {"done", "wait"}
      BY <2>2 DEF PQ!NoPush
    <3>2. PqInv'
      BY <2>inv, <3>1 DEF PqInv
    <3>3. PqDue' = PqDue /\ PqLater' = PqLater
      BY <3>1, PqPlaces
    <3> QED
      BY <3>1, <3>2, <3>3, PqQueue
  <2>3. CASE PQ!sc_start
    <3>1. /\ step = "wait" /\ now < PeqTime /\ now' = now + 1 /\ step' = "pop"
          /\ UNCHANGED <<i, m_peq>>
      BY <2>3 DEF PQ!sc_start
    <3>2. PICK t \in n + 1 .. PeqTime : t = n + 1
      BY <2>inv, <2>n, <3>1
    <3>3. \A k \in 1 .. Len(q) : q[k].t >= t
      <4> SUFFICES ASSUME NEW k \in 1 .. Len(q) PROVE q[k].t >= t
        OBVIOUS
      <4>1. q[k].t \in Nat /\ q[k].t > n
        BY <2>inv, <2>0, <2>n, <2>q, <3>1
      <4> QED
        BY <3>2, <4>1
    <3>4. PqInv'
      BY <2>inv, <2>n, <2>q, <3>1, <3>2, <3>3 DEF PqInv
    <3>5. /\ \A u \in n + 1 .. t - 1 : LaterIn(q, n, PeqTime)[u] = <<>>
          /\ LaterIn(q, n, PeqTime)[t] = PayloadsIn(q, t)
          /\ LaterIn(q, t, PeqTime) = [LaterIn(q, n, PeqTime) EXCEPT ![t] = <<>>]
      BY <2>0, <3>3, LaterBegins
    <3>6. now' = t /\ PqDue' = PayloadsIn(q, t) /\ PqLater' = LaterIn(q, t, PeqTime)
      BY <2>n, <2>q, <3>1, <3>2, PqPlaces
    <3>7. PqDue = <<>>
      <4>1. \A k \in 1 .. Len(q) : q[k].t # n
        BY <2>inv, <2>0, <2>n, <2>q, <3>1
      <4> QED
        BY <2>0, <2>d, <4>1, NonePayloads
    <3>8. /\ \A u \in now + 1 .. t - 1 : PqLater[u] = <<>>
          /\ PqDue' = PqLater[t] /\ PqLater' = [PqLater EXCEPT ![t] = <<>>]
      BY <2>d, <2>n, <3>5, <3>6, Zenon
    <3>9. t > now /\ t \in 0 .. PeqTime
      BY <2>n
    <3>10. PQ!Queue!NextInstant(t)
      BY <3>6, <3>7, <3>8, <3>9, PqQueue
    <3> QED
      BY <3>4, <3>9, <3>10, PqQueue
  <2>4. CASE PQ!pop_expired_payload /\ PQ!Expired
    <3>1. /\ step = "pop" /\ q # <<>> /\ Head(q).t <= n /\ m_peq' = Tail(q)
          /\ UNCHANGED <<now, i, step>>
      BY <2>4, <2>n, <2>q DEF PQ!pop_expired_payload, PQ!Expired
    <3>2. Head(q).t = n
      <4>1. 1 \in 1 .. Len(q) /\ Head(q) = q[1]
        BY <3>1
      <4> QED
        BY <2>0, <3>1, <4>1
    <3>3. /\ PayloadsIn(q, n) # <<>> /\ PayloadsIn(Tail(q), n) = Tail(PayloadsIn(q, n))
          /\ LaterIn(Tail(q), n, PeqTime) = LaterIn(q, n, PeqTime)
      BY <2>0, <3>1, <3>2, LaterPop
    <3>4. /\ Tail(q) \in Seq(PqEntries) /\ Sorted(Tail(q))
          /\ \A k \in 1 .. Len(Tail(q)) : \E j \in 1 .. Len(q) : Tail(q)[k] = q[j]
      BY <2>0, <3>1, TailPayloads
    <3>5. \A k \in 1 .. Len(Tail(q)) : Tail(q)[k].t >= n
      BY <2>0, <3>4
    <3>6. PqInv'
      BY <2>inv, <2>n, <3>1, <3>4, <3>5 DEF PqInv
    <3>7. PqDue' = PayloadsIn(Tail(q), n) /\ PqLater' = LaterIn(Tail(q), n, PeqTime)
      BY <2>n, <3>1, PqPlaces
    <3>8. PqDue # <<>> /\ PqDue' = Tail(PqDue) /\ PqLater' = PqLater
      BY <2>d, <3>3, <3>7
    <3>9. PQ!Queue!HandOver
      BY <3>1, <3>8, PqQueue
    <3> QED
      BY <3>6, <3>9, PqQueue
  <2>5. CASE PQ!pop_expired_payload /\ ~ PQ!Expired
    <3>1. step' = "push" /\ UNCHANGED <<now, i, m_peq>> /\ ~ (q # <<>> /\ Head(q).t <= n)
      BY <2>5, <2>n, <2>q DEF PQ!pop_expired_payload, PQ!Expired
    <3>2. \A k \in 1 .. Len(q) : q[k].t > n
      <4> SUFFICES ASSUME NEW k \in 1 .. Len(q) PROVE q[k].t > n
        OBVIOUS
      <4>1. q # <<>> /\ 1 \in 1 .. Len(q) /\ 1 <= k /\ Head(q) = q[1]
        OBVIOUS
      <4>2. q[1].t <= q[k].t /\ ~ (q[1].t <= n)
        BY <2>0, <3>1, <4>1 DEF Sorted
      <4> QED
        BY <2>0, <4>1, <4>2
    <3>3. PqInv'
      BY <2>inv, <2>n, <2>q, <3>1, <3>2 DEF PqInv
    <3>4. PqDue' = PqDue /\ PqLater' = PqLater
      BY <3>1, PqPlaces
    <3> QED
      BY <3>1, <3>3, <3>4, PqQueue
  <2> QED
    BY <1>3, <2>1, <2>2, <2>3, <2>4, <2>5 DEF PQ!Next
<1> QED
  BY <1>1, <1>2, <1>3

(***************************************************************************)
(* All, as units of the composition.                                       *)
(***************************************************************************)

CopyInv ==
  /\ unit = "dma_ctrl" => CtrlInv
  /\ unit = "demo_dma" => DemoInv

\* Whatever the sizes of memory, region and burst, and whatever the host of the
\* device does, the bytes copied so far are those of the source, each at its
\* place, and no other byte has changed; a transfer of the controllers fails only
\* if it must.
THEOREM DmaCopiesExactly ==
  ASSUME MEM_SIZE \in Nat, MaxLength \in Nat, MaxBurst \in Nat,
         Burst \in Nat, MaxLen \in Nat
  PROVE  Spec => []CopiesExactly
<1>1. Init => CopyInv
  BY CtrlInit, DemoInit DEF Init, CopyInv
<1>2. CopyInv /\ [Next]_vars => CopyInv'
  <2> SUFFICES ASSUME CopyInv, [Next]_vars PROVE CopyInv'
    OBVIOUS
  <2>1. CASE unit = "dma_ctrl" /\ Next
    <3>1. unit' = unit /\ Ctrl!Next
      BY <2>1 DEF Next, OnlyCtrl, InCb, InPeq, InTraffic, InDemo
    <3>2. CtrlInv'
      BY <2>1, <3>1, ReadKeepsCtrlInv, WriteKeepsCtrlInv DEF CopyInv, Ctrl!Next
    <3> QED
      BY <2>1, <3>1, <3>2 DEF CopyInv
  <2>2. CASE unit = "demo_dma" /\ Next
    <3>1. unit' = unit /\ Demo!Next
      BY <2>2 DEF Next, OnlyDemo, InCb, InPeq, InTraffic, InDemo
    <3>2. DemoInv'
      BY <2>2, <3>1, DemoKeepsInv DEF CopyInv
    <3> QED
      BY <2>2, <3>1, <3>2 DEF CopyInv
  <2>3. CASE unit \notin {"dma_ctrl", "demo_dma"} /\ Next
    <3>1. unit' = unit
      BY <2>3 DEF Next, InCb, InPeq, InTraffic, InDemo, OnlyCb, OnlyPeq, OnlyTraffic, OnlyMem, OnlyPackets
    <3> QED
      BY <2>3, <3>1 DEF CopyInv
  <2>4. CASE UNCHANGED vars
    <3>1. UNCHANGED <<i, step, src_addr, dst_addr, memory, length, burst_size, data_buffer, mem,
                      len, thread, tlen, buf, job, unit>>
      BY <2>4 DEF vars, loopVars, addrVars, ctrlVars, demoVars
    <3>2. CtrlInv => CtrlInv'
      BY <3>1 DEF CtrlInv, CtrlType, MemRight, BufferRight, PrefixFits, Progress, Copied,
                  Ctrl!ForwardSafe, Ctrl!Fits, Ctrl!current_len
    <3>3. DemoInv => DemoInv'
      BY <3>1, DemoIdle
    <3> QED
      BY <3>1, <3>2, <3>3 DEF CopyInv
  <2> QED
    BY <2>1, <2>2, <2>3, <2>4
<1>3. CopyInv => CopiesExactly
  BY CtrlInvCopies, DemoInvCopies DEF CopyInv, CopiesExactly
<1> QED
  BY <1>1, <1>2, <1>3, PTL DEF Spec

\* What memory.cpp and gen.h owe is owed by the units memory and gen.
MovesInv ==
  /\ unit = "memory" => MemInv
  /\ unit = "gen" => PacketInv

\* Whatever a transaction commands, names, enables and wraps around, and whatever
\* packets are sent: the memory moves exactly the bytes that MovesExactly says, which
\* for reads and writes within the address space are those that are enabled, by either
\* of the two ways; and the receiver ends up with the last whole packet written to
\* each byte.
THEOREM MemoriesMoveExactly ==
  ASSUME Size \in Nat, AddrSpace \in Nat, Size < AddrSpace, MaxLen \in Nat, MaxLen < AddrSpace,
         0 \in Byte, MemSize \in Nat, Lengths \in SUBSET Nat
  PROVE  Spec => []MovesExactly
<1>0. MemBounds /\ PacketBounds
  BY DEF MemBounds, PacketBounds
<1>1. Init => MovesInv
  BY <1>0, MemInit, PacketInit DEF Init, MovesInv
<1>2. MovesInv /\ [Next]_vars => MovesInv'
  <2> SUFFICES ASSUME MovesInv, [Next]_vars PROVE MovesInv'
    OBVIOUS
  <2>1. CASE unit = "memory" /\ Next
    <3>1. unit' = unit /\ Mem!Next
      BY <2>1 DEF Next, OnlyMem, InCb, InPeq, InTraffic, InDemo
    <3>2. MemInv'
      BY <1>0, <2>1, <3>1, MemKeeps DEF MovesInv
    <3> QED
      BY <2>1, <3>1, <3>2 DEF MovesInv
  <2>2. CASE unit = "gen" /\ Next
    <3>1. unit' = unit /\ Packets!Next
      BY <2>2 DEF Next, OnlyPackets, InCb, InPeq, InTraffic, InDemo
    <3>2. PacketInv'
      BY <1>0, <2>2, <3>1, PacketKeeps DEF MovesInv
    <3> QED
      BY <2>2, <3>1, <3>2 DEF MovesInv
  <2>3. CASE unit \notin {"memory", "gen"} /\ Next
    <3>1. unit' = unit
      BY <2>3 DEF Next, InCb, InPeq, InTraffic, InDemo, OnlyCb, OnlyPeq, OnlyTraffic, OnlyCtrl, OnlyDemo
    <3> QED
      BY <2>3, <3>1 DEF MovesInv
  <2>4. CASE UNCHANGED vars
    <3>1. UNCHANGED <<memVars, packetVars, memory, unit>>
      BY <2>4 DEF vars
    <3>2. UNCHANGED <<mem_map, aborted, trans, before, packet_counter, success_count, error_count,
                      received_reads, received_writes, total_received, sent, memory, unit>>
      BY <3>1 DEF memVars, packetVars
    <3>3. MemInv => MemInv'
      BY <3>2 DEF MemInv, GoodTrans, Mem!TypeOK, Mem!MovesExactly, Mem!Addresses, Mem!ByteAfter
    <3>4. Packets!StatisticsAgree' <=> Packets!StatisticsAgree
      <4>1. Packets!Whole' = Packets!Whole
        BY <3>2 DEF Packets!Whole
      <4>2. Packets!Writes' = Packets!Writes
        BY <3>2, <4>1 DEF Packets!Writes
      <4> QED
        BY <3>2, <4>1, <4>2 DEF Packets!StatisticsAgree, Packets!Addresses
    <3>5. PacketInv => PacketInv'
      BY <3>2, <3>4 DEF PacketInv, Packets!Addresses, Packets!Packets
    <3> QED
      BY <3>2, <3>3, <3>5 DEF MovesInv
  <2> QED
    BY <2>1, <2>2, <2>3, <2>4
<1>3. MovesInv => MovesExactly
  BY DEF MovesInv, MovesExactly, MemInv, PacketInv
<1> QED
  BY <1>1, <1>2, <1>3, PTL DEF Spec

QueuesInv ==
  /\ unit = "peq_with_cb_and_phase" => CbInv
  /\ unit = "peq" => PqInv

\* Whenever and however often payloads are notified, by the owner, by its callback in
\* the middle of fec() or by other processes, with one event for all of them or with
\* a client that polls: no delta cycle and no instant ends before every payload due in
\* it has been handed over, in the order of the notifications.
THEOREM QueuesKeepPromise ==
  ASSUME CbTime \in Nat, MaxNotes \in Nat,
         PeqTime \in Nat, MaxDelay \in Nat, Pushes \in Nat
  PROVE  Spec => ImplementsEventQueue
<1>1. Init => /\ QueuesInv
              /\ unit = "peq_with_cb_and_phase" => Cb!Queue!Init
              /\ unit = "peq" => PQ!Queue!Init
  BY CbImplements, PqImplements DEF Init, QueuesInv
<1>2. QueuesInv /\ [Next]_vars =>
        /\ QueuesInv'
        /\ [unit = "peq_with_cb_and_phase" => [Cb!Queue!Next]_(Cb!Queue!vars)]_vars
        /\ [unit = "peq" => [PQ!Queue!Next]_(PQ!Queue!vars)]_vars
  <2> SUFFICES ASSUME QueuesInv, [Next]_vars
               PROVE  /\ QueuesInv'
                      /\ [unit = "peq_with_cb_and_phase" => [Cb!Queue!Next]_(Cb!Queue!vars)]_vars
                      /\ [unit = "peq" => [PQ!Queue!Next]_(PQ!Queue!vars)]_vars
    OBVIOUS
  <2>1. CASE unit = "peq_with_cb_and_phase" /\ Next
    <3>1. unit' = unit /\ Cb!Next
      BY <2>1 DEF Next, OnlyCb, InCb, InPeq, InTraffic, InDemo
    <3>2. CbInv' /\ [Cb!Queue!Next]_(Cb!Queue!vars)
      BY <2>1, <3>1, CbImplements DEF QueuesInv
    <3> QED
      BY <2>1, <3>1, <3>2 DEF QueuesInv
  <2>2. CASE unit = "peq" /\ Next
    <3>1. unit' = unit /\ PQ!Next
      BY <2>2 DEF Next, OnlyPeq, InCb, InPeq, InTraffic, InDemo
    <3>2. PqInv' /\ [PQ!Queue!Next]_(PQ!Queue!vars)
      BY <2>2, <3>1, PqImplements DEF QueuesInv
    <3> QED
      BY <2>2, <3>1, <3>2 DEF QueuesInv
  <2>3. CASE unit \notin {"peq_with_cb_and_phase", "peq"} /\ Next
    <3>1. unit' = unit
      BY <2>3 DEF Next, InCb, InPeq, InTraffic, InDemo, OnlyTraffic, OnlyMem, OnlyCtrl,
                  OnlyPackets, OnlyDemo
    <3> QED
      BY <2>3, <3>1 DEF QueuesInv
  <2>4. CASE UNCHANGED vars
    <3>1. UNCHANGED <<now, i, step, parity, m_e, fec, m_ppq, m_delta, m_immediate_yield, notes,
                      m_peq, unit>>
      BY <2>4 DEF vars, loopVars, cbVars
    <3>2. (CbInv => CbInv') /\ (PqInv => PqInv')
      BY <3>1 DEF CbInv, PqInv
    <3> QED
      BY <2>4, <3>1, <3>2 DEF QueuesInv
  <2> QED
    BY <2>1, <2>2, <2>3, <2>4
<1>3. QueuesInv => /\ unit = "peq_with_cb_and_phase" => Cb!TypeOK
                   /\ unit = "peq" => PQ!TypeOK
  BY CbImplements, PqImplements DEF QueuesInv
<1> QED
  BY <1>1, <1>2, <1>3, PTL DEF Spec, ImplementsEventQueue
=============================================================================
