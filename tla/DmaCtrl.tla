-------------------------------- MODULE DmaCtrl ------------------------------
(***************************************************************************)
(* modules/dmac/dma_ctrl_at.h and dma_ctrl_lt.h: a DMA controller copies a *)
(* region of a memory in bursts, each of them read and then written; the   *)
(* controller of dma_ctrl_lt.h reads and writes the whole region in one    *)
(* burst.  A burst beyond the end of the memory fails, which ends the      *)
(* transfer.  The registers that the transfer would be set up in are       *)
(* constants of the code; here they have any values.  A byte is named by   *)
(* the address it is at when the transfer begins.                          *)
(***************************************************************************)
EXTENDS Naturals

CONSTANTS MEM_SIZE,     \* 1024
          MaxLength,    \* bound on the length of a transfer (16)
          MaxBurst      \* bound on burst_size (4; the length in dma_ctrl_lt.h)

VARIABLES src_addr, dst_addr, length, burst_size,
          i,             \* bytes copied so far
          data_buffer, mem,
          step           \* the next thing the thread does

registers == <<src_addr, dst_addr, length, burst_size>>
vars == <<registers, i, data_buffer, mem, step>>

Addresses == 0 .. MEM_SIZE - 1
Unread    == MEM_SIZE   \* data_buffer where nothing was read

Init ==
  /\ src_addr \in 0 .. MEM_SIZE /\ dst_addr \in 0 .. MEM_SIZE
  /\ length \in 1 .. MaxLength /\ burst_size \in 1 .. MaxBurst
  /\ i = 0 /\ step = "read"
  /\ data_buffer = [k \in 0 .. MaxLength - 1 |-> Unread]
  /\ mem = [a \in Addresses |-> a]

\* Mutant of current_len: the last burst is as long as the others.
full_len == burst_size

current_len == IF burst_size < length - i THEN burst_size ELSE length - i

InMemory(addr) == addr < MEM_SIZE /\ addr + current_len <= MEM_SIZE

BurstBytes == 0 .. current_len - 1

ReadBurst ==
  /\ step = "read" /\ i < length
  /\ IF InMemory(src_addr + i)
     THEN /\ data_buffer' = [k \in DOMAIN data_buffer |->
               IF k \in {i + j : j \in BurstBytes} THEN mem[src_addr + k] ELSE data_buffer[k]]
          /\ step' = "write"
     ELSE step' = "failed" /\ UNCHANGED data_buffer
  /\ UNCHANGED <<registers, i, mem>>

WriteBurst ==
  /\ step = "write"
  /\ IF InMemory(dst_addr + i)
     THEN /\ mem' = [a \in Addresses |->
               IF a \in {dst_addr + i + j : j \in BurstBytes} THEN data_buffer[a - dst_addr] ELSE mem[a]]
          /\ i' = i + burst_size
          /\ step' = "read"
     ELSE step' = "failed" /\ UNCHANGED <<i, mem>>
  /\ UNCHANGED <<registers, data_buffer>>

Completed == step = "read" /\ i >= length

Next == ReadBurst \/ WriteBurst

Spec == Init /\ [][Next]_vars

-----------------------------------------------------------------------------

\* Bursts that were written are not read again: the target does not begin
\* inside the source, or everything is read before anything is written.
ForwardSafe ==
  dst_addr <= src_addr \/ dst_addr >= src_addr + length \/ length <= burst_size

Fits == src_addr + length <= MEM_SIZE /\ dst_addr + length <= MEM_SIZE

\* At every moment the bytes that were copied are those of the source when the
\* transfer began, and no other byte has changed, even if source and target
\* overlap (as long as no burst reads what another one wrote), the last burst
\* is shorter, or the transfer fails half-way; it fails if it must.
CopiesExactly ==
  /\ ForwardSafe =>
       \A a \in Addresses :
         mem[a] = IF dst_addr <= a /\ a < dst_addr + i /\ a < dst_addr + length
                  THEN src_addr + (a - dst_addr) ELSE a
  /\ Completed => Fits
  /\ step = "failed" => ~ Fits /\ i < length
=============================================================================
