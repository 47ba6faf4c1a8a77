------------------------------- MODULE DemoDma -------------------------------
(***************************************************************************)
(* modules/dmac/demo-dma.cpp: a DMA device.  A thread copies bursts while  *)
(* the RUN bit is set, and pauses a microsecond between them; the host     *)
(* writes the registers through b_transport() whenever it runs, also while *)
(* the thread waits or is inside a bus transaction.                        *)
(*                                                                         *)
(* The bus may block, so the thread gives way in every transaction; what   *)
(* it does between two waits is one step.  The microseconds of the timers  *)
(* are not related: either may pass first.  Addresses are offsets, copied  *)
(* bytes are named by their source address.  Byte enables and error_resp,  *)
(* which nothing in the device reads, are left out.                        *)
(*                                                                         *)
(* The host, which is not part of the repository, programs a transfer when *)
(* the last one is done, starts it, may pause and resume it by the RUN     *)
(* bit, and acknowledges DONE or starts the next transfer over it.         *)
(***************************************************************************)
EXTENDS Naturals, FiniteSets

CONSTANTS Burst,     \* sizeof buf
          MaxLen     \* bound on the length of a transfer

Destinations == 0 .. MaxLen
Sources      == 0 .. MaxLen
Unwritten    == MaxLen + 1

VARIABLES dst_addr, src_addr, len, ctrl,   \* the registers; ctrl: a set of flags
          irq,
          thread,       \* do_dma_copy(): unborn, waiting for ev_dma_copy,
                        \* reading, writing, pausing
          tlen, buf,    \* its locals; buf: where its bytes come from
          ev_pending,   \* ev_dma_copy is notified for later
          host,         \* idle, or reading: inside its write to register 3
          memory,       \* destination address -> source address of its byte
          job           \* history: the transfer programmed last

regs == <<dst_addr, src_addr, len, ctrl>>
local == <<tlen, buf>>
vars == <<regs, irq, thread, local, ev_pending, host, memory, job>>

Init ==
  /\ dst_addr = 0 /\ src_addr = 0 /\ len = 0 /\ ctrl = {}
  /\ irq = FALSE
  /\ thread = "unborn" /\ tlen = 0 /\ buf = 0
  /\ ev_pending = FALSE /\ host = "idle"
  /\ memory = [a \in Destinations |-> Unwritten]
  /\ job = [dst |-> 0, src |-> 0, len |-> 0]

-----------------------------------------------------------------------------
(* The host: writes to registers 0 to 2, then to register 3.               *)

Finished == "RUN" \notin ctrl /\ len = 0

\* Writes to registers 0, 1 and 2 have no side effect.  (The memory is reset:
\* what counts is what this transfer writes.)
Program(dst, src, n) ==
  /\ host = "idle" /\ Finished
  /\ dst_addr' = dst /\ src_addr' = src /\ len' = n
  /\ job' = [dst |-> dst, src |-> src, len |-> n]
  /\ memory' = [a \in Destinations |-> Unwritten]
  /\ UNCHANGED <<ctrl, irq, thread, local, ev_pending, host>>

\* A write to register 3 replaces both flags.  The speculative read that follows
\* changes no register but error_resp; it may block before the thread is notified.
WriteCtrl(flags) ==
  /\ host = "idle"
  /\ ctrl' = flags
  /\ host' = "reading"
  /\ UNCHANGED <<dst_addr, src_addr, len, irq, thread, local, ev_pending, memory, job>>

\* ev_dma_copy.notify(): an earlier notification that is pending stays.
Wake ==
  /\ host = "reading"
  /\ ev_pending' = TRUE
  /\ host' = "idle"
  /\ UNCHANGED <<regs, irq, thread, local, memory, job>>

-----------------------------------------------------------------------------
(* The device.                                                             *)

\* The end of an iteration with left bytes to go, the interrupt being level:
\* RUN gives way to DONE and the thread waits, or it pauses.
Conclude(left, level) ==
  IF left = 0 /\ "RUN" \in ctrl
  THEN ctrl' = (ctrl \ {"RUN"}) \cup {"DONE"} /\ irq' = TRUE /\ thread' = "waiting"
  ELSE thread' = "pausing" /\ irq' = level /\ UNCHANGED ctrl

BurstLength == IF len > Burst THEN Burst ELSE len

\* An iteration from its start to the read of do_dma_trans(), or to its end when
\* there is nothing to copy.
Iterate(level) ==
  /\ IF len > 0 /\ "RUN" \in ctrl
     THEN /\ tlen' = BurstLength
          /\ buf' = src_addr
          /\ thread' = "reading" /\ irq' = level
          /\ UNCHANGED ctrl
     ELSE Conclude(len, level) /\ UNCHANGED local
  /\ UNCHANGED <<dst_addr, src_addr, len>>

Wait(level) == thread' = "waiting" /\ irq' = level /\ UNCHANGED <<regs, local>>

\* The event fires: it starts the thread or wakes it, and is lost otherwise.
ev_dma_copy ==
  /\ ev_pending
  /\ ev_pending' = FALSE
  /\ \/ thread = "unborn" /\ "RUN" \notin ctrl /\ Wait(irq)
     \/ thread = "unborn" /\ "RUN" \in ctrl /\ Iterate(irq)
     \/ thread = "waiting" /\ Iterate(irq)
     \/ thread \notin {"unborn", "waiting"} /\ UNCHANGED <<regs, irq, thread, local>>
  /\ UNCHANGED <<host, memory, job>>

\* The read is over and the write follows.
Write ==
  /\ thread = "reading"
  /\ memory' = [a \in Destinations |->
       IF a \in dst_addr .. dst_addr + tlen - 1 THEN buf + (a - dst_addr) ELSE memory[a]]
  /\ thread' = "writing"
  /\ UNCHANGED <<regs, irq, local, ev_pending, host, job>>

EndBurst ==
  /\ thread = "writing"
  /\ dst_addr' = dst_addr + tlen /\ src_addr' = src_addr + tlen
  /\ len' = len - tlen
  /\ Conclude(len - tlen, irq)
  /\ UNCHANGED <<local, ev_pending, host, memory, job>>

\* Mutant of update_irqs: the interrupt is raised but never withdrawn.
RaiseIrq == irq \/ "DONE" \in ctrl

update_irqs == "DONE" \in ctrl

\* Mutant of EndPause: the thread waits although RUN is set.
EndPauseWaits ==
  /\ thread = "pausing"
  /\ Wait(update_irqs)
  /\ UNCHANGED <<ev_pending, host, memory, job>>

EndPause ==
  /\ thread = "pausing"
  /\ IF "RUN" \in ctrl THEN Iterate(update_irqs) ELSE Wait(update_irqs)
  /\ UNCHANGED <<ev_pending, host, memory, job>>

do_dma_copy == Write \/ EndBurst \/ EndPause

Host ==
  \/ \E dst, src \in 0 .. 1, n \in 0 .. MaxLen :
       dst + n <= MaxLen /\ src + n <= MaxLen /\ Program(dst, src, n)
  \/ \E flags \in {{}, {"RUN"}} : WriteCtrl(flags)
  \/ Wake

Next == Host \/ ev_dma_copy \/ do_dma_copy

\* Timers run out and bus transactions end.
Spec ==
  /\ Init /\ [][Next]_vars
  /\ WF_vars(Wake) /\ WF_vars(ev_dma_copy) /\ WF_vars(do_dma_copy)

-----------------------------------------------------------------------------

\* The bytes that have been copied so far are those of the transfer that was
\* programmed, each at its place, and none is missing: also when the host pauses
\* and resumes in the middle of a burst.  Nothing is left when DONE is set.
CopyFaithful ==
  /\ len <= job.len
  /\ \A a \in Destinations :
       /\ memory[a] # Unwritten =>
            a \in job.dst .. job.dst + job.len - 1 /\ memory[a] = job.src + (a - job.dst)
       /\ a \in job.dst .. job.dst + (job.len - len) - 1 => memory[a] # Unwritten

\* A transfer that runs ends or is paused: no start is lost, whatever the thread
\* does when the host writes the register.
RunEnds == "RUN" \in ctrl ~> "RUN" \notin ctrl

\* The interrupt is withdrawn once DONE is cleared (though only after a pause of
\* the thread, and not if the next transfer is done by then).
IrqWithdrawn == (irq /\ "DONE" \notin ctrl) ~> (~ irq \/ "DONE" \in ctrl)
=============================================================================
