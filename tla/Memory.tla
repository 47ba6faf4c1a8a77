-------------------------------- MODULE Memory -------------------------------
(***************************************************************************)
(* modules/memory/memory.cpp: b_transport() of the memory that the traffic *)
(* generator of modules/top writes and reads.  A transaction may enable    *)
(* some bytes only, by a pattern that is repeated, and may wrap around     *)
(* after streaming_width bytes; then it goes byte by byte, else in one     *)
(* piece.  A byte that was never written reads as 0.  An access beyond the *)
(* end is a fatal report, which ends the program.                          *)
(*                                                                         *)
(* An initiator may also send TLM_IGNORE_COMMAND (DataTransfer::IGNORE,    *)
(* and the default of traffic-desc.h).  Addresses have 64 bits, and so     *)
(* have sums of them; the bytes are kept in a map from addresses, so that  *)
(* one may be stored beyond the end if nobody stops it.                    *)
(***************************************************************************)
EXTENDS Naturals, Sequences, FiniteSetsExt

CONSTANTS Size,       \* RAM_SIZE
          AddrSpace,  \* 2^64
          MaxLen,     \* bound on the length of a transaction
          Byte        \* values of a byte, of which 0 is one

VARIABLES mem_map, aborted,
          trans,     \* the transaction that the initiator has sent
          before     \* history: when it has been carried out, the memory before

vars == <<mem_map, aborted, before, trans>>

Addresses == 0 .. AddrSpace - 1
DataLengths == 1 .. MaxLen
Commands  == {"read", "write", "ignore"}
None      == [command |-> "none"]
NotYet    == <<>>

Init ==
  /\ mem_map = [a \in Addresses |-> 0]
  /\ aborted = FALSE
  /\ trans = None /\ before = NotYet

\* Byte enable patterns: none, or any of one or two bytes.
Patterns == UNION {[1 .. n -> BOOLEAN] : n \in 0 .. 2}

-----------------------------------------------------------------------------

\* Mutant of Enabled: the pattern is repeated as the data is.
EnabledByWidth(t, pos) == t.be = <<>> \/ t.be[((pos % t.width) % Len(t.be)) + 1]

Enabled(t, pos) == t.be = <<>> \/ t.be[(pos % Len(t.be)) + 1]

\* A sum of addresses is taken modulo 2^64.
Sum64(a, b) == (a + b) % AddrSpace

Slow(t) == t.be # <<>> \/ t.width # t.len

\* What the loop of the slow path has done so far: the memory, the data that was
\* read, and whether an access went beyond the end.
Begun(t) == [mem |-> mem_map, ptr |-> t.ptr, error |-> FALSE]

\* Its body at position pos; nothing follows an error.  Every command but a read
\* is taken for a write.
MoveByte(t, done, pos) ==
  LET at == Sum64(t.addr, pos % t.width)
  IN IF done.error \/ ~ Enabled(t, pos) THEN done
     ELSE IF at >= Size THEN [done EXCEPT !.error = TRUE]
     ELSE IF t.command = "read" THEN [done EXCEPT !.ptr[pos + 1] = mem_map[at]]
     ELSE [done EXCEPT !.mem[at] = t.ptr[pos + 1]]

ByteByByte(t) ==
  LET loop[n \in 0 .. t.len] == IF n = 0 THEN Begun(t) ELSE MoveByte(t, loop[n - 1], n - 1)
  IN loop[t.len]

\* How many bytes address a lies behind the first one.
Behind(t, a) == Sum64(a, AddrSpace - t.addr)

\* The fast path, on which a command that is neither read nor write does nothing.
InOnePiece(t) ==
  IF Sum64(t.addr, t.len) > Size THEN [Begun(t) EXCEPT !.error = TRUE]
  ELSE IF t.command = "read"
  THEN [Begun(t) EXCEPT !.ptr = [k \in 1 .. t.len |-> mem_map[Sum64(t.addr, k - 1)]]]
  ELSE IF t.command = "write"
  THEN [Begun(t) EXCEPT !.mem = [a \in Addresses |-> IF Behind(t, a) < t.len
                                                     THEN t.ptr[Behind(t, a) + 1] ELSE mem_map[a]]]
  ELSE Begun(t)

\* The initiator sends a transaction; a streaming width of 0 stands for the length.
Send ==
  /\ trans = None /\ ~ aborted
  /\ \E command \in Commands, addr \in Addresses, len \in DataLengths,
        width \in 0 .. MaxLen, be \in Patterns :
     \E ptr \in IF command = "read" THEN {[k \in 1 .. len |-> 0]} ELSE [1 .. len -> Byte] :
       trans' = [command |-> command, addr |-> addr, len |-> len, be |-> be, ptr |-> ptr,
                 width |-> IF width = 0 THEN len ELSE width]
  /\ UNCHANGED <<mem_map, aborted, before>>

b_transport ==
  /\ trans # None /\ before = NotYet
  /\ \E result \in {IF Slow(trans) THEN ByteByByte(trans) ELSE InOnePiece(trans)} :
       /\ mem_map' = result.mem /\ aborted' = result.error
       /\ trans' = [trans EXCEPT !.ptr = result.ptr]
  /\ before' = mem_map

Return ==
  /\ before # NotYet /\ ~ aborted
  /\ trans' = None /\ before' = NotYet
  /\ UNCHANGED <<mem_map, aborted>>

Next == Send \/ b_transport \/ Return

Spec == Init /\ [][Next]_vars

-----------------------------------------------------------------------------

TypeOK ==
  /\ mem_map \in [Addresses -> Byte]
  /\ before \in [Addresses -> Byte] \cup {NotYet}
  /\ aborted \in BOOLEAN

\* Position pos moves a byte: some repetition of the pattern enables it.
Moves(t, pos) ==
  /\ pos < t.len
  /\ t.be # <<>> => \E k \in DOMAIN t.be : t.be[k] /\ \E m \in 0 .. pos : pos = k - 1 + m * Len(t.be)

\* How far from the first byte position pos lies, and the address there.
Offset(t, pos) == CHOOSE o \in 0 .. t.width - 1 : \E m \in 0 .. pos : pos = o + m * t.width
Place(t, pos) == IF t.addr + Offset(t, pos) < AddrSpace THEN t.addr + Offset(t, pos)
                 ELSE t.addr + Offset(t, pos) - AddrSpace

Moved(t) == {pos \in 0 .. MaxLen - 1 : Moves(t, pos)}

Hits(t, a) == {pos \in Moved(t) : Place(t, pos) = a}

\* The transaction stores its data.
Stores(t) == t.command = "write" \/ (t.command = "ignore" /\ Slow(t))

\* The byte that address a holds afterwards.
ByteAfter(t, a) ==
  LET hits == Hits(t, a)
  IN  IF Stores(t) /\ hits # {} THEN t.ptr[Max(hits) + 1] ELSE before[a]

\* A piece that runs over the top of the address space and ends in the memory.
OverTheTop(t) == ~ Slow(t) /\ t.addr + t.len >= AddrSpace /\ t.addr + t.len - AddrSpace <= Size

\* A transaction moves the enabled bytes and no other one: where the stream wraps
\* onto a byte again the last position wins, and a read sees what the memory held
\* and changes nothing.  A command that is neither read nor write stores its data
\* if it goes byte by byte, and does nothing in one piece.  The program ends exactly
\* if an enabled byte lies beyond the end, whatever the command, except that a piece
\* over the top of the address space is not noticed when it ends in the memory:
\* then it reads or stores bytes beyond the end.
MovesExactly ==
  before # NotYet =>
    /\ aborted <=> ~ OverTheTop(trans) /\ \E pos \in Moved(trans) : Place(trans, pos) >= Size
    /\ ~ aborted => \A a \in Addresses : mem_map[a] = ByteAfter(trans, a)
    /\ trans.command = "read" =>
         /\ mem_map = before
         /\ ~ aborted => \A pos \in 0 .. trans.len - 1 :
              trans.ptr[pos + 1] = IF pos \in Moved(trans) THEN before[Place(trans, pos)] ELSE 0
=============================================================================
