--------------------------------- MODULE Dpa --------------------------------
(***************************************************************************)
(* modules/dpa/dpa.cpp: the diagonal propagation arbiter.  The request     *)
(* matrix is visited one diagonal at a time, starting with diagonal m_ptr: *)
(* m_dpa_map lists on diagonal d the cells (i, j) with (i + j) % N = d.  A *)
(* cell grants its request if its row and its column are still free.       *)
(* m_ptr moves on by one with every arbitration.                           *)
(*                                                                         *)
(* m_requests, m_grants: the set of cells whose flag is 1; m_row_mask,     *)
(* m_col_mask: the rows and columns whose mask is still 1.  A request is   *)
(* never withdrawn.                                                        *)
(***************************************************************************)
EXTENDS Integers

CONSTANT N   \* m_num_ports

Ports == 0 .. N - 1
Cells == Ports \X Ports

VARIABLES m_ptr, m_row_mask, m_col_mask, m_requests, m_grants,
          row,   \* diagonals visited by the arbitration in progress
          pc

vars == <<m_ptr, m_row_mask, m_col_mask, m_requests, m_grants, row, pc>>

Init ==
  /\ m_ptr = 0
  /\ m_row_mask = Ports /\ m_col_mask = Ports
  /\ m_requests = {} /\ m_grants = {}
  /\ row = 0
  /\ pc = "idle"

\* A request of a port that does not exist is ignored.
request(i, j) ==
  /\ pc = "idle"
  /\ m_requests' = m_requests \cup ({<<i, j>>} \cap Cells)
  /\ UNCHANGED <<m_ptr, m_row_mask, m_col_mask, m_grants, row, pc>>

\* init()
arbitration ==
  /\ pc = "idle"
  /\ m_row_mask' = Ports /\ m_col_mask' = Ports
  /\ row' = 0
  /\ pc' = "visit"
  /\ UNCHANGED <<m_ptr, m_requests, m_grants>>

Diagonal(d) == {c \in Cells : (c[1] + c[2]) % N = d}

\* Mutant of Current: the pointer is not used, diagonal 0 is always first.
CurrentFromZero == Diagonal(row)

\* The diagonal the two loops visit next.
Current == Diagonal((m_ptr + row) % N)

\* Mutant of Granted: the column mask is not consulted.
GrantedByRow == {c \in Current \cap m_requests : c[1] \in m_row_mask}

\* Mutant of Granted: a cell needs the mask of its row at its column's index.
GrantedOffMask ==
  {c \in Current \cap m_requests :
     c[1] \in m_row_mask /\ c[2] \in m_col_mask /\ c[2] \in m_row_mask}

\* The cells of the diagonal that grant: no two share a row or a column, so
\* they do not disturb each other.
Granted ==
  {c \in Current \cap m_requests : c[1] \in m_row_mask /\ c[2] \in m_col_mask}

\* The grants of an earlier arbitration stand until their cell is visited.
Visit ==
  /\ pc = "visit" /\ row < N
  /\ m_grants' = (m_grants \ Current) \cup Granted
  /\ m_row_mask' = m_row_mask \ {c[1] : c \in Granted}
  /\ m_col_mask' = m_col_mask \ {c[2] : c \in Granted}
  /\ row' = row + 1
  /\ UNCHANGED <<m_ptr, m_requests, pc>>

NextPtr == (m_ptr + 1) % N

Return ==
  /\ pc = "visit" /\ row = N
  /\ m_ptr' = NextPtr
  /\ pc' = "idle"
  /\ UNCHANGED <<m_row_mask, m_col_mask, m_requests, m_grants, row>>

Arbitrate == arbitration \/ Visit \/ Return

Next == Arbitrate \/ \E i, j \in -1 .. N : request(i, j)


-----------------------------------------------------------------------------

\* The pointer names a diagonal, masks and matrices their ports and cells.
TypeOK ==
  /\ m_ptr \in Ports
  /\ m_row_mask \subseteq Ports /\ m_col_mask \subseteq Ports
  /\ m_requests \subseteq Cells /\ m_grants \subseteq Cells
  /\ row \in 0 .. N
  /\ pc \in {"idle", "visit"}

IsMatching(M) == \A a, b \in M : a # b => a[1] # b[1] /\ a[2] # b[2]

\* What has_granted() reports between two arbitrations: requests only, and no
\* row and no column twice, although m_grants is never cleared as a whole.
GrantsMatch ==
  pc = "idle" => m_grants \subseteq m_requests /\ IsMatching(m_grants)

\* An arbitration leaves no request whose row and column are both unused.
Maximal ==
  pc = "visit" /\ row = N =>
    \A c \in m_requests : \E g \in m_grants : g[1] = c[1] \/ g[2] = c[2]
=============================================================================
