---------------------------- MODULE AddressSpace ----------------------------
(***************************************************************************)
(* What the VM system promises a process (spec 4.1, 8): its user pages,   *)
(* each either unmapped or holding the last data written to it since it   *)
(* was mapped, zero-filled at mmap.  Reads return that data; munmap and    *)
(* process exit make pages unmapped.  This is the abstract specification   *)
(* VmSystem is shown to implement.                                         *)
(***************************************************************************)
EXTENDS Naturals

CONSTANTS Pages, Cells, Values, Zero, Unmapped

VARIABLES mem, lastRead

Zeros == [c \in Cells |-> Zero]

Init ==
    /\ mem = [v \in Pages |-> Unmapped]
    /\ lastRead = Zero

(* Each step is stated over the pages before (m) and after (m2) it.       *)

\* mmap of [lo, lo+np): zero-filled, replacing what was there.
Map(m, m2, lo, np) ==
    m2 = [v \in Pages |-> IF lo <= v /\ v < lo + np THEN Zeros ELSE m[v]]

\* munmap of [lo, lo+np).
Unmap(m, m2, lo, np) ==
    m2 = [v \in Pages |-> IF lo <= v /\ v < lo + np THEN Unmapped ELSE m[v]]

\* A store to cell c of a mapped page.
Write(m, m2, v, c, val) ==
    m[v] # Unmapped /\ m2 = [m EXCEPT ![v][c] = val]

\* A load from cell c of a mapped page.
Read(m, v, c) ==
    m[v] # Unmapped /\ lastRead' = m[v][c]

\* The process ends: its address space is gone.
Exit(m2) == m2 = [v \in Pages |-> Unmapped]

\* A step from pages m to pages m2.
Step(m, m2) ==
    \/ /\ \/ \E lo, np \in Pages : Map(m, m2, lo, np) \/ Unmap(m, m2, lo, np)
          \/ \E v \in Pages, c \in Cells, val \in Values : Write(m, m2, v, c, val)
          \/ Exit(m2)
       /\ UNCHANGED lastRead
    \/ /\ m2 = m
       /\ \E v \in Pages, c \in Cells : Read(m, v, c)

Next == Step(mem, mem')

Spec == Init /\ [][Next]_<<mem, lastRead>>

=============================================================================
