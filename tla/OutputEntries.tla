--------------------------- MODULE OutputEntries ---------------------------
(***************************************************************************)
(* The parameters of AtomicOutput, and what the output name may hold in a  *)
(* directory: nothing, or an entry with so many files that a call or an    *)
(* outsider put there.                                                     *)
(***************************************************************************)
EXTENDS Naturals

CONSTANTS
  Calls,
  Outsider,    \* whoever else makes an entry of that name
  NumFiles,    \* files that a worker writes
  MaxMishaps   \* bound: moves, removals, interrupts and deaths

ASSUME CallsAssumption == Outsider \notin Calls /\ "none" \notin Calls
ASSUME BoundsAssumption == NumFiles \in Nat /\ MaxMishaps \in Nat

\* The parent is moved at most once per mishap.
Directories == 1..(MaxMishaps + 1)

Absent == [by |-> "none", files |-> 0]
Entry(who, n) == [by |-> who, files |-> n]
Entries == {Absent, Entry(Outsider, 0)} \cup {Entry(c, n) : c \in Calls, n \in 0..NumFiles}

=============================================================================
