------------------------ MODULE ResearchLedger_proof ------------------------
(***************************************************************************)
(* Proof that a seal of the research decision ledger covers one lasting    *)
(* state of both streams, for any number of processes, calls and mishaps.  *)
(* The invariant says which locks a call has, in which order it took them, *)
(* and that whoever has written to a stream still has the stream's lock.   *)
(***************************************************************************)
EXTENDS ResearchLedger, FiniteSetTheorems, TLAPS

Orders == {<<"decisions", "outcomes">>, <<"outcomes", "decisions">>}

Contents == [log : Seq(DecisionEvents \cup OutcomeEvents), torn : BOOLEAN]
Active == [pc : {"locking", "written", "short"}, call : Calls, held : Seq(Streams)]

\* The lock of stream s is that of process p.
Has(p, s) == proc[p] # Idle /\ s \in {proc[p].held[i] : i \in DOMAIN proc[p].held}

\* A call takes its locks in the one order, and writes with all of them.
TakesInOrder(p) ==
  LET locks == Locks(proc[p].call) IN
  /\ proc[p].held \in {<<>>, <<locks[1]>>, locks}
  /\ proc[p].pc # "locking" => proc[p].held = locks

LocksOK ==
  /\ order \in Orders /\ lock \in [Streams -> Procs \cup {NoProc}]
  /\ DOMAIN proc = Procs
  /\ \A p \in Procs : proc[p] = Idle \/ (proc[p] \in Active /\ TakesInOrder(p))
  /\ \A s \in Streams, p \in Procs : lock[s] = p <=> Has(p, s)

StreamsOK ==
  /\ stream \in [Streams -> Contents]
  /\ decisions \in Seq(DecisionEvents) /\ outcomes \in Seq(OutcomeEvents)

SealOK ==
  seal = Missing \/ seal \in [pc : {"sealed"}, decisions : Seq(DecisionEvents),
                              outcomes : Seq(OutcomeEvents)]

\* What a call wrote and may take back is the end of its stream.
WritersWrote ==
  \A p \in Procs : proc[p].pc \in {"written", "short"} =>
    /\ proc[p].call.op \in {"record", "outcome"}
    /\ proc[p].pc = "written" => stream[Target(proc[p].call)].log # <<>>

Bounded == calls \in 0..MaxCalls /\ mishaps \in 0..MaxMishaps

IInv == LocksOK /\ StreamsOK /\ SealOK /\ WritersWrote /\ Bounded

-----------------------------------------------------------------------------
(* Locks. *)

\* A call's locks: one or two different streams.
LEMMA LocksOfCall ==
  ASSUME order \in Orders, NEW call \in Calls
  PROVE  /\ Locks(call) \in Seq(Streams)
         /\ \/ Len(Locks(call)) = 1
            \/ Len(Locks(call)) = 2 /\ Locks(call)[1] # Locks(call)[2]
         /\ call.op = "record" => Locks(call) = <<"decisions">>
         /\ call.op # "record" => Locks(call) = order
<1>1. Locks(call) \in {<<"decisions">>} \cup Orders
  BY DEF Locks
<1>2. <<"decisions">> \in Seq(Streams) /\ Len(<<"decisions">>) = 1
  BY DEF Streams
<1>3. /\ <<"decisions", "outcomes">> \in Seq(Streams)
      /\ <<"outcomes", "decisions">> \in Seq(Streams)
  BY DEF Streams
<1>4. \A locks \in Orders : Len(locks) = 2 /\ locks[1] # locks[2]
  BY DEF Orders
<1>5. call.op = "record" => Locks(call) = <<"decisions">>
  BY DEF Locks
<1>6. call.op # "record" => Locks(call) = order
  BY DEF Locks
<1>7. Locks(call) \in Seq(Streams)
  BY <1>1, <1>2, <1>3 DEF Orders
<1>8. \/ Len(Locks(call)) = 1
      \/ Len(Locks(call)) = 2 /\ Locks(call)[1] # Locks(call)[2]
  BY <1>1, <1>2, <1>4
<1> QED
  BY <1>5, <1>6, <1>7, <1>8

LEMMA OneMore ==
  ASSUME NEW S, NEW s \in Seq(S), NEW e \in S
  PROVE  /\ Append(s, e) \in Seq(S) /\ Len(s) \in Nat
         /\ Len(Append(s, e)) = Len(s) + 1 /\ Append(s, e)[Len(s) + 1] = e
         /\ \A i \in 1..Len(s) : Append(s, e)[i] = s[i]
OBVIOUS

LEMMA TwoLocks ==
  ASSUME NEW a \in Streams, NEW b \in Streams
  PROVE  Append(<<a>>, b) = <<a, b>>
<1>1. ASSUME NEW s \in Seq(Streams), Len(s) = 1, s[1] = a PROVE Append(s, b) = <<a, b>>
  <2>1. /\ Append(s, b) \in Seq(Streams) /\ Len(Append(s, b)) = Len(s) + 1
        /\ Append(s, b)[Len(s) + 1] = b
        /\ \A i \in 1..Len(s) : Append(s, b)[i] = s[i]
    BY OneMore
  <2> DEFINE t == Append(s, b)
  <2>2. t \in Seq(Streams) /\ Len(t) = 2 /\ t[1] = a /\ t[2] = b
    BY <1>1, <2>1
  <2> HIDE DEF t
  <2>3. t = <<a, b>>
    BY <2>2
  <2> QED
    BY <2>3 DEF t
<1>2. <<a>> \in Seq(Streams) /\ Len(<<a>>) = 1 /\ <<a>>[1] = a
  OBVIOUS
<1> QED
  BY <1>1, <1>2

\* The streams among one more lock.
LEMMA OneLockMore ==
  ASSUME NEW held \in Seq(Streams), NEW s \in Streams, NEW t
  PROVE  t \in {Append(held, s)[i] : i \in DOMAIN Append(held, s)}
           <=> t = s \/ t \in {held[i] : i \in DOMAIN held}
<1> DEFINE more == Append(held, s)
<1>1. /\ Len(held) \in Nat /\ DOMAIN held = 1..Len(held)
      /\ DOMAIN more = 1..(Len(held) + 1)
      /\ more[Len(held) + 1] = s /\ \A i \in 1..Len(held) : more[i] = held[i]
  OBVIOUS
<1> HIDE DEF more
<1>2. ASSUME t \in {more[i] : i \in DOMAIN more} PROVE t = s \/ t \in {held[i] : i \in DOMAIN held}
  BY <1>1, <1>2
<1>3. ASSUME t = s \/ t \in {held[i] : i \in DOMAIN held} PROVE t \in {more[i] : i \in DOMAIN more}
  <2>1. CASE t = s
    BY <1>1, <2>1
  <2>2. CASE t \in {held[i] : i \in DOMAIN held}
    <3>1. PICK i \in 1..Len(held) : t = held[i]
      BY <1>1, <2>2
    <3> QED
      BY <1>1, <3>1
  <2> QED
    BY <1>3, <2>1, <2>2
<1> QED
  BY <1>2, <1>3 DEF more

LEMMA ActiveOrIdle ==
  ASSUME LocksOK, NEW p \in Procs
  PROVE  /\ proc[p] # Idle => proc[p] \in Active /\ TakesInOrder(p)
         /\ proc[p].pc \in {"locking", "written", "short"} => proc[p] # Idle
BY DEF LocksOK, Idle

LEMMA ReturnLocks ==
  ASSUME LocksOK, NEW p \in Procs, Return(p), UNCHANGED order
  PROVE  LocksOK'
<1>1. /\ proc' = [proc EXCEPT ![p] = Idle] /\ DOMAIN proc' = Procs
      /\ lock' = [s \in Streams |-> IF lock[s] = p THEN NoProc ELSE lock[s]]
  BY DEF Return, LocksOK
<1>2. lock' \in [Streams -> Procs \cup {NoProc}]
  BY <1>1 DEF LocksOK
<1>3. \A q \in Procs : proc'[q] = IF q = p THEN Idle ELSE proc[q]
  BY <1>1 DEF LocksOK
<1>4. ASSUME NEW q \in Procs
      PROVE  proc'[q] = Idle \/ (proc'[q] \in Active /\ TakesInOrder(q)')
  BY <1>3 DEF LocksOK, TakesInOrder, Locks
<1>5. ASSUME NEW s \in Streams, NEW q \in Procs
      PROVE  lock'[s] = q <=> Has(q, s)'
  <2>1. lock'[s] = IF lock[s] = p THEN NoProc ELSE lock[s]
    BY <1>1
  <2>2. lock[s] = q <=> Has(q, s)
    BY DEF LocksOK
  <2>3. Has(q, s)' <=> q # p /\ Has(q, s)
    BY <1>3 DEF Has
  <2> QED
    BY <2>1, <2>2, <2>3, NoProcAssumption
<1> QED
  BY <1>1, <1>2, <1>4, <1>5 DEF LocksOK

LEMMA StartLocks ==
  ASSUME LocksOK, NEW p \in Procs, NEW call \in Calls, Start(p, call)
  PROVE  LocksOK'
<1> DEFINE started == [pc |-> "locking", call |-> call, held |-> <<>>]
<1>1. /\ proc' = [proc EXCEPT ![p] = started] /\ DOMAIN proc' = Procs /\ proc[p] = Idle
      /\ UNCHANGED <<order, lock>>
  BY DEF Start, LocksOK
<1>2. \A q \in Procs : proc'[q] = IF q = p THEN started ELSE proc[q]
  BY <1>1 DEF LocksOK
<1>3. started \in Active /\ started # Idle
  BY DEF Active, Idle
<1>4. ASSUME NEW q \in Procs
      PROVE  proc'[q] = Idle \/ (proc'[q] \in Active /\ TakesInOrder(q)')
  <2>1. CASE q = p
    BY <1>2, <1>3, <2>1 DEF TakesInOrder
  <2>2. CASE q # p
    BY <1>1, <1>2, <2>2 DEF LocksOK, TakesInOrder, Locks
  <2> QED
    BY <2>1, <2>2
<1>5. ASSUME NEW s \in Streams, NEW q \in Procs
      PROVE  lock'[s] = q <=> Has(q, s)'
  <2>1. Has(q, s)' <=> Has(q, s)
    BY <1>1, <1>2 DEF Has
  <2> QED
    BY <1>1, <2>1 DEF LocksOK
<1> QED
  BY <1>1, <1>4, <1>5 DEF LocksOK

\* The next lock is not one that the call has.
LEMMA TakeLockLocks ==
  ASSUME LocksOK, NEW p \in Procs, TakeLock(p)
  PROVE  LocksOK'
<1> DEFINE call == proc[p].call
           held == proc[p].held
           s == Locks(call)[Len(held) + 1]
           taken == [pc |-> "locking", call |-> call, held |-> Append(held, s)]
<1>1. /\ proc[p] \in Active /\ proc[p].pc = "locking" /\ held # Locks(call)
      /\ held \in {<<>>, <<Locks(call)[1]>>, Locks(call)}
  BY ActiveOrIdle DEF TakeLock, TakesInOrder
<1>2. call \in Calls /\ held \in Seq(Streams)
  BY <1>1 DEF Active
<1>3. /\ lock[s] = NoProc /\ lock' = [lock EXCEPT ![s] = p]
      /\ proc' = [proc EXCEPT ![p] = [proc[p] EXCEPT !.held = Append(held, s)]]
      /\ UNCHANGED order
  BY DEF TakeLock
<1>4. [proc[p] EXCEPT !.held = Append(held, s)] = taken
  <2> DEFINE more == Append(held, s)
  <2>1. proc[p] = [pc |-> "locking", call |-> call, held |-> held]
    BY <1>1 DEF Active
  <2> HIDE DEF more, call, held
  <2>2. [proc[p] EXCEPT !.held = more] = [pc |-> "locking", call |-> call, held |-> more]
    BY <2>1
  <2> QED
    BY <2>2 DEF more
<1> HIDE DEF call, held
<1>5. /\ s \in Streams /\ Append(held, s) \in {<<Locks(call)[1]>>, Locks(call)}
  <2>1. CASE held = <<>>
    <3>1. s = Locks(call)[1] /\ Append(held, s) = <<Locks(call)[1]>>
      BY <2>1
    <3> QED
      BY <1>2, <3>1, LocksOfCall DEF LocksOK
  <2>2. CASE held = <<Locks(call)[1]>>
    <3>1. Len(Locks(call)) = 2
      BY <1>1, <1>2, <2>2, LocksOfCall DEF LocksOK
    <3>2. s = Locks(call)[2]
      BY <2>2
    <3>3. Locks(call) \in Seq(Streams) /\ Locks(call)[2] \in Streams /\ Locks(call)[1] \in Streams
      BY <1>2, <3>1, LocksOfCall DEF LocksOK
    <3> HIDE DEF s
    <3>4. \A a \in Streams, b \in Streams : Append(<<a>>, b) = <<a, b>>
      BY TwoLocks
    <3>5. Append(held, s) = <<Locks(call)[1], Locks(call)[2]>>
      BY <2>2, <3>2, <3>3, <3>4
    <3>6. Locks(call) = <<Locks(call)[1], Locks(call)[2]>>
      BY <3>1, <3>3
    <3> QED
      BY <3>2, <3>3, <3>5, <3>6
  <2> QED
    BY <1>1, <2>1, <2>2
<1> HIDE DEF s
<1>6. \A q \in Procs : proc'[q] = IF q = p THEN taken ELSE proc[q]
  BY <1>3, <1>4 DEF LocksOK
<1>7. taken \in Active /\ taken # Idle
  BY <1>2, <1>5 DEF Active, Idle
<1>8. ASSUME NEW q \in Procs
      PROVE  proc'[q] = Idle \/ (proc'[q] \in Active /\ TakesInOrder(q)')
  <2>1. CASE q = p
    <3>1. proc'[p].call = call /\ proc'[p].held = Append(held, s) /\ proc'[p].pc = "locking"
      BY <1>6
    <3>2. Locks(call)' = Locks(call)
      BY <1>3 DEF Locks, call
    <3>3. Locks(proc[p].call)' = Locks(call)
      BY <1>3, <3>1 DEF Locks
    <3>4. TakesInOrder(p)'
      BY <1>5, <3>1, <3>3 DEF TakesInOrder
    <3> QED
      BY <1>6, <1>7, <2>1, <3>4
  <2>2. CASE q # p
    BY <1>3, <1>6, <2>2 DEF LocksOK, TakesInOrder, Locks
  <2> QED
    BY <2>1, <2>2
<1>9. ASSUME NEW t \in Streams, NEW q \in Procs
      PROVE  lock'[t] = q <=> Has(q, t)'
  <2>1. lock[t] = q <=> Has(q, t)
    BY DEF LocksOK
  <2>2. lock'[t] = IF t = s THEN p ELSE lock[t]
    BY <1>3 DEF LocksOK
  <2>3. CASE q = p
    <3>1. Has(p, t)' <=> t = s \/ t \in {held[i] : i \in DOMAIN held}
      <4>1. proc'[p] # Idle /\ proc'[p].held = Append(held, s)
        BY <1>6, <1>7
      <4>2. Has(p, t)' <=> t \in {Append(held, s)[i] : i \in DOMAIN Append(held, s)}
        BY <4>1 DEF Has
      <4> QED
        BY <1>2, <1>5, <4>2, OneLockMore
    <3>2. Has(p, t) <=> t \in {held[i] : i \in DOMAIN held}
      BY <1>1 DEF Has, Active, Idle, held
    <3> QED
      BY <2>1, <2>2, <2>3, <3>1, <3>2
  <2>4. CASE q # p
    <3>1. Has(q, t)' <=> Has(q, t)
      BY <1>6, <2>4 DEF Has
    <3> QED
      BY <1>3, <2>1, <2>2, <2>4, <3>1, NoProcAssumption
  <2> QED
    BY <2>3, <2>4
<1> QED
  BY <1>3, <1>5, <1>8, <1>9 DEF LocksOK

\* A write keeps the locks.
LEMMA WriteLocks ==
  ASSUME LocksOK, NEW p \in Procs, Write(p)
  PROVE  LocksOK'
<1>1. PICK whole \in BOOLEAN :
        proc' = [proc EXCEPT ![p] = [proc[p] EXCEPT !.pc = IF whole THEN "written" ELSE "short"]]
  BY DEF Write
<1> DEFINE pc == IF whole THEN "written" ELSE "short"
           wrote == [pc |-> pc, call |-> proc[p].call, held |-> proc[p].held]
<1>2. proc[p] \in Active /\ proc[p].held = Locks(proc[p].call) /\ UNCHANGED <<order, lock>>
  BY ActiveOrIdle DEF Write, Locked
<1>3. [proc[p] EXCEPT !.pc = pc] = wrote /\ pc \in {"written", "short"}
  BY <1>2 DEF Active
<1> HIDE DEF pc
<1>4. \A q \in Procs : proc'[q] = IF q = p THEN wrote ELSE proc[q]
  BY <1>1, <1>3 DEF LocksOK, pc
<1>5. wrote \in Active /\ wrote # Idle
  BY <1>2, <1>3 DEF Active, Idle
<1>6. ASSUME NEW q \in Procs
      PROVE  proc'[q] = Idle \/ (proc'[q] \in Active /\ TakesInOrder(q)')
  <2>1. CASE q = p
    BY <1>2, <1>4, <1>5, <2>1 DEF TakesInOrder, Locks
  <2>2. CASE q # p
    BY <1>2, <1>4, <2>2 DEF LocksOK, TakesInOrder, Locks
  <2> QED
    BY <2>1, <2>2
<1>7. ASSUME NEW s \in Streams, NEW q \in Procs
      PROVE  lock'[s] = q <=> Has(q, s)'
  <2>1. Has(q, s)' <=> Has(q, s)
    BY <1>2, <1>4, <1>5 DEF Has, Active, Idle
  <2> QED
    BY <1>2, <2>1 DEF LocksOK
<1> QED
  BY <1>1, <1>2, <1>6, <1>7 DEF LocksOK

-----------------------------------------------------------------------------
(* Sequences of events. *)

LEMMA PrefixPointwise ==
  ASSUME NEW S, NEW s \in Seq(S), NEW t \in Seq(S)
  PROVE  IsPrefix(s, t) <=> Len(s) <= Len(t) /\ \A i \in 1..Len(s) : t[i] = s[i]
<1>1. ASSUME Len(s) <= Len(t)
      PROVE  /\ SubSeq(s, 1, Len(s)) = s
             /\ SubSeq(t, 1, Len(s)) \in Seq(S) /\ Len(SubSeq(t, 1, Len(s))) = Len(s)
             /\ \A i \in 1..Len(s) : SubSeq(t, 1, Len(s))[i] = t[i]
  BY <1>1
<1> DEFINE start == SubSeq(t, 1, Len(s))
<1>2. ASSUME Len(s) <= Len(t) PROVE start = s <=> \A i \in 1..Len(s) : t[i] = s[i]
  <2>1. start \in Seq(S) /\ Len(start) = Len(s) /\ \A i \in 1..Len(s) : start[i] = t[i]
    BY <1>1, <1>2
  <2> HIDE DEF start
  <2>2. start = s => \A i \in 1..Len(s) : t[i] = s[i]
    BY <2>1
  <2>3. (\A i \in 1..Len(s) : t[i] = s[i]) => start = s
    BY <2>1
  <2> QED
    BY <2>2, <2>3
<1> QED
  BY <1>1, <1>2 DEF IsPrefix

LEMMA PrefixOfPrefix ==
  ASSUME NEW S, NEW s \in Seq(S), NEW t \in Seq(S), NEW u \in Seq(S),
         IsPrefix(s, t), IsPrefix(t, u)
  PROVE  IsPrefix(s, u)
<1>1. Len(s) <= Len(t) /\ \A i \in 1..Len(s) : t[i] = s[i]
  BY PrefixPointwise
<1>2. Len(t) <= Len(u) /\ \A i \in 1..Len(t) : u[i] = t[i]
  BY PrefixPointwise
<1>3. Len(s) \in Nat /\ Len(t) \in Nat /\ Len(u) \in Nat
  OBVIOUS
<1>4. Len(s) <= Len(u) /\ \A i \in 1..Len(s) : u[i] = s[i]
  BY <1>1, <1>2, <1>3
<1> QED
  BY <1>4, PrefixPointwise

\* What is behind the last event of a sequence, and before it.
LEMMA FrontOfMore ==
  ASSUME NEW S, NEW s \in Seq(S), NEW e \in S
  PROVE  Front(Append(s, e)) = s /\ Append(s, e) # <<>>
<1>1. /\ Append(s, e) \in Seq(S) /\ Len(s) \in Nat
      /\ Len(Append(s, e)) = Len(s) + 1
      /\ \A i \in 1..Len(s) : Append(s, e)[i] = s[i]
  BY OneMore
<1> DEFINE t == Append(s, e)
           f == SubSeq(t, 1, Len(s))
<1>2. f \in Seq(S) /\ Len(f) = Len(s) /\ \A i \in 1..Len(s) : f[i] = s[i]
  <2> HIDE DEF t
  <2> QED
    BY <1>1 DEF t
<1> HIDE DEF f
<1>3. f = s
  BY <1>2
<1>4. Front(t) = f
  BY <1>1 DEF Front, f
<1>5. t # <<>>
  <2> HIDE DEF t
  <2> QED
    BY <1>1 DEF t
<1> HIDE DEF t
<1>6. Front(t) = s /\ t # <<>>
  BY <1>3, <1>4, <1>5
<1> QED
  BY <1>6 DEF t

LEMMA FrontIsPrefix ==
  ASSUME NEW S, NEW s \in Seq(S), s # <<>>
  PROVE  Front(s) \in Seq(S) /\ IsPrefix(Front(s), s)
<1> DEFINE m == Len(s) - 1
           f == SubSeq(s, 1, m)
<1>1. Len(s) \in Nat /\ m \in Nat /\ m <= Len(s)
  OBVIOUS
<1> HIDE DEF m
<1>2. f \in Seq(S) /\ Len(f) = m /\ \A i \in 1..m : f[i] = s[i]
  BY <1>1
<1> HIDE DEF f
<1>3. IsPrefix(f, s)
  BY <1>1, <1>2, PrefixPointwise
<1> QED
  BY <1>2, <1>3 DEF Front, f, m

-----------------------------------------------------------------------------
(* Who may write. *)

\* A call that has all its locks has that of the stream it writes to, and a call
\* other than record_report has both.
LEMMA LockOfTarget ==
  ASSUME LocksOK, NEW p \in Procs, proc[p] # Idle, proc[p].held = Locks(proc[p].call)
  PROVE  /\ Target(proc[p].call) \in Streams
         /\ proc[p].call.op \in {"record", "outcome"} => lock[Target(proc[p].call)] = p
         /\ proc[p].call.op # "record" => \A s \in Streams : lock[s] = p
<1> DEFINE call == proc[p].call
           held == proc[p].held
<1>1. call \in Calls /\ held \in Seq(Streams)
  BY ActiveOrIdle DEF Active
<1>2. \A s \in Streams : s \in {held[i] : i \in DOMAIN held} => lock[s] = p
  BY DEF LocksOK, Has
<1>3. CASE call.op = "record"
  <2>1. held = <<"decisions">>
    BY <1>1, <1>3, LocksOfCall DEF LocksOK
  <2>2. "decisions" \in {held[i] : i \in DOMAIN held}
    BY <2>1
  <2> QED
    BY <1>2, <1>3, <2>2 DEF Target, Streams
<1>4. CASE call.op # "record"
  <2>1. held \in Orders
    BY <1>1, <1>4, LocksOfCall DEF LocksOK
  <2>2. /\ DOMAIN held = 1..2 /\ held[1] \in Streams /\ held[2] \in Streams
        /\ held[1] # held[2]
    BY <2>1 DEF Orders, Streams
  <2> HIDE DEF held
  <2>3. \A s \in Streams : s = held[1] \/ s = held[2]
    BY <2>2 DEF Streams
  <2>4. \A s \in Streams : s \in {held[i] : i \in DOMAIN held}
    BY <2>2, <2>3
  <2> QED
    BY <1>2, <1>4, <2>4 DEF Target, Streams
<1> QED
  BY <1>3, <1>4

\* Nobody else has written to a stream whose lock is taken.
WroteTo(q, s) == proc[q].pc = "written" /\ Target(proc[q].call) = s

LEMMA OneWriter ==
  ASSUME IInv, NEW p \in Procs, NEW s \in Streams, lock[s] = p, NEW q \in Procs, WroteTo(q, s)
  PROVE  q = p
<1>1. LocksOK /\ proc[q] # Idle /\ TakesInOrder(q)
  BY ActiveOrIdle DEF IInv, WroteTo
<1>2. proc[q].held = Locks(proc[q].call) /\ proc[q].call.op \in {"record", "outcome"}
  BY <1>1 DEF WroteTo, TakesInOrder, IInv, WritersWrote
<1>3. lock[s] = q
  BY <1>1, <1>2, LockOfTarget DEF WroteTo
<1> QED
  BY <1>3

-----------------------------------------------------------------------------
(* What is committed. *)

\* What is committed stays for good.
Lasts == \A s \in Streams : IsPrefix(Committed(s), Committed(s)')

InSeq(s) == IF s = "decisions" THEN Seq(DecisionEvents) ELSE Seq(OutcomeEvents)

LEMMA LogOfStream ==
  ASSUME StreamsOK, NEW s \in Streams
  PROVE  /\ stream[s].log \in InSeq(s) /\ stream[s].log \in Seq(DecisionEvents \cup OutcomeEvents)
         /\ stream[s].torn \in BOOLEAN
         /\ stream[s] = [log |-> stream[s].log, torn |-> stream[s].torn]
<1>1. stream[s] \in Contents
  BY DEF StreamsOK
<1>2. stream[s].log \in InSeq(s)
  BY DEF StreamsOK, InSeq, Streams, decisions, outcomes
<1> QED
  BY <1>1, <1>2 DEF Contents

LEMMA CommittedTypes ==
  ASSUME IInv, NEW s \in Streams
  PROVE  Committed(s) \in InSeq(s) /\ IsPrefix(Committed(s), stream[s].log)
<1>1. PICK S : InSeq(s) = Seq(S)
  BY DEF InSeq
<1>2. stream[s].log \in Seq(S)
  BY <1>1, LogOfStream DEF IInv
<1>3. CASE \E p \in Procs : WroteTo(p, s)
  <2>1. stream[s].log # <<>>
    BY <1>3 DEF WroteTo, IInv, WritersWrote
  <2>2. Committed(s) = Front(stream[s].log)
    BY <1>3 DEF Committed, WroteTo
  <2> QED
    BY <1>1, <1>2, <2>1, <2>2, FrontIsPrefix
<1>4. CASE ~ \E p \in Procs : WroteTo(p, s)
  <2>1. Committed(s) = stream[s].log
    BY <1>4 DEF Committed, WroteTo
  <2> QED
    BY <1>1, <1>2, <2>1, PrefixPointwise
<1> QED
  BY <1>3, <1>4

\* Steps of a call that has not written a whole line, and does not.
LEMMA NothingCommitted ==
  ASSUME NEW p \in Procs, proc[p].pc # "written", proc'[p].pc # "written",
         \A q \in Procs : q # p => proc'[q] = proc[q],
         \A s \in Streams : stream'[s].log = stream[s].log
  PROVE  \A s \in Streams : Committed(s)' = Committed(s)
<1> SUFFICES ASSUME NEW s \in Streams PROVE Committed(s)' = Committed(s)
  OBVIOUS
<1>1. \A q \in Procs : WroteTo(q, s)' <=> WroteTo(q, s)
  BY DEF WroteTo, Target
<1>2. Committed(s) = IF \E q \in Procs : WroteTo(q, s) THEN Front(stream[s].log) ELSE stream[s].log
  BY DEF Committed, WroteTo
<1>3. Committed(s)' = IF \E q \in Procs : WroteTo(q, s)' THEN Front(stream[s].log) ELSE stream[s].log
  BY DEF Committed, WroteTo, Target
<1> QED
  BY <1>1, <1>2, <1>3

LEMMA SameLasts ==
  ASSUME IInv, \A s \in Streams : Committed(s)' = Committed(s)
  PROVE  Lasts
<1> SUFFICES ASSUME NEW s \in Streams PROVE IsPrefix(Committed(s), Committed(s))
  BY DEF Lasts
<1>1. PICK S : Committed(s) \in Seq(S)
  BY CommittedTypes DEF InSeq
<1> QED
  BY <1>1, PrefixPointwise

\* The call is over: what it wrote is committed, unless it was cut back.
LEMMA ReturnLasts ==
  ASSUME IInv, NEW p \in Procs, proc[p].pc = "written", Return(p),
         LET s == Target(proc[p].call) IN
         /\ stream'[s].log \in {stream[s].log, Front(stream[s].log)}
         /\ \A t \in Streams : t # s => stream'[t].log = stream[t].log
  PROVE  Lasts
<1>0. PICK s : s = Target(proc[p].call)
  OBVIOUS
<1>1. LocksOK /\ proc[p] # Idle /\ proc[p].held = Locks(proc[p].call)
  BY ActiveOrIdle DEF IInv, TakesInOrder
<1>2. proc[p].call.op \in {"record", "outcome"} /\ stream[s].log # <<>>
  BY <1>0 DEF IInv, WritersWrote
<1>3. s \in Streams /\ lock[s] = p
  BY <1>0, <1>1, <1>2, LockOfTarget
<1>4. \A q \in Procs : proc'[q] = IF q = p THEN Idle ELSE proc[q]
  BY <1>1 DEF Return, LocksOK
<1>5. ASSUME NEW t \in Streams, t # s PROVE Committed(t)' = Committed(t)
  <2>1. \A q \in Procs : WroteTo(q, t)' <=> WroteTo(q, t)
    BY <1>0, <1>4, <1>5 DEF WroteTo, Target, Idle
  <2>2. Committed(t) = IF \E q \in Procs : WroteTo(q, t) THEN Front(stream[t].log) ELSE stream[t].log
    BY DEF Committed, WroteTo
  <2>3. stream'[t].log = stream[t].log
    BY <1>0, <1>5
  <2>4. Committed(t)' = IF \E q \in Procs : WroteTo(q, t)' THEN Front(stream[t].log) ELSE stream[t].log
    BY <2>3 DEF Committed, WroteTo, Target
  <2> QED
    BY <2>1, <2>2, <2>4
<1>6. Committed(s) = Front(stream[s].log)
  BY <1>0 DEF Committed
<1>7. Committed(s)' = stream'[s].log
  <2>1. \A q \in Procs : ~ WroteTo(q, s)
      \/ q = p
    BY <1>3, OneWriter
  <2>2. \A q \in Procs : ~ (proc'[q].pc = "written" /\ Target(proc'[q].call) = s)
    BY <1>4, <2>1 DEF WroteTo, Idle
  <2> QED
    BY <2>2 DEF Committed, Target
<1>8. IsPrefix(Committed(s), Committed(s)')
  <2>1. PICK S : stream[s].log \in Seq(S)
    BY <1>3, LogOfStream DEF IInv
  <2>2. stream'[s].log \in {stream[s].log, Front(stream[s].log)}
    BY <1>0
  <2>3. Front(stream[s].log) \in Seq(S) /\ IsPrefix(Front(stream[s].log), stream[s].log)
    BY <1>2, <2>1, FrontIsPrefix
  <2>4. IsPrefix(Front(stream[s].log), Front(stream[s].log))
    BY <2>3, PrefixPointwise
  <2> QED
    BY <1>6, <1>7, <2>2, <2>3, <2>4
<1> QED
  <2> SUFFICES ASSUME NEW t \in Streams PROVE IsPrefix(Committed(t), Committed(t)')
    BY DEF Lasts
  <2>1. CASE t = s
    BY <1>8, <2>1
  <2>2. CASE t # s
    <3>1. PICK S : Committed(t) \in Seq(S)
      BY CommittedTypes DEF InSeq
    <3>2. IsPrefix(Committed(t), Committed(t))
      BY <3>1, PrefixPointwise
    <3> QED
      BY <1>5, <2>2, <3>2
  <2> QED
    BY <2>1, <2>2

\* A line that is written is not yet committed.
LEMMA WriteLasts ==
  ASSUME IInv, NEW p \in Procs, Locked(p), proc[p].call.op \in {"record", "outcome"},
         proc'[p].pc = "written", proc'[p].call = proc[p].call,
         \A q \in Procs : q # p => proc'[q] = proc[q],
         NEW e \in DecisionEvents \cup OutcomeEvents,
         LET s == Target(proc[p].call) IN
         /\ stream'[s].log = Append(stream[s].log, e)
         /\ \A t \in Streams : t # s => stream'[t].log = stream[t].log
  PROVE  Lasts /\ stream'[Target(proc[p].call)].log # <<>>
<1>0. PICK s : s = Target(proc[p].call)
  OBVIOUS
<1>1. LocksOK /\ proc[p] # Idle /\ proc[p].held = Locks(proc[p].call)
  BY ActiveOrIdle DEF IInv, Locked
<1>2. s \in Streams /\ lock[s] = p
  BY <1>0, <1>1, LockOfTarget
<1>3. stream[s].log \in Seq(DecisionEvents \cup OutcomeEvents)
  BY <1>2, LogOfStream DEF IInv
<1>4. stream'[s].log = Append(stream[s].log, e)
  BY <1>0
<1>5. Front(stream'[s].log) = stream[s].log /\ stream'[s].log # <<>>
  BY <1>3, <1>4, FrontOfMore
<1>6. Committed(s) = stream[s].log
  <2>1. \A q \in Procs : ~ WroteTo(q, s)
    BY <1>2, OneWriter DEF WroteTo, Locked
  <2> QED
    BY <2>1 DEF Committed, WroteTo
<1>7. Committed(s)' = Front(stream'[s].log)
  BY <1>0 DEF Committed, Target
<1>8. ASSUME NEW t \in Streams, t # s PROVE Committed(t)' = Committed(t)
  <2>1. \A q \in Procs : WroteTo(q, t)' <=> WroteTo(q, t)
    BY <1>0, <1>8 DEF WroteTo, Target, Locked
  <2>2. Committed(t) = IF \E q \in Procs : WroteTo(q, t) THEN Front(stream[t].log) ELSE stream[t].log
    BY DEF Committed, WroteTo
  <2>3. stream'[t].log = stream[t].log
    BY <1>0, <1>8
  <2>4. Committed(t)' = IF \E q \in Procs : WroteTo(q, t)' THEN Front(stream[t].log) ELSE stream[t].log
    BY <2>3 DEF Committed, WroteTo, Target
  <2> QED
    BY <2>1, <2>2, <2>4
<1>9. \A t \in Streams : Committed(t)' = Committed(t)
  BY <1>5, <1>6, <1>7, <1>8
<1> QED
  BY <1>0, <1>5, <1>9, SameLasts

-----------------------------------------------------------------------------
(* The steps of a call. *)

LEMMA InitIInv == Init => IInv /\ SealIsTrue
<1> SUFFICES ASSUME Init PROVE IInv /\ SealIsTrue
  OBVIOUS
<1>1. LocksOK
  BY NoProcAssumption DEF Init, LocksOK, Orders, Nobody, Has, Idle
<1>2. StreamsOK
  <2> DEFINE empty == [log |-> <<>>, torn |-> FALSE]
  <2>1. empty \in Contents /\ empty.log = <<>>
    BY DEF Contents
  <2>2. stream = [s \in Streams |-> empty] /\ "decisions" \in Streams /\ "outcomes" \in Streams
    BY DEF Init, Streams
  <2> HIDE DEF empty
  <2>3. <<>> \in Seq(DecisionEvents) /\ <<>> \in Seq(OutcomeEvents)
    OBVIOUS
  <2> QED
    BY <2>1, <2>2, <2>3 DEF StreamsOK, decisions, outcomes
<1>3. WritersWrote /\ SealOK /\ SealIsTrue
  BY DEF Init, WritersWrote, Idle, SealOK, SealIsTrue
<1>4. Bounded
  BY BoundsAssumption DEF Init, Bounded
<1> QED
  BY <1>1, <1>2, <1>3, <1>4 DEF IInv

LEMMA StartKeeps ==
  ASSUME IInv, NEW p \in Procs, NEW call \in Calls, Start(p, call)
  PROVE  IInv' /\ Lasts /\ UNCHANGED seal
<1>1. LocksOK'
  BY StartLocks DEF IInv
<1>2. /\ UNCHANGED <<stream, seal, mishaps>> /\ proc[p].pc = "idle" /\ proc'[p].pc = "locking"
      /\ \A q \in Procs : q # p => proc'[q] = proc[q]
  BY DEF Start, Idle, IInv, LocksOK
<1>3. Lasts
  BY <1>2, NothingCommitted, SameLasts
<1>4. WritersWrote'
  BY <1>2 DEF IInv, WritersWrote, Target
<1>5. Bounded'
  BY BoundsAssumption DEF IInv, Bounded, Start
<1>6. StreamsOK' /\ SealOK'
  BY <1>2 DEF IInv, StreamsOK, SealOK, decisions, outcomes
<1> QED
  BY <1>1, <1>2, <1>3, <1>4, <1>5, <1>6 DEF IInv

LEMMA TakeLockKeeps ==
  ASSUME IInv, NEW p \in Procs, TakeLock(p)
  PROVE  IInv' /\ Lasts /\ UNCHANGED seal
<1>1. LocksOK'
  BY TakeLockLocks DEF IInv
<1>2. /\ UNCHANGED <<stream, seal, mishaps, calls>> /\ proc[p].pc = "locking"
      /\ proc'[p].pc = "locking"
      /\ \A q \in Procs : q # p => proc'[q] = proc[q]
  <2>1. proc[p] \in Active /\ proc[p].pc = "locking" /\ DOMAIN proc = Procs
    BY ActiveOrIdle DEF TakeLock, IInv, LocksOK
  <2>2. PICK h : proc' = [proc EXCEPT ![p] = [proc[p] EXCEPT !.held = h]]
    BY DEF TakeLock
  <2>3. [proc[p] EXCEPT !.held = h].pc = "locking"
    BY <2>1 DEF Active
  <2> QED
    BY <2>1, <2>2, <2>3 DEF TakeLock
<1>3. Lasts
  BY <1>2, NothingCommitted, SameLasts
<1>4. WritersWrote'
  BY <1>2 DEF IInv, WritersWrote, Target
<1>5. StreamsOK' /\ SealOK' /\ Bounded'
  BY <1>2 DEF IInv, StreamsOK, SealOK, decisions, outcomes, Bounded
<1> QED
  BY <1>1, <1>2, <1>3, <1>4, <1>5 DEF IInv

\* The ends of a call that leave the streams as they are.
LEMMA ReturnKeeps ==
  ASSUME IInv, NEW p \in Procs, Return(p), UNCHANGED <<order, stream, calls>>,
         mishaps' \in 0..MaxMishaps
  PROVE  LocksOK' /\ StreamsOK' /\ WritersWrote' /\ Bounded' /\ Lasts
<1>1. LocksOK'
  BY ReturnLocks DEF IInv
<1>2. \A q \in Procs : proc'[q] = IF q = p THEN Idle ELSE proc[q]
  BY DEF Return, IInv, LocksOK
<1>3. WritersWrote'
  BY <1>2 DEF IInv, WritersWrote, Target, Idle
<1>4. StreamsOK' /\ Bounded'
  BY DEF IInv, StreamsOK, decisions, outcomes, Bounded
<1>5. Lasts
  <2>1. CASE proc[p].pc = "written"
    BY <2>1, ReturnLasts
  <2>2. CASE proc[p].pc # "written"
    BY <1>2, <2>2, NothingCommitted, SameLasts DEF Idle
  <2> QED
    BY <2>1, <2>2
<1> QED
  BY <1>1, <1>3, <1>4, <1>5

LEMMA WriteKeeps ==
  ASSUME IInv, NEW p \in Procs, Write(p)
  PROVE  IInv' /\ Lasts /\ UNCHANGED seal
<1> DEFINE call == proc[p].call
<1>0. PICK s : s = Target(call)
  OBVIOUS
<1>1. LocksOK'
  BY WriteLocks DEF IInv
<1>2. PICK now \in Times, whole \in BOOLEAN :
        /\ whole \/ mishaps < MaxMishaps
        /\ stream' = [stream EXCEPT ![s] =
                         [log |-> IF whole THEN Append(@.log, Event(call, now)) ELSE @.log,
                          torn |-> ~whole]]
        /\ mishaps' = IF whole THEN mishaps ELSE mishaps + 1
        /\ proc' = [proc EXCEPT ![p] = [proc[p] EXCEPT !.pc = IF whole THEN "written" ELSE "short"]]
  BY <1>0 DEF Write
<1>3. PICK e : e = Event(call, now)
  OBVIOUS
<1>4. /\ Locked(p) /\ call.op \in {"record", "outcome"} /\ UNCHANGED <<order, lock, seal, calls>>
      /\ proc[p] \in Active /\ proc[p].pc = "locking" /\ DOMAIN proc = Procs
  BY ActiveOrIdle DEF Write, Locked, IInv, LocksOK
<1>5. /\ proc'[p].pc = (IF whole THEN "written" ELSE "short")
      /\ proc'[p].call = call
      /\ \A q \in Procs : q # p => proc'[q] = proc[q]
  BY <1>2, <1>4 DEF Active
<1>6. /\ s \in Streams /\ lock[s] = p
      /\ s = IF call.op = "record" THEN "decisions" ELSE "outcomes"
  <2>1. proc[p] # Idle
    BY <1>4, ActiveOrIdle DEF IInv
  <2> QED
    BY <1>0, <1>4, <2>1, LockOfTarget DEF Locked, IInv, Target
<1>7. /\ e \in DecisionEvents \cup OutcomeEvents
      /\ \A t \in InSeq(s) : Append(t, e) \in InSeq(s)
  <2>1. call \in Calls
    BY <1>4 DEF Active
  <2>2. CASE call.op = "record"
    <3>1. call.decision \in Decisions
      BY <2>1, <2>2 DEF Calls
    <3>2. e \in DecisionEvents
      BY <1>3, <2>2, <3>1 DEF Event, DecisionEvents
    <3> QED
      BY <1>6, <2>2, <3>2 DEF InSeq
  <2>3. CASE call.op = "outcome"
    <3>1. call.decision \in Decisions /\ call.outcome \in Outcomes /\ call.observed \in Times
      BY <2>1, <2>3 DEF Calls
    <3>2. e \in OutcomeEvents
      BY <1>3, <2>3, <3>1 DEF Event, NewOutcome, OutcomeEvents
    <3> QED
      BY <1>6, <2>3, <3>2 DEF InSeq
  <2> QED
    BY <1>4, <2>2, <2>3
<1>8. /\ stream'[s] = [log |-> IF whole THEN Append(stream[s].log, e) ELSE stream[s].log,
                      torn |-> ~whole]
      /\ \A t \in Streams : t # s => stream'[t] = stream[t]
      /\ DOMAIN stream' = Streams
  BY <1>2, <1>3, <1>6 DEF IInv, StreamsOK
<1>9. /\ \A t \in Streams : stream'[t].log \in InSeq(t)
      /\ \A t \in Streams : stream'[t] \in Contents
  <2>1. \A t \in Streams : stream[t].log \in InSeq(t) /\ stream[t] \in Contents
    BY LogOfStream DEF IInv, StreamsOK
  <2>2. stream[s].log \in Seq(DecisionEvents \cup OutcomeEvents) /\ stream[s].torn \in BOOLEAN
    BY <1>6, LogOfStream DEF IInv
  <2>3. Append(stream[s].log, e) \in Seq(DecisionEvents \cup OutcomeEvents)
    BY <1>7, <2>2, OneMore
  <2>4. stream'[s] \in Contents /\ stream'[s].log \in InSeq(s)
    <3>1. CASE whole
      BY <1>6, <1>7, <1>8, <2>1, <2>2, <2>3, <3>1 DEF Contents
    <3>2. CASE ~whole
      BY <1>6, <1>8, <2>1, <2>2, <3>2 DEF Contents
    <3> QED
      BY <3>1, <3>2
  <2> QED
    BY <1>8, <2>1, <2>4
<1>10. StreamsOK'
  <2>1. stream' \in [Streams -> Contents]
    <3>1. stream' = [t \in Streams |-> stream'[t]]
      BY <1>2, <1>8 DEF IInv, StreamsOK
    <3> QED
      BY <1>9, <3>1
  <2>2. decisions' \in Seq(DecisionEvents) /\ outcomes' \in Seq(OutcomeEvents)
    BY <1>9 DEF InSeq, decisions, outcomes, Streams
  <2> QED
    BY <2>1, <2>2 DEF StreamsOK
<1>11. Lasts /\ (whole => stream'[s].log # <<>>)
  <2>1. CASE whole
    <3>1. /\ proc'[p].pc = "written" /\ stream'[s].log = Append(stream[s].log, e)
          /\ \A t \in Streams : t # s => stream'[t].log = stream[t].log
      BY <1>5, <1>8, <2>1
    <3> QED
      BY <1>0, <1>4, <1>5, <1>7, <3>1, WriteLasts
  <2>2. CASE ~whole
    <3>1. \A t \in Streams : stream'[t].log = stream[t].log
      BY <1>8, <2>2
    <3>2. proc[p].pc # "written" /\ proc'[p].pc # "written"
      BY <1>4, <1>5, <2>2
    <3> QED
      BY <1>5, <2>2, <3>1, <3>2, NothingCommitted, SameLasts
  <2> QED
    BY <2>1, <2>2
<1>12. WritersWrote'
  <2> SUFFICES ASSUME NEW q \in Procs, proc'[q].pc \in {"written", "short"}
               PROVE  /\ proc'[q].call.op \in {"record", "outcome"}
                      /\ proc'[q].pc = "written" => stream'[Target(proc'[q].call)].log # <<>>
    BY DEF WritersWrote, Target
  <2>1. CASE q = p
    BY <1>0, <1>4, <1>5, <1>11, <2>1
  <2>2. CASE q # p
    <3>1. /\ proc'[q] = proc[q] /\ proc[q].call.op \in {"record", "outcome"}
          /\ proc[q].pc = "written" => stream[Target(proc[q].call)].log # <<>>
      BY <1>5, <2>2 DEF IInv, WritersWrote
    <3>2. proc[q].pc = "written" => Target(proc[q].call) # s
      BY <1>6, <2>2, OneWriter DEF WroteTo
    <3> QED
      BY <1>8, <3>1, <3>2 DEF Target, Streams
  <2> QED
    BY <2>1, <2>2
<1>13. Bounded' /\ SealOK'
  BY <1>2, <1>4, BoundsAssumption DEF IInv, Bounded, SealOK
<1> QED
  BY <1>1, <1>4, <1>10, <1>11, <1>12, <1>13 DEF IInv

\* A call ends without a write: it raises, returns a verdict, returns its event,
\* or dies with what it wrote.
LEMMA EndKeeps ==
  ASSUME IInv, NEW p \in Procs, Refuse(p) \/ Acknowledge(p) \/ Die(p)
  PROVE  IInv' /\ Lasts /\ UNCHANGED seal
<1>1. Return(p) /\ UNCHANGED <<order, stream, seal, calls>>
  BY DEF Refuse, Acknowledge, Die
<1>2. mishaps' \in 0..MaxMishaps
  BY BoundsAssumption DEF Refuse, Acknowledge, Die, IInv, Bounded
<1>3. SealOK'
  BY <1>1 DEF IInv, SealOK
<1> QED
  BY <1>1, <1>2, <1>3, ReturnKeeps DEF IInv

\* A call cuts back what it wrote, under the lock of its stream.
LEMMA RollBackKeeps ==
  ASSUME IInv, NEW p \in Procs, RollBack(p)
  PROVE  IInv' /\ Lasts /\ UNCHANGED seal
<1>0. PICK s : s = Target(proc[p].call)
  OBVIOUS
<1>1. LocksOK' /\ proc[p].pc \in {"written", "short"} /\ Return(p) /\ UNCHANGED <<order, seal, calls>>
  BY ReturnLocks DEF IInv, RollBack
<1>2. /\ proc[p] # Idle /\ proc[p].held = Locks(proc[p].call)
      /\ proc[p].call.op \in {"record", "outcome"}
  BY <1>1, ActiveOrIdle DEF IInv, TakesInOrder, WritersWrote
<1>3. s \in Streams /\ lock[s] = p
  BY <1>0, <1>2, LockOfTarget DEF IInv
<1>4. \A q \in Procs : proc'[q] = IF q = p THEN Idle ELSE proc[q]
  BY <1>1 DEF Return, IInv, LocksOK
<1>5. /\ stream'[s] = [log |-> IF proc[p].pc = "short" THEN stream[s].log ELSE Front(stream[s].log),
                      torn |-> FALSE]
      /\ \A t \in Streams : t # s => stream'[t] = stream[t]
      /\ stream' = [t \in Streams |-> stream'[t]]
  BY <1>0, <1>3 DEF RollBack, IInv, StreamsOK
<1>6. proc[p].pc = "written" => stream[s].log # <<>>
  BY <1>0 DEF IInv, WritersWrote
<1>7. StreamsOK'
  <2>1. \A t \in Streams : stream[t].log \in InSeq(t) /\ stream[t] \in Contents
    BY LogOfStream DEF IInv, StreamsOK
  <2>2. stream[s].log \in Seq(DecisionEvents \cup OutcomeEvents)
    BY <1>3, LogOfStream DEF IInv
  <2>3. PICK S : InSeq(s) = Seq(S)
    BY DEF InSeq
  <2>4. proc[p].pc = "written" => /\ Front(stream[s].log) \in Seq(DecisionEvents \cup OutcomeEvents)
                                  /\ Front(stream[s].log) \in InSeq(s)
    BY <1>3, <1>6, <2>1, <2>2, <2>3, FrontIsPrefix
  <2>5. stream'[s].log \in InSeq(s) /\ stream'[s].log \in Seq(DecisionEvents \cup OutcomeEvents)
    BY <1>1, <1>3, <1>5, <2>1, <2>2, <2>4
  <2>6. stream'[s] \in Contents
    BY <1>5, <2>5 DEF Contents
  <2>7. stream' \in [Streams -> Contents]
    BY <1>5, <2>1, <2>6
  <2>8. decisions' \in Seq(DecisionEvents) /\ outcomes' \in Seq(OutcomeEvents)
    BY <1>5, <2>1, <2>5 DEF InSeq, decisions, outcomes, Streams
  <2> QED
    BY <2>7, <2>8 DEF StreamsOK
<1>8. Lasts
  <2>1. CASE proc[p].pc = "written"
    <3>1. stream'[s].log = Front(stream[s].log)
      BY <1>5, <2>1
    <3> QED
      BY <1>0, <1>1, <1>5, <2>1, <3>1, ReturnLasts
  <2>2. CASE proc[p].pc = "short"
    <3>1. \A t \in Streams : stream'[t].log = stream[t].log
      BY <1>5, <2>2
    <3> QED
      BY <1>4, <2>2, <3>1, NothingCommitted, SameLasts DEF Idle
  <2> QED
    BY <1>1, <2>1, <2>2
<1>9. WritersWrote'
  <2> SUFFICES ASSUME NEW q \in Procs, proc'[q].pc \in {"written", "short"}
               PROVE  /\ proc'[q].call.op \in {"record", "outcome"}
                      /\ proc'[q].pc = "written" => stream'[Target(proc'[q].call)].log # <<>>
    BY DEF WritersWrote, Target
  <2>1. q # p /\ proc'[q] = proc[q]
    BY <1>4 DEF Idle
  <2>2. /\ proc[q].call.op \in {"record", "outcome"}
        /\ proc[q].pc = "written" => stream[Target(proc[q].call)].log # <<>>
    BY <2>1 DEF IInv, WritersWrote
  <2>3. proc[q].pc = "written" => Target(proc[q].call) # s
    BY <1>3, <2>1, OneWriter DEF WroteTo
  <2> QED
    BY <1>5, <2>1, <2>2, <2>3 DEF Target, Streams
<1>10. Bounded'
  BY <1>1, BoundsAssumption DEF RollBack, IInv, Bounded
<1>11. SealOK'
  BY <1>1 DEF IInv, SealOK
<1> QED
  BY <1>1, <1>7, <1>8, <1>9, <1>10, <1>11 DEF IInv

\* One decision has the identity that an outcome names.
LEMMA OneDecision ==
  ASSUME VerifiesDecisions, NEW d, \E i \in DOMAIN decisions : decisions[i].decision = d
  PROVE  Cardinality({j \in DOMAIN decisions : decisions[j].decision = d}) = 1
<1>1. PICK i \in DOMAIN decisions : decisions[i].decision = d
  OBVIOUS
<1>2. {j \in DOMAIN decisions : decisions[j].decision = d} = {i}
  BY <1>1 DEF VerifiesDecisions
<1> QED
  BY <1>2, FS_Singleton

\* seal holds both locks: nothing that it reads can be taken back.
LEMMA SealKeeps ==
  ASSUME IInv, NEW p \in Procs, Seal(p)
  PROVE  IInv' /\ Lasts /\ SealIsTrue'
<1>1. /\ Return(p) /\ UNCHANGED <<order, stream, calls, mishaps>>
      /\ seal' = [pc |-> "sealed", decisions |-> decisions, outcomes |-> outcomes]
      /\ VerifiesDecisions /\ VerifiesOutcomes
  BY DEF Seal, MaySeal
<1>2. mishaps' \in 0..MaxMishaps
  BY <1>1 DEF IInv, Bounded
<1>3. SealOK'
  BY <1>1 DEF IInv, StreamsOK, SealOK
<1>4. IInv' /\ Lasts
  BY <1>1, <1>2, <1>3, ReturnKeeps DEF IInv
<1>5. \A s \in Streams : lock[s] = p
  <2>1. proc[p] # Idle /\ proc[p].held = Locks(proc[p].call) /\ proc[p].call.op # "record"
    BY ActiveOrIdle DEF Seal, Locked, IInv
  <2> QED
    BY <2>1, LockOfTarget DEF IInv
<1>6. \A q \in Procs : proc'[q].pc # "written"
  <2>1. \A q \in Procs : proc'[q] = IF q = p THEN Idle ELSE proc[q]
    BY <1>1 DEF Return, IInv, LocksOK
  <2>2. ASSUME NEW q \in Procs, proc[q].pc = "written" PROVE q = p
    <3>1. proc[q] # Idle /\ proc[q].held = Locks(proc[q].call)
      BY <2>2, ActiveOrIdle DEF IInv, TakesInOrder
    <3>2. Target(proc[q].call) \in Streams /\ lock[Target(proc[q].call)] = q
      BY <2>2, <3>1, LockOfTarget DEF IInv, WritersWrote
    <3> QED
      BY <1>5, <3>2
  <2> QED
    BY <2>1, <2>2 DEF Idle
<1>7. Committed("decisions")' = decisions /\ Committed("outcomes")' = outcomes
  BY <1>1, <1>6 DEF Committed, decisions, outcomes
<1>8. IsPrefix(decisions, decisions) /\ IsPrefix(outcomes, outcomes)
  BY PrefixPointwise DEF IInv, StreamsOK
<1>9. \A i \in DOMAIN outcomes :
        /\ Follows(outcomes[i], decisions)
        /\ Cardinality({j \in DOMAIN decisions :
                          decisions[j].decision = outcomes[i].decision}) = 1
  <2> SUFFICES ASSUME NEW i \in DOMAIN outcomes
               PROVE  /\ Follows(outcomes[i], decisions)
                      /\ Cardinality({j \in DOMAIN decisions :
                                        decisions[j].decision = outcomes[i].decision}) = 1
    OBVIOUS
  <2>1. Follows(outcomes[i], decisions)
    BY <1>1 DEF VerifiesOutcomes
  <2>2. \E j \in DOMAIN decisions : decisions[j].decision = outcomes[i].decision
    BY <2>1 DEF Follows
  <2> QED
    BY <1>1, <2>1, <2>2, OneDecision
<1>10. seal'.decisions = decisions /\ seal'.outcomes = outcomes
  BY <1>1
<1>11. SealIsTrue'
  BY <1>7, <1>8, <1>9, <1>10 DEF SealIsTrue, Follows
<1> QED
  BY <1>4, <1>11

CommittedOK ==
  /\ Committed("decisions") \in Seq(DecisionEvents)
  /\ Committed("outcomes") \in Seq(OutcomeEvents)

LEMMA CommittedIsOK == IInv => CommittedOK
BY CommittedTypes DEF CommittedOK, InSeq, Streams

\* A seal stays true as long as what is committed lasts.
LEMMA SealLasts ==
  ASSUME IInv, CommittedOK, CommittedOK', SealIsTrue, Lasts, UNCHANGED seal
  PROVE  SealIsTrue'
<1> SUFFICES ASSUME seal # Missing PROVE SealIsTrue'
  BY DEF SealIsTrue
<1>1. /\ seal.decisions \in Seq(DecisionEvents) /\ seal.outcomes \in Seq(OutcomeEvents)
  BY DEF IInv, SealOK
<1>2. /\ Committed("decisions") \in Seq(DecisionEvents)
      /\ Committed("outcomes") \in Seq(OutcomeEvents)
      /\ Committed("decisions")' \in Seq(DecisionEvents)
      /\ Committed("outcomes")' \in Seq(OutcomeEvents)
  BY DEF CommittedOK
<1>3. /\ IsPrefix(Committed("decisions"), Committed("decisions")')
      /\ IsPrefix(Committed("outcomes"), Committed("outcomes")')
  BY DEF Lasts, Streams
<1>4. /\ IsPrefix(seal.decisions, Committed("decisions"))
      /\ IsPrefix(seal.outcomes, Committed("outcomes"))
  BY DEF SealIsTrue
<1>5. /\ IsPrefix(seal.decisions, Committed("decisions")')
      /\ IsPrefix(seal.outcomes, Committed("outcomes")')
  BY <1>1, <1>2, <1>3, <1>4, PrefixOfPrefix
<1> QED
  BY <1>5 DEF SealIsTrue, Follows

LEMMA NextKeeps ==
  ASSUME IInv, [Next]_vars
  PROVE  IInv' /\ Lasts /\ (UNCHANGED seal \/ SealIsTrue')
<1>1. ASSUME NEW p \in Procs, Step(p) \/ Die(p) PROVE IInv' /\ Lasts /\ (UNCHANGED seal \/ SealIsTrue')
  <2>1. CASE TakeLock(p)
    BY <2>1, TakeLockKeeps
  <2>2. CASE Refuse(p) \/ Acknowledge(p) \/ Die(p)
    BY <2>2, EndKeeps
  <2>3. CASE Write(p)
    BY <2>3, WriteKeeps
  <2>4. CASE RollBack(p)
    BY <2>4, RollBackKeeps
  <2>5. CASE Seal(p)
    BY <2>5, SealKeeps
  <2> QED
    BY <1>1, <2>1, <2>2, <2>3, <2>4, <2>5 DEF Step
<1>2. ASSUME NEW p \in Procs, NEW call \in Calls, Start(p, call) PROVE IInv' /\ Lasts /\ UNCHANGED seal
  BY <1>2, StartKeeps
<1>3. ASSUME UNCHANGED vars PROVE IInv' /\ Lasts /\ UNCHANGED seal
  <2>1. IInv'
    BY <1>3 DEF vars, IInv, LocksOK, Has, TakesInOrder, Locks, StreamsOK, decisions, outcomes,
       SealOK, WritersWrote, Target, Bounded
  <2>2. \A s \in Streams : Committed(s)' = Committed(s)
    BY <1>3 DEF vars, Committed, Target
  <2> QED
    BY <1>3, <2>1, <2>2, SameLasts DEF vars
<1>4. CASE Next
  BY <1>1, <1>2, <1>4 DEF Next
<1> QED
  BY <1>3, <1>4

-----------------------------------------------------------------------------
\* In every reachable state each call of research_ledger.py has its locks in the
\* one order, and what it wrote is the end of a stream whose lock it still has.
THEOREM Invariance == FairSpec => []IInv
<1>1. IInv /\ [Next]_vars => IInv'
  BY NextKeeps
<1> QED
  BY <1>1, InitIInv, PTL DEF FairSpec

\* Files, locks, calls and the seal of research_ledger.py have their types, and a
\* process has a lock exactly when its call says so.
THEOREM TypeCorrectness == FairSpec => []TypeOK
<1>1. IInv => TypeOK
  BY DEF IInv, LocksOK, StreamsOK, SealOK, Bounded, TypeOK, Contents, Active, Has
<1> QED
  BY <1>1, Invariance, PTL

\* What is committed to a stream of research_ledger.py stays for good, whatever is
\* written, cut back or left behind by a process that dies.
THEOREM CommittedLasts == FairSpec => [][Lasts]_vars
<1>1. IInv /\ [Next]_vars => [Lasts]_vars
  BY NextKeeps
<1> QED
  BY <1>1, Invariance, PTL DEF FairSpec

\* A seal of research_ledger.py covers one lasting state of both streams: events
\* that stay for good, and with every outcome the one decision before it.
THEOREM SealsAreTrue == FairSpec => []SealIsTrue
<1>1. IInv /\ CommittedOK /\ CommittedOK' /\ SealIsTrue /\ [Next]_vars => SealIsTrue'
  <2> SUFFICES ASSUME IInv, CommittedOK, CommittedOK', SealIsTrue, [Next]_vars PROVE SealIsTrue'
    OBVIOUS
  <2>1. Lasts /\ (UNCHANGED seal \/ SealIsTrue')
    BY NextKeeps
  <2> QED
    BY <2>1, SealLasts
<1> QED
  BY <1>1, Invariance, InitIInv, CommittedIsOK, PTL DEF FairSpec

=============================================================================
