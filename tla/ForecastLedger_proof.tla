------------------------ MODULE ForecastLedger_proof ------------------------
(***************************************************************************)
(* Proof that the forecast ledger loses nothing that it acknowledged, for  *)
(* any number of appends, seals and claims.  The invariant says what the   *)
(* append under way has done to the file: what it would cut back to is a   *)
(* prefix of the lines, which are longer by its own event at most.         *)
(***************************************************************************)
EXTENDS ForecastLedger, FiniteSetTheorems, WellFoundedInduction, TLAPS

\* What stands in an event does not matter for its place.
IsLines(s) == \E S : s \in Seq(S)

IsFile(f) == f = [log |-> f.log, open |-> f.open, torn |-> f.torn] /\ IsLines(f.log)

\* What the append that holds the lock may have left at the end of the file.
InFlight ==
  /\ inflight.pc = "written"
  /\ IsFile(inflight.before)
  /\ inflight.event.seq = Len(inflight.before.log) + 1
  /\ \/ file.log = Append(inflight.before.log, inflight.event)
     \/ file.log = inflight.before.log /\ ~inflight.whole

\* Every event that append returned is where it was committed.
AckedAreCommitted ==
  \A e \in acked : e.seq \in 1..Len(Committed) /\ Committed[e.seq] = e

IInv ==
  /\ IsFile(file)
  /\ inflight # Idle => InFlight
  /\ AckedAreCommitted

\* The step of AcknowledgedStays.
Grows ==
  /\ IsPrefix(Committed, Committed')
  /\ \A e \in acked' : e.seq <= Len(Committed') /\ Committed'[e.seq] = e

-----------------------------------------------------------------------------
LEMMA PrefixOfItself == ASSUME NEW s, IsLines(s) PROVE IsPrefix(s, s)
BY DEF IsPrefix, IsLines

\* One line more leaves the others where they are.
LEMMA OneLineMore ==
  ASSUME NEW s, IsLines(s), NEW e
  PROVE  /\ IsLines(Append(s, e)) /\ Len(s) \in Nat
         /\ IsPrefix(s, Append(s, e))
         /\ Len(Append(s, e)) = Len(s) + 1 /\ Append(s, e)[Len(s) + 1] = e
         /\ \A i \in 1..Len(s) : Append(s, e)[i] = s[i]
<1>1. PICK S : s \in Seq(S)
  BY DEF IsLines
<1> DEFINE T == S \cup {e}
<1>2. s \in Seq(T) /\ e \in T
  BY <1>1
<1> HIDE DEF T
<1>3. Append(s, e) \in Seq(T) /\ Len(s) \in Nat
  BY <1>2
<1>4. IsPrefix(s, Append(s, e))
  BY <1>2 DEF IsPrefix
<1>5. /\ Len(Append(s, e)) = Len(s) + 1 /\ Append(s, e)[Len(s) + 1] = e
      /\ \A i \in 1..Len(s) : Append(s, e)[i] = s[i]
  BY <1>2
<1> QED
  BY <1>3, <1>4, <1>5 DEF IsLines

\* The lines that are committed are lines, also while an append is under way.
LEMMA CommittedAreLines == ASSUME IInv PROVE IsLines(Committed)
BY DEF IInv, InFlight, IsFile, Committed, Unlocked, log

\* Steps after which the same lines are committed and acknowledged.
LEMMA NothingCommitted ==
  ASSUME IInv, Committed' = Committed, UNCHANGED acked
  PROVE  AckedAreCommitted' /\ Grows
<1>1. IsPrefix(Committed, Committed')
  BY CommittedAreLines, PrefixOfItself
<1>2. Len(Committed) \in Nat
  BY CommittedAreLines, OneLineMore
<1> QED
  BY <1>1, <1>2 DEF IInv, AckedAreCommitted, Grows

-----------------------------------------------------------------------------
LEMMA InitIInv == Init => IInv
<1> SUFFICES ASSUME Init PROVE IInv
  OBVIOUS
<1>1. IsFile(file)
  BY DEF Init, IsFile, IsLines
<1> QED
  BY <1>1 DEF Init, IInv, AckedAreCommitted

\* append writes its line or a part of it behind the committed ones.
LEMMA WriteGrows ==
  ASSUME IInv, NEW q \in Requests, NEW now \in Times, Write(q, now)
  PROVE  IInv' /\ Grows
<1> DEFINE e == NewEvent(q, now)
<1>1. PICK whole \in BOOLEAN :
         /\ inflight' = [pc |-> "written", before |-> file, whole |-> whole, event |-> e]
         /\ file' \in AsWritten(e, whole)
  BY DEF Write
<1>2. inflight = Idle /\ acked' = acked
  BY DEF Write, Unlocked
<1>3. e.seq = Len(file.log) + 1
  BY DEF NewEvent, log
<1> HIDE DEF e
<1>4. /\ file' = [log |-> file'.log, open |-> file'.open, torn |-> file'.torn]
      /\ file'.log = Append(file.log, e) \/ (file'.log = file.log /\ ~whole)
  <2>1. CASE whole
    BY <1>1, <2>1 DEF AsWritten, log
  <2>2. CASE ~whole
    <3> DEFINE t == IF file.open THEN e.hash ELSE file.torn
               line == [log |-> Append(file.log, e), open |-> TRUE, torn |-> t]
               part == [log |-> file.log, open |-> file.open, torn |-> e.hash]
    <3>1. file' = line \/ file' = part
      BY <1>1, <2>2, Zenon DEF AsWritten, log
    <3> HIDE DEF t
    <3>2. CASE file' = line
      BY <3>2
    <3>3. CASE file' = part
      BY <2>2, <3>3
    <3> QED
      BY <3>1, <3>2, <3>3
  <2> QED
    BY <2>1, <2>2
<1>5. inflight'.pc = "written" /\ Idle.pc = "idle"
  BY <1>1 DEF Idle
<1>6. inflight' # Idle /\ Committed = file.log /\ Committed' = file.log
  BY <1>1, <1>2, <1>5 DEF Committed, Unlocked, log
<1>7. IsFile(file) /\ IsFile(file')
  <2>1. IsFile(file) /\ IsLines(file.log)
    BY DEF IInv, IsFile
  <2>2. IsLines(Append(file.log, e))
    BY <2>1, OneLineMore, Zenon
  <2>3. IsLines(file'.log)
    <3>1. CASE file'.log = Append(file.log, e)
      BY <2>2, <3>1
    <3>2. CASE file'.log = file.log
      BY <2>1, <3>2
    <3> QED
      BY <1>4, <3>1, <3>2
  <2> QED
    BY <1>4, <2>1, <2>3 DEF IsFile
<1>8. InFlight'
  BY <1>1, <1>3, <1>4, <1>7 DEF InFlight
<1>9. AckedAreCommitted' /\ Grows
  BY <1>2, <1>6, NothingCommitted
<1> QED
  BY <1>7, <1>8, <1>9 DEF IInv

\* append returns: its event is the last of the committed ones.
LEMMA AcknowledgeGrows ==
  ASSUME IInv, Acknowledge
  PROVE  IInv' /\ Grows
<1> DEFINE b == inflight.before.log
           e == inflight.event
<1>1. /\ IsLines(b) /\ e.seq = Len(b) + 1 /\ file.log = Append(b, e)
      /\ acked' = acked \cup {e} /\ inflight' = Idle /\ file' = file
  BY DEF Acknowledge, Unlocked, IInv, InFlight, IsFile
<1>2. Committed = b /\ Committed' = Append(b, e)
  BY <1>1 DEF Acknowledge, Unlocked, Committed, log
<1>3. \A x \in acked : x.seq \in 1..Len(b) /\ b[x.seq] = x
  BY <1>2 DEF IInv, AckedAreCommitted
<1> HIDE DEF b, e
<1>4. /\ IsPrefix(b, Append(b, e)) /\ Len(b) \in Nat
      /\ Len(Append(b, e)) = Len(b) + 1 /\ Append(b, e)[Len(b) + 1] = e
      /\ \A i \in 1..Len(b) : Append(b, e)[i] = b[i]
  BY <1>1, OneLineMore
<1>5. \A x \in acked' : x.seq \in 1..Len(Committed') /\ Committed'[x.seq] = x
  BY <1>1, <1>2, <1>3, <1>4
<1>6. IInv'
  BY <1>1, <1>5 DEF IInv, AckedAreCommitted
<1> QED
  BY <1>2, <1>4, <1>5, <1>6 DEF Grows

\* append cuts back what it has written, and nothing else.
LEMMA RollBackGrows ==
  ASSUME IInv, RollBack
  PROVE  IInv' /\ Grows
<1>1. Committed' = Committed /\ acked' = acked
  BY DEF RollBack, Committed, Unlocked, log
<1>2. IsFile(file') /\ inflight' = Idle
  BY DEF RollBack, Unlocked, IInv, InFlight
<1> QED
  BY <1>1, <1>2, NothingCommitted DEF IInv

\* What an append leaves behind is committed, behind what was.
LEMMA LeaveBehindGrows ==
  ASSUME IInv, LeaveBehind
  PROVE  IInv' /\ Grows
<1> DEFINE b == inflight.before.log
           e == inflight.event
<1>1. /\ IsLines(b) /\ (file.log = Append(b, e) \/ file.log = b)
      /\ acked' = acked /\ inflight' = Idle /\ file' = file
  BY DEF LeaveBehind, Unlocked, IInv, InFlight, IsFile
<1>2. Committed = b /\ Committed' = file.log
  BY <1>1 DEF LeaveBehind, Unlocked, Committed, log
<1>3. CASE file.log = b
  BY <1>1, <1>2, <1>3, NothingCommitted DEF IInv
<1>4. CASE file.log = Append(b, e)
  <2>1. \A x \in acked : x.seq \in 1..Len(b) /\ b[x.seq] = x
    BY <1>2 DEF IInv, AckedAreCommitted
  <2> HIDE DEF b, e
  <2>2. /\ IsPrefix(b, Append(b, e)) /\ Len(b) \in Nat
        /\ Len(Append(b, e)) = Len(b) + 1
        /\ \A i \in 1..Len(b) : Append(b, e)[i] = b[i]
    BY <1>1, OneLineMore
  <2>3. \A x \in acked' : x.seq \in 1..Len(Committed') /\ Committed'[x.seq] = x
    BY <1>1, <1>2, <1>4, <2>1, <2>2
  <2>4. IInv'
    BY <1>1, <2>3 DEF IInv, AckedAreCommitted
  <2> QED
    BY <1>2, <1>4, <2>2, <2>3, <2>4 DEF Grows
<1> QED
  BY <1>1, <1>3, <1>4

\* Sealing and verifying read the file, and change neither it nor an append.
LEMMA ReadersGrow ==
  ASSUME IInv, UNCHANGED <<file, inflight, acked>>
  PROVE  IInv' /\ Grows
<1>1. Committed' = Committed
  BY DEF Committed, Unlocked, log
<1>2. IsFile(file') /\ (inflight' # Idle => InFlight')
  BY DEF IInv, InFlight
<1> QED
  BY <1>1, <1>2, NothingCommitted DEF IInv

LEMMA NextGrows == ASSUME IInv, [Next]_vars PROVE IInv' /\ Grows
<1>1. CASE UNCHANGED <<file, inflight, acked>>
  BY <1>1, ReadersGrow
<1>2. \/ UNCHANGED <<file, inflight, acked>>
      \/ \E q \in Requests, now \in Times : Write(q, now)
      \/ Acknowledge \/ RollBack \/ LeaveBehind
  BY Zenon DEF Next, vars, SealVerify, SealRead, SealHash, SealOpen, SealWrite, SealStop,
         CheckLog, CheckSeal, CheckRead, CheckHash, CheckStop
<1> HIDE DEF IInv
<1> QED
  BY <1>1, <1>2, WriteGrows, AcknowledgeGrows, RollBackGrows, LeaveBehindGrows

-----------------------------------------------------------------------------
\* In every reachable state the committed lines hold each event that append
\* returned at its place, and the append under way adds its own line at most.
THEOREM Invariance == Spec => []IInv
<1>1. IInv /\ [Next]_vars => IInv'
  BY NextGrows
<1> QED
  BY <1>1, InitIInv, PTL DEF Spec

\* The committed events of ledger.py only grow at their end, and none that append
\* returned is ever lost, whatever fails, is cut back or dies in between.
THEOREM NothingAcknowledgedIsLost == Spec => AcknowledgedStays
<1>1. ASSUME IInv, [Next]_vars PROVE [Grows]_vars
  BY <1>1, NextGrows
<1>2. Spec => [][Grows]_vars
  BY <1>1, Invariance, PTL DEF Spec
<1> QED
  BY <1>2 DEF AcknowledgedStays, Grows

-----------------------------------------------------------------------------
(* The helpers on sequences of events. *)

\* The latest event of a claim below n is one of them, and none is later.
LEMMA LatestIsLast ==
  ASSUME NEW S, NEW s \in Seq(S), NEW c, NEW n \in Nat, PositionsOf(c, s, n) # {}
  PROVE  \E j \in PositionsOf(c, s, n) :
           LatestOf(c, s, n) = s[j] /\ \A k \in PositionsOf(c, s, n) : k <= j
<1> DEFINE prior == PositionsOf(c, s, n)
           back == {n - k : k \in prior}
<1>1. prior \subseteq Nat /\ \A k \in prior : k < n
  BY DEF PositionsOf
<1>2. back \subseteq Nat /\ back # {}
  BY <1>1
<1>3. PICK m \in back : \A k \in back : m <= k
  <2>1. PICK m \in back : \A k \in back : ~ (<<k, m>> \in OpToRel(<, Nat))
    BY <1>2, NatLessThanWellFounded, WFMin
  <2>2. ASSUME NEW k \in Nat, NEW i \in Nat, k < i PROVE <<k, i>> \in OpToRel(<, Nat)
    BY <2>2 DEF OpToRel
  <2>3. \A k \in back : k \in Nat /\ m \in Nat
    BY <1>2
  <2> HIDE DEF back
  <2>4. ASSUME NEW k \in back PROVE ~ (k < m)
    BY <2>1, <2>2, <2>3, Zenon
  <2> QED
    BY <2>3, <2>4
<1>4. PICK j \in prior : m = n - j
  BY <1>3
<1>5. \A k \in prior : k <= j
  <2> SUFFICES ASSUME NEW k \in prior PROVE k <= j
    OBVIOUS
  <2>1. m <= n - k
    BY <1>3
  <2> QED
    BY <1>1, <1>4, <2>1
<1> DEFINE last == CHOOSE i \in prior : \A k \in prior : k <= i
<1>6. last \in prior /\ \A k \in prior : k <= last
  BY <1>5
<1>7. LatestOf(c, s, n) = s[last]
  BY DEF LatestOf
<1> HIDE DEF last
<1> QED
  BY <1>6, <1>7

\* Below a line that is appended nothing changes for the events.
LEMMA NothingChangesBelow ==
  ASSUME NEW S, NEW s \in Seq(S), NEW e, NEW c, NEW i \in 1..(Len(s) + 1)
  PROVE  /\ PositionsOf(c, Append(s, e), i) = PositionsOf(c, s, i)
         /\ HashBefore(Append(s, e), i) = HashBefore(s, i)
         /\ PositionsOf(c, s, i) # {} => LatestOf(c, Append(s, e), i) = LatestOf(c, s, i)
<1> DEFINE t == Append(s, e)
           prior == PositionsOf(c, s, i)
<1>1. /\ Len(t) = Len(s) + 1 /\ DOMAIN t = 1..(Len(s) + 1)
      /\ DOMAIN s = 1..Len(s) /\ Len(s) \in Nat /\ i \in Nat
      /\ \A j \in 1..Len(s) : t[j] = s[j]
  BY OneLineMore DEF IsLines
<1>2. IsLines(t)
  BY OneLineMore DEF IsLines
<1> HIDE DEF t
<1>3. PositionsOf(c, t, i) = prior
  BY <1>1 DEF PositionsOf
<1>4. HashBefore(t, i) = HashBefore(s, i)
  BY <1>1 DEF HashBefore
<1>5. ASSUME prior # {} PROVE LatestOf(c, t, i) = LatestOf(c, s, i)
  <2>1. PICK T : t \in Seq(T)
    BY <1>2 DEF IsLines
  <2>2. PICK j \in prior : LatestOf(c, t, i) = t[j] /\ \A k \in prior : k <= j
    BY <1>1, <1>3, <1>5, <2>1, LatestIsLast
  <2>3. PICK m \in prior : LatestOf(c, s, i) = s[m] /\ \A k \in prior : k <= m
    BY <1>1, <1>5, LatestIsLast
  <2>4. prior \subseteq 1..Len(s)
    BY <1>1 DEF PositionsOf
  <2>5. j = m
    BY <1>1, <2>2, <2>3, <2>4
  <2> QED
    BY <1>1, <2>2, <2>3, <2>4, <2>5
<1> QED
  BY <1>3, <1>4, <1>5 DEF t

-----------------------------------------------------------------------------
(* Types. *)

\* What seal will read in its second step is there.
SealerReady == sealer.pc = "verified" => Committed # <<>>

Types == TypeOK /\ IInv /\ SealerReady

LEMMA NewEventIsEvent ==
  ASSUME TypeOK, NEW q \in Requests, NEW now \in Times
  PROVE  NewEvent(q, now) \in Events
<1> DEFINE next == Len(log) + 1
           prior == PositionsOf(q.claim, log, next)
<1>1. log \in Seq(Events) /\ next \in Nat /\ writes \in Nat /\ now \in Nat
  BY BoundAssumption DEF TypeOK, Files, log, Times
<1>2. prior \subseteq 1..Len(log) /\ \A j \in prior : log[j] \in Events
  BY <1>1 DEF PositionsOf
<1>3. Cardinality(prior) + 1 \in Nat
  <2>1. IsFiniteSet(1..Len(log))
    BY <1>1, FS_Interval
  <2>2. IsFiniteSet(prior)
    BY <1>2, <2>1, FS_Subset
  <2> HIDE DEF prior
  <2> QED
    BY <2>2, FS_CardinalityType
<1>4. HashBefore(log, next) \in Hashes
  <2>1. CASE next = 1
    BY <2>1 DEF HashBefore, Hashes
  <2>2. CASE next # 1
    <3>1. log[next - 1] \in Events
      BY <1>1, <2>2
    <3> QED
      BY <2>2, <3>1 DEF HashBefore, Events, Hashes
  <2> QED
    BY <2>1, <2>2
<1>5. Superseded(q.claim, log, next) \in Hashes
  <2>1. CASE prior = {}
    BY <2>1 DEF Superseded, Hashes
  <2>2. CASE prior # {}
    <3>1. PICK j \in prior : LatestOf(q.claim, log, next) = log[j]
      BY <1>1, <2>2, LatestIsLast
    <3>2. LatestOf(q.claim, log, next).hash \in Hashes
      BY <1>2, <3>1 DEF Events, Hashes
    <3> QED
      BY <2>2, <3>2 DEF Superseded
  <2> QED
    BY <2>1, <2>2
<1>6. /\ q.ledger \in Ledgers /\ q.type \in Origins \cup Later /\ q.claim \in Claims
      /\ q.mode \in Modes
  BY DEF Requests
<1> HIDE DEF prior
<1> QED
  BY <1>1, <1>3, <1>4, <1>5, <1>6 DEF NewEvent, Events, prior

LEMMA InitTypes == Init => Types
<1> SUFFICES ASSUME Init PROVE Types
  OBVIOUS
<1>1. file \in Files
  BY DEF Init, Files, Hashes
<1>2. TypeOK
  BY <1>1, BoundAssumption DEF Init, TypeOK, SealFiles
<1>3. SealerReady
  BY DEF Init, SealerReady, Idle
<1> QED
  BY <1>2, <1>3, InitIInv DEF Types

\* append writes: the file holds events, and the sealer is not concerned.
LEMMA WriteTypes ==
  ASSUME TypeOK, NEW q \in Requests, NEW now \in Times, Write(q, now)
  PROVE  TypeOK'
<1> DEFINE e == NewEvent(q, now)
<1>1. e \in Events
  BY NewEventIsEvent
<1>2. e.hash = writes /\ writes \in Nat /\ writes' \in 0..MaxWrites
  BY BoundAssumption DEF NewEvent, TypeOK, Write
<1>3. PICK whole \in BOOLEAN :
         /\ inflight' = [pc |-> "written", before |-> file, whole |-> whole, event |-> e]
         /\ file' \in AsWritten(e, whole)
  BY DEF Write
<1>4. file \in Files /\ Append(file.log, e) \in Seq(Events) /\ file.torn \in Hashes
  BY <1>1 DEF TypeOK, Files
<1>5. e.hash \in Hashes
  BY <1>2 DEF Hashes
<1> HIDE DEF e
<1>6. \A x \in AsWritten(e, whole) : x \in Files
  <2>1. \A b \in BOOLEAN, t \in Hashes :
          /\ [log |-> Append(file.log, e), open |-> b, torn |-> t] \in Files
          /\ [log |-> file.log, open |-> b, torn |-> t] \in Files
    BY <1>4 DEF Files
  <2>2. file.open \in BOOLEAN
    BY <1>4 DEF Files
  <2>3. (IF file.open THEN e.hash ELSE file.torn) \in Hashes
    BY <1>4, <1>5
  <2> QED
    BY <1>5, <2>1, <2>2, <2>3 DEF AsWritten, log
<1>7. inflight' \in [pc : {"written"}, before : Files, whole : BOOLEAN, event : Events]
  BY <1>1, <1>3, <1>4
<1> QED
  BY <1>2, <1>3, <1>6, <1>7 DEF TypeOK, Write

\* An append ends.
LEMMA EndOfAppendTypes ==
  ASSUME TypeOK, Acknowledge \/ RollBack \/ LeaveBehind
  PROVE  TypeOK'
<1>1. inflight \in [pc : {"written"}, before : Files, whole : BOOLEAN, event : Events]
  BY DEF TypeOK, Acknowledge, RollBack, LeaveBehind, Unlocked
<1>2. file' \in Files /\ acked' \subseteq Events /\ inflight' = Idle
  BY <1>1 DEF TypeOK, Acknowledge, RollBack, LeaveBehind
<1> QED
  BY <1>2 DEF TypeOK, Acknowledge, RollBack, LeaveBehind

\* seal reads, hashes and writes.
LEMMA SealTypes ==
  ASSUME TypeOK, SealerReady,
         \/ \E ledger \in Ledgers : SealVerify(ledger)
         \/ \E now \in Times : SealRead(now)
         \/ SealHash \/ SealOpen \/ SealWrite \/ SealStop
  PROVE  TypeOK'
<1> DEFINE SealerTypes ==
      \/ sealer = Idle \/ sealer \in [pc : {"verified"}, ledger : Ledgers]
      \/ sealer \in [pc : {"read"}, seal : SealsOver({Nothing})]
      \/ sealer \in [pc : {"hashed", "open"}, seal : Seals]
<1>1. UNCHANGED <<file, inflight, acked, writes, verifier>>
  BY DEF SealVerify, SealRead, SealHash, SealOpen, SealWrite, SealStop
<1>2. SealerTypes /\ Idle.pc = "idle" /\ file \in Files
  BY DEF TypeOK, Idle
<1>3. CASE \E ledger \in Ledgers : SealVerify(ledger)
  BY <1>1, <1>3 DEF TypeOK, SealVerify
<1>4. CASE \E now \in Times : SealRead(now)
  <2>1. sealer \in [pc : {"verified"}, ledger : Ledgers] /\ UNCHANGED sealFile
    BY <1>2, <1>4 DEF SealRead
  <2>2. log \in Seq(Events) /\ log # <<>>
    BY <1>2, <1>4, <2>1 DEF SealRead, SealerReady, Committed, Files, log
  <2>3. /\ Len(log) \in Nat /\ log[1] \in Events /\ log[Len(log)] \in Events
    BY <2>2
  <2>4. /\ log[1].hash \in Hashes /\ log[Len(log)].hash \in Hashes
        /\ log[Len(log)].recorded \in Nat
    BY <2>3 DEF Events, Hashes
  <2>5. sealer' \in [pc : {"read"}, seal : SealsOver({Nothing})]
    BY <1>4, <2>1, <2>3, <2>4 DEF SealRead, SealsOver
  <2> QED
    BY <1>1, <2>1, <2>5 DEF TypeOK
<1>5. CASE SealHash
  <2>1. sealer \in [pc : {"read"}, seal : SealsOver({Nothing})] /\ UNCHANGED sealFile
    BY <1>2, <1>5 DEF SealHash
  <2>2. [sealer.seal EXCEPT !.content = file] \in Seals
    BY <1>2, <2>1 DEF SealsOver, Seals
  <2>3. sealer' \in [pc : {"hashed", "open"}, seal : Seals]
    BY <1>5, <2>2 DEF SealHash
  <2> QED
    BY <1>1, <2>1, <2>3 DEF TypeOK
<1>6. CASE SealOpen
  <2>1. sealer \in [pc : {"hashed", "open"}, seal : Seals]
    BY <1>2, <1>6 DEF SealOpen
  <2>2. sealer' \in [pc : {"hashed", "open"}, seal : Seals]
    BY <1>6, <2>1 DEF SealOpen
  <2> QED
    BY <1>1, <1>6, <2>2 DEF TypeOK, SealOpen, SealFiles
<1>7. CASE SealWrite
  <2>1. sealer \in [pc : {"hashed", "open"}, seal : Seals]
    BY <1>2, <1>7 DEF SealWrite
  <2>2. sealFile' \in [pc : {"sealed"}, seal : Seals] /\ sealer' = Idle
    BY <1>7, <2>1 DEF SealWrite
  <2> QED
    BY <1>1, <2>2 DEF TypeOK, SealFiles
<1>8. CASE SealStop
  BY <1>1, <1>8 DEF TypeOK, SealStop
<1> QED
  BY <1>3, <1>4, <1>5, <1>6, <1>7, <1>8

\* verify_seal reads and compares.
LEMMA CheckTypes ==
  ASSUME TypeOK,
         \/ \E ledger \in Ledgers : CheckLog(ledger)
         \/ CheckSeal \/ CheckRead \/ CheckHash \/ CheckStop
  PROVE  TypeOK'
<1> DEFINE VerifierTypes ==
      \/ verifier = Idle \/ verifier \in [pc : {"checked"}, ledger : Ledgers]
      \/ verifier \in [pc : {"opened", "read", "accepted"}, ledger : Ledgers, seal : Seals]
<1>1. UNCHANGED <<file, inflight, acked, writes, sealFile, sealer>>
  BY DEF CheckLog, CheckSeal, CheckRead, CheckHash, CheckStop
<1>2. VerifierTypes /\ sealFile \in SealFiles /\ Idle.pc = "idle"
  BY DEF TypeOK, Idle
<1>3. VerifierTypes'
  <2>1. CASE \E ledger \in Ledgers : CheckLog(ledger)
    BY <2>1 DEF CheckLog
  <2>2. CASE CheckSeal
    <3>1. verifier \in [pc : {"checked"}, ledger : Ledgers]
      BY <1>2, <2>2 DEF CheckSeal
    <3>2. sealFile \in [pc : {"sealed"}, seal : Seals]
      BY <1>2, <2>2 DEF CheckSeal, SealFiles, Torn, Missing
    <3> QED
      BY <2>2, <3>1, <3>2 DEF CheckSeal
  <2>3. CASE CheckRead \/ CheckHash
    <3>1. verifier \in [pc : {"opened", "read", "accepted"}, ledger : Ledgers, seal : Seals]
      BY <1>2, <2>3 DEF CheckRead, CheckHash
    <3> QED
      BY <2>3, <3>1 DEF CheckRead, CheckHash
  <2>4. CASE CheckStop
    BY <2>4 DEF CheckStop
  <2> QED
    BY <2>1, <2>2, <2>3, <2>4
<1> QED
  BY <1>1, <1>3 DEF TypeOK

\* The committed lines do not become fewer, so seal finds what verify has seen.
LEMMA SealerStaysReady ==
  ASSUME Types, Next, Grows, IInv'
  PROVE  SealerReady'
<1>1. ASSUME sealer.pc = "verified", sealer' = sealer PROVE Committed' # <<>>
  <2>1. Committed # <<>> /\ IsPrefix(Committed, Committed')
    BY <1>1 DEF Types, SealerReady, Grows
  <2>2. IsLines(Committed) /\ IsLines(Committed')
    BY CommittedAreLines DEF Types, IInv, InFlight, IsFile, Committed, Unlocked, log
  <2>3. Len(Committed) \in Nat /\ Len(Committed) > 0
    BY <2>1, <2>2 DEF IsLines
  <2> QED
    BY <2>1, <2>3 DEF IsPrefix
<1>2. CASE \E ledger \in Ledgers : SealVerify(ledger)
  BY <1>2 DEF SealVerify, Passes, SealerReady, Committed, Unlocked, log
<1>3. CASE \E now \in Times : SealRead(now)
  BY <1>3 DEF SealRead, SealerReady
<1>4. CASE SealHash \/ SealOpen \/ SealWrite \/ SealStop
  BY <1>4 DEF SealHash, SealOpen, SealWrite, SealStop, SealerReady, Idle, Types, TypeOK
<1>5. CASE UNCHANGED sealer
  BY <1>1, <1>5 DEF SealerReady
<1> QED
  BY <1>2, <1>3, <1>4, <1>5, Zenon DEF Next, Write, Acknowledge, RollBack, LeaveBehind,
     CheckLog, CheckSeal, CheckRead, CheckHash, CheckStop

LEMMA NextTypes == Types /\ [Next]_vars => Types'
<1> SUFFICES ASSUME Types, [Next]_vars PROVE Types'
  OBVIOUS
<1>1. IInv' /\ Grows
  BY NextGrows DEF Types
<1>2. CASE UNCHANGED vars
  BY <1>1, <1>2 DEF vars, Types, TypeOK, SealerReady, Committed, Unlocked, log
<1>3. CASE Next
  <2>1. TypeOK'
    BY <1>3, WriteTypes, EndOfAppendTypes, SealTypes, CheckTypes DEF Types, Next
  <2> QED
    BY <1>1, <1>3, <2>1, SealerStaysReady DEF Types
<1> QED
  BY <1>2, <1>3

\* The lines are events in every reachable state, and a seal is made of events
\* that are there.
THEOREM TypeCorrectness == Spec => []TypeOK
<1>1. Spec => []Types
  BY InitTypes, NextTypes, PTL DEF Spec
<1> QED
  BY <1>1, PTL DEF Types

-----------------------------------------------------------------------------
(* Whatever append admits, verify accepts. *)

Final(s) ==
  \A i, j \in DOMAIN s :
    i < j /\ s[i].claim = s[j].claim /\ s[i].type \notin Forecasts
    => s[j].type \in {"WITHDRAW", "EXPIRE"}

\* Only a forecast has a mode: an amendment of something else would need one.
ModesFit(s) == \A i \in DOMAIN s : (s[i].mode = "NONE") <=> (s[i].type \notin Forecasts)

\* A claim begins with its creation.
Begun(s) ==
  \A i \in DOMAIN s : \E j \in DOMAIN s :
    j <= i /\ s[j].claim = s[i].claim /\ s[j].type \in Origins

Sound(s) == (\E l \in Ledgers : Verifies(s, l)) /\ Final(s) /\ ModesFit(s) /\ Begun(s)

LogsAreSound == Sound(file.log) /\ (inflight # Idle => Sound(inflight.before.log))

\* What verify has accepted it accepts with another line behind it.
LEMMA VerifiedStays ==
  ASSUME NEW s, IsLines(s), NEW e, NEW l, Verifies(s, l), NEW i \in 1..Len(s)
  PROVE  Consistent(Append(s, e), i, l)
<1> DEFINE t == Append(s, e)
           prior == PositionsOf(s[i].claim, s, i)
<1>1. PICK S : s \in Seq(S)
  BY DEF IsLines
<1>2. /\ DOMAIN s = 1..Len(s) /\ Len(s) \in Nat /\ t[i] = s[i]
      /\ i > 1 => t[i - 1] = s[i - 1]
  BY <1>1, OneLineMore
<1>3. /\ PositionsOf(s[i].claim, t, i) = prior
      /\ HashBefore(t, i) = HashBefore(s, i)
      /\ prior # {} => LatestOf(s[i].claim, t, i) = LatestOf(s[i].claim, s, i)
  <2> DEFINE c == s[i].claim
  <2>1. i \in 1..(Len(s) + 1)
    BY <1>2
  <2> HIDE DEF c
  <2>2. /\ PositionsOf(c, t, i) = PositionsOf(c, s, i)
        /\ HashBefore(t, i) = HashBefore(s, i)
        /\ PositionsOf(c, s, i) # {} => LatestOf(c, t, i) = LatestOf(c, s, i)
    BY <1>1, <2>1, NothingChangesBelow
  <2> QED
    BY <2>2 DEF c
<1>4. Consistent(s, i, l)
  BY <1>2 DEF Verifies
<1> HIDE DEF t
<1> QED
  BY <1>2, <1>3, <1>4 DEF Consistent, t

\* The event that append makes passes verify where it stands.
LEMMA NewEventVerifies ==
  ASSUME TypeOK, Begun(log), NEW q \in Requests, NEW now \in Times, Admitted(q, now)
  PROVE  Consistent(Append(log, NewEvent(q, now)), Len(log) + 1, q.ledger)
<1> DEFINE e == NewEvent(q, now)
           t == Append(log, e)
           n == Len(log) + 1
           prior == PositionsOf(q.claim, log, n)
<1>1. log \in Seq(Events) /\ Len(log) \in Nat /\ n \in 1..(Len(log) + 1) /\ n \in Nat
  BY DEF TypeOK, Files, log
<1>2. t[n] = e /\ (n > 1 => t[n - 1] = log[Len(log)])
  BY <1>1, OneLineMore DEF IsLines
<1>3. /\ PositionsOf(q.claim, t, n) = prior
      /\ HashBefore(t, n) = HashBefore(log, n)
      /\ prior # {} => LatestOf(q.claim, t, n) = LatestOf(q.claim, log, n)
  BY <1>1, NothingChangesBelow
<1>4. /\ e.ledger = q.ledger /\ e.seq = n /\ e.claim = q.claim /\ e.type = q.type
      /\ e.mode = q.mode /\ e.recorded = now /\ e.prev = HashBefore(log, n)
      /\ e.revision = Cardinality(prior) + 1 /\ e.supersedes = Superseded(q.claim, log, n)
  BY DEF NewEvent
<1>5. n > 1 => t[n - 1].recorded <= now
  BY <1>1, <1>2 DEF Admitted
<1>6. /\ q.type \in Origins => prior = {}
      /\ q.type \in Later => prior # {}
      /\ q.type = "AMEND" => LatestOf(q.claim, log, n).mode = q.mode
  <2>1. \A i \in prior : log[i].claim = q.claim
    BY DEF PositionsOf
  <2>2. ASSUME q.type \in Origins, prior # {} PROVE FALSE
    <3>1. \A i \in prior : log[i].type \notin Origins
      BY <2>2 DEF Admitted
    <3>2. PICK i \in prior : i \in DOMAIN log /\ log[i].claim = q.claim /\ i < n
      BY <2>2 DEF PositionsOf
    <3>3. PICK j \in DOMAIN log : j <= i /\ log[j].claim = q.claim /\ log[j].type \in Origins
      BY <3>2 DEF Begun
    <3>4. j \in prior
      BY <1>1, <3>2, <3>3 DEF PositionsOf
    <3> QED
      BY <3>1, <3>3, <3>4
  <2> QED
    BY <2>2 DEF Admitted
<1>7. q.type \in Forecasts => q.mode # "NONE"
  BY DEF Requests
<1>8. prior # {} => Superseded(q.claim, log, n) = LatestOf(q.claim, log, n).hash
  BY DEF Superseded
<1> HIDE DEF e, t, n, prior
<1> QED
  BY <1>2, <1>3, <1>4, <1>5, <1>6, <1>7, <1>8 DEF Consistent, e, t, n

\* What append admits leaves the lines sound.
LEMMA AppendSound ==
  ASSUME TypeOK, Sound(log), NEW q \in Requests, NEW now \in Times, Admitted(q, now)
  PROVE  Sound(Append(log, NewEvent(q, now)))
<1> DEFINE e == NewEvent(q, now)
           t == Append(log, e)
           n == Len(log) + 1
           prior == PositionsOf(q.claim, log, n)
<1>1. /\ log \in Seq(Events) /\ DOMAIN log = 1..Len(log) /\ Len(log) \in Nat /\ IsLines(log)
      /\ DOMAIN t = 1..n /\ t[n] = e /\ \A i \in 1..Len(log) : t[i] = log[i]
  BY OneLineMore DEF TypeOK, Files, log, IsLines
<1>2. e.claim = q.claim /\ e.type = q.type /\ e.mode = q.mode
  BY DEF NewEvent
<1>3. prior = {i \in 1..Len(log) : log[i].claim = q.claim}
  BY <1>1 DEF PositionsOf
<1>4. Verifies(t, q.ledger)
  <2>1. \A i \in 1..Len(log) : Verifies(log, q.ledger)
    BY <1>1 DEF Sound, Verifies, Consistent, Admitted
  <2>2. \A i \in 1..Len(log) : Consistent(t, i, q.ledger)
    BY <1>1, <2>1, VerifiedStays
  <2>3. Consistent(t, n, q.ledger)
    BY NewEventVerifies DEF Sound
  <2> QED
    BY <1>1, <2>2, <2>3 DEF Verifies
<1>5. ModesFit(t)
  <2>1. (e.mode = "NONE") <=> (e.type \notin Forecasts)
    BY <1>2 DEF Requests
  <2> HIDE DEF e, t
  <2> QED
    BY <1>1, <2>1 DEF Sound, ModesFit
<1>6. q.type \in Later => prior # {}
  BY DEF Admitted
<1>7. Begun(t)
  <2>1. ASSUME NEW i \in 1..Len(log)
        PROVE  \E j \in 1..n : j <= i /\ t[j].claim = t[i].claim /\ t[j].type \in Origins
    BY <1>1 DEF Sound, Begun
  <2>2. \E j \in 1..n : j <= n /\ t[j].claim = t[n].claim /\ t[j].type \in Origins
    <3>1. CASE q.type \in Origins
      BY <1>1, <1>2, <3>1
    <3>2. CASE q.type \in Later
      <4>1. PICK i \in 1..Len(log) : log[i].claim = q.claim
        BY <1>3, <1>6, <3>2
      <4>2. PICK j \in 1..n : j <= i /\ t[j].claim = t[i].claim /\ t[j].type \in Origins
        BY <2>1
      <4> HIDE DEF e, t
      <4> QED
        BY <1>1, <1>2, <4>1, <4>2
    <3> QED
      BY <3>1, <3>2 DEF Requests
  <2> HIDE DEF e, t
  <2> QED
    BY <1>1, <2>1, <2>2 DEF Begun
<1>8. Final(t)
  <2>1. ASSUME NEW i \in 1..Len(log), log[i].claim = q.claim, log[i].type \notin Forecasts
        PROVE  q.type \in {"WITHDRAW", "EXPIRE"}
    <3>1. i \in prior
      BY <1>3, <2>1
    <3>2. PICK j \in prior : LatestOf(q.claim, log, n) = log[j] /\ \A k \in prior : k <= j
      BY <1>1, <3>1, LatestIsLast
    <3>3. log[j].mode = "NONE"
      <4>1. log[j].type \notin Forecasts
        <5>1. CASE i = j
          BY <2>1, <5>1
        <5>2. CASE i # j
          BY <1>1, <1>3, <2>1, <3>1, <3>2, <5>2 DEF Sound, Final, Forecasts
        <5> QED
          BY <5>1, <5>2
      <4> QED
        BY <1>1, <1>3, <4>1 DEF Sound, ModesFit
    <3>4. q.type # "AMEND"
      BY <3>2, <3>3 DEF Admitted, Requests, Forecasts
    <3>5. q.type \notin Origins
      <4>1. Consistent(t, n, q.ledger)
        BY NewEventVerifies DEF Sound
      <4>2. PositionsOf(q.claim, t, n) = prior
        BY <1>1, NothingChangesBelow
      <4> QED
        BY <1>1, <1>2, <3>1, <4>1, <4>2 DEF Consistent
    <3> QED
      BY <3>4, <3>5 DEF Requests, Later
  <2> HIDE DEF e, t
  <2> QED
    BY <1>1, <1>2, <2>1 DEF Sound, Final
<1> QED
  BY <1>4, <1>5, <1>7, <1>8 DEF Sound, Requests

LEMMA InitSound == Init => LogsAreSound
BY LedgersAssumption DEF Init, LogsAreSound, Sound, Verifies, Final, ModesFit, Begun

LEMMA NextSound == TypeOK /\ LogsAreSound /\ [Next]_vars => LogsAreSound'
<1> SUFFICES ASSUME TypeOK, LogsAreSound, [Next]_vars PROVE LogsAreSound'
  OBVIOUS
<1>1. ASSUME NEW q \in Requests, NEW now \in Times, Write(q, now) PROVE LogsAreSound'
  <2>1. Sound(Append(log, NewEvent(q, now)))
    BY <1>1, AppendSound DEF Write, LogsAreSound, log
  <2>2. PICK whole \in BOOLEAN :
          /\ inflight' = [pc |-> "written", before |-> file, whole |-> whole, event |-> NewEvent(q, now)]
          /\ file' \in AsWritten(NewEvent(q, now), whole)
    BY <1>1 DEF Write
  <2>3. file'.log = Append(log, NewEvent(q, now)) \/ file'.log = file.log
    BY <2>2 DEF AsWritten, log
  <2>4. inflight'.before = file
    BY <2>2
  <2> QED
    BY <2>1, <2>3, <2>4 DEF LogsAreSound
<1>2. ASSUME Acknowledge \/ RollBack \/ LeaveBehind PROVE LogsAreSound'
  BY <1>2 DEF Acknowledge, RollBack, LeaveBehind, Unlocked, LogsAreSound
<1>3. ASSUME UNCHANGED <<file, inflight>> PROVE LogsAreSound'
  BY <1>3 DEF LogsAreSound
<1> QED
  BY <1>1, <1>2, <1>3, Zenon DEF Next, vars, SealVerify, SealRead, SealHash, SealOpen,
     SealWrite, SealStop, CheckLog, CheckSeal, CheckRead, CheckHash, CheckStop

\* In every reachable state the lines pass the checks of verify, and so do those
\* that an append under way would cut back to.
LEMMA Soundness == Spec => []LogsAreSound
<1>1. LogsAreSound /\ TypeOK /\ [Next]_vars => LogsAreSound'
  BY NextSound
<1> QED
  BY <1>1, InitSound, TypeCorrectness, PTL DEF Spec

\* A ledger whose lines can be read passes every check of verify (ledger.py),
\* whatever was appended, cut back or left behind, and whatever the clock read.
THEOREM Verification == Spec => []LogVerifies
<1>1. LogsAreSound => LogVerifies
  BY DEF LogsAreSound, LogVerifies, Sound, log
<1> QED
  BY <1>1, Soundness, PTL

\* A claim that was withdrawn, has expired or was imported is never amended,
\* although append (ledger.py) compares nothing but the modes.
THEOREM Finality == Spec => []WithdrawnIsFinal
<1>1. LogsAreSound => WithdrawnIsFinal
  BY DEF LogsAreSound, WithdrawnIsFinal, Sound, Final, log
<1> QED
  BY <1>1, Soundness, PTL

-----------------------------------------------------------------------------
(* Seals. *)

\* A seal whose bytes are not hashed yet is of committed events.
DraftHolds(s, committed) ==
  /\ s.count \in 1..Len(committed)
  /\ committed[1].hash = s.first /\ committed[s.count].hash = s.last

\* A seal is of committed events, behind which the hashed bytes may have had
\* something that was cut back afterwards.
SealHolds(s, committed, drawn) ==
  LET sealed == s.content.log IN
  /\ s.count \in 1..Len(sealed) /\ s.count <= Len(committed)
  /\ sealed[1].hash = s.first /\ sealed[s.count].hash = s.last
  /\ \A i \in 1..s.count : committed[i] = sealed[i]
  /\ \A i \in 1..Len(sealed) : sealed[i].hash < drawn
  /\ s.content.torn # Nothing => s.content.torn < drawn

\* What was cut back never comes again: every write has a hash of its own.
Compared(s, f) ==
  LET sealed == s.content.log
      next == s.count + 1 IN
  /\ next \in 1..Len(sealed) /\ next \in 1..Len(f.log) => f.log[next].hash # sealed[next].hash
  /\ s.content.torn # Nothing => f.torn # s.content.torn

\* The seal is of the bytes as they are.
Exact(s) == s.count = Len(s.content.log) /\ s.content.torn = Nothing

HashesAreDrawn ==
  /\ \A i \in 1..Len(file.log) : file.log[i].hash < writes
  /\ file.torn # Nothing => file.torn < writes
  /\ inflight # Idle => inflight.before.torn = Nothing

SealsHold ==
  /\ sealer.pc = "read" => DraftHolds(sealer.seal, Committed)
  /\ sealer.pc \in {"hashed", "open"} => SealHolds(sealer.seal, Committed, writes)
  /\ sealFile.pc = "sealed" => SealHolds(sealFile.seal, Committed, writes)
  /\ verifier.pc \in {"opened", "read", "accepted"} => SealHolds(verifier.seal, Committed, writes)
  /\ verifier.pc = "read" => Compared(verifier.seal, file)
  /\ verifier.pc = "accepted" => Exact(verifier.seal)

\* What is committed is in the file.
LEMMA CommittedInFile ==
  ASSUME IInv
  PROVE  /\ IsLines(Committed) /\ IsLines(file.log)
         /\ Len(Committed) \in Nat /\ Len(file.log) \in Nat
         /\ \A i \in 1..Len(Committed) : i \in 1..Len(file.log) /\ file.log[i] = Committed[i]
<1>1. IsLines(Committed) /\ IsLines(file.log)
  BY CommittedAreLines DEF IInv, IsFile
<1>2. Len(Committed) \in Nat /\ Len(file.log) \in Nat
  BY <1>1, OneLineMore
<1>3. CASE file.log = Committed
  BY <1>1, <1>2, <1>3
<1>4. CASE file.log = Append(Committed, inflight.event)
  <2>1. /\ Len(file.log) = Len(Committed) + 1
        /\ \A i \in 1..Len(Committed) : file.log[i] = Committed[i]
    BY <1>1, <1>4, OneLineMore
  <2> QED
    BY <1>1, <1>2, <2>1
<1> QED
  BY <1>3, <1>4 DEF IInv, InFlight, Committed, Unlocked, log

\* Growing, line by line.
LEMMA GrowsPointwise ==
  ASSUME IInv, IInv', Grows
  PROVE  /\ Len(Committed) <= Len(Committed')
         /\ \A i \in 1..Len(Committed) : Committed'[i] = Committed[i]
<1> DEFINE s == Committed
           t == Committed'
<1>1. IsLines(s) /\ IsLines(t) /\ IsPrefix(s, t)
  <2>1. IsLines(t)
    BY CommittedAreLines DEF IInv, InFlight, IsFile, Committed, Unlocked, log
  <2> QED
    BY <2>1, CommittedAreLines DEF Grows
<1> HIDE DEF s, t
<1>2. PICK S, T : s \in Seq(S) /\ t \in Seq(T)
  BY <1>1 DEF IsLines
<1>3. Len(s) <= Len(t) /\ SubSeq(s, 1, Len(s)) = SubSeq(t, 1, Len(s))
  BY <1>1 DEF IsPrefix
<1>4. \A i \in 1..Len(s) : SubSeq(s, 1, Len(s))[i] = s[i] /\ SubSeq(t, 1, Len(s))[i] = t[i]
  BY <1>2, <1>3
<1>5. \A i \in 1..Len(s) : t[i] = s[i]
  BY <1>3, <1>4
<1> QED
  BY <1>3, <1>5 DEF s, t

LEMMA HashesAreNumbers ==
  ASSUME NEW s \in Seq(Events)
  PROVE  Len(s) \in Nat /\ \A i \in 1..Len(s) : s[i].hash \in Nat
<1>1. \A i \in 1..Len(s) : s[i] \in Events
  OBVIOUS
<1>2. \A e \in Events : e.hash \in Nat
  BY DEF Events
<1> QED
  BY <1>1, <1>2

\* A seal that holds still holds when more is committed.
LEMMA SealStays ==
  ASSUME NEW s, NEW c, NEW d, NEW v \in Nat, NEW w \in Nat,
         s \in Seals, Len(c) \in Nat, Len(d) \in Nat, Len(c) <= Len(d), v <= w,
         \A i \in 1..Len(c) : d[i] = c[i]
  PROVE  /\ SealHolds(s, c, v) => SealHolds(s, d, w)
<1> SUFFICES ASSUME SealHolds(s, c, v) PROVE SealHolds(s, d, w)
  OBVIOUS
<1> DEFINE sealed == s.content.log
<1>1. /\ sealed \in Seq(Events) /\ s.count \in Nat /\ s.content.torn \in Nat \cup {Nothing}
  BY DEF Seals, SealsOver, Files, Hashes
<1>2. Len(sealed) \in Nat /\ \A i \in 1..Len(sealed) : sealed[i].hash \in Nat
  BY <1>1, HashesAreNumbers
<1>3. s.content.torn # Nothing => s.content.torn < w
  BY <1>1 DEF SealHolds
<1>4. \A i \in 1..Len(sealed) : sealed[i].hash < w
  <2>1. \A i \in 1..Len(sealed) : sealed[i].hash < v
    BY DEF SealHolds
  <2> HIDE DEF sealed
  <2> QED
    BY <1>2, <2>1
<1>5. s.count <= Len(d) /\ \A i \in 1..s.count : d[i] = sealed[i]
  BY <1>1, <1>2 DEF SealHolds
<1> QED
  BY <1>3, <1>4, <1>5 DEF SealHolds

LEMMA DraftStays ==
  ASSUME NEW s, NEW c, NEW d,
         Len(c) \in Nat, Len(d) \in Nat, Len(c) <= Len(d),
         \A i \in 1..Len(c) : d[i] = c[i], DraftHolds(s, c)
  PROVE  DraftHolds(s, d)
BY DEF DraftHolds

\* A seal of which it is known that the file does not end like it stays so.
LEMMA ComparedStays ==
  ASSUME Types, HashesAreDrawn, NEW s \in Seals, SealHolds(s, Committed, writes),
         Compared(s, file),
         \/ \E q \in Requests, now \in Times : Write(q, now)
         \/ RollBack \/ UNCHANGED file
  PROVE  Compared(s, file')
<1> DEFINE sealed == s.content.log
           next == s.count + 1
<1>1. /\ sealed \in Seq(Events) /\ s.count \in Nat /\ s.content.torn \in Nat \cup {Nothing}
      /\ file.log \in Seq(Events) /\ writes \in Nat
  <2>1. s.count \in Nat /\ s.content \in Files
    BY DEF Seals, SealsOver
  <2>2. file \in Files /\ writes \in Nat
    BY BoundAssumption DEF Types, TypeOK
  <2> QED
    BY <2>1, <2>2 DEF Files, Hashes
<1>2. \A i \in 1..Len(sealed) : sealed[i].hash \in Nat /\ sealed[i].hash < writes
  <2>1. \A i \in 1..Len(sealed) : sealed[i].hash \in Nat
    BY <1>1, HashesAreNumbers
  <2>2. \A i \in 1..Len(sealed) : sealed[i].hash < writes
    BY DEF SealHolds
  <2> QED
    BY <2>1, <2>2
<1>3. ASSUME NEW q \in Requests, NEW now \in Times, Write(q, now) PROVE Compared(s, file')
  <2> DEFINE e == NewEvent(q, now)
  <2>1. e.hash = writes
    BY DEF NewEvent
  <2>2. PICK whole \in BOOLEAN : file' \in AsWritten(e, whole)
    BY <1>3 DEF Write
  <2> HIDE DEF e
  <2>3. /\ file'.log = Append(file.log, e) \/ file'.log = file.log
        /\ file'.torn = writes \/ file'.torn = file.torn
    BY <2>1, <2>2 DEF AsWritten, log
  <2>4. s.content.torn # Nothing => file'.torn # s.content.torn
    BY <1>1, <2>3 DEF SealHolds, Compared
  <2>5. ASSUME next \in 1..Len(sealed), next \in 1..Len(file'.log)
        PROVE  file'.log[next].hash # sealed[next].hash
    <3>1. CASE file'.log = file.log
      BY <2>5, <3>1 DEF Compared
    <3>2. CASE file'.log = Append(file.log, e)
      <4>1. /\ Len(file.log) \in Nat /\ Len(file'.log) = Len(file.log) + 1
            /\ file'.log[Len(file.log) + 1] = e
            /\ \A i \in 1..Len(file.log) : file'.log[i] = file.log[i]
        BY <1>1, <3>2, OneLineMore DEF IsLines
      <4>2. CASE next \in 1..Len(file.log)
        BY <2>5, <4>1, <4>2 DEF Compared
      <4>3. CASE next = Len(file.log) + 1
        <5>1. file'.log[next] = e
          BY <4>1, <4>3
        <5>2. sealed[next].hash \in Nat /\ sealed[next].hash < writes
          BY <1>2, <2>5
        <5> HIDE DEF sealed, next
        <5> QED
          BY <1>1, <2>1, <5>1, <5>2
      <4> QED
        BY <2>5, <4>1, <4>2, <4>3
    <3> QED
      BY <2>3, <3>1, <3>2
  <2> QED
    BY <2>4, <2>5 DEF Compared
<1>4. ASSUME RollBack PROVE Compared(s, file')
  <2>1. inflight # Idle /\ file' = inflight.before
    BY <1>4 DEF RollBack, Unlocked
  <2>2. file'.torn = Nothing /\ Committed = file'.log
    BY <2>1 DEF HashesAreDrawn, Committed, Unlocked
  <2>3. \A i \in 1..Len(file'.log) : i \in 1..Len(file.log) /\ file.log[i] = file'.log[i]
    BY <2>2, CommittedInFile DEF Types
  <2> QED
    BY <2>2, <2>3 DEF Compared
<1>5. ASSUME UNCHANGED file PROVE Compared(s, file')
  BY <1>5
<1> QED
  BY <1>3, <1>4, <1>5

\* Every write draws a hash of its own.
LEMMA NextDrawn ==
  ASSUME Types, HashesAreDrawn, [Next]_vars
  PROVE  HashesAreDrawn' /\ writes \in Nat /\ writes' \in Nat /\ writes <= writes'
<1>1. writes \in Nat /\ file.log \in Seq(Events)
  BY BoundAssumption DEF Types, TypeOK, Files
<1>2. ASSUME NEW q \in Requests, NEW now \in Times, Write(q, now)
      PROVE  HashesAreDrawn' /\ writes' = writes + 1
  <2> DEFINE e == NewEvent(q, now)
  <2>1. e.hash = writes
    BY DEF NewEvent
  <2>2. PICK whole \in BOOLEAN :
          /\ inflight' = [pc |-> "written", before |-> file, whole |-> whole, event |-> e]
          /\ file' \in AsWritten(e, whole)
    BY <1>2 DEF Write
  <2>3. writes' = writes + 1 /\ file.torn = Nothing
    BY <1>2 DEF Write, Readable
  <2> HIDE DEF e
  <2>4. /\ file'.log = Append(file.log, e) \/ file'.log = file.log
        /\ file'.torn = writes \/ file'.torn = Nothing
    BY <2>1, <2>2, <2>3 DEF AsWritten, log
  <2>5. inflight'.before.torn = Nothing
    BY <2>2, <2>3
  <2>6. file'.torn # Nothing => file'.torn < writes'
    BY <1>1, <2>3, <2>4
  <2>7. \A i \in 1..Len(file.log) : file.log[i].hash \in Nat /\ file.log[i].hash < writes
    BY <1>1, HashesAreNumbers DEF HashesAreDrawn
  <2>8. /\ Len(file.log) \in Nat /\ Len(Append(file.log, e)) = Len(file.log) + 1
        /\ Append(file.log, e)[Len(file.log) + 1] = e
        /\ \A i \in 1..Len(file.log) : Append(file.log, e)[i] = file.log[i]
    BY <1>1, OneLineMore DEF IsLines
  <2>9. \A i \in 1..Len(file'.log) : file'.log[i].hash < writes'
    <3> SUFFICES ASSUME NEW i \in 1..Len(file'.log) PROVE file'.log[i].hash < writes'
      OBVIOUS
    <3>1. CASE i \in 1..Len(file.log)
      <4>1. file'.log[i] = file.log[i]
        BY <2>4, <2>8, <3>1
      <4> QED
        BY <1>1, <2>3, <2>7, <3>1, <4>1
    <3>2. CASE i \notin 1..Len(file.log)
      <4>1. file'.log[i] = e
        BY <2>4, <2>8, <3>2
      <4> QED
        BY <1>1, <2>1, <2>3, <4>1
    <3> QED
      BY <3>1, <3>2
  <2> QED
    BY <2>3, <2>5, <2>6, <2>9 DEF HashesAreDrawn
<1>3. ASSUME RollBack PROVE HashesAreDrawn' /\ writes' = writes
  <2>1. inflight # Idle /\ file' = inflight.before /\ inflight' = Idle /\ writes' = writes
    BY <1>3 DEF RollBack, Unlocked
  <2>2. file'.torn = Nothing /\ Committed = file'.log
    BY <2>1 DEF HashesAreDrawn, Committed, Unlocked
  <2>3. \A i \in 1..Len(file'.log) : i \in 1..Len(file.log) /\ file.log[i] = file'.log[i]
    BY <2>2, CommittedInFile DEF Types
  <2> QED
    BY <2>1, <2>2, <2>3 DEF HashesAreDrawn
<1>4. ASSUME Acknowledge \/ LeaveBehind PROVE HashesAreDrawn' /\ writes' = writes
  BY <1>4 DEF Acknowledge, LeaveBehind, HashesAreDrawn
<1>5. ASSUME UNCHANGED <<file, inflight, writes>> PROVE HashesAreDrawn' /\ writes' = writes
  BY <1>5 DEF HashesAreDrawn
<1>6. \/ \E q \in Requests, now \in Times : Write(q, now)
      \/ RollBack \/ Acknowledge \/ LeaveBehind \/ UNCHANGED <<file, inflight, writes>>
  BY Zenon DEF Next, vars, SealVerify, SealRead, SealHash, SealOpen, SealWrite, SealStop,
     CheckLog, CheckSeal, CheckRead, CheckHash, CheckStop
<1>7. HashesAreDrawn' /\ (writes' = writes + 1 \/ writes' = writes)
  BY <1>2, <1>3, <1>4, <1>5, <1>6, Zenon
<1> QED
  BY <1>1, <1>7

\* No step takes from a seal what is known of it.
LEMMA SealsStay ==
  ASSUME Types, Types', HashesAreDrawn, [Next]_vars
  PROVE  /\ \A s : DraftHolds(s, Committed) => DraftHolds(s, Committed')
         /\ \A s \in Seals :
              SealHolds(s, Committed, writes) =>
                /\ SealHolds(s, Committed', writes')
                /\ Compared(s, file) => Compared(s, file')
<1>1. /\ Len(Committed) \in Nat /\ Len(Committed') \in Nat
      /\ Len(Committed) <= Len(Committed')
      /\ \A i \in 1..Len(Committed) : Committed'[i] = Committed[i]
  <2>1. Grows
    BY NextGrows DEF Types
  <2>2. IsLines(Committed) /\ Len(Committed) \in Nat
    BY CommittedInFile DEF Types
  <2>3. IsLines(Committed')
    BY CommittedAreLines DEF Types, IInv, InFlight, IsFile, Committed, Unlocked, log
  <2>4. Len(Committed') \in Nat
    BY <2>3 DEF IsLines
  <2> QED
    BY <2>1, <2>2, <2>4, GrowsPointwise DEF Types
<1>2. writes \in Nat /\ writes' \in Nat /\ writes <= writes'
  BY NextDrawn
<1>3. \/ \E q \in Requests, now \in Times : Write(q, now)
      \/ RollBack \/ UNCHANGED file
  BY Zenon DEF Next, vars, Acknowledge, LeaveBehind, SealVerify, SealRead, SealHash, SealOpen,
     SealWrite, SealStop, CheckLog, CheckSeal, CheckRead, CheckHash, CheckStop
<1>4. \A s : DraftHolds(s, Committed) => DraftHolds(s, Committed')
  BY <1>1, DraftStays
<1>5. ASSUME NEW s \in Seals, SealHolds(s, Committed, writes)
      PROVE  /\ SealHolds(s, Committed', writes')
             /\ Compared(s, file) => Compared(s, file')
  <2>1. SealHolds(s, Committed', writes')
    BY <1>1, <1>2, <1>5, SealStays
  <2>2. Compared(s, file) => Compared(s, file')
    BY <1>3, <1>5, ComparedStays
  <2> QED
    BY <2>1, <2>2
<1> QED
  BY <1>4, <1>5

\* seal reads the committed events, then hashes the bytes: what is committed then
\* stands in them, behind it at most what is cut back later.
LEMMA SealerHolds ==
  ASSUME Types, Types', HashesAreDrawn, SealsHold,
         \/ \E ledger \in Ledgers : SealVerify(ledger)
         \/ \E now \in Times : SealRead(now)
         \/ SealHash \/ SealOpen \/ SealWrite \/ SealStop
  PROVE  SealsHold'
<1>1. /\ UNCHANGED <<file, inflight, writes, verifier>>
      /\ Committed' = Committed
  BY DEF SealVerify, SealRead, SealHash, SealOpen, SealWrite, SealStop, Committed, Unlocked, log
<1>2. ASSUME sealer'.pc \notin {"read", "hashed", "open"}, UNCHANGED sealFile PROVE SealsHold'
  BY <1>1, <1>2 DEF SealsHold
<1>3. CASE SealStop \/ \E ledger \in Ledgers : SealVerify(ledger)
  BY <1>2, <1>3 DEF SealVerify, SealStop, Idle
<1>4. ASSUME NEW now \in Times, SealRead(now) PROVE SealsHold'
  <2> DEFINE s == [ledger |-> sealer.ledger, count |-> Len(log), first |-> log[1].hash,
                   last |-> log[Len(log)].hash, recorded |-> log[Len(log)].recorded,
                   content |-> Nothing]
  <2>1. Committed = log /\ log # <<>> /\ log \in Seq(Events)
    BY <1>4 DEF SealRead, Types, TypeOK, Files, SealerReady, Committed, Unlocked, log
  <2>2. Len(log) \in 1..Len(log)
    BY <2>1
  <2>3. DraftHolds(s, Committed)
    BY <2>1, <2>2 DEF DraftHolds
  <2>4. sealer' = [pc |-> "read", seal |-> s] /\ UNCHANGED sealFile
    BY <1>4 DEF SealRead
  <2> HIDE DEF s
  <2>5. sealer'.pc = "read" /\ sealer'.seal = s
    BY <2>4
  <2> QED
    BY <1>1, <2>3, <2>4, <2>5 DEF SealsHold
<1>5. CASE SealHash
  <2> DEFINE s == sealer.seal
             t == [s EXCEPT !.content = file]
  <2>1. s \in SealsOver({Nothing}) /\ DraftHolds(s, Committed)
    <3>1. sealer.pc = "read"
      BY <1>5 DEF SealHash
    <3>2. sealer \in [pc : {"read"}, seal : SealsOver({Nothing})]
      BY <3>1 DEF Types, TypeOK, Idle
    <3> QED
      BY <3>1, <3>2 DEF SealsHold
  <2>2. sealer' = [pc |-> "hashed", seal |-> t] /\ UNCHANGED sealFile
    BY <1>5 DEF SealHash
  <2>3. t.count = s.count /\ t.first = s.first /\ t.last = s.last /\ t.content = file
    BY <2>1 DEF SealsOver
  <2> HIDE DEF s, t
  <2>4. SealHolds(t, Committed, writes)
    <3>1. /\ s.count \in 1..Len(file.log) /\ s.count <= Len(Committed)
          /\ file.log[1].hash = s.first /\ file.log[s.count].hash = s.last
          /\ \A i \in 1..s.count : Committed[i] = file.log[i]
      <4>1. s.count \in 1..Len(Committed) /\ 1 \in 1..Len(Committed)
        BY <2>1, CommittedInFile DEF DraftHolds, Types
      <4>2. \A i \in 1..s.count : i \in 1..Len(Committed)
        BY <4>1, CommittedInFile DEF Types
      <4> QED
        BY <2>1, <4>1, <4>2, CommittedInFile DEF DraftHolds, Types
    <3> QED
      BY <2>3, <3>1 DEF SealHolds, HashesAreDrawn
  <2>5. sealer'.pc = "hashed" /\ sealer'.seal = t
    BY <2>2
  <2> QED
    BY <1>1, <2>2, <2>4, <2>5 DEF SealsHold
<1>6. CASE SealOpen
  <2>1. sealer.pc = "hashed"
    BY <1>6 DEF SealOpen
  <2>2. sealer \in [pc : {"hashed", "open"}, seal : Seals]
    BY <2>1 DEF Types, TypeOK, Idle
  <2>3. sealer'.pc = "open" /\ sealer'.seal = sealer.seal /\ sealFile'.pc = "torn"
    BY <1>6, <2>2 DEF SealOpen, Torn
  <2> QED
    BY <1>1, <2>1, <2>3 DEF SealsHold
<1>7. CASE SealWrite
  <2>1. sealer.pc = "open" /\ sealer'.pc = "idle" /\ sealFile'.seal = sealer.seal
    BY <1>7 DEF SealWrite, Idle
  <2> QED
    BY <1>1, <2>1 DEF SealsHold
<1> QED
  BY <1>3, <1>4, <1>5, <1>6, <1>7

\* verify_seal compares the seal with the committed events, then with the bytes:
\* when both agree, nothing stood behind the events that were sealed.
LEMMA VerifierHolds ==
  ASSUME Types, SealsHold,
         \/ \E ledger \in Ledgers : CheckLog(ledger)
         \/ CheckSeal \/ CheckRead \/ CheckHash \/ CheckStop
  PROVE  SealsHold'
<1>1. /\ UNCHANGED <<file, inflight, writes, sealFile, sealer>>
      /\ Committed' = Committed
  BY DEF CheckLog, CheckSeal, CheckRead, CheckHash, CheckStop, Committed, Unlocked, log
<1>2. CASE CheckStop \/ \E ledger \in Ledgers : CheckLog(ledger)
  <2>1. verifier'.pc \in {"idle", "checked"}
    BY <1>2 DEF CheckLog, CheckStop, Idle
  <2> QED
    BY <1>1, <2>1 DEF SealsHold
<1>3. CASE CheckSeal
  <2>1. verifier'.pc = "opened" /\ verifier'.seal = sealFile.seal /\ sealFile.pc = "sealed"
    BY <1>3 DEF CheckSeal
  <2> QED
    BY <1>1, <2>1 DEF SealsHold
<1>4. ASSUME verifier.pc \in {"opened", "read"}
      PROVE  /\ verifier \in [pc : {"opened", "read", "accepted"}, ledger : Ledgers, seal : Seals]
             /\ verifier.seal \in Seals /\ SealHolds(verifier.seal, Committed, writes)
  <2>1. verifier \in [pc : {"opened", "read", "accepted"}, ledger : Ledgers, seal : Seals]
    BY <1>4 DEF Types, TypeOK, Idle
  <2> QED
    BY <1>4, <2>1 DEF SealsHold
<1>5. CASE CheckRead
  <2>1. verifier'.pc = "read" /\ verifier'.seal = verifier.seal
    BY <1>4, <1>5 DEF CheckRead
  <2>2. Compared(verifier.seal, file)
    <3>1. verifier.seal.count = Len(file.log) /\ file.torn = Nothing
      BY <1>5 DEF CheckRead, Readable, log
    <3>2. Len(file.log) \in Nat
      BY CommittedInFile DEF Types
    <3> QED
      BY <3>1, <3>2 DEF Compared
  <2> QED
    BY <1>1, <1>4, <1>5, <2>1, <2>2 DEF SealsHold, CheckRead
<1>6. CASE CheckHash
  <2> DEFINE s == verifier.seal
  <2>1. verifier'.pc = "accepted" /\ verifier'.seal = s /\ s.content = file
    BY <1>4, <1>6 DEF CheckHash
  <2>2. SealHolds(s, Committed, writes) /\ Compared(s, file) /\ s \in Seals
    BY <1>4, <1>6 DEF SealsHold, CheckHash
  <2>3. Len(file.log) \in Nat /\ s.count \in Nat
    BY <2>2, CommittedInFile DEF Types, Seals, SealsOver
  <2> HIDE DEF s
  <2>4. s.count = Len(file.log) /\ file.torn = Nothing
    BY <2>1, <2>2, <2>3 DEF SealHolds, Compared
  <2>5. Exact(s)
    BY <2>1, <2>4 DEF Exact
  <2> QED
    BY <1>1, <2>1, <2>2, <2>5 DEF SealsHold
<1> QED
  BY <1>2, <1>3, <1>5, <1>6

LEMMA InitSeals == Init => HashesAreDrawn /\ SealsHold
BY DEF Init, HashesAreDrawn, SealsHold, Idle, Missing

LEMMA NextSeals ==
  ASSUME Types, Types', HashesAreDrawn, SealsHold, [Next]_vars
  PROVE  HashesAreDrawn' /\ SealsHold'
<1>1. HashesAreDrawn'
  BY NextDrawn
<1>2. CASE UNCHANGED <<sealFile, sealer, verifier>>
  <2>1. sealFile.pc = "sealed" => sealFile.seal \in Seals
    BY DEF Types, TypeOK, SealFiles, Torn, Missing
  <2>2. sealer.pc \in {"hashed", "open"} => sealer.seal \in Seals
    BY DEF Types, TypeOK, Idle
  <2>3. verifier.pc \in {"opened", "read", "accepted"} => verifier.seal \in Seals
    BY DEF Types, TypeOK, Idle
  <2>4. /\ sealer.pc = "read" => DraftHolds(sealer.seal, Committed')
        /\ sealer.pc \in {"hashed", "open"} => SealHolds(sealer.seal, Committed', writes')
        /\ sealFile.pc = "sealed" => SealHolds(sealFile.seal, Committed', writes')
        /\ verifier.pc \in {"opened", "read", "accepted"} => SealHolds(verifier.seal, Committed', writes')
        /\ verifier.pc = "read" => Compared(verifier.seal, file')
    BY <2>1, <2>2, <2>3, SealsStay, Zenon DEF SealsHold
  <2>5. sealFile' = sealFile /\ sealer' = sealer /\ verifier' = verifier
    BY <1>2
  <2>6. verifier.pc = "accepted" => Exact(verifier.seal)
    BY DEF SealsHold
  <2> QED
    BY <1>1, <2>4, <2>5, <2>6 DEF SealsHold
<1>3. CASE \/ \E ledger \in Ledgers : SealVerify(ledger)
           \/ \E now \in Times : SealRead(now)
           \/ SealHash \/ SealOpen \/ SealWrite \/ SealStop
  BY <1>1, <1>3, SealerHolds, Zenon
<1>4. CASE \/ \E ledger \in Ledgers : CheckLog(ledger)
           \/ CheckSeal \/ CheckRead \/ CheckHash \/ CheckStop
  BY <1>1, <1>4, VerifierHolds, Zenon
<1>5. \/ UNCHANGED <<sealFile, sealer, verifier>>
      \/ \E ledger \in Ledgers : SealVerify(ledger)
      \/ \E now \in Times : SealRead(now)
      \/ SealHash \/ SealOpen \/ SealWrite \/ SealStop
      \/ \E ledger \in Ledgers : CheckLog(ledger)
      \/ CheckSeal \/ CheckRead \/ CheckHash \/ CheckStop
  BY Zenon DEF Next, vars, Write, Acknowledge, RollBack, LeaveBehind
<1> QED
  BY <1>1, <1>2, <1>3, <1>4, <1>5

\* A seal that verify_seal accepts is of the committed events and of exactly the
\* bytes that hold them (ledger.py), although both read and hash in unlocked steps
\* between which appends write and are cut back.
THEOREM AcceptedSeals == Spec => []AcceptedSealIsTrue
<1>1. Types /\ SealsHold => AcceptedSealIsTrue
  <2> SUFFICES ASSUME Types, SealsHold, verifier.pc = "accepted"
               PROVE  /\ verifier.seal.content.torn = Nothing
                      /\ Len(verifier.seal.content.log) = verifier.seal.count
                      /\ verifier.seal.content.log[1].hash = verifier.seal.first
                      /\ verifier.seal.content.log[Len(verifier.seal.content.log)].hash
                           = verifier.seal.last
                      /\ IsPrefix(verifier.seal.content.log, Committed)
    BY DEF AcceptedSealIsTrue
  <2> DEFINE s == verifier.seal
             sealed == s.content.log
  <2>1. SealHolds(s, Committed, writes) /\ Exact(s)
    BY DEF SealsHold
  <2>2. s \in Seals
    BY DEF Types, TypeOK, Idle
  <2>3. sealed \in Seq(Events)
    BY <2>2 DEF Seals, SealsOver, Files
  <2>4. PICK S : Committed \in Seq(S)
    BY CommittedInFile DEF Types, IsLines
  <2>5. /\ s.count = Len(sealed) /\ Len(sealed) <= Len(Committed)
        /\ \A i \in 1..Len(sealed) : Committed[i] = sealed[i]
    BY <2>1 DEF SealHolds, Exact
  <2>6. IsPrefix(sealed, Committed)
    <3> HIDE DEF sealed
    <3>1. SubSeq(sealed, 1, Len(sealed)) = SubSeq(Committed, 1, Len(sealed))
      BY <2>3, <2>4, <2>5
    <3> QED
      BY <2>5, <3>1 DEF IsPrefix
  <2> QED
    BY <2>1, <2>6 DEF SealHolds, Exact
<1>2. Spec => []Types
  BY InitTypes, NextTypes, PTL DEF Spec
<1>3. Types /\ Types' /\ HashesAreDrawn /\ SealsHold /\ [Next]_vars
      => HashesAreDrawn' /\ SealsHold'
  BY NextSeals
<1> QED
  BY <1>1, <1>2, <1>3, InitSeals, PTL DEF Spec

=============================================================================
