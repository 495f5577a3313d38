--------------------------- MODULE ForecastLedger ---------------------------
(***************************************************************************)
(* The hash-chained forecast ledger of ledger.py: append, verify, seal and *)
(* verify_seal over one JSONL file.  Appends and reads of the events take  *)
(* an exclusive lock; the bytes of the file are hashed, and the seal file  *)
(* is read and written, without it.                                        *)
(*                                                                         *)
(* Payloads, artifact hashes and the times of issue and effect are checked *)
(* on one request or event alone: they are valid and not modelled.  A hash *)
(* covers its whole event with the chain before it, so a number that is    *)
(* new for every write stands for it.  The bytes of the file are its lines *)
(* and what makes it unreadable, which torn names by its write: a part of  *)
(* a line, or a line that was written behind one without a newline.  Such  *)
(* a line, which reads well as long as it is the last, is open.  The wall  *)
(* clock may be set back, so each reading of it is any time.               *)
(***************************************************************************)
EXTENDS Integers, Sequences, SequencesExt, FiniteSets

CONSTANTS Ledgers, Claims,
          Nothing,   \* no seal, no hash, no torn line
          MaxTime,   \* bound: readings of the clock
          MaxWrites  \* bound: events written

ASSUME NothingAssumption == Nothing \notin Nat
ASSUME LedgersAssumption == Ledgers # {}
ASSUME BoundAssumption == MaxTime \in Nat /\ MaxWrites \in Nat

VARIABLES
  file,      \* the ledger file
  inflight,  \* the append that has written and still holds the lock
  acked,     \* history: the events that append returned
  writes,    \* the number of event hashes drawn
  sealFile,
  sealer,    \* the seal under way
  verifier   \* the verify_seal under way

vars == <<file, inflight, acked, writes, sealFile, sealer, verifier>>

Origins == {"CREATE", "IMPORTED"}
Later == {"AMEND", "WITHDRAW", "EXPIRE"}
Forecasts == {"CREATE", "AMEND"}
Modes == {"REAL", "SYNTHETIC", "NONE"}  \* NONE: the event is no forecast
Times == 0 .. MaxTime
Hashes == Nat \cup {Nothing}

\* The arguments of append.
Requests == {q \in [ledger : Ledgers, type : Origins \cup Later, claim : Claims, mode : Modes] :
               (q.mode = "NONE") <=> (q.type \notin Forecasts)}

Events == [ledger : Ledgers, type : Origins \cup Later, claim : Claims, mode : Modes,
           recorded : Nat, seq : Nat, revision : Nat, hash : Nat, prev : Hashes,
           supersedes : Hashes]

Files == [log : Seq(Events), open : BOOLEAN, torn : Hashes]
SealsOver(contents) == [ledger : Ledgers, count : Nat, first : Hashes, last : Hashes,
                        recorded : Nat, content : contents]
Seals == SealsOver(Files)

Idle == [pc |-> "idle"]
Torn == [pc |-> "torn"]       \* the seal file while write_text is at work
Missing == [pc |-> "missing"]  \* no seal file
SealFiles == {Torn, Missing} \cup [pc : {"sealed"}, seal : Seals]

TypeOK ==
  /\ file \in Files
  /\ \/ inflight = Idle
     \/ inflight \in [pc : {"written"}, before : Files, whole : BOOLEAN, event : Events]
  /\ acked \subseteq Events /\ writes \in 0 .. MaxWrites
  /\ sealFile \in SealFiles
  /\ \/ sealer = Idle \/ sealer \in [pc : {"verified"}, ledger : Ledgers]
     \/ sealer \in [pc : {"read"}, seal : SealsOver({Nothing})]
     \/ sealer \in [pc : {"hashed", "open"}, seal : Seals]
  /\ \/ verifier = Idle \/ verifier \in [pc : {"checked"}, ledger : Ledgers]
     \/ verifier \in [pc : {"opened", "read", "accepted"}, ledger : Ledgers, seal : Seals]

Init ==
  /\ file = [log |-> <<>>, open |-> FALSE, torn |-> Nothing] /\ inflight = Idle
  /\ acked = {} /\ writes = 0
  /\ sealFile = Missing /\ sealer = Idle /\ verifier = Idle

-----------------------------------------------------------------------------
(* append. *)

Unlocked == inflight = Idle
log == file.log

\* A line that is not JSON makes every read of the events fail.
Readable == file.torn = Nothing

\* The positions below i of the events of claim c.
PositionsOf(c, events, i) == {j \in DOMAIN events : j < i /\ events[j].claim = c}

\* The last of them.
LatestOf(c, events, i) ==
  LET prior == PositionsOf(c, events, i) IN
  events[CHOOSE j \in prior : \A k \in prior : k <= j]

HashBefore(events, i) == IF i = 1 THEN Nothing ELSE events[i - 1].hash

Superseded(c, events, i) ==
  IF PositionsOf(c, events, i) = {} THEN Nothing ELSE LatestOf(c, events, i).hash

\* Mutant: an amendment is compared with the requested mode only when the
\* latest event of the claim is a forecast.
AdmittedAfterWithdrawal(q, now) ==
  LET next == Len(log) + 1
      prior == PositionsOf(q.claim, log, next) IN
  /\ \A i \in DOMAIN log : log[i].ledger = q.ledger
  /\ q.type \in Origins => \A i \in prior : log[i].type \notin Origins
  /\ q.type \in Later => prior # {}
  /\ q.type = "AMEND" => LatestOf(q.claim, log, next).mode \in {q.mode, "NONE"}
  /\ log # <<>> => log[Len(log)].recorded <= now

\* Mutant: the clock is not compared with the last event's.
AdmittedAnyClock(q, now) ==
  LET next == Len(log) + 1
      prior == PositionsOf(q.claim, log, next) IN
  /\ \A i \in DOMAIN log : log[i].ledger = q.ledger
  /\ q.type \in Origins => \A i \in prior : log[i].type \notin Origins
  /\ q.type \in Later => prior # {}
  /\ q.type = "AMEND" => LatestOf(q.claim, log, next).mode = q.mode

\* The checks that append makes under the lock.
Admitted(q, now) ==
  LET next == Len(log) + 1
      prior == PositionsOf(q.claim, log, next) IN
  /\ \A i \in DOMAIN log : log[i].ledger = q.ledger
  /\ q.type \in Origins => \A i \in prior : log[i].type \notin Origins
  /\ q.type \in Later => prior # {}
  /\ q.type = "AMEND" => LatestOf(q.claim, log, next).mode = q.mode
  /\ log # <<>> => log[Len(log)].recorded <= now

NewEvent(q, now) ==
  LET next == Len(log) + 1 IN
  [ledger |-> q.ledger, type |-> q.type, claim |-> q.claim, mode |-> q.mode,
   recorded |-> now, seq |-> next,
   revision |-> Cardinality(PositionsOf(q.claim, log, next)) + 1, hash |-> writes,
   prev |-> HashBefore(log, next), supersedes |-> Superseded(q.claim, log, next)]

\* What one write of the event may leave at the end of the file: the line, the
\* line without its newline, or less.  Nothing ends an open line before.
AsWritten(e, whole) ==
  LET Line(open) == [log |-> Append(log, e), open |-> open,
                     torn |-> IF file.open THEN e.hash ELSE file.torn]
      part == [log |-> log, open |-> file.open, torn |-> e.hash]
  IN IF whole THEN {Line(FALSE)} ELSE {Line(TRUE), part}

Write(q, now) ==
  /\ Unlocked /\ Readable /\ Admitted(q, now) /\ writes < MaxWrites
  /\ writes' = writes + 1
  /\ \E whole \in BOOLEAN :
       /\ inflight' = [pc |-> "written", before |-> file, whole |-> whole,
                       event |-> NewEvent(q, now)]
       /\ file' \in AsWritten(NewEvent(q, now), whole)
  /\ UNCHANGED <<acked, sealFile, sealer, verifier>>

\* The write was whole and fsync succeeds: append returns the event.
Acknowledge ==
  /\ ~Unlocked /\ inflight.whole
  /\ acked' = acked \cup {inflight.event} /\ inflight' = Idle
  /\ UNCHANGED <<file, writes, sealFile, sealer, verifier>>

\* Mutant: the size to cut back to is one event too small.
RollBackTooFar ==
  /\ ~Unlocked
  /\ file' = [inflight.before EXCEPT !.log =
                IF @ = <<>> THEN @ ELSE SubSeq(@, 1, Len(@) - 1)]
  /\ inflight' = Idle
  /\ UNCHANGED <<acked, writes, sealFile, sealer, verifier>>

\* A short write or a failed fsync: append cuts the file back and raises.
RollBack ==
  /\ ~Unlocked
  /\ file' = inflight.before /\ inflight' = Idle
  /\ UNCHANGED <<acked, writes, sealFile, sealer, verifier>>

\* The process dies, or ftruncate fails: what is in the file stays there, and
\* the lock is free.
LeaveBehind ==
  /\ ~Unlocked /\ inflight' = Idle
  /\ UNCHANGED <<file, acked, writes, sealFile, sealer, verifier>>

-----------------------------------------------------------------------------
(* verify, seal and verify_seal. *)

\* The checks of verify on the event at i.
Consistent(events, i, ledger) ==
  LET e == events[i]
      prior == PositionsOf(e.claim, events, i) IN
  /\ e.ledger = ledger /\ e.seq = i /\ e.prev = HashBefore(events, i)
  /\ i > 1 => events[i - 1].recorded <= e.recorded
  /\ e.type \in Forecasts => e.mode # "NONE"
  /\ e.revision = Cardinality(prior) + 1
  /\ e.type \in Later => /\ prior # {}
                         /\ e.supersedes = LatestOf(e.claim, events, i).hash
  /\ e.type = "AMEND" /\ prior # {} => LatestOf(e.claim, events, i).mode = e.mode
  /\ e.type \in Origins => prior = {}

Verifies(events, ledger) == \A i \in DOMAIN events : Consistent(events, i, ledger)

\* verify returns PASS; a synthetic forecast or an empty ledger never does.
Passes(ledger) ==
  /\ Unlocked /\ Readable /\ log # <<>> /\ Verifies(log, ledger)
  /\ \A i \in DOMAIN log : log[i].mode # "SYNTHETIC"

SealVerify(ledger) ==
  /\ sealer = Idle /\ Passes(ledger)
  /\ sealer' = [pc |-> "verified", ledger |-> ledger]
  /\ UNCHANGED <<file, inflight, acked, writes, sealFile, verifier>>

\* A second locked read; the seal, made at now, must not predate the last event.
\* verify_seal repeats that comparison on values that the seal already fixes.
SealRead(now) ==
  /\ sealer.pc = "verified" /\ Unlocked /\ Readable
  /\ log[Len(log)].recorded <= now
  /\ sealer' = [pc |-> "read",
                seal |-> [ledger |-> sealer.ledger, count |-> Len(log),
                          first |-> log[1].hash, last |-> log[Len(log)].hash,
                          recorded |-> log[Len(log)].recorded,
                          content |-> Nothing]]
  /\ UNCHANGED <<file, inflight, acked, writes, sealFile, verifier>>

\* Mutant: the seal is written without the hash of the bytes.
SealUnhashed ==
  /\ sealer.pc = "read"
  /\ sealer' = [sealer EXCEPT !.pc = "hashed"]
  /\ UNCHANGED <<file, inflight, acked, writes, sealFile, verifier>>

\* The bytes are hashed without the lock.
SealHash ==
  /\ sealer.pc = "read"
  /\ sealer' = [pc |-> "hashed", seal |-> [sealer.seal EXCEPT !.content = file]]
  /\ UNCHANGED <<file, inflight, acked, writes, sealFile, verifier>>

\* write_text truncates the seal file, then fills it.
SealOpen ==
  /\ sealer.pc = "hashed"
  /\ sealer' = [sealer EXCEPT !.pc = "open"] /\ sealFile' = Torn
  /\ UNCHANGED <<file, inflight, acked, writes, verifier>>

SealWrite ==
  /\ sealer.pc = "open"
  /\ sealFile' = [pc |-> "sealed", seal |-> sealer.seal] /\ sealer' = Idle
  /\ UNCHANGED <<file, inflight, acked, writes, verifier>>

\* seal raises or its process dies; a truncated seal file stays.
SealStop ==
  /\ sealer # Idle /\ sealer' = Idle
  /\ UNCHANGED <<file, inflight, acked, writes, sealFile, verifier>>

CheckLog(ledger) ==
  /\ verifier = Idle /\ Passes(ledger)
  /\ verifier' = [pc |-> "checked", ledger |-> ledger]
  /\ UNCHANGED <<file, inflight, acked, writes, sealFile, sealer>>

\* A seal file that is missing or torn blocks.
CheckSeal ==
  /\ verifier.pc = "checked" /\ sealFile.pc = "sealed"
  /\ verifier' = [pc |-> "opened", ledger |-> verifier.ledger, seal |-> sealFile.seal]
  /\ UNCHANGED <<file, inflight, acked, writes, sealFile, sealer>>

\* Mutant: the event count is not compared.
CheckReadNoCount ==
  /\ verifier.pc = "opened" /\ Unlocked /\ Readable
  /\ verifier.seal.ledger = verifier.ledger
  /\ verifier' = [verifier EXCEPT !.pc = "read"]
  /\ UNCHANGED <<file, inflight, acked, writes, sealFile, sealer>>

\* The seal is compared with the events of one more locked read.
CheckRead ==
  /\ verifier.pc = "opened" /\ Unlocked /\ Readable
  /\ LET seal == verifier.seal IN
     /\ seal.ledger = verifier.ledger /\ seal.count = Len(log)
     /\ seal.first = log[1].hash /\ seal.last = log[Len(log)].hash
     /\ seal.recorded = log[Len(log)].recorded
  /\ verifier' = [verifier EXCEPT !.pc = "read"]
  /\ UNCHANGED <<file, inflight, acked, writes, sealFile, sealer>>

\* Mutant: the hash of the bytes is not compared.
CheckHashAny ==
  /\ verifier.pc = "read"
  /\ verifier' = [verifier EXCEPT !.pc = "accepted"]
  /\ UNCHANGED <<file, inflight, acked, writes, sealFile, sealer>>

\* The bytes are hashed without the lock; PASS.
CheckHash ==
  /\ verifier.pc = "read" /\ verifier.seal.content = file
  /\ verifier' = [verifier EXCEPT !.pc = "accepted"]
  /\ UNCHANGED <<file, inflight, acked, writes, sealFile, sealer>>

\* verify_seal returns, BLOCKED unless it accepted, or its process dies.
CheckStop ==
  /\ verifier # Idle /\ verifier' = Idle
  /\ UNCHANGED <<file, inflight, acked, writes, sealFile, sealer>>

-----------------------------------------------------------------------------

Next ==
  \/ \E q \in Requests, now \in Times : Write(q, now)
  \/ Acknowledge \/ RollBack \/ LeaveBehind
  \/ \E ledger \in Ledgers : SealVerify(ledger) \/ CheckLog(ledger)
  \/ \E now \in Times : SealRead(now)
  \/ SealHash \/ SealOpen \/ SealWrite \/ SealStop
  \/ CheckSeal \/ CheckRead \/ CheckHash \/ CheckStop

Spec == Init /\ [][Next]_vars

-----------------------------------------------------------------------------
(* Properties. *)

\* The events on which no append is still undecided.
Committed == IF Unlocked THEN log ELSE inflight.before.log

\* Whatever was appended, rolled back or left behind, and whatever the clock read
\* a ledger whose lines can be read passes every check of verify: append
\* (ledger.py) admits nothing that verify would later refuse.
LogVerifies == Unlocked /\ Readable => \E l \in Ledgers : Verifies(log, l)

\* A claim that was withdrawn, has expired or was imported is never amended
\* afterwards: it can only be withdrawn or expire.  append has no such check of
\* its own; it follows from the mode comparison.
WithdrawnIsFinal ==
  \A i \in DOMAIN log : \A j \in DOMAIN log :
    i < j /\ log[i].claim = log[j].claim /\ log[i].type \notin Forecasts
    => log[j].type \in {"WITHDRAW", "EXPIRE"}

\* The committed events only ever grow at their end, through every append that
\* fails, is cut back or is cut short by a death of its process (ledger.py): no
\* event is changed or taken, least of all one that append returned.  It stays in
\* the bytes: behind an open line it is acknowledged and cannot be read.
AcknowledgedStays ==
  [][/\ IsPrefix(Committed, Committed')
     /\ \A e \in acked' : e.seq <= Len(Committed') /\ Committed'[e.seq] = e]_vars

\* A seal that verify_seal accepts speaks of one state of the file, although
\* seal and verify_seal each read the events, and hash the bytes, in separate
\* unlocked steps with appends and roll-backs in between: count, first and last
\* hash are those of the sealed bytes, which still begin the ledger.
AcceptedSealIsTrue ==
  verifier.pc = "accepted" =>
    LET seal == verifier.seal
        sealed == seal.content.log IN
    /\ seal.content.torn = Nothing /\ Len(sealed) = seal.count
    /\ sealed[1].hash = seal.first /\ sealed[Len(sealed)].hash = seal.last
    /\ IsPrefix(sealed, Committed)

=============================================================================
