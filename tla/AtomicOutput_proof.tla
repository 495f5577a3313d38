------------------------- MODULE AtomicOutput_proof -------------------------
(***************************************************************************)
(* Proofs about AtomicOutput, for any number of calls, files and mishaps.  *)
(* The invariant follows a call through run_atomic_output: until it has    *)
(* renamed it has published nothing, once it has it has published, and it  *)
(* cleans up after a rename only if it was interrupted there.              *)
(***************************************************************************)
EXTENDS AtomicOutput, TLAPS

Published(c) == \E d \in Directories : output[d].by = c

\* What a call has staged and published, by how far it is.
CallInv(c) ==
  /\ call[c].at \in {"idle", "entered", "raised"} => ~staged[c]
  /\ call[c].at = "commit" => call[c].written = NumFiles
  /\ call[c].at \in {"idle", "entered", "writing", "commit"} => ~Published(c)
  /\ call[c].at \in {"renamed", "returned"} => output[call[c].parent].by = c
  /\ call[c].at \in {"cleanup", "raised"} => (Published(c) => call[c].cut)

Whole == \A d \in Directories : output[d].by \in Calls => output[d].files = NumFiles

IInv ==
  /\ TypeOK
  /\ here <= mishaps + 1
  /\ Whole
  /\ \A c \in Calls : CallInv(c)

-----------------------------------------------------------------------------
\* A call that moves on changes nothing but where it is.
LEMMA GoesEffect ==
  ASSUME TypeOK, NEW c \in Calls, NEW to \in {"idle", "cleanup"} \cup InTry \cup Ended,
         Goes(c, to)
  PROVE  /\ call' \in [Calls -> CallStates]
         /\ call'[c].at = to
         /\ call'[c].parent = call[c].parent
         /\ call'[c].written = call[c].written
         /\ call'[c].cut = call[c].cut
         /\ \A e \in Calls \ {c} : call'[e] = call[e]
<1> DEFINE moved == [call[c] EXCEPT !.at = to]
<1>1. call \in [Calls -> CallStates]
  BY DEF TypeOK, CallStates
<1>2. call' = [call EXCEPT ![c] = moved]
  BY DEF Goes
<1>3. moved \in CallStates /\ moved.at = to /\ moved.parent = call[c].parent
      /\ moved.written = call[c].written /\ moved.cut = call[c].cut
  BY <1>1 DEF CallStates
<1> HIDE DEF moved
<1>4. QED
  BY <1>1, <1>2, <1>3

\* A call that another's step leaves where it was, with its entries.
LEMMA Untouched ==
  ASSUME TypeOK, NEW e \in Calls, CallInv(e),
         call'[e] = call[e], staged'[e] = staged[e],
         \A d \in Directories : output'[d].by = e <=> output[d].by = e
  PROVE  CallInv(e)'
<1>1. call[e].parent \in Directories
  BY DEF TypeOK, CallStates
<1>2. Published(e)' <=> Published(e)
  BY DEF Published
<1> QED
  BY <1>1, <1>2 DEF CallInv

\* A name that was free is given to one: nobody else's entries change.
LEMMA NewEntry ==
  ASSUME TypeOK, NEW p \in Directories, output[p] = Absent,
         NEW who, NEW n \in 0..NumFiles, Entry(who, n) \in Entries,
         output' = [output EXCEPT ![p] = Entry(who, n)]
  PROVE  /\ output' \in [Directories -> Entries]
         /\ output'[p] = Entry(who, n)
         /\ \A d \in Directories \ {p} : output'[d] = output[d]
         /\ \A e \in Calls \ {who}, d \in Directories :
              output'[d].by = e <=> output[d].by = e
<1>1. output \in [Directories -> Entries]
  BY DEF TypeOK
<1>2. /\ output' \in [Directories -> Entries]
      /\ output'[p] = Entry(who, n)
      /\ \A d \in Directories \ {p} : output'[d] = output[d]
  BY <1>1
<1>3. output[p].by \notin Calls /\ output'[p].by = who
  BY <1>2, CallsAssumption DEF Absent, Entry
<1> QED
  BY <1>2, <1>3

\* What a step of the call itself has to show beside the types.
LEMMA OwnStep ==
  ASSUME IInv, NEW c \in Calls, TypeOK', UNCHANGED <<here, output, mishaps>>,
         \A e \in Calls \ {c} : call'[e] = call[e] /\ staged'[e] = staged[e],
         CallInv(c)'
  PROVE  IInv'
<1>1. Whole'
  BY DEF IInv, Whole
<1>2. \A e \in Calls : CallInv(e)'
  <2> SUFFICES ASSUME NEW e \in Calls \ {c} PROVE CallInv(e)'
    OBVIOUS
  <2> QED
    BY Untouched DEF IInv
<1> QED
  BY <1>1, <1>2 DEF IInv

\* A mishap of one call, which changes no entry and no staging directory.
LEMMA MishapPreserves ==
  ASSUME IInv, Mishap, NEW c \in Calls, UNCHANGED <<here, output, staged>>,
         call' \in [Calls -> CallStates],
         \A e \in Calls \ {c} : call'[e] = call[e],
         CallInv(c)'
  PROVE  IInv'
<1>1. mishaps' \in 0..MaxMishaps /\ here' <= mishaps' + 1
  BY BoundsAssumption DEF IInv, TypeOK, Directories, Mishap
<1>2. TypeOK' /\ Whole'
  BY <1>1 DEF IInv, TypeOK, Whole
<1>3. ASSUME NEW e \in Calls \ {c} PROVE CallInv(e)'
  BY Untouched DEF IInv
<1> QED
  BY <1>1, <1>2, <1>3 DEF IInv

-----------------------------------------------------------------------------
LEMMA InitIInv == Init => IInv
<1> SUFFICES ASSUME Init PROVE IInv
  OBVIOUS
<1>1. 1 \in Directories /\ 0 \in 0..NumFiles /\ 0 \in 0..MaxMishaps
  BY BoundsAssumption DEF Directories
<1>2. TypeOK
  BY <1>1 DEF Init, TypeOK, Entries, CallStates, InTry, Ended
<1>3. \A d \in Directories : output[d].by \notin Calls
  BY CallsAssumption DEF Init, Absent
<1>4. \A c \in Calls : CallInv(c)
  BY <1>3 DEF Init, CallInv, Published
<1> QED
  BY <1>2, <1>3, <1>4 DEF Init, IInv, Whole

\* The call opens the parent and finds the name free or taken.
LEMMA EnterPreserves ==
  ASSUME IInv, NEW c \in Calls, Enter(c)
  PROVE  IInv'
<1> DEFINE to == IF output[here] = Absent THEN "entered" ELSE "raised"
           opened == [call[c] EXCEPT !.at = to]
           moved == [opened EXCEPT !.parent = here]
<1>1. call \in [Calls -> CallStates] /\ here \in Directories
  BY DEF IInv, TypeOK
<1>2. call' = [call EXCEPT ![c] = moved]
  BY DEF Enter
<1>3. opened \in CallStates /\ opened.at = to
  BY <1>1 DEF CallStates, InTry, Ended
<1> HIDE DEF opened
<1>4. moved \in CallStates /\ moved.at = to
  BY <1>1, <1>3 DEF CallStates
<1> HIDE DEF moved
<1>5. /\ call' \in [Calls -> CallStates] /\ call'[c].at = to
      /\ \A e \in Calls \ {c} : call'[e] = call[e]
  BY <1>1, <1>2, <1>4
<1>6. ~staged[c] /\ ~Published(c)
  BY DEF IInv, CallInv, Enter
<1>7. CallInv(c)'
  BY <1>5, <1>6 DEF Enter, CallInv, Published
<1>8. TypeOK'
  BY <1>5 DEF IInv, TypeOK, Enter
<1> HIDE DEF to
<1> QED
  BY <1>5, <1>7, <1>8, OwnStep DEF Enter

\* The staging directory is made, and the call goes on, cleans up or knows nothing.
LEMMA MakeStagingPreserves ==
  ASSUME IInv, NEW c \in Calls, MakeStaging(c)
  PROVE  IInv'
<1>1. TypeOK /\ staged \in [Calls -> BOOLEAN]
  BY DEF IInv, TypeOK
<1>2. ~staged[c] /\ ~Published(c)
  BY DEF IInv, CallInv, MakeStaging
<1>3. PICK to \in {"writing", "cleanup", "dirty", "raised"} :
         Goes(c, to) /\ (to = "raised" => UNCHANGED staged)
  BY DEF MakeStaging
<1>4. staged' \in [Calls -> BOOLEAN] /\ \A e \in Calls \ {c} : staged'[e] = staged[e]
  BY <1>1 DEF MakeStaging
<1>5. /\ call' \in [Calls -> CallStates] /\ call'[c].at = to
      /\ \A e \in Calls \ {c} : call'[e] = call[e]
  BY <1>1, <1>3, GoesEffect DEF InTry, Ended
<1>6. TypeOK'
  BY <1>1, <1>4, <1>5 DEF TypeOK, MakeStaging
<1>7. CallInv(c)'
  BY <1>2, <1>3, <1>5 DEF CallInv, Published, MakeStaging
<1> QED
  BY <1>4, <1>5, <1>6, <1>7, OwnStep DEF MakeStaging

\* One file more, or a failing worker.
LEMMA WriteFilePreserves ==
  ASSUME IInv, NEW c \in Calls, WriteFile(c)
  PROVE  IInv'
<1>1. TypeOK /\ ~Published(c)
  BY DEF IInv, CallInv, WriteFile
<1>2. CASE Goes(c, "cleanup")
  <2>1. /\ call' \in [Calls -> CallStates] /\ call'[c].at = "cleanup"
        /\ \A e \in Calls \ {c} : call'[e] = call[e]
    BY <1>1, <1>2, GoesEffect
  <2>2. TypeOK'
    BY <1>1, <2>1 DEF TypeOK, WriteFile
  <2>3. CallInv(c)'
    BY <1>1, <2>1 DEF CallInv, Published, WriteFile
  <2> QED
    BY <2>1, <2>2, <2>3, OwnStep DEF WriteFile
<1>3. CASE call' = [call EXCEPT ![c].written = @ + 1]
  <2> DEFINE more == [call[c] EXCEPT !.written = call[c].written + 1]
  <2>1. call \in [Calls -> CallStates] /\ call[c].written + 1 \in 0..NumFiles
    BY <1>1, BoundsAssumption DEF TypeOK, CallStates, WriteFile
  <2>2. call' = [call EXCEPT ![c] = more]
    BY <1>3
  <2>3. more \in CallStates /\ more.at = "writing"
    BY <2>1 DEF CallStates, WriteFile
  <2> HIDE DEF more
  <2>4. /\ call' \in [Calls -> CallStates] /\ call'[c].at = "writing"
        /\ \A e \in Calls \ {c} : call'[e] = call[e]
    BY <2>1, <2>2, <2>3
  <2>5. TypeOK'
    BY <1>1, <2>4 DEF TypeOK, WriteFile
  <2>6. CallInv(c)'
    BY <1>1, <2>4 DEF CallInv, Published, WriteFile
  <2> QED
    BY <2>4, <2>5, <2>6, OwnStep DEF WriteFile
<1> QED
  BY <1>2, <1>3 DEF WriteFile

\* All files are written: the call may commit.
LEMMA RecheckPreserves ==
  ASSUME IInv, NEW c \in Calls, Recheck(c)
  PROVE  IInv'
<1>1. TypeOK /\ ~Published(c) /\ call[c].written = NumFiles
  BY DEF IInv, CallInv, Recheck
<1>2. PICK to \in {"commit", "cleanup"} : Goes(c, to)
  BY DEF Recheck
<1>3. /\ call' \in [Calls -> CallStates] /\ call'[c].at = to
      /\ call'[c].written = call[c].written
      /\ \A e \in Calls \ {c} : call'[e] = call[e]
  BY <1>1, <1>2, GoesEffect DEF InTry
<1>4. TypeOK'
  BY <1>1, <1>3 DEF TypeOK, Recheck
<1>5. CallInv(c)'
  BY <1>1, <1>2, <1>3 DEF CallInv, Published, Recheck
<1> QED
  BY <1>3, <1>4, <1>5, OwnStep DEF Recheck

\* The rename gives a free name to a whole output, or fails.
LEMMA RenamePreserves ==
  ASSUME IInv, NEW c \in Calls, Rename(c)
  PROVE  IInv'
<1>1. TypeOK /\ ~Published(c) /\ call[c].written = NumFiles
  BY DEF IInv, CallInv, Rename
<1>2. CASE Goes(c, "cleanup") /\ UNCHANGED <<output, staged>>
  <2>1. /\ call' \in [Calls -> CallStates] /\ call'[c].at = "cleanup"
        /\ \A e \in Calls \ {c} : call'[e] = call[e]
    BY <1>1, <1>2, GoesEffect
  <2>2. TypeOK'
    BY <1>1, <1>2, <2>1 DEF TypeOK, Rename
  <2>3. CallInv(c)'
    BY <1>1, <1>2, <2>1 DEF CallInv, Published
  <2> QED
    BY <1>2, <2>1, <2>2, <2>3, OwnStep DEF Rename
<1>3. CASE /\ RenameSucceeds(c)
           /\ output' = [output EXCEPT ![call[c].parent] = Entry(c, call[c].written)]
           /\ staged' = [staged EXCEPT ![c] = FALSE]
           /\ Goes(c, "renamed")
  <2> DEFINE p == call[c].parent
  <2>1. p \in Directories /\ output[p] = Absent /\ NumFiles \in 0..NumFiles
    BY <1>1, <1>3, BoundsAssumption DEF TypeOK, CallStates, RenameSucceeds, NameFree
  <2>2. Entry(c, NumFiles) \in Entries
    BY <2>1 DEF Entries
  <2>3. output' = [output EXCEPT ![p] = Entry(c, NumFiles)]
    BY <1>1, <1>3
  <2>4. /\ call' \in [Calls -> CallStates] /\ call'[c].at = "renamed" /\ call'[c].parent = p
        /\ \A e \in Calls \ {c} : call'[e] = call[e]
    BY <1>1, <1>3, GoesEffect DEF InTry
  <2> HIDE DEF p
  <2>5. /\ output' \in [Directories -> Entries]
        /\ output'[p] = Entry(c, NumFiles)
        /\ \A d \in Directories \ {p} : output'[d] = output[d]
        /\ \A e \in Calls \ {c}, d \in Directories :
             output'[d].by = e <=> output[d].by = e
    BY <1>1, <2>1, <2>2, <2>3, NewEntry
  <2>6. staged' \in [Calls -> BOOLEAN] /\ \A e \in Calls \ {c} : staged'[e] = staged[e]
    BY <1>1, <1>3 DEF TypeOK
  <2>7. TypeOK'
    BY <1>1, <2>4, <2>5, <2>6 DEF TypeOK, Rename
  <2>8. Whole'
    BY <2>5 DEF IInv, Whole, Entry
  <2>9. CallInv(c)'
    BY <2>4, <2>5 DEF CallInv, Entry
  <2>10. \A e \in Calls \ {c} : CallInv(e)'
    BY <1>1, <2>4, <2>5, <2>6, Untouched DEF IInv
  <2> QED
    BY <2>7, <2>8, <2>9, <2>10 DEF IInv, Rename
<1> QED
  BY <1>2, <1>3 DEF Rename

\* What was renamed is there when the call returns.
LEMMA ReturnPreserves ==
  ASSUME IInv, NEW c \in Calls, Return(c)
  PROVE  IInv'
<1>1. TypeOK /\ output[call[c].parent].by = c
  BY DEF IInv, CallInv, Return
<1>2. /\ call' \in [Calls -> CallStates] /\ call'[c].at = "returned"
      /\ call'[c].parent = call[c].parent
      /\ \A e \in Calls \ {c} : call'[e] = call[e]
  BY <1>1, GoesEffect DEF Return, Ended
<1>3. TypeOK'
  BY <1>1, <1>2 DEF TypeOK, Return
<1>4. CallInv(c)'
  BY <1>1, <1>2 DEF CallInv, Return
<1> QED
  BY <1>2, <1>3, <1>4, OwnStep DEF Return

\* The cleaning removes the staging directory or says that it could not.
LEMMA CleanUpPreserves ==
  ASSUME IInv, NEW c \in Calls, CleanUp(c)
  PROVE  IInv'
<1>1. TypeOK /\ (Published(c) => call[c].cut)
  BY DEF IInv, CallInv, CleanUp
<1>2. PICK to \in {"raised", "dirty"} : Goes(c, to) /\ (to = "raised" => ~staged'[c])
  BY <1>1 DEF CleanUp, InReach, TypeOK
<1>3. staged' \in [Calls -> BOOLEAN] /\ \A e \in Calls \ {c} : staged'[e] = staged[e]
  BY <1>1 DEF CleanUp, InReach, TypeOK
<1>4. /\ call' \in [Calls -> CallStates] /\ call'[c].at = to
      /\ call'[c].cut = call[c].cut
      /\ \A e \in Calls \ {c} : call'[e] = call[e]
  BY <1>1, <1>2, GoesEffect DEF Ended
<1>5. TypeOK'
  BY <1>1, <1>3, <1>4 DEF TypeOK, CleanUp
<1>6. CallInv(c)'
  BY <1>1, <1>2, <1>4 DEF CallInv, Published, CleanUp
<1> QED
  BY <1>3, <1>4, <1>5, <1>6, OwnStep DEF CleanUp

-----------------------------------------------------------------------------
\* An interrupt is remembered, and what it leaves is cleaned up.
LEMMA InterruptPreserves ==
  ASSUME IInv, NEW c \in Calls, Interrupt(c)
  PROVE  IInv'
<1> DEFINE caught == [call[c] EXCEPT !.at = "cleanup"]
           moved == [caught EXCEPT !.cut = TRUE]
<1>1. call \in [Calls -> CallStates]
  BY DEF IInv, TypeOK
<1>2. call' = [call EXCEPT ![c] = moved]
  BY DEF Interrupt
<1>3. caught \in CallStates /\ caught.at = "cleanup"
  BY <1>1 DEF CallStates
<1> HIDE DEF caught
<1>4. moved \in CallStates /\ moved.at = "cleanup" /\ moved.cut
  BY <1>3 DEF CallStates
<1> HIDE DEF moved
<1>5. /\ call' \in [Calls -> CallStates] /\ call'[c].at = "cleanup" /\ call'[c].cut
      /\ \A e \in Calls \ {c} : call'[e] = call[e]
  BY <1>1, <1>2, <1>4
<1>6. CallInv(c)'
  BY <1>5 DEF CallInv
<1> QED
  BY <1>5, <1>6, MishapPreserves DEF Interrupt

\* A process that has died makes no promise.
LEMMA DiePreserves ==
  ASSUME IInv, NEW c \in Calls, Die(c)
  PROVE  IInv'
<1>1. /\ call' \in [Calls -> CallStates] /\ call'[c].at = "dead"
      /\ \A e \in Calls \ {c} : call'[e] = call[e]
  BY GoesEffect DEF Die, Ended, IInv
<1>2. CallInv(c)'
  BY <1>1 DEF CallInv
<1> QED
  BY <1>1, <1>2, MishapPreserves DEF Die

\* The path leads to a new directory: nothing in the old one changes.
LEMMA MoveParentPreserves ==
  ASSUME IInv, MoveParent
  PROVE  IInv'
<1>1. here' \in Directories /\ here' <= mishaps' + 1 /\ mishaps' \in 0..MaxMishaps
  BY BoundsAssumption DEF IInv, TypeOK, Directories, MoveParent, Mishap
<1>2. TypeOK' /\ Whole'
  BY <1>1 DEF IInv, TypeOK, Whole, MoveParent
<1>3. ASSUME NEW e \in Calls PROVE CallInv(e)'
  BY Untouched DEF IInv, MoveParent
<1> QED
  BY <1>1, <1>2, <1>3 DEF IInv

\* A staging directory is lost: whoever raised has none, and has none now.
LEMMA RemoveStagingPreserves ==
  ASSUME IInv, NEW c \in Calls, RemoveStaging(c)
  PROVE  IInv'
<1>1. mishaps' \in 0..MaxMishaps /\ here' <= mishaps' + 1
  BY BoundsAssumption DEF IInv, TypeOK, Directories, RemoveStaging, Mishap
<1>2. staged' \in [Calls -> BOOLEAN] /\ \A e \in Calls : staged'[e] => staged[e]
  BY DEF IInv, TypeOK, RemoveStaging
<1>3. TypeOK' /\ Whole'
  BY <1>1, <1>2 DEF IInv, TypeOK, Whole, RemoveStaging
<1>4. ASSUME NEW e \in Calls PROVE CallInv(e)'
  BY <1>2 DEF IInv, CallInv, Published, RemoveStaging
<1> QED
  BY <1>1, <1>3, <1>4 DEF IInv

\* An outsider takes a name that was free.
LEMMA TakeNamePreserves ==
  ASSUME IInv, TakeName
  PROVE  IInv'
<1>1. mishaps' \in 0..MaxMishaps /\ here' <= mishaps' + 1
  BY BoundsAssumption DEF IInv, TypeOK, Directories, TakeName, Mishap
<1>2. Entry(Outsider, 0) \in Entries /\ 0 \in 0..NumFiles /\ here \in Directories
  BY BoundsAssumption DEF Entries, IInv, TypeOK
<1>3. /\ output' \in [Directories -> Entries]
      /\ output'[here] = Entry(Outsider, 0)
      /\ \A d \in Directories \ {here} : output'[d] = output[d]
      /\ \A e \in Calls \ {Outsider}, d \in Directories :
           output'[d].by = e <=> output[d].by = e
  BY <1>2, NewEntry DEF IInv, TakeName
<1>4. TypeOK'
  BY <1>1, <1>3 DEF IInv, TypeOK, TakeName
<1>5. Whole'
  BY <1>3, CallsAssumption DEF IInv, Whole, Entry
<1>6. ASSUME NEW e \in Calls PROVE CallInv(e)'
  BY <1>3, CallsAssumption, Untouched DEF IInv, TakeName
<1> QED
  BY <1>1, <1>4, <1>5, <1>6 DEF IInv

-----------------------------------------------------------------------------
LEMMA NextIInv == IInv /\ [Next]_vars => IInv'
<1> SUFFICES ASSUME IInv, [Next]_vars PROVE IInv'
  OBVIOUS
<1>1. ASSUME NEW c \in Calls, Enter(c) PROVE IInv'
  BY <1>1, EnterPreserves
<1>2. ASSUME NEW c \in Calls, Step(c) PROVE IInv'
  BY <1>2, MakeStagingPreserves, WriteFilePreserves, RecheckPreserves,
     RenamePreserves, ReturnPreserves, CleanUpPreserves DEF Step
<1>3. CASE Disturb
  BY <1>3, InterruptPreserves, DiePreserves, RemoveStagingPreserves,
     MoveParentPreserves, TakeNamePreserves DEF Disturb
<1>4. CASE UNCHANGED vars
  <2>1. TypeOK' /\ Whole' /\ here' <= mishaps' + 1
    BY <1>4 DEF vars, IInv, TypeOK, Whole
  <2>2. ASSUME NEW e \in Calls PROVE CallInv(e)'
    BY <1>4, Untouched DEF vars, IInv
  <2> QED
    BY <2>1, <2>2 DEF IInv
<1> HIDE DEF IInv
<1> QED
  BY <1>1, <1>2, <1>3, <1>4 DEF Next

\* In every reachable state each call of run_atomic_output has staged and
\* published what its place in the code says, and nothing more.
THEOREM Invariance == Spec => []IInv
BY InitIInv, NextIInv, PTL DEF Spec

\* The variables keep their types.
THEOREM TypeCorrectness == Spec => []TypeOK
<1>1. IInv => TypeOK
  BY DEF IInv
<1> QED
  BY <1>1, Invariance, PTL

\* A call that returned has published; one that raised has left no staging
\* directory and has published only if it was interrupted.
THEOREM TrueAnswers == Spec => []AnswersAreTrue
<1>1. IInv => AnswersAreTrue
  BY DEF IInv, CallInv, Published, AnswersAreTrue
<1> QED
  BY <1>1, Invariance, PTL

\* Nothing that holds the name is replaced, and a call puts only whole outputs
\* there, for any number of calls, outsiders and moved parents.
THEOREM FinalOutput == Spec => PublishedIsFinal
<1> DEFINE Final == \A d \in Directories :
              /\ output[d] # Absent => output'[d] = output[d]
              /\ output'[d].by \in Calls => output'[d].files = NumFiles
<1>1. ASSUME IInv, IInv', [Next]_vars PROVE [Final]_vars
  <2>1. \A d \in Directories : output'[d].by \in Calls => output'[d].files = NumFiles
    BY <1>1 DEF IInv, Whole
  <2>2. ASSUME NEW c \in Calls, Rename(c)
        PROVE  \A d \in Directories : output[d] # Absent => output'[d] = output[d]
    BY <2>2, <1>1 DEF Rename, RenameSucceeds, NameFree, IInv, TypeOK, CallStates
  <2>3. ASSUME TakeName
        PROVE  \A d \in Directories : output[d] # Absent => output'[d] = output[d]
    BY <2>3, <1>1 DEF TakeName, IInv, TypeOK
  <2>4. ASSUME UNCHANGED output
        PROVE  \A d \in Directories : output[d] # Absent => output'[d] = output[d]
    BY <2>4
  <2>5. \/ \E c \in Calls : Rename(c)
        \/ TakeName
        \/ UNCHANGED output
    BY <1>1 DEF Next, Step, Disturb, vars, Enter, MakeStaging, WriteFile, Recheck,
                Return, CleanUp, Interrupt, Die, MoveParent, RemoveStaging
  <2> QED
    BY <2>1, <2>2, <2>3, <2>4, <2>5
<1> QED
  BY <1>1, Invariance, PTL DEF Spec, PublishedIsFinal

=============================================================================
