---------------------------- MODULE AtomicOutput ----------------------------
(***************************************************************************)
(* Calls of run_atomic_output (src/src/kubo/atomic_output.py) that publish *)
(* one output name.  A call opens the parent directory, writes into a      *)
(* hidden staging directory of its own, checks the parent, the staging     *)
(* directory and the name once more, and renames without overwriting.      *)
(* Every entry is looked up through the opened directory, but the worker   *)
(* writes by path.  Around the calls the parent may be moved away and made *)
(* anew, a staging directory removed, the name taken, a process killed.    *)
(***************************************************************************)
EXTENDS OutputEntries

VARIABLES
  here,      \* the directory that the path of the parent leads to
  output,    \* output[d]: what the output name holds in directory d
  staged,    \* staged[c]: the staging directory of c is in its parent
  call,      \* call[c]: how far c is, and the directory it has opened
  mishaps

vars == <<here, output, staged, call, mishaps>>

InTry == {"entered", "writing", "commit", "renamed"}
Ended == {"returned", "raised", "dirty", "dead"}
CallStates == [at : {"idle", "cleanup"} \cup InTry \cup Ended,
               parent : Directories, written : 0..NumFiles, cut : BOOLEAN]

TypeOK ==
  /\ here \in Directories
  /\ output \in [Directories -> Entries]
  /\ staged \in [Calls -> BOOLEAN]
  /\ call \in [Calls -> CallStates]
  /\ mishaps \in 0..MaxMishaps

Init ==
  /\ here = 1 /\ mishaps = 0
  /\ output = [d \in Directories |-> Absent]
  /\ staged = [c \in Calls |-> FALSE]
  /\ call = [c \in Calls |-> [at |-> "idle", parent |-> 1, written |-> 0, cut |-> FALSE]]

-----------------------------------------------------------------------------
Goes(c, to) == call' = [call EXCEPT ![c].at = to]

\* _recheck_parent and _require_target_absent.
Unmoved(c) == call[c].parent = here
NameFree(c) == output[call[c].parent] = Absent

\* The parent is opened; a name that is taken is refused before the worker runs.
Enter(c) ==
  /\ call[c].at = "idle"
  /\ call' = [call EXCEPT ![c].at = IF output[here] = Absent THEN "entered" ELSE "raised",
                          ![c].parent = here]
  /\ UNCHANGED <<here, output, staged, mishaps>>

\* What goes wrong between the mkdir and the return of the guard leaves a
\* directory that the call does not know of.
MakeStaging(c) ==
  /\ call[c].at = "entered"
  /\ \/ /\ staged' = [staged EXCEPT ![c] = TRUE]
        /\ \/ Goes(c, IF Unmoved(c) /\ NameFree(c) THEN "writing" ELSE "cleanup")
           \/ Goes(c, "dirty")
     \/ Goes(c, "raised") /\ UNCHANGED staged
  /\ UNCHANGED <<here, output, mishaps>>

\* The worker writes file after file below the path of the staging directory.
WriteFile(c) ==
  /\ call[c].at = "writing" /\ call[c].written < NumFiles
  /\ \/ /\ Unmoved(c) /\ staged[c]
        /\ call' = [call EXCEPT ![c].written = @ + 1]
     \/ Goes(c, "cleanup")
  /\ UNCHANGED <<here, output, staged, mishaps>>

Recheck(c) ==
  /\ call[c].at = "writing" /\ call[c].written = NumFiles
  /\ Goes(c, IF Unmoved(c) /\ staged[c] /\ NameFree(c) THEN "commit" ELSE "cleanup")
  /\ UNCHANGED <<here, output, staged, mishaps>>

\* Mutant: the rename replaces what is there.
RenameReplaces(c) == staged[c]

\* renameat2 with RENAME_NOREPLACE.
RenameSucceeds(c) == staged[c] /\ NameFree(c)

Rename(c) ==
  /\ call[c].at = "commit"
  /\ \/ /\ RenameSucceeds(c)
        /\ output' = [output EXCEPT ![call[c].parent] = Entry(c, call[c].written)]
        /\ staged' = [staged EXCEPT ![c] = FALSE]
        /\ Goes(c, "renamed")
     \/ Goes(c, "cleanup") /\ UNCHANGED <<output, staged>>
  /\ UNCHANGED <<here, mishaps>>

Return(c) ==
  /\ call[c].at = "renamed"
  /\ Goes(c, "returned")
  /\ UNCHANGED <<here, output, staged, mishaps>>

\* Mutant: the staging directory is looked for where the path leads.
InReachByPath(c) == staged[c] /\ Unmoved(c)

\* _cleanup_staging looks in the directory that was opened, wherever it is now.
InReach(c) == staged[c]

CleanUp(c) ==
  /\ call[c].at = "cleanup"
  /\ \/ Goes(c, "raised") /\ staged' = [staged EXCEPT ![c] = staged[c] /\ ~InReach(c)]
     \/ staged[c] /\ Goes(c, "dirty") /\ UNCHANGED staged
  /\ UNCHANGED <<here, output, mishaps>>

-----------------------------------------------------------------------------
Mishap == mishaps < MaxMishaps /\ mishaps' = mishaps + 1

\* A BaseException, even after the rename and before committed is set.
Interrupt(c) ==
  /\ call[c].at \in InTry /\ Mishap
  /\ call' = [call EXCEPT ![c].at = "cleanup", ![c].cut = TRUE]
  /\ UNCHANGED <<here, output, staged>>

Die(c) ==
  /\ call[c].at \in InTry \cup {"cleanup"} /\ Mishap
  /\ Goes(c, "dead")
  /\ UNCHANGED <<here, output, staged>>

MoveParent ==
  /\ Mishap /\ here' = here + 1
  /\ UNCHANGED <<output, staged, call>>

RemoveStaging(c) ==
  /\ staged[c] /\ Mishap
  /\ staged' = [staged EXCEPT ![c] = FALSE]
  /\ UNCHANGED <<here, output, call>>

TakeName ==
  /\ output[here] = Absent /\ Mishap
  /\ output' = [output EXCEPT ![here] = Entry(Outsider, 0)]
  /\ UNCHANGED <<here, staged, call>>

Step(c) ==
  \/ MakeStaging(c) \/ WriteFile(c) \/ Recheck(c) \/ Rename(c) \/ Return(c) \/ CleanUp(c)

Disturb ==
  \/ \E c \in Calls : Interrupt(c) \/ Die(c) \/ RemoveStaging(c)
  \/ MoveParent \/ TakeName

Next == (\E c \in Calls : Enter(c) \/ Step(c)) \/ Disturb

Spec == Init /\ [][Next]_vars

-----------------------------------------------------------------------------
\* What holds the name is never replaced, whoever made it and however two calls
\* and a moved parent meet, and what a call puts there is whole.
PublishedIsFinal ==
  [][\A d \in Directories :
       /\ output[d] # Absent => output'[d] = output[d]
       /\ output'[d].by \in Calls => output'[d].files = NumFiles]_vars

\* A call that returns has published; one that raises has left no staging
\* directory, not even in a parent that was moved away, and has published
\* nothing unless it was interrupted.  (A cleaning that fails is "dirty".)
AnswersAreTrue ==
  \A c \in Calls :
    LET published == \E d \in Directories : output[d].by = c IN
    /\ call[c].at = "returned" => output[call[c].parent].by = c
    /\ call[c].at = "raised" => ~staged[c] /\ (published => call[c].cut)

=============================================================================
