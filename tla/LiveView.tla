-------------------------------- MODULE LiveView --------------------------------
(***************************************************************************)
(* The live view of a project's logs.  What a process of the project       *)
(* prints, devenv writes to the log of the process and echoes in the       *)
(* project's merged log, where devenv's own lines appear too.  The view    *)
(* follows both and drops what it has shown from the other log.  It finds  *)
(* the process logs some time after it began, and reads them from there.   *)
(*                                                                         *)
(* process and merged are what the view has still to read.  Lines may      *)
(* reach either file late, so that one log can be read arbitrarily far     *)
(* ahead of the other; a poll of many lines is as many steps.              *)
(***************************************************************************)
EXTENDS Naturals, Sequences, SequencesExt

CONSTANTS
    Line,           \* the texts of lines
    Cap,            \* CROSS_DEDUP_CAP
    MaxLines        \* bound: how often a line is written

ASSUME LiveAssumption == Cap \in Nat /\ MaxLines \in Nat

VARIABLES
    attached,       \* the process logs were found (`mux`)
    process,        \* unread lines of the process logs
    merged,         \* unread lines of the merged log
    fromProcess,    \* CrossDeduper.from_process: RecentLines
    fromMerged,     \* CrossDeduper.from_merged
    (* history *)
    printed,        \* how often a process printed a line after the attachment
    said,           \* how often a line got into the merged log only
    processRead,    \* how often a line was read from the process logs
    mergedRead,     \* and from the merged log
    shown,          \* how often it was shown
    evicted         \* lines that were forgotten because of Cap

sourceVars == <<printed, said>>
vars == <<attached, process, merged, fromProcess, fromMerged, sourceVars,
          processRead, mergedRead, shown, evicted>>

-----------------------------------------------------------------------------
(* RecentLines *)

NoLines == [order |-> <<>>, set |-> {}]

(***************************************************************************)
(* A known line is not moved; at the limit the oldest line is forgotten.   *)
(***************************************************************************)
Insert(recent, l) ==
    IF l \in recent.set THEN recent
    ELSE LET order == Append(recent.order, l)
             set == recent.set \union {l}
         IN IF Len(order) <= Cap THEN [order |-> order, set |-> set]
            ELSE [order |-> Tail(order), set |-> set \ {Head(order)}]

Drop(recent, l) ==
    [order |-> RemoveAt(recent.order,
                        CHOOSE i \in DOMAIN recent.order : recent.order[i] = l),
     set |-> recent.set \ {l}]

Bump(counts, l) == [counts EXCEPT ![l] = @ + 1]

-----------------------------------------------------------------------------
Zero == [l \in Line |-> 0]

Init ==
    /\ attached = FALSE
    /\ process = <<>> /\ merged = <<>>
    /\ fromProcess = NoLines /\ fromMerged = NoLines
    /\ printed = Zero /\ said = Zero
    /\ processRead = Zero /\ mergedRead = Zero /\ shown = Zero
    /\ evicted = {}

\* Bounds the model: a line is written MaxLines times at most.
MayWrite(l) == printed[l] + said[l] < MaxLines

\* A process prints a line: into its log and into the merged one.
ProcessPrints(l) ==
    /\ MayWrite(l)
    /\ attached
    /\ process' = Append(process, l)
    /\ merged' = Append(merged, l)
    /\ printed' = Bump(printed, l)
    /\ UNCHANGED <<attached, fromProcess, fromMerged, said, processRead,
                   mergedRead, shown, evicted>>

\* devenv says something, or a process prints before its log was found.
DevenvSays(l) ==
    /\ MayWrite(l)
    /\ merged' = Append(merged, l)
    /\ said' = Bump(said, l)
    /\ UNCHANGED <<attached, process, fromProcess, fromMerged, printed,
                   processRead, mergedRead, shown, evicted>>

\* ProcessLogMux::refresh: the process logs are followed from their end.
Attach ==
    /\ ~attached
    /\ attached' = TRUE
    /\ UNCHANGED <<process, merged, fromProcess, fromMerged, sourceVars,
                   processRead, mergedRead, shown, evicted>>

\* Variant: the echo is dropped and remembered for good.
TakeProcessKeeps ==
    /\ process # <<>>
    /\ LET l == Head(process) IN
        /\ processRead' = Bump(processRead, l)
        /\ IF l \in fromMerged.set
           THEN UNCHANGED <<shown, fromProcess, evicted>>
           ELSE /\ shown' = Bump(shown, l)
                /\ fromProcess' = Insert(fromProcess, l)
                /\ evicted' = evicted \union
                     ((fromProcess.set \union {l}) \ fromProcess'.set)
    /\ process' = Tail(process)
    /\ UNCHANGED <<attached, merged, fromMerged, sourceVars, mergedRead>>

\* Variant: the other side is not asked.
TakeProcessBlind ==
    /\ process # <<>>
    /\ LET l == Head(process) IN
        /\ processRead' = Bump(processRead, l)
        /\ fromProcess' = Insert(fromProcess, l)
        /\ shown' = Bump(shown, l)
        /\ evicted' = evicted \union
             ((fromProcess.set \union {l}) \ fromProcess'.set)
    /\ process' = Tail(process)
    /\ UNCHANGED <<attached, merged, fromMerged, sourceVars, mergedRead>>

(***************************************************************************)
(* take_process of the next line of a process log.                         *)
(***************************************************************************)
TakeProcess ==
    /\ process # <<>>
    /\ LET l == Head(process) IN
        /\ processRead' = Bump(processRead, l)
        /\ \/ /\ l \in fromMerged.set
              /\ fromMerged' = Drop(fromMerged, l)
              /\ UNCHANGED <<fromProcess, shown, evicted>>
           \/ /\ l \notin fromMerged.set
              /\ fromProcess' = Insert(fromProcess, l)
              /\ shown' = Bump(shown, l)
              /\ evicted' = evicted \union
                   ((fromProcess.set \union {l}) \ fromProcess'.set)
              /\ UNCHANGED fromMerged
    /\ process' = Tail(process)
    /\ UNCHANGED <<attached, merged, sourceVars, mergedRead>>

(***************************************************************************)
(* take_merged of the next line of the merged log.                         *)
(***************************************************************************)
TakeMerged ==
    /\ merged # <<>>
    /\ LET l == Head(merged) IN
        /\ mergedRead' = Bump(mergedRead, l)
        /\ \/ /\ l \in fromProcess.set
              /\ fromProcess' = Drop(fromProcess, l)
              /\ UNCHANGED <<fromMerged, shown, evicted>>
           \/ /\ l \notin fromProcess.set
              /\ fromMerged' = Insert(fromMerged, l)
              /\ shown' = Bump(shown, l)
              /\ evicted' = evicted \union
                   ((fromMerged.set \union {l}) \ fromMerged'.set)
              /\ UNCHANGED fromProcess
    /\ merged' = Tail(merged)
    /\ UNCHANGED <<attached, process, sourceVars, processRead>>

Next ==
    \/ \E l \in Line : ProcessPrints(l) \/ DevenvSays(l)
    \/ Attach \/ TakeProcess \/ TakeMerged

Spec == Init /\ [][Next]_vars

-----------------------------------------------------------------------------
(* Properties *)

Recents == [order : Seq(Line), set : SUBSET Line]

TypeOK ==
    /\ attached \in BOOLEAN
    /\ process \in Seq(Line) /\ merged \in Seq(Line)
    /\ \A recent \in {fromProcess, fromMerged} :
         recent \in Recents /\ Len(recent.order) <= Cap
    /\ \A counts \in {printed, said, processRead, mergedRead, shown} :
         counts \in [Line -> Nat]
    /\ evicted \subseteq Line

(***************************************************************************)
(* The queue and the set of RecentLines agree after any mix of insertions, *)
(* removals and evictions: same lines, each of them once.                  *)
(***************************************************************************)
Agrees(recent) ==
    /\ recent.set = {recent.order[i] : i \in DOMAIN recent.order}
    /\ \A i, j \in DOMAIN recent.order : recent.order[i] = recent.order[j] => i = j

RecentsAgree == Agrees(fromProcess) /\ Agrees(fromMerged)

(***************************************************************************)
(* Nothing waits for its echo on both sides at once.                       *)
(***************************************************************************)
OneSideWaits == fromProcess.set \intersect fromMerged.set = {}

(***************************************************************************)
(* No line is swallowed: a line is shown at least as often as either log   *)
(* has it, whatever was repeated, mistaken for an echo or forgotten.       *)
(***************************************************************************)
NoLineLost ==
    \A l \in Line : shown[l] >= processRead[l] /\ shown[l] >= mergedRead[l]

(***************************************************************************)
(* A line that was written once is shown once, in whatever order the logs  *)
(* deliver it, as long as it was not forgotten.                            *)
(***************************************************************************)
EchoDropped ==
    \A l \in Line \ evicted : printed[l] + said[l] <= 1 => shown[l] <= 1
=============================================================================
