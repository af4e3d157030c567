----------------------------- MODULE PluginScan -----------------------------
(***************************************************************************)
(* Scanning plug-in modules, one after the other, each in a process of its *)
(* own (scanCandidate, runScanChild).  The child loads the module, whose   *)
(* code may crash it, stop it for ever or go wrong when the process ends;  *)
(* what it learned goes through a file whose name is the scanner's process *)
(* and the module's path, so that it is the same for every scan of the     *)
(* module and may be there from an earlier process.  Errors of removing    *)
(* that file are ignored, so it may also stay.                             *)
(***************************************************************************)
EXTENDS Naturals

CONSTANT MaxScans  \* bound: scans of the module

VARIABLES
    scanner,  \* at: idle, waiting for the child, reading its report; the scans so far
    child,    \* at: none, loading, reporting, ending, ended; what its inspection found
    report,   \* the file: by which scan, what it says, whether its status can be read
    record    \* the result of the last scan
\* What no guard reads: "by" in a report; "leftover", whether a file stayed that the last scan meant
\* to remove before it began; "reported", whether its child wrote; the report a record repeats.

vars == <<scanner, child, report, record>>

Verdicts == {"scanned", "notAPlugin", "loadFailed"}
NoReport == [there |-> FALSE, by |-> 0, status |-> "none", legible |-> FALSE]
Report(status, legible) == [there |-> TRUE, by |-> scanner.scans, status |-> status, legible |-> legible]
NoChild == [at |-> "none", found |-> "none", reported |-> FALSE]

\* A file of that name may be there, complete or not.
Init ==
    /\ scanner = [at |-> "idle", scans |-> 0, leftover |-> FALSE]
    /\ child = NoChild /\ record = [status |-> "none", report |-> NoReport]
    /\ report \in {NoReport} \cup [there : {TRUE}, by : {0}, status : Verdicts, legible : BOOLEAN]

-----------------------------------------------------------------------------
(* The scanner.                                                             *)

Finish(status, read) ==
    /\ record' = [status |-> status, report |-> read]
    /\ scanner' = [scanner EXCEPT !.at = "idle"]

\* Mistaken RemoveReport: what is there stays, removable or not.
RemoveReportLater(removable) == UNCHANGED report

\* The file may be another user's or open in another process; the error is ignored.
RemoveReport(removable) == report' = IF removable THEN NoReport ELSE report

Begin ==
    /\ scanner.at = "idle" /\ scanner.scans < MaxScans
    /\ \E removable \in BOOLEAN :
         LET scan(at) == [at |-> at, scans |-> scanner.scans + 1,
                          leftover |-> report.there /\ ~removable] IN
         /\ RemoveReport(removable)
         /\ \/ /\ child' = [NoChild EXCEPT !.at = "loading"] /\ scanner' = scan("waiting")
               /\ record' = [status |-> "none", report |-> NoReport]
            \/ \* no process can be made
               /\ child' = NoChild /\ scanner' = scan("idle")
               /\ record' = [status |-> "loadFailed", report |-> NoReport]

SeeEnd ==
    /\ scanner.at = "waiting" /\ child.at = "ended"
    /\ scanner' = [scanner EXCEPT !.at = "reading"]
    /\ UNCHANGED <<child, report, record>>

\* The time is up: the child is killed, whatever it is doing, and what it wrote removed, if it can be.
Expire ==
    /\ scanner.at = "waiting"
    /\ child' = [child EXCEPT !.at = "ended"]
    /\ \E removable \in BOOLEAN : RemoveReport(removable)
    /\ Finish("timedOut", NoReport)

\* No report: the child died before it could say anything.  A report without a status, or that
\* cannot be opened, counts as that, too; fields that are missing behind a status are empty.
ReadReport ==
    /\ scanner.at = "reading"
    /\ IF report.there /\ report.legible
       THEN Finish(report.status, report)
       ELSE Finish("crashed", NoReport)
    /\ \E removable \in BOOLEAN : RemoveReport(removable)
    /\ UNCHANGED child

-----------------------------------------------------------------------------
(* The child.                                                               *)

ChildDoes(from, to) ==
    child.at = from /\ child' = [child EXCEPT !.at = to] /\ UNCHANGED <<scanner, record>>

\* The executable cannot be run, or the module's code ends the process.
Die == \E at \in {"loading", "reporting", "ending"} : ChildDoes(at, "ended") /\ UNCHANGED report

\* Loaded or refused, with an entry point or without, and asked for its classes.
Inspect ==
    /\ child.at = "loading"
    /\ \E verdict \in Verdicts :
         child' = [child EXCEPT !.at = "reporting", !.found = verdict]
    /\ UNCHANGED <<scanner, record, report>>

\* The file cannot be opened; the child's exit code says so, and nobody looks at it.
FailToReport == ChildDoes("reporting", "ended") /\ UNCHANGED report

\* Written last, at once, over whatever was there; on a full disk the file is cut somewhere.
WriteReport ==
    /\ child.at = "reporting"
    /\ child' = [child EXCEPT !.at = "ending", !.reported = TRUE]
    /\ \E legible \in BOOLEAN : report' = Report(child.found, legible)
    /\ UNCHANGED <<scanner, record>>

End == ChildDoes("ending", "ended") /\ UNCHANGED report

Next ==
    \/ Begin \/ SeeEnd \/ Expire \/ ReadReport
    \/ Inspect \/ FailToReport \/ WriteReport \/ End \/ Die

Spec == Init /\ [][Next]_vars

-----------------------------------------------------------------------------

\* What a record says of a module is what the process that loaded this module in this scan had
\* found when its inspection was over - never the leftover of another scan, nor of a child whose
\* module killed it first, nor what a scan that was given up left behind - unless a file that was
\* to be removed before the scan could not be, and the child ended without writing its own: this
\* file is then believed.  No child outlives its scan, to write into the next one's file
\* (scanCandidate, runScanChild).
VerdictIsEarned ==
    /\ record.report.there =>
         IF child.reported
         THEN record.report.by = scanner.scans /\ record.status = child.found
         ELSE scanner.leftover
    /\ scanner.at = "idle" => child.at \in {"none", "ended"}
=============================================================================
