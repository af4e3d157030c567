-------------------------- MODULE AlgorithmsProofs --------------------------
(***************************************************************************)
(* Theorems about Algorithms, for every value of the constants: the        *)
(* plug-in scan, the MIDI buffers, the search for lost media and the       *)
(* compiler of render plans.  Each has an inductive invariant of its own,  *)
(* which speaks while it is the subject of the behaviour.  The compiler's  *)
(* is small; its theorem is about what it computes for every graph.        *)
(***************************************************************************)
EXTENDS Algorithms, SequenceTheorems, FiniteSetTheorems, WellFoundedInduction, TLAPS

-----------------------------------------------------------------------------
(* Numbers and sequences.                                                  *)

\* A set of numbers has a least element.
LEMMA Least ==
    ASSUME NEW T, T \subseteq Nat, T # {}
    PROVE  \E x \in T : \A y \in T : x <= y
<1> DEFINE R == OpToRel(<, Nat)
<1>1. IsWellFoundedOn(R, Nat)
  BY NatLessThanWellFounded
<1>2. \A x, y \in Nat : y < x => <<y, x>> \in R
  BY DEF OpToRel
<1> HIDE DEF R
<1>3. PICK x \in T : \A y \in T : ~ (<<y, x>> \in R)
  BY <1>1, WFMin
<1>4. \A y \in T : ~(y < x)
  BY <1>2, <1>3
<1> QED
  BY <1>4

\* A bounded set of numbers has a greatest element.
LEMMA Greatest ==
    ASSUME NEW S, S \subseteq Nat, S # {}, NEW n \in Nat, \A i \in S : i <= n
    PROVE  \E m \in S : \A i \in S : i <= m
<1> DEFINE T == {k \in Nat : \A i \in S : i <= k}
<1>1. T \subseteq Nat /\ T # {}
  OBVIOUS
<1>2. PICK m \in T : \A k \in T : m <= k
  BY <1>1, Least
<1>3. m \in S
  <2> SUFFICES ASSUME m \notin S
               PROVE  FALSE
    OBVIOUS
  <2>1. \A i \in S : i < m
    <3> TAKE i \in S
    <3>1. i <= m /\ i # m /\ i \in Nat /\ m \in Nat
      BY <1>2
    <3> QED
      BY <3>1
  <2>2. m # 0
    <3>1. PICK i \in S : i < m
      BY <2>1
    <3>2. i \in Nat
      OBVIOUS
    <3> QED
      BY <3>1, <3>2
  <2>3. m - 1 \in T
    <3>1. m - 1 \in Nat /\ \A i \in S : i <= m - 1
      BY <2>1, <2>2, <1>2
    <3> QED
      BY <3>1
  <2>4. m <= m - 1 /\ m \in Nat
    BY <1>2, <2>3
  <2> QED
    BY <2>4
<1>4. \A i \in S : i <= m
  BY <1>2
<1> QED
  BY <1>3, <1>4

\* What holds of 0 and of the successor of each number it holds of holds of every number.
LEMMA NatInd ==
    ASSUME NEW S, 0 \in S, \A n \in Nat : n \in S => n + 1 \in S
    PROVE  Nat \subseteq S
<1> SUFFICES ASSUME Nat \ S # {}
             PROVE  FALSE
  OBVIOUS
<1>1. PICK x \in Nat \ S : \A y \in Nat \ S : x <= y
  BY Least
<1>2. x # 0
  OBVIOUS
<1>3. x - 1 \in Nat /\ x - 1 < x /\ (x - 1) + 1 = x
  BY <1>2
<1>4. ~(x <= x - 1)
  BY <1>3
<1>5. x - 1 \in S
  BY <1>1, <1>3, <1>4
<1> QED
  BY <1>3, <1>5

\* What holds at first and carries over from each index to the next holds at all of them.
LEMMA Reached ==
    ASSUME NEW n \in Nat, NEW S, NEW f, f[0] \in S[0],
           \A i \in 1 .. n : f[i - 1] \in S[i - 1] => f[i] \in S[i]
    PROVE  \A i \in 0 .. n : f[i] \in S[i]
<1> DEFINE T == {k \in Nat : k <= n => f[k] \in S[k]}
<1>1. 0 \in T
  OBVIOUS
<1>2. ASSUME NEW k \in Nat, k \in T
      PROVE  k + 1 \in T
  <2> SUFFICES ASSUME k + 1 <= n
               PROVE  f[k + 1] \in S[k + 1]
    OBVIOUS
  <2>1. k <= n /\ k + 1 \in 1 .. n /\ (k + 1) - 1 = k
    OBVIOUS
  <2>2. f[k] \in S[k]
    BY <1>2, <2>1
  <2>3. f[(k + 1) - 1] \in S[(k + 1) - 1] => f[k + 1] \in S[k + 1]
    BY <2>1
  <2> QED
    BY <2>1, <2>2, <2>3
<1>3. Nat \subseteq T
  <2> HIDE DEF T
  <2> QED
    BY <1>1, <1>2, NatInd
<1> QED
  BY <1>3

\* A function that is defined by recursion over the first numbers exists: its value at 0 is
\* given, and the step to each index takes what may be at the one before to what may be there.
Recurs(g, n, S, first, step) ==
    /\ DOMAIN g = 0 .. n /\ g = [i \in 0 .. n |-> g[i]]
    /\ g[0] = first
    /\ \A i \in 1 .. n : g[i - 1] \in S[i - 1] /\ g[i] = step[i][g[i - 1]]

LEMMA Recursion ==
    ASSUME NEW n \in Nat, NEW S, NEW first \in S[0], NEW step,
           \A i \in 1 .. n : step[i] \in [S[i - 1] -> S[i]]
    PROVE  \E g : Recurs(g, n, S, first, step)
<1> DEFINE Upto(g, k) ==
             /\ DOMAIN g = 0 .. k /\ g = [i \in 0 .. k |-> g[i]]
             /\ g[0] = first /\ g[k] \in S[k]
             /\ \A i \in 1 .. k : g[i - 1] \in S[i - 1] /\ g[i] = step[i][g[i - 1]]
           T == {k \in Nat : k <= n => \E g : Upto(g, k)}
<1>1. 0 \in T
  <2> DEFINE g == [i \in 0 .. 0 |-> first]
  <2>1. Upto(g, 0)
    OBVIOUS
  <2> QED
    BY <2>1
<1>2. ASSUME NEW k \in Nat, k \in T
      PROVE  k + 1 \in T
  <2> SUFFICES ASSUME k + 1 <= n
               PROVE  \E g : Upto(g, k + 1)
    OBVIOUS
  <2>1. PICK g : Upto(g, k)
    BY <1>2
  <2>2. k + 1 \in 1 .. n /\ (k + 1) - 1 = k /\ k + 1 \in 0 .. k + 1 /\ 0 \in 0 .. k + 1
    OBVIOUS
  <2>3. step[k + 1] \in [S[k] -> S[k + 1]]
    <3>1. step[k + 1] \in [S[(k + 1) - 1] -> S[k + 1]]
      BY <2>2
    <3> QED
      BY <2>2, <3>1
  <2> DEFINE h == [i \in 0 .. k + 1 |-> IF i = k + 1 THEN step[k + 1][g[k]] ELSE g[i]]
  <2>4. h[k + 1] = step[k + 1][g[k]] /\ \A i \in 0 .. k : h[i] = g[i]
    <3>1. \A i \in 0 .. k : i \in 0 .. k + 1 /\ i # k + 1
      OBVIOUS
    <3> QED
      BY <2>2, <3>1
  <2>5. DOMAIN h = 0 .. k + 1 /\ h = [i \in 0 .. k + 1 |-> h[i]]
    OBVIOUS
  <2> HIDE DEF h
  <2>6. h[0] = first /\ h[k + 1] \in S[k + 1]
    <3>1. 0 \in 0 .. k
      OBVIOUS
    <3> QED
      BY <2>1, <2>3, <2>4, <3>1
  <2>7. ASSUME NEW i \in 1 .. k + 1
        PROVE  h[i - 1] \in S[i - 1] /\ h[i] = step[i][h[i - 1]]
    <3>1. CASE i = k + 1
      <4>1. i - 1 = k /\ k \in 0 .. k
        BY <3>1
      <4>2. h[k] = g[k] /\ g[k] \in S[k]
        BY <2>1, <2>4, <4>1
      <4> QED
        BY <2>4, <3>1, <4>1, <4>2
    <3>2. CASE i # k + 1
      <4>1. i \in 1 .. k /\ i \in 0 .. k /\ i - 1 \in 0 .. k
        BY <3>2
      <4>2. h[i] = g[i] /\ h[i - 1] = g[i - 1]
        BY <2>4, <4>1
      <4> QED
        BY <2>1, <4>1, <4>2
    <3> QED
      BY <3>1, <3>2
  <2>8. Upto(h, k + 1)
    BY <2>5, <2>6, <2>7
  <2> HIDE DEF Upto
  <2> QED
    BY <2>8
<1>3. Nat \subseteq T
  <2> HIDE DEF T
  <2> QED
    BY <1>1, <1>2, NatInd
<1>4. \E g : Upto(g, n)
  <2> HIDE DEF Upto
  <2> QED
    BY <1>3
<1>5. PICK g : Upto(g, n)
  BY <1>4
<1>6. Recurs(g, n, S, first, step)
  BY <1>5 DEF Recurs
<1> HIDE DEF Upto
<1> QED
  BY <1>6
-----------------------------------------------------------------------------
(* The plug-in scan.                                                       *)

Statuses == Scan!Verdicts \cup {"none", "crashed", "timedOut"}
Reports == [there : BOOLEAN, by : Nat, status : Scan!Verdicts \cup {"none"}, legible : BOOLEAN]

ScannerTypeOK ==
    scanner \in [at : {"idle", "waiting", "reading"}, scans : Nat, leftover : BOOLEAN]

ChildTypeOK ==
    child \in [at : {"none", "loading", "reporting", "ending", "ended"},
               found : Scan!Verdicts \cup {"none"}, reported : BOOLEAN]

ReportTypeOK == scanReport \in Reports
RecordTypeOK == record \in [status : Statuses, report : Reports]

ScanTypeOK == ScannerTypeOK /\ ChildTypeOK /\ ReportTypeOK /\ RecordTypeOK

\* Between two scans no child runs, and during one there is no result yet; a child that still
\* loads has not reported.
Phases ==
    /\ scanner.at = "idle" => child.at \in {"none", "ended"}
    /\ scanner.at = "waiting" => child.at # "none"
    /\ scanner.at = "reading" => child.at = "ended"
    /\ scanner.at # "idle" => ~record.report.there
    /\ child.at = "loading" => ~child.reported

\* A report that is there during a scan is of this scan's child, if it has written one, and
\* else a file that could not be removed.
ReportIsOwn ==
    scanner.at # "idle" /\ scanReport.there =>
        IF child.reported THEN scanReport.by = scanner.scans /\ scanReport.status = child.found
        ELSE scanner.leftover

ScanInv == ScanTypeOK /\ Phases /\ ReportIsOwn /\ Scan!VerdictIsEarned

LEMMA NoReportIsThere == Scan!NoReport \in Reports /\ ~Scan!NoReport.there
  BY DEF Reports, Scan!NoReport

LEMMA ScanInitInv == Scan!Init => ScanInv
  <1> SUFFICES ASSUME Scan!Init PROVE ScanInv
    OBVIOUS
  <1> USE DEF Scan!Init
  <1>1. ScanTypeOK
    <2>1. ScannerTypeOK /\ ChildTypeOK /\ RecordTypeOK
      BY NoReportIsThere DEF ScannerTypeOK, ChildTypeOK, RecordTypeOK, Statuses, Scan!NoChild
    <2>2. ReportTypeOK
      <3>1. CASE scanReport = Scan!NoReport
        BY <3>1, NoReportIsThere DEF ReportTypeOK
      <3>2. CASE scanReport \in [there : {TRUE}, by : {0}, status : Scan!Verdicts, legible : BOOLEAN]
        <4>1. PICK s \in Scan!Verdicts, l \in BOOLEAN :
                     scanReport = [there |-> TRUE, by |-> 0, status |-> s, legible |-> l]
          BY ONLY <3>2, Zenon
        <4> QED BY ONLY <4>1 DEF ReportTypeOK, Reports
      <3> QED BY <3>1, <3>2
    <2> QED BY <2>1, <2>2 DEF ScanTypeOK
  <1>2. scanner.at = "idle" /\ child.at = "none" /\ ~record.report.there
    BY NoReportIsThere DEF Scan!NoChild
  <1> QED BY <1>1, <1>2 DEF ScanInv, Phases, ReportIsOwn, Scan!VerdictIsEarned

\* Whether the file is removed or stays, there is no new one.
LEMMA RemoveReportKeeps ==
  ASSUME ReportTypeOK, NEW removable \in BOOLEAN, Scan!RemoveReport(removable)
  PROVE  /\ ReportTypeOK' /\ (scanReport'.there => scanReport' = scanReport /\ ~removable)
  BY NoReportIsThere DEF ReportTypeOK, Scan!RemoveReport

LEMMA BeginInv == ASSUME ScanInv, Scan!Begin PROVE ScanInv'
  <1>1. /\ ReportTypeOK /\ scanner.scans \in Nat /\ scanReport.there \in BOOLEAN
    BY DEF ScanInv, ScanTypeOK, ScannerTypeOK, ReportTypeOK, Reports
  <1> DEFINE scan(at, removable) == [at |-> at, scans |-> scanner.scans + 1,
                                     leftover |-> scanReport.there /\ ~removable]
  <1>2. PICK removable \in BOOLEAN :
          /\ Scan!RemoveReport(removable)
          /\ \/ /\ child' = [Scan!NoChild EXCEPT !.at = "loading"]
                /\ scanner' = scan("waiting", removable)
                /\ record' = [status |-> "none", report |-> Scan!NoReport]
             \/ /\ child' = Scan!NoChild /\ scanner' = scan("idle", removable)
                /\ record' = [status |-> "loadFailed", report |-> Scan!NoReport]
    BY DEF Scan!Begin
  <1>3. ReportTypeOK' /\ (scanReport'.there => scanReport.there /\ ~removable)
    BY <1>1, <1>2, RemoveReportKeeps
  <1>4. RecordTypeOK' /\ ~record'.report.there
    BY <1>2, NoReportIsThere DEF RecordTypeOK, Statuses, Scan!Verdicts
  <1>5. /\ ScannerTypeOK' /\ scanner'.at \in {"waiting", "idle"}
        /\ scanReport'.there => scanner'.leftover
    <2> DEFINE left == scanReport.there /\ ~removable
    <2>1. left \in BOOLEAN /\ (scanReport'.there => left)
      BY <1>3
    <2> HIDE DEF left
    <2>2. \/ scanner' = [at |-> "waiting", scans |-> scanner.scans + 1, leftover |-> left]
          \/ scanner' = [at |-> "idle", scans |-> scanner.scans + 1, leftover |-> left]
      BY <1>2 DEF left
    <2>3. scanner'.leftover = left /\ scanner'.at \in {"waiting", "idle"}
      BY <2>2
    <2>4. ScannerTypeOK'
      BY <1>1, <2>1, <2>2 DEF ScannerTypeOK
    <2> QED BY <2>1, <2>3, <2>4
  <1>6. /\ ChildTypeOK' /\ ~child'.reported
        /\ child'.at = IF scanner'.at = "waiting" THEN "loading" ELSE "none"
    <2>1. /\ child' = [at |-> child'.at, found |-> "none", reported |-> FALSE]
          /\ child'.at = IF scanner'.at = "waiting" THEN "loading" ELSE "none"
      BY <1>2 DEF Scan!NoChild
    <2>2. \/ child' = [at |-> "loading", found |-> "none", reported |-> FALSE]
          \/ child' = [at |-> "none", found |-> "none", reported |-> FALSE]
      BY <1>2 DEF Scan!NoChild
    <2>3. ChildTypeOK'
      <3> DEFINE ats == {"none", "loading", "reporting", "ending", "ended"}
                 founds == Scan!Verdicts \cup {"none"}
      <3>1. PICK at \in ats : child' = [at |-> at, found |-> "none", reported |-> FALSE]
        BY <2>2
      <3>2. "none" \in founds
        OBVIOUS
      <3> HIDE DEF founds, ats
      <3>3. child' \in [at : ats, found : founds, reported : BOOLEAN]
        BY <3>1, <3>2
      <3> QED BY <3>3 DEF ChildTypeOK, founds, ats
    <2>4. ~child'.reported
      BY <2>2
    <2> QED BY <2>1, <2>3, <2>4
  <1>7. Phases' /\ ReportIsOwn' /\ Scan!VerdictIsEarned'
    BY <1>4, <1>5, <1>6 DEF Phases, ReportIsOwn, Scan!VerdictIsEarned
  <1> QED BY <1>3, <1>4, <1>5, <1>6, <1>7 DEF ScanInv, ScanTypeOK

LEMMA SeeEndInv == ASSUME ScanInv, Scan!SeeEnd PROVE ScanInv'
  <1> USE DEF Scan!SeeEnd
  <1>1. /\ scanner'.at = "reading" /\ scanner'.scans = scanner.scans
        /\ scanner'.leftover = scanner.leftover /\ ScannerTypeOK'
    BY DEF ScanInv, ScanTypeOK, ScannerTypeOK
  <1>2. ScanTypeOK'
    BY <1>1 DEF ScanInv, ScanTypeOK, ChildTypeOK, ReportTypeOK, RecordTypeOK
  <1>3. Phases' /\ ReportIsOwn' /\ Scan!VerdictIsEarned'
    BY <1>1 DEF ScanInv, Phases, ReportIsOwn, Scan!VerdictIsEarned
  <1> QED BY <1>2, <1>3 DEF ScanInv

\* A scan that is given up leaves no process behind, and says nothing of the module.
LEMMA ExpireInv == ASSUME ScanInv, Scan!Expire PROVE ScanInv'
  <1> USE DEF Scan!Expire, Scan!Finish
  <1>1. scanner'.at = "idle" /\ ScannerTypeOK'
    BY DEF ScanInv, ScanTypeOK, ScannerTypeOK
  <1>2. child'.at = "ended" /\ ChildTypeOK'
    BY DEF ScanInv, ScanTypeOK, ChildTypeOK
  <1>3. ReportTypeOK'
    BY RemoveReportKeeps DEF ScanInv, ScanTypeOK
  <1>4. ~record'.report.there /\ RecordTypeOK'
    BY NoReportIsThere DEF RecordTypeOK, Statuses
  <1>5. Phases' /\ ReportIsOwn' /\ Scan!VerdictIsEarned'
    BY <1>1, <1>2, <1>4 DEF Phases, ReportIsOwn, Scan!VerdictIsEarned
  <1> QED BY <1>1, <1>2, <1>3, <1>4, <1>5 DEF ScanInv, ScanTypeOK

LEMMA ReadReportInv == ASSUME ScanInv, Scan!ReadReport PROVE ScanInv'
  <1> USE DEF Scan!ReadReport, Scan!Finish
  <1>1. child' = child /\ child.at = "ended" /\ ChildTypeOK'
    BY DEF ScanInv, ScanTypeOK, ChildTypeOK, Phases
  <1>2. /\ scanner'.at = "idle" /\ scanner'.scans = scanner.scans
        /\ scanner'.leftover = scanner.leftover /\ ScannerTypeOK'
    BY DEF ScanInv, ScanTypeOK, ScannerTypeOK
  <1>3. ReportTypeOK'
    BY RemoveReportKeeps DEF ScanInv, ScanTypeOK
  <1>4. Phases' /\ ReportIsOwn'
    BY <1>1, <1>2 DEF Phases, ReportIsOwn
  <1>5. CASE scanReport.there /\ scanReport.legible
    <2>1. record' = [status |-> scanReport.status, report |-> scanReport]
      BY <1>5
    <2>2. RecordTypeOK'
      BY <2>1 DEF ScanInv, ScanTypeOK, ReportTypeOK, RecordTypeOK, Reports, Statuses
    <2>3. record'.report = scanReport /\ record'.status = scanReport.status
      BY <2>1
    <2>4. Scan!VerdictIsEarned'
      BY <1>1, <1>2, <1>5, <2>3 DEF ScanInv, ReportIsOwn, Scan!VerdictIsEarned
    <2> QED BY <1>1, <1>2, <1>3, <1>4, <2>2, <2>4 DEF ScanInv, ScanTypeOK
  <1>6. CASE ~(scanReport.there /\ scanReport.legible)
    <2>1. record' = [status |-> "crashed", report |-> Scan!NoReport]
      BY <1>6
    <2>2. ~record'.report.there /\ RecordTypeOK'
      BY <2>1, NoReportIsThere DEF RecordTypeOK, Statuses
    <2>3. Scan!VerdictIsEarned'
      BY <1>1, <1>2, <2>2 DEF Scan!VerdictIsEarned
    <2> QED BY <1>1, <1>2, <1>3, <1>4, <2>2, <2>3 DEF ScanInv, ScanTypeOK
  <1> QED BY <1>5, <1>6

\* A child that ends, by itself or not, takes back nothing it reported.
LEMMA ChildEndsInv ==
  ASSUME ScanInv, child.at \in {"loading", "reporting", "ending"},
         child' = [child EXCEPT !.at = "ended"], UNCHANGED <<scanner, record, scanReport>>
  PROVE  ScanInv'
  <1>1. /\ child'.at = "ended" /\ child'.found = child.found
        /\ child'.reported = child.reported /\ ChildTypeOK'
    BY DEF ScanInv, ScanTypeOK, ChildTypeOK
  <1>2. ScanTypeOK'
    BY <1>1 DEF ScanInv, ScanTypeOK, ScannerTypeOK, ReportTypeOK, RecordTypeOK
  <1>3. Phases' /\ ReportIsOwn' /\ Scan!VerdictIsEarned'
    BY <1>1 DEF ScanInv, ScanTypeOK, ScannerTypeOK, Phases, ReportIsOwn, Scan!VerdictIsEarned
  <1> QED BY <1>2, <1>3 DEF ScanInv

LEMMA InspectInv == ASSUME ScanInv, Scan!Inspect PROVE ScanInv'
  <1> USE DEF Scan!Inspect
  <1>1. /\ child'.at = "reporting" /\ child'.reported = child.reported /\ ~child.reported
        /\ ChildTypeOK'
    BY DEF ScanInv, ScanTypeOK, ChildTypeOK, Phases
  <1>2. ScanTypeOK'
    BY <1>1 DEF ScanInv, ScanTypeOK, ScannerTypeOK, ReportTypeOK, RecordTypeOK
  <1>3. scanner.at = "waiting"
    BY DEF ScanInv, ScanTypeOK, ScannerTypeOK, Phases
  <1>4. Phases' /\ ReportIsOwn' /\ Scan!VerdictIsEarned'
    BY <1>1, <1>3 DEF ScanInv, Phases, ReportIsOwn, Scan!VerdictIsEarned
  <1> QED BY <1>2, <1>4 DEF ScanInv

LEMMA WriteReportInv == ASSUME ScanInv, Scan!WriteReport PROVE ScanInv'
  <1> USE DEF Scan!WriteReport
  <1>1. /\ child'.at = "ending" /\ child'.found = child.found /\ child'.reported
        /\ ChildTypeOK'
    BY DEF ScanInv, ScanTypeOK, ChildTypeOK
  <1>2. PICK legible \in BOOLEAN : scanReport' = Scan!Report(child.found, legible)
    OBVIOUS
  <1>3. scanReport'.by = scanner.scans /\ scanReport'.status = child.found
    BY <1>2 DEF Scan!Report
  <1>4. ReportTypeOK'
    BY <1>2 DEF Scan!Report, ScanInv, ScanTypeOK, ScannerTypeOK, ChildTypeOK, ReportTypeOK, Reports
  <1>5. ScanTypeOK'
    BY <1>1, <1>4 DEF ScanInv, ScanTypeOK, ScannerTypeOK, RecordTypeOK
  <1>6. scanner.at = "waiting"
    BY DEF ScanInv, ScanTypeOK, ScannerTypeOK, Phases
  <1>7. Phases' /\ ReportIsOwn' /\ Scan!VerdictIsEarned'
    BY <1>1, <1>3, <1>6 DEF ScanInv, Phases, ReportIsOwn, Scan!VerdictIsEarned
  <1> QED BY <1>5, <1>7 DEF ScanInv

LEMMA ScanNextInv == ASSUME ScanInv, Scan!Next PROVE ScanInv'
  <1>1. CASE Scan!Begin \/ Scan!SeeEnd \/ Scan!Expire \/ Scan!ReadReport
    BY <1>1, BeginInv, SeeEndInv, ExpireInv, ReadReportInv
  <1>2. CASE Scan!FailToReport \/ Scan!End \/ Scan!Die
    BY <1>2, ChildEndsInv DEF Scan!FailToReport, Scan!End, Scan!Die, Scan!ChildDoes
  <1>3. CASE Scan!Inspect \/ Scan!WriteReport
    BY <1>3, InspectInv, WriteReportInv
  <1> QED BY <1>1, <1>2, <1>3 DEF Scan!Next

LEMMA ScanStays == ASSUME ScanInv, UNCHANGED scanVars PROVE ScanInv'
  BY DEF scanVars, ScanInv, ScanTypeOK, ScannerTypeOK, ChildTypeOK, ReportTypeOK,
         RecordTypeOK, Phases, ReportIsOwn, Scan!VerdictIsEarned

\* However many scans there are, whatever file an earlier process left, and whenever removing it
\* fails: what a record says of the module is what this scan's child had found, or, if that child
\* did not report, what a file said that could not be removed; and no child outlives its scan.
THEOREM VerdictsAreEarned == Spec => []VerdictIsEarned
  <1> DEFINE I == subject = "scan" => ScanInv
  <1>1. Init => I
    BY ScanInitInv DEF Init
  <1>2. I /\ [Next]_vars => I'
    <2> SUFFICES ASSUME ScanInv, [Next]_vars, subject' = "scan", subject = "scan"
                 PROVE  ScanInv'
      BY DEF Next, vars
    <2>1. CASE Next
      BY <2>1, ScanNextInv DEF Next
    <2>2. CASE UNCHANGED vars
      BY <2>2, ScanStays DEF vars
    <2> QED BY <2>1, <2>2
  <1>3. I => VerdictIsEarned
    BY DEF ScanInv, VerdictIsEarned
  <1> QED BY <1>1, <1>2, <1>3, PTL DEF Spec
-----------------------------------------------------------------------------
(* The MIDI buffers.                                                       *)

Event == [at : Nat, size : Nat, id : Nat]
Entry == [at : Nat, order : Nat, from : Nat, size : Nat, id : Nat]
Buffer == [entries : Seq(Entry), used : Nat, next : Nat, dropped : Nat]

\* One entry is played before another.
Before(e, f) == Midi!StaysBehind(e, f, f.order)

InOrder(buffer) ==
    \A i, j \in DOMAIN buffer.entries :
      i < j => Before(buffer.entries[i], buffer.entries[j])

OrdersDiffer(buffer) ==
    \A i, j \in DOMAIN buffer.entries :
      i # j => buffer.entries[i].order # buffer.entries[j].order

Reserved(buffer) ==
    \A i \in DOMAIN buffer.entries :
      /\ buffer.entries[i].order < buffer.next
      /\ buffer.entries[i].from + buffer.entries[i].size <= buffer.used

\* Of two entries, the one that was inserted first has its bytes before the
\* other's and was offered before it, among the first n that were.
InsertedAsOffered(buffer, events, n) ==
    \A i, j \in DOMAIN buffer.entries :
      buffer.entries[i].order < buffer.entries[j].order =>
        /\ buffer.entries[i].from + buffer.entries[i].size <= buffer.entries[j].from
        /\ \E p, q \in 1 .. n :
             /\ p < q /\ events[p].id = buffer.entries[i].id
             /\ events[q].id = buffer.entries[j].id

\* Nothing is played that was not offered.
AllOffered(buffer, events, n) ==
    \A i \in DOMAIN buffer.entries :
      \E k \in 1 .. n : /\ events[k].id = buffer.entries[i].id
                        /\ events[k].at = buffer.entries[i].at
                        /\ events[k].size = buffer.entries[i].size

\* What is missing found no room, and would find none now.
MissingIfFull(buffer, events, n) ==
    \A k \in 1 .. n :
      (\A i \in DOMAIN buffer.entries : buffer.entries[i].id # events[k].id)
        => ~Midi!Fits(buffer, events[k])

\* A buffer after the first n events were offered to it.
HoldsFirst(buffer, events, n) ==
    /\ buffer \in Buffer
    /\ InOrder(buffer) /\ OrdersDiffer(buffer) /\ Reserved(buffer)
    /\ InsertedAsOffered(buffer, events, n)
    /\ AllOffered(buffer, events, n)
    /\ MissingIfFull(buffer, events, n)

MidiInv ==
    /\ made \in Nat
    /\ offered \in [Buffers -> Seq(Event)]
    /\ buffers \in [Buffers -> Buffer]
    /\ \A b \in Buffers : HoldsFirst(buffers[b], offered[b], Len(offered[b]))

\* A sequence with an element put in behind the first i.
PutIn(s, i, x) == SubSeq(s, 1, i) \o <<x>> \o SubSeq(s, i + 1, Len(s))

IsPutIn(t, s, i, x) ==
    /\ Len(t) = Len(s) + 1 /\ t[i + 1] = x
    /\ \A j \in 1 .. i : t[j] = s[j]
    /\ \A j \in i + 2 .. Len(s) + 1 : t[j] = s[j - 1]

LEMMA Inserted ==
    ASSUME NEW S, NEW s \in Seq(S), NEW i \in 0 .. Len(s), NEW x \in S
    PROVE  PutIn(s, i, x) \in Seq(S) /\ IsPutIn(PutIn(s, i, x), s, i, x)
<1> DEFINE t == PutIn(s, i, x)
           n == Len(s)
           u == SubSeq(s, 1, i)
           v == SubSeq(s, i + 1, n)
           w == u \o <<x>>
<1>1. n \in Nat /\ i \in Nat /\ i <= n /\ \A j \in 1 .. n : s[j] \in S
  BY LenProperties, ElementOfSeq
<1>2. u \in Seq(S) /\ Len(u) = i /\ \A j \in 1 .. i : u[j] = s[j]
  <2>1. \A j \in 1 .. i : s[j] \in S
    BY <1>1
  <2>2. /\ u \in Seq(S) /\ Len(u) = IF 1 <= i THEN i - 1 + 1 ELSE 0
        /\ \A j \in 1 .. i - 1 + 1 : u[j] = s[1 + j - 1]
    BY <1>1, <2>1, SubSeqProperties
  <2> HIDE DEF u
  <2>3. i - 1 + 1 = i /\ \A j \in 1 .. i : 1 + j - 1 = j
    BY <1>1
  <2> QED
    BY <1>1, <2>2, <2>3
<1>3. v \in Seq(S) /\ Len(v) = n - i /\ \A j \in 1 .. n - i : v[j] = s[i + j]
  <2>1. \A j \in i + 1 .. n : s[j] \in S
    BY <1>1
  <2>2. /\ v \in Seq(S) /\ Len(v) = IF i + 1 <= n THEN n - (i + 1) + 1 ELSE 0
        /\ \A j \in 1 .. n - (i + 1) + 1 : v[j] = s[(i + 1) + j - 1]
    BY <1>1, <2>1, SubSeqProperties
  <2> HIDE DEF v
  <2>3. /\ n - (i + 1) + 1 = n - i
        /\ (IF i + 1 <= n THEN n - (i + 1) + 1 ELSE 0) = n - i
        /\ \A j \in 1 .. n - i : (i + 1) + j - 1 = i + j
    BY <1>1
  <2>4. Len(v) = n - i /\ \A j \in 1 .. n - i : v[j] = s[(i + 1) + j - 1]
    BY ONLY <2>2, <2>3
  <2> QED
    BY ONLY <2>2, <2>3, <2>4
<1> HIDE DEF t, n, u, v
<1>4. <<x>> \in Seq(S) /\ Len(<<x>>) = 1 /\ <<x>>[1] = x
  OBVIOUS
<1>5. /\ w \in Seq(S) /\ Len(w) = i + 1
      /\ \A j \in 1 .. i + 1 : w[j] = IF j <= i THEN u[j] ELSE <<x>>[j - i]
  BY <1>1, <1>2, <1>4, ConcatProperties
<1> HIDE DEF w
<1>6. /\ t \in Seq(S) /\ Len(t) = (i + 1) + (n - i)
      /\ \A j \in 1 .. (i + 1) + (n - i) : t[j] = IF j <= i + 1 THEN w[j] ELSE v[j - (i + 1)]
  <2>1. t = w \o v
    BY DEF t, n, u, v, w, PutIn
  <2>2. /\ w \o v \in Seq(S) /\ Len(w \o v) = Len(w) + Len(v)
        /\ \A j \in 1 .. Len(w) + Len(v) :
             (w \o v)[j] = IF j <= Len(w) THEN w[j] ELSE v[j - Len(w)]
    BY <1>3, <1>5, ConcatProperties
  <2> QED
    BY <1>3, <1>5, <2>1, <2>2
<1>7. (i + 1) + (n - i) = n + 1
  BY <1>1
<1>8. t[i + 1] = x
  <2>1. i + 1 \in 1 .. n + 1 /\ i + 1 \in 1 .. i + 1 /\ ~(i + 1 <= i) /\ (i + 1) - i = 1 /\ i + 1 <= i + 1
    BY <1>1
  <2> QED
    BY <1>4, <1>5, <1>6, <1>7, <2>1
<1>9. ASSUME NEW j \in 1 .. i
      PROVE  t[j] = s[j]
  <2>1. j \in 1 .. n + 1 /\ j \in 1 .. i + 1 /\ j <= i /\ j <= i + 1
    BY <1>1
  <2> QED
    BY <1>2, <1>5, <1>6, <1>7, <2>1
<1>10. ASSUME NEW j \in i + 2 .. n + 1
       PROVE  t[j] = s[j - 1]
  <2>1. /\ j \in 1 .. n + 1 /\ ~(j <= i + 1) /\ j - (i + 1) \in 1 .. n - i
        /\ i + (j - (i + 1)) = j - 1
    BY <1>1
  <2> QED
    BY <1>3, <1>6, <1>7, <2>1
<1> QED
  BY <1>6, <1>7, <1>8, <1>9, <1>10 DEF n, t, IsPutIn

LEMMA BufferFields ==
    ASSUME NEW buffer \in Buffer
    PROVE  /\ buffer.entries \in Seq(Entry) /\ Len(buffer.entries) \in Nat
           /\ DOMAIN buffer.entries = 1 .. Len(buffer.entries)
           /\ \A i \in DOMAIN buffer.entries : buffer.entries[i] \in Entry
           /\ buffer.used \in Nat /\ buffer.next \in Nat /\ buffer.dropped \in Nat
<1>1. buffer.entries \in Seq(Entry) /\ buffer.used \in Nat /\ buffer.next \in Nat /\ buffer.dropped \in Nat
  BY DEF Buffer
<1> QED
  BY <1>1, LenProperties

LEMMA EntryFields ==
    ASSUME NEW e \in Entry
    PROVE  /\ e.at \in Nat /\ e.order \in Nat /\ e.from \in Nat /\ e.size \in Nat /\ e.id \in Nat
  BY DEF Entry

LEMMA EventFields ==
    ASSUME NEW event \in Event
    PROVE  event.at \in Nat /\ event.size \in Nat /\ event.id \in Nat
  BY DEF Event

\* A new event has its place behind all that are not later in the block.
LEMMA PlaceIs ==
    ASSUME NEW buffer \in Buffer, InOrder(buffer), Reserved(buffer), NEW event \in Event, NEW i,
           i = Midi!Place(buffer.entries, event, buffer.next)
    PROVE  /\ i \in 0 .. Len(buffer.entries)
           /\ \A j \in 1 .. i : buffer.entries[j].at <= event.at
           /\ \A j \in i + 1 .. Len(buffer.entries) : event.at < buffer.entries[j].at
<1> DEFINE s == buffer.entries
           n == Len(s)
           stays(j) == Midi!StaysBehind(s[j], event, buffer.next)
           P == {j \in 0 .. n : j = 0 \/ stays(j)}
<1>1. /\ n \in Nat /\ DOMAIN s = 1 .. n /\ event.at \in Nat
      /\ \A j \in 1 .. n : s[j].at \in Nat /\ s[j].order \in Nat /\ s[j].order < buffer.next
  BY BufferFields, EntryFields, EventFields DEF Reserved
<1>2. \A j \in 1 .. n : stays(j) <=> s[j].at <= event.at
  BY <1>1 DEF Midi!StaysBehind
<1>3. i = CHOOSE k \in 0 .. n :
            /\ k = 0 \/ stays(k)
            /\ \A j \in (k + 1) .. n : ~stays(j)
  BY DEF Midi!Place
<1>4. \A j, k \in 1 .. n : j < k => s[j].at <= s[k].at
  BY <1>1 DEF InOrder, Before, Midi!StaysBehind
<1> HIDE DEF stays, s, n
<1>5. \E k \in 0 .. n : /\ k = 0 \/ stays(k)
                        /\ \A j \in (k + 1) .. n : ~stays(j)
  <2>1. P \subseteq Nat /\ 0 \in P /\ \A j \in P : j <= n
    BY <1>1
  <2>2. PICK k \in P : \A j \in P : j <= k
    <3> HIDE DEF P
    <3>1. P # {}
      BY <2>1
    <3> QED
      BY <1>1, <2>1, <3>1, Greatest
  <2>3. ASSUME NEW j \in (k + 1) .. n, stays(j)
        PROVE  FALSE
    <3>1. j \in P
      BY <1>1, <2>3
    <3>2. j <= k
      BY <2>2, <3>1
    <3> QED
      BY <1>1, <3>2
  <2> QED
    BY <2>2, <2>3
<1>6. i \in 0 .. n /\ (i = 0 \/ stays(i)) /\ \A j \in (i + 1) .. n : ~stays(j)
  BY <1>3, <1>5
<1>7. ASSUME NEW j \in 1 .. i
      PROVE  s[j].at <= event.at
  <2>1. i \in 1 .. n /\ j \in 1 .. n /\ (j = i \/ j < i) /\ stays(i)
    BY <1>1, <1>6
  <2>2. s[j].at <= s[i].at /\ s[i].at <= event.at
    BY <1>1, <1>2, <1>4, <2>1
  <2> QED
    BY <1>1, <2>1, <2>2
<1>8. ASSUME NEW j \in i + 1 .. n
      PROVE  event.at < s[j].at
  <2>1. j \in 1 .. n /\ ~stays(j)
    BY <1>1, <1>6
  <2> QED
    BY <1>1, <1>2, <2>1
<1> QED
  BY <1>6, <1>7, <1>8 DEF s, n

\* The buffer when an event found room: the new entry, and where each other
\* one is now.
LEMMA WithEventIs ==
    ASSUME NEW buffer \in Buffer, InOrder(buffer), Reserved(buffer), NEW event \in Event,
           Midi!Fits(buffer, event)
    PROVE  LET n == Len(buffer.entries)
               after == Midi!WithEvent(buffer, event)
           IN  /\ after \in Buffer /\ Len(after.entries) = n + 1
               /\ after.used = buffer.used + event.size
               /\ after.next = buffer.next + 1
               /\ \E i \in 0 .. n :
                    /\ \A j \in 1 .. i : buffer.entries[j].at <= event.at
                    /\ \A j \in i + 1 .. n : event.at < buffer.entries[j].at
                    /\ after.entries[i + 1] =
                         [at |-> event.at, order |-> buffer.next, from |-> buffer.used,
                          size |-> event.size, id |-> event.id]
                    /\ \A j \in 1 .. i : after.entries[j] = buffer.entries[j]
                    /\ \A j \in i + 2 .. n + 1 : after.entries[j] = buffer.entries[j - 1]
<1> DEFINE s == buffer.entries
           n == Len(s)
           after == Midi!WithEvent(buffer, event)
           i == Midi!Place(s, event, buffer.next)
           entry == [at |-> event.at, order |-> buffer.next, from |-> buffer.used,
                     size |-> event.size, id |-> event.id]
           t == SubSeq(s, 1, i) \o <<entry>> \o SubSeq(s, i + 1, n)
<1>1. after = [entries |-> t, used |-> buffer.used + event.size, next |-> buffer.next + 1,
               dropped |-> buffer.dropped]
  BY DEF Midi!WithEvent
<1>2. /\ s \in Seq(Entry) /\ n \in Nat /\ buffer.used \in Nat /\ buffer.next \in Nat
      /\ buffer.dropped \in Nat
      /\ event.at \in Nat /\ event.size \in Nat /\ event.id \in Nat
  BY BufferFields, EventFields
<1>3. entry \in Entry
  BY <1>2 DEF Entry
<1>4. /\ i \in 0 .. n
      /\ \A j \in 1 .. i : s[j].at <= event.at
      /\ \A j \in i + 1 .. n : event.at < s[j].at
  BY PlaceIs
<1> HIDE DEF i, entry
<1>5. /\ t \in Seq(Entry) /\ Len(t) = n + 1 /\ t[i + 1] = entry
      /\ \A j \in 1 .. i : t[j] = s[j]
      /\ \A j \in i + 2 .. n + 1 : t[j] = s[j - 1]
  <2>1. t = PutIn(s, i, entry)
    BY DEF PutIn
  <2> HIDE DEF t, s, n
  <2>2. s \in Seq(Entry) /\ i \in 0 .. Len(s) /\ entry \in Entry /\ n = Len(s)
    BY <1>2, <1>3, <1>4 DEF n
  <2>3. /\ t \in Seq(Entry) /\ Len(t) = Len(s) + 1 /\ t[i + 1] = entry
        /\ \A j \in 1 .. i : t[j] = s[j]
        /\ \A j \in i + 2 .. Len(s) + 1 : t[j] = s[j - 1]
    <3>1. t \in Seq(Entry) /\ IsPutIn(t, s, i, entry)
      BY ONLY <2>1, <2>2, Inserted
    <3> QED
      BY ONLY <3>1 DEF IsPutIn
  <2> QED
    BY ONLY <2>2, <2>3
<1> HIDE DEF t, s, n
<1>6. /\ after.entries = t /\ after.used = buffer.used + event.size
      /\ after.next = buffer.next + 1 /\ after \in Buffer
  <2>1. /\ after.entries = t /\ after.used = buffer.used + event.size
        /\ after.next = buffer.next + 1 /\ after.dropped = buffer.dropped
    BY <1>1
  <2> QED
    BY <1>1, <1>2, <1>5 DEF Buffer
<1> HIDE DEF after
<1>7. /\ after \in Buffer /\ Len(after.entries) = n + 1
      /\ after.used = buffer.used + event.size
      /\ after.next = buffer.next + 1
      /\ \E k \in 0 .. n :
           /\ \A j \in 1 .. k : s[j].at <= event.at
           /\ \A j \in k + 1 .. n : event.at < s[j].at
           /\ after.entries[k + 1] = entry
           /\ \A j \in 1 .. k : after.entries[j] = s[j]
           /\ \A j \in k + 2 .. n + 1 : after.entries[j] = s[j - 1]
  <2>1. i \in 0 .. n
    BY <1>4
  <2>2. /\ \A j \in 1 .. i : s[j].at <= event.at
        /\ \A j \in i + 1 .. n : event.at < s[j].at
        /\ after.entries[i + 1] = entry
        /\ \A j \in 1 .. i : after.entries[j] = s[j]
        /\ \A j \in i + 2 .. n + 1 : after.entries[j] = s[j - 1]
    BY <1>4, <1>5, <1>6
  <2>3. Len(after.entries) = n + 1
    BY <1>5, <1>6
  <2> QED
    BY <1>6, <2>1, <2>2, <2>3
<1> QED
  BY <1>7 DEF after, s, n, entry

\* An event that finds no room leaves the entries as they are.
LEMMA NoRoom ==
    ASSUME NEW n \in Nat, NEW events, NEW buffer, HoldsFirst(buffer, events, n),
           NEW event \in Event, events[n + 1] = event, ~Midi!Fits(buffer, event)
    PROVE  HoldsFirst(Midi!WithEvent(buffer, event), events, n + 1)
<1> DEFINE after == Midi!WithEvent(buffer, event)
<1>1. buffer \in Buffer
  BY DEF HoldsFirst
<1>2. /\ after.entries = buffer.entries /\ after.used = buffer.used
      /\ after.next = buffer.next /\ after \in Buffer
  BY <1>1 DEF Midi!WithEvent, Buffer
<1> HIDE DEF after
<1>3. 1 .. n \subseteq 1 .. n + 1 /\ \A k \in 1 .. n + 1 : k \in 1 .. n \/ k = n + 1
  OBVIOUS
<1>4. InOrder(after) /\ OrdersDiffer(after) /\ Reserved(after)
  BY <1>2 DEF HoldsFirst, InOrder, OrdersDiffer, Reserved
<1>5. InsertedAsOffered(after, events, n + 1)
  <2>1. InsertedAsOffered(buffer, events, n)
    BY DEF HoldsFirst
  <2> QED
    BY <1>2, <1>3, <2>1 DEF InsertedAsOffered
<1>6. AllOffered(after, events, n + 1)
  <2>1. AllOffered(buffer, events, n)
    BY DEF HoldsFirst
  <2> QED
    BY <1>2, <1>3, <2>1 DEF AllOffered
<1>7. MissingIfFull(after, events, n + 1)
  <2>1. MissingIfFull(buffer, events, n)
    BY DEF HoldsFirst
  <2>2. \A e : Midi!Fits(after, e) <=> Midi!Fits(buffer, e)
    BY <1>2 DEF Midi!Fits
  <2> QED
    BY <1>2, <1>3, <2>1, <2>2 DEF MissingIfFull
<1> QED
  BY <1>2, <1>4, <1>5, <1>6, <1>7 DEF HoldsFirst, after

\* An event that finds room is put where it belongs.
LEMMA RoomFound ==
    ASSUME NEW n \in Nat, NEW events, NEW buffer, HoldsFirst(buffer, events, n),
           \A k \in 1 .. n + 1 : events[k] \in Event,
           NEW event \in Event, events[n + 1] = event, Midi!Fits(buffer, event)
    PROVE  HoldsFirst(Midi!WithEvent(buffer, event), events, n + 1)
<1> DEFINE after == Midi!WithEvent(buffer, event)
           s == buffer.entries
           t == after.entries
           m == Len(s)
           new == [at |-> event.at, order |-> buffer.next, from |-> buffer.used,
                   size |-> event.size, id |-> event.id]
<1>1. /\ buffer \in Buffer /\ InOrder(buffer) /\ OrdersDiffer(buffer) /\ Reserved(buffer)
      /\ InsertedAsOffered(buffer, events, n) /\ AllOffered(buffer, events, n)
      /\ MissingIfFull(buffer, events, n)
  BY DEF HoldsFirst
<1>2. /\ m \in Nat /\ DOMAIN s = 1 .. m /\ buffer.used \in Nat /\ buffer.next \in Nat
      /\ \A j \in 1 .. m : /\ s[j].at \in Nat /\ s[j].order \in Nat /\ s[j].from \in Nat
                           /\ s[j].size \in Nat
  BY <1>1, BufferFields, EntryFields
<1>3. event.at \in Nat /\ event.size \in Nat /\ event.id \in Nat
  BY EventFields
<1>4. /\ after \in Buffer /\ Len(t) = m + 1
      /\ after.used = buffer.used + event.size /\ after.next = buffer.next + 1
  BY <1>1, WithEventIs
<1>5. PICK i \in 0 .. m :
        /\ \A j \in 1 .. i : s[j].at <= event.at
        /\ \A j \in i + 1 .. m : event.at < s[j].at
        /\ t[i + 1] = new
        /\ \A j \in 1 .. i : t[j] = s[j]
        /\ \A j \in i + 2 .. m + 1 : t[j] = s[j - 1]
  BY <1>1, WithEventIs
<1>6. /\ new.at = event.at /\ new.order = buffer.next /\ new.from = buffer.used
      /\ new.size = event.size /\ new.id = event.id
  OBVIOUS
<1> HIDE DEF after, s, t, m, new
<1>7. DOMAIN t = 1 .. m + 1
  BY <1>4, BufferFields DEF t
<1> DEFINE old(j) == IF j <= i THEN j ELSE j - 1
<1>8. ASSUME NEW j \in 1 .. m + 1, j # i + 1
      PROVE  /\ old(j) \in 1 .. m /\ t[j] = s[old(j)]
             /\ j < i + 1 => s[old(j)].at <= event.at
             /\ i + 1 < j => event.at < s[old(j)].at
  <2>1. CASE j <= i
    <3>1. j \in 1 .. i /\ old(j) = j /\ j \in 1 .. m /\ ~(i + 1 < j)
      BY <1>2, <1>5, <2>1
    <3> QED
      BY <1>5, <3>1
  <2>2. CASE ~(j <= i)
    <3>1. j \in i + 2 .. m + 1 /\ old(j) = j - 1 /\ j - 1 \in 1 .. m /\ ~(j < i + 1)
      BY <1>2, <1>5, <1>8, <2>2
    <3>2. j - 1 \in i + 1 .. m
      BY <1>2, <1>5, <1>8, <2>2
    <3> QED
      BY <1>5, <3>1, <3>2
  <2> QED
    BY <2>1, <2>2
<1>9. \A j, k \in 1 .. m + 1 : j # i + 1 /\ k # i + 1 /\ j < k => old(j) < old(k)
  BY <1>2, <1>5
<1>10. ASSUME NEW j \in 1 .. m
       PROVE  \E k \in 1 .. m + 1 : t[k] = s[j]
  <2>1. CASE j <= i
    <3>1. j \in 1 .. i /\ j \in 1 .. m + 1
      BY <1>2, <1>5, <2>1
    <3> QED
      BY <1>5, <3>1
  <2>2. CASE ~(j <= i)
    <3>1. j + 1 \in i + 2 .. m + 1 /\ (j + 1) - 1 = j /\ j + 1 \in 1 .. m + 1
      BY <1>2, <1>5, <2>2
    <3> QED
      BY <1>5, <3>1
  <2> QED
    BY <2>1, <2>2
<1>11. i + 1 \in 1 .. m + 1 /\ i \in Nat
  BY <1>2, <1>5
<1>12. \A j \in 1 .. m : /\ s[j].order < buffer.next
                        /\ s[j].from + s[j].size <= buffer.used
  BY <1>1, <1>2 DEF Reserved, s
<1> HIDE DEF old
<1>13. InOrder(after)
  <2> SUFFICES ASSUME NEW j \in 1 .. m + 1, NEW k \in 1 .. m + 1, j < k
               PROVE  Before(t[j], t[k])
    BY <1>7 DEF InOrder, t
  <2>1. CASE j # i + 1 /\ k # i + 1
    <3>1. t[j] = s[old(j)] /\ t[k] = s[old(k)] /\ old(j) \in 1 .. m /\ old(k) \in 1 .. m
      BY <1>8, <2>1
    <3>2. old(j) < old(k)
      BY <1>9, <2>1
    <3>3. Before(s[old(j)], s[old(k)])
      BY <1>1, <1>2, <3>1, <3>2 DEF InOrder, s
    <3> QED
      BY <3>1, <3>3
  <2>2. CASE j = i + 1
    <3>1. k # i + 1 /\ i + 1 < k
      BY <2>2
    <3>2. t[k] = s[old(k)] /\ event.at < s[old(k)].at
      BY <1>8, <3>1
    <3> QED
      BY <1>5, <1>6, <2>2, <3>2 DEF Before, Midi!StaysBehind
  <2>3. CASE k = i + 1
    <3>1. j # i + 1 /\ j < i + 1
      BY <2>3
    <3>2. t[j] = s[old(j)] /\ s[old(j)].at <= event.at /\ old(j) \in 1 .. m
      BY <1>8, <3>1
    <3>3. s[old(j)].order < buffer.next /\ s[old(j)].at \in Nat
      BY <1>2, <1>12, <3>2
    <3>4. t[j].at < event.at \/ t[j].at = event.at
      BY <1>3, <3>2, <3>3
    <3> QED
      BY <1>5, <1>6, <2>3, <3>2, <3>3, <3>4 DEF Before, Midi!StaysBehind
  <2> QED
    BY <2>1, <2>2, <2>3
<1>14. OrdersDiffer(after)
  <2> SUFFICES ASSUME NEW j \in 1 .. m + 1, NEW k \in 1 .. m + 1, j < k
               PROVE  t[j].order # t[k].order
    BY <1>2, <1>7 DEF OrdersDiffer, t
  <2>1. CASE j # i + 1 /\ k # i + 1
    <3>1. t[j] = s[old(j)] /\ t[k] = s[old(k)] /\ old(j) \in 1 .. m /\ old(k) \in 1 .. m
      BY <1>8, <2>1
    <3>2. old(j) < old(k)
      BY <1>9, <2>1
    <3>3. old(j) # old(k)
      BY <3>1, <3>2
    <3>4. s[old(j)].order # s[old(k)].order
      BY <1>1, <1>2, <3>1, <3>3 DEF OrdersDiffer, s
    <3> QED
      BY <3>1, <3>4
  <2>2. CASE j = i + 1
    <3>1. t[k] = s[old(k)] /\ old(k) \in 1 .. m
      BY <1>8, <2>2
    <3>2. s[old(k)].order < buffer.next /\ s[old(k)].order \in Nat
      BY <1>2, <1>12, <3>1
    <3> QED
      BY <1>2, <1>5, <1>6, <2>2, <3>1, <3>2
  <2>3. CASE k = i + 1
    <3>1. t[j] = s[old(j)] /\ old(j) \in 1 .. m
      BY <1>8, <2>3
    <3>2. s[old(j)].order < buffer.next /\ s[old(j)].order \in Nat
      BY <1>2, <1>12, <3>1
    <3> QED
      BY <1>2, <1>5, <1>6, <2>3, <3>1, <3>2
  <2> QED
    BY <2>1, <2>2, <2>3
<1>15. Reserved(after)
  <2> SUFFICES ASSUME NEW j \in 1 .. m + 1
               PROVE  t[j].order < after.next /\ t[j].from + t[j].size <= after.used
    BY <1>7 DEF Reserved, t
  <2>1. CASE j = i + 1
    BY <1>2, <1>3, <1>4, <1>5, <1>6, <2>1
  <2>2. CASE j # i + 1
    <3>1. t[j] = s[old(j)] /\ old(j) \in 1 .. m
      BY <1>8, <2>2
    <3>2. /\ s[old(j)].order < buffer.next /\ s[old(j)].order \in Nat
          /\ s[old(j)].from + s[old(j)].size <= buffer.used
          /\ s[old(j)].from \in Nat /\ s[old(j)].size \in Nat
      BY <1>2, <1>12, <3>1
    <3>3. /\ s[old(j)].order < buffer.next + 1
          /\ s[old(j)].from + s[old(j)].size <= buffer.used + event.size
      <4> DEFINE end == s[old(j)].from + s[old(j)].size
                 order == s[old(j)].order
                 used == buffer.used
                 next == buffer.next
                 size == event.size
      <4>1. used \in Nat /\ next \in Nat /\ size \in Nat
        BY <1>2, <1>3
      <4>2. end \in Nat
        BY ONLY <3>2
      <4>3. order \in Nat /\ order < next /\ end <= used
        BY ONLY <3>2
      <4> HIDE DEF end, order, used, next, size
      <4>4. order < next + 1 /\ end <= used + size
        BY ONLY <4>1, <4>2, <4>3
      <4> QED
        BY ONLY <4>4 DEF end, order, used, next, size
    <3> QED
      BY <1>4, <3>1, <3>3
  <2> QED
    BY <2>1, <2>2
<1>16. AllOffered(after, events, n + 1)
  <2> SUFFICES ASSUME NEW j \in 1 .. m + 1
               PROVE  \E k \in 1 .. n + 1 : /\ events[k].id = t[j].id
                                            /\ events[k].at = t[j].at
                                            /\ events[k].size = t[j].size
    BY <1>7 DEF AllOffered, t
  <2>1. CASE j = i + 1
    <3>1. n + 1 \in 1 .. n + 1
      OBVIOUS
    <3> QED
      BY <1>5, <1>6, <2>1, <3>1
  <2>2. CASE j # i + 1
    <3>1. t[j] = s[old(j)] /\ old(j) \in 1 .. m
      BY <1>8, <2>2
    <3>2. PICK k \in 1 .. n : /\ events[k].id = s[old(j)].id
                              /\ events[k].at = s[old(j)].at
                              /\ events[k].size = s[old(j)].size
      BY <1>1, <1>2, <3>1 DEF AllOffered, s
    <3>3. k \in 1 .. n + 1
      OBVIOUS
    <3> QED
      BY <3>1, <3>2, <3>3
  <2> QED
    BY <2>1, <2>2
<1>17. InsertedAsOffered(after, events, n + 1)
  <2> SUFFICES ASSUME NEW j \in 1 .. m + 1, NEW k \in 1 .. m + 1, t[j].order < t[k].order
               PROVE  /\ t[j].from + t[j].size <= t[k].from
                      /\ \E p, q \in 1 .. n + 1 :
                           /\ p < q /\ events[p].id = t[j].id /\ events[q].id = t[k].id
    BY <1>7 DEF InsertedAsOffered, t
  <2>1. j # i + 1
    <3> SUFFICES ASSUME j = i + 1
                 PROVE  FALSE
      OBVIOUS
    <3>1. t[j].order = buffer.next
      BY <1>5, <1>6
    <3>2. CASE k = i + 1
      BY <1>2, <3>1, <3>2
    <3>3. CASE k # i + 1
      <4>1. t[k].order < buffer.next /\ t[k].order \in Nat
        BY <1>2, <1>8, <1>12, <3>3
      <4> QED
        BY <1>2, <3>1, <4>1
    <3> QED
      BY <3>2, <3>3
  <2>2. t[j] = s[old(j)] /\ old(j) \in 1 .. m
    BY <1>8, <2>1
  <2>3. CASE k = i + 1
    <3>1. t[j].from + t[j].size <= t[k].from
      BY <1>5, <1>6, <1>12, <2>2, <2>3
    <3>2. PICK p \in 1 .. n : events[p].id = t[j].id
      BY <1>1, <1>2, <2>2 DEF AllOffered, s
    <3>3. p \in 1 .. n + 1 /\ n + 1 \in 1 .. n + 1 /\ p < n + 1
      OBVIOUS
    <3>4. events[n + 1].id = t[k].id
      BY <1>5, <1>6, <2>3
    <3> QED
      BY <3>1, <3>2, <3>3, <3>4
  <2>4. CASE k # i + 1
    <3>1. t[k] = s[old(k)] /\ old(k) \in 1 .. m
      BY <1>8, <2>4
    <3>2. /\ s[old(j)].from + s[old(j)].size <= s[old(k)].from
          /\ \E p, q \in 1 .. n :
               /\ p < q /\ events[p].id = s[old(j)].id /\ events[q].id = s[old(k)].id
      BY <1>1, <1>2, <2>2, <3>1 DEF InsertedAsOffered, s
    <3>3. PICK p \in 1 .. n, q \in 1 .. n :
            p < q /\ events[p].id = t[j].id /\ events[q].id = t[k].id
      BY <2>2, <3>1, <3>2
    <3>4. p \in 1 .. n + 1 /\ q \in 1 .. n + 1
      OBVIOUS
    <3> QED
      BY <2>2, <3>1, <3>2, <3>3, <3>4
  <2> QED
    BY <2>3, <2>4
<1>18. MissingIfFull(after, events, n + 1)
  <2> SUFFICES ASSUME NEW k \in 1 .. n + 1, \A j \in 1 .. m + 1 : t[j].id # events[k].id,
                      Midi!Fits(after, events[k])
               PROVE  FALSE
    BY <1>7 DEF MissingIfFull, t
  <2>1. k # n + 1
    BY <1>5, <1>6, <1>11
  <2>2. k \in 1 .. n
    BY <2>1
  <2>3. \A j \in 1 .. m : s[j].id # events[k].id
    BY <1>10
  <2>4. ~Midi!Fits(buffer, events[k])
    BY <1>1, <1>2, <2>2, <2>3 DEF MissingIfFull, s
  <2>5. events[k].size \in Nat
    BY EventFields
  <2>6. Len(t) < MaxEvents /\ after.used + events[k].size <= MaxBytes
    BY DEF Midi!Fits, t
  <2>7. m < MaxEvents /\ buffer.used + events[k].size <= MaxBytes
    <3>1. m + 1 < MaxEvents /\ (buffer.used + event.size) + events[k].size <= MaxBytes
      BY <1>4, <2>6
    <3>2. MaxEvents \in Nat /\ MaxBytes \in Nat
      BY MidiAssumption
    <3>3. m < MaxEvents
      BY <1>2, <3>1, <3>2
    <3> DEFINE size == events[k].size
    <3>4. size \in Nat /\ (buffer.used + event.size) + size <= MaxBytes
      BY <2>5, <3>1
    <3> HIDE DEF size
    <3>5. buffer.used + size <= MaxBytes
      BY ONLY <1>2, <1>3, <3>2, <3>4
    <3> QED
      BY <3>3, <3>5 DEF size
  <2> QED
    BY <2>4, <2>7 DEF Midi!Fits, m, s
<1> QED
  BY <1>4, <1>13, <1>14, <1>15, <1>16, <1>17, <1>18 DEF HoldsFirst, after

\* Whether an event found room or not.
LEMMA OneMore ==
    ASSUME NEW n \in Nat, NEW events, NEW buffer, HoldsFirst(buffer, events, n),
           \A k \in 1 .. n + 1 : events[k] \in Event,
           NEW event \in Event, events[n + 1] = event
    PROVE  HoldsFirst(Midi!WithEvent(buffer, event), events, n + 1)
  BY NoRoom, RoomFound

\* What is offered later does not matter.
LEMMA SameFirst ==
    ASSUME NEW n \in Nat, NEW events, NEW more, \A k \in 1 .. n : more[k] = events[k],
           NEW buffer, HoldsFirst(buffer, events, n)
    PROVE  HoldsFirst(buffer, more, n)
<1>1. /\ InsertedAsOffered(buffer, events, n) /\ AllOffered(buffer, events, n)
      /\ MissingIfFull(buffer, events, n)
  BY DEF HoldsFirst
<1>2. InsertedAsOffered(buffer, more, n)
  BY <1>1 DEF InsertedAsOffered
<1>3. AllOffered(buffer, more, n)
  BY <1>1 DEF AllOffered
<1>4. MissingIfFull(buffer, more, n)
  BY <1>1 DEF MissingIfFull
<1> QED
  BY <1>2, <1>3, <1>4 DEF HoldsFirst

\* An empty buffer, whatever it dropped before.
LEMMA EmptyHolds ==
    ASSUME NEW buffer \in Buffer, buffer.entries = <<>>, NEW events
    PROVE  HoldsFirst(buffer, events, 0)
<1>1. DOMAIN buffer.entries = {}
  OBVIOUS
<1>2. InOrder(buffer) /\ OrdersDiffer(buffer) /\ Reserved(buffer)
  BY <1>1 DEF InOrder, OrdersDiffer, Reserved
<1>3. InsertedAsOffered(buffer, events, 0) /\ AllOffered(buffer, events, 0)
  BY <1>1 DEF InsertedAsOffered, AllOffered
<1>4. MissingIfFull(buffer, events, 0)
  BY DEF MissingIfFull
<1> QED
  BY <1>2, <1>3, <1>4 DEF HoldsFirst

LEMMA MidiInitInv == Midi!Init => MidiInv
<1> SUFFICES ASSUME Midi!Init
             PROVE  MidiInv
  OBVIOUS
<1>1. /\ buffers = [b \in Buffers |-> Midi!Empty] /\ offered = [b \in Buffers |-> <<>>]
      /\ made = 0
  BY DEF Midi!Init
<1>2. Midi!Empty \in Buffer /\ Midi!Empty.entries = <<>>
  BY DEF Midi!Empty, Buffer
<1>3. <<>> \in Seq(Event) /\ Len(<<>>) = 0
  OBVIOUS
<1>4. HoldsFirst(Midi!Empty, <<>>, 0)
  BY <1>2, EmptyHolds
<1>5. \A b \in Buffers : buffers[b] = Midi!Empty /\ offered[b] = <<>>
  BY <1>1
<1>6. \A b \in Buffers : HoldsFirst(buffers[b], offered[b], Len(offered[b]))
  BY ONLY <1>3, <1>4, <1>5
<1> QED
  BY <1>1, <1>2, <1>3, <1>6 DEF MidiInv

\* One buffer changes, with what it was offered.
Changed(b, buffer, events) ==
    /\ buffers' = [buffers EXCEPT ![b] = buffer]
    /\ offered' = [offered EXCEPT ![b] = events]

LEMMA OneBuffer ==
    ASSUME MidiInv, NEW b \in Buffers, NEW buffer, NEW events \in Seq(Event),
           HoldsFirst(buffer, events, Len(events)), made' \in Nat,
           Changed(b, buffer, events)
    PROVE  MidiInv'
<1> USE DEF Changed
<1>1. /\ buffers \in [Buffers -> Buffer] /\ offered \in [Buffers -> Seq(Event)]
      /\ \A c \in Buffers : HoldsFirst(buffers[c], offered[c], Len(offered[c]))
  BY DEF MidiInv
<1>2. buffer \in Buffer
  BY DEF HoldsFirst
<1>3. buffers' \in [Buffers -> Buffer] /\ offered' \in [Buffers -> Seq(Event)]
  BY <1>1, <1>2
<1>4. \A c \in Buffers : HoldsFirst(buffers'[c], offered'[c], Len(offered'[c]))
  <2> TAKE c \in Buffers
  <2>1. CASE c = b
    <3>1. buffers'[c] = buffer /\ offered'[c] = events
      BY <1>1, <2>1
    <3> QED
      BY ONLY <3>1, HoldsFirst(buffer, events, Len(events))
  <2>2. CASE c # b
    <3>1. buffers'[c] = buffers[c] /\ offered'[c] = offered[c]
      BY <1>1, <2>2
    <3>2. HoldsFirst(buffers[c], offered[c], Len(offered[c]))
      BY <1>1
    <3> QED
      BY ONLY <3>1, <3>2
  <2> QED
    BY <2>1, <2>2
<1> QED
  BY <1>3, <1>4 DEF MidiInv

LEMMA AddEventInv ==
    ASSUME MidiInv, NEW b \in Buffers, NEW at \in Offsets, NEW size \in Sizes,
           Midi!AddEvent(b, at, size)
    PROVE  MidiInv'
<1> DEFINE event == [at |-> at, size |-> size, id |-> made + 1]
           O == offered[b]
           n == Len(O)
<1>1. /\ made' = made + 1
      /\ buffers' = [buffers EXCEPT ![b] = Midi!WithEvent(buffers[b], event)]
      /\ offered' = [offered EXCEPT ![b] = Append(O, event)]
  BY DEF Midi!AddEvent
<1>2. /\ made \in Nat /\ O \in Seq(Event) /\ HoldsFirst(buffers[b], O, n) /\ n \in Nat
      /\ \A k \in 1 .. n : O[k] \in Event
  <2>1. made \in Nat /\ O \in Seq(Event) /\ HoldsFirst(buffers[b], O, n)
    BY DEF MidiInv
  <2> QED
    BY <2>1, LenProperties, ElementOfSeq
<1>3. event \in Event
  BY <1>2, MidiAssumption DEF Event
<1> HIDE DEF event, O, n
<1> DEFINE more == Append(O, event)
<1>4. /\ more \in Seq(Event) /\ Len(more) = n + 1 /\ more[n + 1] = event
      /\ \A k \in 1 .. n : more[k] = O[k]
  BY <1>2, <1>3 DEF n
<1> HIDE DEF more
<1>5. \A k \in 1 .. n + 1 : more[k] \in Event
  BY <1>2, <1>3, <1>4
<1>6. HoldsFirst(buffers[b], more, n)
  BY <1>2, <1>4, SameFirst
<1>7. HoldsFirst(Midi!WithEvent(buffers[b], event), more, n + 1)
  BY <1>2, <1>3, <1>4, <1>5, <1>6, OneMore
<1> QED
  <2>1. Changed(b, Midi!WithEvent(buffers[b], event), more) /\ made' \in Nat
    BY <1>1, <1>2 DEF Changed, more
  <2>2. HoldsFirst(Midi!WithEvent(buffers[b], event), more, Len(more))
    BY <1>4, <1>7
  <2> QED
    BY <1>4, <2>1, <2>2, OneBuffer

LEMMA ClearInv == ASSUME MidiInv, NEW b \in Buffers, Midi!Clear(b) PROVE MidiInv'
<1> DEFINE empty == [Midi!Empty EXCEPT !.dropped = buffers[b].dropped]
<1>1. /\ buffers' = [buffers EXCEPT ![b] = empty] /\ offered' = [offered EXCEPT ![b] = <<>>]
      /\ made' = made
  BY DEF Midi!Clear
<1>2. made \in Nat /\ buffers[b] \in Buffer
  BY DEF MidiInv
<1>3. empty \in Buffer /\ empty.entries = <<>>
  <2>1. empty = [entries |-> <<>>, used |-> 0, next |-> 0, dropped |-> buffers[b].dropped]
    BY DEF Midi!Empty
  <2>2. buffers[b].dropped \in Nat
    BY <1>2, BufferFields
  <2>3. <<>> \in Seq(Entry)
    OBVIOUS
  <2> HIDE DEF empty
  <2>4. empty.entries = <<>>
    BY <2>1
  <2>5. empty \in Buffer
    BY <2>1, <2>2, <2>3 DEF Buffer
  <2> QED
    BY <2>4, <2>5
<1> HIDE DEF empty
<1>4. <<>> \in Seq(Event) /\ Len(<<>>) = 0
  OBVIOUS
<1>5. HoldsFirst(empty, <<>>, Len(<<>>))
  BY <1>3, <1>4, EmptyHolds
<1>6. Changed(b, empty, <<>>) /\ made' \in Nat
  BY <1>1, <1>2 DEF Changed
<1> QED
  BY <1>4, <1>5, <1>6, OneBuffer

LEMMA ResetInv == ASSUME MidiInv, NEW b \in Buffers, Midi!ResetDroppedEventCount(b) PROVE MidiInv'
<1> DEFINE B == buffers[b]
           reset == [B EXCEPT !.dropped = 0]
           n == Len(offered[b])
<1>1. buffers' = [buffers EXCEPT ![b] = reset] /\ offered' = offered /\ made' = made
  BY DEF Midi!ResetDroppedEventCount
<1>2. /\ made \in Nat /\ offered \in [Buffers -> Seq(Event)] /\ offered[b] \in Seq(Event)
      /\ B \in Buffer /\ HoldsFirst(B, offered[b], n)
  BY DEF MidiInv
<1>3. /\ reset \in Buffer /\ reset.entries = B.entries /\ reset.used = B.used
      /\ reset.next = B.next
  BY <1>2 DEF Buffer
<1> HIDE DEF reset, B, n
<1>4. HoldsFirst(reset, offered[b], n)
  <2>1. /\ InOrder(B) /\ OrdersDiffer(B) /\ Reserved(B)
        /\ InsertedAsOffered(B, offered[b], n) /\ AllOffered(B, offered[b], n)
        /\ MissingIfFull(B, offered[b], n)
    BY <1>2 DEF HoldsFirst
  <2>2. InOrder(reset) /\ OrdersDiffer(reset) /\ Reserved(reset)
    BY <1>3, <2>1 DEF InOrder, OrdersDiffer, Reserved
  <2>3. InsertedAsOffered(reset, offered[b], n) /\ AllOffered(reset, offered[b], n)
    BY <1>3, <2>1 DEF InsertedAsOffered, AllOffered
  <2>4. \A e : Midi!Fits(reset, e) <=> Midi!Fits(B, e)
    BY <1>3 DEF Midi!Fits
  <2>5. MissingIfFull(reset, offered[b], n)
    BY <1>3, <2>1, <2>4 DEF MissingIfFull
  <2> QED
    BY <1>3, <2>2, <2>3, <2>5 DEF HoldsFirst
<1>5. offered' = [offered EXCEPT ![b] = offered[b]]
  BY <1>1, <1>2
<1>6. Changed(b, reset, offered[b]) /\ made' \in Nat
  BY <1>1, <1>2, <1>5 DEF Changed
<1> QED
  BY <1>2, <1>4, <1>6, OneBuffer DEF n

LEMMA MergeFromInv ==
    ASSUME MidiInv, NEW b \in Buffers, NEW source \in Buffers, Midi!MergeFrom(b, source)
    PROVE  MidiInv'
<1> DEFINE entries == buffers[source].entries
           events == [i \in DOMAIN entries |->
                        [at |-> entries[i].at, size |-> entries[i].size, id |-> entries[i].id]]
           m == Len(events)
           O == offered[b]
           n == Len(O)
           body(f) == [i \in 0 .. m |-> IF i = 0 THEN buffers[b]
                                        ELSE Midi!WithEvent(f[i - 1], events[i])]
           merged == CHOOSE f : f = body(f)
           more == O \o events
<1>1. /\ made' = made
      /\ buffers' = [buffers EXCEPT ![b] = merged[m]]
      /\ offered' = [offered EXCEPT ![b] = more]
  BY DEF Midi!MergeFrom
<1>2. /\ made \in Nat /\ O \in Seq(Event) /\ HoldsFirst(buffers[b], O, n) /\ n \in Nat
      /\ \A k \in 1 .. n : O[k] \in Event
  <2>1. made \in Nat /\ O \in Seq(Event) /\ HoldsFirst(buffers[b], O, n)
    BY DEF MidiInv
  <2> QED
    BY <2>1, LenProperties, ElementOfSeq
<1>3. events \in Seq(Event) /\ m \in Nat /\ \A i \in 1 .. m : events[i] \in Event
  <2>1. buffers[source] \in Buffer
    BY DEF MidiInv
  <2>2. DOMAIN entries = 1 .. Len(entries) /\ Len(entries) \in Nat
    BY <2>1, BufferFields
  <2>3. \A i \in DOMAIN entries : entries[i].at \in Nat /\ entries[i].size \in Nat /\ entries[i].id \in Nat
    BY <2>1, BufferFields, EntryFields
  <2>4. events \in [1 .. Len(entries) -> Event]
    BY <2>2, <2>3 DEF Event
  <2>5. events \in Seq(Event)
    BY <2>2, <2>4
  <2> HIDE DEF events
  <2> QED
    BY <2>5, LenProperties, ElementOfSeq
<1> HIDE DEF events, O
<1>4. /\ more \in Seq(Event) /\ Len(more) = n + m
      /\ \A k \in 1 .. n : more[k] = O[k]
      /\ \A k \in 1 .. m : more[n + k] = events[k]
  <2>1. /\ more \in Seq(Event) /\ Len(more) = Len(O) + Len(events)
        /\ \A k \in 1 .. Len(O) + Len(events) :
             more[k] = IF k <= Len(O) THEN O[k] ELSE events[k - Len(O)]
    BY <1>2, <1>3, ConcatProperties
  <2> HIDE DEF more
  <2>2. /\ \A k \in 1 .. n : k \in 1 .. n + m /\ k <= n
        /\ \A k \in 1 .. m : n + k \in 1 .. n + m /\ ~(n + k <= n) /\ (n + k) - n = k
    BY <1>2, <1>3
  <2> QED
    BY <2>1, <2>2
<1> HIDE DEF more, n, m
<1> DEFINE S == [i \in 0 .. m |-> {buffer \in Buffer : HoldsFirst(buffer, more, n + i)}]
           step == [i \in 1 .. m |-> [buffer \in S[i - 1] |-> Midi!WithEvent(buffer, events[i])]]
<1>5. \A i \in 0 .. m : \A buffer : buffer \in S[i] <=> HoldsFirst(buffer, more, n + i)
  BY DEF HoldsFirst
<1>6. \A i \in 1 .. m : step[i] = [buffer \in S[i - 1] |-> Midi!WithEvent(buffer, events[i])]
  <2> HIDE DEF S
  <2> QED
    OBVIOUS
<1> HIDE DEF S, step
<1>7. buffers[b] \in S[0]
  <2>1. n + 0 = n /\ 0 \in 0 .. m
    BY <1>2, <1>3
  <2>2. HoldsFirst(buffers[b], more, n + 0)
    <3>1. HoldsFirst(buffers[b], more, n)
      BY <1>2, <1>4, SameFirst
    <3> QED
      BY ONLY <2>1, <3>1
  <2> QED
    BY ONLY <1>5, <2>1, <2>2
<1>8. ASSUME NEW i \in 1 .. m, NEW buffer \in S[i - 1]
      PROVE  Midi!WithEvent(buffer, events[i]) \in S[i]
  <2>1. i - 1 \in 0 .. m /\ i \in 0 .. m /\ n + (i - 1) \in Nat /\ (n + (i - 1)) + 1 = n + i
    BY <1>2, <1>3
  <2>2. HoldsFirst(buffer, more, n + (i - 1))
    BY <1>5, <2>1
  <2>3. more[(n + (i - 1)) + 1] = events[i] /\ events[i] \in Event
    BY <1>3, <1>4, <2>1
  <2>4. \A k \in 1 .. (n + (i - 1)) + 1 : more[k] \in Event
    <3>1. \A k \in 1 .. n + i : k \in 1 .. Len(more)
      BY <1>2, <1>3, <1>4
    <3> QED
      BY <1>4, <2>1, <3>1, ElementOfSeq
  <2>5. HoldsFirst(Midi!WithEvent(buffer, events[i]), more, (n + (i - 1)) + 1)
    BY <2>1, <2>2, <2>3, <2>4, OneMore
  <2>6. HoldsFirst(Midi!WithEvent(buffer, events[i]), more, n + i)
    BY <2>1, <2>5
  <2> QED
    BY <1>5, <2>1, <2>6
<1>9. \A i \in 1 .. m : step[i] \in [S[i - 1] -> S[i]]
  BY <1>6, <1>8
<1>10. PICK g : /\ DOMAIN g = 0 .. m /\ g = [i \in 0 .. m |-> g[i]]
                /\ g[0] = buffers[b]
                /\ \A i \in 1 .. m : g[i - 1] \in S[i - 1] /\ g[i] = step[i][g[i - 1]]
  <2>1. PICK g : Recurs(g, m, S, buffers[b], step)
    BY <1>3, <1>7, <1>9, Recursion
  <2> QED
    BY <2>1 DEF Recurs
<1>11. g = body(g)
  <2>1. ASSUME NEW i \in 0 .. m
        PROVE  g[i] = IF i = 0 THEN buffers[b] ELSE Midi!WithEvent(g[i - 1], events[i])
    <3>1. CASE i = 0
      BY <1>10, <3>1
    <3>2. CASE i # 0
      <4>1. i \in 1 .. m
        BY <3>2
      <4>2. g[i - 1] \in S[i - 1] /\ g[i] = step[i][g[i - 1]]
        BY <1>10, <4>1
      <4>3. step[i][g[i - 1]] = Midi!WithEvent(g[i - 1], events[i])
        BY <1>6, <4>1, <4>2
      <4> QED
        BY <3>2, <4>2, <4>3
    <3> QED
      BY <3>1, <3>2
  <2> QED
    BY <1>10, <2>1
<1>12. merged = body(merged)
  BY <1>11
<1> HIDE DEF merged
<1>13. /\ merged[0] = buffers[b]
       /\ \A i \in 1 .. m : merged[i] = Midi!WithEvent(merged[i - 1], events[i])
  <2>1. 0 \in 0 .. m /\ \A i \in 1 .. m : i \in 0 .. m /\ i # 0
    BY <1>3
  <2> QED
    BY <1>12, <2>1
<1> HIDE DEF body
<1>14. merged[m] \in S[m]
  <2>1. \A i \in 1 .. m : merged[i - 1] \in S[i - 1] => merged[i] \in S[i]
    BY <1>8, <1>13
  <2>2. \A i \in 0 .. m : merged[i] \in S[i]
    BY <1>3, <1>7, <1>13, <2>1, Reached
  <2> QED
    BY <1>3, <2>2
<1>15. HoldsFirst(merged[m], more, Len(more))
  BY <1>3, <1>4, <1>5, <1>14
<1>16. Changed(b, merged[m], more) /\ made' \in Nat
  BY <1>1, <1>2 DEF Changed
<1> QED
  BY <1>4, <1>15, <1>16, OneBuffer

LEMMA MidiNextInv == ASSUME MidiInv, Midi!Next PROVE MidiInv'
<1>1. PICK b \in Buffers :
        \/ \E at \in Offsets, size \in Sizes : Midi!AddEvent(b, at, size)
        \/ \E source \in Buffers : Midi!MergeFrom(b, source)
        \/ Midi!Clear(b) \/ Midi!ResetDroppedEventCount(b)
  BY DEF Midi!Next
<1>2. CASE \E at \in Offsets, size \in Sizes : Midi!AddEvent(b, at, size)
  BY <1>2, AddEventInv
<1>3. CASE \E source \in Buffers : Midi!MergeFrom(b, source)
  BY <1>3, MergeFromInv
<1>4. CASE Midi!Clear(b) \/ Midi!ResetDroppedEventCount(b)
  BY <1>4, ClearInv, ResetInv
<1> QED
  BY <1>1, <1>2, <1>3, <1>4

LEMMA MidiStays == ASSUME MidiInv, UNCHANGED midiVars PROVE MidiInv'
  BY DEF midiVars, MidiInv

LEMMA MidiInvKeepsOrder == MidiInv => Midi!MidiKeepsOrder
<1> SUFFICES ASSUME MidiInv, NEW b \in Buffers
             PROVE  LET entries == buffers[b].entries
                        before(e, f) == e.at < f.at \/ (e.at = f.at /\
                            \E i, j \in DOMAIN offered[b] :
                              i < j /\ offered[b][i].id = e.id /\ offered[b][j].id = f.id)
                    IN /\ \A i, j \in DOMAIN entries :
                            i < j => /\ before(entries[i], entries[j])
                                     /\ \/ entries[i].from + entries[i].size <= entries[j].from
                                        \/ entries[j].from + entries[j].size <= entries[i].from
                       /\ \A i \in DOMAIN entries :
                            \E k \in DOMAIN offered[b] : /\ offered[b][k].id = entries[i].id
                                                         /\ offered[b][k].at = entries[i].at
                                                         /\ offered[b][k].size = entries[i].size
                       /\ \A k \in DOMAIN offered[b] :
                            (\A i \in DOMAIN entries : entries[i].id # offered[b][k].id)
                              => ~Midi!Fits(buffers[b], offered[b][k])
  BY DEF Midi!MidiKeepsOrder
<1> DEFINE entries == buffers[b].entries
           O == offered[b]
           n == Len(O)
           later(e, f) == \E p, q \in 1 .. n : p < q /\ O[p].id = e.id /\ O[q].id = f.id
<1>1. /\ buffers[b] \in Buffer /\ O \in Seq(Event) /\ DOMAIN O = 1 .. n
      /\ InOrder(buffers[b]) /\ OrdersDiffer(buffers[b])
      /\ InsertedAsOffered(buffers[b], O, n) /\ AllOffered(buffers[b], O, n)
      /\ MissingIfFull(buffers[b], O, n)
  <2>1. /\ buffers[b] \in Buffer /\ O \in Seq(Event) /\ HoldsFirst(buffers[b], O, n)
    BY DEF MidiInv
  <2> QED
    BY <2>1, LenProperties DEF HoldsFirst
<1>2. \A i \in DOMAIN entries : entries[i].order \in Nat
  BY <1>1, BufferFields, EntryFields
<1> HIDE DEF O, n
<1>3. \A i \in DOMAIN entries : i \in Nat
  BY <1>1, BufferFields
<1>4. ASSUME NEW i \in DOMAIN entries, NEW j \in DOMAIN entries, i < j
      PROVE  /\ \/ entries[i].at < entries[j].at
                \/ entries[i].at = entries[j].at /\ later(entries[i], entries[j])
             /\ \/ entries[i].from + entries[i].size <= entries[j].from
                \/ entries[j].from + entries[j].size <= entries[i].from
  <2>1. Before(entries[i], entries[j])
    BY <1>1, <1>4 DEF InOrder
  <2>2. i # j
    BY <1>3, <1>4
  <2>3. entries[i].order # entries[j].order
    BY <1>1, <2>2 DEF OrdersDiffer
  <2>4. entries[i].order < entries[j].order \/ entries[j].order < entries[i].order
    BY <1>2, <2>3
  <2>5. ASSUME NEW k \in DOMAIN entries, NEW l \in DOMAIN entries,
               entries[k].order < entries[l].order
        PROVE  /\ entries[k].from + entries[k].size <= entries[l].from
               /\ later(entries[k], entries[l])
    BY <1>1, <2>5 DEF InsertedAsOffered
  <2>6. \/ entries[i].at < entries[j].at
        \/ entries[i].at = entries[j].at /\ entries[i].order < entries[j].order
    BY <2>1 DEF Before, Midi!StaysBehind
  <2> HIDE DEF entries, later
  <2> QED
    BY <2>4, <2>5, <2>6
<1>5. \A i \in DOMAIN entries :
        \E k \in 1 .. n : /\ O[k].id = entries[i].id
                          /\ O[k].at = entries[i].at
                          /\ O[k].size = entries[i].size
  BY <1>1 DEF AllOffered
<1>6. \A k \in 1 .. n :
        (\A i \in DOMAIN entries : entries[i].id # O[k].id) => ~Midi!Fits(buffers[b], O[k])
  BY <1>1 DEF MissingIfFull
<1>7. /\ \A i, j \in DOMAIN entries :
           i < j => /\ \/ entries[i].at < entries[j].at
                       \/ entries[i].at = entries[j].at
                            /\ \E p, q \in DOMAIN O :
                                 p < q /\ O[p].id = entries[i].id /\ O[q].id = entries[j].id
                    /\ \/ entries[i].from + entries[i].size <= entries[j].from
                       \/ entries[j].from + entries[j].size <= entries[i].from
      /\ \A i \in DOMAIN entries :
           \E k \in DOMAIN O : /\ O[k].id = entries[i].id
                               /\ O[k].at = entries[i].at
                               /\ O[k].size = entries[i].size
      /\ \A k \in DOMAIN O :
           (\A i \in DOMAIN entries : entries[i].id # O[k].id) => ~Midi!Fits(buffers[b], O[k])
  <2> HIDE DEF entries
  <2>1. DOMAIN O = 1 .. n
    BY <1>1
  <2> QED
    BY ONLY <1>4, <1>5, <1>6, <2>1
<1> QED
  BY ONLY <1>7 DEF entries, O

\* Whatever events are offered and merged, and however small the storage: a
\* buffer plays its events by sample and in the order they were offered, each
\* with its own bytes, and drops one only when it is full.
THEOREM MidiStaysInOrder == Spec => []MidiKeepsOrder
<1> DEFINE I == subject = "midi" => MidiInv
<1>1. Init => I
  BY MidiInitInv DEF Init
<1>2. I /\ [Next]_vars => I'
  <2> SUFFICES ASSUME MidiInv, [Next]_vars, subject' = "midi", subject = "midi"
               PROVE  MidiInv'
    BY DEF Next, vars
  <2>1. CASE Next
    BY <2>1, MidiNextInv DEF Next
  <2>2. CASE UNCHANGED vars
    BY <2>2, MidiStays DEF vars
  <2> QED
    BY <2>1, <2>2
<1>3. I => MidiKeepsOrder
  BY MidiInvKeepsOrder DEF MidiKeepsOrder
<1> QED
  BY <1>1, <1>2, <1>3, PTL DEF Spec

-----------------------------------------------------------------------------
(* The search for lost media.                                              *)

Path == [relative : BOOLEAN, folder : Media!Folders, name : Names]
Source == [path : Path, hash : Nat \X Nat]

\* What Apply makes of a document.
Bound(document, found) ==
    [i \in DOMAIN document |->
       IF Media!BoundAnew(found[i])
       THEN [document[i] EXCEPT !.path = Media!Rewritten(found[i].at)] ELSE document[i]]

\* What a report says was found held what the document remembers of it, and what was found
\* elsewhere is remembered.
FoundIsTrue(found, document, held) ==
    \A i \in DOMAIN found :
      /\ found[i].status \in {"verified", "relocated"} =>
           Media!HashOf(held[found[i].at]) = document[i].hash
      /\ found[i].status = "relocated" => document[i].hash # Media!Unknown

MediaReportOK ==
    /\ mediaReport.sources \in Seq(Source)
    /\ DOMAIN mediaReport.found = DOMAIN mediaReport.sources
    /\ \A i \in DOMAIN mediaReport.found :
         mediaReport.found[i].status = "relocated" => mediaReport.found[i].at \in Media!Places
    /\ sources = IF mediaReport.applied THEN Bound(mediaReport.sources, mediaReport.found)
                 ELSE mediaReport.sources
    /\ FoundIsTrue(mediaReport.found, mediaReport.sources, mediaReport.files)

MediaInv ==
    /\ root \in Media!Folders /\ changes \in Nat /\ sources \in Seq(Source)
    /\ mediaReport = [made |-> mediaReport.made, found |-> mediaReport.found,
                      sources |-> mediaReport.sources, files |-> mediaReport.files,
                      applied |-> mediaReport.applied]
    /\ mediaReport.made \in BOOLEAN
    /\ mediaReport.made => MediaReportOK

LEMMA SourceFields ==
    ASSUME NEW document \in Seq(Source), NEW i \in DOMAIN document
    PROVE  /\ document[i].path \in Path /\ document[i].hash \in Nat \X Nat
           /\ document[i] = [path |-> document[i].path, hash |-> document[i].hash]
<1>1. document[i] \in Source
  BY LenProperties, ElementOfSeq
<1> QED
  BY <1>1 DEF Source

\* A path that was rewritten names the place it was made of.
LEMMA RewrittenNames ==
    ASSUME NEW place \in Media!Places
    PROVE  Media!AbsoluteCandidate(Media!Rewritten(place)) = place
<1>1. PICK folder \in Media!Folders, name \in Names : place = <<folder, name>>
  BY DEF Media!Places
<1>2. place[1] = folder /\ place[2] = name
  BY <1>1
<1>3. CASE folder = root
  <2>1. Media!Rewritten(place) = [relative |-> TRUE, folder |-> "home", name |-> name]
    BY <1>2, <1>3 DEF Media!Rewritten, Media!Relative
  <2> QED
    BY <1>1, <1>3, <2>1 DEF Media!AbsoluteCandidate
<1>4. CASE folder # root
  <2>1. Media!Rewritten(place) = [relative |-> FALSE, folder |-> folder, name |-> name]
    BY <1>2, <1>4 DEF Media!Rewritten, Media!Absolute
  <2> QED
    BY <1>1, <2>1 DEF Media!AbsoluteCandidate
<1> QED
  BY <1>3, <1>4

LEMMA RewrittenType ==
    ASSUME NEW place \in Media!Places
    PROVE  Media!Rewritten(place) \in Path
<1>1. PICK folder \in Media!Folders, name \in Names : place = <<folder, name>>
  BY DEF Media!Places
<1>2. place[1] = folder /\ place[2] = name /\ "home" \in Media!Folders
  BY <1>1 DEF Media!Folders
<1> QED
  BY <1>2 DEF Media!Rewritten, Media!Relative, Media!Absolute, Path

\* Each listing with each order of one more folder.
Longer(listings, orders) == {l \o o : l \in listings, o \in orders}

LEMMA LongerType ==
    ASSUME NEW S, NEW listings \in SUBSET Seq(S), NEW orders \in SUBSET Seq(S)
    PROVE  Longer(listings, orders) \in SUBSET Seq(S)
<1> SUFFICES ASSUME NEW x \in Longer(listings, orders)
             PROVE  x \in Seq(S)
  OBVIOUS
<1>1. PICK l \in listings, o \in orders : x = l \o o
  BY DEF Longer
<1>2. l \in Seq(S) /\ o \in Seq(S)
  OBVIOUS
<1> QED
  BY <1>1, <1>2, ConcatProperties

\* What the search lists are places.
LEMMA ListingsArePlaces ==
    ASSUME NEW listing \in Media!Listings
    PROVE  listing \in Seq(Media!Places)
<1> DEFINE n == Len(SearchFolders)
           orders(i) == Media!SetToSeqs(Media!EntriesOf(SearchFolders[i]))
           body(f) == [i \in 0 .. n |-> IF i = 0 THEN {<<>>}
                                        ELSE Longer(f[i - 1], orders(i))]
           listed == CHOOSE f : f = body(f)
           All == SUBSET Seq(Media!Places)
           S == [i \in 0 .. n |-> All]
           step == [i \in 1 .. n |-> [ls \in All |-> Longer(ls, orders(i))]]
<1>1. n \in Nat
  BY MediaAssumption, LenProperties
<1>2. Media!Listings = listed[n]
  BY DEF Media!Listings, Longer
<1>3. \A folder : Media!SetToSeqs(Media!EntriesOf(folder)) \subseteq Seq(Media!Places)
  <2> TAKE folder
  <2> DEFINE E == Media!EntriesOf(folder)
             c == Cardinality(E)
  <2>1. E \subseteq Media!Places
    BY DEF Media!EntriesOf
  <2>2. IsFiniteSet(Media!Places)
    <3>1. IsFiniteSet(Media!Folders)
      <4>1. Media!Folders = (({} \cup {"home"}) \cup {"moved"}) \cup {"library"}
        BY DEF Media!Folders
      <4>2. IsFiniteSet({})
        BY FS_EmptySet
      <4>3. IsFiniteSet({} \cup {"home"})
        BY <4>2, FS_AddElement
      <4>4. IsFiniteSet(({} \cup {"home"}) \cup {"moved"})
        BY <4>3, FS_AddElement
      <4>5. IsFiniteSet((({} \cup {"home"}) \cup {"moved"}) \cup {"library"})
        BY <4>4, FS_AddElement
      <4> QED
        BY <4>1, <4>5
    <3> QED
      BY <3>1, MediaAssumption, FS_Product DEF Media!Places
  <2>3. c \in Nat
    BY <2>1, <2>2, FS_Subset, FS_CardinalityType
  <2> HIDE DEF E, c
  <2>4. Media!SetToSeqs(E) \subseteq [1 .. c -> E]
    <3>1. Media!Cardinality(E) = c
      BY DEF Media!Cardinality, Cardinality, c
    <3> QED
      BY <3>1 DEF Media!SetToSeqs
  <2>5. [1 .. c -> E] \subseteq Seq(Media!Places)
    BY <2>1, <2>3
  <2> QED
    BY <2>4, <2>5 DEF E
<1>4. \A i : orders(i) \subseteq Seq(Media!Places)
  BY <1>3
<1> HIDE DEF orders, n
<1>5. ASSUME NEW i, NEW ls \in All
      PROVE  Longer(ls, orders(i)) \in All
  BY <1>4, LongerType
<1>6. {<<>>} \in All
  OBVIOUS
<1> HIDE DEF All
<1>7. /\ \A i \in 0 .. n : S[i] = All
      /\ \A i \in 1 .. n : step[i] = [ls \in All |-> Longer(ls, orders(i))]
  OBVIOUS
<1> HIDE DEF S, step
<1>8. \A i \in 1 .. n : step[i] \in [S[i - 1] -> S[i]]
  <2> TAKE i \in 1 .. n
  <2>1. i - 1 \in 0 .. n /\ i \in 0 .. n
    BY <1>1
  <2>2. S[i - 1] = All /\ S[i] = All
    BY <1>7, <2>1
  <2>3. step[i] = [ls \in All |-> Longer(ls, orders(i))]
    BY <1>7
  <2>4. \A ls \in All : Longer(ls, orders(i)) \in All
    BY <1>5
  <2>5. step[i] \in [All -> All]
    BY ONLY <2>3, <2>4
  <2> QED
    BY <2>2, <2>5
<1>9. 0 \in 0 .. n /\ n \in 0 .. n
  BY <1>1
<1>10. {<<>>} \in S[0]
  BY <1>6, <1>7, <1>9
<1>11. PICK g : Recurs(g, n, S, {<<>>}, step)
  <2> DEFINE first == {<<>>}
  <2>1. first \in S[0]
    BY <1>10
  <2> HIDE DEF first
  <2>2. \E g : Recurs(g, n, S, first, step)
    BY <1>1, <1>8, <2>1, Recursion
  <2> QED
    BY <2>2 DEF first
<1>12. g = body(g)
  <2>1. ASSUME NEW i \in 0 .. n
        PROVE  g[i] = IF i = 0 THEN {<<>>} ELSE Longer(g[i - 1], orders(i))
    <3>1. CASE i = 0
      BY <1>11, <3>1 DEF Recurs
    <3>2. CASE i # 0
      <4>1. i \in 1 .. n /\ i - 1 \in 0 .. n
        BY <1>1, <3>2
      <4>2. g[i - 1] \in All /\ g[i] = step[i][g[i - 1]]
        BY <1>7, <1>11, <4>1 DEF Recurs
      <4>3. step[i][g[i - 1]] = Longer(g[i - 1], orders(i))
        BY <1>7, <4>1, <4>2
      <4> QED
        BY <3>2, <4>2, <4>3
    <3> QED
      BY <3>1, <3>2
  <2>2. g = [i \in 0 .. n |-> g[i]]
    BY <1>11 DEF Recurs
  <2> QED
    BY <2>1, <2>2
<1>13. listed = body(listed)
  BY <1>12
<1> HIDE DEF listed
<1>14. /\ listed[0] = {<<>>}
       /\ \A i \in 1 .. n : listed[i] = Longer(listed[i - 1], orders(i))
  <2>1. \A i \in 1 .. n : i \in 0 .. n /\ i # 0
    BY <1>1
  <2> QED
    BY <1>9, <1>13, <2>1
<1> HIDE DEF body
<1>15. listed[n] \in All
  <2>1. \A i \in 1 .. n : listed[i - 1] \in S[i - 1] => listed[i] \in S[i]
    <3> TAKE i \in 1 .. n
    <3>1. i - 1 \in 0 .. n /\ i \in 0 .. n
      BY <1>1
    <3> QED
      BY <1>5, <1>7, <1>14, <3>1
  <2>2. listed[0] \in S[0]
    BY <1>10, <1>14
  <2>3. \A i \in 0 .. n : listed[i] \in S[i]
    BY <1>1, <2>1, <2>2, Reached
  <2> QED
    BY <1>7, <1>9, <2>3
<1> QED
  BY <1>2, <1>15 DEF All

\* What the search says of one source.
LEMMA ResolvedIs ==
    ASSUME NEW source, NEW listing \in Seq(Media!Places), NEW scanned, NEW r,
           r = Media!ResolveSource(source, listing, scanned)
    PROVE  /\ r.status = "relocated" => r.at \in Media!Places
           /\ r.status \in {"verified", "relocated"} =>
                Media!HashOf(files[r.at]) = source.hash
           /\ r.status = "relocated" => source.hash # Media!Unknown
           /\ LET declared == Media!AbsoluteCandidate(source.path) IN
              r.status = "verified" <=>
                /\ Media!Hashable(declared) /\ source.hash # Media!Unknown
                /\ Media!HashOf(files[declared]) = source.hash
<1> DEFINE declared == Media!AbsoluteCandidate(source.path)
<1>1. CASE Media!Hashable(declared)
  <2>1. r = [status |-> Media!StatusAtPlace(source, declared), at |-> declared, scanned |-> scanned]
    BY <1>1 DEF Media!ResolveSource
  <2>2. r.status = Media!StatusAtPlace(source, declared) /\ r.at = declared
    BY <2>1
  <2>3. /\ Media!StatusAtPlace(source, declared) \in {"unverifiable", "verified", "mismatched"}
        /\ Media!StatusAtPlace(source, declared) = "verified" <=>
             source.hash # Media!Unknown /\ Media!HashOf(files[declared]) = source.hash
    BY DEF Media!StatusAtPlace
  <2> QED
    BY <1>1, <2>2, <2>3
<1>2. CASE ~Media!Hashable(declared)
  <2> DEFINE hits == {i \in DOMAIN listing : Media!Matches(listing[i], source)}
             hit == Media!Min(hits)
             reach == MaxEntries - scanned
             rest == scanned + Media!Min({reach, Len(listing)})
  <2>1. r = Media!FindByFilename(source, listing, scanned)
    BY <1>2 DEF Media!ResolveSource
  <2>2. r = CASE source.hash = Media!Unknown ->
                   [status |-> "missing", at |-> <<>>, scanned |-> scanned]
              [] source.hash # Media!Unknown /\ hits # {} /\ hit <= reach ->
                   [status |-> "relocated", at |-> listing[hit], scanned |-> scanned + hit]
              [] OTHER -> [status |-> "missing", at |-> <<>>, scanned |-> rest]
    BY <2>1 DEF Media!FindByFilename
  <2> HIDE DEF hits, hit, reach, rest
  <2>3. \/ r.status = "missing"
        \/ /\ hits # {} /\ r.status = "relocated" /\ r.at = listing[hit]
           /\ source.hash # Media!Unknown
    <3>1. \/ r = [status |-> "missing", at |-> <<>>, scanned |-> scanned]
          \/ /\ hits # {} /\ source.hash # Media!Unknown
             /\ r = [status |-> "relocated", at |-> listing[hit], scanned |-> scanned + hit]
          \/ r = [status |-> "missing", at |-> <<>>, scanned |-> rest]
      BY ONLY <2>2
    <3> QED
      BY <3>1
  <2>4. ASSUME hits # {}
        PROVE  hit \in DOMAIN listing /\ Media!Matches(listing[hit], source)
    <3>1. hits \subseteq Nat
      BY LenProperties DEF hits
    <3>2. \E i \in hits : \A j \in hits : i <= j
      BY <2>4, <3>1, Least
    <3>3. hit \in hits
      BY <3>2 DEF hit, Media!Min
    <3> QED
      BY <3>3 DEF hits
  <2>5. ASSUME hits # {}
        PROVE  listing[hit] \in Media!Places /\ Media!HashOf(files[listing[hit]]) = source.hash
    BY <2>4, <2>5, LenProperties, ElementOfSeq DEF Media!Matches
  <2> QED
    BY <1>2, <2>3, <2>5
<1> QED
  BY <1>1, <1>2

\* What a report says of each source.
LEMMA ResolutionIs ==
    ASSUME sources \in Seq(Source), NEW listing \in Media!Listings, NEW found,
           found = Media!Resolution(listing)
    PROVE  /\ DOMAIN found = DOMAIN sources
           /\ \A i \in DOMAIN found :
                /\ found[i].status = "relocated" => found[i].at \in Media!Places
                /\ LET declared == Media!AbsoluteCandidate(sources[i].path) IN
                   found[i].status = "verified" <=>
                     /\ Media!Hashable(declared) /\ sources[i].hash # Media!Unknown
                     /\ Media!HashOf(files[declared]) = sources[i].hash
           /\ FoundIsTrue(found, sources, files)
<1> DEFINE scanned == CHOOSE f : f = [i \in 0 .. Len(sources) |->
                        IF i = 0 THEN 0
                        ELSE Media!ResolveSource(sources[i], listing, f[i - 1]).scanned]
<1>1. found = [i \in DOMAIN sources |-> Media!ResolveSource(sources[i], listing, scanned[i - 1])]
  BY DEF Media!Resolution
<1> HIDE DEF scanned
<1>2. /\ DOMAIN found = DOMAIN sources
      /\ \A i \in DOMAIN sources :
           found[i] = Media!ResolveSource(sources[i], listing, scanned[i - 1])
  BY <1>1
<1>3. listing \in Seq(Media!Places)
  BY ListingsArePlaces
<1>4. ASSUME NEW i \in DOMAIN sources
      PROVE  /\ found[i].status = "relocated" => found[i].at \in Media!Places
             /\ found[i].status \in {"verified", "relocated"} =>
                  Media!HashOf(files[found[i].at]) = sources[i].hash
             /\ found[i].status = "relocated" => sources[i].hash # Media!Unknown
             /\ LET declared == Media!AbsoluteCandidate(sources[i].path) IN
                found[i].status = "verified" <=>
                  /\ Media!Hashable(declared) /\ sources[i].hash # Media!Unknown
                  /\ Media!HashOf(files[declared]) = sources[i].hash
  BY <1>2, <1>3, ResolvedIs
<1> QED
  BY <1>2, <1>4 DEF FoundIsTrue

\* A document that was bound anew.
LEMMA BoundIs ==
    ASSUME NEW document \in Seq(Source), NEW found, DOMAIN found = DOMAIN document,
           \A i \in DOMAIN found : found[i].status = "relocated" => found[i].at \in Media!Places
    PROVE  /\ Bound(document, found) \in Seq(Source)
           /\ DOMAIN Bound(document, found) = DOMAIN document
           /\ \A i \in DOMAIN document :
                /\ Bound(document, found)[i].hash = document[i].hash
                /\ IF Media!BoundAnew(found[i])
                   THEN Media!AbsoluteCandidate(Bound(document, found)[i].path) = found[i].at
                   ELSE Bound(document, found)[i] = document[i]
<1> DEFINE bound == Bound(document, found)
<1>1. ASSUME NEW i \in DOMAIN document, Media!BoundAnew(found[i])
      PROVE  /\ bound[i] = [path |-> Media!Rewritten(found[i].at), hash |-> document[i].hash]
             /\ bound[i] \in Source /\ bound[i].hash = document[i].hash
             /\ Media!AbsoluteCandidate(bound[i].path) = found[i].at
  <2>1. bound[i] = [document[i] EXCEPT !.path = Media!Rewritten(found[i].at)]
    BY <1>1 DEF Bound
  <2>2. /\ document[i] = [path |-> document[i].path, hash |-> document[i].hash]
        /\ document[i].hash \in Nat \X Nat
    BY SourceFields
  <2>3. bound[i] = [path |-> Media!Rewritten(found[i].at), hash |-> document[i].hash]
    BY <2>1, <2>2
  <2> HIDE DEF bound
  <2>4. found[i].at \in Media!Places
    BY <1>1 DEF Media!BoundAnew
  <2>5. bound[i].path = Media!Rewritten(found[i].at) /\ bound[i].hash = document[i].hash
    BY <2>3
  <2>6. bound[i] \in Source
    BY <2>2, <2>3, <2>4, RewrittenType DEF Source
  <2> QED
    BY <2>3, <2>4, <2>5, <2>6, RewrittenNames
<1>2. ASSUME NEW i \in DOMAIN document, ~Media!BoundAnew(found[i])
      PROVE  bound[i] = document[i] /\ bound[i] \in Source
  BY <1>2, LenProperties, ElementOfSeq DEF Bound
<1>3. DOMAIN bound = DOMAIN document /\ bound = [i \in DOMAIN document |-> bound[i]]
  BY DEF Bound
<1>4. DOMAIN document = 1 .. Len(document) /\ Len(document) \in Nat
  BY LenProperties
<1> HIDE DEF bound
<1>5. bound \in Seq(Source)
  <2>1. \A i \in 1 .. Len(document) : bound[i] \in Source
    BY <1>1, <1>2, <1>4
  <2>2. bound \in [1 .. Len(document) -> Source]
    BY <1>3, <1>4, <2>1
  <2> QED
    BY <1>4, <2>2
<1>6. \A i \in DOMAIN document :
        /\ bound[i].hash = document[i].hash
        /\ IF Media!BoundAnew(found[i])
           THEN Media!AbsoluteCandidate(bound[i].path) = found[i].at
           ELSE bound[i] = document[i]
  BY <1>1, <1>2
<1> QED
  BY <1>3, <1>5, <1>6 DEF bound

LEMMA MediaInitInv == Media!Init => MediaInv
<1> SUFFICES ASSUME Media!Init
             PROVE  MediaInv
  OBVIOUS
<1>1. root = "home" /\ changes = 0 /\ mediaReport = Media!NoReport /\ sources \in Documents
  BY DEF Media!Init
<1>2. sources \in Seq(Source)
  BY <1>1, MediaAssumption DEF Source, Path
<1>3. mediaReport = [made |-> FALSE, found |-> <<>>, sources |-> <<>>, files |-> <<>>,
                     applied |-> FALSE]
  BY <1>1 DEF Media!NoReport
<1> QED
  BY <1>1, <1>2, <1>3 DEF MediaInv, Media!Folders

LEMMA ResolveInv == ASSUME MediaInv, Media!Resolve PROVE MediaInv'
<1>1. /\ root \in Media!Folders /\ changes \in Nat /\ sources \in Seq(Source)
      /\ UNCHANGED <<root, files, sources, changes>>
  BY DEF MediaInv, Media!Resolve
<1>2. PICK listing \in Media!Listings :
        mediaReport' = [made |-> TRUE, found |-> Media!Resolution(listing),
                        sources |-> sources, files |-> files, applied |-> FALSE]
  BY DEF Media!Resolve
<1> DEFINE found == Media!Resolution(listing)
<1>3. /\ DOMAIN found = DOMAIN sources
      /\ \A i \in DOMAIN found : found[i].status = "relocated" => found[i].at \in Media!Places
      /\ FoundIsTrue(found, sources, files)
  BY <1>1, ResolutionIs
<1>4. /\ mediaReport'.made = TRUE /\ mediaReport'.found = found
      /\ mediaReport'.sources = sources /\ mediaReport'.files = files
      /\ mediaReport'.applied = FALSE
  BY <1>2
<1> HIDE DEF found
<1>5. FoundIsTrue(mediaReport.found, mediaReport.sources, mediaReport.files)'
  BY <1>3, <1>4 DEF FoundIsTrue, Media!HashOf, Media!Unknown
<1>6. MediaReportOK'
  BY <1>1, <1>3, <1>4, <1>5 DEF MediaReportOK
<1>7. mediaReport' = [made |-> mediaReport'.made, found |-> mediaReport'.found,
                      sources |-> mediaReport'.sources, files |-> mediaReport'.files,
                      applied |-> mediaReport'.applied]
  BY <1>2, <1>4 DEF found
<1> QED
  BY <1>1, <1>4, <1>6, <1>7 DEF MediaInv

LEMMA ApplyInv == ASSUME MediaInv, Media!Apply PROVE MediaInv'
<1> DEFINE document == mediaReport.sources
           found == mediaReport.found
           held == mediaReport.files
<1>1. /\ root \in Media!Folders /\ changes \in Nat /\ mediaReport.made = TRUE
      /\ mediaReport = [made |-> mediaReport.made, found |-> found, sources |-> document,
                        files |-> held, applied |-> mediaReport.applied]
      /\ MediaReportOK /\ ~mediaReport.applied
      /\ mediaReport' = [mediaReport EXCEPT !.applied = TRUE]
      /\ UNCHANGED <<root, files, changes>>
  BY DEF MediaInv, Media!Apply
<1>2. /\ document \in Seq(Source) /\ DOMAIN found = DOMAIN document
      /\ \A i \in DOMAIN found : found[i].status = "relocated" => found[i].at \in Media!Places
      /\ sources = document /\ FoundIsTrue(found, document, held)
  BY <1>1 DEF MediaReportOK
<1>3. sources' = Bound(document, found)
  BY <1>2 DEF Media!Apply, Bound
<1>4. /\ mediaReport' = [made |-> TRUE, found |-> found, sources |-> document, files |-> held,
                         applied |-> TRUE]
      /\ mediaReport'.made = TRUE /\ mediaReport'.found = found
      /\ mediaReport'.sources = document /\ mediaReport'.files = held
      /\ mediaReport'.applied = TRUE
  <2>1. mediaReport' = [made |-> TRUE, found |-> found, sources |-> document, files |-> held,
                        applied |-> TRUE]
    BY <1>1
  <2> HIDE DEF found, document, held
  <2> QED
    BY <2>1
<1>5. sources' \in Seq(Source)
  <2> HIDE DEF found, document
  <2> QED
    BY <1>2, <1>3, BoundIs
<1>6. sources' = Bound(mediaReport.sources, mediaReport.found)'
  BY <1>1, <1>3, <1>4 DEF Bound, Media!BoundAnew, Media!Rewritten
<1> HIDE DEF found, document, held
<1>7. FoundIsTrue(mediaReport.found, mediaReport.sources, mediaReport.files)'
  BY <1>2, <1>4 DEF FoundIsTrue, Media!HashOf, Media!Unknown
<1>8. MediaReportOK'
  BY <1>2, <1>4, <1>6, <1>7 DEF MediaReportOK
<1> QED
  BY <1>1, <1>4, <1>5, <1>8 DEF MediaInv

\* A change of the file system is none of the report or of the document.
LEMMA ChangeInv ==
    ASSUME MediaInv, changes' = changes + 1, UNCHANGED <<sources, mediaReport>>,
           root' \in Media!Folders, mediaReport.made => root' = root
    PROVE  MediaInv'
<1>1. changes' \in Nat
  BY DEF MediaInv
<1>2. ASSUME mediaReport.made
      PROVE  MediaReportOK'
  <2>1. MediaReportOK /\ root' = root
    BY <1>2 DEF MediaInv
  <2>2. Bound(mediaReport.sources, mediaReport.found)' = Bound(mediaReport.sources, mediaReport.found)
    BY <2>1 DEF Bound, Media!BoundAnew, Media!Rewritten
  <2>3. FoundIsTrue(mediaReport.found, mediaReport.sources, mediaReport.files)'
    BY <2>1 DEF MediaReportOK, FoundIsTrue, Media!HashOf, Media!Unknown
  <2> QED
    BY <2>1, <2>2, <2>3 DEF MediaReportOK
<1> QED
  BY <1>1, <1>2 DEF MediaInv

LEMMA MediaNextInv == ASSUME MediaInv, Media!Next PROVE MediaInv'
<1>1. CASE Media!Resolve \/ Media!Apply
  BY <1>1, ResolveInv, ApplyInv
<1>2. CASE Media!MoveProject
  <2>1. /\ changes' = changes + 1 /\ UNCHANGED <<sources, mediaReport>>
        /\ root' = "moved" /\ ~mediaReport.made
    BY <1>2 DEF Media!MoveProject, Media!Change
  <2>2. root' \in Media!Folders
    BY <2>1 DEF Media!Folders
  <2> QED
    BY <2>1, <2>2, ChangeInv
<1>3. CASE \E place \in Media!Places, content \in Contents \cup {Media!NoFile} :
             Media!ReplaceFile(place, content)
  <2>1. changes' = changes + 1 /\ UNCHANGED <<sources, mediaReport>> /\ root' = root
    BY <1>3 DEF Media!ReplaceFile, Media!Change
  <2>2. root' \in Media!Folders
    BY <2>1 DEF MediaInv
  <2> QED
    BY <2>1, <2>2, ChangeInv
<1> QED
  BY <1>1, <1>2, <1>3 DEF Media!Next

LEMMA MediaStays == ASSUME MediaInv, UNCHANGED mediaVars PROVE MediaInv'
<1>1. UNCHANGED <<root, files, sources, mediaReport, changes>>
  BY DEF mediaVars
<1>2. MediaReportOK' = MediaReportOK
  BY <1>1 DEF MediaReportOK, Bound, Media!BoundAnew, Media!Rewritten, FoundIsTrue, Media!HashOf,
              Media!Unknown
<1> QED
  BY <1>1, <1>2 DEF MediaInv

LEMMA MediaInvBinds == MediaInv => Media!NeverBoundToOtherTake
<1> DEFINE document == mediaReport.sources
           found == mediaReport.found
<1> SUFFICES ASSUME MediaInv, NEW i \in DOMAIN sources, mediaReport.made
             PROVE  /\ found[i].status \in {"verified", "relocated"} =>
                         Media!HashOf(mediaReport.files[found[i].at]) = document[i].hash
                    /\ mediaReport.applied =>
                         IF Media!BoundAnew(found[i])
                         THEN /\ Media!AbsoluteCandidate(sources[i].path) = found[i].at
                              /\ sources[i].hash = document[i].hash
                              /\ \A listing \in Media!Listings :
                                   Media!Resolution(listing)[i].status = "verified" <=>
                                     /\ Media!Hashable(found[i].at)
                                     /\ Media!HashOf(files[found[i].at]) = document[i].hash
                         ELSE sources[i] = document[i]
  BY DEF Media!NeverBoundToOtherTake
<1>1. /\ sources \in Seq(Source) /\ document \in Seq(Source) /\ DOMAIN found = DOMAIN document
      /\ \A k \in DOMAIN found : found[k].status = "relocated" => found[k].at \in Media!Places
      /\ sources = IF mediaReport.applied THEN Bound(document, found) ELSE document
      /\ FoundIsTrue(found, document, mediaReport.files)
  BY DEF MediaInv, MediaReportOK
<1> HIDE DEF document, found
<1>2. ASSUME mediaReport.applied
      PROVE  /\ i \in DOMAIN document /\ sources[i].hash = document[i].hash
             /\ IF Media!BoundAnew(found[i])
                THEN Media!AbsoluteCandidate(sources[i].path) = found[i].at
                ELSE sources[i] = document[i]
  <2>1. sources = Bound(document, found)
    BY <1>1, <1>2
  <2> QED
    BY <1>1, <2>1, BoundIs
<1>3. i \in DOMAIN document
  BY <1>1, <1>2
<1>4. ASSUME mediaReport.applied, Media!BoundAnew(found[i]), NEW listing \in Media!Listings
      PROVE  Media!Resolution(listing)[i].status = "verified" <=>
               /\ Media!Hashable(found[i].at)
               /\ Media!HashOf(files[found[i].at]) = document[i].hash
  <2> DEFINE r == Media!Resolution(listing)
  <2>1. /\ Media!AbsoluteCandidate(sources[i].path) = found[i].at
        /\ sources[i].hash = document[i].hash
    BY <1>2, <1>4
  <2>2. document[i].hash # Media!Unknown
    BY <1>1, <1>3, <1>4 DEF FoundIsTrue, Media!BoundAnew
  <2>3. DOMAIN r = DOMAIN sources
    BY <1>1, ResolutionIs
  <2>4. LET declared == Media!AbsoluteCandidate(sources[i].path) IN
        r[i].status = "verified" <=>
          /\ Media!Hashable(declared) /\ sources[i].hash # Media!Unknown
          /\ Media!HashOf(files[declared]) = sources[i].hash
    BY <1>1, <2>3, ResolutionIs
  <2> QED
    BY <2>1, <2>2, <2>4
<1> QED
  BY <1>1, <1>2, <1>3, <1>4 DEF FoundIsTrue

\* However the files of a session are moved, lost and replaced, and whatever the search folders
\* list: what a report says was found held what is remembered, a source that is bound anew names
\* that file, and the next report calls it verified as long as it still does; other sources
\* are as they were.
THEOREM SourcesStayBound == Spec => []NeverBoundToOtherTake
<1> DEFINE I == subject = "media" => MediaInv
<1>1. Init => I
  BY MediaInitInv DEF Init
<1>2. I /\ [Next]_vars => I'
  <2> SUFFICES ASSUME MediaInv, [Next]_vars, subject' = "media", subject = "media"
               PROVE  MediaInv'
    BY DEF Next, vars
  <2>1. CASE Next
    BY <2>1, MediaNextInv DEF Next
  <2>2. CASE UNCHANGED vars
    BY <2>2, MediaStays DEF vars
  <2> QED
    BY <2>1, <2>2
<1>3. I => NeverBoundToOtherTake
  BY MediaInvBinds DEF NeverBoundToOtherTake
<1> QED
  BY <1>1, <1>2, <1>3, PTL DEF Spec

-----------------------------------------------------------------------------
(* The compiler of render plans.                                           *)

\* The size of a set in the module of the compiler.
LEMMA SameCount == ASSUME NEW S PROVE Compiler!Cardinality(S) = Cardinality(S)
  BY DEF Compiler!Cardinality, Cardinality

\* The elements of a finite set can be numbered in any order in which each of its parts
\* has a first element.
LEMMA Enumerable ==
    ASSUME NEW S, IsFiniteSet(S), NEW R,
           \A T \in SUBSET S : T # {} => \E x \in T : \A y \in T \ {x} : <<x, y>> \in R
    PROVE  \E s \in [1 .. Cardinality(S) -> S] :
              \A i, j \in 1 .. Cardinality(S) : i < j => <<s[i], s[j]>> \in R /\ s[i] # s[j]
<1> DEFINE Numbers(T, n, s) ==
             /\ s \in [1 .. n -> T]
             /\ \A i, j \in 1 .. n : i < j => <<s[i], s[j]>> \in R /\ s[i] # s[j]
           Q == {n \in Nat : \A T \in SUBSET S :
                               Cardinality(T) = n => \E s : Numbers(T, n, s)}
<1>1. 0 \in Q
  <2> SUFFICES ASSUME NEW T \in SUBSET S PROVE \E s : Numbers(T, 0, s)
    OBVIOUS
  <2>1. Numbers(T, 0, [i \in 1 .. 0 |-> CHOOSE x \in T : TRUE])
    OBVIOUS
  <2> QED
    BY <2>1
<1>2. ASSUME NEW n \in Nat, n \in Q
      PROVE  n + 1 \in Q
  <2> SUFFICES ASSUME NEW T \in SUBSET S, Cardinality(T) = n + 1
               PROVE  \E s : Numbers(T, n + 1, s)
    OBVIOUS
  <2>1. IsFiniteSet(T)
    BY FS_Subset
  <2>2. T # {}
    BY <2>1, FS_EmptySet
  <2>3. PICK x \in T : \A y \in T \ {x} : <<x, y>> \in R
    BY <2>2
  <2>4. Cardinality(T \ {x}) = n /\ T \ {x} \in SUBSET S
    <3>1. Cardinality(T \ {x}) = Cardinality(T) - 1
      BY <2>1, FS_RemoveElement
    <3> QED
      BY <3>1
  <2>5. PICK s : Numbers(T \ {x}, n, s)
    BY <1>2, <2>4
  <2> DEFINE u == [i \in 1 .. n + 1 |-> IF i = 1 THEN x ELSE s[i - 1]]
  <2>6. ASSUME NEW i \in 1 .. n + 1, i # 1
        PROVE  i - 1 \in 1 .. n /\ u[i] = s[i - 1] /\ s[i - 1] \in T \ {x}
    BY <2>5, <2>6
  <2>7. u \in [1 .. n + 1 -> T] /\ u[1] = x
    <3>1. 1 \in 1 .. n + 1
      OBVIOUS
    <3> QED
      BY <2>6, <3>1
  <2> HIDE DEF u
  <2>8. ASSUME NEW i \in 1 .. n + 1, NEW j \in 1 .. n + 1, i < j
        PROVE  <<u[i], u[j]>> \in R /\ u[i] # u[j]
    <3>1. j # 1 /\ j - 1 \in 1 .. n /\ u[j] = s[j - 1] /\ u[j] \in T \ {x}
      BY <2>6, <2>8
    <3>2. CASE i = 1
      BY <2>3, <2>7, <3>1, <3>2
    <3>3. CASE i # 1
      <4>1. i - 1 \in 1 .. n /\ u[i] = s[i - 1] /\ i - 1 < j - 1
        BY <2>6, <2>8, <3>3
      <4> QED
        BY <2>5, <3>1, <4>1
    <3> QED
      BY <3>2, <3>3
  <2> QED
    BY <2>7, <2>8
<1>3. Nat \subseteq Q
  <2> HIDE DEF Q
  <2> QED
    BY <1>1, <1>2, NatInd
<1>4. Cardinality(S) \in Nat
  BY FS_CardinalityType
<1>5. \E s : Numbers(S, Cardinality(S), s)
  <2> HIDE DEF Numbers
  <2> QED
    BY <1>3, <1>4
<1> QED
  BY <1>5

\* As many different elements as the set has are all of them.
LEMMA AllNumbered ==
    ASSUME NEW S, IsFiniteSet(S), NEW s \in [1 .. Cardinality(S) -> S],
           \A i, j \in 1 .. Cardinality(S) : i < j => s[i] # s[j]
    PROVE  \A x \in S : \E i \in 1 .. Cardinality(S) : s[i] = x
<1> DEFINE n == Cardinality(S)
<1>1. n \in Nat /\ IsFiniteSet(1 .. n) /\ Cardinality(1 .. n) = n
  BY FS_CardinalityType, FS_Interval
<1>2. \A i, j \in 1 .. n : s[i] = s[j] => i = j
  BY <1>1
<1>3. s \in Injection(1 .. n, S)
  BY <1>2 DEF Injection, IsInjective
<1>4. s \in Surjection(1 .. n, S)
  BY <1>1, <1>3, FS_Injection
<1> QED
  BY <1>4 DEF Surjection

\* A sequence that holds each element of a set once.
Lists(s, S) ==
    /\ s \in Seq(S) /\ Len(s) = Cardinality(S) /\ DOMAIN s = 1 .. Cardinality(S)
    /\ \A i, j \in DOMAIN s : s[i] = s[j] => i = j
    /\ \A x \in S : \E i \in DOMAIN s : s[i] = x

LEMMA SortedLists ==
    ASSUME NEW S \in SUBSET Nat, IsFiniteSet(S)
    PROVE  Lists(Compiler!Sorted(S), S)
<1> DEFINE R == {p \in Nat \X Nat : p[1] < p[2]}
           n == Cardinality(S)
           s == Compiler!Sorted(S)
<1>1. n \in Nat
  BY FS_CardinalityType
<1>2. ASSUME NEW T \in SUBSET S, T # {}
      PROVE  \E x \in T : \A y \in T \ {x} : <<x, y>> \in R
  <2>1. PICK x \in T : \A y \in T : x <= y
    BY <1>2, Least
  <2>2. \A y \in T \ {x} : x \in Nat /\ y \in Nat /\ x < y
    BY <2>1
  <2> QED
    BY <2>2
<1>3. PICK t \in [1 .. n -> S] : \A i, j \in 1 .. n : i < j => <<t[i], t[j]>> \in R /\ t[i] # t[j]
  <2> HIDE DEF R
  <2> QED
    BY <1>2, Enumerable
<1>4. DOMAIN t = 1 .. n /\ \A i, j \in DOMAIN t : i < j => t[i] < t[j]
  BY <1>3
<1> DEFINE Q(u) == \A i, j \in DOMAIN u : i < j => u[i] < u[j]
<1>5. s \in [1 .. n -> S] /\ Q(s)
  <2>1. s = CHOOSE u \in [1 .. n -> S] : Q(u)
    BY SameCount DEF Compiler!Sorted
  <2>2. Q(t)
    BY <1>4
  <2> HIDE DEF s, n, Q
  <2> QED
    BY <2>1, <2>2
<1> HIDE DEF s
<1>6. \A i, j \in 1 .. n : i < j => s[i] # s[j]
  <2> TAKE i, j \in 1 .. n
  <2>1. s[i] \in Nat /\ s[j] \in Nat /\ (i < j => s[i] < s[j])
    BY <1>5
  <2> QED
    BY <2>1
<1>7. \A x \in S : \E i \in 1 .. n : s[i] = x
  BY <1>5, <1>6, AllNumbered
<1>8. \A i, j \in 1 .. n : s[i] = s[j] => i = j
  <2> TAKE i, j \in 1 .. n
  <2>1. i < j \/ j < i \/ i = j
    BY <1>1
  <2> QED
    BY <1>6, <2>1
<1> QED
  BY <1>1, <1>5, <1>7, <1>8 DEF Lists, s

\* Signals are pairs of numbers.
Signals == Nat \X Nat

LEMMA SortedSignalsLists ==
    ASSUME NEW S \in SUBSET Signals, IsFiniteSet(S)
    PROVE  Lists(Compiler!SortedSignals(S), S)
<1> DEFINE R == {p \in Signals \X Signals : Compiler!SignalBefore(p[1], p[2])}
           n == Cardinality(S)
           s == Compiler!SortedSignals(S)
<1>1. n \in Nat
  BY FS_CardinalityType
<1>2. ASSUME NEW T \in SUBSET S, T # {}
      PROVE  \E x \in T : \A y \in T \ {x} : <<x, y>> \in R
  <2> DEFINE A == {x[1] : x \in T}
  <2>1. PICK a \in A : \A b \in A : a <= b
    <3>1. A \subseteq Nat /\ A # {}
      BY <1>2 DEF Signals
    <3> QED
      BY <3>1, Least
  <2> DEFINE B == {x[2] : x \in {y \in T : y[1] = a}}
  <2>2. PICK b \in B : \A c \in B : b <= c
    <3>1. B \subseteq Nat /\ B # {}
      BY <2>1 DEF Signals
    <3> QED
      BY <3>1, Least
  <2>3. PICK x \in T : x[1] = a /\ x[2] = b
    BY <2>2
  <2>4. ASSUME NEW y \in T \ {x}
        PROVE  <<x, y>> \in R
    <3>1. /\ x \in Signals /\ y \in Signals /\ y[1] \in A /\ a <= y[1]
          /\ y[1] = a => b <= y[2]
      BY <2>1, <2>2
    <3>2. x[1] \in Nat /\ x[2] \in Nat /\ y[1] \in Nat /\ y[2] \in Nat
          /\ x = <<x[1], x[2]>> /\ y = <<y[1], y[2]>>
      BY <3>1 DEF Signals
    <3>3. y[1] # x[1] \/ y[2] # x[2]
      BY <3>2
    <3>4. Compiler!SignalBefore(x, y)
      BY <2>3, <3>1, <3>2, <3>3 DEF Compiler!SignalBefore
    <3> QED
      BY <3>1, <3>4
  <2> QED
    BY <2>4
<1>3. PICK t \in [1 .. n -> S] : \A i, j \in 1 .. n : i < j => <<t[i], t[j]>> \in R /\ t[i] # t[j]
  <2> HIDE DEF R
  <2> QED
    BY <1>2, Enumerable
<1>4. DOMAIN t = 1 .. n /\ \A i, j \in DOMAIN t : i < j => Compiler!SignalBefore(t[i], t[j])
  BY <1>3
<1> DEFINE Q(u) == \A i, j \in DOMAIN u : i < j => Compiler!SignalBefore(u[i], u[j])
<1>5. s \in [1 .. n -> S] /\ Q(s)
  <2>1. s = CHOOSE u \in [1 .. n -> S] : Q(u)
    BY SameCount DEF Compiler!SortedSignals
  <2>2. Q(t)
    BY <1>4
  <2> HIDE DEF s, n, Q
  <2> QED
    BY <2>1, <2>2
<1> HIDE DEF s
<1>6. \A i, j \in 1 .. n : i < j => s[i] # s[j]
  <2> TAKE i, j \in 1 .. n
  <2>1. /\ s[i] \in Signals
        /\ i < j => Compiler!SignalBefore(s[i], s[j])
    BY <1>5
  <2>2. s[i][1] \in Nat /\ s[i][2] \in Nat
    BY <2>1 DEF Signals
  <2>3. ~Compiler!SignalBefore(s[i], s[i])
    BY <2>2 DEF Compiler!SignalBefore
  <2> QED
    BY <2>1, <2>3
<1>7. \A x \in S : \E i \in 1 .. n : s[i] = x
  BY <1>5, <1>6, AllNumbered
<1>8. \A i, j \in 1 .. n : s[i] = s[j] => i = j
  <2> TAKE i, j \in 1 .. n
  <2>1. i < j \/ j < i \/ i = j
    BY <1>1
  <2> QED
    BY <1>6, <2>1
<1> QED
  BY <1>1, <1>5, <1>7, <1>8 DEF Lists, s

\* What the edits of a graph keep: its connections are between its nodes.
GraphInv ==
    /\ nodes \in SUBSET NodeIds /\ IsFiniteSet(nodes) /\ info \in Layouts
    /\ connections \in SUBSET Compiler!Connections /\ IsFiniteSet(connections)
    /\ \A c \in connections :
          c.from \in nodes /\ c.to \in nodes /\ c.from # c.to /\ ~Compiler!HasMixedLaneTypes(c)

LEMMA GraphInitInv == Compiler!Init => GraphInv
  BY FS_EmptySet DEF Compiler!Init, GraphInv

LEMMA GraphNextInv == ASSUME GraphInv, Compiler!Next PROVE GraphInv'
<1>1. CASE Compiler!Clear
  BY <1>1, FS_EmptySet DEF Compiler!Clear, GraphInv
<1>2. ASSUME NEW id \in NodeIds, Compiler!AddNode(id)
      PROVE  GraphInv'
  BY <1>2, FS_AddElement DEF Compiler!AddNode, GraphInv
<1>3. ASSUME NEW id \in NodeIds, Compiler!RemoveNode(id)
      PROVE  GraphInv'
  <2>1. /\ nodes' = nodes \ {id} /\ connections' \in SUBSET connections /\ info' = info
        /\ \A c \in connections' : c.from # id /\ c.to # id
    BY <1>3 DEF Compiler!RemoveNode
  <2>2. IsFiniteSet(nodes') /\ IsFiniteSet(connections')
    BY <2>1, FS_RemoveElement, FS_Subset DEF GraphInv
  <2> QED
    BY <2>1, <2>2 DEF GraphInv
<1>4. ASSUME NEW c \in Compiler!Connections, Compiler!AddConnection(c)
      PROVE  GraphInv'
  BY <1>4, FS_AddElement DEF Compiler!AddConnection, GraphInv
<1>5. ASSUME NEW c \in connections, Compiler!RemoveConnection(c)
      PROVE  GraphInv'
  BY <1>5, FS_RemoveElement DEF Compiler!RemoveConnection, GraphInv
<1> QED
  BY <1>1, <1>2, <1>3, <1>4, <1>5 DEF Compiler!Next

LEMMA GraphStays == ASSUME GraphInv, UNCHANGED compilerVars PROVE GraphInv'
  BY DEF compilerVars, GraphInv

\* The nodes before and after a node are nodes, and finitely many.
LEMMA Neighbours ==
    ASSUME GraphInv, NEW n
    PROVE  /\ Compiler!Producers(n) \in SUBSET nodes /\ IsFiniteSet(Compiler!Producers(n))
           /\ Compiler!Successors(n) \in SUBSET nodes /\ IsFiniteSet(Compiler!Successors(n))
           /\ \A m : m \in Compiler!Successors(n) <=> n \in Compiler!Producers(m)
<1>1. Compiler!Producers(n) \in SUBSET nodes /\ Compiler!Successors(n) \in SUBSET nodes
  BY DEF GraphInv, Compiler!Producers, Compiler!Successors
<1>2. IsFiniteSet(Compiler!Producers(n)) /\ IsFiniteSet(Compiler!Successors(n))
  BY <1>1, FS_Subset DEF GraphInv
<1>3. \A m : m \in Compiler!Successors(n) <=> n \in Compiler!Producers(m)
  BY DEF Compiler!Producers, Compiler!Successors
<1> QED
  BY <1>1, <1>2, <1>3

\* A sequence without its first element, and one behind it.
LEMMA TailJoined ==
    ASSUME NEW S, NEW r \in Seq(S), r # <<>>, NEW f \in Seq(S)
    PROVE  LET t == Tail(r) \o f
               n == Len(r) - 1
           IN  /\ t \in Seq(S) /\ n \in Nat /\ Len(t) = n + Len(f)
               /\ \A k \in 1 .. n : t[k] = r[k + 1]
               /\ \A k \in 1 .. Len(f) : t[n + k] = f[k]
<1> DEFINE u == Tail(r)
           n == Len(r) - 1
           t == u \o f
<1>1. /\ Len(r) \in Nat \ {0} /\ n \in Nat /\ Len(f) \in Nat
      /\ u \in Seq(S) /\ Len(u) = n /\ \A k \in 1 .. n : u[k] = r[k + 1]
  BY LenProperties, EmptySeq, HeadTailProperties
<1> HIDE DEF u, n
<1>2. /\ t \in Seq(S) /\ Len(t) = n + Len(f)
      /\ \A k \in 1 .. n + Len(f) : t[k] = IF k <= n THEN u[k] ELSE f[k - n]
  BY <1>1, ConcatProperties
<1>3. \A k \in 1 .. n : t[k] = r[k + 1]
  <2> TAKE k \in 1 .. n
  <2>1. k \in 1 .. n + Len(f) /\ k <= n
    BY <1>1
  <2> QED
    BY <1>1, <1>2, <2>1
<1>4. \A k \in 1 .. Len(f) : t[n + k] = f[k]
  <2> TAKE k \in 1 .. Len(f)
  <2>1. n + k \in 1 .. n + Len(f) /\ ~(n + k <= n) /\ (n + k) - n = k
    BY <1>1
  <2> QED
    BY <1>2, <2>1
<1> QED
  BY <1>1, <1>2, <1>3, <1>4 DEF u, n

\* What the choice of the order keeps: nothing is ordered before its producers or twice, the
\* degree of a node counts its producers still to come, and what waits for none is ready.
Elements(s) == {s[i] : i \in DOMAIN s}
Distinct(s) == \A i, j \in DOMAIN s : s[i] = s[j] => i = j
ProducersFirst(order) ==
    \A i \in DOMAIN order : \A n \in Compiler!Producers(order[i]) :
       \E j \in DOMAIN order : j < i /\ order[j] = n

Takings ==
    {s \in [order : Seq(nodes), degree : [nodes -> Nat], ready : Seq(nodes)] :
       /\ Distinct(s.order) /\ Distinct(s.ready) /\ ProducersFirst(s.order)
       /\ Elements(s.order) \cap Elements(s.ready) = {}
       /\ \A n \in nodes :
            /\ s.degree[n] = Cardinality(Compiler!Producers(n) \ Elements(s.order))
            /\ s.degree[n] = 0 <=> n \in Elements(s.order) \cup Elements(s.ready)}

LEMMA ElementsOf == ASSUME NEW S, NEW s \in Seq(S) PROVE Elements(s) \in SUBSET S
  BY ElementOfSeq DEF Elements

\* One more at the end of a sequence.
LEMMA ElementsAppended ==
    ASSUME NEW S, NEW s \in Seq(S), NEW x \in S
    PROVE  /\ Elements(Append(s, x)) = Elements(s) \cup {x}
           /\ Distinct(s) /\ x \notin Elements(s) => Distinct(Append(s, x))
<1> DEFINE t == Append(s, x)
<1>1. /\ Len(s) \in Nat /\ DOMAIN s = 1 .. Len(s) /\ DOMAIN t = 1 .. Len(s) + 1
      /\ \A i \in 1 .. Len(s) : t[i] = s[i]
      /\ t[Len(s) + 1] = x
  BY LenProperties, AppendProperties
<1> HIDE DEF t
<1>2. \A i \in 1 .. Len(s) + 1 : i \in 1 .. Len(s) \/ i = Len(s) + 1
  BY <1>1
<1>3. Elements(t) = Elements(s) \cup {x}
  <2>1. Len(s) + 1 \in 1 .. Len(s) + 1 /\ \A i \in 1 .. Len(s) : i \in 1 .. Len(s) + 1
    BY <1>1
  <2> QED
    BY <1>1, <1>2, <2>1 DEF Elements
<1>4. ASSUME Distinct(s), x \notin Elements(s)
      PROVE  Distinct(t)
  BY <1>1, <1>2, <1>4 DEF Elements, Distinct
<1> QED
  BY <1>3, <1>4 DEF t

\* A sequence without its first element, and the elements of a set behind it.
LEMMA ElementsTaken ==
    ASSUME NEW S, NEW r \in Seq(S), r # <<>>, Distinct(r), NEW T \in SUBSET S, NEW f, Lists(f, T),
           T \cap Elements(r) = {}
    PROVE  LET t == Tail(r) \o f IN
           /\ t \in Seq(S) /\ Distinct(t) /\ Head(r) \in Elements(r)
           /\ Elements(t) = (Elements(r) \ {Head(r)}) \cup T
<1> DEFINE t == Tail(r) \o f
           n == Len(r) - 1
           m == Len(f)
<1>1. /\ Len(r) \in Nat \ {0} /\ DOMAIN r = 1 .. Len(r) /\ Head(r) = r[1]
  BY LenProperties, EmptySeq, HeadTailProperties
<1>2. f \in Seq(S) /\ m \in Nat /\ DOMAIN f = 1 .. m /\ Elements(f) = T /\ Distinct(f)
  <2>1. f \in Seq(T) /\ f \in Seq(S)
    BY DEF Lists
  <2>2. m \in Nat /\ DOMAIN f = 1 .. m
    BY <2>1, LenProperties
  <2>3. Elements(f) = T
    BY <2>1, ElementsOf DEF Lists, Elements
  <2> QED
    BY <2>1, <2>2, <2>3 DEF Lists, Distinct
<1>3. /\ t \in Seq(S) /\ n \in Nat /\ Len(t) = n + m
      /\ \A k \in 1 .. n : t[k] = r[k + 1]
      /\ \A k \in 1 .. m : t[n + k] = f[k]
  BY <1>2, TailJoined
<1>4. DOMAIN t = 1 .. n + m
  BY <1>3, LenProperties
<1> HIDE DEF t
<1>5. n + 1 = Len(r) /\ DOMAIN r = 1 .. n + 1 /\ 1 \in 1 .. n + 1
  BY <1>1
<1> HIDE DEF n, m
<1>6. \A k \in 1 .. n + m : k \in 1 .. n \/ \E l \in 1 .. m : k = n + l
  <2> TAKE k \in 1 .. n + m
  <2>1. k \in 1 .. n \/ (k - n \in 1 .. m /\ k = n + (k - n))
    BY <1>2, <1>3
  <2> QED
    BY <2>1
<1>7. \A k \in 1 .. n : k \in 1 .. n + m /\ k + 1 \in 1 .. n + 1 /\ k + 1 # 1
  BY <1>2, <1>3
<1>8. \A l \in 1 .. m : n + l \in 1 .. n + m
  BY <1>2, <1>3
<1>9. \A i \in 1 .. n + 1 : i = 1 \/ (i - 1 \in 1 .. n /\ i = (i - 1) + 1)
  BY <1>3
<1>10. Elements(t) \subseteq (Elements(r) \ {Head(r)}) \cup T
  <2> SUFFICES ASSUME NEW k \in 1 .. n + m
               PROVE  t[k] \in (Elements(r) \ {Head(r)}) \cup T
    BY <1>4 DEF Elements
  <2>1. CASE k \in 1 .. n
    <3>1. t[k] = r[k + 1] /\ r[k + 1] # r[1]
      BY <1>3, <1>5, <1>7, <2>1 DEF Distinct
    <3> QED
      BY <1>1, <1>5, <1>7, <2>1, <3>1 DEF Elements
  <2>2. CASE \E l \in 1 .. m : k = n + l
    BY <1>2, <1>3, <2>2 DEF Elements
  <2> QED
    BY <1>6, <2>1, <2>2
<1>11. (Elements(r) \ {Head(r)}) \cup T \subseteq Elements(t)
  <2>1. ASSUME NEW i \in 1 .. n + 1, r[i] # r[1]
        PROVE  r[i] \in Elements(t)
    <3>1. i - 1 \in 1 .. n /\ i = (i - 1) + 1
      BY <1>9, <2>1
    <3>2. t[i - 1] = r[i] /\ i - 1 \in DOMAIN t
      BY <1>3, <1>4, <1>7, <3>1
    <3> QED
      BY <3>2 DEF Elements
  <2>2. ASSUME NEW x \in T
        PROVE  x \in Elements(t)
    <3>1. PICK l \in 1 .. m : f[l] = x
      BY <1>2 DEF Elements
    <3>2. t[n + l] = x /\ n + l \in DOMAIN t
      BY <1>3, <1>4, <1>8, <3>1
    <3> QED
      BY <3>2 DEF Elements
  <2> QED
    BY <1>1, <1>5, <2>1, <2>2 DEF Elements
<1>12. Distinct(t)
  <2> SUFFICES ASSUME NEW k \in 1 .. n + m, NEW l \in 1 .. n + m, t[k] = t[l]
               PROVE  k = l
    BY <1>4 DEF Distinct
  <2>1. ASSUME NEW a \in 1 .. n, NEW b \in 1 .. m
        PROVE  t[a] # t[n + b]
    <3>1. t[a] \in Elements(r)
      BY <1>3, <1>5, <1>7 DEF Elements
    <3>2. t[n + b] \in T
      BY <1>2, <1>3 DEF Elements
    <3> QED
      BY <3>1, <3>2
  <2>2. ASSUME NEW a \in 1 .. n, NEW b \in 1 .. n, t[a] = t[b]
        PROVE  a = b
    <3>1. r[a + 1] = r[b + 1] /\ a + 1 \in 1 .. n + 1 /\ b + 1 \in 1 .. n + 1
      BY <1>3, <1>7, <2>2
    <3>2. a + 1 = b + 1
      BY <1>5, <3>1 DEF Distinct
    <3> QED
      BY <3>2
  <2>3. ASSUME NEW a \in 1 .. m, NEW b \in 1 .. m, t[n + a] = t[n + b]
        PROVE  a = b
    <3>1. t[n + a] = f[a] /\ t[n + b] = f[b]
      BY <1>3
    <3>2. f[a] = f[b] /\ a \in DOMAIN f /\ b \in DOMAIN f
      BY <1>2, <2>3, <3>1
    <3> QED
      BY <1>2, <3>2 DEF Distinct
  <2> QED
    BY <1>6, <2>1, <2>2, <2>3
<1> QED
  BY <1>1, <1>3, <1>5, <1>10, <1>11, <1>12 DEF t, Elements

\* A set with an element taken out counts one less.
LEMMA OneLess ==
    ASSUME NEW P, IsFiniteSet(P), NEW E, NEW x
    PROVE  /\ Cardinality(P \ E) \in Nat
           /\ Cardinality(P \ E) = 0 => P \subseteq E
           /\ P \subseteq E => Cardinality(P \ E) = 0
           /\ x \in P \ E => Cardinality(P \ (E \cup {x})) = Cardinality(P \ E) - 1
           /\ x \notin P => Cardinality(P \ (E \cup {x})) = Cardinality(P \ E)
<1>1. IsFiniteSet(P \ E) /\ Cardinality(P \ E) \in Nat
  BY FS_Difference, FS_CardinalityType
<1>2. Cardinality(P \ E) = 0 <=> P \ E = {}
  BY <1>1, FS_EmptySet
<1>3. ASSUME x \in P \ E
      PROVE  Cardinality(P \ (E \cup {x})) = Cardinality(P \ E) - 1
  <2>1. P \ (E \cup {x}) = (P \ E) \ {x}
    OBVIOUS
  <2>2. Cardinality((P \ E) \ {x}) = Cardinality(P \ E) - 1
    BY <1>1, <1>3, FS_RemoveElement
  <2> QED
    BY <2>1, <2>2
<1>4. ASSUME x \notin P
      PROVE  Cardinality(P \ (E \cup {x})) = Cardinality(P \ E)
  <2>1. P \ (E \cup {x}) = P \ E
    BY <1>4
  <2> QED
    BY <2>1
<1> QED
  BY <1>1, <1>2, <1>3, <1>4

\* The next node that is taken has all its producers behind it (TakeNext).
LEMMA TakeNextTakes ==
    ASSUME GraphInv, NEW s \in Takings, s.ready # <<>>
    PROVE  /\ Compiler!TakeNext(s) \in Takings
           /\ Len(Compiler!TakeNext(s).order) = Len(s.order) + 1
<1> DEFINE t == Compiler!TakeNext(s)
           id == Head(s.ready)
           E == Elements(s.order)
           R == Elements(s.ready)
           N == {n \in Compiler!Successors(id) : s.degree[n] = 1}
           P(n) == Compiler!Producers(n)
<1>1. /\ s.order \in Seq(nodes) /\ s.ready \in Seq(nodes) /\ s.degree \in [nodes -> Nat]
      /\ Distinct(s.order) /\ Distinct(s.ready) /\ ProducersFirst(s.order) /\ E \cap R = {}
      /\ \A n \in nodes : /\ s.degree[n] = Cardinality(P(n) \ E)
                          /\ s.degree[n] = 0 <=> n \in E \cup R
  BY DEF Takings
<1>2. /\ t.order = Append(s.order, id)
      /\ t.degree = [n \in nodes |-> IF n \in Compiler!Successors(id) THEN s.degree[n] - 1
                                     ELSE s.degree[n]]
      /\ t.ready = Tail(s.ready) \o Compiler!Sorted(N)
      /\ t = [order |-> t.order, degree |-> t.degree, ready |-> t.ready]
  BY DEF Compiler!TakeNext
<1> HIDE DEF t
<1>3. N \in SUBSET nodes /\ IsFiniteSet(N) /\ N \in SUBSET Nat
  <2>1. N \subseteq Compiler!Successors(id)
    OBVIOUS
  <2>2. N \in SUBSET nodes /\ IsFiniteSet(N)
    BY <2>1, Neighbours, FS_Subset
  <2> QED
    BY <2>2, CompilerAssumption DEF GraphInv
<1>4. Lists(Compiler!Sorted(N), N)
  BY <1>3, SortedLists
<1>5. R \in SUBSET nodes /\ E \in SUBSET nodes
  BY <1>1, ElementsOf
<1>6. N \cap R = {} /\ N \cap E = {}
  <2> SUFFICES ASSUME NEW n \in N
               PROVE  n \notin E \cup R
    OBVIOUS
  <2>1. n \in nodes /\ s.degree[n] # 0
    BY <1>3
  <2> QED
    BY ONLY <1>1, <2>1
<1>7. /\ t.ready \in Seq(nodes) /\ Distinct(t.ready) /\ id \in R
      /\ Elements(t.ready) = (R \ {id}) \cup N
  <2> DEFINE f == Compiler!Sorted(N)
             r == s.ready
  <2>1. r \in Seq(nodes) /\ r # <<>> /\ Distinct(r) /\ N \in SUBSET nodes
        /\ Lists(f, N) /\ N \cap Elements(r) = {}
    BY <1>1, <1>3, <1>4, <1>6
  <2>2. t.ready = Tail(r) \o f
    BY <1>2
  <2> HIDE DEF f, r, N
  <2>3. /\ t.ready \in Seq(nodes) /\ Distinct(t.ready) /\ Head(r) \in Elements(r)
        /\ Elements(t.ready) = (Elements(r) \ {Head(r)}) \cup N
    BY <2>1, <2>2, ElementsTaken
  <2> QED
    BY <2>3 DEF r
<1> HIDE DEF id
<1>8. id \in nodes /\ id \notin E /\ s.degree[id] = 0
  BY <1>1, <1>5, <1>7
<1>9. /\ t.order \in Seq(nodes) /\ Distinct(t.order) /\ Elements(t.order) = E \cup {id}
      /\ Len(t.order) = Len(s.order) + 1
  BY <1>1, <1>2, <1>8, ElementsAppended, AppendProperties
<1>10. ASSUME NEW n \in nodes
       PROVE  /\ n \in N <=> id \in P(n) /\ s.degree[n] = 1
              /\ IsFiniteSet(P(n)) /\ (n \in Compiler!Successors(id) <=> id \in P(n))
              /\ s.degree[n] = Cardinality(P(n) \ E)
              /\ s.degree[n] = 0 <=> n \in E \cup R
              /\ t.degree[n] = IF id \in P(n) THEN s.degree[n] - 1 ELSE s.degree[n]
  <2>1. /\ Compiler!Producers(n) \in SUBSET nodes /\ IsFiniteSet(Compiler!Producers(n))
        /\ n \in Compiler!Successors(id) <=> id \in Compiler!Producers(n)
    BY Neighbours
  <2>2. t.degree[n] = IF n \in Compiler!Successors(id) THEN s.degree[n] - 1 ELSE s.degree[n]
    BY <1>2
  <2> QED
    BY <1>1, <2>1, <2>2
<1> HIDE DEF P, N, E, R
<1>11. P(id) \subseteq E
  BY <1>8, <1>10, OneLess
<1>12. ASSUME NEW n \in nodes
       PROVE  /\ t.degree[n] \in Nat
              /\ t.degree[n] = Cardinality(P(n) \ Elements(t.order))
              /\ t.degree[n] = 0 <=> n \in Elements(t.order) \cup Elements(t.ready)
  <2> DEFINE d == s.degree[n]
             e == t.degree[n]
             p == P(n)
  <2>1. /\ IsFiniteSet(p) /\ d = Cardinality(p \ E)
        /\ d = 0 <=> n \in E \cup R
        /\ n \in N <=> (id \in p /\ d = 1)
        /\ e = IF id \in p THEN d - 1 ELSE d
    BY <1>10
  <2> HIDE DEF d, e, p
  <2>2. /\ d \in Nat
        /\ p \subseteq E => d = 0
        /\ id \in p \ E => Cardinality(p \ (E \cup {id})) = d - 1
        /\ id \notin p => Cardinality(p \ (E \cup {id})) = d
    BY <2>1, OneLess
  <2>3. CASE id \in p
    <3>1. ~(p \subseteq E) /\ id \in p \ E
      BY <1>8, <2>3
    <3>2. /\ Cardinality(p \ (E \cup {id})) = e /\ e \in Nat /\ d # 0
          /\ e = 0 <=> d = 1
      <4>1. d # 0
        <5>1. d = 0 => p \subseteq E
          BY <2>1, OneLess
        <5> QED
          BY <3>1, <5>1
      <4> QED
        BY <2>1, <2>2, <2>3, <3>1, <4>1
    <3>3. n \notin E /\ n \notin R
      BY <2>1, <3>2
    <3>4. n \in Elements(t.order) \cup Elements(t.ready) <=> n \in N
      BY <1>7, <1>8, <1>9, <3>3
    <3>5. n \in N <=> d = 1
      BY <2>1, <2>3
    <3> QED
      BY <1>9, <3>2, <3>4, <3>5 DEF e, p
  <2>4. CASE id \notin p
    <3>1. n \notin N /\ e = d
      BY <2>1, <2>4
    <3>2. n \in Elements(t.order) \cup Elements(t.ready) <=> n \in E \cup R
      BY <1>7, <1>8, <1>9, <3>1
    <3>3. e \in Nat /\ e = Cardinality(p \ (E \cup {id}))
      BY <2>2, <2>4, <3>1
    <3>4. e = 0 <=> n \in E \cup R
      BY <2>1, <3>1
    <3> QED
      BY <1>9, <3>2, <3>3, <3>4 DEF e, p
  <2> QED
    BY <2>3, <2>4
<1>13. t.degree \in [nodes -> Nat]
  <2>1. \A n \in nodes : t.degree[n] \in Nat
    BY <1>12
  <2> QED
    BY <1>2, <2>1
<1>14. ProducersFirst(t.order)
  <2>1. /\ Len(s.order) \in Nat /\ DOMAIN s.order = 1 .. Len(s.order)
        /\ DOMAIN t.order = 1 .. Len(s.order) + 1
        /\ \A i \in 1 .. Len(s.order) : t.order[i] = s.order[i]
        /\ t.order[Len(s.order) + 1] = id
    BY <1>1, <1>2, <1>8, LenProperties, AppendProperties
  <2> DEFINE l == Len(s.order)
             o == t.order
             p == s.order
  <2> HIDE DEF l, o, p
  <2> SUFFICES ASSUME NEW i \in 1 .. l + 1, NEW n \in P(o[i])
               PROVE  \E j \in 1 .. l + 1 : j < i /\ o[j] = n
    BY <2>1 DEF ProducersFirst, l, o, P
  <2>2. /\ l \in Nat /\ DOMAIN p = 1 .. l /\ \A j \in 1 .. l : o[j] = p[j] /\ j \in 1 .. l + 1
        /\ o[l + 1] = id /\ \A j \in 1 .. l : j < l + 1
    BY <2>1 DEF l, o, p
  <2>3. CASE i \in 1 .. l
    <3>1. n \in P(p[i]) /\ i \in DOMAIN p
      BY <2>2, <2>3
    <3>2. PICK j \in DOMAIN p : j < i /\ p[j] = n
      BY <1>1, <3>1 DEF ProducersFirst, p, P
    <3> QED
      BY <2>2, <3>2
  <2>4. CASE i = l + 1
    <3>1. n \in E
      BY <1>11, <2>2, <2>4 DEF P
    <3>2. PICK j \in 1 .. l : p[j] = n
      BY <2>2, <3>1 DEF Elements, E, p
    <3> QED
      BY <2>2, <2>4, <3>2
  <2>5. i \in 1 .. l \/ i = l + 1
    BY <2>2
  <2> QED
    BY <2>3, <2>4, <2>5
<1>15. Elements(t.order) \cap Elements(t.ready) = {}
  <2>1. id \notin N
    <3>1. id \in N => s.degree[id] = 1
      BY <1>8, <1>10
    <3> QED
      BY <1>8, <3>1
  <2> QED
    BY <1>1, <1>6, <1>7, <1>8, <1>9, <2>1
<1>16. t \in [order : Seq(nodes), degree : [nodes -> Nat], ready : Seq(nodes)]
  BY <1>2, <1>7, <1>9, <1>13
<1>17. t \in Takings
  BY <1>7, <1>9, <1>12, <1>14, <1>15, <1>16 DEF Takings, P
<1> QED
  BY <1>9, <1>17 DEF t

\* Different elements of a finite set are no more than it has; as many are all of it.
LEMMA HowMany ==
    ASSUME NEW S, IsFiniteSet(S), NEW s \in Seq(S), Distinct(s)
    PROVE  /\ Len(s) <= Cardinality(S) /\ Cardinality(S) \in Nat
           /\ Len(s) = Cardinality(S) <=> Elements(s) = S
<1>1. Len(s) \in Nat /\ DOMAIN s = 1 .. Len(s) /\ s \in [1 .. Len(s) -> S]
  BY LenProperties
<1>2. IsFiniteSet(1 .. Len(s)) /\ Cardinality(1 .. Len(s)) = Len(s) /\ Cardinality(S) \in Nat
  <2>1. /\ IsFiniteSet(1 .. Len(s))
        /\ Cardinality(1 .. Len(s)) = IF 1 > Len(s) THEN 0 ELSE Len(s) - 1 + 1
    BY <1>1, FS_Interval
  <2> QED
    BY <1>1, <2>1, FS_CardinalityType
<1> DEFINE E == Elements(s)
<1>3. E \subseteq S /\ IsFiniteSet(E)
  BY ElementsOf, FS_Subset
<1>4. s \in Bijection(1 .. Len(s), E)
  BY <1>1 DEF Elements, Distinct, Bijection, Injection, Surjection, IsInjective
<1>5. Cardinality(E) = Len(s)
  BY <1>2, <1>4, FS_Bijection DEF ExistsBijection
<1>6. Cardinality(E) <= Cardinality(S) /\ (Cardinality(E) = Cardinality(S) => E = S)
  BY <1>3, FS_Subset
<1> QED
  BY <1>2, <1>5, <1>6

\* The first nodes, in the order they are taken.
LEMMA FirstTaken ==
    ASSUME GraphInv
    PROVE  LET degree == [n \in nodes |-> Compiler!Cardinality(Compiler!Producers(n))]
               start == [order |-> <<>>, degree |-> degree,
                         ready |-> Compiler!Sorted({n \in nodes : degree[n] = 0})]
           IN  start \in Takings /\ Len(start.order) = 0
<1> DEFINE degree == [n \in nodes |-> Compiler!Cardinality(Compiler!Producers(n))]
           R == {n \in nodes : degree[n] = 0}
           ready == Compiler!Sorted(R)
<1>1. degree = [n \in nodes |-> Cardinality(Compiler!Producers(n))]
  BY SameCount
<1>2. degree \in [nodes -> Nat]
  BY <1>1, Neighbours, FS_CardinalityType
<1>3. R \in SUBSET nodes /\ R \in SUBSET Nat /\ IsFiniteSet(R)
  BY CompilerAssumption, FS_Subset DEF GraphInv
<1>4. Lists(ready, R)
  BY <1>3, SortedLists
<1> HIDE DEF ready, R
<1>5. ready \in Seq(nodes) /\ Distinct(ready) /\ Elements(ready) = R
  <2>1. ready \in Seq(R)
    BY <1>4 DEF Lists
  <2>2. ready \in Seq(nodes)
    BY <1>3, <2>1, SeqMonotonic
  <2>3. Elements(ready) = R
    BY <1>4, <2>1, ElementsOf DEF Lists, Elements
  <2> QED
    BY <1>4, <2>2, <2>3 DEF Lists, Distinct
<1> DEFINE start == [order |-> <<>>, degree |-> degree, ready |-> ready]
<1>6. /\ <<>> \in Seq(nodes) /\ Len(<<>>) = 0 /\ Elements(<<>>) = {} /\ Distinct(<<>>)
      /\ ProducersFirst(<<>>)
  BY DEF Elements, Distinct, ProducersFirst
<1>7. ASSUME NEW n \in nodes
      PROVE  /\ degree[n] = Cardinality(Compiler!Producers(n) \ {})
             /\ degree[n] = 0 <=> n \in {} \cup R
  BY <1>1 DEF R
<1>8. start \in Takings /\ Len(start.order) = 0
  <2> HIDE DEF degree
  <2> QED
    BY <1>2, <1>5, <1>6, <1>7 DEF Takings
<1> QED
  BY <1>8 DEF start, ready, R

\* The order of a graph: no node before its producers or twice, and every node whose producers
\* are in it (compileRenderPlan).
LEMMA OrderIs ==
    ASSUME GraphInv
    PROVE  /\ Compiler!Order \in Seq(nodes) /\ Distinct(Compiler!Order)
           /\ ProducersFirst(Compiler!Order)
           /\ \A n \in nodes :
                Compiler!Producers(n) \subseteq Elements(Compiler!Order)
                  => n \in Elements(Compiler!Order)
<1> DEFINE N == Compiler!Cardinality(nodes)
           degree == [n \in nodes |-> Compiler!Cardinality(Compiler!Producers(n))]
           start == [order |-> <<>>, degree |-> degree,
                     ready |-> Compiler!Sorted({n \in nodes : degree[n] = 0})]
           body(f) == [i \in 0 .. N |-> IF i = 0 THEN start ELSE Compiler!TakeNext(f[i - 1])]
           taken == CHOOSE f : f = body(f)
           S == [i \in 0 .. N |-> {s \in Takings : s.ready = <<>> \/ Len(s.order) = i}]
           step == [i \in 1 .. N |-> [s \in S[i - 1] |-> Compiler!TakeNext(s)]]
<1>1. N \in Nat /\ N = Cardinality(nodes) /\ IsFiniteSet(nodes)
  BY SameCount, FS_CardinalityType DEF GraphInv
<1>2. Compiler!Order = taken[N].order
  BY DEF Compiler!Order
<1>3. start \in Takings /\ Len(start.order) = 0
  BY FirstTaken
<1> HIDE DEF N, start, taken
<1>4. /\ \A i \in 0 .. N : S[i] = {s \in Takings : s.ready = <<>> \/ Len(s.order) = i}
      /\ \A i \in 1 .. N : step[i] = [s \in S[i - 1] |-> Compiler!TakeNext(s)]
  OBVIOUS
<1> HIDE DEF S, step
<1>5. ASSUME NEW i \in 1 .. N, NEW s \in S[i - 1]
      PROVE  Compiler!TakeNext(s) \in S[i]
  <2>1. s \in Takings /\ (s.ready = <<>> \/ Len(s.order) = i - 1) /\ i \in 0 .. N /\ i - 1 \in 0 .. N
    BY <1>1, <1>4
  <2>2. CASE s.ready = <<>>
    BY <1>4, <2>1, <2>2 DEF Compiler!TakeNext
  <2>3. CASE s.ready # <<>>
    BY <1>1, <1>4, <2>1, <2>3, TakeNextTakes
  <2> QED
    BY <2>2, <2>3
<1>6. start \in S[0]
  BY <1>1, <1>3, <1>4
<1>7. \A i \in 1 .. N : step[i] \in [S[i - 1] -> S[i]]
  BY <1>4, <1>5
<1>8. PICK g : Recurs(g, N, S, start, step)
  BY <1>1, <1>6, <1>7, Recursion
<1>9. g = body(g)
  <2>1. ASSUME NEW i \in 0 .. N
        PROVE  g[i] = IF i = 0 THEN start ELSE Compiler!TakeNext(g[i - 1])
    <3>1. CASE i = 0
      BY <1>8, <3>1 DEF Recurs
    <3>2. CASE i # 0
      <4>1. i \in 1 .. N
        BY <1>1, <3>2
      <4>2. g[i - 1] \in S[i - 1] /\ g[i] = step[i][g[i - 1]]
        BY <1>8, <4>1 DEF Recurs
      <4> QED
        BY <1>4, <3>2, <4>1, <4>2
    <3> QED
      BY <3>1, <3>2
  <2>2. g = [i \in 0 .. N |-> g[i]]
    BY <1>8 DEF Recurs
  <2> QED
    BY <2>1, <2>2
<1>10. taken = body(taken)
  BY <1>9 DEF taken
<1>11. /\ taken[0] = start
       /\ \A i \in 1 .. N : taken[i] = Compiler!TakeNext(taken[i - 1])
  <2>1. 0 \in 0 .. N /\ \A i \in 1 .. N : i \in 0 .. N /\ i # 0
    BY <1>1
  <2> QED
    BY <1>10, <2>1
<1> HIDE DEF body
<1>12. taken[N] \in S[N]
  <2>1. \A i \in 0 .. N : taken[i] \in S[i]
    BY <1>1, <1>5, <1>6, <1>11, Reached
  <2> QED
    BY <1>1, <2>1
<1> DEFINE s == taken[N]
<1>13. s \in Takings /\ (s.ready = <<>> \/ Len(s.order) = N)
  BY <1>1, <1>4, <1>12
<1> HIDE DEF s
<1>14. s.order \in Seq(nodes) /\ Distinct(s.order) /\ ProducersFirst(s.order) /\ s.ready \in Seq(nodes)
       /\ Elements(s.order) \cap Elements(s.ready) = {}
  BY <1>13 DEF Takings
<1>15. ASSUME NEW n \in nodes, Compiler!Producers(n) \subseteq Elements(s.order)
       PROVE  n \in Elements(s.order)
  <2>1. n \in Elements(s.order) \cup Elements(s.ready)
    <3>1. s.degree[n] = Cardinality(Compiler!Producers(n) \ Elements(s.order))
          /\ (s.degree[n] = 0 => n \in Elements(s.order) \cup Elements(s.ready))
      BY <1>13 DEF Takings
    <3>2. Compiler!Producers(n) \ Elements(s.order) = {}
      BY <1>15
    <3> QED
      BY <3>1, <3>2, FS_EmptySet
  <2>2. CASE s.ready = <<>>
    BY <2>1, <2>2 DEF Elements
  <2>3. CASE Len(s.order) = N
    BY <1>1, <1>14, <2>3, HowMany
  <2> QED
    BY <1>13, <2>2, <2>3
<1> QED
  BY <1>2, <1>14, <1>15 DEF s

\* A graph is ordered whole unless a set of its nodes feeds itself.
Acyclic ==
    \A S \in SUBSET nodes :
       S # {} => \E n \in S : \A c \in connections : c.to = n => c.from \notin S

LEMMA OrderedUnlessCyclic ==
    ASSUME GraphInv
    PROVE  /\ Len(Compiler!Order) = Compiler!Cardinality(nodes) <=> Acyclic
           /\ Acyclic => Elements(Compiler!Order) = nodes
<1> DEFINE o == Compiler!Order
           E == Elements(o)
<1>1. /\ o \in Seq(nodes) /\ Distinct(o) /\ ProducersFirst(o)
      /\ \A n \in nodes : Compiler!Producers(n) \subseteq E => n \in E
  BY OrderIs
<1> HIDE DEF o
<1>2. Len(o) = Compiler!Cardinality(nodes) <=> E = nodes
  BY <1>1, HowMany, SameCount DEF GraphInv
<1>3. E \subseteq nodes /\ DOMAIN o = 1 .. Len(o) /\ Len(o) \in Nat
  BY <1>1, ElementsOf, LenProperties
<1>4. ASSUME Acyclic
      PROVE  E = nodes
  <2> SUFFICES ASSUME E # nodes
               PROVE  FALSE
    OBVIOUS
  <2>1. nodes \ E # {} /\ nodes \ E \in SUBSET nodes
    BY <1>3
  <2>2. PICK n \in nodes \ E : \A c \in connections : c.to = n => c.from \notin nodes \ E
    BY <1>4, <2>1 DEF Acyclic
  <2>3. Compiler!Producers(n) \subseteq E
    BY <2>2, Neighbours DEF Compiler!Producers
  <2> QED
    BY <1>1, <2>2, <2>3
<1>5. ASSUME E = nodes
      PROVE  Acyclic
  <2> SUFFICES ASSUME NEW S \in SUBSET nodes, S # {}
               PROVE  \E n \in S : \A c \in connections : c.to = n => c.from \notin S
    BY DEF Acyclic
  <2> DEFINE I == {i \in 1 .. Len(o) : o[i] \in S}
  <2>1. I \subseteq Nat /\ I # {}
    BY <1>3, <1>5 DEF Elements
  <2>2. PICK i \in I : \A j \in I : i <= j
    BY <2>1, Least
  <2>3. ASSUME NEW c \in connections, c.to = o[i], c.from \in S
        PROVE  FALSE
    <3>1. c.from \in Compiler!Producers(o[i])
      BY <2>3 DEF Compiler!Producers
    <3>2. PICK j \in 1 .. Len(o) : j < i /\ o[j] = c.from
      BY <1>1, <1>3, <2>2, <3>1 DEF ProducersFirst
    <3>3. j \in I
      BY <2>3, <3>2
    <3> QED
      BY <1>3, <2>2, <3>2, <3>3
  <2> QED
    BY <2>2, <2>3
<1> QED
  BY <1>2, <1>4, <1>5 DEF o

\* Every finite set of numbers but the empty one has a greatest.
LEMMA FiniteGreatest ==
    ASSUME NEW T \in SUBSET Nat, IsFiniteSet(T), T # {}
    PROVE  \E m \in T : \A x \in T : x <= m
<1> DEFINE Q == {n \in Nat : \A S \in SUBSET Nat :
                               IsFiniteSet(S) /\ Cardinality(S) = n /\ S # {}
                                 => \E m \in S : \A x \in S : x <= m}
<1>1. 0 \in Q
  BY FS_EmptySet
<1>2. ASSUME NEW n \in Nat, n \in Q
      PROVE  n + 1 \in Q
  <2> SUFFICES ASSUME NEW S \in SUBSET Nat, IsFiniteSet(S), Cardinality(S) = n + 1, S # {}
               PROVE  \E m \in S : \A x \in S : x <= m
    OBVIOUS
  <2>1. PICK y \in S : TRUE
    OBVIOUS
  <2> DEFINE R == S \ {y}
  <2>2. R \in SUBSET Nat /\ IsFiniteSet(R) /\ Cardinality(R) = n
    <3>1. IsFiniteSet(R) /\ Cardinality(R) = Cardinality(S) - 1
      BY FS_RemoveElement
    <3> QED
      BY <3>1
  <2>3. S = R \cup {y} /\ y \in Nat
    BY <2>1
  <2> HIDE DEF R
  <2>4. CASE R = {}
    BY <2>3, <2>4
  <2>5. CASE R # {}
    <3>1. PICK m \in R : \A x \in R : x <= m
      BY <1>2, <2>2, <2>5
    <3>2. m \in Nat /\ \A x \in R : x \in Nat
      BY <2>2
    <3>3. CASE y <= m
      BY <2>3, <3>1, <3>3
    <3>4. CASE m < y
      <4>1. \A x \in R : x <= y
        BY <2>3, <3>1, <3>2, <3>4
      <4> QED
        BY <2>3, <4>1
    <3> QED
      BY <2>3, <3>2, <3>3, <3>4
  <2> QED
    BY <2>4, <2>5
<1>3. Nat \subseteq Q
  <2> HIDE DEF Q
  <2> QED
    BY <1>1, <1>2, NatInd
<1>4. Cardinality(T) \in Nat
  BY FS_CardinalityType
<1> QED
  BY <1>3, <1>4

\* What the compiler takes as the greatest and the least.
LEMMA MaxIs ==
    ASSUME NEW S \in SUBSET Int, NEW m \in S, \A x \in S : x <= m
    PROVE  Compiler!Max(S) = m
<1> DEFINE G(x) == \A y \in S : x >= y
<1>1. G(m)
  OBVIOUS
<1>2. Compiler!Max(S) = CHOOSE x \in S : G(x)
  BY DEF Compiler!Max
<1>3. \A x \in S : G(x) => x = m
  OBVIOUS
<1> HIDE DEF G
<1> QED
  BY <1>1, <1>2, <1>3

LEMMA MinIs ==
    ASSUME NEW S \in SUBSET Nat, S # {}
    PROVE  Compiler!Min(S) \in S
<1> DEFINE G(x) == \A y \in S : x <= y
<1>1. \E m \in S : G(m)
  BY Least
<1>2. Compiler!Min(S) = CHOOSE x \in S : G(x)
  BY DEF Compiler!Min
<1> HIDE DEF G
<1> QED
  BY <1>1, <1>2

LEMMA Greater ==
    ASSUME NEW a \in Nat, NEW b \in Nat
    PROVE  Compiler!Max({a, b}) \in Nat /\ a <= Compiler!Max({a, b}) /\ b <= Compiler!Max({a, b})
<1>1. CASE a <= b
  <2>1. Compiler!Max({a, b}) = b
    BY <1>1, MaxIs
  <2> QED
    BY <1>1, <2>1
<1>2. CASE b < a
  <2>1. Compiler!Max({a, b}) = a
    BY <1>2, MaxIs
  <2> QED
    BY <1>2, <2>1
<1> QED
  BY <1>1, <1>2

\* The numbers of a graph whose ports fit (RenderPlan.cpp's first checks).
LEMMA Metadata ==
    ASSUME GraphInv, Compiler!PortsFit
    PROVE  /\ \A n \in nodes : /\ info[n].ins \in Nat /\ info[n].outs \in Nat
                               /\ info[n].latency \in Nat /\ n \in Nat
           /\ \A c \in Compiler!AudioConnections :
                /\ c \in connections /\ c.from \in nodes /\ c.to \in nodes
                /\ c.out \in 0 .. info[c.from].outs - 1 /\ c.in \in 0 .. info[c.to].ins - 1
           /\ IsFiniteSet(Compiler!AudioConnections)
<1>1. ASSUME NEW n \in nodes
      PROVE  /\ info[n].ins \in Nat /\ info[n].outs \in Nat /\ info[n].latency \in Nat /\ n \in Nat
  <2>1. n \in DOMAIN info /\ info \in Layouts /\ n \in NodeIds
    BY DEF GraphInv, Compiler!PortsFit
  <2>2. info[n].ins \in Int /\ info[n].outs \in Int /\ info[n].latency \in Int /\ n \in Nat
    BY <2>1, CompilerAssumption
  <2> QED
    BY <2>2 DEF Compiler!PortsFit
<1>2. ASSUME NEW c \in Compiler!AudioConnections
      PROVE  /\ c \in connections /\ c.from \in nodes /\ c.to \in nodes
             /\ c.out \in 0 .. info[c.from].outs - 1 /\ c.in \in 0 .. info[c.to].ins - 1
  <2>1. c \in connections /\ c \in Compiler!Connections /\ c.from \in nodes /\ c.to \in nodes
        /\ ~Compiler!IsMidi(c) /\ ~Compiler!HasMixedLaneTypes(c)
    BY DEF Compiler!AudioConnections, GraphInv
  <2>2. c.out # Compiler!MidiLane /\ c.in # Compiler!MidiLane
    BY <2>1 DEF Compiler!IsMidi, Compiler!HasMixedLaneTypes
  <2>3. c.out \in Nat /\ c.in \in Nat
    BY <2>1, <2>2, CompilerAssumption DEF Compiler!Connections
  <2>4. c.out < info[c.from].outs /\ c.in < info[c.to].ins
    BY DEF Compiler!PortsFit
  <2> QED
    BY <1>1, <2>1, <2>3, <2>4
<1>3. IsFiniteSet(Compiler!AudioConnections)
  BY FS_Subset DEF Compiler!AudioConnections, GraphInv
<1> QED
  BY <1>1, <1>2, <1>3

\* When the inputs of a node arrive.
Times(at, id) ==
    {0} \cup {at[c.from] + info[c.from].latency : c \in {a \in Compiler!AudioConnections : a.to = id}}

LEMMA TimesAre ==
    ASSUME GraphInv, Compiler!PortsFit, NEW at \in [nodes -> Nat], NEW id
    PROVE  /\ Times(at, id) \in SUBSET Nat /\ Compiler!Max(Times(at, id)) \in Times(at, id)
           /\ \A x \in Times(at, id) : x <= Compiler!Max(Times(at, id))
<1> DEFINE C == {a \in Compiler!AudioConnections : a.to = id}
           F == {at[c.from] + info[c.from].latency : c \in C}
<1>1. IsFiniteSet(C) /\ \A c \in C : at[c.from] + info[c.from].latency \in Nat
  BY Metadata, FS_Subset
<1>2. IsFiniteSet(F)
  <2> DEFINE f == [c \in C |-> at[c.from] + info[c.from].latency]
  <2>1. f \in Surjection(C, F)
    BY DEF Surjection
  <2> QED
    BY <1>1, <2>1, FS_Surjection
<1>3. F \in SUBSET Nat
  BY <1>1
<1> HIDE DEF C, F
<1>4. Times(at, id) = F \cup {0}
  BY DEF Times, F, C
<1>5. IsFiniteSet(F \cup {0})
  BY <1>2, FS_AddElement
<1>6. PICK m \in F \cup {0} : \A x \in F \cup {0} : x <= m
  BY <1>3, <1>5, FiniteGreatest
<1>7. Compiler!Max(F \cup {0}) = m
  BY <1>3, <1>6, MaxIs
<1> DEFINE G == F \cup {0}
<1>8. G \in SUBSET Nat /\ m \in G /\ (\A x \in G : x <= m) /\ Compiler!Max(G) = m
      /\ Times(at, id) = G
  BY <1>3, <1>4, <1>6, <1>7
<1> HIDE DEF G
<1> QED
  BY <1>8

\* Every node that is ordered gets the time its latest input arrives (compileRenderPlan).
LEMMA ArrivalsAre ==
    ASSUME GraphInv, Compiler!PortsFit,
           NEW o \in Seq(nodes), Distinct(o), ProducersFirst(o)
    PROVE  /\ Compiler!Arrivals(o) \in [nodes -> Nat]
           /\ \A i \in DOMAIN o :
                Compiler!Arrivals(o)[o[i]] = Compiler!Max(Times(Compiler!Arrivals(o), o[i]))
<1> DEFINE N == Len(o)
           start == [n \in nodes |-> 0]
           body(f) == [i \in 0 .. N |-> IF i = 0 THEN start ELSE Compiler!Arrive(f[i - 1], o[i])]
           arrived == CHOOSE f : f = body(f)
           S == [i \in 0 .. N |-> {at \in [nodes -> Nat] :
                                     \A j \in 1 .. i : at[o[j]] = Compiler!Max(Times(at, o[j]))}]
           step == [i \in 1 .. N |-> [at \in S[i - 1] |-> Compiler!Arrive(at, o[i])]]
<1>1. N \in Nat /\ DOMAIN o = 1 .. N
  BY LenProperties
<1>2. Compiler!Arrivals(o) = arrived[N]
  BY DEF Compiler!Arrivals
<1> HIDE DEF N, arrived
<1>3. /\ \A i \in 0 .. N : S[i] = {at \in [nodes -> Nat] :
                                     \A j \in 1 .. i : at[o[j]] = Compiler!Max(Times(at, o[j]))}
      /\ \A i \in 1 .. N : step[i] = [at \in S[i - 1] |-> Compiler!Arrive(at, o[i])]
  OBVIOUS
<1> HIDE DEF S, step
<1>4. ASSUME NEW i \in 1 .. N, NEW at \in S[i - 1]
      PROVE  Compiler!Arrive(at, o[i]) \in S[i]
  <2> DEFINE t == Compiler!Arrive(at, o[i])
             id == o[i]
  <2>1. i \in 0 .. N /\ i - 1 \in 0 .. N /\ id \in nodes
    BY <1>1, ElementOfSeq
  <2>2. /\ at \in [nodes -> Nat]
        /\ \A j \in 1 .. i - 1 : at[o[j]] = Compiler!Max(Times(at, o[j]))
    BY <1>3, <2>1
  <2>3. t = [at EXCEPT ![id] = Compiler!Max(Times(at, id))]
    BY DEF Compiler!Arrive, Times
  <2>4. Compiler!Max(Times(at, id)) \in Nat
    BY <2>2, TimesAre
  <2> HIDE DEF t, id
  <2>5. /\ t \in [nodes -> Nat] /\ t[id] = Compiler!Max(Times(at, id))
        /\ \A n \in nodes : n # id => t[n] = at[n]
    BY <2>1, <2>2, <2>3, <2>4
  <2>6. ASSUME NEW j \in 1 .. i
        PROVE  Times(t, o[j]) = Times(at, o[j])
    <3>1. ASSUME NEW c \in Compiler!AudioConnections, c.to = o[j]
          PROVE  t[c.from] = at[c.from]
      <4>1. c.from \in nodes /\ c.from \in Compiler!Producers(o[j]) /\ j \in DOMAIN o
        BY <1>1, <3>1, Metadata DEF Compiler!Producers
      <4>2. PICK k \in DOMAIN o : k < j /\ o[k] = c.from
        BY <4>1 DEF ProducersFirst
      <4>3. k # i
        BY <1>1, <4>2
      <4>4. c.from # id
        BY <1>1, <4>2, <4>3 DEF Distinct, id
      <4> QED
        BY <2>5, <4>1, <4>4
    <3> QED
      BY <3>1 DEF Times
  <2>7. ASSUME NEW j \in 1 .. i
        PROVE  t[o[j]] = Compiler!Max(Times(t, o[j]))
    <3>1. CASE j = i
      BY <2>5, <2>6, <3>1 DEF id
    <3>2. CASE j # i
      <4>1. j \in 1 .. i - 1 /\ j \in DOMAIN o /\ i \in DOMAIN o
        BY <1>1, <3>2
      <4>2. o[j] # id /\ o[j] \in nodes
        BY <1>1, <3>2, <4>1, ElementOfSeq DEF Distinct, id
      <4> QED
        BY <2>2, <2>5, <2>6, <4>1, <4>2
    <3> QED
      BY <3>1, <3>2
  <2>8. t \in S[i]
    BY <1>3, <2>1, <2>5, <2>7
  <2> QED
    BY <2>8 DEF t
<1>5. start \in S[0]
  BY <1>1, <1>3
<1> HIDE DEF start
<1>6. \A i \in 1 .. N : step[i] \in [S[i - 1] -> S[i]]
  BY <1>3, <1>4
<1>7. PICK g : Recurs(g, N, S, start, step)
  BY <1>1, <1>5, <1>6, Recursion
<1>8. g = body(g)
  <2>1. ASSUME NEW i \in 0 .. N
        PROVE  g[i] = IF i = 0 THEN start ELSE Compiler!Arrive(g[i - 1], o[i])
    <3>1. CASE i = 0
      BY <1>7, <3>1 DEF Recurs
    <3>2. CASE i # 0
      <4>1. i \in 1 .. N
        BY <1>1, <3>2
      <4>2. g[i - 1] \in S[i - 1] /\ g[i] = step[i][g[i - 1]]
        BY <1>7, <4>1 DEF Recurs
      <4> QED
        BY <1>3, <3>2, <4>1, <4>2
    <3> QED
      BY <3>1, <3>2
  <2>2. g = [i \in 0 .. N |-> g[i]]
    BY <1>7 DEF Recurs
  <2> QED
    BY <2>1, <2>2
<1>9. arrived = body(arrived)
  BY <1>8 DEF arrived, N, start
<1>10. /\ arrived[0] = start
       /\ \A i \in 1 .. N : arrived[i] = Compiler!Arrive(arrived[i - 1], o[i])
  <2>1. 0 \in 0 .. N /\ \A i \in 1 .. N : i \in 0 .. N /\ i # 0
    BY <1>1
  <2> QED
    BY <1>9, <2>1
<1> HIDE DEF body
<1>11. arrived[N] \in S[N]
  <2>1. \A i \in 0 .. N : arrived[i] \in S[i]
    BY <1>1, <1>4, <1>5, <1>10, Reached
  <2> QED
    BY <1>1, <2>1
<1>12. N \in 0 .. N
  BY <1>1
<1> QED
  BY <1>1, <1>2, <1>3, <1>11, <1>12

\* An order of all the nodes of a graph.
Ordered(o) ==
    o \in Seq(nodes) /\ Distinct(o) /\ ProducersFirst(o) /\ Elements(o) = nodes

\* The signals somebody reads; of them, those that are out and still to be read once so many
\* nodes are done.
AudioSignals == {<<c.from, c.out>> : c \in Compiler!AudioConnections}
Live(o, i) ==
    {p \in AudioSignals : (\E j \in 1 .. i : p[1] = o[j]) /\ Compiler!LastConsumer(o, p) > i}

LEMMA OrderedAre ==
    ASSUME GraphInv, NEW o, Ordered(o)
    PROVE  /\ Len(o) \in Nat /\ DOMAIN o = 1 .. Len(o) /\ o \in Seq(nodes) /\ Distinct(o)
           /\ \A i \in 1 .. Len(o) : o[i] \in nodes
           /\ \A n \in nodes : \E i \in 1 .. Len(o) : o[i] = n
<1>1. Len(o) \in Nat /\ DOMAIN o = 1 .. Len(o) /\ o \in Seq(nodes) /\ Distinct(o)
  BY LenProperties DEF Ordered
<1>2. \A i \in 1 .. Len(o) : o[i] \in nodes
  BY <1>1, ElementOfSeq
<1> QED
  BY <1>1, <1>2 DEF Ordered, Elements

\* The last reader of a signal is one, and no reader comes behind it.
LEMMA LastConsumerIs ==
    ASSUME GraphInv, NEW o, Ordered(o), NEW p
    PROVE  LET last == Compiler!LastConsumer(o, p) IN
           /\ last \in Int
           /\ \A i \in 1 .. Len(o) : \A c \in Compiler!AudioConnections :
                 c.to = o[i] /\ <<c.from, c.out>> = p => i <= last
           /\ last # -1 => /\ last \in 1 .. Len(o)
                           /\ \E c \in Compiler!AudioConnections :
                                 c.to = o[last] /\ <<c.from, c.out>> = p
<1> DEFINE I == {i \in DOMAIN o : \E c \in Compiler!AudioConnections :
                                     c.to = o[i] /\ <<c.from, c.out>> = p}
<1>1. Len(o) \in Nat /\ DOMAIN o = 1 .. Len(o)
  BY OrderedAre
<1>2. I \in SUBSET (1 .. Len(o))
  BY <1>1
<1>3. Compiler!LastConsumer(o, p) = Compiler!Max({-1} \cup I)
  BY DEF Compiler!LastConsumer
<1>4. \A i \in 1 .. Len(o) : \A c \in Compiler!AudioConnections :
         c.to = o[i] /\ <<c.from, c.out>> = p => i \in I
  BY <1>1
<1>5. \A i \in I : \E c \in Compiler!AudioConnections : c.to = o[i] /\ <<c.from, c.out>> = p
  OBVIOUS
<1> HIDE DEF I
<1> DEFINE K == {-1} \cup I
<1>6. \E m \in K : (\A x \in K : x <= m) /\ (m # -1 => m \in I)
  <2>1. CASE I = {}
    BY <2>1
  <2>2. CASE I # {}
    <3>1. IsFiniteSet(I) /\ I \in SUBSET Nat
      <4>1. IsFiniteSet(1 .. Len(o)) /\ 1 .. Len(o) \in SUBSET Nat
        BY <1>1, FS_Interval
      <4> QED
        BY <1>2, <4>1, FS_Subset
    <3>2. PICK m \in I : \A x \in I : x <= m
      BY <2>2, <3>1, FiniteGreatest
    <3> QED
      BY <3>1, <3>2
  <2> QED
    BY <2>1, <2>2
<1>7. PICK m \in K : (\A x \in K : x <= m) /\ (m # -1 => m \in I)
  BY <1>6
<1>8. K \in SUBSET Int /\ I \subseteq K
  BY <1>2
<1> HIDE DEF K
<1>9. Compiler!Max(K) = m
  BY <1>7, <1>8, MaxIs
<1>10. Compiler!LastConsumer(o, p) = m /\ m \in Int
  BY <1>3, <1>7, <1>8, <1>9 DEF K
<1> HIDE DEF K
<1>11. \A i \in 1 .. Len(o) : \A c \in Compiler!AudioConnections :
          c.to = o[i] /\ <<c.from, c.out>> = p => i <= m
  BY <1>4, <1>7, <1>8
<1> QED
  BY <1>2, <1>5, <1>7, <1>10, <1>11

\* What a node reads is out when its turn comes.
LEMMA InputsAreLive ==
    ASSUME GraphInv, NEW o, Ordered(o), NEW i \in 1 .. Len(o), NEW k
    PROVE  Compiler!AudioInputs(o[i], k) \subseteq Live(o, i - 1)
<1> SUFFICES ASSUME NEW c \in Compiler!AudioConnections, c.to = o[i], c.in = k
             PROVE  <<c.from, c.out>> \in Live(o, i - 1)
  BY DEF Compiler!AudioInputs
<1> DEFINE p == <<c.from, c.out>>
<1>1. Len(o) \in Nat /\ DOMAIN o = 1 .. Len(o)
  BY OrderedAre
<1>2. c.from \in Compiler!Producers(o[i])
  BY DEF Compiler!AudioConnections, Compiler!Producers
<1>3. PICK j \in 1 .. Len(o) : j < i /\ o[j] = c.from
  BY <1>1, <1>2 DEF Ordered, ProducersFirst
<1>4. Compiler!LastConsumer(o, p) \in Int /\ i <= Compiler!LastConsumer(o, p)
  BY LastConsumerIs
<1>5. j \in 1 .. i - 1 /\ p[1] = o[j] /\ p \in AudioSignals /\ Compiler!LastConsumer(o, p) > i - 1
  BY <1>1, <1>3, <1>4 DEF AudioSignals
<1> HIDE DEF p
<1>6. p \in Live(o, i - 1)
  BY <1>5 DEF Live
<1> QED
  BY <1>6 DEF p

\* The signals a node puts out that somebody reads.
KeptOf(o, i) ==
    {p \in {<<o[i], k>> : k \in 0 .. (info[o[i]].outs - 1)} : Compiler!LastConsumer(o, p) # -1}

LEMMA LiveNext ==
    ASSUME GraphInv, Compiler!PortsFit, NEW o, Ordered(o), NEW i \in 1 .. Len(o)
    PROVE  /\ Live(o, i) = {p \in Live(o, i - 1) \cup KeptOf(o, i) : Compiler!LastConsumer(o, p) # i}
           /\ Live(o, i - 1) \cap KeptOf(o, i) = {}
<1>1. /\ Len(o) \in Nat /\ DOMAIN o = 1 .. Len(o) /\ Distinct(o) /\ ProducersFirst(o)
      /\ \A j \in 1 .. Len(o) : o[j] \in nodes
  BY OrderedAre DEF Ordered
<1>2. ASSUME NEW p \in Live(o, i)
      PROVE  p \in Live(o, i - 1) \cup KeptOf(o, i) /\ Compiler!LastConsumer(o, p) # i
  <2>1. p \in AudioSignals /\ Compiler!LastConsumer(o, p) > i /\ Compiler!LastConsumer(o, p) \in Int
    BY LastConsumerIs DEF Live
  <2>2. PICK j \in 1 .. i : p[1] = o[j]
    BY DEF Live
  <2>3. CASE j = i
    <3>1. PICK c \in Compiler!AudioConnections : p = <<c.from, c.out>>
      BY <2>1 DEF AudioSignals
    <3>2. c.from = o[i] /\ c.out \in 0 .. info[o[i]].outs - 1
      BY <2>2, <2>3, <3>1, Metadata
    <3> QED
      BY <2>1, <3>1, <3>2 DEF KeptOf
  <2>4. CASE j # i
    <3>1. j \in 1 .. i - 1 /\ Compiler!LastConsumer(o, p) > i - 1
      BY <2>1, <2>4
    <3> QED
      BY <2>1, <2>2, <3>1 DEF Live
  <2> QED
    BY <2>1, <2>3, <2>4
<1>3. ASSUME NEW p \in Live(o, i - 1), Compiler!LastConsumer(o, p) # i
      PROVE  p \in Live(o, i)
  <2>1. p \in AudioSignals /\ Compiler!LastConsumer(o, p) > i - 1 /\ Compiler!LastConsumer(o, p) \in Int
    BY LastConsumerIs DEF Live
  <2>2. PICK j \in 1 .. i - 1 : p[1] = o[j]
    BY DEF Live
  <2>3. j \in 1 .. i /\ Compiler!LastConsumer(o, p) > i
    BY <1>3, <2>1
  <2> QED
    BY <2>1, <2>2, <2>3 DEF Live
<1>4. ASSUME NEW p \in KeptOf(o, i)
      PROVE  p \in Live(o, i) /\ p[1] = o[i]
  <2>1. p[1] = o[i] /\ Compiler!LastConsumer(o, p) # -1
    BY DEF KeptOf
  <2> DEFINE l == Compiler!LastConsumer(o, p)
  <2>2. l \in 1 .. Len(o) /\ \E c \in Compiler!AudioConnections : c.to = o[l] /\ <<c.from, c.out>> = p
    BY <2>1, LastConsumerIs
  <2>3. PICK c \in Compiler!AudioConnections : c.to = o[l] /\ <<c.from, c.out>> = p
    BY <2>2
  <2> HIDE DEF l
  <2>4. c.from \in Compiler!Producers(o[l]) /\ p \in AudioSignals /\ c.from = o[i]
    BY <2>1, <2>3 DEF Compiler!AudioConnections, Compiler!Producers, AudioSignals
  <2>5. PICK j \in 1 .. Len(o) : j < l /\ o[j] = c.from
    BY <1>1, <2>2, <2>4 DEF ProducersFirst
  <2>6. j = i
    BY <1>1, <2>4, <2>5 DEF Distinct
  <2>7. i \in 1 .. i /\ l > i
    BY <1>1, <2>2, <2>5, <2>6
  <2> QED
    BY <2>1, <2>4, <2>7 DEF Live, l
<1>5. ASSUME NEW p \in Live(o, i - 1)
      PROVE  p[1] # o[i]
  <2>1. PICK j \in 1 .. i - 1 : p[1] = o[j]
    BY DEF Live
  <2>2. j \in DOMAIN o /\ i \in DOMAIN o /\ j # i
    BY <1>1
  <2> QED
    BY <1>1, <2>1, <2>2 DEF Distinct
<1> QED
  BY <1>2, <1>3, <1>4, <1>5

-----------------------------------------------------------------------------
(* What a plan does when it is played.                                      *)

\* What the buffers of a playing plan hold, and what its nodes have heard.
Samples == [signal : Signals, delay : Nat]
Machines(B) ==
    [audio : [0 .. B - 1 -> Seq(Samples)], midi : [nodes -> Seq(Nat)],
     heard : [nodes -> Seq(Seq(Samples))], heardMidi : [nodes -> Seq(Nat)]]
StartMachine(B) ==
    [audio |-> [b \in 0 .. B - 1 |-> Compiler!Stale], midi |-> [n \in nodes |-> <<n, n>>],
     heard |-> [n \in nodes |-> <<>>], heardMidi |-> [n \in nodes |-> <<>>]]

Operations ==
    [op : {"clear"}, to : Nat] \cup [op : {"copy", "add"}, from : Nat, to : Nat]
    \cup [op : {"delay"}, to : Nat, samples : Nat] \cup [op : {"midiClear"}, to : nodes]
    \cup [op : {"midiMerge"}, from : nodes, to : nodes]
    \cup [op : {"process"}, node : nodes, channels : Seq(Nat)]

\* The states a plan goes through from one of them, and the one it gets to from the first.
Chain(run, m, ops) ==
    /\ run = [i \in 0 .. Len(ops) |-> run[i]] /\ run[0] = m
    /\ \A i \in 1 .. Len(ops) : run[i] = Compiler!Perform(run[i - 1], ops[i])
Plays(B, ops, m) == \E run : Chain(run, StartMachine(B), ops) /\ run[Len(ops)] = m

\* A plan goes on from where it was.
LEMMA PlaysOn ==
    ASSUME NEW B, NEW ops \in Seq(Operations), NEW more \in Seq(Operations), NEW m,
           Plays(B, ops, m), NEW on, Chain(on, m, more)
    PROVE  Plays(B, ops \o more, on[Len(more)])
<1> DEFINE all == ops \o more
           k == Len(ops)
           l == Len(more)
<1>1. /\ k \in Nat /\ l \in Nat /\ Len(all) = k + l
      /\ \A i \in 1 .. k + l : all[i] = IF i <= k THEN ops[i] ELSE more[i - k]
  BY LenProperties, ConcatProperties
<1>2. PICK run : Chain(run, StartMachine(B), ops) /\ run[k] = m
  BY DEF Plays
<1> HIDE DEF all, k, l
<1>3. /\ run[0] = StartMachine(B) /\ run[k] = m
      /\ \A i \in 1 .. k : run[i] = Compiler!Perform(run[i - 1], ops[i])
      /\ on[0] = m /\ \A i \in 1 .. l : on[i] = Compiler!Perform(on[i - 1], more[i])
  BY <1>2 DEF Chain, k, l
<1> DEFINE both == [i \in 0 .. k + l |-> IF i <= k THEN run[i] ELSE on[i - k]]
<1>4. /\ \A i \in 0 .. k : both[i] = run[i]
      /\ \A i \in 0 .. l : both[k + i] = on[i]
  <2>1. \A i \in 0 .. k : i \in 0 .. k + l /\ i <= k
    BY <1>1
  <2>2. ASSUME NEW i \in 0 .. l
        PROVE  both[k + i] = on[i]
    <3>1. k + i \in 0 .. k + l /\ (k + i) - k = i /\ (k + i <= k <=> i = 0)
      BY <1>1
    <3>2. CASE i = 0
      <4>1. k + i = k /\ k \in 0 .. k + l /\ k <= k
        BY <1>1, <3>2
      <4> QED
        BY <1>3, <3>2, <4>1
    <3>3. CASE i # 0
      BY <3>1, <3>3
    <3> QED
      BY <3>2, <3>3
  <2> QED
    BY <2>1, <2>2
<1>5. both = [i \in 0 .. k + l |-> both[i]]
  OBVIOUS
<1> HIDE DEF both
<1>6. ASSUME NEW i \in 1 .. k + l
      PROVE  both[i] = Compiler!Perform(both[i - 1], all[i])
  <2>1. CASE i <= k
    <3>1. i \in 1 .. k /\ i \in 0 .. k /\ i - 1 \in 0 .. k
      BY <1>1, <2>1
    <3> QED
      BY <1>1, <1>3, <1>4, <2>1, <3>1
  <2>2. CASE ~(i <= k)
    <3> DEFINE j == i - k
    <3>1. j \in 1 .. l /\ j \in 0 .. l /\ j - 1 \in 0 .. l /\ k + j = i /\ k + (j - 1) = i - 1
      BY <1>1, <2>2
    <3>2. all[i] = more[j]
      BY <1>1, <2>2
    <3> HIDE DEF j
    <3>3. both[i] = on[j] /\ both[i - 1] = on[j - 1]
      BY <1>4, <3>1
    <3> QED
      BY <1>3, <3>1, <3>2, <3>3
  <2> QED
    BY <2>1, <2>2
<1>7. both[0] = StartMachine(B) /\ both[k + l] = on[l]
  <2>1. 0 \in 0 .. k /\ l \in 0 .. l
    BY <1>1
  <2> QED
    BY <1>3, <1>4, <2>1
<1>8. Chain(both, StartMachine(B), all)
  BY <1>1, <1>5, <1>6, <1>7 DEF Chain
<1> QED
  BY <1>1, <1>7, <1>8 DEF Plays, all, l

\* One, two and three operations more.
LEMMA PlaysMore ==
    ASSUME NEW B, NEW ops \in Seq(Operations), NEW m, Plays(B, ops, m),
           NEW x \in Operations, NEW y \in Operations, NEW z \in Operations,
           NEW m1, m1 = Compiler!Perform(m, x), NEW m2, m2 = Compiler!Perform(m1, y),
           NEW m3, m3 = Compiler!Perform(m2, z)
    PROVE  /\ Plays(B, ops \o <<x>>, m1)
           /\ Plays(B, ops \o <<x, y>>, m2)
           /\ Plays(B, ops \o <<x, y, z>>, m3)
<1>1. Plays(B, ops \o <<x>>, m1)
  <2> DEFINE run == [i \in 0 .. 1 |-> IF i = 0 THEN m ELSE m1]
             more == <<x>>
  <2>1. more \in Seq(Operations) /\ Len(more) = 1 /\ more[1] = x
    OBVIOUS
  <2>2. run[0] = m /\ run[1] = m1 /\ \A i \in 1 .. 1 : i = 1 /\ i - 1 = 0
    OBVIOUS
  <2>3. Chain(run, m, more)
    BY <2>1, <2>2 DEF Chain
  <2> HIDE DEF run, more
  <2>4. Plays(B, ops \o more, run[Len(more)])
    BY <2>1, <2>3, PlaysOn
  <2> QED
    BY <2>1, <2>2, <2>4 DEF more
<1>2. Plays(B, ops \o <<x, y>>, m2)
  <2> DEFINE run == [i \in 0 .. 2 |-> IF i = 0 THEN m ELSE IF i = 1 THEN m1 ELSE m2]
             more == <<x, y>>
  <2>1. more \in Seq(Operations) /\ Len(more) = 2 /\ more[1] = x /\ more[2] = y
    OBVIOUS
  <2>2. run[0] = m /\ run[1] = m1 /\ run[2] = m2
    OBVIOUS
  <2>3. run = [i \in 0 .. 2 |-> run[i]]
    OBVIOUS
  <2> HIDE DEF run, more
  <2>4. \A i \in 1 .. 2 : run[i] = Compiler!Perform(run[i - 1], more[i])
    <3> TAKE i \in 1 .. 2
    <3>1. (i = 1 /\ i - 1 = 0) \/ (i = 2 /\ i - 1 = 1)
      OBVIOUS
    <3> QED
      BY <2>1, <2>2, <3>1
  <2>5. Chain(run, m, more)
    BY <2>1, <2>2, <2>3, <2>4 DEF Chain
  <2>6. Plays(B, ops \o more, run[Len(more)])
    BY <2>1, <2>5, PlaysOn
  <2> QED
    BY <2>1, <2>2, <2>6 DEF more
<1>3. Plays(B, ops \o <<x, y, z>>, m3)
  <2> DEFINE run == [i \in 0 .. 3 |-> IF i = 0 THEN m ELSE IF i = 1 THEN m1
                                      ELSE IF i = 2 THEN m2 ELSE m3]
             more == <<x, y, z>>
  <2>1. more \in Seq(Operations) /\ Len(more) = 3 /\ more[1] = x /\ more[2] = y /\ more[3] = z
    OBVIOUS
  <2>2. run[0] = m /\ run[1] = m1 /\ run[2] = m2 /\ run[3] = m3
    OBVIOUS
  <2>3. run = [i \in 0 .. 3 |-> run[i]]
    OBVIOUS
  <2> HIDE DEF run, more
  <2>4. \A i \in 1 .. 3 : run[i] = Compiler!Perform(run[i - 1], more[i])
    <3> TAKE i \in 1 .. 3
    <3>1. (i = 1 /\ i - 1 = 0) \/ (i = 2 /\ i - 1 = 1) \/ (i = 3 /\ i - 1 = 2)
      OBVIOUS
    <3> QED
      BY <2>1, <2>2, <3>1
  <2>5. Chain(run, m, more)
    BY <2>1, <2>2, <2>3, <2>4 DEF Chain
  <2>6. Plays(B, ops \o more, run[Len(more)])
    BY <2>1, <2>5, PlaysOn
  <2> QED
    BY <2>1, <2>2, <2>6 DEF more
<1> QED
  BY <1>1, <1>2, <1>3

\* What is played to the end is what the plan does (Played).
LEMMA PlayedIs ==
    ASSUME NEW plan, plan.ops \in Seq(Operations), NEW m, Plays(plan.buffers, plan.ops, m)
    PROVE  Compiler!Played(plan) = m
<1> DEFINE N == Len(plan.ops)
           start == [audio |-> [b \in 0 .. (plan.buffers - 1) |-> Compiler!Stale],
                     midi |-> [n \in nodes |-> <<n, n>>],
                     heard |-> [n \in nodes |-> <<>>], heardMidi |-> [n \in nodes |-> <<>>]]
           body(f) == [i \in 0 .. N |-> IF i = 0 THEN start
                                        ELSE Compiler!Perform(f[i - 1], plan.ops[i])]
           played == CHOOSE f : f = body(f)
<1>1. N \in Nat
  BY LenProperties
<1>2. Compiler!Played(plan) = played[N]
  BY DEF Compiler!Played
<1>3. start = StartMachine(plan.buffers)
  BY DEF StartMachine
<1> HIDE DEF N, start, played
<1>4. PICK run : Chain(run, start, plan.ops) /\ run[N] = m
  BY <1>3 DEF Plays, N
<1>5. run = body(run)
  <2>1. ASSUME NEW i \in 0 .. N
        PROVE  run[i] = IF i = 0 THEN start ELSE Compiler!Perform(run[i - 1], plan.ops[i])
    <3>1. i # 0 => i \in 1 .. N
      BY <1>1
    <3> QED
      BY <1>4, <3>1 DEF Chain, N
  <2>2. run = [i \in 0 .. N |-> run[i]]
    BY <1>4 DEF Chain, N
  <2> QED
    BY <2>1, <2>2
<1>6. played = body(played)
  BY <1>5 DEF played, N, start
<1>7. \A i \in 0 .. N : /\ run[i] = IF i = 0 THEN start ELSE Compiler!Perform(run[i - 1], plan.ops[i])
                        /\ played[i] = IF i = 0 THEN start ELSE Compiler!Perform(played[i - 1], plan.ops[i])
  BY <1>5, <1>6
<1> HIDE DEF body
<1> DEFINE S == [i \in 0 .. N |-> {run[i]}]
<1>8. \A i \in 0 .. N : S[i] = {run[i]}
  OBVIOUS
<1> HIDE DEF S
<1>9. played[0] \in S[0]
  <2>1. 0 \in 0 .. N
    BY <1>1
  <2> QED
    BY <1>7, <1>8, <2>1
<1>10. ASSUME NEW i \in 1 .. N, played[i - 1] \in S[i - 1]
       PROVE  played[i] \in S[i]
  <2>1. i \in 0 .. N /\ i - 1 \in 0 .. N /\ i # 0
    BY <1>1
  <2> QED
    BY <1>7, <1>8, <1>10, <2>1
<1>11. \A i \in 0 .. N : played[i] \in S[i]
  BY <1>1, <1>9, <1>10, Reached
<1>12. N \in 0 .. N
  BY <1>1
<1> QED
  BY <1>2, <1>4, <1>8, <1>11, <1>12

\* What each operation does to the state of a playing plan (Perform).
Sample(p, samples) == [signal |-> p, delay |-> samples]

\* Nothing is heard and no MIDI is touched, and these buffers keep what they hold.
Spares(m, r, T) ==
    /\ r.midi = m.midi /\ r.heard = m.heard /\ r.heardMidi = m.heardMidi
    /\ \A b \in T : r.audio[b] = m.audio[b]

\* One buffer is written, and nothing else.
Written(m, to, x) == [m EXCEPT !.audio[to] = x]

LEMMA OneBufferWritten ==
    ASSUME NEW B, NEW m \in Machines(B), NEW to \in 0 .. B - 1, NEW x \in Seq(Samples), NEW r,
           r = Written(m, to, x)
    PROVE  /\ r \in Machines(B) /\ r.audio[to] = x
           /\ \A T \in SUBSET (0 .. B - 1) : to \notin T => Spares(m, r, T)
<1>1. /\ m.audio \in [0 .. B - 1 -> Seq(Samples)] /\ m.midi \in [nodes -> Seq(Nat)]
      /\ m.heard \in [nodes -> Seq(Seq(Samples))] /\ m.heardMidi \in [nodes -> Seq(Nat)]
      /\ r = [audio |-> [m.audio EXCEPT ![to] = x], midi |-> m.midi, heard |-> m.heard,
              heardMidi |-> m.heardMidi]
  BY DEF Machines, Written
<1> DEFINE a == [m.audio EXCEPT ![to] = x]
<1>2. /\ a \in [0 .. B - 1 -> Seq(Samples)] /\ a[to] = x
      /\ \A b \in 0 .. B - 1 : b # to => a[b] = m.audio[b]
  BY <1>1
<1> HIDE DEF a
<1>3. /\ r.audio = a /\ r.midi = m.midi /\ r.heard = m.heard /\ r.heardMidi = m.heardMidi
      /\ r = [audio |-> a, midi |-> m.midi, heard |-> m.heard, heardMidi |-> m.heardMidi]
  BY <1>1 DEF a
<1>4. r \in Machines(B)
  BY <1>1, <1>2, <1>3 DEF Machines
<1>5. \A T \in SUBSET (0 .. B - 1) : to \notin T => Spares(m, r, T)
  BY <1>2, <1>3 DEF Spares
<1> QED
  BY <1>2, <1>3, <1>4, <1>5

LEMMA ClearDoes ==
    ASSUME NEW B, NEW m \in Machines(B), NEW to \in 0 .. B - 1, NEW r,
           r = Compiler!Perform(m, [op |-> "clear", to |-> to])
    PROVE  /\ r \in Machines(B) /\ r.audio[to] = <<>>
           /\ \A T \in SUBSET (0 .. B - 1) : to \notin T => Spares(m, r, T)
<1>1. r = Written(m, to, <<>>)
  BY DEF Written, Compiler!Perform
<1>2. <<>> \in Seq(Samples)
  OBVIOUS
<1> QED
  BY <1>1, <1>2, OneBufferWritten

LEMMA CopyDoes ==
    ASSUME NEW B, NEW m \in Machines(B), NEW to \in 0 .. B - 1, NEW from \in 0 .. B - 1, NEW r,
           r = Compiler!Perform(m, Compiler!Copy(from, to)), NEW v, m.audio[from] = v,
           NEW T \in SUBSET (0 .. B - 1), to \notin T
    PROVE  r \in Machines(B) /\ r.audio[to] = v /\ Spares(m, r, T)
<1>1. r = Written(m, to, v)
  BY DEF Written, Compiler!Perform, Compiler!Copy
<1>2. v \in Seq(Samples)
  BY DEF Machines
<1>3. /\ r \in Machines(B) /\ r.audio[to] = v
      /\ \A U \in SUBSET (0 .. B - 1) : to \notin U => Spares(m, r, U)
  BY <1>1, <1>2, OneBufferWritten
<1> QED
  BY <1>3

Joined(a, b) == a \o b

LEMMA AddDoes ==
    ASSUME NEW B, NEW m \in Machines(B), NEW to \in 0 .. B - 1, NEW from \in 0 .. B - 1, NEW r,
           r = Compiler!Perform(m, Compiler!Add(from, to)),
           NEW T \in SUBSET (0 .. B - 1), to \notin T
    PROVE  /\ r \in Machines(B) /\ r.audio[to] = Joined(m.audio[to], m.audio[from])
           /\ Spares(m, r, T)
<1> DEFINE x == Joined(m.audio[to], m.audio[from])
<1>1. r = Written(m, to, x)
  BY DEF Written, Compiler!Perform, Compiler!Add, Joined
<1>2. x \in Seq(Samples)
  <2>1. m.audio[to] \in Seq(Samples) /\ m.audio[from] \in Seq(Samples)
    BY DEF Machines
  <2> QED
    BY <2>1, ConcatProperties DEF Joined
<1> HIDE DEF x
<1>3. /\ r \in Machines(B) /\ r.audio[to] = x
      /\ \A U \in SUBSET (0 .. B - 1) : to \notin U => Spares(m, r, U)
  BY <1>1, <1>2, OneBufferWritten
<1> QED
  BY <1>3 DEF x

LEMMA DelayDoes ==
    ASSUME NEW B, NEW m \in Machines(B), NEW to \in 0 .. B - 1, NEW samples \in Nat, NEW r,
           NEW p \in Signals, m.audio[to] = <<Sample(p, 0)>>,
           r = Compiler!Perform(m, Compiler!Delay(to, samples))
    PROVE  /\ r \in Machines(B) /\ r.audio[to] = <<Sample(p, samples)>>
           /\ \A T \in SUBSET (0 .. B - 1) : to \notin T => Spares(m, r, T)
<1> DEFINE x == m.audio[to]
           y == Compiler!Delayed(x, samples)
<1>1. r = Written(m, to, y)
  BY DEF Written, Compiler!Perform, Compiler!Delay
<1>2. y = <<Sample(p, samples)>>
  <2>1. DOMAIN x = 1 .. 1 /\ x[1] = [signal |-> p, delay |-> 0]
    BY DEF Sample
  <2>2. \A i \in 1 .. 1 : [signal |-> x[i].signal, delay |-> x[i].delay + samples]
                          = Sample(p, samples)
    BY <2>1 DEF Sample
  <2>3. y = [i \in 1 .. 1 |-> Sample(p, samples)]
    BY <2>1, <2>2 DEF Compiler!Delayed
  <2> QED
    BY <2>3
<1> HIDE DEF y
<1>3. y \in Seq(Samples)
  <2>1. Sample(p, samples) \in Samples
    BY DEF Sample, Samples
  <2> QED
    BY <1>2, <2>1
<1> QED
  BY <1>1, <1>2, <1>3, OneBufferWritten

\* The MIDI of a node is replaced, and nothing else.
WithMidi(m, id, x) ==
    [audio |-> m.audio, midi |-> [m.midi EXCEPT ![id] = x], heard |-> m.heard,
     heardMidi |-> m.heardMidi]

LEMMA OneMidiWritten ==
    ASSUME NEW B, NEW m \in Machines(B), NEW id \in nodes, NEW x \in Seq(Nat)
    PROVE  /\ [m EXCEPT !.midi[id] = x] = WithMidi(m, id, x)
           /\ WithMidi(m, id, x) \in Machines(B) /\ WithMidi(m, id, x).midi[id] = x
           /\ WithMidi(m, id, x).audio = m.audio /\ WithMidi(m, id, x).heard = m.heard
           /\ WithMidi(m, id, x).heardMidi = m.heardMidi
           /\ \A n \in nodes : n # id => WithMidi(m, id, x).midi[n] = m.midi[n]
<1>1. /\ m.audio \in [0 .. B - 1 -> Seq(Samples)] /\ m.midi \in [nodes -> Seq(Nat)]
      /\ m.heard \in [nodes -> Seq(Seq(Samples))] /\ m.heardMidi \in [nodes -> Seq(Nat)]
  BY DEF Machines
<1>6. [m EXCEPT !.midi[id] = x] = WithMidi(m, id, x)
  <2> DEFINE A == [0 .. B - 1 -> Seq(Samples)]
             M == [nodes -> Seq(Nat)]
             H == [nodes -> Seq(Seq(Samples))]
  <2>1. m \in [audio : A, midi : M, heard : H, heardMidi : M]
    BY DEF Machines
  <2> HIDE DEF A, M, H
  <2> QED
    BY <2>1 DEF WithMidi
<1> DEFINE a == [m.midi EXCEPT ![id] = x]
           r == WithMidi(m, id, x)
<1>2. /\ a \in [nodes -> Seq(Nat)] /\ a[id] = x
      /\ \A n \in nodes : n # id => a[n] = m.midi[n]
  BY <1>1
<1>3. /\ r.audio = m.audio /\ r.midi = a /\ r.heard = m.heard /\ r.heardMidi = m.heardMidi
      /\ r = [audio |-> m.audio, midi |-> a, heard |-> m.heard, heardMidi |-> m.heardMidi]
  BY DEF WithMidi
<1> HIDE DEF a, r
<1>4. r \in Machines(B)
  BY <1>1, <1>2, <1>3 DEF Machines
<1>5. r.midi[id] = x /\ \A n \in nodes : n # id => r.midi[n] = m.midi[n]
  BY <1>2, <1>3
<1> QED
  BY <1>3, <1>4, <1>5, <1>6 DEF r

LEMMA MidiRewritten ==
    ASSUME NEW B, NEW m \in Machines(B), NEW id \in nodes, NEW x, NEW y
    PROVE  WithMidi(WithMidi(m, id, x), id, y) = WithMidi(m, id, y)
<1>1. m.midi \in [nodes -> Seq(Nat)]
  BY DEF Machines
<1>2. [[m.midi EXCEPT ![id] = x] EXCEPT ![id] = y] = [m.midi EXCEPT ![id] = y]
  BY <1>1
<1> QED
  BY <1>2 DEF WithMidi

LEMMA MidiInputsAre ==
    ASSUME GraphInv, NEW id
    PROVE  LET S == {c.from : c \in {m \in connections : Compiler!IsMidi(m) /\ m.to = id}} IN
           /\ S \in SUBSET Compiler!Producers(id) /\ Lists(Compiler!MidiInputs(id), S)
           /\ Compiler!MidiInputs(id) \in Seq(nodes)
<1> DEFINE S == {c.from : c \in {m \in connections : Compiler!IsMidi(m) /\ m.to = id}}
<1>1. S \in SUBSET Compiler!Producers(id)
  BY DEF Compiler!Producers
<1>2. S \in SUBSET nodes /\ IsFiniteSet(S)
  BY <1>1, Neighbours, FS_Subset
<1>3. S \in SUBSET Nat
  BY <1>2, CompilerAssumption DEF GraphInv
<1>4. Compiler!MidiInputs(id) = Compiler!Sorted(S)
  BY DEF Compiler!MidiInputs
<1> HIDE DEF S
<1>5. Lists(Compiler!MidiInputs(id), S)
  BY <1>2, <1>3, <1>4, SortedLists
<1>6. Compiler!MidiInputs(id) \in Seq(nodes)
  BY <1>2, <1>5, SeqMonotonic DEF Lists
<1> QED
  BY <1>1, <1>5, <1>6 DEF S

\* The MIDI operations of a node leave it the MIDI of those connected to it (MidiOperations).
LEMMA MidiOperationsDo ==
    ASSUME GraphInv, NEW B, NEW m \in Machines(B), NEW ops \in Seq(Operations), Plays(B, ops, m),
           NEW id \in nodes, \A n \in Compiler!Producers(id) : n # id /\ m.midi[n] = <<n>>
    PROVE  /\ Compiler!MidiOperations(id) \in Seq(Operations)
           /\ \E r \in Machines(B) :
                /\ Plays(B, ops \o Compiler!MidiOperations(id), r)
                /\ r.audio = m.audio /\ r.heard = m.heard /\ r.heardMidi = m.heardMidi
                /\ r.midi[id] = Compiler!MidiInputs(id)
                /\ \A n \in nodes : n # id => r.midi[n] = m.midi[n]
<1> DEFINE q == Compiler!MidiInputs(id)
           Q == Len(q)
           clear == [op |-> "midiClear", to |-> id]
           merge(i) == [op |-> "midiMerge", from |-> q[i], to |-> id]
           merges == [i \in DOMAIN q |-> merge(i)]
           more == Compiler!MidiOperations(id)
           first(k) == [j \in 1 .. k |-> q[j]]
           on == [k \in 0 .. Q + 1 |-> IF k = 0 THEN m ELSE WithMidi(m, id, first(k - 1))]
<1>1. /\ q \in Seq(nodes) /\ Q \in Nat /\ DOMAIN q = 1 .. Q /\ nodes \in SUBSET Nat
      /\ \A i \in 1 .. Q : q[i] \in Compiler!Producers(id) /\ q[i] \in nodes
  <2>1. q \in Seq(nodes) /\ nodes \in SUBSET Nat
    BY MidiInputsAre, CompilerAssumption DEF GraphInv
  <2>2. Q \in Nat /\ DOMAIN q = 1 .. Q
    BY <2>1, LenProperties
  <2>3. \A i \in 1 .. Q : q[i] \in Compiler!Producers(id)
    <3> DEFINE S == {c.from : c \in {e \in connections : Compiler!IsMidi(e) /\ e.to = id}}
    <3>1. S \in SUBSET Compiler!Producers(id) /\ Lists(q, S)
      BY MidiInputsAre
    <3> HIDE DEF S, q
    <3>2. q \in Seq(S) /\ \A i \in 1 .. Q : q[i] \in S
      BY <3>1, ElementOfSeq DEF Lists
    <3> QED
      BY <3>1, <3>2
  <2> QED
    BY <2>1, <2>2, <2>3, Neighbours
<1>2. more = <<clear>> \o merges
  BY DEF Compiler!MidiOperations
<1> HIDE DEF q, Q, more
<1>3. /\ clear \in Operations /\ \A i \in 1 .. Q : merge(i) \in Operations
  BY <1>1 DEF Operations
<1> HIDE DEF clear, merge
<1>4. merges \in Seq(Operations) /\ Len(merges) = Q /\ \A i \in 1 .. Q : merges[i] = merge(i)
  BY <1>1, <1>3
<1> HIDE DEF merges
<1>5. /\ more \in Seq(Operations) /\ Len(more) = Q + 1 /\ more[1] = clear
      /\ \A i \in 1 .. Q : more[i + 1] = merge(i)
  <2> DEFINE one == <<clear>>
  <2>1. one \in Seq(Operations) /\ Len(one) = 1 /\ one[1] = clear
    BY <1>3
  <2>2. more = one \o merges
    BY <1>2
  <2> HIDE DEF one
  <2>3. /\ more \in Seq(Operations) /\ Len(more) = 1 + Q
        /\ \A i \in 1 .. 1 + Q : more[i] = IF i <= 1 THEN one[i] ELSE merges[i - 1]
    <3>1. /\ one \o merges \in Seq(Operations)
          /\ Len(one \o merges) = Len(one) + Len(merges)
          /\ \A i \in 1 .. Len(one) + Len(merges) :
               (one \o merges)[i] = IF i <= Len(one) THEN one[i] ELSE merges[i - Len(one)]
      BY <1>4, <2>1, ConcatProperties
    <3> QED
      BY <1>4, <2>1, <2>2, <3>1
  <2>4. more[1] = clear
    BY <1>1, <2>1, <2>3
  <2>5. ASSUME NEW i \in 1 .. Q
        PROVE  more[i + 1] = merge(i)
    <3>1. i + 1 \in 1 .. 1 + Q /\ ~(i + 1 <= 1) /\ (i + 1) - 1 = i
      BY <1>1
    <3> QED
      BY <1>4, <2>3, <3>1
  <2> QED
    BY <1>1, <2>3, <2>4, <2>5
<1>6. /\ \A k \in 0 .. Q : first(k) \in Seq(Nat)
      /\ first(0) = <<>> /\ first(Q) = q
      /\ \A i \in 1 .. Q : first(i - 1) \o <<q[i]>> = first(i)
  <2>1. ASSUME NEW k \in 0 .. Q
        PROVE  /\ first(k) \in Seq(nodes) /\ first(k) \in Seq(Nat)
               /\ Len(first(k)) = k /\ \A j \in 1 .. k : first(k)[j] = q[j]
    <3>1. k \in Nat /\ \A j \in 1 .. k : j \in 1 .. Q
      BY <1>1
    <3>2. \A j \in 1 .. k : q[j] \in nodes /\ q[j] \in Nat
      BY <1>1, <3>1
    <3> QED
      BY <3>1, <3>2
  <2>2. first(0) = <<>>
    OBVIOUS
  <2>3. first(Q) = q
    BY <1>1
  <2> HIDE DEF first
  <2>4. ASSUME NEW i \in 1 .. Q
        PROVE  first(i - 1) \o <<q[i]>> = first(i)
    <3>1. i \in 0 .. Q /\ i - 1 \in 0 .. Q /\ q[i] \in nodes
      BY <1>1
    <3> DEFINE a == first(i - 1)
               b == <<q[i]>>
               c == first(i)
    <3>2. /\ a \in Seq(nodes) /\ Len(a) = i - 1 /\ \A j \in 1 .. i - 1 : a[j] = q[j]
          /\ c \in Seq(nodes) /\ Len(c) = i /\ \A j \in 1 .. i : c[j] = q[j]
          /\ b \in Seq(nodes) /\ Len(b) = 1 /\ b[1] = q[i]
      <4>1. /\ a \in Seq(nodes) /\ Len(a) = i - 1 /\ \A j \in 1 .. i - 1 : a[j] = q[j]
        BY <2>1, <3>1
      <4>2. /\ c \in Seq(nodes) /\ Len(c) = i /\ \A j \in 1 .. i : c[j] = q[j]
        BY <2>1, <3>1
      <4>3. /\ b \in Seq(nodes) /\ Len(b) = 1 /\ b[1] = q[i]
        BY <3>1
      <4> QED
        BY <4>1, <4>2, <4>3
    <3> HIDE DEF a, b, c
    <3>3. /\ a \o b \in Seq(nodes) /\ Len(a \o b) = i
          /\ \A j \in 1 .. i : (a \o b)[j] = IF j <= i - 1 THEN a[j] ELSE b[j - (i - 1)]
      <4>1. /\ a \o b \in Seq(nodes) /\ Len(a \o b) = Len(a) + Len(b)
            /\ \A j \in 1 .. Len(a) + Len(b) :
                 (a \o b)[j] = IF j <= Len(a) THEN a[j] ELSE b[j - Len(a)]
        BY <3>2, ConcatProperties
      <4>2. Len(a) + Len(b) = i
        BY <1>1, <3>2
      <4> QED
        BY <3>2, <4>1, <4>2
    <3>4. \A j \in 1 .. i : (a \o b)[j] = c[j]
      <4> TAKE j \in 1 .. i
      <4>1. CASE j <= i - 1
        BY <3>2, <3>3, <4>1
      <4>2. CASE ~(j <= i - 1)
        <5>1. j = i /\ j - (i - 1) = 1
          BY <4>2
        <5> QED
          BY <3>2, <3>3, <4>2, <5>1
      <4> QED
        BY <4>1, <4>2
    <3>5. a \o b = c
      BY <3>2, <3>3, <3>4, SeqEqual
    <3> QED
      BY <3>5 DEF a, b, c
  <2> QED
    BY <2>1, <2>2, <2>3, <2>4
<1> HIDE DEF first
<1>7. /\ on[0] = m
      /\ \A k \in 0 .. Q : on[k + 1] = WithMidi(m, id, first(k))
      /\ on = [k \in 0 .. Q + 1 |-> on[k]]
  <2>1. \A k \in 0 .. Q : k + 1 \in 0 .. Q + 1 /\ k + 1 # 0 /\ (k + 1) - 1 = k
    BY <1>1
  <2>2. 0 \in 0 .. Q + 1
    BY <1>1
  <2> QED
    BY <2>1, <2>2
<1> HIDE DEF on
<1>8. ASSUME NEW i \in 1 .. Q
      PROVE  on[i + 1] = Compiler!Perform(on[i], merge(i))
  <2> DEFINE u == on[i]
  <2>1. i - 1 \in 0 .. Q /\ i \in 0 .. Q /\ (i - 1) + 1 = i
    BY <1>1
  <2>2. u = WithMidi(m, id, first(i - 1)) /\ first(i - 1) \in Seq(Nat)
    BY <1>6, <1>7, <2>1
  <2> HIDE DEF u
  <2>3. q[i] # id /\ q[i] \in nodes /\ m.midi[q[i]] = <<q[i]>>
    BY <1>1
  <2>4. u \in Machines(B) /\ u.midi[id] = first(i - 1) /\ u.midi[q[i]] = <<q[i]>>
    BY <2>2, <2>3, OneMidiWritten
  <2>5. u.midi[id] \o u.midi[q[i]] = first(i) /\ first(i) \in Seq(Nat)
    BY <1>6, <2>1, <2>4
  <2>6. Compiler!Perform(u, merge(i)) = [u EXCEPT !.midi[id] = u.midi[id] \o u.midi[q[i]]]
    BY DEF Compiler!Perform, merge
  <2>7. Compiler!Perform(u, merge(i)) = WithMidi(u, id, first(i))
    BY <2>4, <2>5, <2>6, OneMidiWritten
  <2>8. WithMidi(u, id, first(i)) = WithMidi(m, id, first(i))
    BY <2>2, MidiRewritten
  <2> QED
    BY <1>7, <2>1, <2>7, <2>8 DEF u
<1>9. on[1] = Compiler!Perform(on[0], clear)
  <2>1. 0 \in 0 .. Q /\ 0 + 1 = 1
    BY <1>1
  <2>2. Compiler!Perform(m, clear) = [m EXCEPT !.midi[id] = <<>>] /\ <<>> \in Seq(Nat)
    BY DEF Compiler!Perform, clear
  <2>3. Compiler!Perform(m, clear) = WithMidi(m, id, <<>>)
    <3> DEFINE x == <<>>
    <3>1. x \in Seq(Nat) /\ Compiler!Perform(m, clear) = [m EXCEPT !.midi[id] = x]
      BY <2>2
    <3> HIDE DEF x
    <3>2. Compiler!Perform(m, clear) = WithMidi(m, id, x)
      BY <3>1, OneMidiWritten
    <3> QED
      BY <3>2 DEF x
  <2> QED
    BY <1>6, <1>7, <2>1, <2>3
<1>10. Chain(on, m, more)
  <2>1. ASSUME NEW k \in 1 .. Q + 1
        PROVE  on[k] = Compiler!Perform(on[k - 1], more[k])
    <3>1. CASE k = 1
      BY <1>5, <1>9, <3>1
    <3>2. CASE k # 1
      <4>1. k - 1 \in 1 .. Q /\ (k - 1) + 1 = k
        BY <1>1, <3>2
      <4> QED
        BY <1>5, <1>8, <4>1
    <3> QED
      BY <3>1, <3>2
  <2> QED
    BY <1>5, <1>7, <2>1 DEF Chain
<1> DEFINE r == on[Q + 1]
<1>11. Plays(B, ops \o more, r)
  BY <1>5, <1>10, PlaysOn
<1>12. r = WithMidi(m, id, q) /\ q \in Seq(Nat)
  <2>1. Q \in 0 .. Q
    BY <1>1
  <2> QED
    BY <1>6, <1>7, <2>1
<1> HIDE DEF r
<1>13. /\ r \in Machines(B) /\ r.midi[id] = q
       /\ r.audio = m.audio /\ r.heard = m.heard /\ r.heardMidi = m.heardMidi
       /\ \A n \in nodes : n # id => r.midi[n] = m.midi[n]
  BY <1>12, OneMidiWritten
<1> QED
  BY <1>5, <1>11, <1>13 DEF q, more

\* What is heard on these channels, and what is left in them.
Processed(B, id, channels, m, r) ==
    /\ r \in Machines(B)
    /\ r.heard[id] = [i \in DOMAIN channels |-> m.audio[channels[i]]]
    /\ r.heardMidi[id] = m.midi[id] /\ r.midi[id] = <<id>>
    /\ \A n \in nodes : n # id =>
          r.heard[n] = m.heard[n] /\ r.heardMidi[n] = m.heardMidi[n] /\ r.midi[n] = m.midi[n]
    /\ \A i \in DOMAIN channels : i <= info[id].outs =>
          r.audio[channels[i]] = <<Sample(<<id, i - 1>>, 0)>>
    /\ \A b \in (0 .. B - 1) \ Elements(channels) : r.audio[b] = m.audio[b]

\* A node hears what its channels hold and leaves its outputs in them (the process operation).
LEMMA ProcessDoes ==
    ASSUME GraphInv, Compiler!PortsFit, NEW B, NEW m \in Machines(B), NEW id \in nodes,
           NEW channels \in Seq(0 .. B - 1), Distinct(channels), NEW r,
           r = Compiler!Perform(m, [op |-> "process", node |-> id, channels |-> channels])
    PROVE  Processed(B, id, channels, m, r)
<1> DEFINE into(b) == CHOOSE j \in DOMAIN channels : channels[j] = b
           left(b) == IF \E i \in DOMAIN channels : channels[i] = b
                      THEN IF into(b) <= info[id].outs
                           THEN <<[signal |-> <<id, into(b) - 1>>, delay |-> 0]>> ELSE Compiler!Stale
                      ELSE m.audio[b]
           a == [b \in DOMAIN m.audio |-> left(b)]
           heard == [i \in DOMAIN channels |-> m.audio[channels[i]]]
           h == [m.heard EXCEPT ![id] = heard]
           hm == [m.heardMidi EXCEPT ![id] = m.midi[id]]
           mm == [m.midi EXCEPT ![id] = <<id>>]
<1>1. r = [audio |-> a, midi |-> mm, heard |-> h, heardMidi |-> hm]
  <2> DEFINE A == [0 .. B - 1 -> Seq(Samples)]
             M == [nodes -> Seq(Nat)]
             H == [nodes -> Seq(Seq(Samples))]
             op == [op |-> "process", node |-> id, channels |-> channels]
  <2>1. m \in [audio : A, midi : M, heard : H, heardMidi : M]
    BY DEF Machines
  <2>2. op.op = "process" /\ op.node = id /\ op.channels = channels
    OBVIOUS
  <2> HIDE DEF A, M, H, op
  <2>3. r = [m EXCEPT !.heard[id] = heard, !.heardMidi[id] = m.midi[id], !.midi[id] = <<id>>,
                      !.audio = a]
    BY <2>2 DEF Compiler!Perform, op
  <2> HIDE DEF a, heard
  <2> QED
    BY <2>1, <2>3
<1>2. /\ m.audio \in [0 .. B - 1 -> Seq(Samples)] /\ m.midi \in [nodes -> Seq(Nat)]
      /\ m.heard \in [nodes -> Seq(Seq(Samples))] /\ m.heardMidi \in [nodes -> Seq(Nat)]
  BY DEF Machines
<1>3. /\ Len(channels) \in Nat /\ DOMAIN channels = 1 .. Len(channels)
      /\ \A i \in DOMAIN channels : channels[i] \in 0 .. B - 1
      /\ id \in Nat /\ info[id].outs \in Nat
  BY LenProperties, ElementOfSeq, Metadata
<1>4. ASSUME NEW i \in DOMAIN channels
      PROVE  into(channels[i]) = i
  <2>1. into(channels[i]) \in DOMAIN channels /\ channels[into(channels[i])] = channels[i]
    OBVIOUS
  <2> HIDE DEF into
  <2> QED
    BY <2>1 DEF Distinct
<1> HIDE DEF into
<1>5. ASSUME NEW i \in DOMAIN channels
      PROVE  left(channels[i]) = IF i <= info[id].outs THEN <<Sample(<<id, i - 1>>, 0)>>
                                 ELSE Compiler!Stale
  BY <1>4 DEF Sample
<1>6. ASSUME NEW b, b \notin Elements(channels)
      PROVE  left(b) = m.audio[b]
  BY <1>6 DEF Elements
<1>7. ASSUME NEW i \in DOMAIN channels
      PROVE  left(channels[i]) \in Seq(Samples)
  <2>1. <<id, i - 1>> \in Signals /\ <<0, 0>> \in Signals
    BY <1>3 DEF Signals
  <2>2. Sample(<<id, i - 1>>, 0) \in Samples /\ [signal |-> <<0, 0>>, delay |-> 0] \in Samples
    BY <2>1 DEF Sample, Samples
  <2>3. <<Sample(<<id, i - 1>>, 0)>> \in Seq(Samples) /\ Compiler!Stale \in Seq(Samples)
    BY <2>2 DEF Compiler!Stale
  <2> QED
    BY <1>5, <2>3
<1> HIDE DEF left
<1>8. a \in [0 .. B - 1 -> Seq(Samples)] /\ \A b \in 0 .. B - 1 : a[b] = left(b)
  <2>1. \A b \in 0 .. B - 1 : left(b) \in Seq(Samples)
    <3> TAKE b \in 0 .. B - 1
    <3>1. CASE b \in Elements(channels)
      BY <1>7, <3>1 DEF Elements
    <3>2. CASE b \notin Elements(channels)
      BY <1>2, <1>6, <3>2
    <3> QED
      BY <3>1, <3>2
  <2> QED
    BY <1>2, <2>1
<1>9. heard \in Seq(Seq(Samples))
  <2>1. \A i \in 1 .. Len(channels) : m.audio[channels[i]] \in Seq(Samples)
    BY <1>2, <1>3
  <2> QED
    BY <1>3, <2>1
<1> HIDE DEF a, heard
<1>10. /\ h \in [nodes -> Seq(Seq(Samples))] /\ h[id] = heard
       /\ hm \in [nodes -> Seq(Nat)] /\ hm[id] = m.midi[id]
       /\ mm \in [nodes -> Seq(Nat)] /\ mm[id] = <<id>>
       /\ \A n \in nodes : n # id => h[n] = m.heard[n] /\ hm[n] = m.heardMidi[n] /\ mm[n] = m.midi[n]
  <2>1. m.midi[id] \in Seq(Nat) /\ <<id>> \in Seq(Nat)
    BY <1>2, <1>3
  <2> QED
    BY <1>2, <1>9, <2>1
<1> HIDE DEF h, hm, mm
<1>11. r.audio = a /\ r.midi = mm /\ r.heard = h /\ r.heardMidi = hm
  BY <1>1
<1>12. r \in Machines(B)
  BY <1>1, <1>8, <1>10 DEF Machines
<1>13. \A i \in DOMAIN channels : i <= info[id].outs => a[channels[i]] = <<Sample(<<id, i - 1>>, 0)>>
  BY <1>3, <1>5, <1>8
<1>14. \A b \in (0 .. B - 1) \ Elements(channels) : a[b] = m.audio[b]
  BY <1>6, <1>8
<1> QED
  BY <1>10, <1>11, <1>12, <1>13, <1>14 DEF heard, Processed

-----------------------------------------------------------------------------
(* The emission of a plan.                                                  *)

\* The states of the emission, and the buffers that are given away in one.
Emissions ==
    {s \in [free : SUBSET Nat, high : Nat, signals : UNION {[D -> Nat] : D \in SUBSET Signals},
            channels : Seq(Nat), ops : Seq(Operations)] : s.free \subseteq 0 .. s.high - 1}
Owned(s) == (0 .. s.high - 1) \ s.free

\* What stays when buffers are taken and operations added.
Like(s, t) == t.signals = s.signals /\ t.channels = s.channels /\ s.high <= t.high

LEMMA EmissionFields ==
    ASSUME NEW s \in Emissions, NEW t,
           t = [free |-> t.free, high |-> t.high, signals |-> s.signals, channels |-> s.channels,
                ops |-> t.ops],
           t.free \in SUBSET Nat, t.high \in Nat, t.free \subseteq 0 .. t.high - 1,
           t.ops \in Seq(Operations), s.high <= t.high
    PROVE  t \in Emissions /\ Like(s, t)
<1> DEFINE G == UNION {[D -> Nat] : D \in SUBSET Signals}
<1>1. s.signals \in G /\ s.channels \in Seq(Nat)
  BY DEF Emissions
<1> HIDE DEF G
<1>2. t \in [free : SUBSET Nat, high : Nat, signals : G, channels : Seq(Nat), ops : Seq(Operations)]
  BY <1>1
<1>3. t.signals = s.signals /\ t.channels = s.channels
  OBVIOUS
<1> QED
  BY <1>2, <1>3 DEF Emissions, Like, G

LEMMA EmissionType ==
    ASSUME NEW s \in Emissions
    PROVE  /\ s.free \in SUBSET Nat /\ s.high \in Nat /\ s.free \subseteq 0 .. s.high - 1
           /\ s.ops \in Seq(Operations) /\ s.channels \in Seq(Nat)
<1> DEFINE G == UNION {[D -> Nat] : D \in SUBSET Signals}
<1>1. s \in [free : SUBSET Nat, high : Nat, signals : G, channels : Seq(Nat), ops : Seq(Operations)]
      /\ s.free \subseteq 0 .. s.high - 1
  BY DEF Emissions
<1> HIDE DEF G
<1> QED
  BY <1>1

LEMMA EmissionEdits ==
    ASSUME NEW s \in Emissions, NEW x
    PROVE  /\ [s EXCEPT !.free = x] = [free |-> x, high |-> s.high, signals |-> s.signals,
                                       channels |-> s.channels, ops |-> s.ops]
           /\ [s EXCEPT !.high = x] = [free |-> s.free, high |-> x, signals |-> s.signals,
                                       channels |-> s.channels, ops |-> s.ops]
           /\ [s EXCEPT !.ops = x] = [free |-> s.free, high |-> s.high, signals |-> s.signals,
                                      channels |-> s.channels, ops |-> x]
           /\ [s EXCEPT !.channels = x] = [free |-> s.free, high |-> s.high, signals |-> s.signals,
                                           channels |-> x, ops |-> s.ops]
<1> DEFINE F == SUBSET Nat
           G == UNION {[D -> Nat] : D \in SUBSET Signals}
           C == Seq(Nat)
           O == Seq(Operations)
<1>1. s \in [free : F, high : Nat, signals : G, channels : C, ops : O]
  BY DEF Emissions
<1> HIDE DEF F, G, C, O
<1>2. [s EXCEPT !.free = x] = [free |-> x, high |-> s.high, signals |-> s.signals,
                               channels |-> s.channels, ops |-> s.ops]
  BY <1>1
<1>3. [s EXCEPT !.high = x] = [free |-> s.free, high |-> x, signals |-> s.signals,
                               channels |-> s.channels, ops |-> s.ops]
  BY <1>1
<1>4. [s EXCEPT !.ops = x] = [free |-> s.free, high |-> s.high, signals |-> s.signals,
                              channels |-> s.channels, ops |-> x]
  BY <1>1
<1>5. [s EXCEPT !.channels = x] = [free |-> s.free, high |-> s.high, signals |-> s.signals,
                                   channels |-> x, ops |-> s.ops]
  BY <1>1
<1> QED
  BY <1>2, <1>3, <1>4, <1>5

\* A buffer that is taken was nobody's (Acquire, Release, Emit).
LEMMA AcquireDoes ==
    ASSUME NEW s \in Emissions
    PROVE  /\ Compiler!Acquire(s) \in Emissions /\ Like(s, Compiler!Acquire(s))
           /\ Compiler!Acquire(s).ops = s.ops
           /\ Compiler!Acquired(s) \notin Owned(s)
           /\ Owned(Compiler!Acquire(s)) = Owned(s) \cup {Compiler!Acquired(s)}
<1> DEFINE t == Compiler!Acquire(s)
           b == Compiler!Acquired(s)
<1>1. /\ s.free \in SUBSET Nat /\ s.high \in Nat /\ s.free \subseteq 0 .. s.high - 1
      /\ s.ops \in Seq(Operations)
  BY EmissionType
<1>2. CASE s.free = {}
  <2>1. b = s.high
    BY <1>2 DEF Compiler!Acquired
  <2>2. t = [s EXCEPT !.high = s.high + 1]
    BY <1>2 DEF Compiler!Acquire
  <2> HIDE DEF b, t
  <2>3. t = [free |-> s.free, high |-> s.high + 1, signals |-> s.signals, channels |-> s.channels,
             ops |-> s.ops]
    BY <2>2, EmissionEdits
  <2>4. t.free = s.free /\ t.high = s.high + 1 /\ t.ops = s.ops
    BY <2>3
  <2>5. s.free \subseteq 0 .. t.high - 1 /\ t.high \in Nat /\ s.high <= t.high
    BY <1>1, <1>2, <2>4
  <2>6. t \in Emissions /\ Like(s, t)
    BY <1>1, <2>3, <2>4, <2>5, EmissionFields
  <2>7. 0 .. t.high - 1 = (0 .. s.high - 1) \cup {b} /\ b \notin 0 .. s.high - 1
    BY <1>1, <2>1, <2>4
  <2>8. Owned(t) = Owned(s) \cup {b} /\ b \notin Owned(s)
    BY <1>2, <2>4, <2>7 DEF Owned
  <2> QED
    BY <2>4, <2>6, <2>8 DEF b, t
<1>3. CASE s.free # {}
  <2>1. b \in s.free
    BY <1>1, <1>3, MinIs DEF Compiler!Acquired
  <2>2. t = [s EXCEPT !.free = s.free \ {b}]
    BY <1>3 DEF Compiler!Acquire
  <2> HIDE DEF b, t
  <2>3. t = [free |-> s.free \ {b}, high |-> s.high, signals |-> s.signals, channels |-> s.channels,
             ops |-> s.ops]
    BY <2>2, EmissionEdits
  <2>4. t.free = s.free \ {b} /\ t.high = s.high /\ t.ops = s.ops
    BY <2>3
  <2>5. t.free \in SUBSET Nat /\ t.free \subseteq 0 .. t.high - 1 /\ t.high \in Nat /\ s.high <= t.high
    BY <1>1, <2>4
  <2>6. t \in Emissions /\ Like(s, t)
    BY <1>1, <2>3, <2>4, <2>5, EmissionFields
  <2>7. Owned(t) = Owned(s) \cup {b} /\ b \notin Owned(s)
    BY <1>1, <2>1, <2>4 DEF Owned
  <2> QED
    BY <2>4, <2>6, <2>7 DEF b, t
<1> QED
  BY <1>2, <1>3

LEMMA ReleaseDoes ==
    ASSUME NEW s \in Emissions, NEW T \in SUBSET Owned(s)
    PROVE  /\ Compiler!Release(s, T) \in Emissions /\ Like(s, Compiler!Release(s, T))
           /\ Compiler!Release(s, T).high = s.high
           /\ Compiler!Release(s, T).ops = s.ops
           /\ Owned(Compiler!Release(s, T)) = Owned(s) \ T
<1> DEFINE t == Compiler!Release(s, T)
<1>1. /\ s.free \in SUBSET Nat /\ s.high \in Nat /\ s.free \subseteq 0 .. s.high - 1
      /\ s.ops \in Seq(Operations)
  BY EmissionType
<1>2. t = [s EXCEPT !.free = s.free \cup T]
  BY DEF Compiler!Release
<1> HIDE DEF t
<1>3. t = [free |-> s.free \cup T, high |-> s.high, signals |-> s.signals, channels |-> s.channels,
           ops |-> s.ops]
  BY <1>2, EmissionEdits
<1>4. t.free = s.free \cup T /\ t.high = s.high /\ t.ops = s.ops
  BY <1>3
<1>5. T \subseteq 0 .. s.high - 1 /\ 0 .. s.high - 1 \subseteq Nat
  BY <1>1 DEF Owned
<1>6. t.free \in SUBSET Nat /\ t.free \subseteq 0 .. t.high - 1 /\ t.high \in Nat /\ s.high <= t.high
  <2>1. t.free \in SUBSET Nat
    BY <1>1, <1>4, <1>5
  <2>2. t.high \in Nat /\ s.high <= t.high /\ 0 .. t.high - 1 = 0 .. s.high - 1
    BY <1>1, <1>4
  <2>3. t.free \subseteq 0 .. s.high - 1
    BY <1>1, <1>4, <1>5
  <2> QED
    BY <2>1, <2>2, <2>3
<1>7. t \in Emissions /\ Like(s, t)
  BY <1>1, <1>3, <1>4, <1>6, EmissionFields
<1>8. Owned(t) = Owned(s) \ T
  BY <1>4 DEF Owned
<1> QED
  BY <1>4, <1>7, <1>8 DEF t

LEMMA EmitDoes ==
    ASSUME NEW s \in Emissions, NEW ops \in Seq(Operations)
    PROVE  /\ Compiler!Emit(s, ops) \in Emissions /\ Like(s, Compiler!Emit(s, ops))
           /\ Compiler!Emit(s, ops).high = s.high
           /\ Compiler!Emit(s, ops).ops = s.ops \o ops
           /\ Owned(Compiler!Emit(s, ops)) = Owned(s)
<1> DEFINE t == Compiler!Emit(s, ops)
<1>1. /\ s.free \in SUBSET Nat /\ s.high \in Nat /\ s.free \subseteq 0 .. s.high - 1
      /\ s.ops \in Seq(Operations)
  BY EmissionType
<1>2. t = [s EXCEPT !.ops = s.ops \o ops]
  BY DEF Compiler!Emit
<1> HIDE DEF t
<1>3. t = [free |-> s.free, high |-> s.high, signals |-> s.signals, channels |-> s.channels,
           ops |-> s.ops \o ops]
  BY <1>2, EmissionEdits
<1>4. t.free = s.free /\ t.high = s.high /\ t.ops = s.ops \o ops
  BY <1>3
<1>5. t.ops \in Seq(Operations) /\ s.high <= t.high
  BY <1>1, <1>4, ConcatProperties
<1>6. t \in Emissions /\ Like(s, t)
  BY <1>1, <1>3, <1>4, <1>5, EmissionFields
<1>7. Owned(t) = Owned(s)
  BY <1>4 DEF Owned
<1> QED
  BY <1>4, <1>6, <1>7 DEF t

\* The operations of the audio buffers.
LEMMA OperationsAre ==
    ASSUME NEW a \in Nat, NEW b \in Nat
    PROVE  /\ Compiler!Copy(a, b) \in Operations /\ Compiler!Add(a, b) \in Operations
           /\ Compiler!Delay(a, b) \in Operations
           /\ [op |-> "clear", to |-> a] \in Operations
<1>1. Compiler!Copy(a, b) \in Operations
  BY DEF Compiler!Copy, Operations
<1>2. Compiler!Add(a, b) \in Operations
  BY DEF Compiler!Add, Operations
<1>3. Compiler!Delay(a, b) \in Operations
  BY DEF Compiler!Delay, Operations
<1>4. [op |-> "clear", to |-> a] \in Operations
  BY DEF Operations
<1> QED
  BY <1>1, <1>2, <1>3, <1>4

\* The buffers that are given away are the plan's.
LEMMA OwnedAre ==
    ASSUME NEW s \in Emissions, NEW B \in Nat, s.high <= B
    PROVE  Owned(s) \in SUBSET (0 .. B - 1) /\ Owned(s) \in SUBSET Nat
<1>1. s.high \in Nat
  BY EmissionType
<1> QED
  BY <1>1 DEF Owned

\* What two steps spare, both together do.
LEMMA SparesOn ==
    ASSUME NEW m, NEW r, NEW q, NEW T, Spares(m, r, T), Spares(r, q, T)
    PROVE  Spares(m, q, T)
  BY DEF Spares

\* What a mix with one source more holds, when it is played (Mix).
Mixed(m, r, s, d, p, samples, isFirst) ==
    /\ Spares(m, r, Owned(s) \ {d})
    /\ r.audio[d] = IF isFirst THEN <<Sample(p, samples)>>
                    ELSE Joined(m.audio[d], <<Sample(p, samples)>>)

\* The first source of a mix is copied, and delayed in place if need be.
LEMMA MixFirst ==
    ASSUME NEW s \in Emissions, NEW d \in Owned(s), NEW from \in Owned(s), d # from,
           NEW samples \in Nat, NEW B \in Nat, s.high <= B, NEW m \in Machines(B),
           Plays(B, s.ops, m), NEW p \in Signals, m.audio[from] = <<Sample(p, 0)>>
    PROVE  LET t == Compiler!Mix(s, d, from, samples, TRUE) IN
           /\ t \in Emissions /\ Like(s, t) /\ Owned(t) = Owned(s) /\ t.high = s.high
           /\ \E r \in Machines(B) : Plays(B, t.ops, r) /\ Mixed(m, r, s, d, p, samples, TRUE)
<1> DEFINE t == Compiler!Mix(s, d, from, samples, TRUE)
           x == Compiler!Copy(from, d)
           y == Compiler!Delay(d, samples)
           T == Owned(s) \ {d}
           m1 == Compiler!Perform(m, x)
           m2 == Compiler!Perform(m1, y)
           more == IF samples > 0 THEN <<x, y>> ELSE <<x>>
<1>1. Owned(s) \in SUBSET (0 .. B - 1) /\ Owned(s) \in SUBSET Nat /\ s.ops \in Seq(Operations)
  BY OwnedAre, EmissionType
<1>2. x \in Operations /\ y \in Operations
  BY <1>1, OperationsAre
<1>3. t = Compiler!Emit(s, more)
  BY DEF Compiler!Mix
<1>4. more \in Seq(Operations)
  BY <1>2
<1> HIDE DEF t, x, y
<1>5. /\ t \in Emissions /\ Like(s, t) /\ Owned(t) = Owned(s) /\ t.high = s.high
      /\ t.ops = s.ops \o more
  <2> HIDE DEF more
  <2> QED
    BY <1>3, <1>4, EmitDoes
<1>6. T \in SUBSET (0 .. B - 1) /\ d \notin T /\ d \in 0 .. B - 1 /\ from \in 0 .. B - 1
  BY <1>1
<1> HIDE DEF T
<1>7. m1 \in Machines(B) /\ m1.audio[d] = <<Sample(p, 0)>> /\ Spares(m, m1, T)
  <2>1. m1 = Compiler!Perform(m, Compiler!Copy(from, d))
    BY DEF x
  <2> HIDE DEF m1
  <2> QED
    BY <1>6, <2>1, CopyDoes
<1> HIDE DEF m1
<1>8. m2 \in Machines(B) /\ m2.audio[d] = <<Sample(p, samples)>> /\ Spares(m1, m2, T)
  BY <1>6, <1>7, DelayDoes DEF y
<1>9. Plays(B, s.ops \o <<x>>, m1) /\ Plays(B, s.ops \o <<x, y>>, m2)
  BY <1>1, <1>2, PlaysMore DEF m1
<1> HIDE DEF m2
<1>10. CASE samples > 0
  <2>1. Plays(B, t.ops, m2)
    BY <1>5, <1>9, <1>10
  <2>2. Mixed(m, m2, s, d, p, samples, TRUE)
    BY <1>7, <1>8, SparesOn DEF Mixed, T
  <2> QED
    BY <1>5, <1>8, <2>1, <2>2 DEF t
<1>11. CASE ~(samples > 0)
  <2>1. Plays(B, t.ops, m1)
    BY <1>5, <1>9, <1>11
  <2>2. samples = 0
    BY <1>11
  <2>3. Mixed(m, m1, s, d, p, samples, TRUE)
    BY <1>7, <2>2 DEF Mixed, T
  <2> QED
    BY <1>5, <1>7, <2>1, <2>3 DEF t
<1> QED
  BY <1>10, <1>11

\* A later one that needs no delay is added.
LEMMA MixAdded ==
    ASSUME NEW s \in Emissions, NEW d \in Owned(s), NEW from \in Owned(s), d # from,
           NEW B \in Nat, s.high <= B, NEW m \in Machines(B),
           Plays(B, s.ops, m), NEW p \in Signals, m.audio[from] = <<Sample(p, 0)>>
    PROVE  LET t == Compiler!Mix(s, d, from, 0, FALSE) IN
           /\ t \in Emissions /\ Like(s, t) /\ Owned(t) = Owned(s) /\ t.high = s.high
           /\ \E r \in Machines(B) : Plays(B, t.ops, r) /\ Mixed(m, r, s, d, p, 0, FALSE)
<1> DEFINE t == Compiler!Mix(s, d, from, 0, FALSE)
           x == Compiler!Add(from, d)
           T == Owned(s) \ {d}
           m1 == Compiler!Perform(m, x)
<1>1. Owned(s) \in SUBSET (0 .. B - 1) /\ Owned(s) \in SUBSET Nat /\ s.ops \in Seq(Operations)
  BY OwnedAre, EmissionType
<1>2. x \in Operations
  BY <1>1, OperationsAre
<1>3. t = Compiler!Emit(s, <<x>>)
  BY DEF Compiler!Mix
<1> HIDE DEF t, x
<1>4. /\ t \in Emissions /\ Like(s, t) /\ Owned(t) = Owned(s) /\ t.high = s.high
      /\ t.ops = s.ops \o <<x>>
  <2> DEFINE more == <<x>>
  <2>1. more \in Seq(Operations)
    BY <1>2
  <2> HIDE DEF more
  <2>2. t = Compiler!Emit(s, more)
    BY <1>3 DEF more
  <2>3. /\ t \in Emissions /\ Like(s, t) /\ Owned(t) = Owned(s) /\ t.high = s.high
        /\ t.ops = s.ops \o more
    BY <2>1, <2>2, EmitDoes
  <2> QED
    BY <2>3 DEF more
<1>5. T \in SUBSET (0 .. B - 1) /\ d \notin T /\ d \in 0 .. B - 1 /\ from \in 0 .. B - 1
  BY <1>1
<1> HIDE DEF T
<1>6. m1 \in Machines(B) /\ m1.audio[d] = Joined(m.audio[d], m.audio[from]) /\ Spares(m, m1, T)
  <2>1. m1 = Compiler!Perform(m, Compiler!Add(from, d))
    BY DEF x
  <2> HIDE DEF m1
  <2> QED
    BY <1>5, <2>1, AddDoes, SMTT(40)
<1>7. Plays(B, s.ops \o <<x>>, m1)
  BY <1>1, <1>2, PlaysMore DEF m1
<1> HIDE DEF m1
<1>8. Mixed(m, m1, s, d, p, 0, FALSE)
  BY <1>6 DEF Mixed, T
<1> QED
  BY <1>4, <1>6, <1>7, <1>8 DEF t

\* A later one that does is delayed in a buffer nobody has.
LEMMA MixDelayed ==
    ASSUME NEW s \in Emissions, NEW d \in Owned(s), NEW from \in Owned(s), d # from,
           NEW samples \in Nat, samples # 0, NEW B \in Nat, NEW t,
           t = Compiler!Mix(s, d, from, samples, FALSE), t.high <= B, NEW m \in Machines(B),
           Plays(B, s.ops, m), NEW p \in Signals, m.audio[from] = <<Sample(p, 0)>>
    PROVE  \E r \in Machines(B) : Plays(B, t.ops, r) /\ Mixed(m, r, s, d, p, samples, FALSE)
<1> DEFINE b == Compiler!Acquired(s)
           u == Compiler!Acquire(s)
           x == Compiler!Copy(from, b)
           y == Compiler!Delay(b, samples)
           z == Compiler!Add(b, d)
           more == <<x, y, z>>
           v == Compiler!Emit(u, more)
           T == Owned(s) \ {d}
           m1 == Compiler!Perform(m, x)
           m2 == Compiler!Perform(m1, y)
           m3 == Compiler!Perform(m2, z)
<1>1. t = Compiler!Release(v, {b})
  BY DEF Compiler!Mix
<1> HIDE DEF b, u, v
<1>2. /\ u \in Emissions /\ Like(s, u) /\ u.ops = s.ops /\ b \notin Owned(s)
      /\ Owned(u) = Owned(s) \cup {b}
  BY AcquireDoes DEF b, u
<1>3. Owned(s) \in SUBSET Nat /\ b \in Nat /\ s.ops \in Seq(Operations)
  <2>1. s.high \in Nat /\ u.high \in Nat /\ s.ops \in Seq(Operations)
    BY <1>2, EmissionType
  <2>2. Owned(s) \in SUBSET Nat /\ Owned(u) \in SUBSET Nat
    BY <2>1 DEF Owned
  <2> QED
    BY <1>2, <2>1, <2>2
<1>4. x \in Operations /\ y \in Operations /\ z \in Operations
  BY <1>3, OperationsAre
<1> HIDE DEF x, y, z
<1>5. more \in Seq(Operations)
  BY <1>4
<1>6. /\ v \in Emissions /\ v.high = u.high /\ v.ops = s.ops \o more /\ Owned(v) = Owned(u)
  <2> HIDE DEF more
  <2> QED
    BY <1>2, <1>5, EmitDoes DEF v
<1>7. t.high = u.high /\ t.ops = s.ops \o more
  <2>1. {b} \in SUBSET Owned(v)
    BY <1>2, <1>6
  <2> QED
    <3> DEFINE K == {b}
    <3>1. K \in SUBSET Owned(v) /\ t = Compiler!Release(v, K)
      BY <1>1, <2>1
    <3> HIDE DEF K
    <3>2. t.high = v.high /\ t.ops = v.ops
      BY <1>6, <3>1, ReleaseDoes
    <3> QED
      BY <1>6, <3>2
<1>8. Owned(u) \in SUBSET (0 .. B - 1)
  BY <1>2, <1>7, OwnedAre
<1>9. /\ T \in SUBSET (0 .. B - 1) /\ T \in SUBSET Owned(s) /\ d \notin T /\ b \notin T /\ d \in 0 .. B - 1
      /\ from \in 0 .. B - 1 /\ b \in 0 .. B - 1 /\ b # d /\ b # from
      /\ Owned(s) \in SUBSET (0 .. B - 1)
  BY <1>2, <1>8
<1>10. /\ m1 \in Machines(B) /\ m1.audio[b] = <<Sample(p, 0)>> /\ Spares(m, m1, Owned(s))
  <2>1. m1 = Compiler!Perform(m, Compiler!Copy(from, b))
    BY DEF x
  <2> HIDE DEF m1
  <2> QED
    BY <1>2, <1>9, <2>1, CopyDoes
<1> HIDE DEF m1, T
<1>11. m2 \in Machines(B) /\ m2.audio[b] = <<Sample(p, samples)>> /\ Spares(m1, m2, Owned(s))
  BY <1>2, <1>9, <1>10, DelayDoes DEF y
<1> HIDE DEF m2
<1>12. m3 \in Machines(B) /\ m3.audio[d] = Joined(m2.audio[d], m2.audio[b]) /\ Spares(m2, m3, T)
  <2>1. m3 = Compiler!Perform(m2, Compiler!Add(b, d)) /\ m2 \in Machines(B)
    BY <1>11 DEF z
  <2>2. b \in 0 .. B - 1 /\ d \in 0 .. B - 1 /\ T \in SUBSET (0 .. B - 1) /\ d \notin T
    BY <1>9
  <2> HIDE DEF m3
  <2> QED
    BY <2>1, <2>2, AddDoes
<1>13. Plays(B, s.ops \o more, m3)
  BY <1>3, <1>4, PlaysMore DEF m1, m2
<1> HIDE DEF m3, more
<1>14. Mixed(m, m3, s, d, p, samples, FALSE)
  <2>1. Spares(m, m2, Owned(s))
    BY <1>10, <1>11, SparesOn
  <2>2. m2.audio[d] = m.audio[d] /\ Spares(m, m2, T)
    BY <1>9, <2>1 DEF Spares
  <2>3. Spares(m, m3, T)
    BY <1>12, <2>2, SparesOn
  <2> QED
    BY <1>11, <1>12, <2>2, <2>3 DEF Mixed, T
<1> QED
  BY <1>7, <1>12, <1>13, <1>14

\* A mix leaves the buffers that are given away as they are.
LEMMA MixKeeps ==
    ASSUME NEW s \in Emissions, NEW d \in Nat, NEW from \in Nat, NEW samples \in Nat,
           NEW isFirst \in BOOLEAN, NEW t, t = Compiler!Mix(s, d, from, samples, isFirst)
    PROVE  t \in Emissions /\ Like(s, t) /\ Owned(t) = Owned(s)
<1> DEFINE direct == IF isFirst THEN IF samples > 0 THEN <<Compiler!Copy(from, d), Compiler!Delay(d, samples)>>
                                     ELSE <<Compiler!Copy(from, d)>>
                     ELSE <<Compiler!Add(from, d)>>
<1>1. CASE isFirst \/ samples = 0
  <2>1. direct \in Seq(Operations)
    <3>1. /\ Compiler!Copy(from, d) \in Operations /\ Compiler!Delay(d, samples) \in Operations
          /\ Compiler!Add(from, d) \in Operations
      BY OperationsAre
    <3> QED
      BY <3>1
  <2>2. t = Compiler!Emit(s, direct)
    BY <1>1 DEF Compiler!Mix
  <2> HIDE DEF direct
  <2> QED
    BY <2>1, <2>2, EmitDoes
<1>2. CASE ~isFirst /\ samples # 0
  <2> DEFINE b == Compiler!Acquired(s)
             u == Compiler!Acquire(s)
             more == <<Compiler!Copy(from, b), Compiler!Delay(b, samples), Compiler!Add(b, d)>>
             v == Compiler!Emit(u, more)
             K == {b}
  <2>1. t = Compiler!Release(v, K)
    BY <1>2 DEF Compiler!Mix
  <2> HIDE DEF b, u, v
  <2>2. /\ u \in Emissions /\ Like(s, u) /\ b \notin Owned(s) /\ Owned(u) = Owned(s) \cup {b}
    BY AcquireDoes DEF b, u
  <2>3. b \in Nat /\ u.high \in Nat /\ s.high \in Nat
    <3>1. u.high \in Nat /\ s.high \in Nat
      BY <2>2, EmissionType
    <3>2. Owned(u) \in SUBSET Nat
      BY <3>1 DEF Owned
    <3> QED
      BY <2>2, <3>1, <3>2
  <2>4. more \in Seq(Operations)
    <3>1. /\ Compiler!Copy(from, b) \in Operations /\ Compiler!Delay(b, samples) \in Operations
          /\ Compiler!Add(b, d) \in Operations
      BY <2>3, OperationsAre
    <3> QED
      BY <3>1
  <2> HIDE DEF more
  <2>5. v \in Emissions /\ Like(u, v) /\ Owned(v) = Owned(u)
    BY <2>2, <2>4, EmitDoes DEF v
  <2>6. K \in SUBSET Owned(v)
    BY <2>2, <2>5
  <2> HIDE DEF K
  <2>7. t \in Emissions /\ Like(v, t) /\ Owned(t) = Owned(v) \ K
    BY <2>1, <2>5, <2>6, ReleaseDoes
  <2>8. Owned(t) = Owned(s)
    BY <2>2, <2>5, <2>7 DEF K
  <2>9. t.high \in Nat /\ v.high \in Nat
    BY <2>5, <2>7, EmissionType
  <2>10. Like(s, t)
    BY <2>2, <2>3, <2>5, <2>7, <2>9 DEF Like
  <2> QED
    BY <2>7, <2>8, <2>10
<1> QED
  BY <1>1, <1>2

\* One source more in a mix, in each of the three ways.
LEMMA MixDoes ==
    ASSUME NEW s \in Emissions, NEW d \in Owned(s), NEW from \in Owned(s), d # from,
           NEW samples \in Nat, NEW isFirst \in BOOLEAN, NEW B \in Nat, NEW t,
           t = Compiler!Mix(s, d, from, samples, isFirst), t.high <= B, NEW m \in Machines(B),
           Plays(B, s.ops, m), NEW p \in Signals, m.audio[from] = <<Sample(p, 0)>>
    PROVE  \E r \in Machines(B) : Plays(B, t.ops, r) /\ Mixed(m, r, s, d, p, samples, isFirst)
<1>1. s.high <= B
  <2>1. s.high \in Nat
    BY EmissionType
  <2>2. d \in Nat /\ from \in Nat
    BY <2>1 DEF Owned
  <2>3. t \in Emissions /\ s.high <= t.high
    BY <2>2, MixKeeps DEF Like
  <2>4. t.high \in Nat
    BY <2>3, EmissionType
  <2> QED
    BY <2>1, <2>3, <2>4
<1>2. CASE isFirst = TRUE
  BY <1>1, <1>2, MixFirst
<1>3. CASE isFirst = FALSE /\ samples = 0
  BY <1>1, <1>3, MixAdded
<1>4. CASE isFirst = FALSE /\ samples # 0
  BY <1>4, MixDelayed
<1> QED
  BY <1>2, <1>3, <1>4

\* The buffers of the signals hold them.
Fits(s, m) == \A p \in DOMAIN s.signals : m.audio[s.signals[p]] = <<Sample(p, 0)>>
Held(s) == \A p \in DOMAIN s.signals : s.signals[p] \in Owned(s)

\* By how much a signal is delayed on its way to a node, and what a node is to hear on a channel.
Lag(at, id, p) == at[id] - (at[p[1]] + info[p[1]].latency)
MixOf(at, id, src, q) == [j \in 1 .. q |-> Sample(src[j], Lag(at, id, src[j]))]

\* What the operations added from one state to the other do, wherever they are played: these
\* buffers hold that, and those that were given away what they held.
Goes(s, t, c, x) ==
    \A B \in Nat : \A m \in Machines(B) :
       t.high <= B /\ Plays(B, s.ops, m) /\ Fits(s, m)
         => \E r \in Machines(B) :
               Plays(B, t.ops, r) /\ Spares(m, r, Owned(s)) /\ \A i \in DOMAIN c : r.audio[c[i]] = x[i]

\* The states in which the first sources of a channel are in its mix.
Gathered(s, d, at, id, src, q) ==
    {t \in Emissions :
       /\ Like(s, t) /\ Owned(t) = Owned(s) \cup {d}
       /\ Goes(s, t, IF q = 0 THEN <<>> ELSE <<d>>, <<MixOf(at, id, src, q)>>)}

\* A mix with one source more is the mix of one more.
LEMMA MixGrows ==
    ASSUME NEW at, NEW id, NEW src, NEW q \in Nat
    PROVE  /\ MixOf(at, id, src, 1) = <<Sample(src[1], Lag(at, id, src[1]))>>
           /\ q # 0 => Joined(MixOf(at, id, src, q), <<Sample(src[q + 1], Lag(at, id, src[q + 1]))>>)
                       = MixOf(at, id, src, q + 1)
<1> DEFINE x(j) == Sample(src[j], Lag(at, id, src[j]))
<1>1. MixOf(at, id, src, 1) = <<x(1)>>
  BY DEF MixOf
<1>2. Joined([j \in 1 .. q |-> x(j)], <<x(q + 1)>>) = [j \in 1 .. q + 1 |-> x(j)]
  <2> HIDE DEF x
  <2> DEFINE a == [j \in 1 .. q |-> x(j)]
             b == <<x(q + 1)>>
             c == [j \in 1 .. q + 1 |-> x(j)]
             X == {x(j) : j \in 1 .. q + 1}
  <2>1. Len(a) = q /\ Len(b) = 1 /\ b[1] = x(q + 1) /\ \A j \in 1 .. q : a[j] = x(j)
    OBVIOUS
  <2>0. a \in Seq(X) /\ b \in Seq(X)
    <3>1. \A j \in 1 .. q : x(j) \in X
      OBVIOUS
    <3>2. x(q + 1) \in X
      <4>1. q + 1 \in 1 .. q + 1
        OBVIOUS
      <4> QED
        BY <4>1
    <3> HIDE DEF X
    <3> QED
      BY <3>1, <3>2
  <2> HIDE DEF a, b, X
  <2>2. Joined(a, b) = [j \in 1 .. q + 1 |-> IF j <= q THEN a[j] ELSE b[j - q]]
    <3> DEFINE z == a \o b
    <3>1. /\ z \in Seq(X) /\ Len(z) = q + 1
          /\ \A j \in 1 .. q + 1 : z[j] = IF j <= q THEN a[j] ELSE b[j - q]
      <4>1. /\ a \o b \in Seq(X) /\ Len(a \o b) = Len(a) + Len(b)
            /\ \A j \in 1 .. Len(a) + Len(b) :
                 (a \o b)[j] = IF j <= Len(a) THEN a[j] ELSE b[j - Len(a)]
        BY <2>0, ConcatProperties
      <4>2. Len(a) = q /\ Len(b) = 1
        BY <2>1
      <4> QED
        BY <4>1, <4>2
    <3> HIDE DEF z
    <3>2. z = [j \in 1 .. q + 1 |-> z[j]]
      BY <3>1, LenProperties
    <3>3. z = [j \in 1 .. q + 1 |-> IF j <= q THEN a[j] ELSE b[j - q]]
      BY <3>1, <3>2
    <3> QED
      BY <3>3 DEF Joined, z
  <2>3. \A j \in 1 .. q + 1 : x(j) = IF j <= q THEN a[j] ELSE b[j - q]
    <3> TAKE j \in 1 .. q + 1
    <3>1. CASE j <= q
      BY <2>1, <3>1
    <3>2. CASE ~(j <= q)
      <4>1. j = q + 1 /\ j - q = 1
        BY <3>2
      <4> QED
        BY <2>1, <3>2, <4>1
    <3> QED
      BY <3>1, <3>2
  <2>4. c = [j \in 1 .. q + 1 |-> IF j <= q THEN a[j] ELSE b[j - q]]
    BY <2>3
  <2> HIDE DEF c
  <2>5. Joined(a, b) = c
    BY <2>2, <2>4
  <2> QED
    BY <2>5 DEF a, b, c
<1> QED
  BY <1>1, <1>2 DEF MixOf

\* One source more in the mix (Gather).
LEMMA GatherDoes ==
    ASSUME NEW s \in Emissions, Held(s), NEW d \in Nat, d \notin Owned(s), NEW at, NEW id,
           NEW src, NEW q \in Nat, src[q + 1] \in DOMAIN s.signals, src[q + 1] \in Signals,
           Lag(at, id, src[q + 1]) \in Nat, NEW t \in Gathered(s, d, at, id, src, q),
           NEW u, u = Compiler!Gather(t, at, id, d, src[q + 1], q = 0)
    PROVE  u \in Gathered(s, d, at, id, src, q + 1)
<1> DEFINE p == src[q + 1]
           samples == Lag(at, id, p)
           from == s.signals[p]
           first == q = 0
           c == IF q = 0 THEN <<>> ELSE <<d>>
           x == <<MixOf(at, id, src, q)>>
           y == MixOf(at, id, src, q + 1)
<1>1. t \in Emissions /\ Like(s, t) /\ Owned(t) = Owned(s) \cup {d} /\ Goes(s, t, c, x)
  BY DEF Gathered
<1>2. p \in DOMAIN s.signals /\ p \in Signals /\ samples \in Nat /\ from \in Owned(s) /\ first \in BOOLEAN
  BY DEF Held
<1>3. u = Compiler!Mix(t, d, from, samples, first)
  BY <1>1 DEF Compiler!Gather, Lag, Like
<1> HIDE DEF p, samples, from, first, c, x
<1>4. d \in Owned(t) /\ from \in Owned(t) /\ d # from /\ Owned(t) \in SUBSET Nat
  <2>1. t.high \in Nat
    BY <1>1, EmissionType
  <2> QED
    BY <1>1, <1>2, <2>1 DEF Owned
<1>5. u \in Emissions /\ Like(t, u) /\ Owned(u) = Owned(t)
  <2>1. t \in Emissions /\ d \in Nat /\ from \in Nat /\ samples \in Nat /\ first \in BOOLEAN
    BY <1>1, <1>2, <1>4
  <2> QED
    BY <1>3, <2>1, MixKeeps
<1>6. s.high \in Nat /\ t.high \in Nat /\ u.high \in Nat
  BY <1>1, <1>5, EmissionType
<1>7. Like(s, u)
  BY <1>1, <1>5, <1>6 DEF Like
<1>8. ASSUME NEW B \in Nat, NEW m \in Machines(B), u.high <= B, Plays(B, s.ops, m), Fits(s, m)
      PROVE  \E r \in Machines(B) : Plays(B, u.ops, r) /\ Spares(m, r, Owned(s)) /\ r.audio[d] = y
  <2>1. t.high <= B
    BY <1>5, <1>6, <1>8 DEF Like
  <2>2. PICK r \in Machines(B) : /\ Plays(B, t.ops, r) /\ Spares(m, r, Owned(s))
                                 /\ \A i \in DOMAIN c : r.audio[c[i]] = x[i]
    BY <1>1, <1>8, <2>1 DEF Goes
  <2>3. r.audio[from] = <<Sample(p, 0)>>
    <3>1. m.audio[from] = <<Sample(p, 0)>>
      BY <1>2, <1>8 DEF Fits, from
    <3> QED
      BY <1>2, <2>2, <3>1 DEF Spares
  <2>4. PICK w \in Machines(B) : Plays(B, u.ops, w) /\ Mixed(r, w, t, d, p, samples, first)
    BY <1>1, <1>2, <1>3, <1>4, <1>8, <2>2, <2>3, MixDoes
  <2>5. Spares(m, w, Owned(s))
    <3>1. Owned(t) \ {d} = Owned(s)
      BY <1>1
    <3>2. Spares(r, w, Owned(s))
      BY <2>4, <3>1 DEF Mixed
    <3> QED
      BY <2>2, <3>2, SparesOn
  <2>6. w.audio[d] = y
    <3>1. CASE q = 0
      <4>1. w.audio[d] = <<Sample(p, samples)>>
        BY <2>4, <3>1 DEF Mixed, first
      <4>2. y = <<Sample(p, samples)>>
        <5>1. q + 1 = 1
          BY <3>1
        <5>2. y = MixOf(at, id, src, 1) /\ <<Sample(p, samples)>> = <<Sample(src[1], Lag(at, id, src[1]))>>
          BY <5>1 DEF p, samples
        <5>3. MixOf(at, id, src, 1) = <<Sample(src[1], Lag(at, id, src[1]))>>
          BY MixGrows
        <5> QED
          BY <5>2, <5>3
      <4> QED
        BY <4>1, <4>2
    <3>2. CASE q # 0
      <4>1. w.audio[d] = Joined(r.audio[d], <<Sample(p, samples)>>)
        BY <2>4, <3>2 DEF Mixed, first
      <4>2. r.audio[d] = MixOf(at, id, src, q)
        <5>1. DOMAIN c = 1 .. 1 /\ c[1] = d /\ x[1] = MixOf(at, id, src, q)
          BY <3>2 DEF c, x
        <5> QED
          BY <2>2, <5>1
      <4>3. Joined(MixOf(at, id, src, q), <<Sample(p, samples)>>) = y
        BY <3>2, MixGrows DEF p, samples
      <4> QED
        BY <4>1, <4>2, <4>3
    <3> QED
      BY <3>1, <3>2
  <2> QED
    BY <2>4, <2>5, <2>6
<1> HIDE DEF y
<1>9. Goes(s, u, <<d>>, <<y>>)
  <2>1. \A r : (\A i \in DOMAIN <<d>> : r.audio[<<d>>[i]] = <<y>>[i]) <=> r.audio[d] = y
    OBVIOUS
  <2> QED
    BY <1>8, <2>1 DEF Goes
<1>10. (IF q + 1 = 0 THEN <<>> ELSE <<d>>) = <<d>>
  OBVIOUS
<1> QED
  BY <1>1, <1>5, <1>7, <1>9, <1>10 DEF Gathered, y

\* The channels of a state are replaced, and nothing else.
LEMMA WithChannels ==
    ASSUME NEW s \in Emissions, NEW c \in Seq(Nat), NEW t, t = [s EXCEPT !.channels = c]
    PROVE  /\ t \in Emissions /\ t.channels = c /\ t.signals = s.signals /\ t.high = s.high
           /\ t.ops = s.ops /\ Owned(t) = Owned(s)
<1> DEFINE G == UNION {[D -> Nat] : D \in SUBSET Signals}
<1>1. s \in [free : SUBSET Nat, high : Nat, signals : G, channels : Seq(Nat), ops : Seq(Operations)]
      /\ s.free \subseteq 0 .. s.high - 1
  BY DEF Emissions
<1>2. t = [free |-> s.free, high |-> s.high, signals |-> s.signals, channels |-> c, ops |-> s.ops]
  BY EmissionEdits
<1> HIDE DEF G
<1>3. t \in [free : SUBSET Nat, high : Nat, signals : G, channels : Seq(Nat), ops : Seq(Operations)]
  BY <1>1, <1>2
<1>4. /\ t.free = s.free /\ t.channels = c /\ t.signals = s.signals /\ t.high = s.high
      /\ t.ops = s.ops
  BY <1>2
<1>5. t \in Emissions
  BY <1>1, <1>3, <1>4 DEF Emissions, G
<1> QED
  BY <1>4, <1>5 DEF Owned

\* No signal is ahead of the latest one.
LEMMA LagsAre ==
    ASSUME GraphInv, Compiler!PortsFit, NEW at \in [nodes -> Nat], NEW id \in nodes,
           at[id] = Compiler!Max(Times(at, id)), NEW k
    PROVE  /\ Compiler!AudioInputs(id, k) \in SUBSET Signals /\ IsFiniteSet(Compiler!AudioInputs(id, k))
           /\ \A p \in Compiler!AudioInputs(id, k) : p[1] \in nodes /\ Lag(at, id, p) \in Nat
<1> DEFINE C == {a \in Compiler!AudioConnections : a.to = id /\ a.in = k}
<1>1. IsFiniteSet(C)
  BY Metadata, FS_Subset
<1>2. Compiler!AudioInputs(id, k) = {<<c.from, c.out>> : c \in C}
  BY DEF Compiler!AudioInputs
<1>3. IsFiniteSet(Compiler!AudioInputs(id, k))
  <2> DEFINE f == [c \in C |-> <<c.from, c.out>>]
             F == {<<c.from, c.out>> : c \in C}
  <2>1. f \in Surjection(C, F)
    BY DEF Surjection
  <2>2. IsFiniteSet(F)
    BY <1>1, <2>1, FS_Surjection
  <2> QED
    BY <1>2, <2>2
<1>4. ASSUME NEW c \in C
      PROVE  <<c.from, c.out>> \in Signals /\ c.from \in nodes /\ Lag(at, id, <<c.from, c.out>>) \in Nat
  <2>1. /\ c.from \in nodes /\ c.from \in Nat /\ c.out \in Nat /\ info[c.from].latency \in Nat
    <3>1. c \in Compiler!AudioConnections
      OBVIOUS
    <3>2. c.from \in nodes /\ c.out \in 0 .. info[c.from].outs - 1
      BY <3>1, Metadata
    <3> QED
      BY <3>2, Metadata
  <2> DEFINE x == at[c.from] + info[c.from].latency
  <2>2. x \in Times(at, id) /\ x \in Nat /\ at[id] \in Nat
    BY <2>1 DEF Times
  <2>3. x <= at[id]
    BY <2>2, TimesAre
  <2>4. Lag(at, id, <<c.from, c.out>>) = at[id] - x
    BY DEF Lag
  <2> HIDE DEF x
  <2> QED
    BY <2>1, <2>2, <2>3, <2>4 DEF Signals
<1> HIDE DEF C
<1> QED
  BY <1>2, <1>3, <1>4

\* What a node hears on a channel: the signals connected to it, in their order.
HeardOn(at, id, k) ==
    LET src == Compiler!SortedSignals(Compiler!AudioInputs(id, k)) IN MixOf(at, id, src, Len(src))

\* The sources of a channel, one after the other (PrepareChannel's loop).
LEMMA GatheredAll ==
    ASSUME NEW s \in Emissions, Held(s), NEW d \in Nat, d \notin Owned(s), NEW at, NEW id,
           NEW src, NEW n \in Nat,
           \A i \in 1 .. n : /\ src[i] \in DOMAIN s.signals /\ src[i] \in Signals
                             /\ Lag(at, id, src[i]) \in Nat,
           NEW first \in Gathered(s, d, at, id, src, 0)
    PROVE  LET gathered[i \in 0 .. n] ==
                   IF i = 0 THEN first
                   ELSE Compiler!Gather(gathered[i - 1], at, id, d, src[i], i = 1)
           IN  gathered[n] \in Gathered(s, d, at, id, src, n)
<1> DEFINE next(t, i) == Compiler!Gather(t, at, id, d, src[i], i = 1)
           body(f) == [i \in 0 .. n |-> IF i = 0 THEN first ELSE next(f[i - 1], i)]
           gathered == CHOOSE f : f = body(f)
           S == [i \in 0 .. n |-> Gathered(s, d, at, id, src, i)]
           step == [i \in 1 .. n |-> [t \in S[i - 1] |-> next(t, i)]]
<1>1. SUFFICES gathered[n] \in Gathered(s, d, at, id, src, n)
  OBVIOUS
<1> HIDE DEF gathered
<1>3. /\ \A i \in 0 .. n : S[i] = Gathered(s, d, at, id, src, i)
      /\ \A i \in 1 .. n : step[i] = [t \in S[i - 1] |-> next(t, i)]
  OBVIOUS
<1> HIDE DEF S, step, next
<1>4. ASSUME NEW i \in 1 .. n, NEW t \in S[i - 1]
      PROVE  next(t, i) \in S[i]
  <2> DEFINE q == i - 1
  <2>1. q \in Nat /\ q \in 0 .. n /\ i \in 0 .. n /\ q + 1 = i /\ (i = 1 <=> q = 0)
    OBVIOUS
  <2>2. t \in Gathered(s, d, at, id, src, q)
    BY <1>3, <2>1
  <2> HIDE DEF q
  <2>3. Compiler!Gather(t, at, id, d, src[q + 1], q = 0) \in Gathered(s, d, at, id, src, q + 1)
    <3>1. /\ src[q + 1] \in DOMAIN s.signals /\ src[q + 1] \in Signals
          /\ Lag(at, id, src[q + 1]) \in Nat
      BY <2>1
    <3> QED
      BY <2>1, <2>2, <3>1, GatherDoes
  <2>4. (i = 1) = (q = 0)
    BY <2>1
  <2>5. Compiler!Gather(t, at, id, d, src[i], i = 1) \in Gathered(s, d, at, id, src, i)
    BY <2>1, <2>3, <2>4
  <2> QED
    BY <1>3, <2>1, <2>5 DEF next
<1>5. first \in S[0]
  BY <1>3
<1>6. \A i \in 1 .. n : step[i] \in [S[i - 1] -> S[i]]
  BY <1>3, <1>4
<1>7. PICK g : Recurs(g, n, S, first, step)
  BY <1>5, <1>6, Recursion
<1>8. g = body(g)
  <2>1. ASSUME NEW i \in 0 .. n
        PROVE  g[i] = IF i = 0 THEN first ELSE next(g[i - 1], i)
    <3>1. CASE i = 0
      BY <1>7, <3>1 DEF Recurs
    <3>2. CASE i # 0
      <4>1. i \in 1 .. n
        BY <3>2
      <4>2. g[i - 1] \in S[i - 1] /\ g[i] = step[i][g[i - 1]]
        BY <1>7, <4>1 DEF Recurs
      <4> QED
        BY <1>3, <3>2, <4>1, <4>2
    <3> QED
      BY <3>1, <3>2
  <2>2. g = [i \in 0 .. n |-> g[i]]
    BY <1>7 DEF Recurs
  <2> QED
    BY <2>1, <2>2
<1>9. gathered = body(gathered)
  BY <1>8 DEF gathered
<1>10. /\ gathered[0] = first
       /\ \A i \in 1 .. n : gathered[i] = next(gathered[i - 1], i)
  <2>1. 0 \in 0 .. n /\ \A i \in 1 .. n : i \in 0 .. n /\ i # 0
    OBVIOUS
  <2> QED
    BY <1>9, <2>1
<1> HIDE DEF body
<1>11. gathered[n] \in S[n]
  <2>1. \A i \in 0 .. n : gathered[i] \in S[i]
    BY <1>4, <1>5, <1>10, Reached
  <2> QED
    BY <2>1
<1>12. n \in 0 .. n
  OBVIOUS
<1> QED
  BY <1>3, <1>11, <1>12

\* One channel more, in a buffer of its own that holds this.
ChannelAdded(s, t, d, y) ==
    /\ t \in Emissions /\ t.signals = s.signals /\ t.channels = Append(s.channels, d)
    /\ s.high <= t.high /\ d \in Nat /\ d \notin Owned(s) /\ Owned(t) = Owned(s) \cup {d}
    /\ Goes(s, t, <<d>>, <<y>>)

\* A channel gets a buffer nobody has, with what the node is to hear on it (PrepareChannel).
LEMMA PrepareChannelDoes ==
    ASSUME GraphInv, Compiler!PortsFit, NEW s \in Emissions, Held(s), NEW at \in [nodes -> Nat],
           NEW id \in nodes, at[id] = Compiler!Max(Times(at, id)), NEW k,
           Compiler!AudioInputs(id, k) \subseteq DOMAIN s.signals,
           NEW t, t = Compiler!PrepareChannel(s, at, id, k)
    PROVE  ChannelAdded(s, t, Compiler!Acquired(s), HeardOn(at, id, k))
<1> DEFINE I == {p \in Compiler!AudioInputs(id, k) : p \in DOMAIN s.signals}
           src == Compiler!SortedSignals(I)
           d == Compiler!Acquired(s)
           n == Len(src)
           first == Compiler!Acquire(s)
           cleared == Compiler!Emit(first, <<[op |-> "clear", to |-> d]>>)
           gathered[i \in 0 .. n] ==
               IF i = 0 THEN first
               ELSE Compiler!Gather(gathered[i - 1], at, id, d, src[i], i = 1)
           ready == IF src = <<>> THEN cleared ELSE gathered[n]
<1>1. I = Compiler!AudioInputs(id, k)
  OBVIOUS
<1>2. t = [ready EXCEPT !.channels = Append(ready.channels, d)]
  BY DEF Compiler!PrepareChannel
<1>3. Lists(src, I) /\ I \in SUBSET Signals /\ \A p \in I : Lag(at, id, p) \in Nat
  <2>1. I \in SUBSET Signals /\ IsFiniteSet(I) /\ \A p \in I : Lag(at, id, p) \in Nat
    BY <1>1, LagsAre
  <2> HIDE DEF I
  <2> QED
    BY <2>1, SortedSignalsLists
<1>4. HeardOn(at, id, k) = MixOf(at, id, src, n)
  BY <1>1 DEF HeardOn
<1>5. /\ first \in Emissions /\ Like(s, first) /\ first.ops = s.ops /\ d \notin Owned(s)
      /\ Owned(first) = Owned(s) \cup {d}
  BY AcquireDoes
<1> HIDE DEF I, src, first, d
<1>6. n \in Nat /\ \A i \in 1 .. n : src[i] \in I
  BY <1>3, LenProperties, ElementOfSeq DEF Lists
<1>7. s.high \in Nat /\ first.high \in Nat /\ d \in Nat /\ s.channels \in Seq(Nat)
  <2>1. s.high \in Nat /\ first.high \in Nat /\ s.channels \in Seq(Nat)
    BY <1>5, EmissionType
  <2> QED
    BY <1>5, <2>1 DEF Owned
<1>8. first \in Gathered(s, d, at, id, src, 0)
  <2>1. Goes(s, first, <<>>, <<MixOf(at, id, src, 0)>>)
    <3>1. ASSUME NEW m
          PROVE  Spares(m, m, Owned(s))
      BY DEF Spares
    <3>2. DOMAIN <<>> = {}
      OBVIOUS
    <3> QED
      BY <1>5, <3>1, <3>2 DEF Goes
  <2> QED
    BY <1>5, <2>1 DEF Gathered
<1>9. gathered[n] \in Gathered(s, d, at, id, src, n)
  <2>1. \A i \in 1 .. n : /\ src[i] \in DOMAIN s.signals /\ src[i] \in Signals
                          /\ Lag(at, id, src[i]) \in Nat
    BY <1>3, <1>6 DEF I
  <2> QED
    BY <1>5, <1>6, <1>7, <1>8, <2>1, GatheredAll
<1> HIDE DEF gathered
<1>10. /\ ready \in Emissions /\ Like(s, ready) /\ Owned(ready) = Owned(s) \cup {d}
       /\ Goes(s, ready, <<d>>, <<MixOf(at, id, src, n)>>)
  <2>1. CASE src = <<>>
    <3> DEFINE op == [op |-> "clear", to |-> d]
               more == <<op>>
    <3>1. ready = Compiler!Emit(first, more)
      BY <2>1
    <3>2. op \in Operations
      BY <1>7, OperationsAre
    <3> HIDE DEF op
    <3>3. more \in Seq(Operations)
      BY <3>2
    <3> HIDE DEF ready, more
    <3>4. /\ ready \in Emissions /\ Like(first, ready) /\ ready.high = first.high
          /\ ready.ops = first.ops \o more /\ Owned(ready) = Owned(first)
      BY <1>5, <3>1, <3>3, EmitDoes
    <3>5. Like(s, ready)
      BY <1>5, <1>7, <3>4 DEF Like
    <3>6. MixOf(at, id, src, n) = <<>>
      BY <2>1 DEF MixOf
    <3>7. ASSUME NEW B \in Nat, NEW m \in Machines(B), ready.high <= B, Plays(B, s.ops, m)
          PROVE  \E r \in Machines(B) : Plays(B, ready.ops, r) /\ Spares(m, r, Owned(s))
                                        /\ r.audio[d] = <<>>
      <4> DEFINE r == Compiler!Perform(m, op)
      <4>1. Owned(first) \in SUBSET (0 .. B - 1)
        BY <1>5, <3>4, <3>7, OwnedAre
      <4>2. d \in 0 .. B - 1 /\ Owned(s) \in SUBSET (0 .. B - 1)
        BY <1>5, <4>1
      <4>3. r = Compiler!Perform(m, [op |-> "clear", to |-> d])
        BY DEF op
      <4>4. Plays(B, s.ops \o <<op>>, r)
        <5>1. s.ops \in Seq(Operations)
          BY EmissionType
        <5> QED
          BY <3>2, <3>7, <5>1, PlaysMore
      <4> HIDE DEF r
      <4>5. /\ r \in Machines(B) /\ r.audio[d] = <<>>
            /\ \A T \in SUBSET (0 .. B - 1) : d \notin T => Spares(m, r, T)
        BY <4>2, <4>3, ClearDoes
      <4>6. Spares(m, r, Owned(s))
        BY <1>5, <4>2, <4>5
      <4>7. Plays(B, ready.ops, r)
        BY <1>5, <3>4, <4>4 DEF more
      <4> QED
        BY <4>5, <4>6, <4>7
    <3>8. Goes(s, ready, <<d>>, <<MixOf(at, id, src, n)>>)
      <4> DEFINE x == MixOf(at, id, src, n)
      <4>1. \A r : (\A i \in DOMAIN <<d>> : r.audio[<<d>>[i]] = <<x>>[i]) <=> r.audio[d] = x
        OBVIOUS
      <4>2. x = <<>>
        BY <3>6
      <4> HIDE DEF x
      <4>3. \A B \in Nat : \A m \in Machines(B) : ready.high <= B /\ Plays(B, s.ops, m)
              => \E r \in Machines(B) : Plays(B, ready.ops, r) /\ Spares(m, r, Owned(s))
                                        /\ r.audio[d] = x
        BY <3>7, <4>2
      <4>4. Goes(s, ready, <<d>>, <<x>>)
        BY <4>1, <4>3 DEF Goes
      <4> QED
        BY <4>4 DEF x
    <3> QED
      BY <1>5, <3>4, <3>5, <3>8
  <2>2. CASE src # <<>>
    <3>1. ready = gathered[n]
      BY <2>2
    <3>2. n # 0
      <4>1. src \in Seq(I)
        BY <1>3 DEF Lists
      <4> QED
        BY <2>2, <4>1, EmptySeq
    <3>3. ready \in Gathered(s, d, at, id, src, n)
      BY <1>9, <3>1
    <3> HIDE DEF ready
    <3> QED
      BY <3>2, <3>3 DEF Gathered
  <2> QED
    BY <2>1, <2>2
<1> HIDE DEF ready
<1>11. ready.channels = s.channels /\ ready.signals = s.signals /\ s.high <= ready.high
  BY <1>10 DEF Like
<1> DEFINE c == Append(s.channels, d)
<1>12. c \in Seq(Nat) /\ t = [ready EXCEPT !.channels = c]
  BY <1>2, <1>7, <1>11
<1> HIDE DEF c
<1>13. /\ t \in Emissions /\ t.channels = c /\ t.signals = ready.signals
       /\ t.high = ready.high /\ t.ops = ready.ops /\ Owned(t) = Owned(ready)
  BY <1>10, <1>12, WithChannels
<1>14. Goes(s, t, <<d>>, <<HeardOn(at, id, k)>>)
  BY <1>4, <1>10, <1>13 DEF Goes
<1> QED
  BY <1>5, <1>7, <1>10, <1>11, <1>13, <1>14 DEF c, d, ChannelAdded

\* The states in which the first channels of a node are ready.
Prepared(s, at, id, k) ==
    {t \in Emissions :
       /\ t.signals = s.signals /\ s.high <= t.high
       /\ Len(t.channels) = k /\ Distinct(t.channels)
       /\ Elements(t.channels) \cap Owned(s) = {} /\ Owned(t) = Owned(s) \cup Elements(t.channels)
       /\ Goes(s, t, t.channels, [i \in 1 .. k |-> HeardOn(at, id, i - 1)])}

\* One channel more.
LEMMA PreparedNext ==
    ASSUME GraphInv, Compiler!PortsFit, NEW s \in Emissions, Held(s), NEW at \in [nodes -> Nat],
           NEW id \in nodes, at[id] = Compiler!Max(Times(at, id)), NEW k \in Nat,
           Compiler!AudioInputs(id, k) \subseteq DOMAIN s.signals,
           NEW t \in Prepared(s, at, id, k), NEW u, u = Compiler!PrepareChannel(t, at, id, k)
    PROVE  u \in Prepared(s, at, id, k + 1)
<1> DEFINE d == Compiler!Acquired(t)
           c == t.channels
           e == u.channels
           x == [i \in 1 .. k |-> HeardOn(at, id, i - 1)]
           y == HeardOn(at, id, k)
           z == [i \in 1 .. k + 1 |-> HeardOn(at, id, i - 1)]
<1>1. /\ t \in Emissions /\ t.signals = s.signals /\ s.high <= t.high
      /\ Len(c) = k /\ Distinct(c) /\ Elements(c) \cap Owned(s) = {}
      /\ Owned(t) = Owned(s) \cup Elements(c) /\ Goes(s, t, c, x)
  BY DEF Prepared
<1>2. Held(t)
  BY <1>1 DEF Held
<1> HIDE DEF d, c, x, y
<1>3. /\ u \in Emissions /\ u.signals = t.signals /\ e = Append(c, d)
      /\ t.high <= u.high /\ d \in Nat /\ d \notin Owned(t) /\ Owned(u) = Owned(t) \cup {d}
      /\ Goes(t, u, <<d>>, <<y>>)
  <2>1. t \in Emissions /\ Held(t) /\ Compiler!AudioInputs(id, k) \subseteq DOMAIN t.signals
    BY <1>1, <1>2
  <2>2. ChannelAdded(t, u, Compiler!Acquired(t), HeardOn(at, id, k))
    BY <2>1, PrepareChannelDoes
  <2> QED
    BY <2>2 DEF d, c, y, ChannelAdded
<1> HIDE DEF e
<1>4. s.high \in Nat /\ t.high \in Nat /\ u.high \in Nat /\ c \in Seq(Nat)
  BY <1>1, <1>3, EmissionType DEF c
<1>5. /\ Len(e) = k + 1 /\ DOMAIN e = 1 .. k + 1 /\ e[k + 1] = d
      /\ \A i \in 1 .. k : e[i] = c[i]
  BY <1>1, <1>3, <1>4
<1>6. Elements(e) = Elements(c) \cup {d} /\ Distinct(e)
  BY <1>1, <1>3, <1>4, ElementsAppended
<1>7. z[k + 1] = y /\ \A i \in 1 .. k : z[i] = x[i]
  BY DEF x, y
<1> HIDE DEF z
<1>8. ASSUME NEW B \in Nat, NEW m \in Machines(B), u.high <= B, Plays(B, s.ops, m), Fits(s, m)
      PROVE  \E r \in Machines(B) : Plays(B, u.ops, r) /\ Spares(m, r, Owned(s))
                                    /\ \A i \in DOMAIN e : r.audio[e[i]] = z[i]
  <2>1. t.high <= B
    BY <1>3, <1>4, <1>8
  <2>2. PICK r \in Machines(B) : /\ Plays(B, t.ops, r) /\ Spares(m, r, Owned(s))
                                 /\ \A i \in DOMAIN c : r.audio[c[i]] = x[i]
    BY <1>1, <1>8, <2>1 DEF Goes
  <2>3. Fits(t, r)
    BY <1>1, <1>8, <2>2 DEF Fits, Held, Spares
  <2>4. PICK w \in Machines(B) : /\ Plays(B, u.ops, w) /\ Spares(r, w, Owned(t))
                                 /\ \A i \in DOMAIN <<d>> : w.audio[<<d>>[i]] = <<y>>[i]
    BY <1>3, <1>8, <2>2, <2>3 DEF Goes
  <2>5. w.audio[d] = y
    BY <2>4
  <2>6. Spares(m, w, Owned(s))
    <3>1. Spares(r, w, Owned(s))
      BY <1>1, <2>4 DEF Spares
    <3> QED
      BY <2>2, <3>1, SparesOn
  <2>7. ASSUME NEW i \in 1 .. k + 1
        PROVE  w.audio[e[i]] = z[i]
    <3>1. CASE i = k + 1
      BY <1>5, <1>7, <2>5, <3>1
    <3>2. CASE i # k + 1
      <4>1. i \in 1 .. k /\ i \in DOMAIN c
        BY <1>1, <1>4, <3>2, LenProperties
      <4>2. c[i] \in Owned(t)
        BY <1>1, <4>1 DEF Elements
      <4>3. w.audio[c[i]] = r.audio[c[i]] /\ r.audio[c[i]] = x[i]
        BY <2>2, <2>4, <4>1, <4>2 DEF Spares
      <4> QED
        BY <1>5, <1>7, <4>1, <4>3
    <3> QED
      BY <3>1, <3>2
  <2> QED
    BY <1>5, <2>4, <2>6, <2>7
<1>9. Goes(s, u, e, z)
  BY <1>8 DEF Goes
<1>10. Elements(e) \cap Owned(s) = {} /\ Owned(u) = Owned(s) \cup Elements(e) /\ s.high <= u.high
  BY <1>1, <1>3, <1>4, <1>6
<1>11. u.signals = s.signals
  BY <1>1, <1>3
<1> QED
  BY <1>3, <1>5, <1>6, <1>9, <1>10, <1>11 DEF Prepared, e, z

\* All the channels of a node (PrepareChannels).
LEMMA PrepareChannelsDoes ==
    ASSUME GraphInv, Compiler!PortsFit, NEW s \in Emissions, Held(s), s.channels = <<>>,
           NEW at \in [nodes -> Nat], NEW id \in nodes, at[id] = Compiler!Max(Times(at, id)),
           \A k \in Nat : Compiler!AudioInputs(id, k) \subseteq DOMAIN s.signals
    PROVE  Compiler!PrepareChannels(s, at, id)
             \in Prepared(s, at, id, Compiler!Max({info[id].ins, info[id].outs}))
<1> DEFINE n == Compiler!Max({info[id].ins, info[id].outs})
           next(t, k) == Compiler!PrepareChannel(t, at, id, k - 1)
           body(f) == [k \in 0 .. n |-> IF k = 0 THEN s ELSE next(f[k - 1], k)]
           prepared == CHOOSE f : f = body(f)
           S == [k \in 0 .. n |-> Prepared(s, at, id, k)]
           step == [k \in 1 .. n |-> [t \in S[k - 1] |-> next(t, k)]]
<1>1. n \in Nat
  BY Greater, Metadata
<1>2. Compiler!PrepareChannels(s, at, id) = prepared[n]
  BY DEF Compiler!PrepareChannels
<1> HIDE DEF n, prepared
<1>3. /\ \A k \in 0 .. n : S[k] = Prepared(s, at, id, k)
      /\ \A k \in 1 .. n : step[k] = [t \in S[k - 1] |-> next(t, k)]
  OBVIOUS
<1> HIDE DEF S, step, next
<1>4. ASSUME NEW k \in 1 .. n, NEW t \in S[k - 1]
      PROVE  next(t, k) \in S[k]
  <2> DEFINE q == k - 1
  <2>1. q \in Nat /\ q \in 0 .. n /\ k \in 0 .. n /\ q + 1 = k
    BY <1>1
  <2>2. t \in Prepared(s, at, id, q)
    BY <1>3, <2>1
  <2>3. next(t, k) = Compiler!PrepareChannel(t, at, id, q)
    BY DEF next
  <2> HIDE DEF q
  <2>4. next(t, k) \in Prepared(s, at, id, q + 1)
    BY <2>1, <2>2, <2>3, PreparedNext
  <2> QED
    BY <1>3, <2>1, <2>4
<1>5. s \in S[0]
  <2>1. Len(s.channels) = 0 /\ DOMAIN s.channels = {} /\ 0 \in 0 .. n
    BY <1>1
  <2>2. Distinct(s.channels) /\ Elements(s.channels) = {}
    BY <2>1 DEF Distinct, Elements
  <2>3. Goes(s, s, s.channels, [i \in 1 .. 0 |-> HeardOn(at, id, i - 1)])
    <3>1. ASSUME NEW m
          PROVE  Spares(m, m, Owned(s))
      BY DEF Spares
    <3> QED
      BY <2>1, <3>1 DEF Goes
  <2>4. s.high <= s.high
    BY EmissionType
  <2> DEFINE x == [i \in 1 .. 0 |-> HeardOn(at, id, i - 1)]
  <2> HIDE DEF x
  <2>5. /\ s.signals = s.signals /\ Elements(s.channels) \cap Owned(s) = {}
        /\ Owned(s) = Owned(s) \cup Elements(s.channels) /\ Goes(s, s, s.channels, x)
    BY <2>2, <2>3 DEF x
  <2>6. s \in Prepared(s, at, id, 0)
    BY <2>1, <2>2, <2>4, <2>5 DEF Prepared, x
  <2> QED
    BY <1>3, <2>1, <2>6
<1>6. \A k \in 1 .. n : step[k] \in [S[k - 1] -> S[k]]
  BY <1>3, <1>4
<1>7. PICK g : Recurs(g, n, S, s, step)
  BY <1>1, <1>5, <1>6, Recursion
<1>8. g = body(g)
  <2>1. ASSUME NEW k \in 0 .. n
        PROVE  g[k] = IF k = 0 THEN s ELSE next(g[k - 1], k)
    <3>1. CASE k = 0
      BY <1>7, <3>1 DEF Recurs
    <3>2. CASE k # 0
      <4>1. k \in 1 .. n
        BY <1>1, <3>2
      <4>2. g[k - 1] \in S[k - 1] /\ g[k] = step[k][g[k - 1]]
        BY <1>7, <4>1 DEF Recurs
      <4> QED
        BY <1>3, <3>2, <4>1, <4>2
    <3> QED
      BY <3>1, <3>2
  <2>2. g = [k \in 0 .. n |-> g[k]]
    BY <1>7 DEF Recurs
  <2> QED
    BY <2>1, <2>2
<1>9. prepared = body(prepared)
  BY <1>8 DEF prepared
<1>10. /\ prepared[0] = s
       /\ \A k \in 1 .. n : prepared[k] = next(prepared[k - 1], k)
  <2>1. 0 \in 0 .. n /\ \A k \in 1 .. n : k \in 0 .. n /\ k # 0
    BY <1>1
  <2> QED
    BY <1>9, <2>1
<1> HIDE DEF body
<1>11. prepared[n] \in S[n]
  <2>1. \A k \in 0 .. n : prepared[k] \in S[k]
    BY <1>1, <1>4, <1>5, <1>10, Reached
  <2> QED
    BY <1>1, <2>1
<1>12. n \in 0 .. n
  BY <1>1
<1> QED
  BY <1>2, <1>3, <1>11, <1>12 DEF n

\* Different signals have different buffers.
Apart(s) == \A p, q \in DOMAIN s.signals : s.signals[p] = s.signals[q] => p = q

\* The states with the channels of a node ready.
NodeReady(o, i, t) ==
    /\ t \in Emissions /\ DOMAIN t.signals = Live(o, i - 1) /\ Held(t) /\ Apart(t)
    /\ Distinct(t.channels) /\ Elements(t.channels) \in SUBSET Owned(t)
    /\ \A p \in DOMAIN t.signals : t.signals[p] \notin Elements(t.channels)
    /\ info[o[i]].outs <= Len(t.channels)

\* Where the signals that are still to be read are once the node is done.
Settled(o, i, t, u) ==
    /\ u \in Emissions /\ u.high = t.high /\ u.ops = t.ops /\ u.channels = <<>>
    /\ DOMAIN u.signals = Live(o, i) /\ Held(u) /\ Apart(u)
    /\ \A p \in Live(o, i) :
          \/ p \in Live(o, i - 1) /\ u.signals[p] = t.signals[p]
          \/ \E k \in DOMAIN t.channels : /\ k <= info[o[i]].outs /\ p = <<o[i], k - 1>>
                                          /\ u.signals[p] = t.channels[k]

\* After a node its read-out signals give their buffers back, and no other (Settle).
LEMMA SettleDoes ==
    ASSUME GraphInv, Compiler!PortsFit, NEW o, Ordered(o), NEW i \in 1 .. Len(o),
           NEW t, NodeReady(o, i, t), NEW u, u = Compiler!Settle(t, o, i)
    PROVE  Settled(o, i, t, u)
<1> DEFINE id == o[i]
           outputs == {<<id, k>> : k \in 0 .. (info[id].outs - 1)}
           kept == {p \in outputs : Compiler!LastConsumer(o, p) # -1}
           c == t.channels
           sig == t.signals
           D == DOMAIN sig \cup kept
           live == [p \in D |-> IF p \in kept THEN c[p[2] + 1] ELSE sig[p]]
           unread == {c[k] : k \in {j \in DOMAIN c : <<id, j - 1>> \notin kept}}
           consumed == {p \in DOMAIN live : Compiler!LastConsumer(o, p) = i}
           free == t.free \cup unread \cup {live[p] : p \in consumed}
           new == [p \in DOMAIN live \ consumed |-> live[p]]
<1>1. u = [free |-> free, high |-> t.high, signals |-> new, channels |-> <<>>, ops |-> t.ops]
  BY DEF Compiler!Settle, Compiler!IsConsumed
<1>2. /\ t \in Emissions /\ DOMAIN sig = Live(o, i - 1) /\ Distinct(c) /\ Elements(c) \in SUBSET Owned(t)
      /\ \A p \in DOMAIN sig : sig[p] \in Owned(t) /\ sig[p] \notin Elements(c)
      /\ \A p, q \in DOMAIN sig : sig[p] = sig[q] => p = q
      /\ info[id].outs <= Len(c)
  BY DEF NodeReady, Held, Apart
<1>3. /\ t.free \in SUBSET Nat /\ t.high \in Nat /\ t.free \subseteq 0 .. t.high - 1
      /\ t.ops \in Seq(Operations) /\ c \in Seq(Nat)
  BY <1>2, EmissionType
<1>4. id \in nodes /\ id \in Nat /\ info[id].outs \in Nat
  BY OrderedAre, Metadata
<1>5. Len(c) \in Nat /\ DOMAIN c = 1 .. Len(c)
  BY <1>3, LenProperties
<1>6. kept = KeptOf(o, i)
  BY DEF KeptOf
<1>7. ASSUME NEW p \in kept
      PROVE  /\ p = <<id, p[2]>> /\ p[2] \in 0 .. (info[id].outs - 1) /\ p[2] + 1 \in DOMAIN c
             /\ p[2] + 1 <= info[id].outs /\ (p[2] + 1) - 1 = p[2]
  <2>1. PICK k \in 0 .. (info[id].outs - 1) : p = <<id, k>>
    OBVIOUS
  <2>2. p[2] = k
    BY <2>1
  <2> QED
    BY <1>2, <1>4, <1>5, <2>1, <2>2
<1> HIDE DEF kept, outputs, id, c, sig
<1>8. Live(o, i) = {p \in D : Compiler!LastConsumer(o, p) # i} /\ DOMAIN sig \cap kept = {}
  BY <1>2, <1>6, LiveNext
<1>9. DOMAIN live = D /\ \A p \in D : live[p] = IF p \in kept THEN c[p[2] + 1] ELSE sig[p]
  OBVIOUS
<1> HIDE DEF live
<1>10. DOMAIN live \ consumed = Live(o, i)
  BY <1>8, <1>9
<1>11. ASSUME NEW p \in D
       PROVE  /\ live[p] \in Owned(t)
              /\ p \in kept => live[p] = c[p[2] + 1] /\ live[p] \in Elements(c)
              /\ p \notin kept => p \in DOMAIN sig /\ live[p] = sig[p] /\ live[p] \notin Elements(c)
  <2>1. CASE p \in kept
    <3>1. live[p] = c[p[2] + 1] /\ p[2] + 1 \in DOMAIN c
      BY <1>7, <1>9, <2>1
    <3>2. live[p] \in Elements(c)
      BY <3>1 DEF Elements
    <3> QED
      BY <1>2, <2>1, <3>1, <3>2
  <2>2. CASE p \notin kept
    <3>1. p \in DOMAIN sig /\ live[p] = sig[p]
      BY <1>9, <2>2
    <3> QED
      BY <1>2, <2>2, <3>1
  <2> QED
    BY <2>1, <2>2
<1>12. ASSUME NEW p \in D, NEW q \in D, live[p] = live[q]
       PROVE  p = q
  <2>1. CASE p \in kept
    <3>1. q \in kept
      BY <1>11, <1>12, <2>1
    <3>2. c[p[2] + 1] = c[q[2] + 1] /\ p[2] + 1 \in DOMAIN c /\ q[2] + 1 \in DOMAIN c
      BY <1>7, <1>11, <1>12, <2>1, <3>1
    <3>3. p[2] + 1 = q[2] + 1 /\ p[2] \in Int /\ q[2] \in Int
      BY <1>2, <1>4, <1>7, <2>1, <3>1, <3>2 DEF Distinct
    <3> QED
      BY <1>7, <2>1, <3>1, <3>3
  <2>2. CASE p \notin kept
    <3>1. q \notin kept
      BY <1>11, <1>12, <2>2
    <3> QED
      BY <1>2, <1>11, <1>12, <2>2, <3>1
  <2> QED
    BY <2>1, <2>2
<1>13. unread \in SUBSET Elements(c)
  BY DEF Elements
<1>14. ASSUME NEW p \in Live(o, i)
       PROVE  live[p] \notin unread /\ live[p] \notin {live[q] : q \in consumed}
  <2>1. p \in D /\ p \notin consumed
    BY <1>8, <1>10
  <2>2. live[p] \notin unread
    <3>1. CASE p \in kept
      <4> SUFFICES ASSUME NEW k \in DOMAIN c, <<id, k - 1>> \notin kept, live[p] = c[k]
                   PROVE  FALSE
        OBVIOUS
      <4>1. k = p[2] + 1
        BY <1>2, <1>7, <1>11, <2>1, <3>1 DEF Distinct
      <4>2. <<id, k - 1>> = p
        BY <1>7, <3>1, <4>1
      <4> QED
        BY <3>1, <4>2
    <3>2. CASE p \notin kept
      BY <1>11, <1>13, <2>1, <3>2
    <3> QED
      BY <3>1, <3>2
  <2>3. ASSUME NEW q \in consumed, live[p] = live[q]
        PROVE  FALSE
    BY <1>9, <1>12, <2>1, <2>3
  <2> QED
    BY <2>2, <2>3
<1> DEFINE released == {live[p] : p \in consumed}
<1>15. released \in SUBSET Owned(t) /\ unread \in SUBSET Owned(t)
  BY <1>2, <1>9, <1>11, <1>13
<1>16. \A p \in Live(o, i) : new[p] = live[p]
  BY <1>10
<1>17. DOMAIN new = Live(o, i)
  BY <1>10
<1>18. \A p \in Live(o, i) : live[p] \in Owned(t) /\ live[p] \notin unread /\ live[p] \notin released
  BY <1>8, <1>11, <1>14
<1>19. free = t.free \cup unread \cup released
  OBVIOUS
<1> HIDE DEF unread, released, consumed, D
<1> HIDE DEF free
<1>20. Owned(t) \in SUBSET (0 .. t.high - 1) /\ Owned(t) \in SUBSET Nat
  BY <1>3 DEF Owned
<1>21. free \in SUBSET Nat /\ free \subseteq 0 .. t.high - 1
  BY <1>3, <1>15, <1>19, <1>20
<1>22. new \in [Live(o, i) -> Nat]
  <2>1. new = [p \in Live(o, i) |-> live[p]]
    BY <1>10
  <2> QED
    BY <1>18, <1>20, <2>1
<1> HIDE DEF new
<1>23. Live(o, i) \in SUBSET Signals
  <2>1. \A x \in Compiler!AudioConnections : <<x.from, x.out>> \in Signals
    BY Metadata DEF Signals
  <2> QED
    BY <2>1 DEF Live, AudioSignals
<1>24. /\ u.free = free /\ u.high = t.high /\ u.signals = new /\ u.channels = <<>> /\ u.ops = t.ops
  BY <1>1
<1>25. u \in Emissions
  <2> DEFINE G == UNION {[E -> Nat] : E \in SUBSET Signals}
  <2>1. new \in G
    BY <1>22, <1>23
  <2> HIDE DEF G
  <2>2. u \in [free : SUBSET Nat, high : Nat, signals : G, channels : Seq(Nat), ops : Seq(Operations)]
    <3>1. <<>> \in Seq(Nat)
      OBVIOUS
    <3> QED
      BY <1>1, <1>3, <1>21, <2>1, <3>1
  <2> QED
    BY <1>21, <1>24, <2>2 DEF Emissions, G
<1>26. Held(u)
  BY <1>16, <1>17, <1>18, <1>19, <1>24 DEF Held, Owned
<1>27. Apart(u)
  BY <1>8, <1>12, <1>16, <1>17, <1>24 DEF Apart
<1>28. ASSUME NEW p \in Live(o, i)
       PROVE  \/ p \in Live(o, i - 1) /\ u.signals[p] = t.signals[p]
              \/ \E k \in DOMAIN t.channels : /\ k <= info[o[i]].outs /\ p = <<o[i], k - 1>>
                                              /\ u.signals[p] = t.channels[k]
  <2>1. p \in D /\ u.signals[p] = live[p]
    BY <1>8, <1>16, <1>24
  <2>2. CASE p \in kept
    <3>1. /\ p[2] + 1 \in DOMAIN c /\ p[2] + 1 <= info[id].outs /\ p = <<id, (p[2] + 1) - 1>>
          /\ u.signals[p] = c[p[2] + 1]
      BY <1>7, <1>11, <2>1, <2>2
    <3> QED
      BY <3>1 DEF id, c
  <2>3. CASE p \notin kept
    BY <1>2, <1>11, <2>1, <2>3 DEF sig
  <2> QED
    BY <2>2, <2>3
<1> QED
  BY <1>17, <1>24, <1>25, <1>26, <1>27, <1>28 DEF Settled

\* An operation behind the others.
BehindIt(a, b, x) ==
    Append(b, x) \in Seq(Operations) /\ a \o Append(b, x) = (a \o b) \o <<x>>

LEMMA BehindTheRest ==
    ASSUME NEW a \in Seq(Operations), NEW b \in Seq(Operations), NEW x \in Operations
    PROVE  BehindIt(a, b, x)
<1> DEFINE one == <<x>>
<1>1. one \in Seq(Operations)
  OBVIOUS
<1>2. Append(b, x) \in Seq(Operations) /\ Append(b, x) = b \o one
  <2>1. Append(b, x) \in Seq(Operations)
    OBVIOUS
  <2>2. Append(b, x) = b \o one
    BY AppendIsConcat
  <2> QED
    BY <2>1, <2>2
<1> HIDE DEF one
<1>3. a \o (b \o one) = (a \o b) \o one
  BY <1>1, ConcatAssociative
<1> QED
  BY <1>2, <1>3 DEF one, BehindIt

\* What the first nodes of the order have heard, and left.
NodePast(at, n, m) ==
    /\ m.heard[n] = [k \in 1 .. Compiler!Max({info[n].ins, info[n].outs}) |-> HeardOn(at, n, k - 1)]
    /\ m.heardMidi[n] = Compiler!MidiInputs(n) /\ m.midi[n] = <<n>>
Past(at, o, i, m) == \A j \in 1 .. i : NodePast(at, o[j], m)

\* The states in which the first nodes are placed.
Placed(at, o, i) ==
    {s \in Emissions :
       /\ s.channels = <<>> /\ DOMAIN s.signals = Live(o, i) /\ Held(s) /\ Apart(s)
       /\ \A B \in Nat : s.high <= B =>
             \E m \in Machines(B) : Plays(B, s.ops, m) /\ Fits(s, m) /\ Past(at, o, i, m)}

\* With these operations one node more has heard, the live signals are where they were, and its
\* own are in its channels.
NodeHears(at, o, i, s, t, B, ops) ==
    \E r \in Machines(B) :
       /\ Plays(B, t.ops \o ops, r) /\ Past(at, o, i, r)
       /\ \A p \in Live(o, i - 1) : r.audio[s.signals[p]] = <<Sample(p, 0)>>
       /\ \A k \in DOMAIN t.channels : k <= info[o[i]].outs =>
             r.audio[t.channels[k]] = <<Sample(<<o[i], k - 1>>, 0)>>

\* A node is processed with its channels and its MIDI ready.
LEMMA NodePlays ==
    ASSUME GraphInv, Compiler!PortsFit, NEW o, Ordered(o), NEW i \in 1 .. Len(o), NEW id, id = o[i],
           NEW at, NEW B \in Nat, NEW s \in Emissions, DOMAIN s.signals = Live(o, i - 1), Held(s),
           NEW m \in Machines(B), Plays(B, s.ops, m), Fits(s, m), Past(at, o, i - 1, m),
           NEW count, count = Compiler!Max({info[id].ins, info[id].outs}),
           NEW t \in Prepared(s, at, id, count), t.high <= B, NEW process,
           process = [op |-> "process", node |-> id, channels |-> t.channels]
    PROVE  LET more == Append(Compiler!MidiOperations(id), process) IN
           more \in Seq(Operations) /\ NodeHears(at, o, i, s, t, B, more)
<1> DEFINE c == t.channels
           midi == Compiler!MidiOperations(id)
<1>1. /\ Len(o) \in Nat /\ DOMAIN o = 1 .. Len(o) /\ Distinct(o) /\ ProducersFirst(o)
      /\ \A j \in 1 .. Len(o) : o[j] \in nodes
  BY OrderedAre DEF Ordered
<1>2. id \in nodes
  BY <1>1
<1>3. /\ t \in Emissions /\ Len(c) = count /\ Distinct(c) /\ Elements(c) \cap Owned(s) = {}
      /\ Owned(t) = Owned(s) \cup Elements(c)
      /\ Goes(s, t, c, [k \in 1 .. count |-> HeardOn(at, id, k - 1)])
  BY DEF Prepared
<1>4. c \in Seq(Nat) /\ t.ops \in Seq(Operations) /\ DOMAIN c = 1 .. Len(c) /\ Len(c) \in Nat
  <2>1. c \in Seq(Nat) /\ t.ops \in Seq(Operations)
    BY <1>3, EmissionType
  <2> QED
    BY <2>1, LenProperties
<1>5. PICK q \in Machines(B) : /\ Plays(B, t.ops, q) /\ Spares(m, q, Owned(s))
                               /\ \A k \in DOMAIN c : q.audio[c[k]] = HeardOn(at, id, k - 1)
  <2> DEFINE x == [k \in 1 .. count |-> HeardOn(at, id, k - 1)]
  <2>1. PICK q \in Machines(B) : /\ Plays(B, t.ops, q) /\ Spares(m, q, Owned(s))
                                 /\ \A k \in DOMAIN c : q.audio[c[k]] = x[k]
    <3> HIDE DEF x, c
    <3> QED
      BY <1>3 DEF Goes, x
  <2>2. \A k \in DOMAIN c : x[k] = HeardOn(at, id, k - 1)
    BY <1>3, <1>4
  <2> HIDE DEF x, c
  <2> QED
    BY <2>1, <2>2
<1>6. ASSUME NEW n \in Compiler!Producers(id)
      PROVE  n # id /\ q.midi[n] = <<n>>
  <2>1. PICK j \in DOMAIN o : j < i /\ o[j] = n
    BY <1>1 DEF ProducersFirst
  <2>2. j \in 1 .. i - 1 /\ n # id
    BY <1>1, <2>1 DEF Distinct
  <2>3. m.midi[n] = <<n>>
    BY <2>1, <2>2 DEF Past, NodePast
  <2> QED
    BY <1>5, <2>2, <2>3 DEF Spares
<1> HIDE DEF c, midi
<1>7. midi \in Seq(Operations)
      /\ \E w \in Machines(B) :
           /\ Plays(B, t.ops \o midi, w) /\ w.audio = q.audio /\ w.heard = q.heard
           /\ w.heardMidi = q.heardMidi /\ w.midi[id] = Compiler!MidiInputs(id)
           /\ \A n \in nodes : n # id => w.midi[n] = q.midi[n]
  <2>1. /\ GraphInv /\ id \in nodes /\ q \in Machines(B) /\ t.ops \in Seq(Operations)
        /\ Plays(B, t.ops, q)
        /\ \A n \in Compiler!Producers(id) : n # id /\ q.midi[n] = <<n>>
    BY <1>2, <1>4, <1>5, <1>6
  <2>2. /\ Compiler!MidiOperations(id) \in Seq(Operations)
        /\ \E w \in Machines(B) :
             /\ Plays(B, t.ops \o Compiler!MidiOperations(id), w)
             /\ w.audio = q.audio /\ w.heard = q.heard /\ w.heardMidi = q.heardMidi
             /\ w.midi[id] = Compiler!MidiInputs(id)
             /\ \A n \in nodes : n # id => w.midi[n] = q.midi[n]
    BY ONLY <2>1, MidiOperationsDo
  <2> QED
    BY ONLY <2>2 DEF midi
<1>8. PICK w \in Machines(B) :
           /\ Plays(B, t.ops \o midi, w) /\ w.audio = q.audio /\ w.heard = q.heard
           /\ w.heardMidi = q.heardMidi /\ w.midi[id] = Compiler!MidiInputs(id)
           /\ \A n \in nodes : n # id => w.midi[n] = q.midi[n]
  BY <1>7
<1> DEFINE r == Compiler!Perform(w, process)
<1>9. process \in Operations
  BY <1>2, <1>4 DEF Operations, c
<1>10. Plays(B, (t.ops \o midi) \o <<process>>, r)
  <2>1. t.ops \o midi \in Seq(Operations)
    BY <1>4, <1>7, ConcatProperties
  <2> DEFINE ops == t.ops \o midi
  <2> HIDE DEF ops
  <2>2. ops \in Seq(Operations) /\ Plays(B, ops, w)
    BY <1>8, <2>1 DEF ops
  <2>3. Plays(B, ops \o <<process>>, r)
    BY <1>9, <2>2, PlaysMore
  <2> QED
    BY <2>3 DEF ops
<1>11. /\ Append(midi, process) \in Seq(Operations)
       /\ t.ops \o Append(midi, process) = (t.ops \o midi) \o <<process>>
  <2>1. BehindIt(t.ops, midi, process)
    BY <1>4, <1>7, <1>9, BehindTheRest
  <2> QED
    BY <2>1 DEF BehindIt
<1>12. r = Compiler!Perform(w, [op |-> "process", node |-> id, channels |-> c])
  BY DEF c
<1> HIDE DEF r
<1>13. Owned(t) \in SUBSET (0 .. B - 1) /\ Owned(s) \in SUBSET (0 .. B - 1) /\ c \in Seq(0 .. B - 1)
  <2>1. Owned(t) \in SUBSET (0 .. B - 1)
    BY <1>3, OwnedAre
  <2>2. \A k \in 1 .. Len(c) : c[k] \in 0 .. B - 1
    BY <1>3, <1>4, <2>1 DEF Elements
  <2>3. c \in Seq(0 .. B - 1)
    <3> DEFINE T == 0 .. B - 1
    <3>1. c = [k \in 1 .. Len(c) |-> c[k]] /\ \A k \in 1 .. Len(c) : c[k] \in T
      BY <1>4, <2>2
    <3> HIDE DEF T
    <3>2. c \in Seq(T)
      BY <1>4, <3>1
    <3> QED
      BY <3>2 DEF T
  <2> QED
    BY <1>3, <2>1, <2>3
<1>14. /\ r \in Machines(B)
       /\ r.heard[id] = [k \in DOMAIN c |-> w.audio[c[k]]]
       /\ r.heardMidi[id] = w.midi[id] /\ r.midi[id] = <<id>>
       /\ \A n \in nodes : n # id =>
             r.heard[n] = w.heard[n] /\ r.heardMidi[n] = w.heardMidi[n] /\ r.midi[n] = w.midi[n]
       /\ \A k \in DOMAIN c : k <= info[id].outs => r.audio[c[k]] = <<Sample(<<id, k - 1>>, 0)>>
       /\ \A b \in (0 .. B - 1) \ Elements(c) : r.audio[b] = w.audio[b]
  <2>1. Processed(B, id, c, w, r)
    BY <1>2, <1>3, <1>8, <1>12, <1>13, ProcessDoes
  <2> QED
    BY <2>1 DEF Processed
<1>15. \A p \in Live(o, i - 1) : r.audio[s.signals[p]] = <<Sample(p, 0)>>
  <2> TAKE p \in Live(o, i - 1)
  <2> DEFINE b == s.signals[p]
  <2>1. b \in Owned(s) /\ m.audio[b] = <<Sample(p, 0)>>
    BY DEF Held, Fits
  <2> HIDE DEF b
  <2>2. q.audio[b] = m.audio[b] /\ b \in (0 .. B - 1) \ Elements(c)
    BY <1>3, <1>5, <1>13, <2>1 DEF Spares
  <2>3. r.audio[b] = <<Sample(p, 0)>>
    BY <1>8, <1>14, <2>1, <2>2
  <2> QED
    BY <2>3 DEF b
<1>16. NodePast(at, id, r)
  <2>1. [k \in DOMAIN c |-> w.audio[c[k]]] = [k \in 1 .. count |-> HeardOn(at, id, k - 1)]
    <3>1. \A k \in DOMAIN c : w.audio[c[k]] = HeardOn(at, id, k - 1)
      BY <1>5, <1>8
    <3>2. DOMAIN c = 1 .. count
      BY <1>3, <1>4
    <3> QED
      BY <3>1, <3>2
  <2> QED
    BY <1>8, <1>14, <2>1 DEF NodePast
<1>17. Past(at, o, i, r)
  <2> SUFFICES ASSUME NEW j \in 1 .. i
               PROVE  NodePast(at, o[j], r)
    BY DEF Past
  <2>1. CASE j = i
    BY <1>16, <2>1
  <2>2. CASE j # i
    <3> DEFINE n == o[j]
    <3>1. j \in 1 .. i - 1 /\ n \in nodes /\ n # id
      BY <1>1, <2>2 DEF Distinct
    <3>2. NodePast(at, n, m)
      BY <3>1 DEF Past
    <3> HIDE DEF n
    <3>3. r.heard[n] = m.heard[n] /\ r.heardMidi[n] = m.heardMidi[n] /\ r.midi[n] = m.midi[n]
      <4>1. q.midi = m.midi /\ q.heard = m.heard /\ q.heardMidi = m.heardMidi
        BY <1>5 DEF Spares
      <4>2. r.heard[n] = w.heard[n] /\ r.heardMidi[n] = w.heardMidi[n] /\ r.midi[n] = w.midi[n]
        BY <1>14, <3>1
      <4>3. w.heard = q.heard /\ w.heardMidi = q.heardMidi /\ w.midi[n] = q.midi[n]
        BY <1>8, <3>1
      <4> QED
        BY <4>1, <4>2, <4>3
    <3>4. NodePast(at, n, r)
      BY <3>2, <3>3 DEF NodePast
    <3> QED
      BY <3>4 DEF n
  <2> QED
    BY <2>1, <2>2
<1> QED
  <2> DEFINE more == Append(midi, process)
  <2>1. r \in Machines(B)
    BY <1>14
  <2>2. Plays(B, t.ops \o more, r) /\ more \in Seq(Operations)
    BY <1>10, <1>11, <2>1
  <2>3. \A k \in DOMAIN t.channels : k <= info[o[i]].outs =>
           r.audio[t.channels[k]] = <<Sample(<<o[i], k - 1>>, 0)>>
    BY <1>14 DEF c
  <2> HIDE DEF more
  <2>4. more \in Seq(Operations) /\ NodeHears(at, o, i, s, t, B, more)
    BY <1>15, <1>17, <2>1, <2>2, <2>3 DEF NodeHears
  <2> QED
    BY <2>4 DEF more, midi

\* The operations of one node more (EmitNode).
LEMMA NodePlaced ==
    ASSUME GraphInv, Compiler!PortsFit, NEW o, Ordered(o), NEW i \in 1 .. Len(o),
           NEW at \in [nodes -> Nat], at[o[i]] = Compiler!Max(Times(at, o[i])),
           NEW s \in Placed(at, o, i - 1), NEW u, u = Compiler!EmitNode(s, at, o, i)
    PROVE  u \in Placed(at, o, i)
<1> DEFINE id == o[i]
           count == Compiler!Max({info[id].ins, info[id].outs})
           t == Compiler!PrepareChannels(s, at, id)
           process == [op |-> "process", node |-> id, channels |-> t.channels]
           more == Append(Compiler!MidiOperations(id), process)
           v == Compiler!Emit(t, more)
<1>1. u = Compiler!Settle(v, o, i)
  BY DEF Compiler!EmitNode
<1>2. /\ s \in Emissions /\ s.channels = <<>> /\ DOMAIN s.signals = Live(o, i - 1) /\ Held(s) /\ Apart(s)
      /\ \A B \in Nat : s.high <= B =>
             \E m \in Machines(B) : Plays(B, s.ops, m) /\ Fits(s, m) /\ Past(at, o, i - 1, m)
  BY DEF Placed
<1>3. id \in nodes
  BY OrderedAre
<1>4. info[id].outs \in Nat /\ info[id].outs <= count
  BY <1>3, Metadata, Greater
<1>5. t \in Prepared(s, at, id, count)
  <2>1. \A k \in Nat : Compiler!AudioInputs(id, k) \subseteq DOMAIN s.signals
    BY <1>2, InputsAreLive
  <2> QED
    BY <1>2, <1>3, <2>1, PrepareChannelsDoes
<1> HIDE DEF id, count, t, process, more, v
<1>6. /\ t \in Emissions /\ t.signals = s.signals /\ s.high <= t.high
      /\ Len(t.channels) = count /\ Distinct(t.channels)
      /\ Elements(t.channels) \cap Owned(s) = {} /\ Owned(t) = Owned(s) \cup Elements(t.channels)
  BY <1>5 DEF Prepared
<1>7. s.high \in Nat /\ t.high \in Nat /\ t.channels \in Seq(Nat)
  BY <1>2, <1>6, EmissionType
<1>8. ASSUME NEW B \in Nat, t.high <= B
      PROVE  more \in Seq(Operations) /\ NodeHears(at, o, i, s, t, B, more)
  <2>1. s.high <= B
    BY <1>6, <1>7, <1>8
  <2>2. PICK m \in Machines(B) : Plays(B, s.ops, m) /\ Fits(s, m) /\ Past(at, o, i - 1, m)
    BY <1>2, <2>1
  <2>3. id = o[i] /\ count = Compiler!Max({info[id].ins, info[id].outs})
        /\ process = [op |-> "process", node |-> id, channels |-> t.channels]
        /\ more = Append(Compiler!MidiOperations(id), process)
    BY DEF id, count, process, more
  <2> QED
    BY <1>2, <1>5, <1>8, <2>2, <2>3, NodePlays
<1>9. more \in Seq(Operations)
  <2>1. t.high <= t.high
    BY <1>7
  <2> QED
    BY <1>7, <1>8, <2>1
<1>10. /\ v \in Emissions /\ Like(t, v) /\ v.high = t.high /\ v.ops = t.ops \o more
       /\ Owned(v) = Owned(t)
  BY <1>6, <1>9, EmitDoes DEF v
<1>11. v.signals = s.signals /\ v.channels = t.channels
  BY <1>6, <1>10 DEF Like
<1>12. NodeReady(o, i, v)
  <2>1. Held(v) /\ Apart(v)
    BY <1>2, <1>6, <1>10, <1>11 DEF Held, Apart
  <2>2. \A p \in DOMAIN v.signals : v.signals[p] \notin Elements(v.channels)
    BY <1>2, <1>6, <1>11 DEF Held
  <2>3. Distinct(v.channels) /\ Elements(v.channels) \in SUBSET Owned(v) /\ info[id].outs <= Len(v.channels)
    BY <1>4, <1>6, <1>10, <1>11
  <2> QED
    BY <1>2, <1>10, <1>11, <2>1, <2>2, <2>3 DEF NodeReady, id
<1>13. Settled(o, i, v, u)
  BY <1>1, <1>12, SettleDoes
<1>14. /\ u \in Emissions /\ u.high = v.high /\ u.ops = v.ops /\ u.channels = <<>>
       /\ DOMAIN u.signals = Live(o, i) /\ Held(u) /\ Apart(u)
       /\ \A p \in Live(o, i) :
            \/ p \in Live(o, i - 1) /\ u.signals[p] = v.signals[p]
            \/ \E k \in DOMAIN v.channels : /\ k <= info[o[i]].outs /\ p = <<o[i], k - 1>>
                                            /\ u.signals[p] = v.channels[k]
  BY <1>13 DEF Settled
<1>15. ASSUME NEW B \in Nat, u.high <= B
       PROVE  \E m \in Machines(B) : Plays(B, u.ops, m) /\ Fits(u, m) /\ Past(at, o, i, m)
  <2>1. t.high <= B
    BY <1>10, <1>14, <1>15
  <2>2. PICK r \in Machines(B) :
          /\ Plays(B, t.ops \o more, r)
          /\ Past(at, o, i, r)
          /\ \A p \in Live(o, i - 1) : r.audio[s.signals[p]] = <<Sample(p, 0)>>
          /\ \A k \in DOMAIN t.channels : k <= info[id].outs =>
                r.audio[t.channels[k]] = <<Sample(<<id, k - 1>>, 0)>>
    BY <1>8, <2>1 DEF NodeHears, id
  <2>3. Plays(B, u.ops, r)
    BY <1>10, <1>14, <2>2
  <2>4. ASSUME NEW p \in Live(o, i)
        PROVE  r.audio[u.signals[p]] = <<Sample(p, 0)>>
    <3>1. CASE p \in Live(o, i - 1) /\ u.signals[p] = v.signals[p]
      BY <1>11, <2>2, <3>1
    <3>2. CASE \E k \in DOMAIN v.channels : /\ k <= info[o[i]].outs /\ p = <<o[i], k - 1>>
                                            /\ u.signals[p] = v.channels[k]
      <4>1. PICK k \in DOMAIN v.channels : /\ k <= info[o[i]].outs /\ p = <<o[i], k - 1>>
                                           /\ u.signals[p] = v.channels[k]
        BY <3>2
      <4>2. r.audio[t.channels[k]] = <<Sample(<<id, k - 1>>, 0)>>
        BY <1>11, <2>2, <4>1 DEF id
      <4> QED
        BY <1>11, <4>1, <4>2 DEF id
    <3> QED
      BY <1>14, <3>1, <3>2
  <2>5. Fits(u, r)
    BY <1>14, <2>4 DEF Fits
  <2> QED
    BY <2>2, <2>3, <2>5
<1> QED
  BY <1>14, <1>15 DEF Placed

\* All the nodes, in their order (compileRenderPlan's loop).
LEMMA AllPlaced ==
    ASSUME GraphInv, Compiler!PortsFit, NEW o, Ordered(o), NEW at \in [nodes -> Nat],
           \A i \in 1 .. Len(o) : at[o[i]] = Compiler!Max(Times(at, o[i]))
    PROVE  LET start == [free |-> {}, high |-> 0, signals |-> [p \in {} |-> 0], channels |-> <<>>,
                         ops |-> <<>>]
               placed[step \in 0 .. Len(o)] ==
                   IF step = 0 THEN start ELSE Compiler!EmitNode(placed[step - 1], at, o, step)
           IN  placed[Len(o)] \in Placed(at, o, Len(o))
<1> DEFINE n == Len(o)
           start == [free |-> {}, high |-> 0, signals |-> [p \in {} |-> 0], channels |-> <<>>,
                     ops |-> <<>>]
           body(f) == [k \in 0 .. n |-> IF k = 0 THEN start ELSE Compiler!EmitNode(f[k - 1], at, o, k)]
           placed == CHOOSE f : f = body(f)
           S == [k \in 0 .. n |-> Placed(at, o, k)]
           step == [k \in 1 .. n |-> [s \in S[k - 1] |-> Compiler!EmitNode(s, at, o, k)]]
<1>1. n \in Nat
  BY OrderedAre
<1>2. SUFFICES placed[n] \in Placed(at, o, n)
  OBVIOUS
<1> HIDE DEF placed
<1>3. /\ \A k \in 0 .. n : S[k] = Placed(at, o, k)
      /\ \A k \in 1 .. n : step[k] = [s \in S[k - 1] |-> Compiler!EmitNode(s, at, o, k)]
  OBVIOUS
<1> HIDE DEF S, step
<1>4. ASSUME NEW k \in 1 .. n, NEW s \in S[k - 1]
      PROVE  Compiler!EmitNode(s, at, o, k) \in S[k]
  <2>1. k \in 0 .. n /\ k - 1 \in 0 .. n
    BY <1>1
  <2>2. s \in Placed(at, o, k - 1)
    BY <1>3, <2>1
  <2>3. Compiler!EmitNode(s, at, o, k) \in Placed(at, o, k)
    BY <2>2, NodePlaced
  <2> QED
    BY <1>3, <2>1, <2>3
<1>5. start \in S[0]
  <2>1. 0 \in 0 .. n
    BY <1>1
  <2>2. Live(o, 0) = {}
    BY DEF Live
  <2>3. start \in Emissions /\ start.ops = <<>> /\ DOMAIN start.signals = {} /\ start.high = 0
        /\ start.channels = <<>>
    <3> DEFINE G == UNION {[E -> Nat] : E \in SUBSET Signals}
               none == [p \in {} |-> 0]
    <3>1. none \in G
      <4>1. none \in [{} -> Nat] /\ {} \in SUBSET Signals
        OBVIOUS
      <4> QED
        BY <4>1
    <3>2. <<>> \in Seq(Nat) /\ <<>> \in Seq(Operations) /\ DOMAIN none = {}
      OBVIOUS
    <3> HIDE DEF G, none
    <3>3. start = [free |-> {}, high |-> 0, signals |-> none, channels |-> <<>>, ops |-> <<>>]
      BY DEF none
    <3> HIDE DEF start
    <3>4. start \in [free : SUBSET Nat, high : Nat, signals : G, channels : Seq(Nat),
                     ops : Seq(Operations)]
      BY <3>1, <3>2, <3>3
    <3>5. start.free = {} /\ start.ops = <<>> /\ start.signals = none /\ start.high = 0
          /\ start.channels = <<>>
      BY <3>3
    <3> QED
      BY <3>2, <3>4, <3>5 DEF Emissions, G
  <2> HIDE DEF start
  <2>4. Held(start) /\ Apart(start)
    BY <2>3 DEF Held, Apart
  <2>5. ASSUME NEW B \in Nat
        PROVE  \E m \in Machines(B) : Plays(B, start.ops, m) /\ Fits(start, m) /\ Past(at, o, 0, m)
    <3> DEFINE m == StartMachine(B)
    <3>1. m \in Machines(B)
      <4>1. Compiler!Stale \in Seq(Samples)
        <5>1. [signal |-> <<0, 0>>, delay |-> 0] \in Samples
          BY DEF Samples, Signals
        <5> QED
          BY <5>1 DEF Compiler!Stale
      <4>2. \A x \in nodes : <<x, x>> \in Seq(Nat)
        <5>1. \A x \in nodes : x \in Nat
          BY Metadata
        <5> QED
          BY <5>1
      <4> DEFINE a == [b \in 0 .. B - 1 |-> Compiler!Stale]
                 i == [x \in nodes |-> <<x, x>>]
                 h == [x \in nodes |-> <<>>]
      <4>3. /\ a \in [0 .. B - 1 -> Seq(Samples)] /\ i \in [nodes -> Seq(Nat)]
            /\ h \in [nodes -> Seq(Seq(Samples))] /\ h \in [nodes -> Seq(Nat)]
        BY <4>1, <4>2
      <4>4. m = [audio |-> a, midi |-> i, heard |-> h, heardMidi |-> h]
        BY DEF StartMachine
      <4> HIDE DEF a, i, h, m
      <4> QED
        BY <4>3, <4>4 DEF Machines
    <3>2. Plays(B, <<>>, m)
      <4> DEFINE run == [k \in 0 .. 0 |-> m]
                 none == <<>>
      <4>1. Len(none) = 0 /\ run[0] = m /\ run = [k \in 0 .. 0 |-> run[k]] /\ 1 .. 0 = {}
        OBVIOUS
      <4> HIDE DEF run, none, m
      <4>2. Chain(run, m, none) /\ run[Len(none)] = m
        BY <4>1 DEF Chain
      <4>3. Plays(B, none, m)
        BY <4>2 DEF Plays, m
      <4> QED
        BY <4>3 DEF none
    <3> HIDE DEF m
    <3>3. Fits(start, m) /\ Past(at, o, 0, m)
      BY <2>3 DEF Fits, Past
    <3> QED
      BY <2>3, <3>1, <3>2, <3>3
  <2>6. start \in Placed(at, o, 0)
    BY <2>2, <2>3, <2>4, <2>5 DEF Placed
  <2> QED
    BY <1>3, <2>1, <2>6
<1> HIDE DEF start
<1>6. \A k \in 1 .. n : step[k] \in [S[k - 1] -> S[k]]
  BY <1>3, <1>4
<1>7. PICK g : Recurs(g, n, S, start, step)
  BY <1>1, <1>5, <1>6, Recursion
<1>8. g = body(g)
  <2>1. ASSUME NEW k \in 0 .. n
        PROVE  g[k] = IF k = 0 THEN start ELSE Compiler!EmitNode(g[k - 1], at, o, k)
    <3>1. CASE k = 0
      BY <1>7, <3>1 DEF Recurs
    <3>2. CASE k # 0
      <4>1. k \in 1 .. n
        BY <1>1, <3>2
      <4>2. g[k - 1] \in S[k - 1] /\ g[k] = step[k][g[k - 1]]
        BY <1>7, <4>1 DEF Recurs
      <4> QED
        BY <1>3, <3>2, <4>1, <4>2
    <3> QED
      BY <3>1, <3>2
  <2>2. g = [k \in 0 .. n |-> g[k]]
    BY <1>7 DEF Recurs
  <2> QED
    BY <2>1, <2>2
<1>9. placed = body(placed)
  BY <1>8 DEF placed
<1>10. /\ placed[0] = start
       /\ \A k \in 1 .. n : placed[k] = Compiler!EmitNode(placed[k - 1], at, o, k)
  <2>1. 0 \in 0 .. n /\ \A k \in 1 .. n : k \in 0 .. n /\ k # 0
    BY <1>1
  <2> QED
    BY <1>9, <2>1
<1> HIDE DEF body
<1>11. placed[n] \in S[n]
  <2>1. \A k \in 0 .. n : placed[k] \in S[k]
    BY <1>1, <1>4, <1>5, <1>10, Reached
  <2> QED
    BY <1>1, <2>1
<1>12. n \in 0 .. n
  BY <1>1
<1> QED
  BY <1>3, <1>11, <1>12

-----------------------------------------------------------------------------
(* The plan of a graph.                                                     *)

\* What is heard on a channel is what is connected to it, each signal once and delayed by its lag.
RightlyHeard(at, n, k, h) ==
    /\ Len(h) = Compiler!Cardinality(Compiler!AudioInputs(n, k))
    /\ {h[i].signal : i \in DOMAIN h} = Compiler!AudioInputs(n, k)
    /\ \A i \in DOMAIN h : h[i].delay = Lag(at, n, h[i].signal)

LEMMA RightOnChannel ==
    ASSUME GraphInv, Compiler!PortsFit, NEW at \in [nodes -> Nat], NEW n \in nodes,
           at[n] = Compiler!Max(Times(at, n)), NEW k
    PROVE  RightlyHeard(at, n, k, HeardOn(at, n, k))
<1> DEFINE I == Compiler!AudioInputs(n, k)
           src == Compiler!SortedSignals(I)
           q == Len(src)
           h == [j \in 1 .. q |-> Sample(src[j], Lag(at, n, src[j]))]
<1>1. Lists(src, I)
  <2>1. I \in SUBSET Signals /\ IsFiniteSet(I)
    BY LagsAre
  <2> HIDE DEF I
  <2> QED
    BY <2>1, SortedSignalsLists
<1>2. HeardOn(at, n, k) = h
  BY DEF HeardOn, MixOf
<1> HIDE DEF src, I
<1>3. q \in Nat /\ DOMAIN src = 1 .. q /\ q = Cardinality(I)
  BY <1>1, LenProperties DEF Lists
<1>4. \A j \in 1 .. q : h[j].signal = src[j] /\ h[j].delay = Lag(at, n, src[j])
  BY DEF Sample
<1>5. DOMAIN h = 1 .. q /\ Len(h) = q
  BY <1>3
<1> HIDE DEF h, q
<1>6. {h[i].signal : i \in DOMAIN h} = I
  <2>1. \A j \in 1 .. q : src[j] \in I
    BY <1>1, <1>3, ElementOfSeq DEF Lists, q
  <2>2. \A p \in I : \E j \in 1 .. q : src[j] = p
    BY <1>1, <1>3 DEF Lists
  <2> QED
    BY <1>4, <1>5, <2>1, <2>2
<1>7. Len(h) = Compiler!Cardinality(I)
  BY <1>3, <1>5, SameCount
<1>8. \A i \in DOMAIN h : h[i].delay = Lag(at, n, h[i].signal)
  BY <1>4, <1>5
<1> QED
  BY <1>2, <1>6, <1>7, <1>8 DEF RightlyHeard, I

\* The latest input of a node is not delayed; a node without inputs waits for nothing.
SomeOnTime(heard, time) ==
    LET delays == UNION {{heard[k][i].delay : i \in DOMAIN heard[k]} : k \in DOMAIN heard}
    IN  IF delays = {} THEN time = 0 ELSE 0 \in delays

LEMMA LatestIsNotDelayed ==
    ASSUME GraphInv, Compiler!PortsFit, NEW at \in [nodes -> Nat], NEW n \in nodes,
           at[n] = Compiler!Max(Times(at, n)), NEW count, info[n].ins <= count, count \in Nat,
           NEW heard, DOMAIN heard = 1 .. count,
           \A k \in 1 .. count : RightlyHeard(at, n, k - 1, heard[k])
    PROVE  SomeOnTime(heard, at[n])
<1> DEFINE delays == UNION {{heard[k][i].delay : i \in DOMAIN heard[k]} : k \in DOMAIN heard}
<1>1. ASSUME NEW k \in 1 .. count, NEW i \in DOMAIN heard[k]
      PROVE  /\ heard[k][i].delay = Lag(at, n, heard[k][i].signal)
             /\ heard[k][i].signal \in Compiler!AudioInputs(n, k - 1)
  BY DEF RightlyHeard
<1>2. ASSUME NEW d \in delays
      PROVE  \E p : p[1] \in nodes /\ d = Lag(at, n, p) /\ Lag(at, n, p) \in Nat
  <2>1. PICK k \in 1 .. count : \E i \in DOMAIN heard[k] : d = heard[k][i].delay
    OBVIOUS
  <2>2. PICK i \in DOMAIN heard[k] : d = heard[k][i].delay
    BY <2>1
  <2> DEFINE p == heard[k][i].signal
  <2>3. d = Lag(at, n, p) /\ p \in Compiler!AudioInputs(n, k - 1)
    BY <1>1, <2>2
  <2> HIDE DEF p
  <2>4. p[1] \in nodes /\ Lag(at, n, p) \in Nat
    BY <2>3, LagsAre
  <2> QED
    BY <2>3, <2>4
<1>3. ASSUME NEW c \in Compiler!AudioConnections, c.to = n
      PROVE  Lag(at, n, <<c.from, c.out>>) \in delays
  <2> DEFINE k == c.in + 1
  <2>1. c.in \in 0 .. info[n].ins - 1 /\ info[n].ins \in Nat
    BY <1>3, Metadata
  <2>2. k \in 1 .. count /\ k - 1 = c.in
    BY <2>1
  <2> HIDE DEF k
  <2>3. <<c.from, c.out>> \in Compiler!AudioInputs(n, k - 1)
    BY <1>3, <2>2 DEF Compiler!AudioInputs
  <2>4. PICK i \in DOMAIN heard[k] : heard[k][i].signal = <<c.from, c.out>>
    BY <2>2, <2>3 DEF RightlyHeard
  <2>5. heard[k][i].delay = Lag(at, n, <<c.from, c.out>>)
    BY <1>1, <2>2, <2>4
  <2> QED
    BY <2>2, <2>5
<1> HIDE DEF delays
<1>4. at[n] \in Times(at, n) /\ at[n] \in Nat
  BY TimesAre
<1>5. CASE \E c \in Compiler!AudioConnections : c.to = n /\ at[n] = at[c.from] + info[c.from].latency
  <2>1. PICK c \in Compiler!AudioConnections : c.to = n /\ at[n] = at[c.from] + info[c.from].latency
    BY <1>5
  <2>2. Lag(at, n, <<c.from, c.out>>) = 0
    <3>1. Lag(at, n, <<c.from, c.out>>) = at[n] - at[n]
      BY <2>1 DEF Lag
    <3> QED
      BY <1>4, <3>1
  <2>3. 0 \in delays
    BY <1>3, <2>1, <2>2
  <2> QED
    BY <2>3 DEF delays, SomeOnTime
<1>6. CASE at[n] = 0
  <2>1. ASSUME NEW d \in delays
        PROVE  d = 0
    <3>1. PICK p : p[1] \in nodes /\ d = Lag(at, n, p) /\ Lag(at, n, p) \in Nat
      BY <1>2
    <3> DEFINE x == at[p[1]] + info[p[1]].latency
    <3>2. x \in Nat
      BY <3>1, Metadata
    <3>3. d = 0 - x /\ d \in Nat
      BY <1>6, <3>1 DEF Lag
    <3> QED
      BY <3>2, <3>3
  <2> QED
    BY <1>6, <2>1 DEF delays, SomeOnTime
<1>7. at[n] = 0 \/ \E c \in Compiler!AudioConnections : c.to = n /\ at[n] = at[c.from] + info[c.from].latency
  BY <1>4 DEF Times
<1> QED
  BY <1>5, <1>6, <1>7

\* A graph that can be ordered gets a plan, and playing it every node hears what it should.
LEMMA PlanIs ==
    ASSUME GraphInv, Compiler!PortsFit, Acyclic
    PROVE  LET plan == Compiler!CompileRenderPlan IN
           \E at \in [nodes -> Nat] :
              /\ plan.valid = TRUE
              /\ plan.latency = [n \in nodes |-> at[n] + info[n].latency]
              /\ \A n \in nodes : /\ at[n] = Compiler!Max(Times(at, n))
                                  /\ NodePast(at, n, Compiler!Played(plan))
<1> DEFINE o == Compiler!Order
           at == Compiler!Arrivals(o)
           start == [free |-> {}, high |-> 0, signals |-> [p \in {} |-> 0], channels |-> <<>>,
                     ops |-> <<>>]
           placed[step \in 0 .. Len(o)] ==
               IF step = 0 THEN start ELSE Compiler!EmitNode(placed[step - 1], at, o, step)
           done == placed[Len(o)]
           latency == [n \in nodes |-> at[n] + info[n].latency]
           plan == Compiler!CompileRenderPlan
<1>1. Len(o) = Compiler!Cardinality(nodes)
  BY OrderedUnlessCyclic
<1>2. plan = [valid |-> TRUE, ops |-> done.ops, buffers |-> done.high, latency |-> latency]
  BY <1>1 DEF Compiler!CompileRenderPlan
<1>3. Ordered(o)
  BY OrderIs, OrderedUnlessCyclic DEF Ordered
<1> HIDE DEF o, plan
<1>4. at \in [nodes -> Nat] /\ \A i \in 1 .. Len(o) : at[o[i]] = Compiler!Max(Times(at, o[i]))
  BY <1>3, ArrivalsAre, OrderedAre DEF Ordered
<1> HIDE DEF at
<1>5. done \in Placed(at, o, Len(o))
  BY <1>3, <1>4, AllPlaced
<1> HIDE DEF done
<1>6. done \in Emissions /\ \E m \in Machines(done.high) :
         Plays(done.high, done.ops, m) /\ Past(at, o, Len(o), m)
  <2>1. /\ done \in Emissions
        /\ \A B \in Nat : done.high <= B =>
             \E m \in Machines(B) : Plays(B, done.ops, m) /\ Past(at, o, Len(o), m)
    BY <1>5 DEF Placed
  <2>2. done.high \in Nat /\ done.high <= done.high
    BY <2>1, EmissionType
  <2> QED
    BY <2>1, <2>2
<1>7. PICK m \in Machines(done.high) : Plays(done.high, done.ops, m) /\ Past(at, o, Len(o), m)
  BY <1>6
<1> HIDE DEF latency
<1>8. /\ plan.valid = TRUE /\ plan.ops = done.ops /\ plan.buffers = done.high
      /\ plan.latency = latency
  BY <1>2
<1>9. Compiler!Played(plan) = m
  <2>1. plan.ops \in Seq(Operations)
    BY <1>6, <1>8, EmissionType
  <2> QED
    BY <1>7, <1>8, <2>1, PlayedIs
<1>10. \A n \in nodes : at[n] = Compiler!Max(Times(at, n)) /\ NodePast(at, n, m)
  <2> TAKE n \in nodes
  <2>1. PICK i \in 1 .. Len(o) : o[i] = n
    BY <1>3, OrderedAre
  <2> QED
    BY <1>4, <1>7, <2>1 DEF Past
<1> QED
  BY <1>4, <1>8, <1>9, <1>10 DEF plan, latency

\* The compiler of a graph (compileRenderPlan).
LEMMA CompiledFaithfully == ASSUME GraphInv PROVE Compiler!PlanIsFaithful
<1> DEFINE plan == Compiler!CompileRenderPlan
           run == Compiler!Played(plan)
<1>1. Compiler!HasPlan <=> Compiler!PortsFit /\ Acyclic
  BY DEF Compiler!HasPlan, Acyclic
<1>2. CASE ~(Compiler!PortsFit /\ Acyclic)
  <2>1. ~Compiler!PortsFit \/ Len(Compiler!Order) # Compiler!Cardinality(nodes)
    BY <1>2, OrderedUnlessCyclic
  <2>2. plan = Compiler!Rejected
    BY <2>1 DEF Compiler!CompileRenderPlan
  <2>3. plan.valid = FALSE /\ Compiler!HasPlan = FALSE
    BY <1>1, <1>2, <2>2 DEF Compiler!Rejected, Compiler!HasPlan
  <2> HIDE DEF plan
  <2> QED
    BY <2>3 DEF Compiler!PlanIsFaithful, plan
<1>3. CASE Compiler!PortsFit /\ Acyclic
  <2> HIDE DEF plan, run
  <2>1. PICK at \in [nodes -> Nat] :
              /\ plan.valid = TRUE
              /\ plan.latency = [n \in nodes |-> at[n] + info[n].latency]
              /\ \A n \in nodes : at[n] = Compiler!Max(Times(at, n)) /\ NodePast(at, n, run)
    BY <1>3, PlanIs DEF plan, run
  <2>2. plan.valid = Compiler!HasPlan
    <3>1. Compiler!HasPlan = TRUE
      BY <1>1, <1>3 DEF Compiler!HasPlan
    <3> QED
      BY <2>1, <3>1
  <2>3. ASSUME NEW n \in nodes
        PROVE  LET arrival == plan.latency[n] - info[n].latency
                   heard == run.heard[n]
                   into(k) == Compiler!AudioInputs(n, k)
                   delays == UNION {{heard[k][i].delay : i \in DOMAIN heard[k]} : k \in DOMAIN heard}
               IN /\ DOMAIN heard = 1 .. Compiler!Max({info[n].ins, info[n].outs})
                  /\ \A k \in DOMAIN heard :
                       /\ Len(heard[k]) = Compiler!Cardinality(into(k - 1))
                       /\ {heard[k][i].signal : i \in DOMAIN heard[k]} = into(k - 1)
                       /\ \A i \in DOMAIN heard[k] :
                            plan.latency[heard[k][i].signal[1]] + heard[k][i].delay = arrival
                  /\ IF delays = {} THEN arrival = 0 ELSE 0 \in delays
                  /\ run.heardMidi[n] = Compiler!MidiInputs(n)
    <3> DEFINE count == Compiler!Max({info[n].ins, info[n].outs})
               heard == run.heard[n]
               arrival == plan.latency[n] - info[n].latency
               delays == UNION {{heard[k][i].delay : i \in DOMAIN heard[k]} : k \in DOMAIN heard}
    <3>1. at[n] = Compiler!Max(Times(at, n)) /\ at[n] \in Nat /\ info[n].latency \in Nat
      BY <1>3, <2>1, Metadata
    <3>2. arrival = at[n]
      BY <2>1, <3>1
    <3>3. /\ heard = [k \in 1 .. count |-> HeardOn(at, n, k - 1)]
          /\ run.heardMidi[n] = Compiler!MidiInputs(n)
      BY <2>1 DEF NodePast
    <3>4. count \in Nat /\ info[n].ins <= count
      BY <1>3, Metadata, Greater
    <3> HIDE DEF count, heard, arrival
    <3>5. DOMAIN heard = 1 .. count /\ \A k \in 1 .. count : heard[k] = HeardOn(at, n, k - 1)
      BY <3>3
    <3>6. \A k \in 1 .. count : RightlyHeard(at, n, k - 1, heard[k])
      <4> TAKE k \in 1 .. count
      <4>1. RightlyHeard(at, n, k - 1, HeardOn(at, n, k - 1))
        BY <1>3, <3>1, RightOnChannel
      <4> QED
        BY <3>5, <4>1
    <3>7. IF delays = {} THEN arrival = 0 ELSE 0 \in delays
      <4>1. SomeOnTime(heard, at[n])
        BY <1>3, <3>1, <3>4, <3>5, <3>6, LatestIsNotDelayed
      <4> QED
        BY <3>2, <4>1 DEF SomeOnTime
    <3>8. ASSUME NEW k \in DOMAIN heard
          PROVE  /\ Len(heard[k]) = Compiler!Cardinality(Compiler!AudioInputs(n, k - 1))
                 /\ {heard[k][i].signal : i \in DOMAIN heard[k]} = Compiler!AudioInputs(n, k - 1)
                 /\ \A i \in DOMAIN heard[k] :
                      plan.latency[heard[k][i].signal[1]] + heard[k][i].delay = arrival
      <4> DEFINE h == heard[k]
      <4>1. RightlyHeard(at, n, k - 1, h)
        BY <3>5, <3>6
      <4> HIDE DEF h
      <4>2. ASSUME NEW i \in DOMAIN h
            PROVE  plan.latency[h[i].signal[1]] + h[i].delay = arrival
        <5> DEFINE p == h[i].signal
                   x == at[p[1]] + info[p[1]].latency
        <5>1. h[i].delay = Lag(at, n, p) /\ p \in Compiler!AudioInputs(n, k - 1)
          BY <4>1 DEF RightlyHeard
        <5>2. p[1] \in nodes
          BY <1>3, <3>1, <5>1, LagsAre
        <5>3. plan.latency[p[1]] = x /\ x \in Nat /\ h[i].delay = at[n] - x
          BY <1>3, <2>1, <5>1, <5>2, Metadata DEF Lag
        <5> HIDE DEF p, x
        <5>4. plan.latency[p[1]] + h[i].delay = at[n]
          BY <3>1, <5>3
        <5> QED
          BY <3>2, <5>4 DEF p
      <4>3. /\ Len(h) = Compiler!Cardinality(Compiler!AudioInputs(n, k - 1))
            /\ {h[i].signal : i \in DOMAIN h} = Compiler!AudioInputs(n, k - 1)
        BY <4>1 DEF RightlyHeard
      <4> QED
        BY <4>2, <4>3 DEF h
    <3> HIDE DEF delays
    <3> QED
      BY <3>3, <3>5, <3>7, <3>8 DEF heard, count, arrival, delays
  <2> QED
    BY <2>1, <2>2, <2>3 DEF Compiler!PlanIsFaithful, plan, run
<1> QED
  BY <1>2, <1>3

\* Whatever graph the edits lead to and whatever layouts its nodes have: it gets a plan unless it
\* has a cycle or names a port that is not there, and when the plan is played every node hears on
\* every channel exactly what is connected to it, aligned (compileRenderPlan).
THEOREM PlansAreFaithful == Spec => []PlanIsFaithful
<1> DEFINE I == subject = "compiler" => GraphInv
<1>1. Init => I
  BY GraphInitInv DEF Init
<1>2. I /\ [Next]_vars => I'
  <2> SUFFICES ASSUME GraphInv, [Next]_vars, subject' = "compiler", subject = "compiler"
               PROVE  GraphInv'
    BY DEF Next, vars
  <2>1. CASE Next
    BY <2>1, GraphNextInv DEF Next
  <2>2. CASE UNCHANGED vars
    BY <2>2, GraphStays DEF vars
  <2> QED
    BY <2>1, <2>2
<1>3. I => PlanIsFaithful
  BY CompiledFaithfully DEF PlanIsFaithful
<1> QED
  BY <1>1, <1>2, <1>3, PTL DEF Spec
=============================================================================
