--------------------------- MODULE CommandHistory ---------------------------
(***************************************************************************)
(* Undo history and journal records (src/session/JournaledSession.cpp):    *)
(* how an edit, an undo and a redo change a session, which record each one *)
(* appends, the records a checkpoint keeps, and what one record does to    *)
(* the session that a reopening process is rebuilding.                     *)
(*                                                                         *)
(* A session is a document with its two history stacks; the last element   *)
(* of a stack is its top.                                                  *)
(***************************************************************************)
EXTENDS SessionEdits

Entry == [forward : Command, inverse : Command]
Session == [doc : Document, undo : Seq(Entry), redo : Seq(Entry)]

FreshSession(d) == [doc |-> d, undo |-> <<>>, redo |-> <<>>]

-----------------------------------------------------------------------------
(* Live steps: commitEdit and commitHistoryAction.                         *)

EntryFor(d, c) == [forward |-> c, inverse |-> InverseOf(d, c)]

CanEdit(s, c) == Editable(s.doc) /\ Accepts(s.doc, c)

AfterEdit(s, c) ==
    [doc |-> Edited(s.doc, c),
     undo |-> Append(s.undo, EntryFor(s.doc, c)),
     redo |-> <<>>]

CanUndo(s) ==
    /\ s.undo # <<>>
    /\ Editable(s.doc)
    /\ Accepts(s.doc, Last(s.undo).inverse)

\* Mutant of AfterUndo: the entry is copied, not moved.
AfterUndoKeepsEntry(s) ==
    [doc |-> Edited(s.doc, Last(s.undo).inverse),
     undo |-> s.undo,
     redo |-> Append(s.redo, Last(s.undo))]

AfterUndo(s) ==
    [doc |-> Edited(s.doc, Last(s.undo).inverse),
     undo |-> Front(s.undo),
     redo |-> Append(s.redo, Last(s.undo))]

CanRedo(s) ==
    /\ s.redo # <<>>
    /\ Editable(s.doc)
    /\ Accepts(s.doc, Last(s.redo).forward)

AfterRedo(s) ==
    [doc |-> Edited(s.doc, Last(s.redo).forward),
     undo |-> Append(s.undo, Last(s.redo)),
     redo |-> Front(s.redo)]

-----------------------------------------------------------------------------
(* Journal records.  "baseline" records carry the revision of the oldest   *)
(* snapshot from which the rest of the journal may be replayed.            *)

Actions == {"edit", "undo", "redo"}

NoEntry == [forward |-> RemoveTrack(0), inverse |-> RemoveTrack(0)]

Record ==
    [seq : Revision, action : Actions \cup {"baseline"},
     base : Revision \cup {0}, entry : Entry]

BaselineRecord(n, r) ==
    [seq |-> n, action |-> "baseline", base |-> r, entry |-> NoEntry]

ActionRecord(n, a, e) == [seq |-> n, action |-> a, base |-> 0, entry |-> e]

\* The record that a live step from session s appends: its sequence number
\* is the revision the step results in.
EditRecord(s, c) == ActionRecord(s.doc.revision + 1, "edit", EntryFor(s.doc, c))
UndoRecord(s) == ActionRecord(s.doc.revision + 1, "undo", Last(s.undo))
RedoRecord(s) == ActionRecord(s.doc.revision + 1, "redo", Last(s.redo))

LastSeq(j) == IF j = <<>> THEN 0 ELSE Last(j).seq

\* What every journal of a session looks like: consecutive numbers, and one
\* baseline record, the first.
Gapless(j) ==
    \A i \in DOMAIN j :
        /\ j[i].seq = j[1].seq + (i - 1)
        /\ (j[i].action = "baseline") <=> (i = 1)

\* decodeRecord gives the record back: its names are short enough.
CommandDecodes(c) ==
    c.type \in {"addTrack", "renameTrack"} => c.value \in RecordNames
Decodes(rec) ==
    rec.action # "baseline" =>
        CommandDecodes(rec.entry.forward) /\ CommandDecodes(rec.entry.inverse)

HasBaseline(j) == j # <<>> /\ j[1].action = "baseline"

\* inspectJournalForRestore: the journal's own bounds agree, and the oldest
\* snapshot revision from which it may be replayed.
InspectionOK(j) ==
    /\ j # <<>> => Decodes(j[1])
    /\ HasBaseline(j) => j[1].seq <= j[1].base /\ j[1].base <= LastSeq(j)

OldestRestorable(j) ==
    IF j = <<>> THEN 0 ELSE IF HasBaseline(j) THEN j[1].base ELSE LastSeq(j)

-----------------------------------------------------------------------------
(* Checkpoint: the history written as edits along one line followed by the *)
(* undos that lead back from its end, numbered so as to end at r.          *)

CompactSize(s) == Len(s.undo) + 2 * Len(s.redo) + 1

\* Mutant of CompactJournal: numbered from one too low.
CompactJournalTooLow(s, r) ==
    LET line == s.undo \o Reverse(s.redo)
        first == r - CompactSize(s)
    IN  <<BaselineRecord(first, r)>>
            \o [i \in 1 .. Len(line) |-> ActionRecord(first + i, "edit", line[i])]
            \o [i \in 1 .. Len(s.redo) |->
                    ActionRecord(first + Len(line) + i, "undo", s.redo[i])]

CompactJournal(s, r) ==
    LET line == s.undo \o Reverse(s.redo)
        first == r + 1 - CompactSize(s)
    IN  <<BaselineRecord(first, r)>>
            \o [i \in 1 .. Len(line) |-> ActionRecord(first + i, "edit", line[i])]
            \o [i \in 1 .. Len(s.redo) |->
                    ActionRecord(first + Len(line) + i, "undo", s.redo[i])]

-----------------------------------------------------------------------------
(* Replay: record rec of journal j met by the session s being rebuilt.     *)

Replayed(rec) ==
    IF rec.action = "undo" THEN rec.entry.inverse ELSE rec.entry.forward

\* The record is older than the snapshot and only rebuilds the stacks, or is
\* the next revision and applies.
DocumentFits(s, rec) ==
    rec.seq > s.doc.revision =>
        /\ rec.seq = s.doc.revision + 1
        /\ Accepts(s.doc, Replayed(rec))

StacksFit(s, rec) ==
    /\ rec.action = "undo" => s.undo # <<>> /\ Last(s.undo) = rec.entry
    /\ rec.action = "redo" => s.redo # <<>> /\ Last(s.redo) = rec.entry

BaselineFits(s, j, i) ==
    /\ i = 1
    /\ j[i].base # 0
    /\ j[i].seq <= j[i].base
    /\ j[i].base <= LastSeq(j)
    /\ j[i].base <= s.doc.revision

Replayable(s, j, i) ==
    IF j[i].action = "baseline"
    THEN BaselineFits(s, j, i)
    ELSE Decodes(j[i]) /\ DocumentFits(s, j[i]) /\ StacksFit(s, j[i])

\* Mutant of AfterReplay: records older than the snapshot are applied again.
AfterReplayTwice(s, rec) ==
    [doc |-> Edited(s.doc, Replayed(rec)),
     undo |-> IF rec.action = "undo" THEN Front(s.undo)
              ELSE Append(s.undo, rec.entry),
     redo |-> CASE rec.action = "edit" -> <<>>
                [] rec.action = "undo" -> Append(s.redo, rec.entry)
                [] rec.action = "redo" -> Front(s.redo)]

\* Mutant of AfterReplay: a replayed edit leaves the redo stack.
AfterReplayKeepsRedo(s, rec) ==
    [doc |-> IF rec.seq > s.doc.revision THEN Edited(s.doc, Replayed(rec))
             ELSE s.doc,
     undo |-> IF rec.action = "undo" THEN Front(s.undo)
              ELSE Append(s.undo, rec.entry),
     redo |-> CASE rec.action = "edit" -> s.redo
                [] rec.action = "undo" -> Append(s.redo, rec.entry)
                [] rec.action = "redo" -> Front(s.redo)]

AfterReplay(s, rec) ==
    [doc |-> IF rec.seq > s.doc.revision THEN Edited(s.doc, Replayed(rec))
             ELSE s.doc,
     undo |-> IF rec.action = "undo" THEN Front(s.undo)
              ELSE Append(s.undo, rec.entry),
     redo |-> CASE rec.action = "edit" -> <<>>
                [] rec.action = "undo" -> Append(s.redo, rec.entry)
                [] rec.action = "redo" -> Front(s.redo)]
=============================================================================
