-------------------------- MODULE JournaledSession --------------------------
(***************************************************************************)
(* A project-backed session: the live document with its undo history, the  *)
(* write-ahead command journal, the project file with its staging sibling  *)
(* and its rotating backups, and the process that crashes and reopens them *)
(* (JournaledSession.cpp, Persistence.cpp, ProjectBackupStore.cpp; the     *)
(* save worker and the checkpoint driver appear here by the steps they     *)
(* take on the disk).                                                      *)
(*                                                                         *)
(* A file that is replaced atomically is one value; the staging file is    *)
(* torn from the moment it is opened until its flush returns.  A journal   *)
(* is its longest valid prefix plus a flag for an invalid tail.  Whatever  *)
(* a flush confirmed survives a crash; everything else of the process is   *)
(* lost.  An I/O error while opening ends in the same disk states as a     *)
(* crash at that point, and is modelled as one.                            *)
(***************************************************************************)
EXTENDS CommandHistory

CONSTANTS
    NoFile,           \* the file does not exist
    Torn,             \* the file exists and its envelope does not verify
    RetainedBackups,  \* ProjectBackupPolicy::retainedBackups
    SeedDocuments,    \* projects that may exist, without journal, at the start
    MediaFaults       \* kinds of damage at rest; one fault happens at most

ASSUME DiskAssumption ==
    /\ RetainedBackups \in Nat \ {0}
    /\ SeedDocuments \subseteq {d \in Document : Editable(d)}
    /\ MediaFaults \subseteq {"target", "journal", "backup"}
    /\ NoFile # Torn
    /\ NoFile \notin Document /\ Torn \notin Document

VARIABLES
    journal,    \* valid records of <project>.commands.irjc
    tornTail,   \* bytes after them that do not verify
    target,     \* the project file
    staging,    \* <project>.saving
    backups,    \* <project>.backups/: revision in the name -> file
    mode,       \* what the process is doing
    live,       \* the session object (being rebuilt unless mode is "open")
    origin,     \* the snapshot it was built from
    at,         \* replay: next journal record
    untried,    \* open: backups not yet looked at
    poisoned,   \* requiresReopen_
    checkpointRevision,
    snapshotRevision,
    save,       \* the project snapshot being written, and the one that waits
    requested,  \* revision of the newest snapshot handed to the saver
    durable,    \* newest revision the saver reported committed
    ledger,     \* history variable: the session at every revision that the
                \* journal holds from its baseline on
    acked,      \* history variable: the last acknowledged revision
    damaged     \* media faults that have happened

disk == <<journal, tornTail, target, staging, backups>>
opening == <<origin, at, untried>>
session == <<live, poisoned, checkpointRevision, snapshotRevision>>
saver == <<save, requested, durable>>
ghost == <<ledger, acked, damaged>>
vars == <<disk, mode, opening, session, saver, ghost>>

Modes == {"closed", "choosing", "replaying", "restoring", "open", "failed"}
Sources == {"project", "journal", "backup"}
SavePhases == {"idle", "queued", "writing", "flushed", "replaced"}

Readable(f) == f \notin {NoFile, Torn}
IdleSave == [phase |-> "idle", doc |-> DefaultDocument, pending |-> NoFile]
QueuedSave(d) == [phase |-> "queued", doc |-> d, pending |-> NoFile]
NoOrigin == [from |-> "project", revision |-> 0]
LedgerEnd == CHOOSE r \in DOMAIN ledger : \A q \in DOMAIN ledger : q <= r

Init ==
    /\ journal = <<>> /\ tornTail = FALSE
    /\ target \in {NoFile} \cup SeedDocuments
    /\ staging = NoFile
    /\ backups = [r \in {} |-> Torn]
    /\ mode = "closed"
    /\ live = FreshSession(DefaultDocument) /\ origin = NoOrigin
    /\ at = 1 /\ untried = {} /\ poisoned = FALSE
    /\ checkpointRevision = 0 /\ snapshotRevision = 0
    /\ save = IdleSave /\ requested = 0 /\ durable = 0
    /\ LET d == IF target = NoFile THEN DefaultDocument ELSE target
       IN  ledger = [r \in {d.revision} |-> FreshSession(d)] /\ acked = d.revision
    /\ damaged = {}

-----------------------------------------------------------------------------
(* Editing.                                                                *)

\* CommandJournal::append.  The first append of a process truncates an
\* invalid tail; a record behind one could not be read back.
Appended(rec) == IF tornTail' THEN journal ELSE Append(journal, rec)

\* The record is durable and the candidate becomes the session.
Acknowledge(next, rec) ==
    /\ tornTail' = FALSE
    /\ journal' = Appended(rec)
    /\ live' = next
    /\ ledger' = [r \in DOMAIN ledger \cup {rec.seq} |->
                     IF r = rec.seq THEN next ELSE ledger[r]]
    /\ acked' = rec.seq
    /\ UNCHANGED poisoned

\* Mutant of Interrupt: the candidate is published before the append.
InterruptAfterPublishing(next, rec) ==
    /\ poisoned' = TRUE
    /\ tornTail' \in BOOLEAN
    /\ live' = next
    /\ UNCHANGED <<journal, ledger, acked>>

\* The append reports failure: the record may be whole, partial or absent.
Interrupt(next, rec) ==
    /\ poisoned' = TRUE
    /\ tornTail' \in BOOLEAN
    /\ \/ UNCHANGED <<journal, ledger>>
       \/ /\ ~tornTail'
          /\ journal' = Appended(rec)
          /\ ledger' = [r \in DOMAIN ledger \cup {rec.seq} |->
                           IF r = rec.seq THEN next ELSE ledger[r]]
    /\ UNCHANGED <<live, acked>>

AppendRecord(next, rec) ==
    /\ Acknowledge(next, rec) \/ Interrupt(next, rec)
    /\ UNCHANGED <<target, staging, backups, mode, opening,
                   checkpointRevision, snapshotRevision, saver, damaged>>

\* commitEdit.  A request with a stale expected revision or arguments the
\* controller refuses returns before any change.
Edit ==
    /\ mode = "open" /\ ~poisoned
    /\ \E c \in ClientCommands(live.doc) :
           CanEdit(live, c) /\ AppendRecord(AfterEdit(live, c), EditRecord(live, c))

\* commitHistoryAction.
Undo ==
    /\ mode = "open" /\ ~poisoned
    /\ CanUndo(live)
    /\ AppendRecord(AfterUndo(live), UndoRecord(live))

Redo ==
    /\ mode = "open" /\ ~poisoned
    /\ CanRedo(live)
    /\ AppendRecord(AfterRedo(live), RedoRecord(live))

\* Mutant of Checkpoint: it follows the request, not the completion.
CheckpointOnRequest ==
    /\ mode = "open" /\ ~poisoned
    /\ requested # checkpointRevision
    /\ requested # 0 /\ requested = live.doc.revision
    /\ CompactSize(live) <= requested
    /\ journal' = CompactJournal(live, requested)
    /\ tornTail' = FALSE
    /\ ledger' = [r \in {requested} |-> live]
    /\ checkpointRevision' = requested /\ snapshotRevision' = requested
    /\ UNCHANGED <<target, staging, backups, mode, opening, live, poisoned,
                   saver, acked, damaged>>

\* checkpoint, as the engine calls it: once the saver reports the current
\* revision committed.  If the directory flush after the rename fails, the
\* journal is compact and the session does not know.
Checkpoint ==
    /\ mode = "open" /\ ~poisoned
    /\ durable # checkpointRevision
    /\ durable # 0 /\ durable = live.doc.revision
    /\ CompactSize(live) <= durable
    /\ journal' = CompactJournal(live, durable)
    /\ tornTail' = FALSE
    /\ ledger' = [r \in {durable} |-> live]
    /\ \/ checkpointRevision' = durable /\ snapshotRevision' = durable
       \/ UNCHANGED <<checkpointRevision, snapshotRevision>>
    /\ UNCHANGED <<target, staging, backups, mode, opening, live, poisoned,
                   saver, acked, damaged>>

-----------------------------------------------------------------------------
(* Saving: saveProjectSnapshot step by step, then saveProjectBackup.       *)

\* requestSave with the current snapshot, which must be newer than the ones
\* requested before and not behind the durable revision.  (A service that has
\* just started has requested none.)  Behind a save in flight it waits, in
\* the place of an older one that waits.
Submit ==
    /\ mode = "open"
    /\ live.doc.revision > requested /\ live.doc.revision >= durable
    /\ save' = IF save.phase = "idle" THEN QueuedSave(live.doc)
               ELSE [save EXCEPT !.pending = live.doc]
    /\ requested' = live.doc.revision
    /\ UNCHANGED <<disk, mode, opening, session, durable, ghost>>

\* Validation passed; opening the staging file discards what it held.
WriteStaging ==
    /\ save.phase = "queued" /\ WellFormed(save.doc)
    /\ staging' = Torn
    /\ save' = [save EXCEPT !.phase = "writing"]
    /\ UNCHANGED <<journal, tornTail, target, backups, mode, opening, session,
                   requested, durable, ghost>>

FlushStaging ==
    /\ save.phase = "writing"
    /\ staging' = save.doc
    /\ save' = [save EXCEPT !.phase = "flushed"]
    /\ UNCHANGED <<journal, tornTail, target, backups, mode, opening, session,
                   requested, durable, ghost>>

\* atomicReplace.
ReplaceTarget ==
    /\ save.phase = "flushed"
    /\ target' = staging /\ staging' = NoFile
    /\ save' = [save EXCEPT !.phase = "replaced"]
    /\ UNCHANGED <<journal, tornTail, backups, mode, opening, session,
                   requested, durable, ghost>>

\* The backups that pruning removes of those named in revisions, newest first;
\* it stops at the first one that it cannot remove.
PrunedFrom(revisions, gone) ==
    LET excess == {r \in revisions :
                      Cardinality({q \in revisions : q > r}) >= RetainedBackups}
    IN  gone \subseteq excess /\ \A r \in gone, q \in excess : q > r => q \in gone

\* The completion makes room for the snapshot that waits.
NextSave == IF save.pending = NoFile THEN IdleSave ELSE QueuedSave(save.pending)

\* The worker tries a backup and reports the save committed either way; the
\* backup may fail, and so may the pruning after it.
FinishSave ==
    /\ mode = "open" /\ save.phase = "replaced"
    /\ durable' = save.doc.revision
    /\ LET named == DOMAIN backups \cup {save.doc.revision}
       IN  \/ UNCHANGED backups
           \/ \E gone \in SUBSET named :
                /\ PrunedFrom(named, gone)
                /\ backups' = [r \in named \ gone |->
                                  IF r = save.doc.revision THEN save.doc
                                  ELSE backups[r]]
    /\ save' = NextSave
    /\ UNCHANGED <<journal, tornTail, target, staging, mode, opening, session,
                   requested, ghost>>

\* Validation, a write, a flush or the replacement (even after its rename)
\* fails: the completion is a rejection.
FailSave ==
    /\ mode = "open" /\ save.phase # "idle"
    /\ save' = NextSave
    /\ UNCHANGED <<disk, mode, opening, session, requested, durable, ghost>>

-----------------------------------------------------------------------------
(* Opening.  A candidate snapshot starts a replay of the journal, one      *)
(* record at a time; a candidate that does not fit falls through to the    *)
(* backups, newest first.                                                  *)

\* createFromDocument: a journal without records is started at the
\* candidate's revision.
StartReplay(d, source) ==
    /\ journal' = IF journal = <<>>
                  THEN <<BaselineRecord(d.revision, d.revision)>>
                  ELSE journal
    /\ tornTail' = (tornTail /\ journal # <<>>)
    /\ mode' = "replaying"
    /\ live' = FreshSession(d)
    /\ origin' = [from |-> source, revision |-> d.revision]
    /\ at' = 1
    /\ checkpointRevision' = 0

\* The candidate session goes away.
DropCandidate ==
    /\ live' = FreshSession(DefaultDocument)
    /\ origin' = NoOrigin
    /\ at' = 1
    /\ checkpointRevision' = 0

\* inspectJournalForRestore, then the list of backups.
FallBack ==
    /\ IF InspectionOK(journal)
       THEN mode' = "choosing" /\ untried' = DOMAIN backups
       ELSE mode' = "failed" /\ untried' = {}
    /\ DropCandidate

\* loadProjectSnapshot: a readable project file wins and its staging sibling
\* is removed, if that succeeds; otherwise a complete staging file takes its
\* place.
OpenProject ==
    /\ mode \in {"closed", "failed"}
    /\ Readable(target) \/ Readable(staging)
    /\ IF Readable(target)
       THEN UNCHANGED target /\ staging' \in {staging, NoFile}
       ELSE target' = staging /\ staging' = NoFile
    /\ StartReplay(target', "project")
    /\ UNCHANGED <<backups, untried, poisoned, snapshotRevision, saver, ghost>>

\* Mutant of OpenUnreadable: the project file's own state is not looked at.
OpenUnreadableRegardless ==
    /\ mode \in {"closed", "failed"}
    /\ {target, staging} # {NoFile} \/ DOMAIN backups # {}
    /\ FallBack
    /\ UNCHANGED <<disk, poisoned, snapshotRevision, saver, ghost>>

\* Neither file is readable, or the staging file cannot be renamed.
OpenUnreadable ==
    /\ mode \in {"closed", "failed"}
    /\ ~Readable(target)
    /\ {target, staging} # {NoFile} \/ DOMAIN backups # {}
    /\ FallBack
    /\ UNCHANGED <<disk, poisoned, snapshotRevision, saver, ghost>>

\* A project that was never saved: the journal alone, from the default
\* session, if its baseline is the default session's revision.
OpenJournalOnly ==
    /\ mode \in {"closed", "failed"}
    /\ {target, staging} = {NoFile} /\ DOMAIN backups = {}
    /\ InspectionOK(journal)
    /\ journal = <<>> \/ (HasBaseline(journal) /\ journal[1].base <= 1)
    /\ StartReplay(DefaultDocument, "journal")
    /\ UNCHANGED <<target, staging, backups, untried, poisoned,
                   snapshotRevision, saver, ghost>>

RefuseJournalOnly ==
    /\ mode = "closed"
    /\ {target, staging} = {NoFile} /\ DOMAIN backups = {}
    /\ journal # <<>>
    /\ \/ ~InspectionOK(journal)
       \/ ~HasBaseline(journal)
       \/ journal[1].base > 1
    /\ mode' = "failed"
    /\ UNCHANGED <<disk, opening, session, saver, ghost>>

ReplayRecord ==
    /\ mode = "replaying" /\ at <= Len(journal)
    /\ Replayable(live, journal, at)
    /\ IF journal[at].action = "baseline"
       THEN checkpointRevision' = journal[at].base /\ UNCHANGED live
       ELSE live' = AfterReplay(live, journal[at]) /\ UNCHANGED checkpointRevision
    /\ at' = at + 1
    /\ UNCHANGED <<disk, mode, origin, untried, poisoned, snapshotRevision,
                   saver, ghost>>

\* The candidate does not fit: a record fails, or the snapshot is newer than
\* the whole journal.
ReplayRejected ==
    /\ mode = "replaying"
    /\ IF at <= Len(journal)
       THEN ~Replayable(live, journal, at)
       ELSE origin.revision > LastSeq(journal)
    /\ IF origin.from = "project"
       THEN FallBack
       ELSE /\ mode' = IF origin.from = "backup" THEN "choosing" ELSE "failed"
            /\ DropCandidate
            /\ UNCHANGED untried
    /\ UNCHANGED <<disk, poisoned, snapshotRevision, saver, ghost>>

\* Mutant of TryBackup: a backup at the baseline itself is skipped.
TryBackupBeyondBaseline ==
    /\ mode = "choosing"
    /\ \E r \in untried :
        /\ \A q \in untried : q <= r
        /\ untried' = untried \ {r}
        /\ IF /\ Readable(backups[r])
              /\ r > OldestRestorable(journal)
              /\ LastSeq(journal) # 0 => r <= LastSeq(journal)
           THEN StartReplay(backups[r], "backup")
           ELSE UNCHANGED <<journal, tornTail, mode, live, origin, at,
                            checkpointRevision>>
    /\ UNCHANGED <<target, staging, backups, poisoned, snapshotRevision, saver,
                   ghost>>

\* The newest backup not yet tried: read it and see that the journal can be
\* replayed from it.
TryBackup ==
    /\ mode = "choosing"
    /\ \E r \in untried :
        /\ \A q \in untried : q <= r
        /\ untried' = untried \ {r}
        /\ IF /\ Readable(backups[r])
              /\ r >= OldestRestorable(journal)
              /\ LastSeq(journal) # 0 => r <= LastSeq(journal)
           THEN StartReplay(backups[r], "backup")
           ELSE UNCHANGED <<journal, tornTail, mode, live, origin, at,
                            checkpointRevision>>
    /\ UNCHANGED <<target, staging, backups, poisoned, snapshotRevision, saver,
                   ghost>>

NoBackupFits ==
    /\ mode = "choosing" /\ untried = {}
    /\ mode' = "failed"
    /\ UNCHANGED <<disk, opening, session, saver, ghost>>

\* The candidate is the session; the service starts from its snapshot.
GoLive(revision) ==
    /\ mode' = "open"
    /\ snapshotRevision' = revision
    /\ save' = IdleSave /\ requested' = 0 /\ durable' = revision
    /\ acked' = live.doc.revision
    /\ ledger' = [r \in {q \in DOMAIN ledger :
                            OldestRestorable(journal) <= q /\ q < live.doc.revision}
                           \cup {live.doc.revision} |->
                      IF r = live.doc.revision THEN live ELSE ledger[r]]
    /\ origin' = NoOrigin /\ at' = 1 /\ untried' = {}
    /\ UNCHANGED <<live, poisoned, checkpointRevision, damaged>>

FinishReplay ==
    /\ mode = "replaying" /\ origin.from # "backup"
    /\ at > Len(journal) /\ origin.revision <= LastSeq(journal)
    /\ GoLive(IF origin.from = "project" THEN origin.revision ELSE 0)
    /\ UNCHANGED disk

\* A backup that replays is first written back as the project file.
BeginRestore ==
    /\ mode = "replaying" /\ origin.from = "backup"
    /\ at > Len(journal) /\ origin.revision <= LastSeq(journal)
    /\ mode' = "restoring"
    /\ save' = QueuedSave(backups[origin.revision])
    /\ UNCHANGED <<disk, opening, session, requested, durable, ghost>>

FinishRestore ==
    /\ mode = "restoring" /\ save.phase = "replaced"
    /\ GoLive(origin.revision)
    /\ UNCHANGED disk

-----------------------------------------------------------------------------
(* The environment.                                                        *)

\* The process exits or is killed, or the machine stops.
Terminate ==
    /\ mode # "closed"
    /\ mode' = "closed"
    /\ DropCandidate
    /\ untried' = {} /\ poisoned' = FALSE /\ snapshotRevision' = 0
    /\ save' = IdleSave /\ requested' = 0 /\ durable' = 0
    /\ UNCHANGED <<disk, ghost>>

\* Damage at rest: the project file is lost or corrupt, the journal's valid
\* prefix shrinks, a backup is corrupt.
Damage(kind) ==
    /\ mode = "closed"
    /\ kind \in MediaFaults /\ damaged = {}
    /\ damaged' = {kind}
    /\ UNCHANGED <<staging, mode, opening, session, saver, ledger, acked>>

DamageTarget ==
    /\ Damage("target")
    /\ Readable(target) /\ target' \in {NoFile, Torn}
    /\ UNCHANGED <<journal, tornTail, backups>>

DamageJournal ==
    /\ Damage("journal")
    /\ \E n \in 0 .. (Len(journal) - 1) : journal' = SubSeq(journal, 1, n)
    /\ tornTail' = TRUE
    /\ UNCHANGED <<target, backups>>

DamageBackup ==
    /\ Damage("backup")
    /\ \E r \in DOMAIN backups : backups' = [backups EXCEPT ![r] = Torn]
    /\ UNCHANGED <<journal, tornTail, target>>

-----------------------------------------------------------------------------
Open ==
    \/ OpenProject \/ OpenUnreadable \/ OpenJournalOnly \/ RefuseJournalOnly
    \/ ReplayRecord \/ ReplayRejected \/ TryBackup \/ NoBackupFits
    \/ FinishReplay \/ BeginRestore \/ FinishRestore

SaveStep ==
    \/ Submit \/ WriteStaging \/ FlushStaging \/ ReplaceTarget
    \/ FinishSave \/ FailSave

Next ==
    \/ Edit \/ Undo \/ Redo \/ Checkpoint
    \/ SaveStep
    \/ Open
    \/ Terminate
    \/ DamageTarget \/ DamageJournal \/ DamageBackup

Spec == Init /\ [][Next]_vars

-----------------------------------------------------------------------------
(* Properties.                                                             *)

SaveState ==
    [phase : SavePhases, doc : Document, pending : Document \cup {NoFile}]

\* Every variable has its type.
TypeOK ==
    /\ journal \in Seq(Record)
    /\ tornTail \in BOOLEAN
    /\ target \in Document \cup {NoFile, Torn}
    /\ staging \in Document \cup {NoFile, Torn}
    /\ DOMAIN backups \subseteq Revision
    /\ \A r \in DOMAIN backups : backups[r] \in Document \cup {Torn}
    /\ mode \in Modes
    /\ live \in Session
    /\ origin \in [from : Sources, revision : Revision \cup {0}]
    /\ at \in Nat \ {0}
    /\ untried \subseteq DOMAIN backups
    /\ poisoned \in BOOLEAN
    /\ checkpointRevision \in Revision \cup {0}
    /\ snapshotRevision \in Revision \cup {0}
    /\ save \in SaveState
    /\ requested \in Revision \cup {0}
    /\ durable \in Revision \cup {0}
    /\ DOMAIN ledger \subseteq Revision
    /\ \A r \in DOMAIN ledger : ledger[r] \in Session
    /\ acked \in DOMAIN ledger
    /\ damaged \subseteq {"target", "journal", "backup"}

JournalIntact == "journal" \notin damaged

\* The journal is one gapless run of sequence numbers that starts with its
\* only baseline record, and the baseline lies inside the run: recovery
\* needs all of it, and compaction renumbers everything.
JournalGapless ==
    journal # <<>> /\ JournalIntact =>
        /\ Gapless(journal)
        /\ journal[1].seq <= journal[1].base
        /\ journal[1].base <= LastSeq(journal)

\* When a replay has consumed the journal, the session it built -- document,
\* undo stack and redo stack -- is the acknowledged one, or the one after it
\* if the record of an interrupted append turned out to be whole.  It does
\* not matter which snapshot it started from.
RecoveryIsExact ==
    (mode = "replaying" /\ at > Len(journal) /\ JournalIntact) =>
        /\ LedgerEnd \in {acked, acked + 1}
        /\ live = ledger[LedgerEnd]

\* Even when the journal has lost records, a replay that is accepted ends in a
\* document that the session once acknowledged, with the history it had then or
\* (the journal being lost altogether) with none: never in a mixture of two.
RecoveredSessionIsReal ==
    (mode = "replaying" /\ at > Len(journal)
        /\ origin.revision <= LastSeq(journal)) =>
        LET r == live.doc.revision
        IN  r \in DOMAIN ledger /\ live \in {ledger[r], FreshSession(ledger[r].doc)}

\* Opening fails only when no readable snapshot can be combined with the
\* journal: in particular never because a replay rejects a file the saver
\* wrote.
OpenFailsOnlyWithoutSnapshot ==
    (mode = "failed" /\ JournalIntact) =>
        /\ ~Readable(target)
        /\ \A r \in DOMAIN backups :
               Readable(backups[r]) => r < OldestRestorable(journal)

\* Once a checkpoint has raised the journal's baseline, the project file
\* carries that revision or a later one; and no project file is ahead of
\* the journal.  Otherwise acknowledged edits could not be rebuilt.
BaselineIsCovered ==
    JournalIntact =>
        /\ (Readable(target) /\ journal # <<>>) =>
               /\ OldestRestorable(journal) <= target.revision
               /\ target.revision <= LastSeq(journal)
        /\ (OldestRestorable(journal) > 1 /\ "target" \notin damaged) =>
               Readable(target)

\* Claim of ADR-0004 that the code does not keep: no crash and no failed save
\* leaves a project that cannot be opened again, media intact.
CrashesDoNotLockProject ==
    mode = "failed" => damaged # {} \/ Readable(staging)

\* Every snapshot on disk that the journal may be replayed from is the
\* document that was the session's at that revision, whatever crashes,
\* failed saves and promoted staging files came between.
SnapshotsAreHistory ==
    JournalIntact =>
        \A f \in {target, staging} \cup {backups[r] : r \in DOMAIN backups} :
            (Readable(f) /\ f.revision >= OldestRestorable(journal)) =>
                f.revision \in DOMAIN ledger /\ f = ledger[f.revision].doc

\* The compact form of the history always fits below the current revision,
\* so that checkpoint's own check for it never fails.
HistoryFits == mode = "open" => CompactSize(live) <= live.doc.revision

\* While revisions are left, the top of each history stack applies.
HistoryApplies ==
    (mode = "open" /\ live.doc.revision < MaxRevision) =>
        /\ live.undo # <<>> => CanUndo(live)
        /\ live.redo # <<>> => CanRedo(live)

\* While the journal is intact, a backup is written over the project file only when that is
\* unreadable.  (A journal that lost its end makes open() reject a newer project file.)
RestoreSparesProject ==
    (mode = "restoring" /\ save.phase # "replaced" /\ JournalIntact) =>
        ~Readable(target)

-----------------------------------------------------------------------------
(* The session implements UndoableDocument: contents before and after the  *)
(* current one are what the recorded inverse and forward commands lead to. *)

\* The document one recorded command away; revisions do not matter here.
Retraced(d, c) ==
    LET e == [d EXCEPT !.revision = 0]
    IN  IF Accepts(e, c) THEN Edited(e, c) ELSE [e EXCEPT !.tempo = NoValue]

\* Contents that the commands on top of a history stack lead to from d, one
\* after the other; the result is in stack order, the nearest content last.
Trail(d, commands) ==
    LET n == Len(commands)
        walk[i \in 0 .. n] ==
            IF i = 0 THEN <<d>>
            ELSE CHOOSE w \in {<<Retraced(Head(v), commands[n + 1 - i])>> \o v :
                                   v \in {walk[i - 1]}} : TRUE
    IN  CHOOSE t \in {[i \in 1 .. n |-> Content(w[i])] : w \in {walk[n]}} : TRUE

Past(s) == Trail(s.doc, [i \in DOMAIN s.undo |-> s.undo[i].inverse])
Future(s) == Trail(s.doc, [i \in DOMAIN s.redo |-> s.redo[i].forward])

Timeline(s) ==
    [revision |-> s.doc.revision, past |-> Past(s),
     present |-> Content(s.doc), future |-> Future(s)]

\* The session can be edited.
Up == mode = "open" /\ ~poisoned

Promise ==
    INSTANCE UndoableDocument WITH
        up <- Up,
        revision <- acked,
        past <- Past(ledger[acked]),
        present <- Content(ledger[acked].doc),
        future <- Future(ledger[acked]),
        doubt <- {Timeline(ledger[r]) : r \in {q \in DOMAIN ledger : q > acked}}

\* Without damage to the journal, every behaviour of the session is one of a
\* crash-surviving document with exact undo and redo.
\* (The abstract state is a function of these three: the first disjunct
\* is a stuttering step, named to spare comparing equal timelines.)
KeepsPromise ==
    /\ Promise!Init
    /\ [][UNCHANGED <<Up, ledger, acked>> \/ Promise!Next]_(Promise!observed)
=============================================================================
