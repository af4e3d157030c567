----------------------- MODULE JournaledSessionProofs -----------------------
(***************************************************************************)
(* Theorems about JournaledSession, for every value of its constants.      *)
(*                                                                         *)
(* First come lemmas about documents, commands and journal records: what   *)
(* an accepted command leaves is a document, its inverse is a command,     *)
(* live steps and replayed records lead from session to session, and what  *)
(* the compact journal of a checkpoint looks like and retells.             *)
(*                                                                         *)
(* IInv, the inductive invariant, carries the types and the shape of the   *)
(* journal.  HInv, on top of it, says what the journal, the files and a    *)
(* session that is being rebuilt mean; LossInv takes its place while the   *)
(* project is closed or being opened with a journal that lost records.     *)
(* The theorems on recovery follow from the two.  LInv says that the undo  *)
(* and redo commands of every session in the ledger lead along a line of   *)
(* documents and back; with it, each step is shown to be a step of         *)
(* UndoableDocument.                                                       *)
(***************************************************************************)
EXTENDS JournaledSession, SequenceTheorems, FiniteSetTheorems, WellFoundedInduction, TLAPS

-----------------------------------------------------------------------------
(* Sequences.                                                              *)

\* The first n elements of a sequence.
LEMMA PrefixType ==
    ASSUME NEW S, NEW s \in Seq(S), NEW n \in 0 .. Len(s)
    PROVE  /\ SubSeq(s, 1, n) \in Seq(S)
           /\ Len(SubSeq(s, 1, n)) = n
           /\ \A i \in 1 .. n : SubSeq(s, 1, n)[i] = s[i]
<1>1. Len(s) \in Nat /\ \A i \in 1 .. n : s[i] \in S
  BY LenProperties, ElementOfSeq
<1> QED
  BY <1>1, SubSeqProperties

\* The two ends of a non-empty sequence.
LEMMA EndsType ==
    ASSUME NEW S, NEW s \in Seq(S), s # <<>>
    PROVE  /\ Front(s) \in Seq(S)
           /\ Len(Front(s)) = Len(s) - 1
           /\ Last(s) \in S
<1>1. Len(s) \in Nat \ {0}
  BY EmptySeq
<1>2. Len(s) - 1 \in 0 .. Len(s) /\ Len(s) \in 1 .. Len(s)
  BY <1>1
<1>3. SubSeq(s, 1, Len(s) - 1) \in Seq(S)
      /\ Len(SubSeq(s, 1, Len(s) - 1)) = Len(s) - 1
  BY <1>2, PrefixType
<1> QED
  BY <1>2, <1>3, ElementOfSeq DEF Front, Last

\* Reversing keeps elements and length.
LEMMA ReverseType ==
    ASSUME NEW S, NEW s \in Seq(S)
    PROVE  Reverse(s) \in Seq(S) /\ Len(Reverse(s)) = Len(s)
<1>1. Len(s) \in Nat /\ \A i \in 1 .. Len(s) : s[(Len(s) - i) + 1] \in S
  BY LenProperties, ElementOfSeq
<1> QED
  BY <1>1 DEF Reverse

\* Taking an element out leaves a sequence.
LEMMA RemoveAtType ==
    ASSUME NEW S, NEW s \in Seq(S), NEW p \in 1 .. Len(s)
    PROVE  RemoveAt(s, p) \in Seq(S)
<1>1. Len(s) \in Nat /\ \A i \in 1 .. Len(s) : s[i] \in S
  BY LenProperties, ElementOfSeq
<1>2. SubSeq(s, 1, p - 1) \in Seq(S) /\ SubSeq(s, p + 1, Len(s)) \in Seq(S)
  BY <1>1, SubSeqProperties
<1> QED
  BY <1>2, ConcatProperties DEF RemoveAt

-----------------------------------------------------------------------------
(* Documents and commands.                                                 *)

\* The default session's document is one.
LEMMA DefaultDocumentType == DefaultDocument \in Document
<1>1. [id |-> 1, name |-> MasterName] \in Track
  BY ValuesAssumption, LimitsAssumption DEF Track, StableId
<1>2. <<[id |-> 1, name |-> MasterName]>> \in Seq(Track)
  BY <1>1
<1>3. 1 \in Revision
  BY LimitsAssumption DEF Revision
<1> QED
  BY <1>2, <1>3, ValuesAssumption DEF DefaultDocument, Document

\* The fields of a document.
LEMMA DocumentFields ==
    ASSUME NEW d \in Document
    PROVE  /\ d.revision \in Revision
           /\ d.tempo \in Tempos
           /\ d.tracks \in Seq(Track)
           /\ d.others \in SUBSET Entity
BY DEF Document

\* A track that a document has is found, and at a place in its list.
LEMMA PlaceOfTrack ==
    ASSUME NEW d \in Document, NEW i \in TrackIds(d)
    PROVE  /\ PlaceOf(d, i) \in 1 .. Len(d.tracks)
           /\ d.tracks[PlaceOf(d, i)] \in Track
           /\ i \in StableId
<1>1. d.tracks \in Seq(Track)
  BY DocumentFields
<1>2. DOMAIN d.tracks = 1 .. Len(d.tracks)
  BY <1>1, LenProperties
<1>3. PICK p \in DOMAIN d.tracks : d.tracks[p].id = i
  BY DEF TrackIds
<1>4. PlaceOf(d, i) \in DOMAIN d.tracks /\ d.tracks[PlaceOf(d, i)].id = i
  BY <1>3 DEF PlaceOf
<1>5. d.tracks[PlaceOf(d, i)] \in Track
  BY <1>1, <1>2, <1>4, ElementOfSeq
<1> QED
  BY <1>2, <1>4, <1>5 DEF Track

\* An accepted command leads to a document, one revision later.
LEMMA EditedType ==
    ASSUME NEW d \in Document, NEW c \in Command, Accepts(d, c)
    PROVE  /\ Edited(d, c) \in Document
           /\ Edited(d, c).revision = d.revision + 1
<1> USE DocumentFields
<1>1. d.revision + 1 \in Revision
  BY LimitsAssumption DEF Accepts, Revision
<1>2. EditedTracks(d, c) \in Seq(Track)
  <2>1. CASE c.type = "setTempo"
    BY <2>1 DEF EditedTracks
  <2>2. CASE c.type = "addTrack"
    <3>1. [id |-> c.id, name |-> c.value] \in Track
      BY <2>2, LimitsAssumption, ValuesAssumption DEF Accepts, Track, StableId
    <3> QED
      BY <2>2, <3>1 DEF EditedTracks
  <2>3. CASE c.type = "renameTrack"
    <3> DEFINE p == PlaceOf(d, c.id)
    <3>1. p \in 1 .. Len(d.tracks) /\ d.tracks[p] \in Track /\ c.value \in Names
      BY <2>3, PlaceOfTrack, ValuesAssumption DEF Accepts
    <3>2. [d.tracks[p] EXCEPT !.name = c.value] \in Track
      BY <3>1 DEF Track
    <3>3. [d.tracks EXCEPT ![p] = [d.tracks[p] EXCEPT !.name = c.value]]
              \in Seq(Track)
      BY <3>1, <3>2, ExceptSeq
    <3>4. EditedTracks(d, c) = [d.tracks EXCEPT ![p].name = c.value]
      BY <2>3 DEF EditedTracks
    <3> QED
      BY <3>3, <3>4
  <2>4. CASE c.type = "removeTrack"
    <3>1. PlaceOf(d, c.id) \in 1 .. Len(d.tracks)
      BY <2>4, PlaceOfTrack DEF Accepts
    <3> QED
      BY <2>4, <3>1, RemoveAtType DEF EditedTracks
  <2> QED
    BY <2>1, <2>2, <2>3, <2>4 DEF Accepts
<1>3. (IF c.type = "setTempo" THEN c.value ELSE d.tempo) \in Tempos
  BY DEF Accepts
<1> QED
  BY <1>1, <1>2, <1>3 DEF Edited, Document

\* An inverse is a command.
LEMMA InverseType ==
    ASSUME NEW d \in Document, NEW c \in Command, Accepts(d, c)
    PROVE  InverseOf(d, c) \in Command
<1> USE DocumentFields
<1>1. CASE c.type = "setTempo"
  BY <1>1 DEF InverseOf, SetTempo, Command, CommandTypes
<1>2. CASE c.type = "addTrack"
  BY <1>2, LimitsAssumption DEF InverseOf, RemoveTrack, Command, CommandTypes
<1>3. CASE c.type = "renameTrack"
  <2>1. d.tracks[PlaceOf(d, c.id)].name \in Names
    BY <1>3, PlaceOfTrack DEF Accepts, Track
  <2> QED
    BY <1>3, <2>1 DEF InverseOf, RenameTrack, Command, CommandTypes
<1>4. CASE c.type = "removeTrack"
  <2>1. d.tracks[PlaceOf(d, c.id)].name \in Names
    BY <1>4, PlaceOfTrack DEF Accepts, Track
  <2> QED
    BY <1>4, <2>1 DEF InverseOf, RenameTrack, Command, CommandTypes
<1> QED
  BY <1>1, <1>2, <1>3, <1>4 DEF Accepts

\* What a client asks for, if accepted, is a command.
LEMMA ClientCommandType ==
    ASSUME NEW d \in Document, NEW c \in ClientCommands(d), Accepts(d, c)
    PROVE  c \in Command
<1>1. CASE \E t \in Tempos : c = SetTempo(t)
  BY <1>1 DEF SetTempo, Command, CommandTypes
<1>2. CASE \E n \in Names : c = AddTrack(NextStableId(d), n)
  <2>1. PICK n \in Names : c = AddTrack(NextStableId(d), n)
    BY <1>2
  <2>2. c.id \in StableId
    BY <2>1, LimitsAssumption DEF Accepts, AddTrack, StableId
  <2> QED
    BY <2>1, <2>2 DEF AddTrack, Command, CommandTypes
<1>3. CASE \E i \in TrackIds(d), n \in Names : c = RenameTrack(i, n)
  BY <1>3, PlaceOfTrack DEF RenameTrack, Command, CommandTypes
<1> QED
  BY <1>1, <1>2, <1>3 DEF ClientCommands

-----------------------------------------------------------------------------
(* Sessions.                                                               *)

\* The fields of a session, typed.
LEMMA SessionFields ==
    ASSUME NEW s \in Session
    PROVE  /\ s.doc \in Document
           /\ s.undo \in Seq(Entry)
           /\ s.redo \in Seq(Entry)
BY DEF Session

\* The size of the compact history, in numbers.
LEMMA CompactSizeIs ==
    ASSUME NEW s, NEW a \in Nat, NEW b \in Nat, Len(s.undo) = a, Len(s.redo) = b
    PROVE  CompactSize(s) = a + 2 * b + 1
BY DEF CompactSize

\* A session without history is one.
LEMMA FreshSessionType ==
    ASSUME NEW d \in Document
    PROVE  FreshSession(d) \in Session /\ CompactSize(FreshSession(d)) = 1
<1>1. <<>> \in Seq(Entry) /\ Len(<<>>) = 0
  BY EmptySeq
<1>2. FreshSession(d).undo = <<>> /\ FreshSession(d).redo = <<>>
  BY DEF FreshSession
<1>3. CompactSize(FreshSession(d)) = 0 + 2 * 0 + 1
  BY <1>1, <1>2, CompactSizeIs
<1> QED
  BY <1>1, <1>3 DEF FreshSession, Session

\* The size of a compact history is a positive number.
LEMMA CompactSizeType ==
    ASSUME NEW s \in Session
    PROVE  CompactSize(s) \in Nat \ {0}
<1> DEFINE a == Len(s.undo)  b == Len(s.redo)
<1>1. a \in Nat /\ b \in Nat
  BY SessionFields, LenProperties
<1>2. CompactSize(s) = a + 2 * b + 1
  BY <1>1, CompactSizeIs
<1> HIDE DEF a, b
<1> QED
  BY <1>1, <1>2

\* The shape of what an accepted step leads to: one revision further, with a
\* history whose compact form grew by at most one record.
Advanced(s, t) ==
    /\ t \in Session
    /\ t.doc.revision = s.doc.revision + 1
    /\ CompactSize(t) <= CompactSize(s) + 1

\* commitEdit's step.
LEMMA EditAdvances ==
    ASSUME NEW s \in Session, NEW c \in ClientCommands(s.doc), CanEdit(s, c)
    PROVE  Advanced(s, AfterEdit(s, c)) /\ EntryFor(s.doc, c) \in Entry
<1> USE SessionFields
<1>1. c \in Command /\ Accepts(s.doc, c)
  BY ClientCommandType DEF CanEdit
<1>2. Edited(s.doc, c) \in Document
      /\ Edited(s.doc, c).revision = s.doc.revision + 1
  BY <1>1, EditedType
<1>3. EntryFor(s.doc, c) \in Entry
  BY <1>1, InverseType DEF EntryFor, Entry
<1>4. /\ Append(s.undo, EntryFor(s.doc, c)) \in Seq(Entry)
      /\ Len(Append(s.undo, EntryFor(s.doc, c))) = Len(s.undo) + 1
  BY <1>3, AppendProperties
<1>5. Len(s.undo) \in Nat /\ Len(s.redo) \in Nat
      /\ <<>> \in Seq(Entry) /\ Len(<<>>) = 0
  BY LenProperties, EmptySeq
<1> DEFINE t == AfterEdit(s, c)
<1>6. /\ t.doc = Edited(s.doc, c)
      /\ t.undo = Append(s.undo, EntryFor(s.doc, c))
      /\ t.redo = <<>>
  BY DEF AfterEdit
<1>7. t \in Session
  BY <1>2, <1>4, <1>5 DEF AfterEdit, Session
<1> DEFINE a == Len(s.undo)  b == Len(s.redo)
<1>8. CompactSize(s) = a + 2 * b + 1
  BY <1>5, CompactSizeIs
<1>9. CompactSize(t) = (a + 1) + 2 * 0 + 1
  BY <1>4, <1>5, <1>6, CompactSizeIs
<1>10. a \in Nat /\ b \in Nat
  BY <1>5
<1> HIDE DEF a, b
<1>11. CompactSize(t) <= CompactSize(s) + 1
  BY <1>8, <1>9, <1>10
<1>12. t.doc.revision = s.doc.revision + 1
  BY <1>2, <1>6
<1> QED
  BY <1>3, <1>7, <1>11, <1>12 DEF Advanced

\* Moving the top of the undo stack to the redo stack.
LEMMA UndoMoves ==
    ASSUME NEW s \in Session, s.undo # <<>>, NEW d \in Document,
           NEW t, t = [doc |-> d, undo |-> Front(s.undo),
                       redo |-> Append(s.redo, Last(s.undo))]
    PROVE  /\ t \in Session /\ t.doc = d
           /\ CompactSize(t) = CompactSize(s) + 1
<1> USE SessionFields
<1>1. Front(s.undo) \in Seq(Entry) /\ Len(Front(s.undo)) = Len(s.undo) - 1
      /\ Last(s.undo) \in Entry
  BY EndsType
<1>2. Append(s.redo, Last(s.undo)) \in Seq(Entry)
      /\ Len(Append(s.redo, Last(s.undo))) = Len(s.redo) + 1
  BY <1>1, AppendProperties
<1>3. Len(s.undo) \in Nat /\ Len(s.redo) \in Nat
  BY LenProperties
<1>4. t \in Session
  BY <1>1, <1>2 DEF Session
<1>5. t.doc = d /\ t.undo = Front(s.undo) /\ t.redo = Append(s.redo, Last(s.undo))
  OBVIOUS
<1> DEFINE a == Len(s.undo)  b == Len(s.redo)
<1>6. a \in Nat /\ b \in Nat /\ a \in Nat \ {0}
  BY <1>3, EmptySeq
<1>7. CompactSize(s) = a + 2 * b + 1
  BY <1>3, CompactSizeIs
<1>8. CompactSize(t) = (a - 1) + 2 * (b + 1) + 1
  <2>1. Len(t.undo) = a - 1 /\ Len(t.redo) = b + 1
    BY <1>1, <1>2, <1>5
  <2>2. a - 1 \in Nat /\ b + 1 \in Nat
    BY <1>6
  <2> HIDE DEF a, b
  <2> QED
    BY <2>1, <2>2, CompactSizeIs
<1> HIDE DEF a, b
<1>9. CompactSize(t) = CompactSize(s) + 1
  BY <1>6, <1>7, <1>8
<1> QED
  BY <1>4, <1>5, <1>9

\* Moving the top of the redo stack to the undo stack.
LEMMA RedoMoves ==
    ASSUME NEW s \in Session, s.redo # <<>>, NEW d \in Document,
           NEW t, t = [doc |-> d, undo |-> Append(s.undo, Last(s.redo)),
                       redo |-> Front(s.redo)]
    PROVE  /\ t \in Session /\ t.doc = d
           /\ CompactSize(t) = CompactSize(s) - 1
<1> USE SessionFields
<1>1. Front(s.redo) \in Seq(Entry) /\ Len(Front(s.redo)) = Len(s.redo) - 1
      /\ Last(s.redo) \in Entry
  BY EndsType
<1>2. Append(s.undo, Last(s.redo)) \in Seq(Entry)
      /\ Len(Append(s.undo, Last(s.redo))) = Len(s.undo) + 1
  BY <1>1, AppendProperties
<1>3. Len(s.undo) \in Nat /\ Len(s.redo) \in Nat
  BY LenProperties
<1>4. t \in Session
  BY <1>1, <1>2 DEF Session
<1>5. t.doc = d /\ t.redo = Front(s.redo) /\ t.undo = Append(s.undo, Last(s.redo))
  OBVIOUS
<1> DEFINE a == Len(s.undo)  b == Len(s.redo)
<1>6. a \in Nat /\ b \in Nat /\ b \in Nat \ {0}
  BY <1>3, EmptySeq
<1>7. CompactSize(s) = a + 2 * b + 1
  BY <1>3, CompactSizeIs
<1>8. CompactSize(t) = (a + 1) + 2 * (b - 1) + 1
  <2>1. Len(t.undo) = a + 1 /\ Len(t.redo) = b - 1
    BY <1>1, <1>2, <1>5
  <2>2. a + 1 \in Nat /\ b - 1 \in Nat
    BY <1>6
  <2> HIDE DEF a, b
  <2> QED
    BY <2>1, <2>2, CompactSizeIs
<1> HIDE DEF a, b
<1>9. CompactSize(t) = CompactSize(s) - 1
  BY <1>6, <1>7, <1>8
<1> QED
  BY <1>4, <1>5, <1>9

\* commitHistoryAction's two steps.
LEMMA UndoAdvances ==
    ASSUME NEW s \in Session, CanUndo(s)
    PROVE  Advanced(s, AfterUndo(s)) /\ Last(s.undo) \in Entry
<1>1. s.doc \in Document /\ Last(s.undo) \in Entry
  BY SessionFields, EndsType DEF CanUndo
<1>2. Last(s.undo).inverse \in Command /\ Accepts(s.doc, Last(s.undo).inverse)
  BY <1>1 DEF CanUndo, Entry
<1> DEFINE d == Edited(s.doc, Last(s.undo).inverse)
<1>3. d \in Document /\ d.revision = s.doc.revision + 1
  BY <1>1, <1>2, EditedType
<1> HIDE DEF d
<1>4. AfterUndo(s) \in Session /\ AfterUndo(s).doc = d
      /\ CompactSize(AfterUndo(s)) = CompactSize(s) + 1
  BY <1>3, UndoMoves DEF AfterUndo, CanUndo, d
<1> QED
  BY <1>1, <1>3, <1>4, CompactSizeType DEF Advanced

\* A redo takes a typed session to the next revision, within the bound.
LEMMA RedoAdvances ==
    ASSUME NEW s \in Session, CanRedo(s)
    PROVE  Advanced(s, AfterRedo(s)) /\ Last(s.redo) \in Entry
<1>1. s.doc \in Document /\ Last(s.redo) \in Entry
  BY SessionFields, EndsType DEF CanRedo
<1>2. Last(s.redo).forward \in Command /\ Accepts(s.doc, Last(s.redo).forward)
  BY <1>1 DEF CanRedo, Entry
<1> DEFINE d == Edited(s.doc, Last(s.redo).forward)
<1>3. d \in Document /\ d.revision = s.doc.revision + 1
  BY <1>1, <1>2, EditedType
<1> HIDE DEF d
<1>4. AfterRedo(s) \in Session /\ AfterRedo(s).doc = d
      /\ CompactSize(AfterRedo(s)) = CompactSize(s) - 1
  BY <1>3, RedoMoves DEF AfterRedo, CanRedo, d
<1> QED
  BY <1>1, <1>3, <1>4, CompactSizeType DEF Advanced

\* A record met by a replay: the document moves to the record's revision or
\* stays where it was, and the history grows as a live step's does.
LEMMA ReplayAdvances ==
    ASSUME NEW s \in Session, NEW rec \in Record, rec.action # "baseline",
           DocumentFits(s, rec), StacksFit(s, rec)
    PROVE  LET t == AfterReplay(s, rec)
           IN  /\ t \in Session
               /\ t.doc.revision =
                      IF rec.seq > s.doc.revision THEN rec.seq ELSE s.doc.revision
               /\ CompactSize(t) <= CompactSize(s) + 1
<1>1. rec.entry \in Entry /\ rec.action \in {"edit", "undo", "redo"}
  BY DEF Record, Actions
<1>2. Replayed(rec) \in Command
  BY <1>1 DEF Replayed, Entry
<1> DEFINE d == IF rec.seq > s.doc.revision THEN Edited(s.doc, Replayed(rec))
                ELSE s.doc
<1>3. /\ d \in Document
      /\ d.revision = IF rec.seq > s.doc.revision THEN rec.seq ELSE s.doc.revision
  <2>1. CASE rec.seq > s.doc.revision
    BY <1>2, <2>1, SessionFields, EditedType DEF DocumentFits
  <2>2. CASE ~(rec.seq > s.doc.revision)
    BY <2>2, SessionFields
  <2> QED
    BY <2>1, <2>2
<1> HIDE DEF d
<1> DEFINE t == AfterReplay(s, rec)
<1>4. CompactSize(s) \in Nat
  BY CompactSizeType
<1>5. t \in Session /\ t.doc = d /\ CompactSize(t) <= CompactSize(s) + 1
  <2>1. CASE rec.action = "edit"
    <3>1. t = [doc |-> d, undo |-> Append(s.undo, rec.entry), redo |-> <<>>]
      BY <2>1 DEF AfterReplay, d
    <3>2. /\ Append(s.undo, rec.entry) \in Seq(Entry)
          /\ Len(Append(s.undo, rec.entry)) = Len(s.undo) + 1
      BY <1>1, SessionFields, AppendProperties
    <3>3. Len(s.undo) \in Nat /\ Len(s.redo) \in Nat
          /\ <<>> \in Seq(Entry) /\ Len(<<>>) = 0
      BY SessionFields, LenProperties, EmptySeq
    <3>4. t \in Session /\ t.doc = d
      BY <1>3, <3>1, <3>2, <3>3 DEF Session
    <3> DEFINE a == Len(s.undo)  b == Len(s.redo)
    <3>5. CompactSize(s) = a + 2 * b + 1
      BY <3>3, CompactSizeIs
    <3>6. Len(t.undo) = a + 1 /\ Len(t.redo) = 0
      BY <3>1, <3>2, <3>3
    <3>7. CompactSize(t) = (a + 1) + 2 * 0 + 1
      BY <3>3, <3>6, CompactSizeIs
    <3>8. a \in Nat /\ b \in Nat
      BY <3>3
    <3> HIDE DEF a, b, t
    <3> QED
      BY <3>4, <3>5, <3>7, <3>8
  <2>2. CASE rec.action = "undo"
    <3>1. s.undo # <<>> /\ Last(s.undo) = rec.entry
      BY <2>2 DEF StacksFit
    <3>2. t = [doc |-> d, undo |-> Front(s.undo),
               redo |-> Append(s.redo, Last(s.undo))]
      BY <2>2, <3>1 DEF AfterReplay, d
    <3> HIDE DEF t
    <3> QED
      BY <1>3, <1>4, <3>1, <3>2, UndoMoves
  <2>3. CASE rec.action = "redo"
    <3>1. s.redo # <<>> /\ Last(s.redo) = rec.entry
      BY <2>3 DEF StacksFit
    <3>2. t = [doc |-> d, undo |-> Append(s.undo, Last(s.redo)),
               redo |-> Front(s.redo)]
      BY <2>3, <3>1 DEF AfterReplay, d
    <3> HIDE DEF t
    <3>3. t \in Session /\ t.doc = d /\ CompactSize(t) = CompactSize(s) - 1
      BY <1>3, <3>1, <3>2, RedoMoves
    <3> QED
      BY <1>4, <3>3
  <2> QED
    BY <1>1, <2>1, <2>2, <2>3
<1> HIDE DEF t
<1> QED
  BY <1>3, <1>5 DEF t

-----------------------------------------------------------------------------
(* Journals.                                                               *)

\* The records that are appended are records.
LEMMA RecordTypes ==
    ASSUME NEW n \in Revision
    PROVE  /\ \A r \in Revision : BaselineRecord(n, r) \in Record
           /\ \A a \in Actions, e \in Entry : ActionRecord(n, a, e) \in Record
<1>1. NoEntry \in Entry
  BY DEF NoEntry, RemoveTrack, Entry, Command, CommandTypes
<1> QED
  BY <1>1 DEF BaselineRecord, ActionRecord, Record

\* The fields of a baseline record.
LEMMA BaselineFields ==
    ASSUME NEW n, NEW r
    PROVE  /\ BaselineRecord(n, r).seq = n /\ BaselineRecord(n, r).base = r
           /\ BaselineRecord(n, r).action = "baseline"
BY DEF BaselineRecord

\* The fields of a record of an edit, an undo or a redo.
LEMMA ActionFields ==
    ASSUME NEW n, NEW a \in Actions, NEW e
    PROVE  ActionRecord(n, a, e).seq = n /\ ActionRecord(n, a, e).action # "baseline"
BY DEF ActionRecord, Actions

\* The numbers of a gapless journal.
LEMMA GaplessNumbers ==
    ASSUME NEW j \in Seq(Record), Gapless(j)
    PROVE  /\ \A i \in 1 .. Len(j) :
                  /\ j[i] \in Record
                  /\ j[i].seq \in Nat /\ j[i].seq >= i
                  /\ j[i].seq = j[1].seq + (i - 1)
                  /\ (j[i].action = "baseline") <=> (i = 1)
           /\ j # <<>> => /\ Len(j) \in Nat /\ Len(j) >= 1
                          /\ LastSeq(j) = j[Len(j)].seq
                          /\ LastSeq(j) \in Nat /\ LastSeq(j) >= Len(j)
<1>1. Len(j) \in Nat /\ DOMAIN j = 1 .. Len(j)
  BY LenProperties
<1>2. \A i \in 1 .. Len(j) : j[i] \in Record
  BY ElementOfSeq
<1>3. \A rec \in Record : rec.seq \in Nat /\ rec.seq >= 1
  BY LimitsAssumption DEF Record, Revision
<1>4. ASSUME NEW i \in 1 .. Len(j)
      PROVE  /\ j[i].seq \in Nat /\ j[i].seq >= i
             /\ j[i].seq = j[1].seq + (i - 1)
             /\ (j[i].action = "baseline") <=> (i = 1)
  <2>1. j[i].seq = j[1].seq + (i - 1) /\ ((j[i].action = "baseline") <=> (i = 1))
    BY <1>1 DEF Gapless
  <2>2. 1 \in 1 .. Len(j)
    BY <1>1
  <2>3. j[1].seq \in Nat /\ j[1].seq >= 1 /\ j[i].seq \in Nat
    BY <1>2, <1>3, <2>2
  <2> QED
    BY <1>1, <2>1, <2>3
<1>5. ASSUME j # <<>>
      PROVE  Len(j) >= 1 /\ LastSeq(j) = j[Len(j)].seq /\ Len(j) \in 1 .. Len(j)
  BY <1>5, <1>1, EmptySeq DEF LastSeq, Last
<1> QED
  BY <1>1, <1>2, <1>4, <1>5

\* An appended record with the next number keeps a journal gapless.
LEMMA GaplessAppend ==
    ASSUME NEW j \in Seq(Record), j # <<>>, Gapless(j),
           NEW rec \in Record, rec.seq = LastSeq(j) + 1, rec.action # "baseline"
    PROVE  /\ Append(j, rec) \in Seq(Record)
           /\ Append(j, rec) # <<>>
           /\ Gapless(Append(j, rec))
           /\ Append(j, rec)[1] = j[1]
           /\ LastSeq(Append(j, rec)) = rec.seq
<1> DEFINE k == Append(j, rec)
           n == Len(j)
<1>1. n \in Nat /\ n >= 1 /\ LastSeq(j) = j[1].seq + (n - 1) /\ j[1].seq \in Nat
  BY GaplessNumbers
<1>2. /\ k \in Seq(Record) /\ Len(k) = n + 1
      /\ \A i \in 1 .. n : k[i] = j[i]
      /\ k[n + 1] = rec
  BY AppendProperties
<1>3. k # <<>> /\ DOMAIN k = 1 .. (n + 1)
  BY <1>1, <1>2, EmptySeq, LenProperties
<1> HIDE DEF k
<1>4. k[1] = j[1]
  BY <1>1, <1>2
<1>5. ASSUME NEW i \in 1 .. (n + 1)
      PROVE  k[i].seq = k[1].seq + (i - 1) /\ ((k[i].action = "baseline") <=> (i = 1))
  <2>1. CASE i \in 1 .. n
    <3>1. j[i].seq = j[1].seq + (i - 1) /\ ((j[i].action = "baseline") <=> (i = 1))
      BY <2>1, GaplessNumbers
    <3>2. k[i] = j[i]
      BY <1>2, <2>1
    <3> QED
      BY <1>4, <3>1, <3>2
  <2>2. CASE i = n + 1
    BY <1>1, <1>2, <1>4, <2>2
  <2> QED
    BY <1>1, <2>1, <2>2
<1>6. LastSeq(k) = rec.seq
  BY <1>2, <1>3 DEF LastSeq, Last
<1> QED
  BY <1>2, <1>3, <1>4, <1>5, <1>6 DEF k, Gapless

\* A gapless journal that loses its end stays gapless.
LEMMA GaplessPrefix ==
    ASSUME NEW j \in Seq(Record), Gapless(j), NEW n \in 0 .. Len(j)
    PROVE  LET k == SubSeq(j, 1, n)
           IN  k \in Seq(Record) /\ Gapless(k) /\ (k # <<>> => k[1] = j[1])
<1> DEFINE k == SubSeq(j, 1, n)
<1>1. /\ k \in Seq(Record) /\ Len(k) = n
      /\ \A i \in 1 .. n : k[i] = j[i]
  BY PrefixType
<1>2. DOMAIN k = 1 .. n /\ Len(j) \in Nat
  BY <1>1, LenProperties
<1> HIDE DEF k
<1>3. Gapless(k)
  BY <1>1, <1>2, GaplessNumbers DEF Gapless
<1>4. k # <<>> => k[1] = j[1]
  BY <1>1, <1>2, EmptySeq
<1> QED
  BY <1>1, <1>3, <1>4 DEF k

\* The journal that a session without one starts with.
LEMMA FirstJournal ==
    ASSUME NEW r \in Revision
    PROVE  LET j == <<BaselineRecord(r, r)>>
           IN  /\ j \in Seq(Record) /\ j # <<>> /\ Len(j) = 1
               /\ Gapless(j)
               /\ j[1].seq = r /\ j[1].base = r /\ LastSeq(j) = r
<1> DEFINE j == <<BaselineRecord(r, r)>>
<1>1. BaselineRecord(r, r) \in Record /\ r \in Nat
  BY RecordTypes, LimitsAssumption DEF Revision
<1>2. j \in Seq(Record) /\ j # <<>> /\ Len(j) = 1 /\ j[1] = BaselineRecord(r, r)
      /\ DOMAIN j = {1}
  BY <1>1
<1> HIDE DEF j
<1>3. j[1].seq = r /\ j[1].base = r /\ j[1].action = "baseline"
  BY <1>2, BaselineFields
<1>4. Gapless(j) /\ LastSeq(j) = r
  BY <1>1, <1>2, <1>3 DEF Gapless, LastSeq, Last
<1> QED
  BY <1>2, <1>3, <1>4 DEF j

-----------------------------------------------------------------------------
(* The compact history that a checkpoint writes: one line of entries, and  *)
(* the undos that lead back from its end.                                  *)

\* The entries of both stacks of s in the order in which they were made, and the
\* first k of them; the entries that were undone first.
LineLength(s) == Len(s.undo) + Len(s.redo)
LineEntry(s, i) == IF i <= Len(s.undo) THEN s.undo[i] ELSE s.redo[LineLength(s) + 1 - i]
LineTo(s, k) == [i \in 1 .. k |-> LineEntry(s, i)]
RedoTo(s, k) == [i \in 1 .. k |-> s.redo[i]]

\* The i-th record of the compact history of s.
CompactRecord(s, rec, i) ==
    \/ i = 1 /\ rec.action = "baseline"
    \/ /\ i \in 2 .. LineLength(s) + 1
       /\ rec.action = "edit" /\ rec.entry = LineEntry(s, i - 1)
    \/ /\ i \in LineLength(s) + 2 .. CompactSize(s)
       /\ rec.action = "undo" /\ rec.entry = s.redo[i - 1 - LineLength(s)]

\* The stacks u and r are those that k records behind the baseline of the compact
\* history of s lead to.
Retold(s, k, u, r) ==
    \/ k <= LineLength(s) /\ u = LineTo(s, k) /\ r = <<>>
    \/ /\ k > LineLength(s)
       /\ u = LineTo(s, 2 * LineLength(s) - k) /\ r = RedoTo(s, k - LineLength(s))

\* Record rec leads from session s to session t.
Advances(s, rec, t) ==
    /\ rec.seq = s.doc.revision + 1
    /\ Accepts(s.doc, Replayed(rec)) /\ StacksFit(s, rec)
    /\ t = AfterReplay(s, rec)

\* Entries that a record brings back, and tracks whose renaming is such an entry.
RecordEntry == {e \in Entry : CommandDecodes(e.forward) /\ CommandDecodes(e.inverse)}
RecordTrack == {t \in Track : t.name \in RecordNames}

\* All that a checkpoint or a step from session s may write can be read back.
SessionDecodes(s) ==
    /\ s.doc.tracks \in Seq(RecordTrack)
    /\ s.undo \in Seq(RecordEntry) /\ s.redo \in Seq(RecordEntry)

-----------------------------------------------------------------------------
(* The line of a history.                                                  *)

\* The entries on the line are entries of the two stacks.
LEMMA LineType ==
    ASSUME NEW s \in Session
    PROVE  /\ Len(s.undo) \in Nat /\ Len(s.redo) \in Nat
           /\ LineLength(s) \in Nat /\ LineLength(s) = Len(s.undo) + Len(s.redo)
           /\ CompactSize(s) = LineLength(s) + Len(s.redo) + 1
           /\ \A i \in 1 .. LineLength(s) : LineEntry(s, i) \in Entry
           /\ \A i \in 1 .. Len(s.undo) : s.undo[i] \in Entry
           /\ \A i \in 1 .. Len(s.redo) : s.redo[i] \in Entry
<1> DEFINE a == Len(s.undo)  b == Len(s.redo)
<1>1. a \in Nat /\ b \in Nat /\ s.undo \in Seq(Entry) /\ s.redo \in Seq(Entry)
  BY SessionFields, LenProperties
<1>2. /\ \A i \in 1 .. a : s.undo[i] \in Entry
      /\ \A i \in 1 .. b : s.redo[i] \in Entry
  BY <1>1, ElementOfSeq
<1>3. LineLength(s) = a + b /\ CompactSize(s) = a + 2 * b + 1
  BY <1>1, CompactSizeIs DEF LineLength
<1>4. ASSUME NEW i \in 1 .. a + b PROVE LineEntry(s, i) \in Entry
  <2>1. LineEntry(s, i) = IF i <= a THEN s.undo[i] ELSE s.redo[a + b + 1 - i]
    BY <1>3 DEF LineEntry
  <2> HIDE DEF a, b
  <2>2. i <= a => i \in 1 .. a
    BY <1>1
  <2>3. ~(i <= a) => a + b + 1 - i \in 1 .. b
    BY <1>1
  <2> QED
    BY <1>2, <2>1, <2>2, <2>3
<1> HIDE DEF a, b
<1>5. CompactSize(s) = LineLength(s) + b + 1
  BY <1>1, <1>3
<1>6. LineLength(s) \in Nat
  BY <1>1, <1>3
<1> QED
  BY <1>1, <1>2, <1>3, <1>4, <1>5, <1>6 DEF a, b

\* The first entries of the line, and of those that were undone, are sequences that
\* grow and shrink at their ends.
LEMMA LineToIs ==
    ASSUME NEW s \in Session, NEW k \in 0 .. LineLength(s)
    PROVE  /\ LineTo(s, k) \in Seq(Entry) /\ Len(LineTo(s, k)) = k
           /\ k = 0 => LineTo(s, k) = <<>>
           /\ k < LineLength(s) =>
                  Append(LineTo(s, k), LineEntry(s, k + 1)) = LineTo(s, k + 1)
           /\ k > 0 => /\ LineTo(s, k) # <<>> /\ Last(LineTo(s, k)) = LineEntry(s, k)
                       /\ Front(LineTo(s, k)) = LineTo(s, k - 1)
<1> DEFINE n == LineLength(s)
           line == LineTo(s, k)
<1>1. n \in Nat /\ \A i \in 1 .. n : LineEntry(s, i) \in Entry
  <2> HIDE DEF line
  <2> QED
    BY LineType
<1> HIDE DEF n
<1>2. line = [i \in 1 .. k |-> LineEntry(s, i)] /\ k \in 0 .. n
  BY DEF LineTo, n
<1>3. line \in Seq(Entry) /\ Len(line) = k /\ DOMAIN line = 1 .. k
  BY <1>1, <1>2
<1> HIDE DEF line
<1>4. k = 0 => line = <<>>
  BY <1>3, EmptySeq
<1>5. ASSUME k < n PROVE Append(line, LineEntry(s, k + 1)) = LineTo(s, k + 1)
  <2>1. LineEntry(s, k + 1) \in Entry
    BY <1>1, <1>2, <1>5
  <2> DEFINE more == Append(line, LineEntry(s, k + 1))
  <2>2. /\ more \in Seq(Entry) /\ Len(more) = k + 1
        /\ \A i \in 1 .. k : more[i] = line[i]
        /\ more[k + 1] = LineEntry(s, k + 1)
    BY <1>3, <2>1, AppendProperties
  <2> HIDE DEF more
  <2>3. \A i \in 1 .. k + 1 : more[i] = LineEntry(s, i)
    BY <1>2, <2>2
  <2>4. more = [i \in 1 .. k + 1 |-> LineEntry(s, i)]
    BY <1>2, <2>2, <2>3
  <2> QED
    BY <2>4 DEF more, LineTo
<1>6. ASSUME k > 0
      PROVE  line # <<>> /\ Last(line) = LineEntry(s, k) /\ Front(line) = LineTo(s, k - 1)
  <2>1. line # <<>>
    BY <1>2, <1>3, <1>6
  <2>2. Last(line) = LineEntry(s, k)
    BY <1>2, <1>3, <1>6 DEF Last
  <2> DEFINE less == Front(line)
  <2>3. /\ less \in Seq(Entry) /\ Len(less) = k - 1
        /\ \A i \in 1 .. k - 1 : less[i] = line[i]
    <3>1. k - 1 \in 0 .. Len(line) /\ less = SubSeq(line, 1, k - 1)
      BY <1>2, <1>3, <1>6 DEF Front
    <3> HIDE DEF less
    <3> QED
      BY <1>3, <3>1, PrefixType
  <2> HIDE DEF less
  <2>4. \A i \in 1 .. k - 1 : less[i] = LineEntry(s, i)
    BY <1>2, <2>3
  <2>5. less = [i \in 1 .. k - 1 |-> LineEntry(s, i)]
    BY <1>2, <1>6, <2>3, <2>4
  <2> QED
    BY <2>1, <2>2, <2>5 DEF less, LineTo
<1> QED
  BY <1>3, <1>4, <1>5, <1>6 DEF line, n

\* The first entries that were undone.
LEMMA RedoToIs ==
    ASSUME NEW s \in Session, NEW k \in 0 .. Len(s.redo)
    PROVE  /\ RedoTo(s, k) \in Seq(Entry) /\ Len(RedoTo(s, k)) = k
           /\ k = 0 => RedoTo(s, k) = <<>>
           /\ k < Len(s.redo) => Append(RedoTo(s, k), s.redo[k + 1]) = RedoTo(s, k + 1)
           /\ k = Len(s.redo) => RedoTo(s, k) = s.redo
<1> DEFINE n == Len(s.redo)
           done == RedoTo(s, k)
<1>1. n \in Nat /\ \A i \in 1 .. n : s.redo[i] \in Entry
  BY LineType
<1>2. s.redo \in Seq(Entry) /\ DOMAIN s.redo = 1 .. n
  BY SessionFields, LenProperties
<1> HIDE DEF n
<1>3. done = [i \in 1 .. k |-> s.redo[i]] /\ k \in 0 .. n
  BY DEF RedoTo, n
<1>4. done \in Seq(Entry) /\ Len(done) = k /\ DOMAIN done = 1 .. k
  BY <1>1, <1>3
<1> HIDE DEF done
<1>5. k = 0 => done = <<>>
  BY <1>4, EmptySeq
<1>6. ASSUME k < n PROVE Append(done, s.redo[k + 1]) = RedoTo(s, k + 1)
  <2>1. s.redo[k + 1] \in Entry
    BY <1>1, <1>3, <1>6
  <2> DEFINE more == Append(done, s.redo[k + 1])
  <2>2. /\ more \in Seq(Entry) /\ Len(more) = k + 1
        /\ \A i \in 1 .. k : more[i] = done[i]
        /\ more[k + 1] = s.redo[k + 1]
    BY <1>4, <2>1, AppendProperties
  <2> HIDE DEF more
  <2>3. \A i \in 1 .. k + 1 : more[i] = s.redo[i]
    BY <1>3, <2>2
  <2>4. more = [i \in 1 .. k + 1 |-> s.redo[i]]
    BY <1>3, <2>2, <2>3
  <2> QED
    BY <2>4 DEF more, RedoTo
<1>7. k = n => done = s.redo
  BY <1>2, <1>3
<1> QED
  BY <1>4, <1>5, <1>6, <1>7 DEF done, n

\* The whole compact history leads to the stacks it was made from.
LEMMA RetoldEnd ==
    ASSUME NEW s \in Session, NEW u, NEW r, Retold(s, CompactSize(s) - 1, u, r)
    PROVE  u = s.undo /\ r = s.redo
<1> DEFINE a == Len(s.undo)  b == Len(s.redo)
<1>1. /\ a \in Nat /\ b \in Nat /\ LineLength(s) = a + b
      /\ CompactSize(s) = (a + b) + b + 1
  BY LineType
<1>2. s.undo \in Seq(Entry) /\ DOMAIN s.undo = 1 .. a
  BY SessionFields, LenProperties
<1>3. LineTo(s, a) = s.undo
  <2>1. \A i \in 1 .. a : LineEntry(s, i) = s.undo[i]
    BY <1>1 DEF LineEntry
  <2>2. LineTo(s, a) = [i \in 1 .. a |-> s.undo[i]]
    BY <2>1 DEF LineTo
  <2> QED
    BY <1>2, <2>2
<1>4. RedoTo(s, b) = s.redo
  BY <1>1, RedoToIs
<1>5. b = 0 => s.redo = <<>>
  BY SessionFields, EmptySeq
<1> HIDE DEF a, b
<1>6. CASE b = 0
  <2>1. CompactSize(s) - 1 = a /\ LineLength(s) = a /\ a <= LineLength(s)
    BY <1>1, <1>6
  <2> QED
    BY <1>1, <1>3, <1>5, <1>6, <2>1 DEF Retold
<1>7. CASE b > 0
  <2>1. /\ CompactSize(s) - 1 > LineLength(s)
        /\ ~(CompactSize(s) - 1 <= LineLength(s))
        /\ 2 * LineLength(s) - (CompactSize(s) - 1) = a
        /\ CompactSize(s) - 1 - LineLength(s) = b
    BY <1>1, <1>7
  <2> QED
    BY <1>3, <1>4, <2>1 DEF Retold
<1> QED
  BY <1>1, <1>6, <1>7

\* The next record of a compact history fits on the stacks and leads on along it.
LEMMA RetoldStep ==
    ASSUME NEW s \in Session, NEW k \in Nat, k + 2 <= CompactSize(s),
           NEW rec, CompactRecord(s, rec, k + 2),
           NEW p, Retold(s, k, p.undo, p.redo)
    PROVE  LET t == AfterReplay(p, rec)
           IN  rec.action # "baseline" /\ StacksFit(p, rec)
               /\ Retold(s, k + 1, t.undo, t.redo)
<1> DEFINE n == LineLength(s)  b == Len(s.redo)  a == Len(s.undo)
<1>1. a \in Nat /\ b \in Nat /\ n \in Nat /\ n = a + b /\ CompactSize(s) = n + b + 1
  BY LineType
<1> HIDE DEF n, a, b
<1>2. CASE k + 2 <= n + 1
  <2>1. rec.action = "edit" /\ rec.entry = LineEntry(s, k + 1)
    <3>1. k + 2 # 1 /\ ~(k + 2 \in n + 2 .. CompactSize(s)) /\ k + 2 - 1 = k + 1
      BY <1>1, <1>2
    <3> QED
      BY <3>1 DEF CompactRecord, n
  <2>2. p.undo = LineTo(s, k) /\ k \in 0 .. n /\ k < n /\ k + 1 <= n
    BY <1>1, <1>2 DEF Retold, n
  <2>3. Append(LineTo(s, k), LineEntry(s, k + 1)) = LineTo(s, k + 1)
    BY <2>2, LineToIs DEF n
  <2>4. AfterReplay(p, rec).undo = LineTo(s, k + 1) /\ AfterReplay(p, rec).redo = <<>>
    BY <2>1, <2>2, <2>3 DEF AfterReplay
  <2> QED
    BY <2>1, <2>2, <2>4 DEF Retold, StacksFit, n
<1>3. CASE k + 2 > n + 1
  <2>1. PICK i \in 0 .. b : /\ i = k - n /\ i < b /\ n - i \in 0 .. n /\ n - i > 0
                            /\ n - i > a /\ n - i = 2 * n - k
    <3>1. k - n \in 0 .. b /\ k - n < b
      BY <1>1, <1>3
    <3> QED
      BY <1>1, <3>1
  <2>2. rec.action = "undo" /\ rec.entry = s.redo[i + 1]
    <3>1. PICK m \in Nat : m = k + 2
      OBVIOUS
    <3>2. m # 1 /\ ~(m \in 2 .. n + 1) /\ m - 1 - n = i + 1
      BY <1>1, <1>3, <2>1, <3>1
    <3>3. CompactRecord(s, rec, m)
      BY <3>1
    <3>4. rec.action = "undo" /\ rec.entry = s.redo[m - 1 - n]
      BY <3>2, <3>3 DEF CompactRecord, n
    <3> QED
      BY <3>2, <3>4
  <2>3. p.undo = LineTo(s, n - i) /\ p.redo = RedoTo(s, i)
    <3>1. CASE k > n
      BY <1>1, <2>1, <3>1 DEF Retold, n
    <3>2. CASE k = n
      <4>1. n - i = n /\ i = 0 /\ p.undo = LineTo(s, n) /\ p.redo = <<>>
        BY <1>1, <2>1, <3>2 DEF Retold, n
      <4>2. RedoTo(s, 0) = <<>>
        BY <1>1, RedoToIs DEF b
      <4> QED
        BY <4>1, <4>2
    <3> QED
      BY <1>1, <1>3, <3>1, <3>2
  <2>4. LineEntry(s, n - i) = s.redo[i + 1]
    <3>1. ~(n - i <= a) /\ n + 1 - (n - i) = i + 1
      BY <1>1, <2>1
    <3> QED
      BY <3>1 DEF LineEntry, n, a
  <2>5. /\ p.undo # <<>> /\ Last(p.undo) = rec.entry
        /\ Front(p.undo) = LineTo(s, n - i - 1)
    BY <2>1, <2>2, <2>3, <2>4, LineToIs DEF n
  <2>6. Append(p.redo, rec.entry) = RedoTo(s, i + 1)
    BY <2>1, <2>2, <2>3, RedoToIs DEF b
  <2>7. /\ AfterReplay(p, rec).undo = LineTo(s, n - i - 1)
        /\ AfterReplay(p, rec).redo = RedoTo(s, i + 1)
    BY <2>2, <2>5, <2>6 DEF AfterReplay
  <2>8. Retold(s, k + 1, AfterReplay(p, rec).undo, AfterReplay(p, rec).redo)
    <3>1. Retold(s, k + 1, LineTo(s, n - i - 1), RedoTo(s, i + 1))
      <4>1. PICK m \in Nat : m = k + 1
        OBVIOUS
      <4>2. m > n /\ 2 * n - m = n - i - 1 /\ m - n = i + 1
        BY <1>1, <2>1, <4>1
      <4>3. Retold(s, m, LineTo(s, n - i - 1), RedoTo(s, i + 1))
        BY <4>2 DEF Retold, n
      <4> QED
        BY <4>1, <4>3
    <3> QED
      BY <2>7, <3>1
  <2> QED
    BY <2>2, <2>5, <2>8 DEF StacksFit
<1> QED
  BY <1>1, <1>2, <1>3

-----------------------------------------------------------------------------
(* Steps and their records.                                                *)

\* A command that is accepted and decodes leaves tracks whose names decode.
LEMMA EditedDecodes ==
    ASSUME NEW d \in Document, NEW c \in Command, Accepts(d, c),
           d.tracks \in Seq(RecordTrack)
    PROVE  Edited(d, c).tracks \in Seq(RecordTrack)
<1>1. Edited(d, c).tracks = EditedTracks(d, c)
  BY DEF Edited
<1>2. CASE c.type = "setTempo"
  BY <1>1, <1>2 DEF EditedTracks
<1>3. CASE c.type = "addTrack"
  <2>1. [id |-> c.id, name |-> c.value] \in RecordTrack
    BY <1>3, LimitsAssumption, ValuesAssumption DEF Accepts, RecordTrack, Track, StableId
  <2> QED
    BY <1>1, <1>3, <2>1 DEF EditedTracks
<1>4. CASE c.type = "renameTrack"
  <2> DEFINE p == PlaceOf(d, c.id)
  <2>1. p \in 1 .. Len(d.tracks) /\ d.tracks[p] \in Track /\ c.value \in RecordNames
    BY <1>4, PlaceOfTrack, ValuesAssumption DEF Accepts
  <2>2. c.value \in Names
    BY <2>1, ValuesAssumption
  <2>3. [d.tracks[p] EXCEPT !.name = c.value] \in RecordTrack
    BY <2>1, <2>2 DEF RecordTrack, Track
  <2>4. [d.tracks EXCEPT ![p] = [d.tracks[p] EXCEPT !.name = c.value]] \in Seq(RecordTrack)
    BY <2>1, <2>3, ExceptSeq
  <2>5. EditedTracks(d, c) = [d.tracks EXCEPT ![p].name = c.value]
    BY <1>4 DEF EditedTracks
  <2> QED
    BY <1>1, <2>4, <2>5
<1>5. CASE c.type = "removeTrack"
  <2>1. PlaceOf(d, c.id) \in 1 .. Len(d.tracks)
    BY <1>5, PlaceOfTrack DEF Accepts
  <2> QED
    BY <1>1, <1>5, <2>1, RemoveAtType DEF EditedTracks
<1> QED
  BY <1>2, <1>3, <1>4, <1>5 DEF Accepts

\* What commitEdit records decodes.
LEMMA EntryForDecodes ==
    ASSUME NEW d \in Document, NEW c \in ClientCommands(d), Accepts(d, c),
           d.tracks \in Seq(RecordTrack)
    PROVE  EntryFor(d, c) \in RecordEntry
<1>1. c \in Command /\ InverseOf(d, c) \in Command
  BY ClientCommandType, InverseType
<1>2. CommandDecodes(c)
  BY ValuesAssumption DEF Accepts, CommandDecodes
<1>3. CommandDecodes(InverseOf(d, c))
  <2>1. CASE c.type \in {"setTempo", "addTrack"}
    BY <2>1 DEF InverseOf, SetTempo, RemoveTrack, CommandDecodes
  <2>2. CASE c.type \in {"renameTrack", "removeTrack"}
    <3>1. PlaceOf(d, c.id) \in 1 .. Len(d.tracks)
      BY <2>2, PlaceOfTrack DEF Accepts
    <3>2. d.tracks[PlaceOf(d, c.id)] \in RecordTrack
      BY <3>1, ElementOfSeq
    <3>3. InverseOf(d, c) = RenameTrack(c.id, d.tracks[PlaceOf(d, c.id)].name)
      BY <2>2 DEF InverseOf
    <3> QED
      BY <3>2, <3>3 DEF RecordTrack, RenameTrack, CommandDecodes
  <2> QED
    BY <2>1, <2>2 DEF Accepts
<1> QED
  BY <1>1, <1>2, <1>3 DEF EntryFor, Entry, RecordEntry

\* A live step is what the replay of its record does, and everything it leaves and
\* writes can be read back.
StepOf(s, rec, t) ==
    /\ Advances(s, rec, t)
    /\ SessionDecodes(s) => SessionDecodes(t) /\ Decodes(rec)

\* commitEdit: the record of an edit replays as the edit.
LEMMA EditIsStep ==
    ASSUME NEW s \in Session, NEW c \in ClientCommands(s.doc), CanEdit(s, c)
    PROVE  StepOf(s, EditRecord(s, c), AfterEdit(s, c))
<1>1. s.doc \in Document /\ s.doc.revision \in Nat /\ c \in Command /\ Accepts(s.doc, c)
  BY SessionFields, DocumentFields, ClientCommandType, LimitsAssumption
  DEF CanEdit, Revision
<1> DEFINE e == EntryFor(s.doc, c)
           rec == EditRecord(s, c)
<1>2. rec.seq = s.doc.revision + 1 /\ rec.action = "edit" /\ rec.entry = e /\ e.forward = c
  BY DEF EditRecord, ActionRecord, EntryFor
<1> HIDE DEF rec
<1>3. Replayed(rec) = c /\ StacksFit(s, rec)
  BY <1>2 DEF Replayed, StacksFit
<1>4. AfterEdit(s, c) = AfterReplay(s, rec)
  BY <1>1, <1>2, <1>3 DEF AfterEdit, AfterReplay
<1>5. ASSUME SessionDecodes(s) PROVE SessionDecodes(AfterEdit(s, c)) /\ Decodes(rec)
  <2>1. e \in RecordEntry
    BY <1>1, <1>5, EntryForDecodes DEF SessionDecodes
  <2>2. Edited(s.doc, c).tracks \in Seq(RecordTrack)
    BY <1>1, <1>5, EditedDecodes DEF SessionDecodes
  <2>3. Append(s.undo, e) \in Seq(RecordEntry) /\ <<>> \in Seq(RecordEntry)
    BY <1>5, <2>1 DEF SessionDecodes
  <2>4. SessionDecodes(AfterEdit(s, c))
    BY <2>2, <2>3 DEF SessionDecodes, AfterEdit
  <2> QED
    BY <1>2, <2>1, <2>4 DEF Decodes, RecordEntry
<1> QED
  BY <1>1, <1>2, <1>3, <1>4, <1>5 DEF StepOf, Advances, rec

\* commitHistoryAction: the record of an undo replays as the undo ...
LEMMA UndoIsStep ==
    ASSUME NEW s \in Session, CanUndo(s)
    PROVE  StepOf(s, UndoRecord(s), AfterUndo(s))
<1> DEFINE e == Last(s.undo)
           rec == UndoRecord(s)
<1>1. s.doc \in Document /\ s.doc.revision \in Nat /\ s.undo # <<>> /\ e \in Entry
      /\ Accepts(s.doc, e.inverse)
  BY SessionFields, DocumentFields, UndoAdvances, LimitsAssumption DEF CanUndo, Revision
<1>2. rec.seq = s.doc.revision + 1 /\ rec.action = "undo" /\ rec.entry = e
  BY DEF UndoRecord, ActionRecord
<1> HIDE DEF rec, e
<1>3. Replayed(rec) = e.inverse /\ StacksFit(s, rec)
  BY <1>1, <1>2 DEF Replayed, StacksFit, e
<1>4. AfterUndo(s) = AfterReplay(s, rec)
  <2>1. rec.seq > s.doc.revision
    BY <1>1, <1>2
  <2> QED
    BY <1>2, <1>3, <2>1 DEF AfterUndo, AfterReplay, e
<1>5. ASSUME SessionDecodes(s) PROVE SessionDecodes(AfterUndo(s)) /\ Decodes(rec)
  <2>1. e \in RecordEntry /\ Front(s.undo) \in Seq(RecordEntry)
    BY <1>1, <1>5, EndsType DEF SessionDecodes, e
  <2>2. Edited(s.doc, e.inverse).tracks \in Seq(RecordTrack)
    BY <1>1, <1>5, EditedDecodes DEF SessionDecodes, Entry
  <2>3. Append(s.redo, e) \in Seq(RecordEntry)
    BY <1>5, <2>1 DEF SessionDecodes
  <2>4. SessionDecodes(AfterUndo(s))
    BY <2>1, <2>2, <2>3 DEF SessionDecodes, AfterUndo, e
  <2> QED
    BY <1>2, <2>1, <2>4 DEF Decodes, RecordEntry
<1> QED
  BY <1>1, <1>2, <1>3, <1>4, <1>5 DEF StepOf, Advances, rec

\* ... and that of a redo as the redo.
LEMMA RedoIsStep ==
    ASSUME NEW s \in Session, CanRedo(s)
    PROVE  StepOf(s, RedoRecord(s), AfterRedo(s))
<1> DEFINE e == Last(s.redo)
           rec == RedoRecord(s)
<1>1. s.doc \in Document /\ s.doc.revision \in Nat /\ s.redo # <<>> /\ e \in Entry
      /\ Accepts(s.doc, e.forward)
  BY SessionFields, DocumentFields, RedoAdvances, LimitsAssumption DEF CanRedo, Revision
<1>2. rec.seq = s.doc.revision + 1 /\ rec.action = "redo" /\ rec.entry = e
  BY DEF RedoRecord, ActionRecord
<1> HIDE DEF rec, e
<1>3. Replayed(rec) = e.forward /\ StacksFit(s, rec)
  BY <1>1, <1>2 DEF Replayed, StacksFit, e
<1>4. AfterRedo(s) = AfterReplay(s, rec)
  <2>1. rec.seq > s.doc.revision
    BY <1>1, <1>2
  <2> QED
    BY <1>2, <1>3, <2>1 DEF AfterRedo, AfterReplay, e
<1>5. ASSUME SessionDecodes(s) PROVE SessionDecodes(AfterRedo(s)) /\ Decodes(rec)
  <2>1. e \in RecordEntry /\ Front(s.redo) \in Seq(RecordEntry)
    BY <1>1, <1>5, EndsType DEF SessionDecodes, e
  <2>2. Edited(s.doc, e.forward).tracks \in Seq(RecordTrack)
    BY <1>1, <1>5, EditedDecodes DEF SessionDecodes, Entry
  <2>3. Append(s.undo, e) \in Seq(RecordEntry)
    BY <1>5, <2>1 DEF SessionDecodes
  <2>4. SessionDecodes(AfterRedo(s))
    BY <2>1, <2>2, <2>3 DEF SessionDecodes, AfterRedo, e
  <2> QED
    BY <1>2, <2>1, <2>4 DEF Decodes, RecordEntry
<1> QED
  BY <1>1, <1>2, <1>3, <1>4, <1>5 DEF StepOf, Advances, rec

-----------------------------------------------------------------------------
(* Checkpoints.                                                            *)

\* The history of s as one line: its undo stack, then its redo stack from the bottom.
LEMMA LineIs ==
    ASSUME NEW s \in Session
    PROVE  /\ s.undo \o Reverse(s.redo) \in Seq(Entry)
           /\ Len(s.undo \o Reverse(s.redo)) = LineLength(s)
           /\ \A i \in 1 .. LineLength(s) : (s.undo \o Reverse(s.redo))[i] = LineEntry(s, i)
<1> DEFINE line == s.undo \o Reverse(s.redo)
           back == Reverse(s.redo)
           a == Len(s.undo)
           b == Len(s.redo)
           n == LineLength(s)
<1>1. a \in Nat /\ b \in Nat /\ n \in Nat /\ n = a + b
  <2> HIDE DEF line, back
  <2> QED
    BY LineType
<1>2. s.undo \in Seq(Entry) /\ back \in Seq(Entry) /\ Len(back) = b
  BY SessionFields, ReverseType
<1>3. \A i \in 1 .. b : back[i] = s.redo[(b - i) + 1]
  BY DEF Reverse
<1> HIDE DEF back, n
<1>4. /\ line \in Seq(Entry) /\ Len(line) = a + Len(back)
      /\ \A i \in 1 .. a + Len(back) : line[i] = IF i <= a THEN s.undo[i] ELSE back[i - a]
  <2>1. line = s.undo \o back
    BY DEF back
  <2> HIDE DEF line
  <2> QED
    BY ONLY <1>2, <2>1, ConcatProperties
<1> HIDE DEF line, a, b
<1>5. ASSUME NEW i \in 1 .. n PROVE line[i] = LineEntry(s, i)
  <2>1. LineEntry(s, i) = IF i <= a THEN s.undo[i] ELSE s.redo[n + 1 - i]
    BY DEF LineEntry, a, n
  <2>2. line[i] = IF i <= a THEN s.undo[i] ELSE back[i - a]
    BY <1>1, <1>2, <1>4
  <2>3. ASSUME ~(i <= a) PROVE back[i - a] = s.redo[n + 1 - i]
    <3>1. i - a \in 1 .. b /\ (b - (i - a)) + 1 = n + 1 - i
      BY <1>1, <2>3
    <3> QED
      BY <1>3, <3>1
  <2> QED
    BY <2>1, <2>2, <2>3
<1> QED
  BY <1>1, <1>2, <1>4, <1>5 DEF line, n, back

\* The records that a checkpoint at revision r writes.
LEMMA CompactJournalRecords ==
    ASSUME NEW s \in Session, NEW r \in Revision, CompactSize(s) <= r
    PROVE  LET j == CompactJournal(s, r)
               first == r + 1 - CompactSize(s)
           IN  /\ j \in Seq(Record) /\ Len(j) = CompactSize(s) /\ first \in 1 .. r
               /\ j[1] = BaselineRecord(first, r)
               /\ \A i \in 2 .. LineLength(s) + 1 :
                     j[i] = ActionRecord(first + (i - 1), "edit", LineEntry(s, i - 1))
               /\ \A i \in LineLength(s) + 2 .. CompactSize(s) :
                     j[i] = ActionRecord(first + (i - 1), "undo",
                                         s.redo[i - 1 - LineLength(s)])
<1> DEFINE line == s.undo \o Reverse(s.redo)
           first == r + 1 - CompactSize(s)
           edits == [i \in 1 .. Len(line) |-> ActionRecord(first + i, "edit", line[i])]
           undos == [i \in 1 .. Len(s.redo) |->
                        ActionRecord(first + Len(line) + i, "undo", s.redo[i])]
           head == <<BaselineRecord(first, r)>>
           n == LineLength(s)
           b == Len(s.redo)
           size == CompactSize(s)
<1>1. CompactJournal(s, r) = head \o edits \o undos
  BY DEF CompactJournal
<1>2. Len(line) = n /\ \A i \in 1 .. n : line[i] = LineEntry(s, i)
  <2> HIDE DEF edits, undos, head, first
  <2> QED
    BY LineIs
<1> HIDE DEF line
<1>3. /\ b \in Nat /\ n \in Nat /\ size = n + b + 1
      /\ \A i \in 1 .. n : LineEntry(s, i) \in Entry
      /\ \A i \in 1 .. b : s.redo[i] \in Entry
  <2> HIDE DEF edits, undos, head, first
  <2> QED
    BY LineType
<1>4. /\ r \in 1 .. MaxRevision /\ MaxRevision \in Nat
      /\ "edit" \in Actions /\ "undo" \in Actions
  BY LimitsAssumption DEF Revision, Actions
<1>5. first = r + 1 - size /\ size <= r
  OBVIOUS
<1>6. /\ edits = [i \in 1 .. n |-> ActionRecord(first + i, "edit", LineEntry(s, i))]
      /\ undos = [i \in 1 .. b |-> ActionRecord(first + n + i, "undo", s.redo[i])]
  BY <1>2
<1> HIDE DEF n, b, size, first, edits, undos
<1>7. first \in 1 .. r /\ first + n + b = r
  BY <1>3, <1>4, <1>5
<1>8. edits \in Seq(Record) /\ Len(edits) = n
  <2>1. \A i \in 1 .. n : ActionRecord(first + i, "edit", LineEntry(s, i)) \in Record
    <3>1. \A i \in 1 .. n : first + i \in Revision
      BY <1>3, <1>4, <1>7 DEF Revision
    <3> QED
      BY <1>3, <1>4, <3>1, RecordTypes
  <2> QED
    BY <1>3, <1>6, <2>1
<1>9. undos \in Seq(Record) /\ Len(undos) = b
  <2>1. \A i \in 1 .. b : ActionRecord(first + n + i, "undo", s.redo[i]) \in Record
    <3>1. \A i \in 1 .. b : first + n + i \in Revision
      BY <1>3, <1>4, <1>7 DEF Revision
    <3> QED
      BY <1>3, <1>4, <3>1, RecordTypes
  <2> QED
    BY <1>3, <1>6, <2>1
<1>10. head \in Seq(Record) /\ Len(head) = 1 /\ head[1] = BaselineRecord(first, r)
  <2>1. first \in Revision
    BY <1>4, <1>7 DEF Revision
  <2> QED
    BY <2>1, RecordTypes
<1> HIDE DEF head
<1> DEFINE front == head \o edits
           j == front \o undos
<1>11. /\ front \in Seq(Record) /\ Len(front) = 1 + n
       /\ \A i \in 1 .. 1 + n : front[i] = IF i <= 1 THEN head[i] ELSE edits[i - 1]
  <2>1. /\ front \in Seq(Record)
        /\ Len(front) = Len(head) + Len(edits)
        /\ \A i \in 1 .. Len(head) + Len(edits) :
               front[i] = IF i <= Len(head) THEN head[i] ELSE edits[i - Len(head)]
    BY ONLY <1>8, <1>10, ConcatProperties
  <2> HIDE DEF front
  <2> QED
    BY <1>8, <1>10, <2>1
<1> HIDE DEF front
<1>12. /\ j \in Seq(Record) /\ Len(j) = size
       /\ \A i \in 1 .. size :
              j[i] = IF i <= 1 + n THEN front[i] ELSE undos[i - (1 + n)]
  <2>1. /\ j \in Seq(Record)
        /\ Len(j) = Len(front) + Len(undos)
        /\ \A i \in 1 .. Len(front) + Len(undos) :
               j[i] = IF i <= Len(front) THEN front[i] ELSE undos[i - Len(front)]
    BY ONLY <1>9, <1>11, ConcatProperties
  <2>2. (1 + n) + b = size
    BY <1>3
  <2> HIDE DEF j
  <2> QED
    BY <1>9, <1>11, <2>1, <2>2
<1> HIDE DEF j
<1>13. j[1] = BaselineRecord(first, r)
  <2>1. 1 \in 1 .. size /\ 1 <= 1 + n /\ 1 \in 1 .. 1 + n
    BY <1>3
  <2> QED
    BY <1>10, <1>11, <1>12, <2>1
<1>14. ASSUME NEW i \in 2 .. n + 1
       PROVE  j[i] = ActionRecord(first + (i - 1), "edit", LineEntry(s, i - 1))
  <2>1. i \in 1 .. size /\ i \in 1 .. 1 + n /\ i <= 1 + n /\ ~(i <= 1) /\ i - 1 \in 1 .. n
    BY <1>3
  <2>2. j[i] = edits[i - 1]
    BY <1>11, <1>12, <2>1
  <2> QED
    BY <1>6, <2>1, <2>2
<1>15. ASSUME NEW i \in n + 2 .. size
       PROVE  j[i] = ActionRecord(first + (i - 1), "undo", s.redo[i - 1 - n])
  <2>1. PICK k \in 1 .. b : k = i - (1 + n) /\ k = i - 1 - n
    BY <1>3
  <2>2. i \in 1 .. size /\ ~(i <= 1 + n) /\ first + n + k = first + (i - 1)
    BY <1>3, <1>7, <2>1
  <2>3. j[i] = undos[k]
    BY <1>12, <2>1, <2>2
  <2>4. undos[k] = ActionRecord(first + n + k, "undo", s.redo[k])
    BY <1>6
  <2> QED
    BY <2>1, <2>2, <2>3, <2>4
<1>16. CompactJournal(s, r) = j
  BY <1>1 DEF j, front
<1> QED
  BY <1>7, <1>12, <1>13, <1>14, <1>15, <1>16 DEF first, n, size

\* It is a gapless journal that starts with a baseline at r and ends at r ...
LEMMA CompactJournalShape ==
    ASSUME NEW s \in Session, NEW r \in Revision, CompactSize(s) <= r
    PROVE  LET j == CompactJournal(s, r)
           IN  /\ j \in Seq(Record) /\ j # <<>>
               /\ Gapless(j)
               /\ j[1].base = r /\ j[1].seq <= r
               /\ LastSeq(j) = r
<1> DEFINE j == CompactJournal(s, r)
           first == r + 1 - CompactSize(s)
           n == LineLength(s)
           size == CompactSize(s)
<1>1. /\ j \in Seq(Record) /\ Len(j) = size /\ first \in 1 .. r
      /\ j[1] = BaselineRecord(first, r)
      /\ \A i \in 2 .. n + 1 :
            j[i] = ActionRecord(first + (i - 1), "edit", LineEntry(s, i - 1))
      /\ \A i \in n + 2 .. size :
            j[i] = ActionRecord(first + (i - 1), "undo", s.redo[i - 1 - n])
  BY ONLY CompactJournalRecords, s \in Session, r \in Revision, CompactSize(s) <= r
<1>2. n \in Nat /\ size \in Nat \ {0} /\ r \in Nat /\ first + (size - 1) = r
  <2>1. n \in Nat /\ size \in Nat \ {0}
    BY LineType, CompactSizeType
  <2>2. r \in Nat /\ first = r + 1 - size
    BY LimitsAssumption DEF Revision
  <2> HIDE DEF n, size, first
  <2> QED
    BY <2>1, <2>2
<1> HIDE DEF j, first, n, size
<1>3. ASSUME NEW i \in 1 .. size
      PROVE  j[i].seq = first + (i - 1) /\ ((j[i].action = "baseline") <=> (i = 1))
  <2>1. CASE i = 1
    BY <1>1, <2>1, BaselineFields
  <2>2. CASE i \in 2 .. n + 1
    BY <1>1, <2>2, ActionFields DEF Actions
  <2>3. CASE i \in n + 2 .. size
    <3>1. j[i] = ActionRecord(first + (i - 1), "undo", s.redo[i - 1 - n])
      BY <1>1, <2>3
    <3>2. i # 1
      BY <1>2, <2>3
    <3> QED
      BY <3>1, <3>2, ActionFields DEF Actions
  <2> QED
    BY <1>2, <2>1, <2>2, <2>3
<1>4. DOMAIN j = 1 .. size /\ j # <<>> /\ 1 \in 1 .. size /\ size \in 1 .. size
  BY <1>1, <1>2, LenProperties, EmptySeq
<1>5. Gapless(j)
  BY <1>3, <1>4, <1>1, BaselineFields DEF Gapless
<1>6. LastSeq(j) = r
  BY <1>1, <1>2, <1>3, <1>4 DEF LastSeq, Last
<1>7. j[1].base = r /\ j[1].seq <= r
  BY <1>1, <1>2, BaselineFields
<1> QED
  BY <1>1, <1>4, <1>5, <1>6, <1>7 DEF j

\* ... it is the compact history of the session, and what it writes decodes.
LEMMA CompactJournalIsCompact ==
    ASSUME NEW s \in Session, NEW r \in Revision, CompactSize(s) <= r
    PROVE  LET j == CompactJournal(s, r)
           IN  /\ Len(j) = CompactSize(s) /\ DOMAIN j = 1 .. CompactSize(s)
               /\ j[1].seq = r + 1 - CompactSize(s)
               /\ \A i \in 1 .. CompactSize(s) : CompactRecord(s, j[i], i)
               /\ SessionDecodes(s) => \A i \in 1 .. CompactSize(s) : Decodes(j[i])
<1> DEFINE j == CompactJournal(s, r)
           first == r + 1 - CompactSize(s)
           n == LineLength(s)
           size == CompactSize(s)
<1>1. /\ j \in Seq(Record) /\ Len(j) = size
      /\ j[1] = BaselineRecord(first, r)
      /\ \A i \in 2 .. n + 1 :
            j[i] = ActionRecord(first + (i - 1), "edit", LineEntry(s, i - 1))
      /\ \A i \in n + 2 .. size :
            j[i] = ActionRecord(first + (i - 1), "undo", s.redo[i - 1 - n])
  BY ONLY CompactJournalRecords, s \in Session, r \in Revision, CompactSize(s) <= r
<1>2. n \in Nat /\ size \in Nat \ {0} /\ size = n + Len(s.redo) + 1 /\ Len(s.redo) \in Nat
  BY LineType, CompactSizeType
<1>3. DOMAIN j = 1 .. size /\ j[1].seq = first
  BY <1>1, LenProperties, BaselineFields
<1> HIDE DEF j, first, n, size
<1>4. ASSUME NEW i \in 1 .. size
      PROVE  /\ CompactRecord(s, j[i], i)
             /\ SessionDecodes(s) => Decodes(j[i])
  <2>1. CASE i = 1
    BY <1>1, <2>1 DEF BaselineRecord, CompactRecord, Decodes
  <2>2. CASE i \in 2 .. n + 1
    <3>1. j[i].action = "edit" /\ j[i].entry = LineEntry(s, i - 1)
      <4>1. j[i] = ActionRecord(first + (i - 1), "edit", LineEntry(s, i - 1))
        BY <1>1, <2>2
      <4> QED
        BY <4>1 DEF ActionRecord
    <3>2. ASSUME SessionDecodes(s) PROVE LineEntry(s, i - 1) \in RecordEntry
      <4> DEFINE a == Len(s.undo)
      <4>1. a \in Nat /\ n = a + Len(s.redo)
        BY LineType DEF n
      <4> HIDE DEF a
      <4>2. LineEntry(s, i - 1) = IF i - 1 <= a THEN s.undo[i - 1] ELSE s.redo[n + 1 - (i - 1)]
        BY DEF LineEntry, a, n
      <4>3. i - 1 <= a => i - 1 \in 1 .. a
        BY <1>2, <2>2, <4>1
      <4>4. ~(i - 1 <= a) => n + 1 - (i - 1) \in 1 .. Len(s.redo)
        BY <1>2, <2>2, <4>1
      <4>5. /\ \A k \in 1 .. a : s.undo[k] \in RecordEntry
            /\ \A k \in 1 .. Len(s.redo) : s.redo[k] \in RecordEntry
        BY <3>2, ElementOfSeq DEF SessionDecodes, a
      <4> QED
        BY <4>2, <4>3, <4>4, <4>5
    <3> QED
      BY <2>2, <3>1, <3>2 DEF CompactRecord, Decodes, RecordEntry, n
  <2>3. CASE i \in n + 2 .. size
    <3>1. j[i].action = "undo" /\ j[i].entry = s.redo[i - 1 - n]
      <4>1. j[i] = ActionRecord(first + (i - 1), "undo", s.redo[i - 1 - n])
        BY <1>1, <2>3
      <4> QED
        BY <4>1 DEF ActionRecord
    <3>2. i - 1 - n \in 1 .. Len(s.redo)
      BY <1>2, <2>3
    <3>3. SessionDecodes(s) => s.redo[i - 1 - n] \in RecordEntry
      BY <3>2, ElementOfSeq DEF SessionDecodes
    <3> QED
      BY <2>3, <3>1, <3>3 DEF CompactRecord, Decodes, RecordEntry, n, size
  <2> QED
    BY <1>2, <2>1, <2>2, <2>3
<1> QED
  BY <1>1, <1>3, <1>4 DEF j, first, size

-----------------------------------------------------------------------------
(* The inductive invariant.                                                *)

\* A backup that can be read is named after the revision it holds.
BackupNames ==
    \A r \in DOMAIN backups : Readable(backups[r]) => backups[r].revision = r

\* The journal, also when records have been lost from its end; only its
\* baseline may then lie outside it.
JournalOK ==
    /\ Gapless(journal)
    /\ journal # <<>> => journal[1].seq <= journal[1].base
    /\ (journal # <<>> /\ JournalIntact) => journal[1].base <= LastSeq(journal)

\* A replay has grown the history by at most one entry per record after the
\* baseline, and the document stands at the last record met, or still at the
\* snapshot if that is newer.
ReplayOK ==
    mode = "replaying" =>
        /\ journal # <<>>
        /\ at <= Len(journal) + 1
        /\ origin.revision <= live.doc.revision
        /\ at = 1 => CompactSize(live) = 1 /\ live.doc.revision = origin.revision
        /\ at > 1 =>
               /\ CompactSize(live) <= at - 1
               /\ \/ live.doc.revision = journal[at - 1].seq
                  \/ /\ live.doc.revision = origin.revision
                     /\ journal[at - 1].seq <= origin.revision
        /\ origin.from = "backup" =>
               /\ origin.revision \in DOMAIN backups
               /\ Readable(backups[origin.revision])

\* The session stands at the end of the journal, unless an append failed.
LiveOK ==
    mode \in {"restoring", "open"} =>
        /\ CompactSize(live) <= live.doc.revision
        /\ (mode = "restoring" \/ ~poisoned) =>
               journal # <<>> /\ live.doc.revision = LastSeq(journal)
        /\ mode = "open" => acked = live.doc.revision /\ untried = {}

\* The inductive invariant.
IInv == TypeOK /\ BackupNames /\ JournalOK /\ ReplayOK /\ LiveOK

-----------------------------------------------------------------------------
(* Initial states.                                                         *)

\* A project that was never opened satisfies the invariant.
LEMMA InitIInv == Init => IInv
<1> SUFFICES ASSUME Init PROVE IInv
  OBVIOUS
<1>1. DefaultDocument \in Document
  BY DefaultDocumentType
<1>2. target \in Document \cup {NoFile}
  BY DiskAssumption DEF Init
<1>3. \A d \in Document : FreshSession(d) \in Session /\ d.revision \in Revision
  BY FreshSessionType, DocumentFields
<1>4. DOMAIN ledger \subseteq Revision /\ acked \in DOMAIN ledger
      /\ \A r \in DOMAIN ledger : ledger[r] \in Session
  BY <1>1, <1>2, <1>3 DEF Init
<1>5. journal \in Seq(Record) /\ journal = <<>> /\ DOMAIN journal = {}
  BY EmptySeq, LenProperties DEF Init
<1>6. save \in SaveState /\ origin \in [from : Sources, revision : Revision \cup {0}]
  BY <1>1 DEF Init, Sources, NoOrigin, SaveState, SavePhases, IdleSave
<1>7. live \in Session
  BY <1>1, <1>3 DEF Init
<1>8. DOMAIN backups = {}
  BY DEF Init
<1>9. mode \in Modes
  BY DEF Init, Modes
<1>10. TypeOK
  <2>1. DOMAIN backups \subseteq Revision
        /\ \A r \in DOMAIN backups : backups[r] \in Document \cup {Torn}
    BY <1>8
  <2>2. tornTail \in BOOLEAN /\ poisoned \in BOOLEAN
    BY DEF Init
  <2>3. at \in Nat \ {0} /\ untried = {} /\ damaged = {} /\ staging = NoFile
    BY DEF Init
  <2>4. /\ checkpointRevision = 0 /\ snapshotRevision = 0
        /\ requested = 0 /\ durable = 0
    BY DEF Init
  <2> QED
    BY <1>2, <1>4, <1>5, <1>6, <1>7, <1>9, <2>1, <2>2, <2>3, <2>4 DEF TypeOK
<1> QED
  BY <1>5, <1>8, <1>10 DEF Init, IInv, BackupNames, JournalOK, ReplayOK, LiveOK, Gapless

-----------------------------------------------------------------------------
(* Steps that leave journal, backups, mode and session alone.              *)

\* The invariant only reads these variables.
LEMMA FrameIInv ==
    ASSUME IInv, TypeOK',
           UNCHANGED <<journal, backups, mode, origin, at, live, poisoned,
                       acked, damaged, untried>>
    PROVE  IInv'
BY DEF IInv, BackupNames, JournalOK, JournalIntact, ReplayOK, LiveOK

\* The values that a save in progress takes are typed.
LEMMA SaveTypes ==
    ASSUME save \in SaveState
    PROVE  /\ IdleSave \in SaveState
           /\ \A d \in Document : QueuedSave(d) \in SaveState
           /\ \A d \in Document : [save EXCEPT !.pending = d] \in SaveState
           /\ NextSave \in SaveState
<1>1. IdleSave \in SaveState
  BY DefaultDocumentType DEF IdleSave, SaveState, SavePhases
<1>2. \A d \in Document : QueuedSave(d) \in SaveState
  BY DEF QueuedSave, SaveState, SavePhases
<1>3. \A d \in Document : [save EXCEPT !.pending = d] \in SaveState
  BY DEF SaveState
<1>4. save.pending \in Document \cup {NoFile}
  BY DEF SaveState
<1> QED
  BY <1>1, <1>2, <1>3, <1>4 DEF NextSave

\* Handing a snapshot to the saver: it is the typed live document.
LEMMA SubmitIInv == IInv /\ Submit => IInv'
<1> SUFFICES ASSUME IInv, Submit PROVE IInv'
  OBVIOUS
<1>1. live.doc \in Document /\ live.doc.revision \in Revision
  BY SessionFields, DocumentFields DEF IInv, TypeOK
<1>2. save' \in SaveState
  BY <1>1, SaveTypes DEF IInv, TypeOK, Submit
<1>3. TypeOK'
  BY <1>1, <1>2 DEF IInv, TypeOK, Submit, disk, opening, session, ghost
<1> QED
  BY <1>3, FrameIInv DEF Submit, disk, opening, session, ghost

\* A torn staging file is a value the invariant allows.
LEMMA WriteStagingIInv == IInv /\ WriteStaging => IInv'
<1> SUFFICES ASSUME IInv, WriteStaging PROVE IInv'
  OBVIOUS
<1>1. TypeOK'
  BY DEF IInv, TypeOK, WriteStaging, SaveState, SavePhases, opening, session,
         ghost
<1> QED
  BY <1>1, FrameIInv DEF WriteStaging, opening, session, ghost

\* The flushed staging file is the typed document being saved.
LEMMA FlushStagingIInv == IInv /\ FlushStaging => IInv'
<1> SUFFICES ASSUME IInv, FlushStaging PROVE IInv'
  OBVIOUS
<1>1. TypeOK'
  BY DEF IInv, TypeOK, FlushStaging, SaveState, SavePhases, opening, session,
         ghost
<1> QED
  BY <1>1, FrameIInv DEF FlushStaging, opening, session, ghost

\* Renaming moves a typed staging file to the project file.
LEMMA ReplaceTargetIInv == IInv /\ ReplaceTarget => IInv'
<1> SUFFICES ASSUME IInv, ReplaceTarget PROVE IInv'
  OBVIOUS
<1>1. TypeOK'
  BY DEF IInv, TypeOK, ReplaceTarget, SaveState, SavePhases, opening, session,
         ghost
<1> QED
  BY <1>1, FrameIInv DEF ReplaceTarget, opening, session, ghost

\* A failed save only forgets the document being saved.
LEMMA FailSaveIInv == IInv /\ FailSave => IInv'
<1> SUFFICES ASSUME IInv, FailSave PROVE IInv'
  OBVIOUS
<1>1. save' \in SaveState
  BY SaveTypes DEF IInv, TypeOK, FailSave
<1>2. TypeOK'
  BY <1>1 DEF IInv, TypeOK, FailSave, disk, opening, session, ghost
<1> QED
  BY <1>2, FrameIInv DEF FailSave, disk, opening, session, ghost

\* The backup is added under the revision of the document it holds.
LEMMA FinishSaveIInv == IInv /\ FinishSave => IInv'
<1> SUFFICES ASSUME IInv, FinishSave PROVE IInv'
  OBVIOUS
<1>1. save.doc \in Document /\ save.doc.revision \in Revision
  BY DocumentFields DEF IInv, TypeOK, SaveState
<1>2. /\ DOMAIN backups' \subseteq Revision
      /\ \A r \in DOMAIN backups' : backups'[r] \in Document \cup {Torn}
      /\ BackupNames'
  <2>1. CASE UNCHANGED backups
    BY <2>1 DEF IInv, TypeOK, BackupNames
  <2>2. ASSUME NEW gone,
               backups' = [r \in (DOMAIN backups \cup {save.doc.revision}) \ gone |->
                              IF r = save.doc.revision THEN save.doc
                              ELSE backups[r]]
        PROVE  /\ DOMAIN backups' \subseteq Revision
               /\ \A r \in DOMAIN backups' : backups'[r] \in Document \cup {Torn}
               /\ BackupNames'
    BY <1>1, <2>2 DEF IInv, TypeOK, BackupNames
  <2> QED
    BY <2>1, <2>2 DEF FinishSave
<1>3. mode = "open" /\ untried = {}
  BY DEF FinishSave, IInv, LiveOK
<1>4. save' \in SaveState
  BY SaveTypes DEF FinishSave, IInv, TypeOK
<1>5. TypeOK'
  BY <1>1, <1>2, <1>3, <1>4
  DEF IInv, TypeOK, FinishSave, opening, session, ghost
<1>6. JournalOK' /\ ReplayOK' /\ LiveOK'
  BY <1>3 DEF IInv, JournalOK, JournalIntact, ReplayOK, LiveOK, FinishSave,
              opening, session, ghost
<1> QED
  BY <1>2, <1>5, <1>6 DEF IInv

-----------------------------------------------------------------------------
(* Edits.                                                                  *)

\* An append, whole or interrupted, for a candidate one revision further.
LEMMA AppendRecordIInv ==
    ASSUME IInv, mode = "open", ~poisoned,
           NEW next, Advanced(live, next),
           NEW rec \in Record, rec.seq = live.doc.revision + 1,
           rec.action # "baseline",
           AppendRecord(next, rec)
    PROVE  IInv'
<1>1. /\ journal \in Seq(Record) /\ journal # <<>> /\ Gapless(journal)
      /\ live.doc.revision = LastSeq(journal)
      /\ journal[1].seq <= journal[1].base
      /\ JournalIntact => journal[1].base <= LastSeq(journal)
      /\ CompactSize(live) <= live.doc.revision
      /\ acked = live.doc.revision /\ untried = {}
  BY DEF IInv, TypeOK, JournalOK, LiveOK
<1>2. /\ next \in Session /\ next.doc.revision = rec.seq
      /\ CompactSize(next) <= CompactSize(live) + 1
  BY DEF Advanced
<1>3. live \in Session /\ live.doc.revision \in Nat /\ CompactSize(live) \in Nat
      /\ CompactSize(next) \in Nat
  BY <1>2, CompactSizeType, SessionFields, DocumentFields, LimitsAssumption
  DEF IInv, TypeOK, Revision
<1>4. LastSeq(journal) \in Nat /\ journal[1].base \in Nat
  <2>1. 1 \in 1 .. Len(journal)
    BY <1>1, GaplessNumbers
  <2>2. journal[1] \in Record
    BY <1>1, <2>1, GaplessNumbers
  <2>3. journal[1].base \in Nat
    BY <2>2, LimitsAssumption DEF Record, Revision
  <2> QED
    BY <1>1, <2>3, GaplessNumbers
<1>5. rec.seq \in Revision
  BY DEF Record
<1>6. /\ Append(journal, rec) \in Seq(Record) /\ Append(journal, rec) # <<>>
      /\ Gapless(Append(journal, rec))
      /\ Append(journal, rec)[1] = journal[1]
      /\ LastSeq(Append(journal, rec)) = rec.seq
  BY <1>1, GaplessAppend
<1>7. /\ mode' = "open" /\ damaged' = damaged /\ backups' = backups
      /\ untried' = untried /\ origin' = origin /\ at' = at
      /\ target' = target /\ staging' = staging
      /\ checkpointRevision' = checkpointRevision
      /\ snapshotRevision' = snapshotRevision
      /\ save' = save /\ requested' = requested /\ durable' = durable
  BY DEF AppendRecord, opening, saver
<1>8. ASSUME ledger' = [r \in DOMAIN ledger \cup {rec.seq} |->
                           IF r = rec.seq THEN next ELSE ledger[r]]
      PROVE  /\ DOMAIN ledger' \subseteq Revision
             /\ rec.seq \in DOMAIN ledger' /\ DOMAIN ledger \subseteq DOMAIN ledger'
             /\ \A r \in DOMAIN ledger' : ledger'[r] \in Session
  BY <1>2, <1>5, <1>8 DEF IInv, TypeOK
<1>9. CASE Acknowledge(next, rec)
  <2>1. /\ journal' = Append(journal, rec) /\ live' = next /\ acked' = rec.seq
        /\ poisoned' = poisoned /\ tornTail' = FALSE
    BY <1>9 DEF Acknowledge, Appended
  <2>2. TypeOK'
    BY <1>2, <1>6, <1>7, <1>8, <1>9, <2>1 DEF IInv, TypeOK, Acknowledge
  <2>3. JournalOK'
    BY <1>1, <1>3, <1>4, <1>6, <1>7, <2>1 DEF JournalOK, JournalIntact
  <2>4. LiveOK'
    BY <1>1, <1>2, <1>3, <1>6, <1>7, <2>1 DEF LiveOK
  <2> QED
    BY <1>7, <2>2, <2>3, <2>4 DEF IInv, BackupNames, ReplayOK
<1>10. CASE Interrupt(next, rec)
  <2>1. live' = live /\ acked' = acked /\ poisoned' = TRUE /\ tornTail' \in BOOLEAN
    BY <1>10 DEF Interrupt
  <2>2. CASE UNCHANGED <<journal, ledger>>
    <3>1. TypeOK'
      BY <1>7, <2>1, <2>2 DEF IInv, TypeOK
    <3>2. JournalOK' /\ LiveOK'
      BY <1>1, <1>7, <2>1, <2>2 DEF IInv, JournalOK, JournalIntact, LiveOK
    <3> QED
      BY <1>7, <3>1, <3>2 DEF IInv, BackupNames, ReplayOK
  <2>3. CASE /\ journal' = Append(journal, rec)
             /\ ledger' = [r \in DOMAIN ledger \cup {rec.seq} |->
                              IF r = rec.seq THEN next ELSE ledger[r]]
    <3>1. TypeOK'
      BY <1>6, <1>7, <1>8, <2>1, <2>3 DEF IInv, TypeOK
    <3>2. JournalOK'
      BY <1>1, <1>3, <1>4, <1>6, <1>7, <2>3 DEF JournalOK, JournalIntact
    <3>3. LiveOK'
      BY <1>1, <1>7, <2>1 DEF LiveOK
    <3> QED
      BY <1>7, <3>1, <3>2, <3>3 DEF IInv, BackupNames, ReplayOK
  <2> QED
    BY <1>10, <2>2, <2>3 DEF Interrupt, Appended
<1> QED
  BY <1>9, <1>10 DEF AppendRecord

\* commitEdit: one record more, one revision more, one entry more.
LEMMA EditIInv == IInv /\ Edit => IInv'
<1> SUFFICES ASSUME IInv, Edit PROVE IInv'
  OBVIOUS
<1>1. PICK c \in ClientCommands(live.doc) :
          CanEdit(live, c) /\ AppendRecord(AfterEdit(live, c), EditRecord(live, c))
  BY DEF Edit
<1>2. mode = "open" /\ ~poisoned /\ live \in Session
  BY DEF Edit, IInv, TypeOK
<1>3. Advanced(live, AfterEdit(live, c)) /\ EntryFor(live.doc, c) \in Entry
  BY <1>1, <1>2, EditAdvances
<1>4. live.doc.revision + 1 \in Revision
  BY <1>2, <1>3, SessionFields, DocumentFields DEF Advanced
<1>5. /\ EditRecord(live, c) \in Record
      /\ EditRecord(live, c).seq = live.doc.revision + 1
      /\ EditRecord(live, c).action # "baseline"
  BY <1>3, <1>4, RecordTypes, ActionFields DEF EditRecord, Actions
<1> QED
  BY <1>1, <1>2, <1>3, <1>5, AppendRecordIInv

\* commitHistoryAction, undo: the entry moves to the redo stack.
LEMMA UndoIInv == IInv /\ Undo => IInv'
<1> SUFFICES ASSUME IInv, Undo PROVE IInv'
  OBVIOUS
<1>1. /\ mode = "open" /\ ~poisoned /\ live \in Session /\ CanUndo(live)
      /\ AppendRecord(AfterUndo(live), UndoRecord(live))
  BY DEF Undo, IInv, TypeOK
<1>2. Advanced(live, AfterUndo(live)) /\ Last(live.undo) \in Entry
  BY <1>1, UndoAdvances
<1>3. live.doc.revision + 1 \in Revision
  BY <1>1, <1>2, SessionFields, DocumentFields DEF Advanced
<1>4. /\ UndoRecord(live) \in Record
      /\ UndoRecord(live).seq = live.doc.revision + 1
      /\ UndoRecord(live).action # "baseline"
  BY <1>2, <1>3, RecordTypes, ActionFields DEF UndoRecord, Actions
<1> QED
  BY <1>1, <1>2, <1>4, AppendRecordIInv

\* commitHistoryAction, redo: the entry moves back.
LEMMA RedoIInv == IInv /\ Redo => IInv'
<1> SUFFICES ASSUME IInv, Redo PROVE IInv'
  OBVIOUS
<1>1. /\ mode = "open" /\ ~poisoned /\ live \in Session /\ CanRedo(live)
      /\ AppendRecord(AfterRedo(live), RedoRecord(live))
  BY DEF Redo, IInv, TypeOK
<1>2. Advanced(live, AfterRedo(live)) /\ Last(live.redo) \in Entry
  BY <1>1, RedoAdvances
<1>3. live.doc.revision + 1 \in Revision
  BY <1>1, <1>2, SessionFields, DocumentFields DEF Advanced
<1>4. /\ RedoRecord(live) \in Record
      /\ RedoRecord(live).seq = live.doc.revision + 1
      /\ RedoRecord(live).action # "baseline"
  BY <1>2, <1>3, RecordTypes, ActionFields DEF RedoRecord, Actions
<1> QED
  BY <1>1, <1>2, <1>4, AppendRecordIInv

\* The compact journal is gapless and ends at the current revision.
LEMMA CheckpointIInv == IInv /\ Checkpoint => IInv'
<1> SUFFICES ASSUME IInv, Checkpoint PROVE IInv'
  OBVIOUS
<1>1. /\ live \in Session /\ durable = live.doc.revision /\ durable \in Revision
      /\ CompactSize(live) <= durable /\ mode = "open" /\ ~poisoned
      /\ acked = durable /\ untried = {}
  BY SessionFields, DocumentFields DEF Checkpoint, IInv, TypeOK, LiveOK
<1>2. /\ journal' = CompactJournal(live, durable)
      /\ journal' \in Seq(Record) /\ journal' # <<>> /\ Gapless(journal')
      /\ journal'[1].base = durable /\ journal'[1].seq <= durable
      /\ LastSeq(journal') = durable
  BY <1>1, CompactJournalShape DEF Checkpoint
<1>3. /\ live' = live /\ acked' = acked /\ mode' = mode /\ poisoned' = poisoned
      /\ untried' = untried /\ damaged' = damaged /\ backups' = backups
      /\ origin' = origin /\ at' = at /\ tornTail' = FALSE
      /\ target' = target /\ staging' = staging
      /\ save' = save /\ requested' = requested /\ durable' = durable
  BY DEF Checkpoint, opening, saver
<1>4. DOMAIN ledger' = {durable} /\ ledger'[durable] = live
  BY DEF Checkpoint
<1>5. /\ checkpointRevision' \in Revision \cup {0}
      /\ snapshotRevision' \in Revision \cup {0}
  BY <1>1 DEF Checkpoint, IInv, TypeOK
<1>6. TypeOK'
  BY <1>1, <1>2, <1>3, <1>4, <1>5 DEF IInv, TypeOK
<1>7. durable \in Nat
  BY <1>1, LimitsAssumption DEF Revision
<1>8. JournalOK'
  BY <1>2, <1>7 DEF JournalOK
<1>9. LiveOK'
  BY <1>1, <1>2, <1>3 DEF LiveOK
<1> QED
  BY <1>1, <1>3, <1>6, <1>8, <1>9 DEF IInv, BackupNames, ReplayOK

-----------------------------------------------------------------------------
(* Opening.                                                                *)

\* Steps that end in a mode without a session.
LEMMA NoSessionIInv ==
    ASSUME IInv, TypeOK', mode' \in {"closed", "choosing", "failed"},
           UNCHANGED <<journal, backups, damaged>>
    PROVE  IInv'
BY DEF IInv, BackupNames, JournalOK, JournalIntact, ReplayOK, LiveOK

\* What is left when a candidate goes away.
LEMMA DropCandidateType ==
    ASSUME DropCandidate
    PROVE  /\ live' \in Session
           /\ origin' \in [from : Sources, revision : Revision \cup {0}]
           /\ at' \in Nat \ {0}
           /\ checkpointRevision' \in Revision \cup {0}
<1>1. live' \in Session
  BY DefaultDocumentType, FreshSessionType DEF DropCandidate
<1>2. NoOrigin \in [from : Sources, revision : Revision \cup {0}]
  BY DEF NoOrigin, Sources
<1> QED
  BY <1>1, <1>2 DEF DropCandidate

\* Dropping the candidate leaves the journal as it is.
LEMMA FallBackIInv ==
    ASSUME IInv, FallBack,
           UNCHANGED <<disk, poisoned, snapshotRevision, saver, ghost>>
    PROVE  IInv'
<1>1. mode' \in {"choosing", "failed"} /\ untried' \subseteq DOMAIN backups
      /\ DropCandidate
  BY DEF FallBack
<1>2. TypeOK'
  BY <1>1, DropCandidateType DEF IInv, TypeOK, Modes, disk, saver, ghost
<1> QED
  BY <1>1, <1>2, NoSessionIInv DEF disk, ghost

\* A candidate starts a replay at the first record, on a journal that has one.
LEMMA StartReplayIInv ==
    ASSUME IInv, NEW d \in Document, NEW source \in Sources,
           StartReplay(d, source),
           target' \in Document \cup {NoFile, Torn},
           staging' \in Document \cup {NoFile, Torn},
           untried' \subseteq DOMAIN backups,
           source = "backup" => /\ d.revision \in DOMAIN backups
                                /\ Readable(backups[d.revision]),
           UNCHANGED <<backups, poisoned, snapshotRevision, saver, ghost>>
    PROVE  IInv'
<1>1. d.revision \in Revision /\ d.revision \in Nat
  BY DocumentFields, LimitsAssumption DEF Revision
<1>2. /\ live' \in Session /\ live'.doc = d /\ CompactSize(live') = 1
      /\ mode' = "replaying" /\ at' = 1
      /\ origin' = [from |-> source, revision |-> d.revision]
      /\ checkpointRevision' = 0
  BY FreshSessionType DEF StartReplay, FreshSession
<1>3. damaged' = damaged /\ acked' = acked
  BY DEF ghost
<1>4. /\ journal' \in Seq(Record) /\ journal' # <<>> /\ tornTail' \in BOOLEAN
      /\ Len(journal') \in Nat
      /\ JournalOK'
  <2>1. CASE journal = <<>>
    <3>1. /\ journal' \in Seq(Record) /\ journal' # <<>> /\ Len(journal') = 1
          /\ Gapless(journal') /\ journal'[1].seq = d.revision
          /\ journal'[1].base = d.revision /\ LastSeq(journal') = d.revision
      BY <1>1, <2>1, FirstJournal DEF StartReplay
    <3>2. tornTail' \in BOOLEAN
      BY <2>1 DEF StartReplay
    <3> QED
      BY <1>1, <3>1, <3>2 DEF JournalOK
  <2>2. CASE journal # <<>>
    <3>1. journal' = journal /\ tornTail' = tornTail
      BY <2>2 DEF StartReplay, IInv, TypeOK
    <3>2. journal \in Seq(Record) /\ Len(journal) \in Nat
      BY LenProperties DEF IInv, TypeOK
    <3> QED
      BY <1>3, <2>2, <3>1, <3>2 DEF IInv, TypeOK, JournalOK, JournalIntact
  <2> QED
    BY <2>1, <2>2
<1>5. TypeOK'
  BY <1>1, <1>2, <1>4 DEF IInv, TypeOK, Modes, saver, ghost
<1>6. ReplayOK'
  BY <1>1, <1>2, <1>4 DEF ReplayOK
<1> QED
  BY <1>2, <1>4, <1>5, <1>6 DEF IInv, BackupNames, LiveOK

\* loadProjectSnapshot: the replay starts from a typed document.
LEMMA OpenProjectIInv == IInv /\ OpenProject => IInv'
<1> SUFFICES ASSUME IInv, OpenProject PROVE IInv'
  OBVIOUS
<1>1. target' \in Document /\ staging' \in Document \cup {NoFile, Torn}
  BY DEF OpenProject, IInv, TypeOK, Readable
<1>2. /\ StartReplay(target', "project") /\ untried' \subseteq DOMAIN backups
      /\ UNCHANGED <<backups, poisoned, snapshotRevision, saver, ghost>>
  BY DEF OpenProject, IInv, TypeOK
<1> QED
  BY <1>1, <1>2, StartReplayIInv DEF Sources

\* No file to load: the backups are listed.
LEMMA OpenUnreadableIInv == IInv /\ OpenUnreadable => IInv'
BY FallBackIInv DEF OpenUnreadable

\* The default session starts the replay.
LEMMA OpenJournalOnlyIInv == IInv /\ OpenJournalOnly => IInv'
<1> SUFFICES ASSUME IInv, OpenJournalOnly PROVE IInv'
  OBVIOUS
<1>1. /\ StartReplay(DefaultDocument, "journal") /\ untried' \subseteq DOMAIN backups
      /\ target' \in Document \cup {NoFile, Torn}
      /\ staging' \in Document \cup {NoFile, Torn}
      /\ UNCHANGED <<backups, poisoned, snapshotRevision, saver, ghost>>
  BY DEF OpenJournalOnly, IInv, TypeOK
<1> QED
  BY <1>1, StartReplayIInv, DefaultDocumentType DEF Sources

\* Refusing to open changes nothing but the mode.
LEMMA RefuseJournalOnlyIInv == IInv /\ RefuseJournalOnly => IInv'
<1> SUFFICES ASSUME IInv, RefuseJournalOnly PROVE IInv'
  OBVIOUS
<1>1. TypeOK'
  BY DEF RefuseJournalOnly, IInv, TypeOK, Modes, disk, opening, session, saver, ghost
<1> QED
  BY <1>1, NoSessionIInv DEF RefuseJournalOnly, disk, ghost

\* A candidate that does not fit is dropped.
LEMMA ReplayRejectedIInv == IInv /\ ReplayRejected => IInv'
<1> SUFFICES ASSUME IInv, ReplayRejected PROVE IInv'
  OBVIOUS
<1>1. CASE FallBack
  BY <1>1, FallBackIInv DEF ReplayRejected
<1>2. CASE /\ mode' \in {"choosing", "failed"}
           /\ DropCandidate
           /\ UNCHANGED untried
  <2>1. TypeOK'
    BY <1>2, DropCandidateType
    DEF ReplayRejected, IInv, TypeOK, Modes, disk, saver, ghost
  <2> QED
    BY <1>2, <2>1, NoSessionIInv DEF ReplayRejected, disk, ghost
<1> QED
  BY <1>1, <1>2 DEF ReplayRejected

\* A readable backup is typed and starts the replay.
LEMMA TryBackupIInv == IInv /\ TryBackup => IInv'
<1> SUFFICES ASSUME IInv, TryBackup PROVE IInv'
  OBVIOUS
<1>1. PICK r \in untried :
         /\ untried' = untried \ {r}
         /\ IF /\ Readable(backups[r])
               /\ r >= OldestRestorable(journal)
               /\ LastSeq(journal) # 0 => r <= LastSeq(journal)
            THEN StartReplay(backups[r], "backup")
            ELSE UNCHANGED <<journal, tornTail, mode, live, origin, at,
                             checkpointRevision>>
  BY DEF TryBackup
<1>2. /\ mode = "choosing" /\ untried' \subseteq DOMAIN backups
      /\ UNCHANGED <<target, staging, backups, poisoned, snapshotRevision, saver,
                     ghost>>
  BY <1>1 DEF TryBackup, IInv, TypeOK
<1>3. CASE Readable(backups[r]) /\ StartReplay(backups[r], "backup")
  <2>1. r \in DOMAIN backups /\ backups[r] \in Document /\ backups[r].revision = r
    BY <1>3 DEF IInv, TypeOK, BackupNames, Readable
  <2>2. target' \in Document \cup {NoFile, Torn}
        /\ staging' \in Document \cup {NoFile, Torn}
    BY <1>2 DEF IInv, TypeOK
  <2> QED
    BY <1>2, <1>3, <2>1, <2>2, StartReplayIInv DEF Sources
<1>4. CASE UNCHANGED <<journal, tornTail, mode, live, origin, at, checkpointRevision>>
  <2>1. TypeOK'
    BY <1>2, <1>4 DEF IInv, TypeOK, saver, ghost
  <2> QED
    BY <1>2, <1>4, <2>1, NoSessionIInv DEF ghost
<1> QED
  BY <1>1, <1>3, <1>4

\* Giving up changes nothing but the mode.
LEMMA NoBackupFitsIInv == IInv /\ NoBackupFits => IInv'
<1> SUFFICES ASSUME IInv, NoBackupFits PROVE IInv'
  OBVIOUS
<1>1. TypeOK'
  BY DEF NoBackupFits, IInv, TypeOK, Modes, disk, opening, session, saver, ghost
<1> QED
  BY <1>1, NoSessionIInv DEF NoBackupFits, disk, ghost

\* One more record replayed: the rebuilt session stays within the records
\* seen, which is what makes it fit once it is live.
LEMMA ReplayRecordIInv == IInv /\ ReplayRecord => IInv'
<1> SUFFICES ASSUME IInv, ReplayRecord PROVE IInv'
  OBVIOUS
<1>1. /\ mode = "replaying" /\ mode' = mode /\ at' = at + 1
      /\ journal' = journal /\ tornTail' = tornTail /\ target' = target
      /\ staging' = staging /\ backups' = backups /\ origin' = origin
      /\ untried' = untried /\ poisoned' = poisoned
      /\ snapshotRevision' = snapshotRevision /\ save' = save
      /\ requested' = requested /\ durable' = durable /\ ledger' = ledger
      /\ acked' = acked /\ damaged' = damaged
  BY DEF ReplayRecord, disk, saver, ghost
<1>2. /\ journal \in Seq(Record) /\ Gapless(journal) /\ Len(journal) \in Nat
      /\ at \in 1 .. Len(journal) /\ journal # <<>>
      /\ at \in Nat /\ at' \in Nat \ {0} /\ at' > 1 /\ at' - 1 = at
      /\ at' <= Len(journal) + 1 /\ at' # 1
  BY <1>1, LenProperties DEF ReplayRecord, IInv, TypeOK, JournalOK, ReplayOK
<1>3. /\ journal[at] \in Record /\ journal[at].seq \in Nat
      /\ (journal[at].action = "baseline") <=> (at = 1)
      /\ at > 1 => journal[at].seq = journal[at - 1].seq + 1
                    /\ journal[at - 1].seq \in Nat
  <2>1. at > 1 => at - 1 \in 1 .. Len(journal)
    BY <1>2
  <2>2. \A i \in 1 .. Len(journal) :
           /\ journal[i] \in Record /\ journal[i].seq \in Nat
           /\ journal[i].seq = journal[1].seq + (i - 1)
           /\ (journal[i].action = "baseline") <=> (i = 1)
    BY <1>2, GaplessNumbers
  <2>3. 1 \in 1 .. Len(journal)
    BY <1>2
  <2>4. journal[1].seq \in Nat
    BY <2>2, <2>3
  <2>5. /\ journal[at] \in Record /\ journal[at].seq \in Nat
        /\ (journal[at].action = "baseline") <=> (at = 1)
    BY <1>2, <2>2
  <2>6. ASSUME at > 1
        PROVE  /\ journal[at - 1].seq \in Nat
               /\ journal[at - 1].seq = journal[1].seq + ((at - 1) - 1)
               /\ journal[at].seq = journal[1].seq + (at - 1)
    BY <1>2, <2>1, <2>2, <2>6
  <2>7. ASSUME at > 1 PROVE journal[at].seq = journal[at - 1].seq + 1
    <3>1. PICK f \in Nat : f = journal[1].seq
      BY <2>4
    <3>2. at \in Nat
      BY <1>2
    <3> QED
      BY <2>6, <2>7, <3>1, <3>2
  <2> QED
    BY <2>5, <2>6, <2>7
<1>4. /\ live \in Session /\ live.doc.revision \in Nat /\ origin.revision \in Nat
      /\ CompactSize(live) \in Nat
  BY SessionFields, DocumentFields, CompactSizeType, LimitsAssumption
  DEF IInv, TypeOK, Revision
<1>5. /\ origin.revision <= live.doc.revision
      /\ at = 1 => CompactSize(live) = 1 /\ live.doc.revision = origin.revision
      /\ at > 1 =>
             /\ CompactSize(live) <= at - 1
             /\ \/ live.doc.revision = journal[at - 1].seq
                \/ /\ live.doc.revision = origin.revision
                   /\ journal[at - 1].seq <= origin.revision
      /\ origin.from = "backup" =>
             /\ origin.revision \in DOMAIN backups
             /\ Readable(backups[origin.revision])
  BY <1>1 DEF IInv, ReplayOK
<1>6. /\ live' \in Session /\ checkpointRevision' \in Revision \cup {0}
      /\ origin.revision <= live'.doc.revision
      /\ CompactSize(live') <= at
      /\ \/ live'.doc.revision = journal[at].seq
         \/ /\ live'.doc.revision = origin.revision
            /\ journal[at].seq <= origin.revision
  <2>1. CASE journal[at].action = "baseline"
    <3>1. live' = live /\ checkpointRevision' = journal[at].base /\ at = 1
      BY <1>3, <2>1 DEF ReplayRecord
    <3>2. BaselineFits(live, journal, at)
      BY <2>1 DEF ReplayRecord, Replayable
    <3>3. journal[at].base \in Revision \cup {0} /\ journal[at].base \in Nat
      BY <1>3, LimitsAssumption DEF Record, Revision
    <3>4. journal[at].seq <= live.doc.revision
      BY <1>3, <1>4, <3>2, <3>3 DEF BaselineFits
    <3> QED
      BY <1>4, <1>5, <3>1, <3>3, <3>4
  <2>2. CASE journal[at].action # "baseline"
    <3>1. at > 1 /\ at - 1 \in Nat
      <4>1. at # 1
        BY <1>3, <2>2
      <4>2. at \in Nat /\ at \in 1 .. Len(journal) /\ Len(journal) \in Nat
        BY <1>2
      <4> QED
        BY <4>1, <4>2
    <3>2. /\ live' = AfterReplay(live, journal[at])
          /\ checkpointRevision' = checkpointRevision
          /\ DocumentFits(live, journal[at]) /\ StacksFit(live, journal[at])
      BY <2>2 DEF ReplayRecord, Replayable
    <3>3. /\ live' \in Session
          /\ live'.doc.revision = IF journal[at].seq > live.doc.revision
                                  THEN journal[at].seq ELSE live.doc.revision
          /\ CompactSize(live') <= CompactSize(live) + 1
      BY <1>3, <1>4, <2>2, <3>2, ReplayAdvances
    <3>4. CompactSize(live') \in Nat
      BY <3>3, CompactSizeType
    <3>5. CompactSize(live') <= at
      BY <1>2, <1>4, <1>5, <3>1, <3>3, <3>4
    <3>6. CASE journal[at].seq > live.doc.revision
      BY <1>3, <1>4, <1>5, <3>2, <3>3, <3>5, <3>6 DEF IInv, TypeOK
    <3>7. CASE ~(journal[at].seq > live.doc.revision)
      <4>1. live'.doc.revision = live.doc.revision /\ journal[at].seq <= live.doc.revision
        BY <1>3, <1>4, <3>3, <3>7
      <4>2. checkpointRevision' \in Revision \cup {0}
        BY <3>2 DEF IInv, TypeOK
      <4>3. live.doc.revision = origin.revision \/ journal[at].seq = live.doc.revision
        BY <1>3, <1>4, <1>5, <3>1, <4>1
      <4> QED
        BY <1>5, <3>3, <3>5, <4>1, <4>2, <4>3
    <3> QED
      BY <3>6, <3>7
  <2> QED
    BY <2>1, <2>2
<1>7. TypeOK'
  BY <1>1, <1>2, <1>6 DEF IInv, TypeOK
<1>8. ReplayOK'
  BY <1>1, <1>2, <1>5, <1>6 DEF ReplayOK
<1>9. BackupNames' /\ JournalOK' /\ LiveOK'
  BY <1>1 DEF IInv, BackupNames, JournalOK, JournalIntact, LiveOK
<1> QED
  BY <1>7, <1>8, <1>9 DEF IInv

\* A replay that has met every record and does not find the snapshot too new
\* stands at the end of the journal.
LEMMA ReplayAtEnd ==
    ASSUME IInv, mode = "replaying", at > Len(journal),
           origin.revision <= LastSeq(journal)
    PROVE  /\ journal # <<>>
           /\ live.doc.revision = LastSeq(journal)
           /\ CompactSize(live) <= live.doc.revision
<1>1. /\ journal # <<>> /\ at <= Len(journal) + 1 /\ at \in Nat
      /\ origin.revision <= live.doc.revision
      /\ at > 1 =>
             /\ CompactSize(live) <= at - 1
             /\ \/ live.doc.revision = journal[at - 1].seq
                \/ /\ live.doc.revision = origin.revision
                   /\ journal[at - 1].seq <= origin.revision
  BY DEF IInv, TypeOK, ReplayOK
<1>2. /\ Len(journal) \in Nat /\ Len(journal) >= 1
      /\ LastSeq(journal) = journal[Len(journal)].seq
      /\ LastSeq(journal) \in Nat /\ LastSeq(journal) >= Len(journal)
  BY <1>1, GaplessNumbers DEF IInv, TypeOK, JournalOK
<1>3. at - 1 = Len(journal) /\ at > 1
  BY <1>1, <1>2
<1>4. live.doc.revision \in Nat /\ origin.revision \in Nat /\ CompactSize(live) \in Nat
  BY SessionFields, DocumentFields, CompactSizeType, LimitsAssumption
  DEF IInv, TypeOK, Revision
<1>5. live.doc.revision = LastSeq(journal)
  BY <1>1, <1>2, <1>3, <1>4
<1>6. CompactSize(live) <= Len(journal)
  BY <1>1, <1>3
<1> QED
  BY <1>1, <1>2, <1>4, <1>5, <1>6

\* The rebuilt session takes its place.
LEMMA GoLiveIInv ==
    ASSUME IInv, NEW revision \in Revision \cup {0}, GoLive(revision),
           journal # <<>>, live.doc.revision = LastSeq(journal),
           CompactSize(live) <= live.doc.revision,
           UNCHANGED disk
    PROVE  IInv'
<1>1. live \in Session /\ live.doc.revision \in Revision
  BY SessionFields, DocumentFields DEF IInv, TypeOK
<1>2. /\ DOMAIN ledger' \subseteq Revision /\ acked' \in DOMAIN ledger'
      /\ \A r \in DOMAIN ledger' : ledger'[r] \in Session
  BY <1>1 DEF GoLive, IInv, TypeOK
<1>3. save' \in SaveState /\ origin' \in [from : Sources, revision : Revision \cup {0}]
  BY DefaultDocumentType
  DEF GoLive, IdleSave, SaveState, SavePhases, NoOrigin, Sources
<1>4. TypeOK'
  BY <1>2, <1>3 DEF GoLive, IInv, TypeOK, Modes, disk
<1>5. BackupNames' /\ JournalOK' /\ ReplayOK'
  BY DEF GoLive, IInv, BackupNames, JournalOK, JournalIntact, ReplayOK, disk
<1>6. LiveOK'
  BY DEF GoLive, LiveOK, disk
<1> QED
  BY <1>4, <1>5, <1>6 DEF IInv

\* The rebuilt session becomes the live one.
LEMMA FinishReplayIInv == IInv /\ FinishReplay => IInv'
<1> SUFFICES ASSUME IInv, FinishReplay PROVE IInv'
  OBVIOUS
<1>1. /\ journal # <<>> /\ live.doc.revision = LastSeq(journal)
      /\ CompactSize(live) <= live.doc.revision
  BY ReplayAtEnd DEF FinishReplay
<1>2. (IF origin.from = "project" THEN origin.revision ELSE 0) \in Revision \cup {0}
  BY DEF IInv, TypeOK
<1> QED
  BY <1>1, <1>2, GoLiveIInv DEF FinishReplay

\* Writing the backup over the project file begins with its staging file.
LEMMA BeginRestoreIInv == IInv /\ BeginRestore => IInv'
<1> SUFFICES ASSUME IInv, BeginRestore PROVE IInv'
  OBVIOUS
<1>1. /\ journal # <<>> /\ live.doc.revision = LastSeq(journal)
      /\ CompactSize(live) <= live.doc.revision
  BY ReplayAtEnd DEF BeginRestore
<1>2. backups[origin.revision] \in Document
  BY DEF BeginRestore, IInv, TypeOK, ReplayOK, Readable
<1>3. save' \in SaveState /\ mode' = "restoring"
  BY <1>2, SaveTypes DEF BeginRestore, IInv, TypeOK
<1>4. TypeOK'
  BY <1>3 DEF BeginRestore, IInv, TypeOK, Modes, disk, opening, session, ghost
<1>5. BackupNames' /\ JournalOK' /\ ReplayOK' /\ LiveOK'
  BY <1>1, <1>3 DEF BeginRestore, IInv, BackupNames, JournalOK, JournalIntact,
                    ReplayOK, LiveOK, disk, opening, session, ghost
<1> QED
  BY <1>4, <1>5 DEF IInv

\* The restored session becomes the live one.
LEMMA FinishRestoreIInv == IInv /\ FinishRestore => IInv'
<1> SUFFICES ASSUME IInv, FinishRestore PROVE IInv'
  OBVIOUS
<1>1. /\ mode = "restoring" /\ GoLive(origin.revision) /\ UNCHANGED disk
      /\ origin.revision \in Revision \cup {0}
      /\ CompactSize(live) <= live.doc.revision
  BY DEF FinishRestore, IInv, TypeOK, LiveOK
<1>2. journal # <<>> /\ live.doc.revision = LastSeq(journal)
  BY <1>1 DEF IInv, LiveOK
<1> QED
  BY <1>1, <1>2, GoLiveIInv

-----------------------------------------------------------------------------
(* The environment.                                                        *)

\* A crash keeps the disk and drops everything else.
LEMMA TerminateIInv == IInv /\ Terminate => IInv'
<1> SUFFICES ASSUME IInv, Terminate PROVE IInv'
  OBVIOUS
<1>1. save' \in SaveState
  BY DefaultDocumentType DEF Terminate, IdleSave, SaveState, SavePhases
<1>2. TypeOK'
  BY <1>1, DropCandidateType DEF Terminate, IInv, TypeOK, Modes, disk, ghost
<1> QED
  BY <1>2, NoSessionIInv DEF Terminate, disk, ghost

\* Damage of files that the invariant only types.
LEMMA DamageIInv ==
    ASSUME IInv, NEW kind \in {"target", "journal", "backup"}, Damage(kind),
           target' \in Document \cup {NoFile, Torn}, tornTail' \in BOOLEAN,
           journal' \in Seq(Record), JournalOK',
           DOMAIN backups' = DOMAIN backups,
           \A r \in DOMAIN backups : backups'[r] \in {backups[r], Torn}
    PROVE  IInv'
<1>1. damaged' \subseteq {"target", "journal", "backup"} /\ mode = "closed"
      /\ mode' = "closed"
  BY DEF Damage
<1>2. TypeOK' /\ BackupNames'
  BY <1>1 DEF Damage, IInv, TypeOK, BackupNames, Readable, opening, session, saver
<1> QED
  BY <1>1, <1>2 DEF IInv, ReplayOK, LiveOK

\* A damaged project file is a value the invariant allows.
LEMMA DamageTargetIInv == IInv /\ DamageTarget => IInv'
<1> SUFFICES ASSUME IInv, DamageTarget PROVE IInv'
  OBVIOUS
<1>1. JournalOK'
  BY DEF DamageTarget, Damage, IInv, JournalOK, JournalIntact
<1> QED
  BY <1>1, DamageIInv DEF DamageTarget, IInv, TypeOK

\* A damaged backup is a value the invariant allows.
LEMMA DamageBackupIInv == IInv /\ DamageBackup => IInv'
<1> SUFFICES ASSUME IInv, DamageBackup PROVE IInv'
  OBVIOUS
<1>1. JournalOK'
  BY DEF DamageBackup, Damage, IInv, JournalOK, JournalIntact
<1>2. /\ DOMAIN backups' = DOMAIN backups
      /\ \A r \in DOMAIN backups : backups'[r] \in {backups[r], Torn}
  BY DEF DamageBackup
<1> QED
  BY <1>1, <1>2, DamageIInv DEF DamageBackup, IInv, TypeOK

\* A journal that lost records is excused by the damage.
LEMMA DamageJournalIInv == IInv /\ DamageJournal => IInv'
<1> SUFFICES ASSUME IInv, DamageJournal PROVE IInv'
  OBVIOUS
<1>1. PICK n \in 0 .. (Len(journal) - 1) : journal' = SubSeq(journal, 1, n)
  BY DEF DamageJournal
<1>2. journal \in Seq(Record) /\ Gapless(journal) /\ n \in 0 .. Len(journal)
      /\ (journal # <<>> => journal[1].seq <= journal[1].base)
  BY <1>1, LenProperties DEF IInv, TypeOK, JournalOK
<1>3. /\ journal' \in Seq(Record) /\ Gapless(journal')
      /\ journal' # <<>> => journal'[1] = journal[1]
  BY <1>1, <1>2, GaplessPrefix
<1>4. journal' # <<>> => journal # <<>>
  <2>1. CASE journal = <<>>
    <3>1. n \in 0 .. -1
      BY <1>1, <2>1
    <3> QED
      BY <3>1
  <2> QED
    BY <2>1
<1>5. JournalOK'
  BY <1>2, <1>3, <1>4 DEF JournalOK, JournalIntact, DamageJournal, Damage
<1> QED
  BY <1>3, <1>5, DamageIInv DEF DamageJournal, IInv, TypeOK

-----------------------------------------------------------------------------
(* The steps together.                                                     *)

\* Every step, and stuttering, preserves the invariant.
LEMMA NextIInv == IInv /\ [Next]_vars => IInv'
<1> SUFFICES ASSUME IInv, [Next]_vars PROVE IInv'
  OBVIOUS
<1>1. CASE UNCHANGED vars
  <2>1. TypeOK'
    BY <1>1 DEF IInv, TypeOK, vars, disk, opening, session, saver, ghost
  <2> QED
    BY <1>1, <2>1, FrameIInv DEF vars, disk, opening, session, ghost
<1>2. CASE Edit \/ Undo \/ Redo \/ Checkpoint
  BY <1>2, EditIInv, UndoIInv, RedoIInv, CheckpointIInv
<1>3. CASE SaveStep
  BY <1>3, SubmitIInv, WriteStagingIInv, FlushStagingIInv, ReplaceTargetIInv,
     FinishSaveIInv, FailSaveIInv DEF SaveStep
<1>4. CASE Open
  BY <1>4, OpenProjectIInv, OpenUnreadableIInv, OpenJournalOnlyIInv,
     RefuseJournalOnlyIInv, ReplayRecordIInv, ReplayRejectedIInv, TryBackupIInv,
     NoBackupFitsIInv, FinishReplayIInv, BeginRestoreIInv, FinishRestoreIInv
  DEF Open
<1>5. CASE Terminate \/ DamageTarget \/ DamageJournal \/ DamageBackup
  BY <1>5, TerminateIInv, DamageTargetIInv, DamageJournalIInv, DamageBackupIInv
<1> QED
  BY <1>1, <1>2, <1>3, <1>4, <1>5 DEF Next

\* The invariant holds in every reachable state.
LEMMA Invariance == Spec => []IInv
BY InitIInv, NextIInv, PTL DEF Spec

-----------------------------------------------------------------------------
(* The history invariant: what the journal, the files and the session that *)
(* is being rebuilt say about the past.  Its reference is the ledger, the  *)
(* session at every revision from the journal's baseline on.               *)

\* The oldest revision from which the journal may be replayed.
Base == OldestRestorable(journal)

\* A project without journal has not been opened yet: it is a saved project or
\* does not exist.
NeverOpened ==
    /\ mode = "closed" /\ staging = NoFile /\ DOMAIN backups = {}
    /\ \/ target = NoFile /\ DOMAIN ledger = {1} /\ ledger[1] = FreshSession(DefaultDocument)
       \/ /\ target \in SeedDocuments /\ DOMAIN ledger = {target.revision}
          /\ ledger[target.revision] = FreshSession(target)

\* The ledger's sessions stand at their revisions.
Dated == \A r \in DOMAIN ledger : ledger[r].doc.revision = r

\* The journal is the compact history of the session at its baseline, followed by
\* one record for every revision since; it may have lost the last of them.
Recorded ==
    LET s == ledger[Base]
    IN  /\ Base <= LastSeq(journal) /\ Base .. LastSeq(journal) \subseteq DOMAIN ledger
        /\ \A r \in DOMAIN ledger : Base <= r
        /\ journal[1].seq = Base + 1 - CompactSize(s)
        /\ \A i \in 1 .. Len(journal) :
              IF i <= CompactSize(s) THEN CompactRecord(s, journal[i], i)
              ELSE Advances(ledger[journal[i].seq - 1], journal[i], ledger[journal[i].seq])

\* The ledger ends where the journal does, at the acknowledged revision or one behind it.
LedgerOK ==
    /\ journal = <<>> => NeverOpened
    /\ journal # <<>> => /\ Recorded /\ DOMAIN ledger = Base .. LastSeq(journal)
                         /\ LastSeq(journal) \in {acked, acked + 1}
    /\ Dated

\* Everything the journal holds or may be asked to hold can be read back.
RecordsDecode ==
    /\ \A i \in DOMAIN journal : Decodes(journal[i])
    /\ \A r \in DOMAIN ledger : SessionDecodes(ledger[r])

\* Document d was the session's.
Recalled(d) == d.revision \in DOMAIN ledger /\ d = ledger[d.revision].doc

\* The files beside the project file belong to the history too.  After a loss the
\* session may have been resumed behind them; but then they are never looked at again,
\* because the project file it was resumed from is there to stay.
Trusted == JournalIntact \/ ~Readable(target)
SiblingsOK ==
    /\ Readable(staging) => Recalled(staging)
    /\ Readable(target) /\ Readable(staging) => target.revision <= staging.revision
    /\ \A r \in DOMAIN backups : Readable(backups[r]) /\ Base <= r => Recalled(backups[r])

\* Readable files are of the history -- backups, if the journal reaches back to them --
\* and a staging file is not behind the project file.
FilesOK ==
    /\ Readable(target) => Recalled(target)
    /\ Base > 1 /\ "target" \notin damaged => Readable(target)
    /\ Trusted => SiblingsOK

\* A project that was never saved began as the default session.
OldestIsDefault ==
    1 \in DOMAIN ledger /\ (SeedDocuments = {} \/ ~Readable(target)) =>
        ledger[1].doc = DefaultDocument

\* A replay is at a point of the history, and its stacks are those of the last
\* record met.
Retracing ==
    mode = "replaying" =>
        LET s == ledger[Base]
            met == journal[at - 1].seq
        IN  /\ Recalled(live.doc) /\ origin.revision \in DOMAIN ledger
            /\ live.doc.revision =
                  IF at > 1 /\ met > origin.revision THEN met ELSE origin.revision
            /\ at = 1 => live.undo = <<>> /\ live.redo = <<>>
            /\ at > 1 /\ at <= CompactSize(s) + 1 => Retold(s, at - 2, live.undo, live.redo)
            /\ at > CompactSize(s) + 1 =>
                  live.undo = ledger[met].undo /\ live.redo = ledger[met].redo

\* Its candidate is the project file; without one, it is a backup or the default session.
CandidateOK ==
    mode = "replaying" =>
        /\ Retracing
        /\ IF origin.from = "project"
           THEN Readable(target) /\ target.revision = origin.revision
           ELSE ~Readable(target)

\* The backups that were passed over are too old for the journal.
FallenBackOK ==
    /\ mode \in {"choosing", "failed"} => ~Readable(target)
    /\ mode = "choosing" =>
          \A r \in DOMAIN backups \ untried : Readable(backups[r]) => r < Base
    /\ mode = "failed" => \A r \in DOMAIN backups : Readable(backups[r]) => r < Base

\* The save in progress carries on from the project file.
SavingOK ==
    /\ mode \in {"open", "restoring"} \/ save.phase = "idle"
    /\ save.phase # "idle" =>
          /\ Recalled(save.doc)
          /\ Readable(target) => target.revision <= save.doc.revision
    /\ save.phase = "flushed" => staging = save.doc
    /\ save.phase = "replaced" => target = save.doc

\* A backup is being written back for the session that was rebuilt from it.
RestoringOK ==
    mode = "restoring" =>
        /\ live = ledger[LastSeq(journal)]
        /\ save.phase # "idle" /\ save.doc.revision = origin.revision
        /\ save.phase # "replaced" => ~Readable(target)

\* The revisions of the session, of its saves and of the project file, in order.
OpenOK ==
    mode = "open" =>
        /\ live = ledger[acked] /\ durable <= acked /\ requested <= acked
        /\ durable # 0 => Readable(target) /\ durable <= target.revision
        /\ Readable(target) => target.revision <= durable \/ target.revision <= requested
        /\ save.phase # "idle" => /\ durable <= save.doc.revision
                                  /\ save.doc.revision <= requested
        /\ save.pending # NoFile => /\ save.phase # "idle" /\ save.doc.revision < requested
                                    /\ save.pending.revision = requested
                                    /\ Recalled(save.pending)

\* The history invariant.  It holds until the journal loses records, and again from the
\* first time that the project could be opened after that.
HInv ==
    /\ LedgerOK /\ RecordsDecode /\ FilesOK /\ OldestIsDefault /\ CandidateOK
    /\ FallenBackOK /\ SavingOK /\ RestoringOK /\ OpenOK

-----------------------------------------------------------------------------
(* What the history invariant says of a journal and of a replay.           *)

\* The journal in numbers.
LEMMA RecordFacts ==
    ASSUME IInv, Recorded, Dated, journal # <<>>
    PROVE  LET s == ledger[Base]
           IN  /\ Base = journal[1].base /\ Base \in Nat \ {0} /\ Base <= LastSeq(journal)
               /\ LastSeq(journal) \in Nat /\ Base .. LastSeq(journal) \subseteq DOMAIN ledger
               /\ \A r \in DOMAIN ledger : Base <= r
               /\ s \in Session /\ s.doc.revision = Base
               /\ Len(journal) \in Nat /\ CompactSize(s) \in 1 .. Len(journal)
               /\ LastSeq(journal) = journal[Len(journal)].seq
               /\ HasBaseline(journal)
               /\ DOMAIN journal = 1 .. Len(journal)
               /\ \A i \in 1 .. Len(journal) :
                     /\ journal[i] \in Record
                     /\ journal[i].seq \in Nat
                     /\ journal[i].seq = Base + i - CompactSize(s)
                     /\ (journal[i].action = "baseline") <=> (i = 1)
<1> DEFINE s == ledger[Base]
           size == CompactSize(s)
           n == Len(journal)
<1>1. journal \in Seq(Record) /\ Gapless(journal) /\ journal[1].seq <= journal[1].base
  BY DEF IInv, TypeOK, JournalOK
<1>2. /\ n \in Nat /\ n >= 1 /\ LastSeq(journal) = journal[n].seq
      /\ LastSeq(journal) \in Nat
      /\ \A i \in 1 .. n : /\ journal[i] \in Record
                           /\ journal[i].seq \in Nat /\ journal[i].seq >= i
                           /\ journal[i].seq = journal[1].seq + (i - 1)
                           /\ (journal[i].action = "baseline") <=> (i = 1)
  BY <1>1, GaplessNumbers
<1>3. 1 \in 1 .. n /\ n \in 1 .. n /\ DOMAIN journal = 1 .. n
  BY <1>1, <1>2, LenProperties
<1>4. HasBaseline(journal) /\ Base = journal[1].base
  BY <1>2, <1>3 DEF HasBaseline, OldestRestorable, Base
<1>5. Base \in Nat \ {0}
  <2>1. journal[1].base \in Nat /\ journal[1].seq \in Nat /\ journal[1].seq >= 1
    BY <1>2, <1>3, LimitsAssumption DEF Record, Revision
  <2> QED
    BY <1>1, <1>4, <2>1
<1>6. /\ Base <= LastSeq(journal) /\ Base .. LastSeq(journal) \subseteq DOMAIN ledger
      /\ \A r \in DOMAIN ledger : Base <= r
      /\ journal[1].seq = Base + 1 - size
      /\ \A r \in DOMAIN ledger : ledger[r].doc.revision = r
  BY DEF Recorded, Dated
<1>7. Base \in DOMAIN ledger
  BY <1>2, <1>5, <1>6
<1>8. s \in Session /\ s.doc.revision = Base
  BY <1>6, <1>7 DEF IInv, TypeOK
<1>9. size \in Nat \ {0}
  BY <1>8, CompactSizeType
<1> HIDE DEF s, size, n
<1>10. \A i \in 1 .. n : journal[i].seq = Base + i - size
  BY <1>2, <1>3, <1>5, <1>6, <1>9
<1>11. size \in 1 .. n
  BY <1>2, <1>3, <1>5, <1>6, <1>9, <1>10
<1> QED
  BY <1>1, <1>2, <1>3, <1>4, <1>5, <1>6, <1>8, <1>10, <1>11 DEF s, size, n

\* The ledger ends where the journal does.
LEMMA JournalFacts ==
    ASSUME IInv, LedgerOK, journal # <<>>
    PROVE  LET s == ledger[Base]
           IN  /\ Base = journal[1].base /\ Base \in Nat \ {0} /\ Base <= LastSeq(journal)
               /\ LastSeq(journal) \in Nat /\ DOMAIN ledger = Base .. LastSeq(journal)
               /\ s \in Session /\ s.doc.revision = Base
               /\ Len(journal) \in Nat /\ CompactSize(s) \in 1 .. Len(journal)
               /\ LastSeq(journal) = journal[Len(journal)].seq
               /\ HasBaseline(journal)
               /\ DOMAIN journal = 1 .. Len(journal)
               /\ \A i \in 1 .. Len(journal) :
                     /\ journal[i] \in Record
                     /\ journal[i].seq \in Nat
                     /\ journal[i].seq = Base + i - CompactSize(s)
                     /\ (journal[i].action = "baseline") <=> (i = 1)
<1>1. Recorded /\ Dated /\ DOMAIN ledger = Base .. LastSeq(journal)
  BY DEF LedgerOK
<1> QED
  BY <1>1, RecordFacts

\* A replay has a candidate of the history, and the stacks are the ledger's as soon as
\* the compact history has been met.
LEMMA RetracingFacts ==
    ASSUME IInv, Recorded, Dated, Retracing, mode = "replaying"
    PROVE  /\ journal # <<>> /\ at \in 1 .. Len(journal) + 1
           /\ live \in Session /\ live.doc.revision \in DOMAIN ledger
           /\ live.doc = ledger[live.doc.revision].doc
           /\ origin.revision \in DOMAIN ledger
           /\ at > CompactSize(ledger[Base]) =>
                 /\ at - 1 \in 1 .. Len(journal)
                 /\ live.undo = ledger[journal[at - 1].seq].undo
                 /\ live.redo = ledger[journal[at - 1].seq].redo
<1> DEFINE s == ledger[Base]
           size == CompactSize(s)
           met == journal[at - 1].seq
<1>1. journal # <<>> /\ at \in Nat /\ at # 0 /\ at <= Len(journal) + 1 /\ live \in Session
  BY DEF IInv, TypeOK, ReplayOK
<1>3. /\ s \in Session /\ Len(journal) \in Nat /\ size \in 1 .. Len(journal)
      /\ \A i \in 1 .. Len(journal) : journal[i].seq = Base + i - size
      /\ Base \in Nat
  BY <1>1, RecordFacts
<1>4. /\ Recalled(live.doc) /\ origin.revision \in DOMAIN ledger
      /\ at > 1 /\ at <= size + 1 => Retold(s, at - 2, live.undo, live.redo)
      /\ at > size + 1 => live.undo = ledger[met].undo /\ live.redo = ledger[met].redo
  BY DEF Retracing
<1>5. ASSUME at = size + 1
      PROVE  live.undo = ledger[met].undo /\ live.redo = ledger[met].redo
  <2>1. at > 1 /\ at - 2 = size - 1 /\ at - 1 = size /\ met = Base
    <3> HIDE DEF size
    <3> QED
      BY <1>3, <1>5
  <2>2. Retold(s, CompactSize(s) - 1, live.undo, live.redo)
    BY <1>3, <1>4, <1>5, <2>1
  <2>3. live.undo = s.undo /\ live.redo = s.redo
    BY <1>3, <2>2, RetoldEnd
  <2> QED
    BY <2>1, <2>3
<1> HIDE DEF size, met
<1>6. ASSUME at > size
      PROVE  at - 1 \in 1 .. Len(journal)
             /\ live.undo = ledger[met].undo /\ live.redo = ledger[met].redo
  BY <1>1, <1>3, <1>4, <1>5, <1>6
<1>7. at \in 1 .. Len(journal) + 1
  BY <1>1, <1>3
<1> QED
  BY <1>1, <1>4, <1>6, <1>7 DEF Recalled, size, met

\* What the history invariant says of a replay.
LEMMA CandidateFacts ==
    ASSUME IInv, HInv, mode = "replaying"
    PROVE  /\ journal # <<>> /\ LedgerOK /\ Recorded /\ Dated /\ RecordsDecode
           /\ CandidateOK /\ Retracing /\ at \in 1 .. Len(journal) + 1
           /\ live \in Session /\ live.doc.revision \in DOMAIN ledger
           /\ live.doc = ledger[live.doc.revision].doc
           /\ origin.revision \in DOMAIN ledger /\ origin.revision <= LastSeq(journal)
<1>1. journal # <<>> /\ LedgerOK /\ RecordsDecode /\ CandidateOK
  BY DEF IInv, ReplayOK, HInv
<1>2. Recorded /\ Dated /\ Retracing
  BY <1>1 DEF LedgerOK, CandidateOK
<1>3. /\ at \in 1 .. Len(journal) + 1
      /\ live \in Session /\ live.doc.revision \in DOMAIN ledger
      /\ live.doc = ledger[live.doc.revision].doc
      /\ origin.revision \in DOMAIN ledger
  BY <1>2, RetracingFacts
<1>4. origin.revision <= LastSeq(journal)
  BY <1>1, <1>3, JournalFacts
<1> QED
  BY <1>1, <1>2, <1>3, <1>4

\* The revisions on disk and in the process are numbers.
LEMMA RevisionsAreNumbers ==
    ASSUME IInv
    PROVE  /\ \A d \in Document : d.revision \in Nat \ {0} /\ Readable(d)
           /\ Readable(target) => target \in Document
           /\ Readable(staging) => staging \in Document
           /\ \A r \in DOMAIN backups : Readable(backups[r]) =>
                 backups[r] \in Document /\ backups[r].revision = r
           /\ live \in Session /\ live.doc \in Document
           /\ save.doc \in Document
           /\ save.pending # NoFile => save.pending \in Document
           /\ requested \in Nat /\ durable \in Nat /\ acked \in Nat
           /\ \A r \in DOMAIN ledger : r \in Nat \ {0} /\ ledger[r] \in Session
           /\ ~Readable(NoFile) /\ ~Readable(Torn)
<1>1. \A r \in Revision : r \in Nat \ {0}
  BY LimitsAssumption DEF Revision
<1>2. \A d \in Document : d.revision \in Nat \ {0} /\ Readable(d)
  BY <1>1, DocumentFields, DiskAssumption DEF Readable
<1>3. /\ target \in Document \cup {NoFile, Torn} /\ staging \in Document \cup {NoFile, Torn}
      /\ \A r \in DOMAIN backups : backups[r] \in Document \cup {Torn}
      /\ live \in Session /\ save \in SaveState
      /\ requested \in Revision \cup {0} /\ durable \in Revision \cup {0}
      /\ DOMAIN ledger \subseteq Revision /\ acked \in DOMAIN ledger
      /\ \A r \in DOMAIN ledger : ledger[r] \in Session
  BY DEF IInv, TypeOK
<1>4. /\ Readable(target) => target \in Document
      /\ Readable(staging) => staging \in Document
      /\ ~Readable(NoFile) /\ ~Readable(Torn)
  BY <1>3 DEF Readable
<1>5. \A r \in DOMAIN backups : Readable(backups[r]) =>
          backups[r] \in Document /\ backups[r].revision = r
  BY <1>3 DEF Readable, IInv, BackupNames
<1>6. live.doc \in Document
  BY <1>3, SessionFields
<1>7. save.doc \in Document /\ (save.pending # NoFile => save.pending \in Document)
  BY <1>3 DEF SaveState
<1>8. requested \in Nat /\ durable \in Nat /\ acked \in Nat
  BY <1>1, <1>3
<1> QED
  BY <1>1, <1>2, <1>3, <1>4, <1>5, <1>6, <1>7, <1>8

\* The next record of the journal fits, and the candidate that met it is a candidate.
LEMMA ReplayGoesOn ==
    ASSUME IInv, Recorded, Dated, RecordsDecode, Retracing, mode = "replaying",
           at <= Len(journal)
    PROVE  LET s == ledger[Base]
               t == IF journal[at].action = "baseline" THEN live
                    ELSE AfterReplay(live, journal[at])
               met == journal[at].seq
           IN  /\ Replayable(live, journal, at)
               /\ Recalled(t.doc)
               /\ t.doc.revision = IF met > origin.revision THEN met ELSE origin.revision
               /\ at < CompactSize(s) + 1 => Retold(s, at - 1, t.undo, t.redo)
               /\ at > CompactSize(s) =>
                     t.undo = ledger[met].undo /\ t.redo = ledger[met].redo
<1> DEFINE s == ledger[Base]
           size == CompactSize(s)
           rec == journal[at]
           n == Len(journal)
<1>1. /\ journal # <<>> /\ at \in 1 .. n + 1 /\ live \in Session
      /\ live.doc.revision \in DOMAIN ledger
      /\ live.doc = ledger[live.doc.revision].doc
      /\ origin.revision \in DOMAIN ledger
      /\ at > size => /\ at - 1 \in 1 .. n
                      /\ live.undo = ledger[journal[at - 1].seq].undo
                      /\ live.redo = ledger[journal[at - 1].seq].redo
  BY RetracingFacts
<1>2. /\ Base = journal[1].base /\ Base \in Nat \ {0} /\ Base <= LastSeq(journal)
      /\ LastSeq(journal) \in Nat /\ Base .. LastSeq(journal) \subseteq DOMAIN ledger
      /\ \A r \in DOMAIN ledger : Base <= r
      /\ s \in Session /\ n \in Nat /\ size \in 1 .. n
      /\ LastSeq(journal) = journal[n].seq
      /\ DOMAIN journal = 1 .. n
      /\ \A i \in 1 .. n : /\ journal[i] \in Record /\ journal[i].seq \in Nat
                           /\ journal[i].seq = Base + i - size
                           /\ (journal[i].action = "baseline") <=> (i = 1)
  BY <1>1, RecordFacts
<1>3. at \in 1 .. n
  BY <1>1, <1>2
<1>4. /\ live.doc.revision =
            IF at > 1 /\ journal[at - 1].seq > origin.revision
            THEN journal[at - 1].seq ELSE origin.revision
      /\ at = 1 => live.undo = <<>> /\ live.redo = <<>>
      /\ at > 1 /\ at <= size + 1 => Retold(s, at - 2, live.undo, live.redo)
  BY DEF Retracing
<1>5. Decodes(rec)
  BY <1>2, <1>3 DEF RecordsDecode
<1>6. IF at <= size THEN CompactRecord(s, rec, at)
      ELSE Advances(ledger[rec.seq - 1], rec, ledger[rec.seq])
  BY <1>3 DEF Recorded
<1>7. origin.revision \in Nat /\ Base <= origin.revision
  BY <1>1, <1>2, RevisionsAreNumbers
<1> HIDE DEF size, n
<1>n. /\ Base \in Nat /\ size \in Nat \ {0} /\ n \in Nat /\ at \in Nat
      /\ origin.revision \in Nat /\ rec.seq \in Nat /\ rec.seq = Base + at - size
  BY <1>2, <1>3, <1>7
<1>8. CASE at = 1
  <2>1. rec.action = "baseline" /\ rec.base = Base /\ rec.seq = Base + 1 - size
    BY <1>2, <1>3, <1>8
  <2>2. rec.seq <= Base /\ live.doc.revision = origin.revision /\ ~(rec.seq > origin.revision)
    <3>1. live.doc.revision = origin.revision
      BY <1>4, <1>8
    <3>2. rec.seq <= Base
      BY ONLY <1>n, <1>8
    <3> QED
      BY ONLY <1>n, <1>7, <3>1, <3>2
  <2>3. Replayable(live, journal, at)
    BY <1>2, <1>7, <1>8, <2>1, <2>2 DEF Replayable, BaselineFits
  <2>4. Retold(s, at - 1, live.undo, live.redo)
    <3>1. LineLength(s) \in Nat
      BY <1>2, LineType
    <3>2. 0 \in 0 .. LineLength(s) /\ 0 <= LineLength(s)
      BY <3>1
    <3>3. LineTo(s, 0) = <<>>
      BY ONLY <1>2, <3>2, LineToIs
    <3>4. Retold(s, 0, <<>>, <<>>)
      BY <3>2, <3>3 DEF Retold
    <3> QED
      BY <1>4, <1>8, <3>4
  <2>5. at > size => FALSE
    BY <1>2, <1>8
  <2> QED
    BY <1>1, <1>8, <2>1, <2>2, <2>3, <2>4, <2>5 DEF Recalled, size
<1>9. CASE at > 1 /\ at <= size
  <2>1. rec.seq <= Base /\ rec.action # "baseline"
    BY <1>2, <1>3, <1>9
  <2>2. /\ ~(rec.seq > origin.revision) /\ live.doc.revision = origin.revision
        /\ ~(rec.seq > live.doc.revision)
    <3>1. at - 1 \in 1 .. n
      BY <1>2, <1>3, <1>9
    <3>2. journal[at - 1].seq = Base + (at - 1) - size
      BY <1>2, <3>1
    <3>3. ~(journal[at - 1].seq > origin.revision)
      BY <1>n, <1>7, <1>9, <3>2
    <3>4. live.doc.revision = origin.revision
      BY <1>4, <3>3
    <3> QED
      BY <1>n, <1>7, <2>1, <3>4
  <2>3. /\ StacksFit(live, rec)
        /\ Retold(s, at - 1, AfterReplay(live, rec).undo, AfterReplay(live, rec).redo)
    <3>1. PICK k \in Nat : k = at - 2 /\ k + 2 = at /\ k + 1 = at - 1
      BY <1>2, <1>3, <1>9
    <3>2. k + 2 <= CompactSize(s) /\ CompactRecord(s, rec, k + 2)
          /\ Retold(s, k, live.undo, live.redo)
      <4>1. at <= size + 1
        BY <1>2, <1>3, <1>9
      <4> QED
        BY <1>4, <1>6, <1>9, <3>1, <4>1 DEF size
    <3>3. StacksFit(live, rec)
          /\ Retold(s, k + 1, AfterReplay(live, rec).undo, AfterReplay(live, rec).redo)
      BY ONLY <1>2, <3>1, <3>2, RetoldStep
    <3> QED
      BY <3>1, <3>3
  <2>4. Replayable(live, journal, at)
    BY <1>5, <2>1, <2>2, <2>3 DEF Replayable, DocumentFits
  <2>5. AfterReplay(live, rec).doc = live.doc
    BY <2>2 DEF AfterReplay
  <2>6. at > size => FALSE
    BY <1>2, <1>3, <1>9
  <2> QED
    BY <1>1, <2>1, <2>2, <2>3, <2>4, <2>5, <2>6 DEF Recalled, size
<1>10. CASE at > size
  <2> DEFINE p == ledger[rec.seq - 1]
             q == ledger[rec.seq]
  <2>1. /\ rec.action # "baseline" /\ rec.seq \in Nat /\ rec.seq > Base
        /\ rec.seq <= LastSeq(journal)
        /\ rec.seq - 1 \in DOMAIN ledger /\ rec.seq \in DOMAIN ledger
        /\ journal[at - 1].seq = rec.seq - 1
    <3>1. /\ at # 1 /\ at - 1 \in 1 .. n /\ n \in 1 .. n
      BY ONLY <1>n, <1>3, <1>10
    <3>2. rec.seq = Base + at - size /\ journal[at - 1].seq = Base + (at - 1) - size
          /\ journal[n].seq = Base + n - size
      BY <1>2, <1>3, <3>1
    <3>3. rec.seq > Base /\ rec.seq <= Base + n - size /\ Base + (at - 1) - size = rec.seq - 1
      <4> HIDE DEF rec
      <4> QED
        BY <1>n, <1>3, <1>10
    <3>4. rec.action # "baseline"
      BY <1>2, <1>3, <3>1
    <3>5. rec.seq - 1 \in Base .. LastSeq(journal) /\ rec.seq \in Base .. LastSeq(journal)
      <4>1. rec.seq <= LastSeq(journal) /\ LastSeq(journal) \in Nat
        BY <1>2, <3>2, <3>3
      <4> HIDE DEF rec
      <4> QED
        BY <1>n, <3>3, <4>1
    <3> QED
      BY <1>2, <3>2, <3>3, <3>4, <3>5
  <2>2. /\ rec.seq = p.doc.revision + 1 /\ Accepts(p.doc, Replayed(rec))
        /\ StacksFit(p, rec) /\ q = AfterReplay(p, rec)
        /\ q.doc.revision = rec.seq /\ p.doc.revision = rec.seq - 1
    <3>1. ~(at <= size)
      BY <1>2, <1>3, <1>10
    <3> QED
      BY <1>1, <1>6, <2>1, <3>1 DEF Advances, Dated
  <2>3. live.undo = p.undo /\ live.redo = p.redo
    BY <1>1, <1>10, <2>1
  <2>4. StacksFit(live, rec)
    BY <2>2, <2>3 DEF StacksFit
  <2>5. AfterReplay(live, rec).undo = q.undo /\ AfterReplay(live, rec).redo = q.redo
    <3>1. rec.action \in {"edit", "undo", "redo"}
      BY <1>2, <1>3, <2>1 DEF Record, Actions
    <3> HIDE DEF p, q, rec
    <3> QED
      BY <2>2, <2>3, <3>1 DEF AfterReplay
  <2>6. live.doc.revision =
            IF rec.seq - 1 > origin.revision THEN rec.seq - 1 ELSE origin.revision
    <3>1. at > 1
      BY <1>2, <1>3, <1>10
    <3> QED
      BY <1>4, <2>1, <3>1
  <2>7. CASE rec.seq > origin.revision
    <3>1. live.doc.revision = rec.seq - 1 /\ rec.seq > live.doc.revision
          /\ rec.seq = live.doc.revision + 1
      BY <1>7, <2>1, <2>6, <2>7
    <3>2. live.doc = p.doc
      BY <1>1, <3>1
    <3>3. Replayable(live, journal, at)
      BY <1>5, <2>1, <2>2, <2>4, <3>1, <3>2 DEF Replayable, DocumentFits
    <3>4. AfterReplay(live, rec).doc = q.doc
      <4>1. rec.seq > p.doc.revision
        BY <3>1, <3>2
      <4>2. AfterReplay(live, rec).doc = Edited(live.doc, Replayed(rec))
        BY <3>1 DEF AfterReplay
      <4>3. AfterReplay(p, rec).doc = Edited(p.doc, Replayed(rec))
        BY <4>1 DEF AfterReplay
      <4> QED
        BY <2>2, <3>2, <4>2, <4>3
    <3> HIDE DEF q
    <3>5. Recalled(q.doc)
      BY <2>1, <2>2 DEF Recalled, q
    <3>6. at < CompactSize(s) + 1 => FALSE
      BY <1>2, <1>3, <1>10 DEF size
    <3> QED
      BY <2>1, <2>2, <2>5, <2>7, <3>3, <3>4, <3>5, <3>6 DEF q
  <2>8. CASE ~(rec.seq > origin.revision)
    <3>1. live.doc.revision = origin.revision /\ ~(rec.seq > live.doc.revision)
      BY <1>7, <2>1, <2>6, <2>8
    <3>2. Replayable(live, journal, at)
      BY <1>5, <2>1, <2>4, <3>1 DEF Replayable, DocumentFits
    <3>3. AfterReplay(live, rec).doc = live.doc
      BY <3>1 DEF AfterReplay
    <3>4. at < CompactSize(s) + 1 => FALSE
      BY <1>2, <1>3, <1>10 DEF size
    <3> QED
      BY <1>1, <2>1, <2>5, <2>8, <3>1, <3>2, <3>3, <3>4 DEF Recalled
  <2> QED
    BY <2>7, <2>8
<1> QED
  BY <1>2, <1>3, <1>8, <1>9, <1>10

\* A replay that has met every record has rebuilt the session at the journal's end.
LEMMA ReplayEnds ==
    ASSUME IInv, Recorded, Dated, Retracing, mode = "replaying", at > Len(journal),
           origin.revision <= LastSeq(journal)
    PROVE  live = ledger[LastSeq(journal)] /\ LastSeq(journal) \in DOMAIN ledger
<1> DEFINE size == CompactSize(ledger[Base])
           n == Len(journal)
           last == LastSeq(journal)
<1>1. /\ journal # <<>> /\ at \in 1 .. n + 1 /\ live \in Session
      /\ live.doc.revision \in DOMAIN ledger
      /\ live.doc = ledger[live.doc.revision].doc
      /\ origin.revision \in DOMAIN ledger
      /\ at > size => /\ live.undo = ledger[journal[at - 1].seq].undo
                      /\ live.redo = ledger[journal[at - 1].seq].redo
  BY RetracingFacts
<1>2. /\ Base \in Nat /\ last \in Nat /\ Base <= last
      /\ Base .. last \subseteq DOMAIN ledger
      /\ n \in Nat /\ size \in 1 .. n /\ last = journal[n].seq
  BY <1>1, RecordFacts
<1>3. at - 1 = n /\ at > 1 /\ at > size
  BY <1>1, <1>2
<1>4. live.doc.revision = last
  <2>1. live.doc.revision =
            IF at > 1 /\ journal[at - 1].seq > origin.revision
            THEN journal[at - 1].seq ELSE origin.revision
    BY DEF Retracing
  <2>2. origin.revision <= last /\ origin.revision \in Nat
    BY <1>1, RevisionsAreNumbers
  <2> QED
    BY <1>2, <1>3, <2>1, <2>2
<1>5. /\ live.doc = ledger[last].doc /\ live.undo = ledger[last].undo
      /\ live.redo = ledger[last].redo
  BY <1>1, <1>2, <1>3, <1>4
<1>6. ledger[last] \in Session
  BY <1>1, <1>4 DEF IInv, TypeOK
<1> QED
  BY <1>1, <1>4, <1>5, <1>6 DEF Session

\* So has every replay of a journal that the ledger ends with.
LEMMA ReplayEndsExact ==
    ASSUME IInv, HInv, mode = "replaying", at > Len(journal)
    PROVE  live = ledger[LastSeq(journal)] /\ origin.revision <= LastSeq(journal)
BY CandidateFacts, ReplayEnds

-----------------------------------------------------------------------------
(* Two hypotheses on the projects that exist without a journal: a journal  *)
(* brings the names of their tracks back (those of up to 1024 bytes), and  *)
(* none is lost before it was ever opened, when nothing but its file says  *)
(* what it was.                                                            *)

SeedsDecode == \A d \in SeedDocuments : d.tracks \in Seq(RecordTrack)
SeedsStay == SeedDocuments = {} \/ "target" \notin MediaFaults

\* Only a project that was never opened is without journal.
LEMMA RunningHasJournal ==
    ASSUME HInv, mode # "closed" \/ staging # NoFile \/ DOMAIN backups # {}
    PROVE  journal # <<>>
BY DEF HInv, LedgerOK, NeverOpened

\* What steps that leave journal and ledger alone keep.
LEMMA HistoryKept ==
    ASSUME LedgerOK, RecordsDecode, journal # <<>>, UNCHANGED <<journal, ledger, acked>>
    PROVE  LedgerOK' /\ RecordsDecode' /\ Base' = Base
<1>1. Base' = Base
  BY DEF Base
<1>2. Recorded'
  BY <1>1 DEF LedgerOK, Recorded
<1> QED
  BY <1>1, <1>2 DEF LedgerOK, Dated, RecordsDecode

-----------------------------------------------------------------------------
(* Initial states.                                                         *)

\* Before anything was opened, the saved project or the default session is the history.
LEMMA InitHInv == ASSUME Init, SeedsDecode PROVE HInv
<1> DEFINE d == IF target = NoFile THEN DefaultDocument ELSE target
<1>1. /\ journal = <<>> /\ staging = NoFile /\ DOMAIN backups = {} /\ mode = "closed"
      /\ save = IdleSave /\ DOMAIN ledger = {d.revision}
      /\ ledger[d.revision] = FreshSession(d)
      /\ target \in {NoFile} \cup SeedDocuments
  BY DEF Init
<1>2. DefaultDocument.revision = 1 /\ DefaultDocument.tracks \in Seq(RecordTrack)
  <2>1. [id |-> 1, name |-> MasterName] \in RecordTrack
    BY ValuesAssumption, LimitsAssumption DEF RecordTrack, Track, StableId
  <2>2. <<[id |-> 1, name |-> MasterName]>> \in Seq(RecordTrack)
    BY <2>1
  <2> QED
    BY <2>2 DEF DefaultDocument
<1>3. ~Readable(NoFile) /\ ~Readable(Torn) /\ NoFile \notin SeedDocuments
      /\ \A e \in SeedDocuments : Readable(e)
  BY DiskAssumption DEF Readable
<1>4. NeverOpened
  BY <1>1, <1>2, <1>3 DEF NeverOpened
<1>5. d.tracks \in Seq(RecordTrack)
  BY <1>1, <1>2 DEF SeedsDecode
<1>6. /\ FreshSession(d).doc = d /\ FreshSession(d).undo = <<>>
      /\ FreshSession(d).redo = <<>>
  BY DEF FreshSession
<1> HIDE DEF d
<1>7. SessionDecodes(FreshSession(d))
  <2>1. <<>> \in Seq(RecordEntry)
    OBVIOUS
  <2> QED
    BY <1>5, <1>6, <2>1 DEF SessionDecodes
<1>8. DOMAIN journal = {} /\ Base = 0
  BY <1>1 DEF Base, OldestRestorable
<1>9. LedgerOK /\ RecordsDecode
  BY <1>1, <1>4, <1>6, <1>7, <1>8 DEF LedgerOK, Dated, RecordsDecode
<1>10. Readable(target) => target = d
  BY <1>3 DEF d
<1>11. FilesOK
  BY <1>1, <1>3, <1>6, <1>8, <1>10 DEF FilesOK, SiblingsOK, Trusted, JournalIntact, Recalled
<1>12. OldestIsDefault
  <2>1. SeedDocuments = {} \/ ~Readable(target) => d = DefaultDocument
    BY <1>1, <1>3 DEF d
  <2> QED
    BY <1>1, <1>2, <1>6, <2>1 DEF OldestIsDefault
<1>13. CandidateOK /\ FallenBackOK /\ SavingOK /\ RestoringOK /\ OpenOK
  BY <1>1 DEF CandidateOK, FallenBackOK, SavingOK, RestoringOK, OpenOK, IdleSave
<1> QED
  BY <1>9, <1>11, <1>12, <1>13 DEF HInv

-----------------------------------------------------------------------------
(* Saving.                                                                 *)

\* What the steps of the save worker and the checkpoint driver find.
LEMMA SavingFacts ==
    ASSUME IInv, HInv, mode \in {"open", "restoring"}
    PROVE  /\ journal # <<>> /\ LedgerOK /\ RecordsDecode /\ FilesOK /\ OldestIsDefault
           /\ SavingOK /\ RestoringOK /\ OpenOK
BY RunningHasJournal DEF HInv

\* What is left to show of a step that leaves journal, ledger and mode alone.
LEMMA SavingKeepsHInv ==
    ASSUME IInv, HInv, mode \in {"open", "restoring"},
           UNCHANGED <<journal, ledger, acked, mode, damaged>>,
           FilesOK', Readable(target) => Readable(target)',
           SavingOK', RestoringOK', OpenOK'
    PROVE  HInv'
<1>1. LedgerOK' /\ RecordsDecode'
  BY SavingFacts, HistoryKept
<1>2. OldestIsDefault'
  BY SavingFacts DEF OldestIsDefault
<1>3. CandidateOK' /\ FallenBackOK'
  BY DEF CandidateOK, FallenBackOK
<1> QED
  BY <1>1, <1>2, <1>3 DEF HInv

\* A new snapshot is newer than all that were requested and than the project file.
LEMMA SubmitHInv == ASSUME IInv, HInv, Submit PROVE HInv'
<1>1. /\ mode = "open" /\ live.doc.revision > requested /\ live.doc.revision >= durable
      /\ requested' = live.doc.revision
      /\ save' = IF save.phase = "idle" THEN QueuedSave(live.doc)
                 ELSE [save EXCEPT !.pending = live.doc]
      /\ UNCHANGED <<journal, target, staging, backups, mode, origin, live, durable,
                     ledger, acked, damaged>>
  BY DEF Submit, disk, opening, session, ghost
<1>2. /\ journal # <<>> /\ LedgerOK /\ FilesOK /\ SavingOK /\ OpenOK
      /\ UNCHANGED Base
  BY <1>1, SavingFacts DEF Base
<1>3. live = ledger[acked] /\ acked = live.doc.revision /\ acked \in DOMAIN ledger
      /\ Recalled(live.doc)
  BY <1>1, <1>2 DEF OpenOK, IInv, LiveOK, TypeOK, Recalled
<1>4. requested \in Nat /\ durable \in Nat /\ acked \in Nat /\ save.doc.revision \in Nat
      /\ live.doc \in Document /\ live.doc # NoFile /\ live.doc.revision \in Nat
      /\ (Readable(target) => target.revision \in Nat)
  BY RevisionsAreNumbers, DiskAssumption
<1>5. Readable(target) => target.revision <= live.doc.revision
  BY <1>1, <1>2, <1>4 DEF OpenOK
<1>6. FilesOK'
  BY <1>1, <1>2 DEF FilesOK, SiblingsOK, Trusted, JournalIntact, Recalled
<1>7. CASE save.phase = "idle"
  <2>1. save'.phase = "queued" /\ save'.doc = live.doc /\ save'.pending = NoFile
    BY <1>1, <1>7 DEF QueuedSave
  <2>2. SavingOK' /\ RestoringOK'
    BY <1>1, <1>3, <1>5, <2>1 DEF SavingOK, RestoringOK, Recalled
  <2>3. OpenOK'
    <3>1. /\ durable <= acked /\ (durable # 0 => Readable(target) /\ durable <= target.revision)
      BY <1>1, <1>2 DEF OpenOK
    <3>2. requested' = acked /\ acked <= acked /\ durable' = durable
      BY <1>1, <1>3, <1>4
    <3>3. Readable(target) => target.revision <= requested'
      BY <1>3, <1>5, <3>2
    <3> QED
      BY <1>1, <1>3, <2>1, <3>1, <3>2, <3>3 DEF OpenOK
  <2> QED
    BY <1>1, <1>6, <2>2, <2>3, SavingKeepsHInv
<1>8. CASE save.phase # "idle"
  <2>1. save'.phase = save.phase /\ save'.doc = save.doc /\ save'.pending = live.doc
    BY <1>1, <1>8 DEF IInv, TypeOK, SaveState
  <2>2. SavingOK' /\ RestoringOK'
    BY <1>1, <1>2, <2>1 DEF SavingOK, RestoringOK, Recalled
  <2>3. OpenOK'
    BY <1>1, <1>2, <1>3, <1>4, <1>5, <1>8, <2>1 DEF OpenOK, Recalled
  <2> QED
    BY <1>1, <1>6, <2>2, <2>3, SavingKeepsHInv
<1> QED
  BY <1>7, <1>8

\* A save runs in an open or a restoring session only.
LEMMA SaveRuns ==
    ASSUME HInv, save.phase # "idle"
    PROVE  mode \in {"open", "restoring"}
BY DEF HInv, SavingOK

\* A torn staging file says nothing.
LEMMA WriteStagingHInv == ASSUME IInv, HInv, WriteStaging PROVE HInv'
<1>1. /\ save.phase = "queued" /\ staging' = Torn
      /\ save' = [save EXCEPT !.phase = "writing"]
      /\ UNCHANGED <<journal, target, backups, mode, origin, live, requested, durable,
                     ledger, acked, damaged>>
  BY DEF WriteStaging, opening, session, ghost
<1>2. mode \in {"open", "restoring"} /\ ~Readable(Torn)
  BY <1>1, SaveRuns DEF Readable
<1>3. FilesOK /\ SavingOK /\ RestoringOK /\ OpenOK /\ UNCHANGED Base
  BY <1>1, <1>2, SavingFacts DEF Base
<1>4. save'.phase = "writing" /\ save'.doc = save.doc /\ save'.pending = save.pending
  BY <1>1 DEF IInv, TypeOK, SaveState
<1>5. FilesOK'
  BY <1>1, <1>2, <1>3 DEF FilesOK, SiblingsOK, Trusted, JournalIntact, Recalled
<1>6. SavingOK' /\ RestoringOK' /\ OpenOK'
  BY <1>1, <1>3, <1>4 DEF SavingOK, RestoringOK, OpenOK, Recalled
<1> QED
  BY <1>1, <1>2, <1>5, <1>6, SavingKeepsHInv

\* The flushed staging file is a document of the history, not behind the project file.
LEMMA FlushStagingHInv == ASSUME IInv, HInv, FlushStaging PROVE HInv'
<1>1. /\ save.phase = "writing" /\ staging' = save.doc
      /\ save' = [save EXCEPT !.phase = "flushed"]
      /\ UNCHANGED <<journal, target, backups, mode, origin, live, requested, durable,
                     ledger, acked, damaged>>
  BY DEF FlushStaging, opening, session, ghost
<1>2. mode \in {"open", "restoring"}
  BY <1>1, SaveRuns
<1>3. FilesOK /\ SavingOK /\ RestoringOK /\ OpenOK /\ UNCHANGED Base
  BY <1>1, <1>2, SavingFacts DEF Base
<1>4. save'.phase = "flushed" /\ save'.doc = save.doc /\ save'.pending = save.pending
  BY <1>1 DEF IInv, TypeOK, SaveState
<1>5. FilesOK'
  BY <1>1, <1>3 DEF FilesOK, SiblingsOK, Trusted, JournalIntact, SavingOK, Recalled
<1>6. SavingOK' /\ RestoringOK' /\ OpenOK'
  BY <1>1, <1>3, <1>4 DEF SavingOK, RestoringOK, OpenOK, Recalled
<1> QED
  BY <1>1, <1>2, <1>5, <1>6, SavingKeepsHInv

\* The rename moves the project file forward along the history.
LEMMA ReplaceTargetHInv == ASSUME IInv, HInv, ReplaceTarget PROVE HInv'
<1>1. /\ save.phase = "flushed" /\ target' = staging /\ staging' = NoFile
      /\ save' = [save EXCEPT !.phase = "replaced"]
      /\ UNCHANGED <<journal, backups, mode, origin, live, requested, durable,
                     ledger, acked, damaged>>
  BY DEF ReplaceTarget, opening, session, ghost
<1>2. mode \in {"open", "restoring"} /\ ~Readable(NoFile)
  BY <1>1, SaveRuns DEF Readable
<1>3. FilesOK /\ SavingOK /\ RestoringOK /\ OpenOK /\ UNCHANGED Base
  BY <1>1, <1>2, SavingFacts DEF Base
<1>4. save'.phase = "replaced" /\ save'.doc = save.doc /\ save'.pending = save.pending
  BY <1>1 DEF IInv, TypeOK, SaveState
<1>5. target' = save.doc /\ Readable(target') /\ Recalled(save.doc)
      /\ save.doc.revision \in Nat
  BY <1>1, <1>3, RevisionsAreNumbers DEF SavingOK
<1>6. FilesOK'
  BY <1>1, <1>2, <1>3, <1>5 DEF FilesOK, SiblingsOK, Trusted, JournalIntact, Recalled
<1>7. SavingOK'
  BY <1>1, <1>2, <1>3, <1>4, <1>5 DEF SavingOK, Recalled
<1>8. RestoringOK'
  BY <1>1, <1>3, <1>4 DEF RestoringOK
<1>9. OpenOK'
  BY <1>1, <1>3, <1>4, <1>5 DEF OpenOK, Recalled
<1> QED
  BY <1>1, <1>2, <1>5, <1>6, <1>7, <1>8, <1>9, SavingKeepsHInv

\* What the worker goes on with when a save of an open session has ended: the snapshot
\* that waits is newer than the one that was saved or failed.
LEMMA NextSaveOK ==
    ASSUME IInv, HInv, mode = "open", save.phase # "idle",
           save' = NextSave, durable' \in {durable, save.doc.revision},
           durable' = durable \/ save.phase = "replaced",
           UNCHANGED <<journal, target, staging, mode, origin, live, requested,
                       ledger, acked, damaged>>
    PROVE  SavingOK' /\ RestoringOK' /\ OpenOK'
<1>1. FilesOK /\ SavingOK /\ OpenOK
  BY SavingFacts
<1>2. /\ requested \in Nat /\ durable \in Nat /\ acked \in Nat /\ save.doc.revision \in Nat
      /\ save.doc \in Document
      /\ (Readable(target) => target.revision \in Nat)
      /\ \A d \in Document : Readable(d)
  BY RevisionsAreNumbers
<1>3. /\ live = ledger[acked] /\ durable <= acked /\ requested <= acked
      /\ durable # 0 => Readable(target) /\ durable <= target.revision
      /\ Readable(target) => target.revision <= durable \/ target.revision <= requested
      /\ durable <= save.doc.revision /\ save.doc.revision <= requested
      /\ Readable(target) => target.revision <= save.doc.revision
      /\ save.pending # NoFile => /\ save.doc.revision < requested
                                  /\ save.pending.revision = requested
                                  /\ Recalled(save.pending)
  BY <1>1 DEF OpenOK, SavingOK
<1>4. /\ durable' <= acked /\ durable' <= save.doc.revision
      /\ durable' # 0 => Readable(target) /\ durable' <= target.revision
  <2>1. CASE durable' = durable
    BY <1>3, <2>1
  <2>2. CASE durable' = save.doc.revision /\ save.phase = "replaced"
    <3>1. target = save.doc
      BY <1>1, <2>2 DEF SavingOK
    <3> QED
      BY <1>2, <1>3, <2>2, <3>1
  <2> QED
    BY <2>1, <2>2
<1>5. Readable(target) => target.revision <= durable' \/ target.revision <= requested
  BY <1>2, <1>3
<1>6. durable' \in Nat
  BY <1>2
<1>7. CASE save.pending = NoFile
  <2>1. save'.phase = "idle" /\ save'.pending = NoFile
    BY <1>7 DEF NextSave, IdleSave
  <2>2. SavingOK' /\ RestoringOK'
    BY <2>1 DEF SavingOK, RestoringOK
  <2> QED
    BY <1>3, <1>4, <1>5, <2>1, <2>2 DEF OpenOK
<1>8. CASE save.pending # NoFile
  <2>1. save'.phase = "queued" /\ save'.doc = save.pending /\ save'.pending = NoFile
    BY <1>8 DEF NextSave, QueuedSave
  <2>2. save'.doc.revision = requested /\ Recalled(save'.doc)
    BY <1>3, <1>8, <2>1
  <2>3. SavingOK' /\ RestoringOK'
    BY <1>2, <1>3, <2>1, <2>2 DEF SavingOK, RestoringOK, Recalled
  <2>4. durable' <= requested
    BY <1>2, <1>3, <1>4, <1>6
  <2> QED
    BY <1>2, <1>3, <1>4, <1>5, <2>1, <2>2, <2>3, <2>4 DEF OpenOK
<1> QED
  BY <1>7, <1>8

\* A backup is a copy of the project file; the pruned ones are not missed.
LEMMA FinishSaveHInv == ASSUME IInv, HInv, FinishSave PROVE HInv'
<1>1. /\ mode = "open" /\ save.phase = "replaced" /\ durable' = save.doc.revision
      /\ save' = NextSave
      /\ UNCHANGED <<journal, target, staging, mode, origin, live, requested,
                     ledger, acked, damaged>>
  BY DEF FinishSave, opening, session, ghost
<1>2. FilesOK /\ SavingOK /\ UNCHANGED Base
  BY <1>1, SavingFacts DEF Base
<1>3. SavingOK' /\ RestoringOK' /\ OpenOK'
  BY <1>1, NextSaveOK
<1>4. Recalled(save.doc)
  BY <1>1, <1>2 DEF SavingOK
<1>5. \A r \in DOMAIN backups' :
          \/ r \in DOMAIN backups /\ backups'[r] = backups[r]
          \/ backups'[r] = save.doc
  BY DEF FinishSave
<1>6. Trusted => \A r \in DOMAIN backups' :
                    Readable(backups'[r]) /\ Base <= r => Recalled(backups'[r])
  BY <1>2, <1>4, <1>5 DEF FilesOK, SiblingsOK
<1>7. FilesOK'
  BY <1>1, <1>2, <1>6 DEF FilesOK, SiblingsOK, Trusted, JournalIntact, Recalled
<1> QED
  BY <1>1, <1>3, <1>7, SavingKeepsHInv

\* A failed save leaves the files where they were.
LEMMA FailSaveHInv == ASSUME IInv, HInv, FailSave PROVE HInv'
<1>1. /\ mode = "open" /\ save.phase # "idle" /\ save' = NextSave
      /\ UNCHANGED <<journal, target, staging, backups, mode, origin, live, requested,
                     durable, ledger, acked, damaged>>
  BY DEF FailSave, disk, opening, session, ghost
<1>2. FilesOK /\ UNCHANGED Base
  BY <1>1, SavingFacts DEF Base
<1>3. SavingOK' /\ RestoringOK' /\ OpenOK'
  BY <1>1, NextSaveOK
<1>4. FilesOK'
  BY <1>1, <1>2 DEF FilesOK, SiblingsOK, Trusted, JournalIntact, Recalled
<1> QED
  BY <1>1, <1>3, <1>4, SavingKeepsHInv

-----------------------------------------------------------------------------
(* Edits and checkpoints.                                                  *)

\* A record appended for the next revision extends the history by one session.
LEMMA HistoryGrows ==
    ASSUME IInv, LedgerOK, RecordsDecode, journal # <<>>,
           NEW next, NEW rec \in Record, rec.action # "baseline",
           StepOf(ledger[LastSeq(journal)], rec, next), next.doc.revision = rec.seq,
           journal' = Append(journal, rec),
           ledger' = [r \in DOMAIN ledger \cup {rec.seq} |->
                         IF r = rec.seq THEN next ELSE ledger[r]],
           acked' \in {rec.seq - 1, rec.seq}
    PROVE  /\ LedgerOK' /\ RecordsDecode' /\ Base' = Base
           /\ rec.seq = LastSeq(journal) + 1 /\ ledger'[rec.seq] = next
           /\ \A r \in DOMAIN ledger : r \in DOMAIN ledger' /\ ledger'[r] = ledger[r]
           /\ 1 \in DOMAIN ledger' => 1 \in DOMAIN ledger
<1> DEFINE s == ledger[Base]
           size == CompactSize(s)
           n == Len(journal)
           last == LastSeq(journal)
<1>1. /\ Base = journal[1].base /\ Base \in Nat \ {0} /\ Base <= last
      /\ last \in Nat /\ DOMAIN ledger = Base .. last
      /\ n \in Nat /\ size \in 1 .. n /\ last = journal[n].seq
      /\ HasBaseline(journal) /\ DOMAIN journal = 1 .. n
      /\ \A i \in 1 .. n : journal[i].seq \in Nat /\ journal[i].seq = Base + i - size
  BY JournalFacts
<1>2. /\ \A i \in 1 .. n :
            IF i <= size THEN CompactRecord(s, journal[i], i)
            ELSE Advances(ledger[journal[i].seq - 1], journal[i], ledger[journal[i].seq])
      /\ journal[1].seq = Base + 1 - size
      /\ \A r \in DOMAIN ledger : ledger[r].doc.revision = r
  BY DEF LedgerOK, Recorded, Dated
<1>3. last \in DOMAIN ledger /\ rec.seq = last + 1
  <2>1. last \in DOMAIN ledger
    BY <1>1
  <2>2. ledger[last].doc.revision = last
    BY <1>2, <2>1
  <2>3. rec.seq = ledger[last].doc.revision + 1
    BY DEF StepOf, Advances
  <2> QED
    BY <2>1, <2>2, <2>3
<1>4. /\ \A r \in DOMAIN ledger : r \in DOMAIN ledger' /\ ledger'[r] = ledger[r]
      /\ DOMAIN ledger' = DOMAIN ledger \cup {rec.seq} /\ ledger'[rec.seq] = next
  <2>1. \A r \in DOMAIN ledger : r # rec.seq
    BY <1>1, <1>3
  <2> QED
    BY <2>1
<1>5. /\ Len(journal') = n + 1 /\ journal'[n + 1] = rec
      /\ \A i \in 1 .. n : journal'[i] = journal[i]
      /\ journal' \in Seq(Record) /\ journal' # <<>> /\ journal'[1] = journal[1]
      /\ LastSeq(journal') = rec.seq /\ DOMAIN journal' = 1 .. n + 1
  <2>1. journal \in Seq(Record) /\ Gapless(journal)
    BY DEF IInv, TypeOK, JournalOK
  <2>2. /\ journal' \in Seq(Record) /\ journal' # <<>> /\ journal'[1] = journal[1]
        /\ LastSeq(journal') = rec.seq
    BY <1>3, <2>1, GaplessAppend
  <2>3. /\ Len(journal') = n + 1 /\ journal'[n + 1] = rec
        /\ \A i \in 1 .. n : journal'[i] = journal[i]
    BY <2>1, AppendProperties
  <2> QED
    BY <2>2, <2>3, LenProperties
<1> HIDE DEF size, n, last
<1>6. Base' = Base
  <2>1. HasBaseline(journal')
    BY <1>1, <1>5 DEF HasBaseline
  <2> QED
    BY <1>1, <1>5, <2>1 DEF Base, OldestRestorable
<1>7. ledger'[Base] = s /\ Base \in DOMAIN ledger
  <2>1. Base \in Base .. last
    BY <1>1
  <2>2. Base \in DOMAIN ledger
    BY <1>1, <2>1
  <2> QED
    BY <1>4, <2>2
<1>8. Recorded' /\ DOMAIN ledger' = Base' .. LastSeq(journal')
  <2>1. DOMAIN ledger' = Base .. rec.seq
    <3>1. (Base .. last) \cup {last + 1} = Base .. last + 1
      <4>1. Base \in Nat /\ last \in Nat /\ Base <= last
        BY <1>1
      <4> QED
        BY ONLY <4>1
    <3> QED
      BY <1>1, <1>3, <1>4, <3>1
  <2>2. ASSUME NEW i \in 1 .. n + 1
        PROVE  IF i <= size THEN CompactRecord(s, journal'[i], i)
               ELSE Advances(ledger'[journal'[i].seq - 1], journal'[i], ledger'[journal'[i].seq])
    <3>1. CASE i \in 1 .. n /\ i <= size
      BY <1>2, <1>5, <3>1
    <3>2. CASE i \in 1 .. n /\ ~(i <= size)
      <4>1. journal'[i] = journal[i] /\ journal[i].seq = Base + i - size
        BY <1>1, <1>5, <3>2
      <4>2. journal[i].seq \in Base .. last /\ journal[i].seq - 1 \in Base .. last
        <5>1. n \in 1 .. n /\ last = Base + n - size
          BY <1>1 DEF last
        <5>2. Base \in Nat /\ n \in Nat /\ size \in Nat /\ i \in Nat
          BY <1>1
        <5>3. size + 1 <= i /\ i <= n
          BY <3>2, <5>2
        <5>4. PICK m \in Nat : m = Base + i - size
          BY ONLY <5>2, <5>3
        <5>5. m \in Base .. last /\ m - 1 \in Base .. last
          BY ONLY <5>1, <5>2, <5>3, <5>4
        <5>6. journal[i].seq = m
          BY ONLY <4>1, <5>4
        <5> QED
          BY ONLY <5>5, <5>6
      <4>3. /\ ledger'[journal[i].seq] = ledger[journal[i].seq]
            /\ ledger'[journal[i].seq - 1] = ledger[journal[i].seq - 1]
        BY <1>1, <1>4, <4>2
      <4> QED
        BY <1>2, <3>2, <4>1, <4>3
    <3>3. CASE i = n + 1
      <4>1. ~(i <= size) /\ journal'[i] = rec /\ rec.seq - 1 = last
        <5>1. journal'[i] = rec
          BY <1>5, <3>3
        <5>2. n \in Nat /\ size \in 1 .. n /\ last \in Nat
          BY <1>1
        <5> QED
          BY ONLY <1>3, <3>3, <5>1, <5>2
      <4>2. ledger'[rec.seq - 1] = ledger[last] /\ ledger'[rec.seq] = next
        BY <1>3, <1>4, <4>1
      <4> QED
        BY <4>1, <4>2 DEF StepOf, last
    <3>4. i \in 1 .. n \/ i = n + 1
      BY <1>1
    <3> QED
      BY <3>1, <3>2, <3>3, <3>4
  <2>3. /\ DOMAIN ledger' = Base' .. LastSeq(journal') /\ Base' <= LastSeq(journal')
        /\ \A r \in DOMAIN ledger' : Base' <= r
        /\ journal'[1].seq = Base' + 1 - CompactSize(ledger'[Base'])
    <3>1. Base \in Nat /\ last \in Nat /\ Base <= last /\ rec.seq = last + 1
      BY <1>1, <1>3
    <3>2. DOMAIN ledger' = Base' .. LastSeq(journal') /\ Base' <= LastSeq(journal')
      BY <1>5, <1>6, <2>1, <3>1
    <3>3. \A r \in DOMAIN ledger' : Base' <= r
      BY <3>1, <3>2, <1>5, <1>6
    <3>4. 1 \in 1 .. n /\ journal[1].seq = Base + 1 - size
      BY <1>1
    <3>5. journal'[1].seq = Base' + 1 - CompactSize(ledger'[Base'])
      BY <1>5, <1>6, <1>7, <3>4 DEF size
    <3> QED
      BY <3>2, <3>3, <3>5
  <2>4. \A i \in 1 .. Len(journal') :
            IF i <= CompactSize(ledger'[Base']) THEN CompactRecord(ledger'[Base'], journal'[i], i)
            ELSE Advances(ledger'[journal'[i].seq - 1], journal'[i], ledger'[journal'[i].seq])
    BY <1>5, <1>6, <1>7, <2>2 DEF size
  <2> QED
    BY <2>3, <2>4 DEF Recorded
<1>9. LedgerOK'
  <2>1. \A r \in DOMAIN ledger' : ledger'[r].doc.revision = r
    BY <1>2, <1>4
  <2>2. LastSeq(journal') \in {acked', acked' + 1}
    BY <1>1, <1>3, <1>5
  <2>3. DOMAIN ledger' = Base' .. LastSeq(journal')
    BY <1>8
  <2> QED
    BY <1>5, <1>6, <1>8, <2>1, <2>2, <2>3 DEF LedgerOK, Dated
<1>10. RecordsDecode'
  <2>1. \A r \in DOMAIN ledger : SessionDecodes(ledger[r])
    BY DEF RecordsDecode
  <2>2. SessionDecodes(next) /\ Decodes(rec)
    BY <1>3, <2>1 DEF StepOf, last
  <2>3. \A r \in DOMAIN ledger' : SessionDecodes(ledger'[r])
    BY <1>4, <2>1, <2>2
  <2>4. \A i \in DOMAIN journal' : Decodes(journal'[i])
    <3>1. \A i \in 1 .. n : Decodes(journal[i])
      BY <1>1 DEF RecordsDecode
    <3>2. \A i \in 1 .. n + 1 : i \in 1 .. n \/ i = n + 1
      BY <1>1
    <3> QED
      BY <1>5, <2>2, <3>1, <3>2
  <2> QED
    BY <2>3, <2>4 DEF RecordsDecode
<1>11. 1 \in DOMAIN ledger' => 1 \in DOMAIN ledger
  <2>1. rec.seq # 1
    BY <1>1, <1>3
  <2> QED
    BY <1>4, <2>1
<1> QED
  BY <1>3, <1>4, <1>6, <1>9, <1>10, <1>11 DEF last

\* An append, whole or interrupted.
LEMMA AppendRecordHInv ==
    ASSUME IInv, HInv, mode = "open", ~poisoned,
           NEW next, NEW rec \in Record, rec.action # "baseline",
           StepOf(live, rec, next), Advanced(live, next), AppendRecord(next, rec)
    PROVE  HInv'
<1>1. /\ UNCHANGED <<target, staging, backups, mode, origin, at, untried, save, requested,
                     durable, damaged>>
  BY DEF AppendRecord, opening, saver
<1>2. /\ journal # <<>> /\ LedgerOK /\ RecordsDecode /\ FilesOK /\ OldestIsDefault
      /\ SavingOK /\ OpenOK
  BY SavingFacts
<1>3. /\ live.doc.revision = LastSeq(journal) /\ acked = live.doc.revision
      /\ live = ledger[acked] /\ durable <= acked /\ requested <= acked
  BY <1>2 DEF IInv, LiveOK, OpenOK
<1>4. next.doc.revision = live.doc.revision + 1 /\ rec.seq = live.doc.revision + 1
  BY DEF StepOf, Advances, Advanced
<1>5. requested \in Nat /\ durable \in Nat /\ acked \in Nat
  BY RevisionsAreNumbers
<1>6. CASE UNCHANGED <<journal, ledger, live, acked>>
  <2>1. LedgerOK' /\ RecordsDecode' /\ Base' = Base
    BY <1>2, <1>6, HistoryKept
  <2>2. FilesOK' /\ OldestIsDefault' /\ SavingOK' /\ OpenOK'
    BY <1>1, <1>2, <1>6, <2>1 DEF FilesOK, SiblingsOK, Trusted, JournalIntact,
       OldestIsDefault, SavingOK, OpenOK, Recalled
  <2>3. CandidateOK' /\ FallenBackOK' /\ RestoringOK'
    BY <1>1 DEF CandidateOK, FallenBackOK, RestoringOK
  <2> QED
    BY <2>1, <2>2, <2>3 DEF HInv
<1>7. CASE /\ journal' = Append(journal, rec)
           /\ ledger' = [r \in DOMAIN ledger \cup {rec.seq} |->
                            IF r = rec.seq THEN next ELSE ledger[r]]
           /\ \/ live' = next /\ acked' = rec.seq
              \/ live' = live /\ acked' = acked
  <2>1. acked' \in {rec.seq - 1, rec.seq} /\ next.doc.revision = rec.seq
        /\ StepOf(ledger[LastSeq(journal)], rec, next)
    BY <1>3, <1>4, <1>5, <1>7
  <2>2. /\ LedgerOK' /\ RecordsDecode' /\ Base' = Base
        /\ rec.seq = LastSeq(journal) + 1 /\ ledger'[rec.seq] = next
        /\ \A r \in DOMAIN ledger : r \in DOMAIN ledger' /\ ledger'[r] = ledger[r]
        /\ 1 \in DOMAIN ledger' => 1 \in DOMAIN ledger
    BY <1>2, <1>7, <2>1, HistoryGrows
  <2>3. FilesOK' /\ SavingOK'
    BY <1>1, <1>2, <2>2 DEF FilesOK, SiblingsOK, Trusted, JournalIntact, SavingOK, Recalled
  <2>4. OldestIsDefault'
    BY <1>1, <1>2, <2>2 DEF OldestIsDefault
  <2>5. live' = ledger'[acked'] /\ durable <= acked' /\ requested <= acked'
    <3>1. acked \in DOMAIN ledger
      BY DEF IInv, TypeOK
    <3> QED
      BY <1>3, <1>4, <1>5, <1>7, <2>2, <3>1
  <2>6. OpenOK'
    BY <1>1, <1>2, <2>2, <2>5 DEF OpenOK, Recalled
  <2>7. CandidateOK' /\ FallenBackOK' /\ RestoringOK'
    BY <1>1 DEF CandidateOK, FallenBackOK, RestoringOK
  <2> QED
    BY <2>2, <2>3, <2>4, <2>6, <2>7 DEF HInv
<1> QED
  BY <1>6, <1>7 DEF AppendRecord, Acknowledge, Interrupt, Appended

\* An edit appends what commitEdit recorded.
LEMMA EditHInv == ASSUME IInv, HInv, Edit PROVE HInv'
<1>1. PICK c \in ClientCommands(live.doc) :
          CanEdit(live, c) /\ AppendRecord(AfterEdit(live, c), EditRecord(live, c))
  BY DEF Edit
<1>2. mode = "open" /\ ~poisoned /\ live \in Session
  BY DEF Edit, IInv, TypeOK
<1>3. /\ Advanced(live, AfterEdit(live, c)) /\ EntryFor(live.doc, c) \in Entry
      /\ StepOf(live, EditRecord(live, c), AfterEdit(live, c))
  BY <1>1, <1>2, EditAdvances, EditIsStep
<1>4. live.doc.revision + 1 \in Revision
  BY <1>2, <1>3, SessionFields, DocumentFields DEF Advanced
<1>5. EditRecord(live, c) \in Record /\ EditRecord(live, c).action # "baseline"
  BY <1>3, <1>4, RecordTypes, ActionFields DEF EditRecord, Actions
<1> QED
  BY <1>1, <1>2, <1>3, <1>5, AppendRecordHInv

\* Undo appends the step back.
LEMMA UndoHInv == ASSUME IInv, HInv, Undo PROVE HInv'
<1>1. /\ mode = "open" /\ ~poisoned /\ live \in Session /\ CanUndo(live)
      /\ AppendRecord(AfterUndo(live), UndoRecord(live))
  BY DEF Undo, IInv, TypeOK
<1>2. /\ Advanced(live, AfterUndo(live)) /\ Last(live.undo) \in Entry
      /\ StepOf(live, UndoRecord(live), AfterUndo(live))
  BY <1>1, UndoAdvances, UndoIsStep
<1>3. live.doc.revision + 1 \in Revision
  BY <1>1, <1>2, SessionFields, DocumentFields DEF Advanced
<1>4. UndoRecord(live) \in Record /\ UndoRecord(live).action # "baseline"
  BY <1>2, <1>3, RecordTypes, ActionFields DEF UndoRecord, Actions
<1> QED
  BY <1>1, <1>2, <1>4, AppendRecordHInv

\* Redo appends the step forward.
LEMMA RedoHInv == ASSUME IInv, HInv, Redo PROVE HInv'
<1>1. /\ mode = "open" /\ ~poisoned /\ live \in Session /\ CanRedo(live)
      /\ AppendRecord(AfterRedo(live), RedoRecord(live))
  BY DEF Redo, IInv, TypeOK
<1>2. /\ Advanced(live, AfterRedo(live)) /\ Last(live.redo) \in Entry
      /\ StepOf(live, RedoRecord(live), AfterRedo(live))
  BY <1>1, RedoAdvances, RedoIsStep
<1>3. live.doc.revision + 1 \in Revision
  BY <1>1, <1>2, SessionFields, DocumentFields DEF Advanced
<1>4. RedoRecord(live) \in Record /\ RedoRecord(live).action # "baseline"
  BY <1>2, <1>3, RecordTypes, ActionFields DEF RedoRecord, Actions
<1> QED
  BY <1>1, <1>2, <1>4, AppendRecordHInv

\* A checkpoint forgets every revision but the current one, which the project file holds:
\* no readable file is left behind the new baseline but backups, and they are passed over.
LEMMA CheckpointHInv == ASSUME IInv, HInv, Checkpoint PROVE HInv'
<1>1. /\ mode = "open" /\ ~poisoned /\ durable # 0 /\ durable = live.doc.revision
      /\ CompactSize(live) <= durable
      /\ journal' = CompactJournal(live, durable)
      /\ ledger' = [r \in {durable} |-> live]
      /\ UNCHANGED <<target, staging, backups, mode, origin, at, untried, live, save,
                     requested, durable, acked, damaged>>
  BY DEF Checkpoint, opening, saver
<1>2. /\ journal # <<>> /\ LedgerOK /\ RecordsDecode /\ FilesOK /\ OldestIsDefault
      /\ SavingOK /\ OpenOK
  BY <1>1, SavingFacts
<1>3. /\ live.doc.revision = LastSeq(journal) /\ acked = live.doc.revision
      /\ live = ledger[acked] /\ acked \in DOMAIN ledger /\ live \in Session
      /\ durable \in Revision
  BY <1>1, <1>2, SessionFields, DocumentFields DEF IInv, TypeOK, LiveOK, OpenOK
<1>4. /\ Base \in Nat /\ DOMAIN ledger = Base .. LastSeq(journal)
      /\ LastSeq(journal) \in Nat
  BY <1>2, JournalFacts
<1>5. durable = acked /\ \A r \in DOMAIN ledger : r <= durable
  BY <1>1, <1>3, <1>4
<1>6. \A d : Recalled(d) /\ durable <= d.revision => d = live.doc
  BY <1>1, <1>3, <1>4, <1>5 DEF Recalled
<1>7. /\ Len(journal') = CompactSize(live) /\ DOMAIN journal' = 1 .. CompactSize(live)
      /\ journal'[1].seq = durable + 1 - CompactSize(live)
      /\ \A i \in 1 .. CompactSize(live) : CompactRecord(live, journal'[i], i)
      /\ SessionDecodes(live) => \A i \in 1 .. CompactSize(live) : Decodes(journal'[i])
  BY <1>1, <1>3, CompactJournalIsCompact
<1>8. /\ journal' \in Seq(Record) /\ journal' # <<>> /\ Gapless(journal')
      /\ journal'[1].base = durable /\ LastSeq(journal') = durable
  BY <1>1, <1>3, CompactJournalShape
<1>9. Base' = durable
  <2>1. 1 \in DOMAIN journal'
    BY <1>3, <1>7, CompactSizeType
  <2>2. HasBaseline(journal')
    BY <1>8, <2>1 DEF Gapless, HasBaseline
  <2> QED
    BY <1>8, <2>2 DEF Base, OldestRestorable
<1>10. DOMAIN ledger' = {durable} /\ ledger'[durable] = live
  BY <1>1
<1>11. durable \in Nat \ {0}
  BY <1>3, LimitsAssumption DEF Revision
<1>12. LedgerOK'
  <2>1. Recorded' /\ DOMAIN ledger' = Base' .. LastSeq(journal')
    <3>1. DOMAIN ledger' = Base' .. LastSeq(journal') /\ Base' <= LastSeq(journal')
          /\ \A r \in DOMAIN ledger' : Base' <= r
      BY <1>8, <1>9, <1>10, <1>11
    <3>2. CompactSize(live) \in Nat
      BY <1>3, CompactSizeType
    <3>3. \A i \in 1 .. Len(journal') : i <= CompactSize(live)
      BY <1>7, <3>2
    <3> QED
      BY <1>7, <1>9, <1>10, <3>1, <3>3 DEF Recorded
  <2> QED
    BY <1>1, <1>5, <1>8, <1>10, <2>1 DEF LedgerOK, Dated
<1>13. RecordsDecode'
  BY <1>2, <1>3, <1>7, <1>10 DEF RecordsDecode
<1>14. Recalled(live.doc)' /\ live.doc.revision = durable
  BY <1>1, <1>10 DEF Recalled
<1>15. /\ Readable(target) /\ durable <= target.revision
       /\ target \in Document /\ target.revision \in Nat
       /\ (Readable(staging) => staging \in Document /\ staging.revision \in Nat)
       /\ \A r \in DOMAIN backups : Readable(backups[r]) => backups[r].revision = r
       /\ save.doc.revision \in Nat /\ requested \in Nat
  BY <1>1, <1>2, RevisionsAreNumbers DEF OpenOK
<1>16. FilesOK'
  <2>1. target = live.doc
    BY <1>2, <1>6, <1>15 DEF FilesOK
  <2>2. Trusted /\ Readable(staging) => staging = live.doc
    <3>1. ASSUME Trusted, Readable(staging)
          PROVE  Recalled(staging) /\ durable <= staging.revision
      BY <1>2, <1>11, <1>15, <3>1 DEF FilesOK, SiblingsOK
    <3> QED
      BY <1>6, <3>1
  <2>3. ASSUME Trusted
        PROVE  \A r \in DOMAIN backups :
                  Readable(backups[r]) /\ durable <= r => backups[r] = live.doc
    <3> SUFFICES ASSUME NEW r \in DOMAIN backups, Readable(backups[r]), durable <= r
                 PROVE  backups[r] = live.doc
      OBVIOUS
    <3>1. backups[r].revision = r /\ r \in Nat
      BY <1>15, LimitsAssumption DEF IInv, TypeOK, Revision
    <3>2. Base <= r
      BY <1>3, <1>4, <1>5, <1>11, <3>1
    <3>3. Recalled(backups[r])
      BY <1>2, <2>3, <3>2 DEF FilesOK, SiblingsOK
    <3> QED
      BY <1>6, <3>1, <3>3
  <2>4. Trusted' => SiblingsOK'
    <3>1. Trusted' => Trusted
      BY <1>1 DEF Trusted, JournalIntact
    <3> QED
      BY <1>1, <1>9, <1>11, <1>14, <1>15, <2>1, <2>2, <2>3, <3>1 DEF SiblingsOK
  <2> QED
    BY <1>1, <1>9, <1>11, <1>14, <1>15, <2>1, <2>4 DEF FilesOK
<1>17. OldestIsDefault'
  <2>1. 1 \in DOMAIN ledger' => 1 \in DOMAIN ledger /\ ledger'[1] = ledger[1]
    BY <1>3, <1>5, <1>10
  <2> QED
    BY <1>1, <1>2, <2>1 DEF OldestIsDefault
<1>18. save.phase # "idle" => save.doc = live.doc
  <2>1. ASSUME save.phase # "idle" PROVE durable <= save.doc.revision /\ Recalled(save.doc)
    BY <1>1, <1>2, <2>1 DEF OpenOK, SavingOK
  <2> QED
    BY <1>6, <2>1
<1>19. SavingOK'
  BY <1>1, <1>2, <1>14, <1>18 DEF SavingOK
<1>20. save.pending = NoFile
  BY <1>1, <1>2, <1>5, <1>11, <1>15 DEF OpenOK
<1>21. OpenOK'
  BY <1>1, <1>2, <1>5, <1>10, <1>20 DEF OpenOK
<1>22. CandidateOK' /\ FallenBackOK' /\ RestoringOK'
  BY <1>1 DEF CandidateOK, FallenBackOK, RestoringOK
<1> QED
  BY <1>12, <1>13, <1>16, <1>17, <1>19, <1>21, <1>22 DEF HInv

-----------------------------------------------------------------------------
(* Opening: what candidates are, and what becomes of them.                 *)

\* Steps that end in a mode without a session.
LEMMA NoSessionHInv ==
    ASSUME IInv, HInv, journal # <<>>,
           mode' \in {"closed", "choosing", "failed"}, FallenBackOK',
           save'.phase = "idle",
           UNCHANGED <<journal, target, staging, backups, ledger, acked, damaged>>
    PROVE  HInv'
<1>1. LedgerOK /\ RecordsDecode /\ FilesOK /\ OldestIsDefault
  BY DEF HInv
<1>2. LedgerOK' /\ RecordsDecode' /\ Base' = Base
  BY <1>1, HistoryKept
<1>3. FilesOK' /\ OldestIsDefault'
  BY <1>1, <1>2 DEF FilesOK, SiblingsOK, Trusted, JournalIntact,
     OldestIsDefault, Recalled
<1>4. CandidateOK' /\ SavingOK' /\ RestoringOK' /\ OpenOK'
  BY DEF CandidateOK, SavingOK, RestoringOK, OpenOK
<1> QED
  BY <1>2, <1>3, <1>4 DEF HInv

\* A project that was never opened gets a journal that begins where it stands.
LEMMA FirstOpening ==
    ASSUME IInv, HInv, journal = <<>>, NEW d \in Document, Recalled(d),
           journal' = <<BaselineRecord(d.revision, d.revision)>>,
           UNCHANGED <<ledger, acked>>
    PROVE  /\ LedgerOK' /\ RecordsDecode' /\ Base' = d.revision
           /\ CompactSize(ledger[d.revision]) = 1 /\ NeverOpened
           /\ d.revision = 1 \/ target \in SeedDocuments
<1>1. LedgerOK /\ RecordsDecode /\ NeverOpened
  BY DEF HInv, LedgerOK
<1>2. /\ DOMAIN ledger = {d.revision} /\ ledger[d.revision] = FreshSession(d)
      /\ d.revision = 1 \/ target \in SeedDocuments
  <2>1. \A e : FreshSession(e).doc = e
    BY DEF FreshSession
  <2>2. CASE DOMAIN ledger = {1} /\ ledger[1] = FreshSession(DefaultDocument)
    BY <2>1, <2>2 DEF Recalled
  <2>3. CASE /\ target \in SeedDocuments /\ DOMAIN ledger = {target.revision}
             /\ ledger[target.revision] = FreshSession(target)
    BY <2>1, <2>3 DEF Recalled
  <2> QED
    BY <1>1, <2>2, <2>3 DEF NeverOpened
<1>3. CompactSize(ledger[d.revision]) = 1
  BY <1>2, FreshSessionType
<1>4. d.revision \in Revision /\ d.revision \in Nat
  BY DocumentFields, LimitsAssumption DEF Revision
<1>5. /\ journal' # <<>> /\ Len(journal') = 1
      /\ journal'[1].seq = d.revision /\ journal'[1].base = d.revision
      /\ LastSeq(journal') = d.revision
  BY <1>4, FirstJournal
<1>6. journal'[1].action = "baseline" /\ DOMAIN journal' = {1}
  BY BaselineFields
<1>7. Base' = d.revision
  BY <1>5, <1>6 DEF Base, OldestRestorable, HasBaseline
<1>8. Recorded' /\ DOMAIN ledger' = Base' .. LastSeq(journal')
  <2>1. DOMAIN ledger' = Base' .. LastSeq(journal') /\ Base' <= LastSeq(journal')
        /\ \A r \in DOMAIN ledger' : Base' <= r
    BY <1>2, <1>4, <1>5, <1>7
  <2>2. journal'[1].seq = Base' + 1 - CompactSize(ledger'[Base'])
    BY <1>3, <1>4, <1>5, <1>7
  <2>3. \A i \in 1 .. Len(journal') :
           i = 1 /\ i <= CompactSize(ledger'[Base'])
           /\ CompactRecord(ledger'[Base'], journal'[i], i)
    BY <1>3, <1>5, <1>6, <1>7 DEF CompactRecord
  <2> QED
    BY <2>1, <2>2, <2>3 DEF Recorded
<1>9. acked = d.revision
  BY <1>2 DEF IInv, TypeOK
<1>10. LedgerOK'
  BY <1>1, <1>4, <1>5, <1>8, <1>9 DEF LedgerOK, Dated
<1>11. RecordsDecode'
  BY <1>1, <1>6 DEF RecordsDecode, Decodes
<1> QED
  BY <1>1, <1>2, <1>3, <1>7, <1>10, <1>11

\* A document of the history becomes the candidate.
LEMMA StartReplayHInv ==
    ASSUME IInv, HInv, mode \notin {"open", "restoring"},
           NEW d \in Document, NEW source \in Sources, StartReplay(d, source), Recalled(d),
           \/ target' = target /\ staging' \in {staging, NoFile}
           \/ ~Readable(target) /\ Readable(staging) /\ target' = staging /\ staging' = NoFile,
           IF source = "project" THEN target' = d ELSE ~Readable(target)',
           UNCHANGED <<backups, saver, ghost>>
    PROVE  HInv'
<1>1. LedgerOK /\ RecordsDecode /\ FilesOK /\ OldestIsDefault /\ SavingOK
  BY DEF HInv
<1>2. UNCHANGED <<ledger, acked, damaged, save>>
  BY DEF ghost, saver
<1>3. /\ mode' = "replaying" /\ at' = 1 /\ live'.doc = d /\ live'.undo = <<>>
      /\ live'.redo = <<>> /\ origin'.revision = d.revision /\ origin'.from = source
  BY DEF StartReplay, FreshSession
<1>4. /\ LedgerOK' /\ RecordsDecode'
      /\ CompactSize(ledger[Base']) \in Nat \ {0}
      /\ Base' = Base \/ DOMAIN backups = {}
      /\ Base' > 1 /\ "target" \notin damaged => Readable(target)
  <2>1. CASE journal # <<>>
    <3>1. journal' = journal
      BY <2>1 DEF StartReplay
    <3>2. LedgerOK' /\ RecordsDecode' /\ Base' = Base
      BY <1>1, <1>2, <2>1, <3>1, HistoryKept
    <3>3. CompactSize(ledger[Base]) \in Nat \ {0}
      BY <1>1, <2>1, JournalFacts
    <3> QED
      BY <1>1, <3>2, <3>3 DEF FilesOK
  <2>2. CASE journal = <<>>
    <3>1. journal' = <<BaselineRecord(d.revision, d.revision)>>
      BY <2>2 DEF StartReplay
    <3>2. /\ LedgerOK' /\ RecordsDecode' /\ Base' = d.revision
          /\ CompactSize(ledger[d.revision]) = 1 /\ NeverOpened
          /\ d.revision = 1 \/ target \in SeedDocuments
      BY <1>2, <2>2, <3>1, FirstOpening
    <3>3. target \in SeedDocuments => Readable(target)
      BY DiskAssumption DEF Readable
    <3> QED
      BY <3>2, <3>3 DEF NeverOpened
  <2> QED
    BY <2>1, <2>2
<1>5. Readable(target) => Readable(target)'
  OBVIOUS
<1>6. FilesOK'
  <2>1. ~Readable(NoFile)
    BY DEF Readable
  <2>2. Readable(target') => Recalled(target')
    BY <1>1, <2>1 DEF FilesOK, SiblingsOK, Trusted
  <2>3. ASSUME Trusted'
        PROVE  /\ Readable(staging') => Recalled(staging')
               /\ Readable(target') /\ Readable(staging') =>
                     target'.revision <= staging'.revision
               /\ \A r \in DOMAIN backups :
                     Readable(backups[r]) /\ Base' <= r => Recalled(backups[r])
    <3>1. SiblingsOK
      BY <1>1, <1>2, <2>3 DEF FilesOK, Trusted, JournalIntact
    <3> QED
      BY <1>4, <2>1, <3>1 DEF SiblingsOK
  <2> QED
    BY <1>2, <1>4, <1>5, <2>2, <2>3 DEF FilesOK, SiblingsOK, Recalled
<1>7. OldestIsDefault'
  BY <1>1, <1>2, <1>5 DEF OldestIsDefault
<1>8. CandidateOK'
  <2>1. ~(at' > 1) /\ ~(at' > CompactSize(ledger'[Base']) + 1)
    BY <1>2, <1>3, <1>4
  <2>2. Recalled(live'.doc) /\ origin'.revision \in DOMAIN ledger'
    BY <1>2, <1>3 DEF Recalled
  <2>3. IF source = "project" THEN Readable(target') /\ target'.revision = d.revision
        ELSE ~Readable(target')
    BY RevisionsAreNumbers
  <2> QED
    BY <1>2, <1>3, <2>1, <2>2, <2>3 DEF CandidateOK, Retracing, Recalled
<1>9. FallenBackOK' /\ RestoringOK' /\ OpenOK'
  BY <1>3 DEF FallenBackOK, RestoringOK, OpenOK
<1>10. SavingOK'
  BY <1>1, <1>2, <1>3 DEF SavingOK
<1> QED
  BY <1>4, <1>6, <1>7, <1>8, <1>9, <1>10 DEF HInv

\* The project file, or the staging file that takes its place, is the candidate.
LEMMA OpenProjectHInv == ASSUME IInv, HInv, OpenProject PROVE HInv'
<1>1. /\ mode \in {"closed", "failed"}
      /\ \/ target' = target /\ staging' \in {staging, NoFile} /\ Readable(target)
         \/ ~Readable(target) /\ Readable(staging) /\ target' = staging /\ staging' = NoFile
      /\ StartReplay(target', "project")
      /\ UNCHANGED <<backups, saver, ghost>>
  BY DEF OpenProject
<1>2. target' \in Document /\ Recalled(target')
  BY <1>1, RevisionsAreNumbers DEF HInv, FilesOK, SiblingsOK, Trusted
<1> QED
  BY <1>1, <1>2, StartReplayHInv DEF Sources

\* The journal of a session passes inspectJournalForRestore.
LEMMA FallBackHInv ==
    ASSUME IInv, HInv, journal # <<>>, ~Readable(target),
           mode \notin {"open", "restoring"}, FallBack,
           UNCHANGED <<disk, poisoned, snapshotRevision, saver, ghost>>
    PROVE  HInv'
<1>1. LedgerOK /\ RecordsDecode /\ SavingOK
  BY DEF HInv
<1>2. InspectionOK(journal)
  <2>1. /\ Base = journal[1].base /\ Base \in Nat \ {0} /\ Base <= LastSeq(journal)
        /\ Len(journal) \in Nat /\ CompactSize(ledger[Base]) \in 1 .. Len(journal)
        /\ DOMAIN journal = 1 .. Len(journal)
    BY <1>1, JournalFacts
  <2>2. 1 \in DOMAIN journal
    BY <2>1
  <2>3. Decodes(journal[1])
    BY <1>1, <2>2 DEF RecordsDecode
  <2>4. journal[1].seq <= journal[1].base
    BY DEF IInv, JournalOK
  <2> QED
    BY <2>1, <2>3, <2>4 DEF InspectionOK
<1>3. mode' = "choosing" /\ untried' = DOMAIN backups
  BY <1>2 DEF FallBack
<1>4. UNCHANGED <<journal, target, staging, backups, ledger, acked, damaged, save>>
  BY DEF disk, ghost, saver
<1>5. FallenBackOK'
  BY <1>3, <1>4 DEF FallenBackOK
<1>6. save'.phase = "idle"
  BY <1>1, <1>4 DEF SavingOK
<1> QED
  BY <1>3, <1>4, <1>5, <1>6, NoSessionHInv

\* Neither file is readable: the project had been opened, and has a journal.
LEMMA OpenUnreadableHInv == ASSUME IInv, HInv, OpenUnreadable PROVE HInv'
<1>1. /\ mode \in {"closed", "failed"} /\ ~Readable(target)
      /\ {target, staging} # {NoFile} \/ DOMAIN backups # {}
      /\ FallBack /\ UNCHANGED <<disk, poisoned, snapshotRevision, saver, ghost>>
  BY DEF OpenUnreadable
<1>2. journal # <<>>
  <2>1. target \notin SeedDocuments
    BY <1>1, DiskAssumption DEF Readable
  <2> QED
    BY <1>1, <2>1 DEF HInv, LedgerOK, NeverOpened
<1> QED
  BY <1>1, <1>2, FallBackHInv

\* A journal that begins at the first revision began with the default session.
LEMMA OpenJournalOnlyHInv == ASSUME IInv, HInv, OpenJournalOnly PROVE HInv'
<1>1. /\ mode \in {"closed", "failed"} /\ target = NoFile /\ staging = NoFile
      /\ journal = <<>> \/ (HasBaseline(journal) /\ journal[1].base <= 1)
      /\ StartReplay(DefaultDocument, "journal")
      /\ UNCHANGED <<target, staging, backups, saver, ghost>>
  BY DEF OpenJournalOnly
<1>2. ~Readable(target) /\ target \notin SeedDocuments
  BY <1>1, DiskAssumption DEF Readable
<1>3. DefaultDocument.revision = 1
  BY DEF DefaultDocument
<1>4. LedgerOK /\ OldestIsDefault
  BY DEF HInv
<1>5. 1 \in DOMAIN ledger /\ ledger[1].doc = DefaultDocument
  <2>1. CASE journal = <<>>
    <3>1. DOMAIN ledger = {1} /\ ledger[1] = FreshSession(DefaultDocument)
      BY <1>2, <1>4, <2>1 DEF LedgerOK, NeverOpened
    <3> QED
      BY <3>1 DEF FreshSession
  <2>2. CASE journal # <<>>
    <3>1. /\ Base = journal[1].base /\ Base \in Nat \ {0} /\ Base <= LastSeq(journal)
          /\ LastSeq(journal) \in Nat /\ DOMAIN ledger = Base .. LastSeq(journal)
      BY <1>4, <2>2, JournalFacts
    <3>2. Base = 1
      BY <1>1, <2>2, <3>1
    <3>3. 1 \in DOMAIN ledger
      BY <3>1, <3>2
    <3> QED
      BY <1>2, <1>4, <3>3 DEF OldestIsDefault
  <2> QED
    BY <2>1, <2>2
<1>6. Recalled(DefaultDocument)
  BY <1>3, <1>5 DEF Recalled
<1> QED
  BY <1>1, <1>2, <1>6, DefaultDocumentType, StartReplayHInv DEF Sources

\* There is nothing but a journal that begins later.
LEMMA RefuseJournalOnlyHInv ==
    ASSUME IInv, HInv, RefuseJournalOnly PROVE HInv'
<1>1. /\ mode = "closed" /\ target = NoFile /\ DOMAIN backups = {} /\ journal # <<>>
      /\ mode' = "failed"
      /\ UNCHANGED <<journal, target, staging, backups, save, ledger, acked, damaged>>
  BY DEF RefuseJournalOnly, disk, saver, ghost
<1>2. FallenBackOK'
  BY <1>1 DEF FallenBackOK, Readable
<1>3. save'.phase = "idle"
  BY <1>1 DEF HInv, SavingOK
<1> QED
  BY <1>1, <1>2, <1>3, NoSessionHInv

\* A candidate that met the next record is at a point of the history again.
LEMMA RetracingStep ==
    ASSUME IInv, Recorded, Dated, RecordsDecode, Retracing, ReplayRecord
    PROVE  Retracing'
<1> DEFINE s == ledger[Base]
           size == CompactSize(s)
           met == journal[at].seq
<1>1. /\ mode = "replaying" /\ at <= Len(journal)
      /\ live' = IF journal[at].action = "baseline" THEN live
                 ELSE AfterReplay(live, journal[at])
      /\ at' = at + 1
      /\ UNCHANGED <<journal, origin, ledger>>
  BY DEF ReplayRecord, disk, ghost
<1>2. /\ Recalled(live'.doc)
      /\ live'.doc.revision = IF met > origin.revision THEN met ELSE origin.revision
      /\ at < size + 1 => Retold(s, at - 1, live'.undo, live'.redo)
      /\ at > size => live'.undo = ledger[met].undo /\ live'.redo = ledger[met].redo
  BY <1>1, ReplayGoesOn
<1>3. /\ journal # <<>> /\ at \in 1 .. Len(journal) + 1 /\ origin.revision \in DOMAIN ledger
  BY <1>1, RetracingFacts
<1>4. Len(journal) \in Nat /\ size \in Nat
  BY <1>3, RecordFacts
<1>5. Base' = Base
  BY <1>1 DEF Base
<1>6. /\ at \in Nat /\ at' > 1 /\ at' # 1 /\ at' - 1 = at /\ at' - 2 = at - 1
      /\ at' <= size + 1 => at < size + 1
      /\ at' > size + 1 => at > size
  <2>1. at \in Nat /\ at >= 1
    BY <1>3, <1>4
  <2> HIDE DEF size
  <2> QED
    BY <1>1, <1>4, <2>1
<1> HIDE DEF size
<1>7. /\ at' > 1 /\ at' <= size + 1 => Retold(s, at' - 2, live'.undo, live'.redo)
      /\ at' > size + 1 => live'.undo = ledger[met].undo /\ live'.redo = ledger[met].redo
  BY <1>2, <1>6
<1>8. journal'[at' - 1].seq = met
  BY <1>1, <1>6
<1>9. CompactSize(ledger'[Base']) = size /\ ledger'[Base'] = s
  BY <1>1, <1>5 DEF size
<1> HIDE DEF s, met
<1> QED
  BY <1>1, <1>2, <1>3, <1>6, <1>7, <1>8, <1>9 DEF Retracing, Recalled

\* It is the candidate still.
LEMMA ReplayRecordHInv == ASSUME IInv, HInv, ReplayRecord PROVE HInv'
<1>1. /\ mode = "replaying"
      /\ UNCHANGED <<journal, target, staging, backups, mode, origin, untried, save,
                     ledger, acked, damaged>>
  BY DEF ReplayRecord, disk, saver, ghost
<1>2. /\ journal # <<>> /\ LedgerOK /\ Recorded /\ Dated /\ RecordsDecode
      /\ CandidateOK /\ Retracing
  BY <1>1, CandidateFacts
<1>3. LedgerOK' /\ RecordsDecode' /\ Base' = Base
  BY <1>1, <1>2, HistoryKept
<1>4. CandidateOK'
  BY <1>1, <1>2, RetracingStep DEF CandidateOK
<1>5. FilesOK' /\ OldestIsDefault' /\ SavingOK'
  BY <1>1, <1>3 DEF HInv, FilesOK, SiblingsOK, Trusted, JournalIntact, OldestIsDefault,
                    SavingOK, Recalled
<1>6. FallenBackOK' /\ RestoringOK' /\ OpenOK'
  BY <1>1 DEF FallenBackOK, RestoringOK, OpenOK
<1> QED
  BY <1>3, <1>4, <1>5, <1>6 DEF HInv

\* No candidate is rejected.
LEMMA ReplayRejectedHInv == ASSUME IInv, HInv, ReplayRejected PROVE HInv'
<1>1. mode = "replaying"
      /\ IF at <= Len(journal) THEN ~Replayable(live, journal, at)
         ELSE origin.revision > LastSeq(journal)
  BY DEF ReplayRejected
<1>2. at \in 1 .. Len(journal) + 1 /\ Len(journal) \in Nat /\ LastSeq(journal) \in Nat
      /\ origin.revision \in DOMAIN ledger /\ DOMAIN ledger \subseteq Nat
  BY <1>1, CandidateFacts, JournalFacts, RevisionsAreNumbers
<1>3. CASE at <= Len(journal)
  BY <1>1, <1>3, CandidateFacts, ReplayGoesOn
<1>4. CASE at > Len(journal)
  <2>1. origin.revision <= LastSeq(journal)
    BY <1>1, <1>4, ReplayEndsExact
  <2>2. ~(origin.revision > LastSeq(journal))
    BY <1>2, <2>1
  <2> QED
    BY <1>1, <1>2, <1>4, <2>2
<1> QED
  BY <1>2, <1>3, <1>4

\* A backup that the journal may be replayed from is of the history; one that is not
\* was left behind by a checkpoint.
LEMMA TryBackupHInv == ASSUME IInv, HInv, TryBackup PROVE HInv'
<1>1. PICK r \in untried :
         /\ untried' = untried \ {r}
         /\ IF /\ Readable(backups[r])
               /\ r >= OldestRestorable(journal)
               /\ LastSeq(journal) # 0 => r <= LastSeq(journal)
            THEN StartReplay(backups[r], "backup")
            ELSE UNCHANGED <<journal, tornTail, mode, live, origin, at,
                             checkpointRevision>>
  BY DEF TryBackup
<1>2. /\ mode = "choosing" /\ UNCHANGED <<target, staging, backups, saver, ghost>>
  BY DEF TryBackup
<1>3. /\ journal # <<>> /\ LedgerOK /\ FilesOK /\ FallenBackOK /\ SavingOK
      /\ ~Readable(target)
  BY <1>2, RunningHasJournal DEF HInv, FallenBackOK
<1>4. r \in DOMAIN backups /\ r \in Nat
  BY LimitsAssumption DEF IInv, TypeOK, Revision
<1>5. /\ Base \in Nat /\ LastSeq(journal) \in Nat
      /\ DOMAIN ledger = Base .. LastSeq(journal)
  BY <1>3, JournalFacts
<1>6. Readable(backups[r]) => backups[r] \in Document /\ backups[r].revision = r
  BY <1>4, RevisionsAreNumbers
<1>7. CASE Readable(backups[r]) /\ Base <= r
  <2>1. Recalled(backups[r])
    BY <1>3, <1>4, <1>7 DEF FilesOK, SiblingsOK, Trusted
  <2>2. r \in DOMAIN ledger
    BY <1>6, <1>7, <2>1 DEF Recalled
  <2>3. r >= Base /\ r <= LastSeq(journal)
    BY <1>5, <2>2
  <2>4. StartReplay(backups[r], "backup")
    BY <1>1, <1>7, <2>3 DEF Base
  <2> QED
    BY <1>2, <1>3, <1>6, <1>7, <2>1, <2>4, StartReplayHInv DEF Sources
<1>8. CASE ~(Readable(backups[r]) /\ Base <= r)
  <2>1. UNCHANGED <<journal, mode>>
    <3>1. ~(Readable(backups[r]) /\ r >= OldestRestorable(journal))
      BY <1>4, <1>5, <1>8 DEF Base
    <3> QED
      BY <1>1, <3>1
  <2>2. UNCHANGED <<save, ledger, acked, damaged>>
    BY <1>2 DEF saver, ghost
  <2>3. Readable(backups[r]) => r < Base
    BY <1>4, <1>5, <1>8
  <2>4. FallenBackOK'
    <3>1. Base' = Base
      BY <2>1 DEF Base
    <3> QED
      BY <1>1, <1>2, <1>3, <2>1, <2>3, <3>1 DEF FallenBackOK
  <2>5. save'.phase = "idle"
    BY <1>2, <1>3, <2>2 DEF SavingOK
  <2> QED
    BY <1>2, <1>3, <2>1, <2>2, <2>4, <2>5, NoSessionHInv
<1> QED
  BY <1>7, <1>8

\* Every backup was passed over.
LEMMA NoBackupFitsHInv == ASSUME IInv, HInv, NoBackupFits PROVE HInv'
<1>1. /\ mode = "choosing" /\ untried = {} /\ mode' = "failed"
      /\ UNCHANGED <<journal, target, staging, backups, save, ledger, acked, damaged>>
  BY DEF NoBackupFits, disk, saver, ghost
<1>2. journal # <<>> /\ FallenBackOK /\ SavingOK
  BY <1>1, RunningHasJournal DEF HInv
<1>3. FallenBackOK'
  <2>1. Base' = Base
    BY <1>1 DEF Base
  <2> QED
    BY <1>1, <1>2, <2>1 DEF FallenBackOK
<1>4. save'.phase = "idle"
  BY <1>1, <1>2 DEF SavingOK
<1> QED
  BY <1>1, <1>2, <1>3, <1>4, NoSessionHInv

-----------------------------------------------------------------------------
(* Opening: the candidate becomes the session.                             *)

\* A ledger with the same sessions, from the journal's baseline to its end, tells the
\* history of the journal.
LEMMA LedgerCopied ==
    ASSUME IInv, Recorded, Dated, RecordsDecode, journal # <<>>,
           UNCHANGED journal, DOMAIN ledger' = Base .. LastSeq(journal),
           \A r \in DOMAIN ledger' : ledger'[r] = ledger[r],
           LastSeq(journal) \in {acked', acked' + 1}
    PROVE  LedgerOK' /\ RecordsDecode' /\ Base' = Base
<1> DEFINE s == ledger[Base]
           size == CompactSize(s)
           n == Len(journal)
           last == LastSeq(journal)
<1>1. /\ Base \in Nat \ {0} /\ Base <= last
      /\ last \in Nat /\ Base .. last \subseteq DOMAIN ledger
      /\ n \in Nat /\ size \in 1 .. n /\ last = journal[n].seq
      /\ \A i \in 1 .. n : journal[i].seq \in Nat /\ journal[i].seq = Base + i - size
  BY RecordFacts
<1>2. /\ \A i \in 1 .. n :
            IF i <= size THEN CompactRecord(s, journal[i], i)
            ELSE Advances(ledger[journal[i].seq - 1], journal[i], ledger[journal[i].seq])
      /\ journal[1].seq = Base + 1 - size
      /\ \A r \in DOMAIN ledger : ledger[r].doc.revision = r
  BY DEF Recorded, Dated
<1>3. Base' = Base
  BY DEF Base
<1> HIDE DEF size, n, last
<1>4. Base \in DOMAIN ledger' /\ DOMAIN ledger' \subseteq DOMAIN ledger
  BY <1>1 DEF last
<1>5. ledger'[Base'] = s
  BY <1>3, <1>4
<1>6. ASSUME NEW i \in 1 .. n, ~(i <= size)
      PROVE  journal[i].seq \in DOMAIN ledger' /\ journal[i].seq - 1 \in DOMAIN ledger'
  <2>1. n \in 1 .. n /\ last = Base + n - size
    BY <1>1 DEF last
  <2>2. Base \in Nat /\ n \in Nat /\ size \in Nat /\ i \in Nat
    BY <1>1
  <2>3. size + 1 <= i /\ i <= n
    BY <1>6, <2>2
  <2>4. PICK m \in Nat : m = Base + i - size
    BY ONLY <2>2, <2>3
  <2>5. m \in Base .. last /\ m - 1 \in Base .. last
    BY ONLY <2>1, <2>2, <2>3, <2>4
  <2>6. journal[i].seq = m
    BY <1>1, <2>4
  <2> QED
    BY <2>5, <2>6 DEF last
<1>7. \A i \in 1 .. n :
         IF i <= size THEN CompactRecord(s, journal[i], i)
         ELSE Advances(ledger'[journal[i].seq - 1], journal[i], ledger'[journal[i].seq])
  BY <1>2, <1>6
<1>8. Recorded'
  <2>1. \A r \in DOMAIN ledger' : Base <= r
    BY <1>1 DEF last
  <2> QED
    BY <1>1, <1>2, <1>3, <1>5, <1>7, <2>1 DEF Recorded, size, n, last
<1>9. RecordsDecode'
  BY <1>4 DEF RecordsDecode
<1>10. Dated'
  BY <1>2, <1>4 DEF Dated
<1> QED
  BY <1>3, <1>8, <1>9, <1>10 DEF LedgerOK

\* The save service of a session starts from the project file, if there is one.
LEMMA SessionBegins ==
    ASSUME IInv, NEW revision \in Nat, GoLive(revision), UNCHANGED disk,
           revision <= live.doc.revision,
           IF revision = 0 THEN ~Readable(target)
           ELSE Readable(target) /\ target.revision = revision,
           LedgerOK', RecordsDecode', FilesOK', OldestIsDefault'
    PROVE  HInv'
<1>1. /\ mode' = "open" /\ acked' = live.doc.revision /\ save' = IdleSave
      /\ requested' = 0 /\ durable' = revision
      /\ UNCHANGED <<target, live>> /\ ledger'[acked'] = live
  BY DEF GoLive, disk
<1>2. live.doc.revision \in Nat
  BY RevisionsAreNumbers
<1>3. SavingOK'
  BY <1>1 DEF SavingOK, IdleSave
<1>4. OpenOK'
  <2>1. live' = ledger'[acked']
    BY <1>1
  <2>2. durable' <= acked' /\ requested' <= acked'
    BY <1>1, <1>2
  <2>3. /\ durable' # 0 => Readable(target) /\ durable' <= target.revision
        /\ Readable(target) => target.revision <= durable'
    BY <1>1
  <2>4. save'.phase = "idle" /\ save'.pending = NoFile
    BY <1>1 DEF IdleSave
  <2> QED
    BY <1>1, <2>1, <2>2, <2>3, <2>4 DEF OpenOK
<1>5. CandidateOK' /\ FallenBackOK' /\ RestoringOK'
  BY <1>1 DEF CandidateOK, FallenBackOK, RestoringOK
<1> QED
  BY <1>3, <1>4, <1>5 DEF HInv

\* The sessions that the ledger keeps when the one at the journal's end goes live.
LEMMA LedgerTrimmed ==
    ASSUME IInv, Recorded, Dated, RecordsDecode, journal # <<>>,
           live = ledger[LastSeq(journal)], NEW revision, GoLive(revision), UNCHANGED disk
    PROVE  /\ LedgerOK' /\ RecordsDecode' /\ Base' = Base
           /\ live.doc.revision = LastSeq(journal)
           /\ DOMAIN ledger' = Base .. LastSeq(journal) /\ DOMAIN ledger' \subseteq DOMAIN ledger
           /\ \A r \in DOMAIN ledger' : ledger'[r] = ledger[r]
<1> DEFINE last == LastSeq(journal)
<1>1. /\ Base \in Nat /\ last \in Nat /\ Base <= last /\ Base .. last \subseteq DOMAIN ledger
      /\ \A r \in DOMAIN ledger : Base <= r /\ r \in Nat
  BY RecordFacts, RevisionsAreNumbers
<1>2. last \in DOMAIN ledger /\ live.doc.revision = last
  BY <1>1 DEF Dated
<1>3. /\ acked' = last /\ journal' = journal
      /\ ledger' = [r \in {q \in DOMAIN ledger : Base <= q /\ q < last} \cup {last} |->
                       IF r = last THEN live ELSE ledger[r]]
  BY <1>2 DEF GoLive, Base, disk
<1> HIDE DEF last
<1>4. {q \in DOMAIN ledger : Base <= q /\ q < last} \cup {last} = Base .. last
  BY <1>1, <1>2
<1>5. DOMAIN ledger' = Base .. last /\ \A r \in DOMAIN ledger' : ledger'[r] = ledger[r]
  BY <1>3, <1>4 DEF last
<1>6. LedgerOK' /\ RecordsDecode' /\ Base' = Base
  BY <1>3, <1>5, LedgerCopied DEF last
<1> QED
  BY <1>1, <1>2, <1>5, <1>6 DEF last

\* The rebuilt session is the history's last one.
LEMMA GoLiveHInv ==
    ASSUME IInv, HInv, journal # <<>>, live = ledger[LastSeq(journal)],
           NEW revision \in Nat, GoLive(revision), revision <= LastSeq(journal),
           IF revision = 0 THEN ~Readable(target)
           ELSE Readable(target) /\ target.revision = revision,
           UNCHANGED disk
    PROVE  HInv'
<1>1. LedgerOK /\ Recorded /\ Dated /\ RecordsDecode /\ FilesOK /\ OldestIsDefault
  BY DEF HInv, LedgerOK
<1>2. /\ LedgerOK' /\ RecordsDecode' /\ Base' = Base
      /\ live.doc.revision = LastSeq(journal)
      /\ DOMAIN ledger' = DOMAIN ledger /\ \A r \in DOMAIN ledger : ledger'[r] = ledger[r]
  BY <1>1, LedgerTrimmed, JournalFacts
<1>3. UNCHANGED <<target, staging, backups, damaged>>
  BY DEF disk, GoLive
<1>4. \A d : Recalled(d) => Recalled(d)'
  BY <1>2 DEF Recalled
<1>5. FilesOK' /\ OldestIsDefault'
  BY <1>1, <1>2, <1>3, <1>4 DEF FilesOK, SiblingsOK, Trusted, JournalIntact,
     OldestIsDefault, Recalled
<1> QED
  BY <1>2, <1>5, SessionBegins

\* A replay of the project file, or of the journal alone, ends in the last session.
LEMMA FinishReplayHInv == ASSUME IInv, HInv, FinishReplay PROVE HInv'
<1> DEFINE revision == IF origin.from = "project" THEN origin.revision ELSE 0
<1>1. mode = "replaying" /\ at > Len(journal) /\ GoLive(revision) /\ UNCHANGED disk
  BY DEF FinishReplay
<1>2. /\ journal # <<>> /\ live = ledger[LastSeq(journal)]
      /\ origin.revision <= LastSeq(journal) /\ LastSeq(journal) \in Nat
      /\ origin.revision \in Nat \ {0} /\ CandidateOK
  BY <1>1, ReplayEndsExact, CandidateFacts, JournalFacts, RevisionsAreNumbers
<1>3. IF revision = 0 THEN ~Readable(target)
      ELSE Readable(target) /\ target.revision = revision
  BY <1>1, <1>2 DEF CandidateOK
<1>4. revision \in Nat /\ revision <= LastSeq(journal)
  BY <1>2
<1> HIDE DEF revision
<1> QED
  BY <1>1, <1>2, <1>3, <1>4, GoLiveHInv

\* The backup that is written back is the candidate that was replayed.
LEMMA BeginRestoreHInv == ASSUME IInv, HInv, BeginRestore PROVE HInv'
<1> DEFINE b == backups[origin.revision]
<1>1. /\ mode = "replaying" /\ origin.from = "backup" /\ at > Len(journal)
      /\ mode' = "restoring" /\ save' = QueuedSave(b)
      /\ UNCHANGED <<journal, target, staging, backups, origin, live, ledger, acked, damaged>>
  BY DEF BeginRestore, disk, opening, session, ghost
<1>2. /\ journal # <<>> /\ live = ledger[LastSeq(journal)] /\ LedgerOK /\ RecordsDecode
      /\ origin.revision \in DOMAIN ledger /\ CandidateOK /\ FilesOK /\ OldestIsDefault
  BY <1>1, ReplayEndsExact, CandidateFacts DEF HInv
<1>3. ~Readable(target)
  BY <1>1, <1>2 DEF CandidateOK
<1>4. b \in Document /\ b.revision = origin.revision /\ Readable(b)
      /\ origin.revision \in DOMAIN backups
  BY <1>1, RevisionsAreNumbers DEF IInv, ReplayOK
<1>5. Recalled(b)
  <2>1. Base \in Nat /\ LastSeq(journal) \in Nat /\ DOMAIN ledger = Base .. LastSeq(journal)
    BY <1>2, JournalFacts
  <2>2. Base <= origin.revision
    BY <1>2, <2>1
  <2> QED
    BY <1>2, <1>3, <1>4, <2>2 DEF FilesOK, SiblingsOK, Trusted
<1>6. LedgerOK' /\ RecordsDecode' /\ Base' = Base
  BY <1>1, <1>2, HistoryKept
<1>7. FilesOK' /\ OldestIsDefault'
  BY <1>1, <1>2, <1>6 DEF FilesOK, SiblingsOK, Trusted, JournalIntact,
     OldestIsDefault, Recalled
<1>8. save'.phase = "queued" /\ save'.doc = b
  BY <1>1 DEF QueuedSave
<1>9. SavingOK' /\ RestoringOK'
  BY <1>1, <1>2, <1>3, <1>4, <1>5, <1>8 DEF SavingOK, RestoringOK, Recalled
<1>10. CandidateOK' /\ FallenBackOK' /\ OpenOK'
  BY <1>1 DEF CandidateOK, FallenBackOK, OpenOK
<1> QED
  BY <1>6, <1>7, <1>9, <1>10 DEF HInv

\* The restored project file is the backup.
LEMMA FinishRestoreHInv == ASSUME IInv, HInv, FinishRestore PROVE HInv'
<1>1. mode = "restoring" /\ save.phase = "replaced" /\ GoLive(origin.revision) /\ UNCHANGED disk
  BY DEF FinishRestore
<1>2. /\ journal # <<>> /\ LedgerOK /\ SavingOK /\ RestoringOK
  BY <1>1, SavingFacts
<1>3. /\ live = ledger[LastSeq(journal)] /\ save.doc.revision = origin.revision
      /\ target = save.doc /\ Recalled(save.doc)
  BY <1>1, <1>2 DEF SavingOK, RestoringOK
<1>4. Readable(target) /\ target.revision = origin.revision /\ origin.revision \in Nat \ {0}
  BY <1>3, RevisionsAreNumbers
<1>5. origin.revision <= LastSeq(journal)
  <2>1. Base \in Nat /\ LastSeq(journal) \in Nat /\ DOMAIN ledger = Base .. LastSeq(journal)
    BY <1>2, JournalFacts
  <2>2. origin.revision \in DOMAIN ledger
    BY <1>3 DEF Recalled
  <2> QED
    BY <2>1, <2>2
<1> QED
  BY <1>1, <1>2, <1>3, <1>4, <1>5, GoLiveHInv

-----------------------------------------------------------------------------
(* The environment and the history.                                        *)

\* A crash leaves the disk, and the disk is the history.
LEMMA TerminateHInv == ASSUME IInv, HInv, Terminate PROVE HInv'
<1>1. /\ mode # "closed" /\ mode' = "closed" /\ save' = IdleSave
      /\ UNCHANGED <<journal, target, staging, backups, ledger, acked, damaged>>
  BY DEF Terminate, disk, ghost
<1>2. journal # <<>> /\ FallenBackOK' /\ save'.phase = "idle"
  BY <1>1, RunningHasJournal DEF FallenBackOK, IdleSave
<1> QED
  BY <1>1, <1>2, NoSessionHInv

\* A file that is damaged at rest says nothing more.
LEMMA DamageHInv ==
    ASSUME IInv, HInv, mode = "closed", mode' = "closed", journal # <<>>, damaged = {},
           UNCHANGED <<journal, staging, ledger, acked, save>>,
           target' = target \/ /\ ~Readable(target') /\ "target" \in damaged'
                               /\ SeedDocuments = {},
           DOMAIN backups' = DOMAIN backups,
           \A r \in DOMAIN backups : backups'[r] \in {backups[r], Torn}
    PROVE  HInv'
<1>1. LedgerOK /\ RecordsDecode /\ FilesOK /\ OldestIsDefault /\ SavingOK
  BY DEF HInv
<1>2. LedgerOK' /\ RecordsDecode' /\ Base' = Base
  BY <1>1, HistoryKept
<1>3. \A r \in DOMAIN backups' : Readable(backups'[r]) => backups'[r] = backups[r]
  BY DEF Readable
<1>4. FilesOK'
  <2>1. Readable(target') => target' = target
    OBVIOUS
  <2>2. SiblingsOK
    BY <1>1 DEF FilesOK, Trusted, JournalIntact
  <2>3. SiblingsOK'
    BY <1>2, <1>3, <2>1, <2>2 DEF SiblingsOK, Recalled
  <2>4. Base > 1 /\ "target" \notin damaged' => Readable(target')
    BY <1>1 DEF FilesOK
  <2> QED
    BY <1>1, <1>2, <2>1, <2>3, <2>4 DEF FilesOK, Recalled
<1>5. OldestIsDefault'
  BY <1>1 DEF OldestIsDefault
<1>6. SavingOK'
  BY <1>1 DEF SavingOK
<1>7. CandidateOK' /\ FallenBackOK' /\ RestoringOK' /\ OpenOK'
  BY DEF CandidateOK, FallenBackOK, RestoringOK, OpenOK
<1> QED
  BY <1>2, <1>4, <1>5, <1>6, <1>7 DEF HInv

\* Without saved projects from before, a readable project file comes with a journal.
LEMMA DamageTargetHInv ==
    ASSUME IInv, HInv, SeedsStay, DamageTarget PROVE HInv'
<1>1. /\ mode = "closed" /\ mode' = "closed" /\ Readable(target) /\ target' \in {NoFile, Torn}
      /\ "target" \in MediaFaults /\ damaged = {} /\ damaged' = {"target"}
      /\ UNCHANGED <<journal, staging, backups, ledger, acked, save>>
  BY DEF DamageTarget, Damage, saver
<1>2. SeedDocuments = {}
  BY <1>1 DEF SeedsStay
<1>3. journal # <<>>
  <2>1. ~Readable(NoFile)
    BY DEF Readable
  <2> QED
    BY <1>1, <1>2, <2>1 DEF HInv, LedgerOK, NeverOpened
<1>4. ~Readable(target')
  BY <1>1 DEF Readable
<1> QED
  BY <1>1, <1>2, <1>3, <1>4, DamageHInv

\* A project with backups has a journal.
LEMMA DamageBackupHInv == ASSUME IInv, HInv, DamageBackup PROVE HInv'
<1>1. /\ mode = "closed" /\ mode' = "closed" /\ damaged = {}
      /\ DOMAIN backups # {}
      /\ DOMAIN backups' = DOMAIN backups
      /\ \A r \in DOMAIN backups : backups'[r] \in {backups[r], Torn}
      /\ UNCHANGED <<journal, target, staging, ledger, acked, save>>
  BY DEF DamageBackup, Damage, saver
<1>2. journal # <<>>
  BY <1>1, RunningHasJournal
<1> QED
  BY <1>1, <1>2, DamageHInv

\* A stuttering step.
LEMMA StutterHInv == ASSUME HInv, UNCHANGED vars PROVE HInv'
<1>1. UNCHANGED <<journal, target, staging, backups, mode, live, origin, at, untried, save,
                  requested, durable, ledger, acked, damaged>>
  BY DEF vars, disk, opening, session, saver, ghost
<1>2. JournalIntact' = JournalIntact /\ Base' = Base
  BY <1>1 DEF JournalIntact, Base
<1>3. LedgerOK' = LedgerOK /\ RecordsDecode' = RecordsDecode
  BY <1>1, <1>2 DEF LedgerOK, NeverOpened, Recorded, Dated, RecordsDecode
<1>4. FilesOK' = FilesOK /\ OldestIsDefault' = OldestIsDefault /\ SavingOK' = SavingOK
  BY <1>1, <1>2 DEF FilesOK, SiblingsOK, Trusted, OldestIsDefault, SavingOK, Recalled
<1>5. CandidateOK' = CandidateOK /\ FallenBackOK' = FallenBackOK
  BY <1>1, <1>2 DEF CandidateOK, Retracing, FallenBackOK, Recalled
<1>6. RestoringOK' = RestoringOK /\ OpenOK' = OpenOK
  BY <1>1 DEF RestoringOK, OpenOK, Recalled
<1> QED
  BY <1>2, <1>3, <1>4, <1>5, <1>6 DEF HInv

-----------------------------------------------------------------------------
(* A journal that lost records, until the project could be opened again.   *)

\* Every snapshot that may be looked at is of the history, and so is the default session
\* if there is no project file.
FilesRecalled ==
    /\ Readable(target) => Recalled(target)
    /\ Readable(staging) => Recalled(staging)
    /\ \A r \in DOMAIN backups :
          Readable(backups[r]) /\ (\E q \in DOMAIN ledger : q <= r) => Recalled(backups[r])
    /\ 1 \in DOMAIN ledger \/ Readable(target)

\* The candidate is the project file; or a backup; or the default session, and then
\* there is no snapshot of any kind.
SourceOK ==
    mode = "replaying" =>
        /\ origin.from = "project" => Readable(target) /\ target.revision = origin.revision
        /\ origin.from = "journal" =>
              /\ origin.revision = 1 /\ target = NoFile /\ staging = NoFile
              /\ DOMAIN backups = {}

\* A backup of the history is being written back, one that the journal reaches beyond.
WriteBackOK ==
    /\ mode # "restoring" => save.phase = "idle"
    /\ mode = "restoring" =>
          /\ save.phase # "idle" /\ save.doc.revision = origin.revision /\ Recalled(save.doc)
          /\ origin.revision <= LastSeq(journal)
          /\ save.phase = "flushed" => staging = save.doc
          /\ save.phase = "replaced" => target = save.doc

\* What is left of the journal is the history up to an earlier revision ...
Cut ==
    /\ journal # <<>> /\ Recorded /\ Retracing
    /\ mode = "restoring" => live = ledger[LastSeq(journal)]

\* ... or ends before its own baseline, so that no replay gets past the first record ...
Locked ==
    /\ journal # <<>> /\ LastSeq(journal) < Base /\ mode # "restoring"
    /\ mode = "replaying" => at = 1

\* ... or is nothing: either there is no journal, or a candidate has started a new one.
Lost ==
    /\ journal = <<>> /\ mode \in {"closed", "choosing", "failed"}
    /\ mode = "choosing" => ~Readable(target)
RestartedAt(b) ==
    /\ journal = <<BaselineRecord(b, b)>>
    /\ mode \in {"replaying", "restoring"} =>
          /\ origin.revision \in DOMAIN ledger
          /\ live = FreshSession(ledger[origin.revision].doc)
Restarted == \E b \in DOMAIN ledger : RestartedAt(b)

\* The invariant of the time between the loss and the next session.
LossInv ==
    /\ ~JournalIntact /\ mode # "open" /\ Dated /\ RecordsDecode
    /\ FilesRecalled /\ OldestIsDefault /\ SourceOK /\ WriteBackOK
    /\ Cut \/ Locked \/ Lost \/ Restarted

\* The damage leaves a beginning of the journal, and the files.
LEMMA DamageJournalLoss == ASSUME IInv, HInv, DamageJournal PROVE LossInv'
<1> DEFINE s == ledger[Base]
           size == CompactSize(s)
<1>1. /\ mode = "closed" /\ mode' = "closed" /\ damaged = {} /\ damaged' = {"journal"}
      /\ UNCHANGED <<target, staging, backups, save, ledger>>
  BY DEF DamageJournal, Damage, saver
<1>2. PICK n \in 0 .. (Len(journal) - 1) : journal' = SubSeq(journal, 1, n)
  BY DEF DamageJournal
<1>3. journal # <<>>
  <2>1. CASE journal = <<>>
    <3>1. n \in 0 .. -1
      BY <1>2, <2>1
    <3> QED
      BY <3>1
  <2> QED
    BY <2>1
<1>4. LedgerOK /\ Recorded /\ Dated /\ RecordsDecode /\ FilesOK /\ OldestIsDefault /\ SavingOK
  BY <1>3 DEF HInv, LedgerOK
<1>5. /\ Base = journal[1].base /\ Base \in Nat \ {0} /\ Base <= LastSeq(journal)
      /\ DOMAIN ledger = Base .. LastSeq(journal) /\ LastSeq(journal) \in Nat
      /\ Len(journal) \in Nat /\ size \in 1 .. Len(journal) /\ HasBaseline(journal)
      /\ LastSeq(journal) = journal[Len(journal)].seq
      /\ DOMAIN journal = 1 .. Len(journal)
      /\ \A i \in 1 .. Len(journal) :
            journal[i].seq \in Nat /\ journal[i].seq = Base + i - size
  BY <1>3, <1>4, JournalFacts
<1>6. /\ n \in Nat /\ n <= Len(journal) /\ n \in 0 .. Len(journal)
      /\ \A i \in 1 .. n : i \in 1 .. Len(journal)
  BY <1>5
<1>7. /\ Len(journal') = n /\ DOMAIN journal' = 1 .. n /\ journal' \in Seq(Record)
      /\ \A i \in 1 .. n : journal'[i] = journal[i]
  <2>1. journal \in Seq(Record)
    BY DEF IInv, TypeOK
  <2>2. /\ Len(journal') = n /\ journal' \in Seq(Record)
        /\ \A i \in 1 .. n : journal'[i] = journal[i]
    BY <1>2, <1>6, <2>1, PrefixType
  <2> QED
    BY <2>2, LenProperties
<1> HIDE DEF size
<1>8. RecordsDecode'
  BY <1>1, <1>4, <1>5, <1>6, <1>7 DEF RecordsDecode
<1>9. FilesRecalled'
  <2>1. SiblingsOK
    BY <1>1, <1>4 DEF FilesOK, Trusted, JournalIntact
  <2>2. 1 \in DOMAIN ledger \/ Readable(target)
    <3>1. CASE Base > 1
      BY <1>1, <1>4, <3>1 DEF FilesOK
    <3>2. CASE ~(Base > 1)
      <4>1. /\ Base \in Nat \ {0} /\ LastSeq(journal) \in Nat /\ Base <= LastSeq(journal)
            /\ DOMAIN ledger = Base .. LastSeq(journal)
        BY <1>5
      <4>2. Base = 1
        BY <3>2, <4>1
      <4> QED
        BY ONLY <4>1, <4>2
    <3> QED
      BY <3>1, <3>2
  <2>3. \A r \in DOMAIN backups : (\E q \in DOMAIN ledger : q <= r) => Base <= r
    <3>1. \A r \in DOMAIN backups : r \in Nat
      BY LimitsAssumption DEF IInv, TypeOK, Revision
    <3> QED
      BY <1>5, <3>1
  <2> QED
    BY <1>1, <1>4, <2>1, <2>2, <2>3 DEF FilesRecalled, FilesOK, SiblingsOK, Recalled
<1>10. Dated' /\ OldestIsDefault' /\ SourceOK' /\ WriteBackOK' /\ ~JournalIntact'
  BY <1>1, <1>4 DEF Dated, OldestIsDefault, SourceOK, WriteBackOK, SavingOK, JournalIntact
<1>11. CASE n = 0
  <2>1. journal' = <<>>
    BY <1>7, <1>11, EmptySeq
  <2> QED
    BY <1>1, <1>8, <1>9, <1>10, <2>1 DEF LossInv, Lost
<1>12. CASE n # 0
  <2>1. /\ journal' # <<>> /\ journal'[1] = journal[1] /\ n \in 1 .. n /\ 1 \in 1 .. n
    BY <1>6, <1>7, <1>12, EmptySeq
  <2>2. Base' = Base
    <3>1. HasBaseline(journal')
      BY <1>5, <2>1 DEF HasBaseline
    <3> QED
      BY <1>5, <2>1, <3>1 DEF Base, OldestRestorable
  <2>3. LastSeq(journal') = Base + n - size
    <3>1. LastSeq(journal') = journal[n].seq
      BY <1>7, <2>1 DEF LastSeq, Last
    <3> QED
      BY <1>5, <1>6, <2>1, <3>1
  <2>4. CASE n < size
    <3>1. LastSeq(journal') < Base'
      BY <1>5, <1>6, <2>2, <2>3, <2>4
    <3>2. Locked'
      BY <1>1, <2>1, <3>1 DEF Locked
    <3> QED
      BY <1>1, <1>8, <1>9, <1>10, <3>2 DEF LossInv
  <2>5. CASE ~(n < size)
    <3>1. /\ Base <= LastSeq(journal') /\ LastSeq(journal') <= LastSeq(journal)
          /\ LastSeq(journal') \in Nat
      <4>1. LastSeq(journal) = Base + Len(journal) - size
        <5>1. Len(journal) \in 1 .. Len(journal)
          BY <1>5
        <5> QED
          BY <1>5, <5>1
      <4>2. /\ Base \in Nat /\ size \in Nat /\ n \in Nat /\ Len(journal) \in Nat
            /\ n <= Len(journal) /\ size <= n
        BY <1>5, <1>6, <2>5
      <4> QED
        BY <2>3, <4>1, <4>2
    <3>2. Base' .. LastSeq(journal') \subseteq DOMAIN ledger' /\ Base' <= LastSeq(journal')
          /\ \A r \in DOMAIN ledger' : Base' <= r
      BY <1>1, <1>5, <2>2, <3>1
    <3>3. Recorded'
      <4>1. ledger'[Base'] = s /\ CompactSize(ledger'[Base']) = size
        BY <1>1, <2>2 DEF size
      <4>2. journal[1].seq = Base + 1 - size
        BY <1>4 DEF Recorded, size
      <4>3. \A i \in 1 .. n :
               IF i <= size THEN CompactRecord(s, journal[i], i)
               ELSE Advances(ledger[journal[i].seq - 1], journal[i], ledger[journal[i].seq])
        BY <1>4, <1>6 DEF Recorded, size
      <4>4. Len(journal') = n /\ ledger' = ledger /\ \A i \in 1 .. n : journal'[i] = journal[i]
        BY <1>1, <1>7
      <4>5. journal'[1].seq = Base' + 1 - CompactSize(ledger'[Base'])
        BY <2>1, <2>2, <4>1, <4>2
      <4> HIDE DEF s, size
      <4>6. \A i \in 1 .. Len(journal') :
               IF i <= CompactSize(ledger'[Base'])
               THEN CompactRecord(ledger'[Base'], journal'[i], i)
               ELSE Advances(ledger'[journal'[i].seq - 1], journal'[i], ledger'[journal'[i].seq])
        BY <4>1, <4>3, <4>4
      <4> QED
        BY <3>2, <4>5, <4>6 DEF Recorded
    <3>4. Cut'
      BY <1>1, <2>1, <3>3 DEF Cut, Retracing
    <3> QED
      BY <1>1, <1>8, <1>9, <1>10, <3>4 DEF LossInv
  <2> QED
    BY <2>4, <2>5
<1> QED
  BY <1>11, <1>12

\* Steps that end in a mode without a session, or without a candidate.
LEMMA LossKept ==
    ASSUME LossInv, UNCHANGED <<journal, target, staging, backups, ledger, damaged>>,
           mode' \in {"closed", "choosing", "failed"}, save'.phase = "idle",
           journal = <<>> /\ mode' = "choosing" => ~Readable(target)
    PROVE  LossInv'
<1>1. /\ ~JournalIntact' /\ Dated' /\ RecordsDecode' /\ OldestIsDefault' /\ UNCHANGED Base
  BY DEF LossInv, JournalIntact, Dated, RecordsDecode, OldestIsDefault, Base
<1>2. FilesRecalled' /\ SourceOK' /\ WriteBackOK'
  BY DEF LossInv, FilesRecalled, SourceOK, WriteBackOK, Recalled
<1>3. CASE Cut
  <2>1. Recorded'
    BY <1>1, <1>3 DEF Cut, Recorded
  <2>2. Cut'
    BY <1>3, <2>1 DEF Cut, Retracing
  <2> QED
    BY <1>1, <1>2, <2>2 DEF LossInv
<1>4. CASE Locked \/ Lost
  BY <1>1, <1>2, <1>4 DEF LossInv, Locked, Lost
<1>5. CASE Restarted
  <2>1. Restarted'
    BY <1>5 DEF Restarted, RestartedAt
  <2> QED
    BY <1>1, <1>2, <2>1 DEF LossInv
<1> QED
  BY <1>3, <1>4, <1>5 DEF LossInv

\* A document of the history becomes the candidate.
LEMMA LossStart ==
    ASSUME IInv, LossInv, mode # "restoring", NEW d \in Document, NEW source \in Sources,
           StartReplay(d, source), Recalled(d),
           \/ target' = target /\ staging' \in {staging, NoFile}
           \/ ~Readable(target) /\ Readable(staging) /\ target' = staging /\ staging' = NoFile,
           source = "project" => target' = d,
           source = "journal" => /\ d.revision = 1 /\ target' = NoFile /\ staging' = NoFile
                                 /\ DOMAIN backups = {},
           UNCHANGED <<backups, saver, ghost>>
    PROVE  LossInv'
<1>1. /\ mode' = "replaying" /\ at' = 1 /\ live' = FreshSession(d)
      /\ origin'.revision = d.revision /\ origin'.from = source
      /\ journal' = IF journal = <<>> THEN <<BaselineRecord(d.revision, d.revision)>>
                    ELSE journal
  BY DEF StartReplay
<1>2. UNCHANGED <<ledger, damaged, save>> /\ save.phase = "idle"
  BY DEF ghost, saver, LossInv, WriteBackOK
<1>3. ~Readable(NoFile) /\ Readable(d)
  BY RevisionsAreNumbers
<1>4. ~JournalIntact' /\ Dated'
  BY <1>2 DEF LossInv, JournalIntact, Dated
<1>5. RecordsDecode'
  <2>1. Decodes(BaselineRecord(d.revision, d.revision))
    BY BaselineFields DEF Decodes
  <2> QED
    BY <1>1, <1>2, <2>1 DEF LossInv, RecordsDecode
<1>6. FilesRecalled' /\ OldestIsDefault'
  BY <1>2, <1>3 DEF LossInv, FilesRecalled, OldestIsDefault, Recalled
<1>7. SourceOK' /\ WriteBackOK'
  BY <1>1, <1>2, <1>3 DEF SourceOK, WriteBackOK
<1>8. CASE Cut
  <2>1. journal # <<>> /\ Recorded /\ Dated /\ journal' = journal
    BY <1>1, <1>8 DEF Cut, LossInv
  <2>2. Base' = Base /\ Recorded'
    BY <1>2, <2>1 DEF Base, Recorded
  <2>3. CompactSize(ledger[Base]) \in Nat \ {0}
    BY <2>1, RecordFacts
  <2>4. ~(at' > 1) /\ ~(at' > CompactSize(ledger'[Base']) + 1)
    BY <1>1, <1>2, <2>2, <2>3
  <2>5. /\ live'.doc = d /\ live'.undo = <<>> /\ live'.redo = <<>>
        /\ d.revision \in DOMAIN ledger' /\ d = ledger'[d.revision].doc
    BY <1>1, <1>2 DEF FreshSession, Recalled
  <2>6. Retracing'
    BY <1>1, <2>4, <2>5 DEF Retracing, Recalled
  <2>7. Cut'
    BY <1>1, <2>1, <2>2, <2>6 DEF Cut
  <2> QED
    BY <1>1, <1>4, <1>5, <1>6, <1>7, <2>7 DEF LossInv
<1>9. CASE Locked
  <2>1. Locked'
    BY <1>1, <1>9 DEF Locked, Base
  <2> QED
    BY <1>1, <1>4, <1>5, <1>6, <1>7, <2>1 DEF LossInv
<1>10. CASE Lost \/ Restarted
  <2>1. PICK b \in DOMAIN ledger : journal' = <<BaselineRecord(b, b)>>
    <3>1. CASE Lost
      BY <1>1, <3>1 DEF Lost, Recalled
    <3>2. CASE Restarted
      BY <1>1, <3>2 DEF Restarted, RestartedAt
    <3> QED
      BY <1>10, <3>1, <3>2
  <2>2. RestartedAt(b)'
    BY <1>1, <1>2, <2>1 DEF RestartedAt, Recalled
  <2>3. Restarted'
    BY <1>2, <2>2 DEF Restarted
  <2> QED
    BY <1>1, <1>4, <1>5, <1>6, <1>7, <2>3 DEF LossInv
<1> QED
  BY <1>8, <1>9, <1>10 DEF LossInv

\* The project file, or the staging file that takes its place, is the candidate.
LEMMA OpenProjectLoss == ASSUME IInv, LossInv, OpenProject PROVE LossInv'
<1>1. /\ mode \in {"closed", "failed"}
      /\ \/ target' = target /\ staging' \in {staging, NoFile} /\ Readable(target)
         \/ ~Readable(target) /\ Readable(staging) /\ target' = staging /\ staging' = NoFile
      /\ StartReplay(target', "project")
      /\ UNCHANGED <<backups, saver, ghost>>
  BY DEF OpenProject
<1>2. target' \in Document /\ Recalled(target')
  BY <1>1, RevisionsAreNumbers DEF LossInv, FilesRecalled
<1> QED
  BY <1>1, <1>2, LossStart DEF Sources

\* Nothing but a journal: if it begins at the first revision, or is lost, the project began
\* with the default session.
LEMMA OpenJournalOnlyLoss == ASSUME IInv, LossInv, OpenJournalOnly PROVE LossInv'
<1>1. /\ mode \in {"closed", "failed"} /\ target = NoFile /\ staging = NoFile
      /\ DOMAIN backups = {} /\ StartReplay(DefaultDocument, "journal")
      /\ UNCHANGED <<target, staging, backups, saver, ghost>>
  BY DEF OpenJournalOnly
<1>2. DefaultDocument.revision = 1
  BY DEF DefaultDocument
<1>3. Recalled(DefaultDocument)
  BY <1>1, <1>2 DEF LossInv, FilesRecalled, OldestIsDefault, Recalled, Readable
<1> QED
  BY <1>1, <1>2, <1>3, DefaultDocumentType, LossStart DEF Sources

\* Without a readable project file, or with a candidate that does not fit what is left of
\* the journal, the backups are next.
LEMMA FallBackLoss ==
    ASSUME IInv, LossInv, FallBack, mode # "restoring",
           journal # <<>> \/ ~Readable(target),
           UNCHANGED <<disk, poisoned, snapshotRevision, saver, ghost>>
    PROVE  LossInv'
<1>1. UNCHANGED <<journal, target, staging, backups, ledger, damaged, save>>
      /\ mode' \in {"choosing", "failed"}
  BY DEF disk, ghost, saver, FallBack
<1>2. save'.phase = "idle"
  BY <1>1 DEF LossInv, WriteBackOK
<1> QED
  BY <1>1, <1>2, LossKept

\* What a replay rejects leaves the files and the rest of the journal.
LEMMA ReplayRejectedLoss == ASSUME IInv, LossInv, ReplayRejected PROVE LossInv'
<1>1. mode = "replaying" /\ journal # <<>>
      /\ UNCHANGED <<disk, poisoned, snapshotRevision, saver, ghost>>
  BY DEF ReplayRejected, IInv, ReplayOK
<1>2. CASE FallBack
  BY <1>1, <1>2, FallBackLoss
<1>3. CASE mode' \in {"choosing", "failed"}
  <2>1. UNCHANGED <<journal, target, staging, backups, ledger, damaged, save>>
    BY <1>1 DEF disk, ghost, saver
  <2>2. save'.phase = "idle"
    BY <1>1, <2>1 DEF LossInv, WriteBackOK
  <2> QED
    BY <1>1, <1>3, <2>1, <2>2, LossKept
<1> QED
  BY <1>2, <1>3 DEF ReplayRejected

\* The first record of a journal is its baseline.
LEMMA FirstIsBaseline ==
    ASSUME IInv, journal # <<>>
    PROVE  /\ 1 \in 1 .. Len(journal) /\ journal[1].action = "baseline"
           /\ Base = journal[1].base /\ Base \in Nat /\ LastSeq(journal) \in Nat
<1>1. journal \in Seq(Record) /\ Gapless(journal)
  BY DEF IInv, TypeOK, JournalOK
<1>2. 1 \in 1 .. Len(journal) /\ LastSeq(journal) \in Nat
  BY <1>1, GaplessNumbers
<1>3. journal[1] \in Record /\ journal[1].action = "baseline"
  BY <1>1, <1>2, GaplessNumbers
<1>4. journal[1].base \in Nat
  BY <1>3, LimitsAssumption DEF Record, Revision
<1> QED
  BY <1>2, <1>3, <1>4 DEF Base, OldestRestorable, HasBaseline

\* A backup that what is left of the journal may be replayed from is of the history; if
\* nothing is left, every backup is.
LEMMA TryBackupLoss == ASSUME IInv, LossInv, TryBackup PROVE LossInv'
<1>1. PICK r \in untried :
         IF /\ Readable(backups[r])
            /\ r >= OldestRestorable(journal)
            /\ LastSeq(journal) # 0 => r <= LastSeq(journal)
         THEN StartReplay(backups[r], "backup")
         ELSE UNCHANGED <<journal, tornTail, mode, live, origin, at,
                          checkpointRevision>>
  BY DEF TryBackup
<1>2. /\ mode = "choosing" /\ UNCHANGED <<target, staging, backups, saver, ghost>>
  BY DEF TryBackup
<1>3. r \in DOMAIN backups /\ r \in Nat \ {0}
  BY LimitsAssumption DEF IInv, TypeOK, Revision
<1>4. \A q \in DOMAIN ledger : q \in Nat
  BY RevisionsAreNumbers
<1>5. CASE /\ Readable(backups[r]) /\ r >= Base
           /\ LastSeq(journal) # 0 => r <= LastSeq(journal)
  <2>1. StartReplay(backups[r], "backup")
    BY <1>1, <1>5 DEF Base
  <2>2. \E q \in DOMAIN ledger : q <= r
    <3>1. CASE Cut
      <4>1. Base \in DOMAIN ledger /\ Base \in Nat
        BY <3>1, RecordFacts DEF Cut, LossInv
      <4> QED
        BY <1>3, <1>5, <4>1
    <3>2. CASE Locked
      <4>1. /\ journal \in Seq(Record) /\ Gapless(journal) /\ journal # <<>>
        BY <3>2 DEF Locked, IInv, TypeOK, JournalOK
      <4>2. LastSeq(journal) \in Nat /\ LastSeq(journal) # 0
        BY <4>1, GaplessNumbers
      <4>3. Base \in Nat
        BY <4>1, FirstIsBaseline
      <4> QED
        BY <1>3, <1>5, <3>2, <4>2, <4>3 DEF Locked
    <3>3. CASE Lost
      <4>1. 1 \in DOMAIN ledger
        BY <1>2, <3>3 DEF Lost, LossInv, FilesRecalled
      <4> QED
        BY <1>3, <4>1
    <3>4. CASE Restarted
      <4>1. PICK b \in DOMAIN ledger : journal = <<BaselineRecord(b, b)>>
        BY <3>4 DEF Restarted, RestartedAt
      <4>2. Base = b
        BY <4>1, BaselineFields DEF Base, OldestRestorable, HasBaseline
      <4> QED
        BY <1>3, <1>4, <1>5, <4>2
    <3> QED
      BY <3>1, <3>2, <3>3, <3>4 DEF LossInv
  <2>3. Recalled(backups[r]) /\ backups[r] \in Document
    BY <1>3, <1>5, <2>2, RevisionsAreNumbers DEF LossInv, FilesRecalled
  <2> QED
    BY <1>2, <2>1, <2>3, LossStart DEF Sources
<1>6. CASE ~(/\ Readable(backups[r]) /\ r >= Base
             /\ LastSeq(journal) # 0 => r <= LastSeq(journal))
  <2>1. UNCHANGED <<journal, mode>>
    BY <1>1, <1>6 DEF Base
  <2>2. UNCHANGED <<save, ledger, damaged>> /\ save.phase = "idle"
    BY <1>2 DEF saver, ghost, LossInv, WriteBackOK
  <2>3. journal = <<>> => ~Readable(target)
    BY <1>2 DEF LossInv, Cut, Locked, Lost, Restarted, RestartedAt
  <2> QED
    BY <1>2, <2>1, <2>2, <2>3, LossKept
<1> QED
  BY <1>5, <1>6

\* The other steps that end without a candidate.
LEMMA WithoutCandidateLoss ==
    ASSUME IInv, LossInv, OpenUnreadable \/ RefuseJournalOnly \/ NoBackupFits \/ Terminate
    PROVE  LossInv'
<1>1. CASE OpenUnreadable
  BY <1>1, FallBackLoss DEF OpenUnreadable
<1>2. CASE RefuseJournalOnly \/ NoBackupFits
  <2>1. /\ mode \in {"closed", "choosing"} /\ mode' = "failed"
        /\ UNCHANGED <<journal, target, staging, backups, save, ledger, damaged>>
    BY <1>2 DEF RefuseJournalOnly, NoBackupFits, disk, saver, ghost
  <2>2. save'.phase = "idle"
    BY <2>1 DEF LossInv, WriteBackOK
  <2> QED
    BY <2>1, <2>2, LossKept
<1>3. CASE Terminate
  <2>1. /\ mode' = "closed" /\ save'.phase = "idle"
        /\ UNCHANGED <<journal, target, staging, backups, ledger, damaged>>
    BY <1>3 DEF Terminate, disk, ghost, IdleSave
  <2> QED
    BY <2>1, LossKept
<1> QED
  BY <1>1, <1>2, <1>3

\* A replay meets a record of the history, or the baseline of the journal that it started.
LEMMA ReplayRecordLoss == ASSUME IInv, LossInv, ReplayRecord PROVE LossInv'
<1>1. /\ mode = "replaying" /\ at <= Len(journal) /\ Replayable(live, journal, at)
      /\ at \in Nat \ {0} /\ journal # <<>>
      /\ journal[at].action = "baseline" => live' = live
      /\ UNCHANGED <<journal, target, staging, backups, mode, origin, save, ledger, damaged>>
  BY DEF ReplayRecord, disk, saver, ghost, IInv, TypeOK, ReplayOK
<1>2. /\ ~JournalIntact' /\ Dated' /\ RecordsDecode' /\ OldestIsDefault' /\ UNCHANGED Base
  BY <1>1 DEF LossInv, JournalIntact, Dated, RecordsDecode, OldestIsDefault, Base
<1>3. FilesRecalled' /\ SourceOK' /\ WriteBackOK'
  BY <1>1 DEF LossInv, FilesRecalled, SourceOK, WriteBackOK, Recalled
<1>4. CASE Cut
  <2>1. Recorded'
    BY <1>1, <1>2, <1>4 DEF Cut, Recorded
  <2>2. Retracing'
    BY <1>4, RetracingStep DEF Cut, LossInv
  <2>3. Cut'
    BY <1>1, <1>4, <2>1, <2>2 DEF Cut
  <2> QED
    BY <1>1, <1>2, <1>3, <2>3 DEF LossInv
<1>5. CASE Locked
  <2>1. at = 1 /\ LastSeq(journal) < Base
    BY <1>1, <1>5 DEF Locked
  <2>2. journal[1].base <= LastSeq(journal)
    BY <1>1, <2>1, FirstIsBaseline DEF Replayable, BaselineFits
  <2> QED
    BY <1>1, <2>1, <2>2, FirstIsBaseline
<1>6. CASE Restarted
  <2>1. PICK b \in DOMAIN ledger : RestartedAt(b)
    BY <1>6 DEF Restarted
  <2>2. at = 1
    BY <1>1, <2>1 DEF RestartedAt
  <2>3. live' = live
    BY <1>1, <2>2, FirstIsBaseline
  <2>4. RestartedAt(b)'
    BY <1>1, <2>1, <2>3 DEF RestartedAt
  <2>5. Restarted'
    BY <1>1, <2>4 DEF Restarted
  <2> QED
    BY <1>1, <1>2, <1>3, <2>5 DEF LossInv
<1> QED
  BY <1>1, <1>4, <1>5, <1>6 DEF LossInv, Lost

\* Where a replay that was accepted ended: at a session of the history, or in a new journal
\* at a document of the history, without the undo history it had.
LEMMA LossReplayEnds ==
    ASSUME IInv, LossInv, mode = "replaying", at > Len(journal),
           origin.revision <= LastSeq(journal)
    PROVE  /\ origin.revision \in DOMAIN ledger /\ journal # <<>>
           /\ \/ Cut /\ live = ledger[LastSeq(journal)] /\ LastSeq(journal) \in DOMAIN ledger
              \/ /\ RestartedAt(origin.revision)
                 /\ live = FreshSession(ledger[origin.revision].doc)
<1>1. journal # <<>> /\ at \in Nat /\ at # 0 /\ at <= Len(journal) + 1
  BY DEF IInv, TypeOK, ReplayOK
<1>2. CASE Cut
  <2>1. live = ledger[LastSeq(journal)] /\ LastSeq(journal) \in DOMAIN ledger
    BY <1>2, ReplayEnds DEF Cut, LossInv
  <2> QED
    BY <1>1, <1>2, <2>1 DEF Cut, Retracing
<1>3. CASE Locked
  BY <1>1, <1>3, FirstIsBaseline DEF Locked
<1>4. CASE Restarted
  <2>1. PICK b \in DOMAIN ledger : RestartedAt(b)
    BY <1>4 DEF Restarted
  <2>2. /\ origin.revision \in DOMAIN ledger
        /\ live = FreshSession(ledger[origin.revision].doc)
    BY <2>1 DEF RestartedAt
  <2>3. b \in Revision /\ b \in Nat /\ origin.revision \in Nat
    BY <2>2, RevisionsAreNumbers DEF IInv, TypeOK
  <2>4. Len(journal) = 1 /\ journal[1].seq = b /\ LastSeq(journal) = b
    BY <2>1, <2>3, FirstJournal DEF RestartedAt
  <2>5. live.doc.revision = origin.revision
    BY <2>2 DEF LossInv, Dated, FreshSession
  <2>6. b <= origin.revision
    <3>1. at - 1 = 1 /\ at > 1
      BY <1>1, <2>4
    <3>2. \/ live.doc.revision = journal[1].seq
          \/ journal[1].seq <= origin.revision
      BY <3>1 DEF IInv, ReplayOK
    <3> QED
      BY <2>3, <2>4, <2>5, <3>2
  <2>7. b = origin.revision
    BY <2>3, <2>4, <2>6
  <2> QED
    BY <1>1, <2>1, <2>2, <2>7
<1> QED
  BY <1>2, <1>3, <1>4 DEF LossInv, Lost

\* The ledger of a session that was rebuilt in a new journal.
LEMMA LedgerRestarted ==
    ASSUME IInv, Dated, RecordsDecode, NEW b \in DOMAIN ledger,
           journal = <<BaselineRecord(b, b)>>, live = FreshSession(ledger[b].doc),
           NEW revision, GoLive(revision), UNCHANGED disk
    PROVE  /\ LedgerOK' /\ RecordsDecode' /\ Base = b /\ Base' = b /\ LastSeq(journal) = b
           /\ live.doc.revision = b /\ DOMAIN ledger' = {b}
           /\ ledger'[b].doc = ledger[b].doc
<1>1. b \in Revision /\ b \in Nat /\ ledger[b] \in Session /\ ledger[b].doc \in Document
  BY RevisionsAreNumbers, SessionFields DEF IInv, TypeOK
<1>2. /\ Len(journal) = 1 /\ journal # <<>> /\ DOMAIN journal = {1}
      /\ journal[1].seq = b /\ journal[1].base = b /\ LastSeq(journal) = b
      /\ journal[1].action = "baseline"
  BY <1>1, FirstJournal, BaselineFields
<1>3. Base = b
  BY <1>2 DEF Base, OldestRestorable, HasBaseline
<1>4. /\ live.doc = ledger[b].doc /\ live.undo = <<>> /\ live.redo = <<>>
      /\ live.doc.revision = b /\ CompactSize(live) = 1
  BY <1>1, FreshSessionType DEF FreshSession, Dated
<1>5. /\ acked' = b /\ journal' = journal
      /\ DOMAIN ledger' = {q \in DOMAIN ledger : b <= q /\ q < b} \cup {b}
      /\ ledger'[b] = live
  BY <1>3, <1>4 DEF GoLive, Base, disk
<1>6. DOMAIN ledger' = {b}
  <2>1. \A q \in DOMAIN ledger : q \in Nat /\ ~(b <= q /\ q < b)
    BY <1>1, RevisionsAreNumbers
  <2> QED
    BY <1>5, <2>1
<1>7. Base' = b
  BY <1>3, <1>5 DEF Base
<1>8. Recorded' /\ DOMAIN ledger' = Base' .. LastSeq(journal')
  <2>1. DOMAIN ledger' = Base' .. LastSeq(journal') /\ Base' <= LastSeq(journal')
        /\ \A r \in DOMAIN ledger' : Base' <= r
    BY <1>1, <1>2, <1>5, <1>6, <1>7
  <2>2. journal'[1].seq = Base' + 1 - CompactSize(ledger'[Base'])
    BY <1>1, <1>2, <1>4, <1>5, <1>7
  <2>3. \A i \in 1 .. Len(journal') :
           i = 1 /\ i <= CompactSize(ledger'[Base'])
           /\ CompactRecord(ledger'[Base'], journal'[i], i)
    BY <1>2, <1>4, <1>5, <1>7 DEF CompactRecord
  <2> QED
    BY <2>1, <2>2, <2>3 DEF Recorded
<1>9. LedgerOK'
  BY <1>1, <1>2, <1>4, <1>5, <1>6, <1>8 DEF LedgerOK, Dated
<1>10. RecordsDecode'
  <2>1. <<>> \in Seq(RecordEntry)
    OBVIOUS
  <2>2. SessionDecodes(live)
    BY <1>4, <2>1 DEF RecordsDecode, SessionDecodes
  <2> QED
    BY <1>2, <1>5, <1>6, <2>2 DEF RecordsDecode, Decodes
<1> QED
  BY <1>2, <1>3, <1>4, <1>5, <1>6, <1>7, <1>9, <1>10

\* The session that is resumed has a history again: its own.
LEMMA LossEnds ==
    ASSUME IInv, LossInv, journal # <<>>, origin.revision \in DOMAIN ledger,
           \/ Cut /\ live = ledger[LastSeq(journal)]
           \/ /\ RestartedAt(origin.revision)
              /\ live = FreshSession(ledger[origin.revision].doc),
           NEW revision \in {0, origin.revision}, GoLive(revision), UNCHANGED disk,
           origin.revision <= LastSeq(journal),
           revision = 0 => /\ origin.revision = 1 /\ target = NoFile /\ staging = NoFile
                           /\ DOMAIN backups = {},
           revision # 0 => Readable(target) /\ target.revision = revision
    PROVE  HInv'
<1>1. /\ LedgerOK' /\ RecordsDecode' /\ Base' = Base /\ live.doc.revision = LastSeq(journal)
      /\ DOMAIN ledger' = Base .. LastSeq(journal) /\ DOMAIN ledger' \subseteq DOMAIN ledger
      /\ \A r \in DOMAIN ledger' : ledger'[r].doc = ledger[r].doc
      /\ Base <= origin.revision
  <2>1. CASE Cut /\ live = ledger[LastSeq(journal)]
    BY <2>1, LedgerTrimmed DEF Cut, LossInv, Recorded
  <2>2. CASE /\ RestartedAt(origin.revision)
             /\ live = FreshSession(ledger[origin.revision].doc)
    <3> DEFINE b == origin.revision
    <3>1. /\ LedgerOK' /\ RecordsDecode' /\ Base = b /\ Base' = b /\ LastSeq(journal) = b
          /\ live.doc.revision = b /\ DOMAIN ledger' = {b}
          /\ ledger'[b].doc = ledger[b].doc
      BY <2>2, LedgerRestarted DEF LossInv, RestartedAt
    <3>2. b \in Nat /\ {b} = b .. b
      BY RevisionsAreNumbers
    <3> QED
      BY <3>1, <3>2
  <2> QED
    BY <2>1, <2>2
<1>2. /\ origin.revision \in Nat \ {0} /\ Base \in Nat /\ LastSeq(journal) \in Nat
      /\ ~Readable(NoFile)
  BY RevisionsAreNumbers, FirstIsBaseline
<1>3. origin.revision \in DOMAIN ledger'
  BY <1>1, <1>2
<1>4. UNCHANGED <<target, staging, backups, damaged>>
  BY DEF disk, GoLive
<1>5. FilesOK'
  <2>1. Readable(target) => Recalled(target)'
    <3>1. ASSUME Readable(target) PROVE target.revision = origin.revision /\ Recalled(target)
      BY <1>2, <3>1 DEF LossInv, FilesRecalled
    <3> QED
      BY <1>1, <1>3, <1>4, <3>1 DEF Recalled
  <2>2. Base > 1 => Readable(target)
    BY <1>1, <1>2
  <2>3. Trusted' => SiblingsOK'
    <3>1. Trusted' => ~Readable(target)
      BY <1>4 DEF Trusted, JournalIntact, LossInv
    <3>2. ~Readable(target) => staging = NoFile /\ DOMAIN backups = {}
      OBVIOUS
    <3> QED
      BY <1>2, <1>4, <3>1, <3>2 DEF SiblingsOK
  <2> QED
    BY <1>1, <1>4, <2>1, <2>2, <2>3 DEF FilesOK, Recalled
<1>6. OldestIsDefault'
  BY <1>1, <1>4 DEF OldestIsDefault, LossInv
<1>7. revision \in Nat /\ revision <= live.doc.revision
  BY <1>1, <1>2
<1>8. IF revision = 0 THEN ~Readable(target)
      ELSE Readable(target) /\ target.revision = revision
  BY <1>2
<1> QED
  BY <1>1, <1>5, <1>6, <1>7, <1>8, SessionBegins

\* The session is resumed from the project file, or from no snapshot at all.
LEMMA FinishReplayLoss == ASSUME IInv, LossInv, FinishReplay PROVE HInv'
<1> DEFINE revision == IF origin.from = "project" THEN origin.revision ELSE 0
<1>1. /\ mode = "replaying" /\ at > Len(journal) /\ origin.revision <= LastSeq(journal)
      /\ GoLive(revision) /\ UNCHANGED disk /\ origin.from # "backup"
  BY DEF FinishReplay
<1>2. /\ origin.revision \in DOMAIN ledger /\ journal # <<>>
      /\ \/ Cut /\ live = ledger[LastSeq(journal)]
         \/ /\ RestartedAt(origin.revision)
            /\ live = FreshSession(ledger[origin.revision].doc)
  BY <1>1, LossReplayEnds
<1>3. origin.from = "project" \/ origin.from = "journal"
  BY <1>1 DEF IInv, TypeOK, Sources
<1>4. /\ revision = 0 => /\ origin.revision = 1 /\ target = NoFile /\ staging = NoFile
                         /\ DOMAIN backups = {}
      /\ revision # 0 => Readable(target) /\ target.revision = revision
      /\ revision \in {0, origin.revision}
  <2>1. origin.revision # 0
    BY <1>2, RevisionsAreNumbers
  <2> QED
    BY <1>1, <1>3, <2>1 DEF LossInv, SourceOK
<1> HIDE DEF revision
<1> QED
  BY <1>1, <1>2, <1>4, LossEnds

\* The restored project file is the backup that was replayed.
LEMMA FinishRestoreLoss == ASSUME IInv, LossInv, FinishRestore PROVE HInv'
<1>1. mode = "restoring" /\ save.phase = "replaced" /\ GoLive(origin.revision) /\ UNCHANGED disk
  BY DEF FinishRestore
<1>2. /\ save.doc.revision = origin.revision /\ Recalled(save.doc) /\ target = save.doc
      /\ origin.revision <= LastSeq(journal)
  BY <1>1 DEF LossInv, WriteBackOK
<1>3. /\ origin.revision \in DOMAIN ledger /\ origin.revision # 0
      /\ Readable(target) /\ target.revision = origin.revision
  BY <1>2, RevisionsAreNumbers DEF Recalled
<1>4. journal # <<>> /\ live.doc.revision = LastSeq(journal)
  BY <1>1 DEF IInv, LiveOK
<1>5. \/ Cut /\ live = ledger[LastSeq(journal)]
      \/ /\ RestartedAt(origin.revision)
         /\ live = FreshSession(ledger[origin.revision].doc)
  <2>1. CASE Cut
    BY <1>1, <2>1 DEF Cut
  <2>2. CASE Restarted
    <3>1. PICK b \in DOMAIN ledger : RestartedAt(b)
      BY <2>2 DEF Restarted
    <3>2. live = FreshSession(ledger[origin.revision].doc)
      BY <1>1, <3>1 DEF RestartedAt
    <3>3. live.doc.revision = origin.revision
      BY <1>3, <3>2 DEF LossInv, Dated, FreshSession
    <3>4. LastSeq(journal) = b
      <4>1. b \in Revision
        BY DEF IInv, TypeOK
      <4> QED
        BY <3>1, <4>1, FirstJournal DEF RestartedAt
    <3> QED
      BY <1>4, <3>1, <3>2, <3>3, <3>4
  <2> QED
    BY <1>1, <2>1, <2>2 DEF LossInv, Locked, Lost
<1> QED
  BY <1>1, <1>2, <1>3, <1>4, <1>5, LossEnds

\* The backup that is written back is the one that was replayed.
LEMMA BeginRestoreLoss == ASSUME IInv, LossInv, BeginRestore PROVE LossInv'
<1> DEFINE b == backups[origin.revision]
<1>1. /\ mode = "replaying" /\ origin.from = "backup" /\ at > Len(journal)
      /\ origin.revision <= LastSeq(journal)
      /\ mode' = "restoring" /\ save' = QueuedSave(b)
      /\ UNCHANGED <<journal, target, staging, backups, origin, live, ledger, damaged>>
  BY DEF BeginRestore, disk, opening, session, ghost
<1>2. /\ origin.revision \in DOMAIN ledger /\ journal # <<>>
      /\ \/ Cut /\ live = ledger[LastSeq(journal)]
         \/ /\ RestartedAt(origin.revision)
            /\ live = FreshSession(ledger[origin.revision].doc)
  BY <1>1, LossReplayEnds
<1>3. b \in Document /\ b.revision = origin.revision /\ Readable(b)
      /\ origin.revision \in DOMAIN backups
  BY <1>1, RevisionsAreNumbers DEF IInv, ReplayOK
<1>4. Recalled(b)
  <2>1. origin.revision <= origin.revision
    BY <1>2, RevisionsAreNumbers
  <2> QED
    BY <1>2, <1>3, <2>1 DEF LossInv, FilesRecalled
<1>5. save'.phase = "queued" /\ save'.doc = b
  BY <1>1 DEF QueuedSave
<1>6. /\ ~JournalIntact' /\ Dated' /\ RecordsDecode' /\ OldestIsDefault' /\ UNCHANGED Base
  BY <1>1 DEF LossInv, JournalIntact, Dated, RecordsDecode, OldestIsDefault, Base
<1>7. FilesRecalled' /\ SourceOK'
  BY <1>1 DEF LossInv, FilesRecalled, SourceOK, Recalled
<1>8. WriteBackOK'
  BY <1>1, <1>3, <1>4, <1>5 DEF WriteBackOK, Recalled
<1>9. Cut' \/ Restarted'
  <2>1. CASE Cut /\ live = ledger[LastSeq(journal)]
    <3>1. Recorded'
      BY <1>1, <1>6, <2>1 DEF Cut, Recorded
    <3>2. Cut'
      BY <1>1, <2>1, <3>1 DEF Cut, Retracing
    <3> QED
      BY <3>2
  <2>2. CASE RestartedAt(origin.revision)
    BY <1>1, <1>2, <2>2 DEF Restarted, RestartedAt
  <2> QED
    BY <1>2, <2>1, <2>2
<1> QED
  BY <1>1, <1>6, <1>7, <1>8, <1>9 DEF LossInv

\* Writing it back replaces the staging file and then the project file.
LEMMA WriteBackLoss ==
    ASSUME IInv, LossInv, WriteStaging \/ FlushStaging \/ ReplaceTarget PROVE LossInv'
<1>1. /\ save.phase # "idle" /\ save'.doc = save.doc /\ save'.phase # "idle"
      /\ UNCHANGED <<journal, backups, mode, origin, live, ledger, damaged>>
  BY DEF WriteStaging, FlushStaging, ReplaceTarget, opening, session, ghost,
         IInv, TypeOK, SaveState
<1>2. mode = "restoring" /\ save.doc.revision = origin.revision /\ Recalled(save.doc)
      /\ origin.revision <= LastSeq(journal)
      /\ (save.phase = "flushed" => staging = save.doc)
  BY <1>1 DEF LossInv, WriteBackOK
<1>3. /\ target' = target \/ target' = save.doc
      /\ staging' \in {NoFile, Torn, save.doc}
      /\ save'.phase = "flushed" => staging' = save.doc
      /\ save'.phase = "replaced" => target' = save.doc
  <2>1. CASE WriteStaging
    BY <2>1 DEF WriteStaging, IInv, TypeOK, SaveState
  <2>2. CASE FlushStaging
    BY <2>2 DEF FlushStaging, IInv, TypeOK, SaveState
  <2>3. CASE ReplaceTarget
    BY <1>2, <2>3 DEF ReplaceTarget, IInv, TypeOK, SaveState
  <2> QED
    BY <2>1, <2>2, <2>3
<1>4. ~Readable(NoFile) /\ ~Readable(Torn) /\ Readable(save.doc)
  BY RevisionsAreNumbers
<1>5. /\ ~JournalIntact' /\ Dated' /\ RecordsDecode' /\ UNCHANGED Base
  BY <1>1 DEF LossInv, JournalIntact, Dated, RecordsDecode, Base
<1>6. FilesRecalled' /\ OldestIsDefault'
  BY <1>1, <1>2, <1>3, <1>4 DEF LossInv, FilesRecalled, OldestIsDefault, Recalled
<1>7. SourceOK' /\ WriteBackOK'
  BY <1>1, <1>2, <1>3 DEF SourceOK, WriteBackOK, Recalled
<1>8. CASE Cut
  <2>1. Recorded'
    BY <1>1, <1>5, <1>8 DEF Cut, Recorded
  <2>2. Cut'
    BY <1>1, <1>2, <1>8, <2>1 DEF Cut, Retracing
  <2> QED
    BY <1>1, <1>2, <1>5, <1>6, <1>7, <2>2 DEF LossInv
<1>9. CASE Restarted
  <2>1. Restarted'
    BY <1>1, <1>9 DEF Restarted, RestartedAt
  <2> QED
    BY <1>1, <1>2, <1>5, <1>6, <1>7, <2>1 DEF LossInv
<1> QED
  BY <1>2, <1>8, <1>9 DEF LossInv, Locked, Lost

\* Until there is a session again every step keeps the invariant of the loss.
LEMMA NextLossInv ==
    ASSUME IInv, LossInv, [Next]_vars PROVE HInv' \/ LossInv'
<1>1. mode # "open" /\ damaged # {}
  BY DEF LossInv, JournalIntact
<1>2. ~(Edit \/ Undo \/ Redo \/ Checkpoint \/ Submit \/ FinishSave \/ FailSave)
  BY <1>1 DEF Edit, Undo, Redo, Checkpoint, Submit, FinishSave, FailSave
<1>3. ~(DamageTarget \/ DamageJournal \/ DamageBackup)
  BY <1>1 DEF DamageTarget, DamageJournal, DamageBackup, Damage
<1>4. CASE Open
  BY <1>4, OpenProjectLoss, WithoutCandidateLoss, OpenJournalOnlyLoss, ReplayRecordLoss,
     ReplayRejectedLoss, TryBackupLoss, FinishReplayLoss, BeginRestoreLoss, FinishRestoreLoss
  DEF Open
<1>5. CASE SaveStep
  BY <1>2, <1>5, WriteBackLoss DEF SaveStep
<1>6. CASE Terminate
  BY <1>6, WithoutCandidateLoss
<1>7. CASE UNCHANGED vars
  <2>1. UNCHANGED <<journal, target, staging, backups, mode, live, origin, at, save,
                    ledger, damaged>>
    BY <1>7 DEF vars, disk, opening, session, saver, ghost
  <2>2. UNCHANGED <<JournalIntact, Base>>
    BY <2>1 DEF JournalIntact, Base
  <2>3. Dated' /\ RecordsDecode' /\ FilesRecalled' /\ OldestIsDefault' /\ SourceOK'
        /\ WriteBackOK'
    BY <2>1 DEF LossInv, Dated, RecordsDecode, FilesRecalled, OldestIsDefault, SourceOK,
                WriteBackOK, Recalled
  <2>4. Recorded' = Recorded /\ Retracing' = Retracing
    BY <2>1, <2>2 DEF Recorded, Retracing, Recalled
  <2>5. Cut' = Cut /\ Locked' = Locked /\ Lost' = Lost
    BY <2>1, <2>2, <2>4 DEF Cut, Locked, Lost
  <2>6. Restarted' = Restarted
    BY <2>1 DEF Restarted, RestartedAt
  <2> QED
    BY <2>1, <2>2, <2>3, <2>5, <2>6 DEF LossInv
<1> QED
  BY <1>2, <1>3, <1>4, <1>5, <1>6, <1>7 DEF Next

\* Every other step keeps the history.
LEMMA NextHInv ==
    ASSUME IInv, HInv, SeedsStay, [Next]_vars, ~DamageJournal PROVE HInv'
<1>1. CASE UNCHANGED vars
  BY <1>1, StutterHInv
<1>2. CASE Edit \/ Undo \/ Redo \/ Checkpoint
  BY <1>2, EditHInv, UndoHInv, RedoHInv, CheckpointHInv
<1>3. CASE SaveStep
  BY <1>3, SubmitHInv, WriteStagingHInv, FlushStagingHInv, ReplaceTargetHInv,
     FinishSaveHInv, FailSaveHInv DEF SaveStep
<1>4. CASE Open
  BY <1>4, OpenProjectHInv, OpenUnreadableHInv, OpenJournalOnlyHInv,
     RefuseJournalOnlyHInv, ReplayRecordHInv, ReplayRejectedHInv, TryBackupHInv,
     NoBackupFitsHInv, FinishReplayHInv, BeginRestoreHInv, FinishRestoreHInv
  DEF Open
<1>5. CASE Terminate \/ DamageTarget \/ DamageBackup
  BY <1>5, TerminateHInv, DamageTargetHInv, DamageBackupHInv
<1> QED
  BY <1>1, <1>2, <1>3, <1>4, <1>5 DEF Next

\* One of the two invariants holds in every reachable state.
LEMMA HistoryInvariance ==
    ASSUME SeedsDecode, SeedsStay
    PROVE  Spec => [](IInv /\ (HInv \/ LossInv))
<1>1. Init => IInv /\ (HInv \/ LossInv)
  BY InitIInv, InitHInv
<1>2. (IInv /\ (HInv \/ LossInv)) /\ [Next]_vars => (IInv /\ (HInv \/ LossInv))'
  BY NextIInv, NextHInv, NextLossInv, DamageJournalLoss
<1> QED
  BY <1>1, <1>2, PTL DEF Spec

\* With the journal intact it is the history invariant.
LEMMA IntactHistory ==
    ASSUME SeedsDecode, SeedsStay
    PROVE  Spec => [](IInv /\ (JournalIntact => HInv))
<1>1. IInv /\ (HInv \/ LossInv) => IInv /\ (JournalIntact => HInv)
  BY DEF LossInv
<1> QED
  BY <1>1, HistoryInvariance, PTL

\* What the invariant means for the properties: the revisions that the ledger and the
\* journal cover.
LEMMA LedgerCovers ==
    ASSUME IInv, HInv, journal # <<>>
    PROVE  /\ Base \in Nat /\ LastSeq(journal) \in Nat
           /\ \A r \in DOMAIN ledger : r \in Nat /\ Base <= r /\ r <= LastSeq(journal)
           /\ LedgerEnd = LastSeq(journal) /\ LastSeq(journal) \in {acked, acked + 1}
<1>1. LedgerOK
  BY DEF HInv
<1>2. /\ Base \in Nat \ {0} /\ LastSeq(journal) \in Nat /\ Base <= LastSeq(journal)
      /\ DOMAIN ledger = Base .. LastSeq(journal)
  BY <1>1, JournalFacts
<1>3. LastSeq(journal) \in DOMAIN ledger /\ \A q \in DOMAIN ledger : q <= LastSeq(journal)
  BY <1>2
<1>4. LedgerEnd \in DOMAIN ledger /\ \A q \in DOMAIN ledger : q <= LedgerEnd
  BY <1>3 DEF LedgerEnd
<1>5. LedgerEnd <= LastSeq(journal) /\ LastSeq(journal) <= LedgerEnd /\ LedgerEnd \in Nat
  BY <1>2, <1>3, <1>4
<1>6. LedgerEnd = LastSeq(journal)
  BY <1>2, <1>5
<1> QED
  BY <1>1, <1>2, <1>6 DEF LedgerOK

-----------------------------------------------------------------------------
(* The line of a session: the documents that undo and redo lead through.   *)

\* A document apart from its revision.
Timeless(d) == [d EXCEPT !.revision = 0]

\* Tracks whose names an edit can give.
EditTrack == {t \in Track : t.name \in EditNames}

\* What every document of a session is, the limit on tracks apart: the names can be
\* given in an edit, the IDs are distinct, the references resolved, and an ID is left.
Sound(d) ==
    /\ d.tempo \in Tempos /\ d.tracks \in Seq(EditTrack) /\ d.others \subseteq Entity
    /\ Cardinality(TrackIds(d)) = Len(d.tracks)
    /\ Cardinality(OtherIds(d)) = Cardinality(d.others)
    /\ TrackIds(d) \cap OtherIds(d) = {}
    /\ \A e \in d.others : e.track \in TrackIds(d) \cup {0}
    /\ MaxStableId \notin TrackIds(d) \cup OtherIds(d)

\* Command c leads from document a to a document with the content of b.
Leads(c, a, b) == Accepts(Timeless(a), c) /\ Timeless(Edited(a, c)) = Timeless(b)

\* What is left of a document without its revision.
LEMMA TimelessFields ==
    ASSUME NEW d \in Document
    PROVE  /\ Timeless(d).revision = 0 /\ Timeless(d).tempo = d.tempo
           /\ Timeless(d).tracks = d.tracks /\ Timeless(d).others = d.others
           /\ TrackIds(Timeless(d)) = TrackIds(d) /\ OtherIds(Timeless(d)) = OtherIds(d)
<1>1. /\ Timeless(d).revision = 0 /\ Timeless(d).tempo = d.tempo
      /\ Timeless(d).tracks = d.tracks /\ Timeless(d).others = d.others
  BY DEF Timeless, Document
<1> QED
  BY <1>1 DEF TrackIds, OtherIds

\* Two documents of the same content are one apart from their revisions.
LEMMA TimelessIs ==
    ASSUME NEW d \in Document, NEW e \in Document
    PROVE  /\ (Timeless(d) = Timeless(e)) <=>
                (d.tempo = e.tempo /\ d.tracks = e.tracks /\ d.others = e.others)
           /\ Timeless(d) = Timeless(e) <=> Content(d) = Content(e)
           /\ Content(Timeless(d)) = Content(d)
<1>1. d = [revision |-> d.revision, tempo |-> d.tempo, tracks |-> d.tracks, others |-> d.others]
      /\ e = [revision |-> e.revision, tempo |-> e.tempo, tracks |-> e.tracks, others |-> e.others]
  BY DEF Document
<1>2. Timeless(d) = [revision |-> 0, tempo |-> d.tempo, tracks |-> d.tracks, others |-> d.others]
      /\ Timeless(e) = [revision |-> 0, tempo |-> e.tempo, tracks |-> e.tracks, others |-> e.others]
  BY <1>1 DEF Timeless
<1>3. (Timeless(d) = Timeless(e)) <=>
                (d.tempo = e.tempo /\ d.tracks = e.tracks /\ d.others = e.others)
  BY <1>2
<1>4. (Content(d) = Content(e)) <=>
                (d.tempo = e.tempo /\ d.tracks = e.tracks /\ d.others = e.others)
  BY DEF Content
<1>5. Content(Timeless(d)) = Content(d)
  BY TimelessFields DEF Content
<1> QED
  BY <1>3, <1>4, <1>5

\* The track of an ID is found in the same place of the same list.
LEMMA SamePlace ==
    ASSUME NEW d, NEW e, NEW i, DOMAIN d.tracks = DOMAIN e.tracks,
           \A p \in DOMAIN d.tracks : d.tracks[p].id = e.tracks[p].id
    PROVE  PlaceOf(d, i) = PlaceOf(e, i) /\ TrackIds(d) = TrackIds(e)
<1>1. PlaceOf(d, i) = PlaceOf(e, i)
  BY DEF PlaceOf
<1>2. TrackIds(d) = TrackIds(e)
  BY DEF TrackIds
<1> QED
  BY <1>1, <1>2

\* What a command does has nothing to do with the revision.
LEMMA EditsAreTimeless ==
    ASSUME NEW d \in Document, NEW e, NEW c \in Command,
           e.tempo = d.tempo, e.tracks = d.tracks, e.others = d.others
    PROVE  /\ e.revision < MaxRevision /\ Accepts(d, c) => Accepts(e, c)
           /\ d.revision < MaxRevision /\ Accepts(e, c) => Accepts(d, c)
           /\ EditedTracks(e, c) = EditedTracks(d, c)
<1>1. TrackIds(d) = TrackIds(e) /\ PlaceOf(d, c.id) = PlaceOf(e, c.id)
  BY SamePlace
<1>2. Unreferenced(d, c.id) <=> Unreferenced(e, c.id)
  BY DEF Unreferenced
<1>3. EditedTracks(e, c) = EditedTracks(d, c)
  BY <1>1 DEF EditedTracks
<1> QED
  BY <1>1, <1>2, <1>3 DEF Accepts

-----------------------------------------------------------------------------
(* Numbers that are in use, and the next one that is free.                 *)

\* A set of numbers has a least element.
LEMMA Least ==
    ASSUME NEW T, T \subseteq Nat, T # {}
    PROVE  \E x \in T : \A y \in T : x <= y
<1> DEFINE R == OpToRel(<, Nat)
<1>1. IsWellFoundedOn(R, Nat)
  BY NatLessThanWellFounded
<1>2. \A x, y \in Nat : y < x => <<y, x>> \in R
  BY DEF OpToRel
<1> HIDE DEF R
<1>3. PICK x \in T : \A y \in T : ~ (<<y, x>> \in R)
  BY <1>1, WFMin
<1>4. \A y \in T : ~(y < x)
  BY <1>2, <1>3
<1> QED
  BY <1>4

\* A bounded set of numbers has a greatest element.
LEMMA Greatest ==
    ASSUME NEW S, S \subseteq Nat, S # {}, NEW n \in Nat, \A i \in S : i <= n
    PROVE  \E m \in S : \A i \in S : i <= m
<1> DEFINE T == {k \in Nat : \A i \in S : i <= k}
<1>1. T \subseteq Nat /\ T # {}
  OBVIOUS
<1>2. PICK m \in T : \A k \in T : m <= k
  BY <1>1, Least
<1>3. m \in S
  <2> SUFFICES ASSUME m \notin S
               PROVE  FALSE
    OBVIOUS
  <2>1. \A i \in S : i < m
    <3> TAKE i \in S
    <3>1. i <= m /\ i # m /\ i \in Nat /\ m \in Nat
      BY <1>2
    <3> QED
      BY <3>1
  <2>2. m # 0
    <3>1. PICK i \in S : i < m
      BY <2>1
    <3>2. i \in Nat
      OBVIOUS
    <3> QED
      BY <3>1, <3>2
  <2>3. m - 1 \in T
    <3>1. m - 1 \in Nat /\ \A i \in S : i <= m - 1
      BY <2>1, <2>2, <1>2
    <3> QED
      BY <3>1
  <2>4. m <= m - 1 /\ m \in Nat
    BY <1>2, <2>3
  <2> QED
    BY <2>4
<1>4. \A i \in S : i <= m
  BY <1>2
<1> QED
  BY <1>3, <1>4

\* What holds of 0 and of the successor of each number it holds of holds of every number.
LEMMA NatInd ==
    ASSUME NEW S, 0 \in S, \A n \in Nat : n \in S => n + 1 \in S
    PROVE  Nat \subseteq S
<1> SUFFICES ASSUME Nat \ S # {}
             PROVE  FALSE
  OBVIOUS
<1>1. PICK x \in Nat \ S : \A y \in Nat \ S : x <= y
  BY Least
<1>2. x # 0
  OBVIOUS
<1>3. x - 1 \in Nat /\ x - 1 < x /\ (x - 1) + 1 = x
  BY <1>2
<1>4. ~(x <= x - 1)
  BY <1>3
<1>5. x - 1 \in S
  BY <1>1, <1>3, <1>4
<1> QED
  BY <1>3, <1>5

\* The ID of a new track is no track's and no other entity's.
LEMMA NextIsFree ==
    ASSUME NEW d \in Document
    PROVE  NextStableId(d) \notin TrackIds(d) \cup OtherIds(d)
<1> DEFINE S == TrackIds(d) \cup OtherIds(d) \cup {0}
<1>1. TrackIds(d) \subseteq StableId /\ OtherIds(d) \subseteq StableId
  <2>1. d.tracks \in Seq(Track) /\ d.others \in SUBSET Entity
    BY DocumentFields
  <2>2. OtherIds(d) \subseteq StableId
    BY <2>1 DEF OtherIds, Entity
  <2>3. \A i \in TrackIds(d) : i \in StableId
    BY PlaceOfTrack
  <2> QED
    BY <2>2, <2>3
<1>2. S \subseteq Nat /\ S # {} /\ MaxStableId \in Nat /\ \A i \in S : i <= MaxStableId
  BY <1>1, LimitsAssumption DEF StableId
<1> HIDE DEF S
<1>3. PICK m \in S : \A i \in S : i <= m
  BY <1>2, Greatest
<1> DEFINE x == CHOOSE m0 \in TrackIds(d) \cup OtherIds(d) \cup {0} :
                    \A i \in TrackIds(d) \cup OtherIds(d) : i <= m0
<1>4. x \in S /\ \A i \in TrackIds(d) \cup OtherIds(d) : i <= x
  BY <1>3 DEF S
<1>5. NextStableId(d) = 1 + x
  BY DEF NextStableId
<1> HIDE DEF x
<1>6. x \in Nat /\ TrackIds(d) \cup OtherIds(d) \subseteq Nat
  BY <1>2, <1>4 DEF S
<1> SUFFICES ASSUME 1 + x \in TrackIds(d) \cup OtherIds(d)
             PROVE  FALSE
  BY <1>5
<1>7. 1 + x <= x
  BY <1>4
<1> QED
  BY <1>6, <1>7

-----------------------------------------------------------------------------
(* A client command and its recorded inverse lead there and back.          *)

\* What it means that a command leads from one content to another.
LEMMA LeadsIs ==
    ASSUME NEW a \in Document, NEW b \in Document, NEW c \in Command
    PROVE  Leads(c, a, b) <=>
              /\ Accepts(Timeless(a), c)
              /\ EditedTracks(a, c) = b.tracks
              /\ (IF c.type = "setTempo" THEN c.value ELSE a.tempo) = b.tempo
              /\ a.others = b.others
<1>1. Timeless(b) = [revision |-> 0, tempo |-> b.tempo, tracks |-> b.tracks, others |-> b.others]
  BY DEF Timeless, Document
<1>2. Timeless(Edited(a, c)) =
         [revision |-> 0, tempo |-> IF c.type = "setTempo" THEN c.value ELSE a.tempo,
          tracks |-> EditedTracks(a, c), others |-> a.others]
  BY DEF Timeless, Edited
<1> QED
  BY <1>1, <1>2 DEF Leads

\* A command leads on from any document of the same content, and is accepted there.
LEMMA LeadsOn ==
    ASSUME NEW a \in Document, NEW b \in Document, NEW c \in Command, Leads(c, a, b),
           NEW d \in Document, Timeless(d) = Timeless(a)
    PROVE  /\ Leads(c, d, b)
           /\ d.revision < MaxRevision =>
                 Accepts(d, c) /\ Timeless(Edited(d, c)) = Timeless(b)
<1>1. d.tempo = a.tempo /\ d.tracks = a.tracks /\ d.others = a.others
  BY TimelessIs
<1>2. EditedTracks(d, c) = EditedTracks(a, c)
  BY <1>1, EditsAreTimeless
<1>3. Leads(c, d, b)
  BY <1>1, <1>2, LeadsIs
<1>4. ASSUME d.revision < MaxRevision
      PROVE  Accepts(d, c)
  BY <1>3, <1>4, TimelessFields, EditsAreTimeless DEF Leads
<1> QED
  BY <1>3, <1>4 DEF Leads

\* An accepted command leads where it leads.
LEMMA AcceptedLeads ==
    ASSUME NEW d \in Document, NEW c \in Command, Accepts(d, c)
    PROVE  Edited(d, c) \in Document /\ Leads(c, d, Edited(d, c))
<1>1. Timeless(d).revision < MaxRevision
  BY TimelessFields, LimitsAssumption
<1>2. Accepts(Timeless(d), c)
  BY <1>1, TimelessFields, EditsAreTimeless
<1> QED
  BY <1>2, EditedType DEF Leads

\* Taking the last element out again.
LEMMA RemoveLast ==
    ASSUME NEW S, NEW s \in Seq(S), NEW x \in S
    PROVE  RemoveAt(Append(s, x), Len(s) + 1) = s
<1> DEFINE t == Append(s, x)
           n == Len(s)
<1>1. n \in Nat /\ t \in Seq(S) /\ Len(t) = n + 1 /\ \A i \in 1 .. n : t[i] = s[i]
  BY LenProperties, AppendProperties
<1>2. SubSeq(t, 1, n) = s
  <2>1. n \in 0 .. Len(t)
    BY <1>1
  <2>2. /\ SubSeq(t, 1, n) \in Seq(S) /\ Len(SubSeq(t, 1, n)) = n
        /\ \A i \in 1 .. n : SubSeq(t, 1, n)[i] = t[i]
    BY <1>1, <2>1, PrefixType
  <2> QED
    BY <1>1, <2>2, SeqEqual
<1>3. SubSeq(t, n + 2, n + 1) = <<>>
  BY <1>1, SubSeqEmpty
<1>4. RemoveAt(t, n + 1) = SubSeq(t, 1, n) \o SubSeq(t, n + 2, n + 1)
  <2>1. (n + 1) - 1 = n /\ (n + 1) + 1 = n + 2 /\ Len(t) = n + 1
    BY <1>1
  <2> HIDE DEF t, n
  <2> QED
    BY <2>1 DEF RemoveAt
<1> QED
  BY <1>2, <1>3, <1>4, ConcatEmptySeq

\* The commands of a client, one by one.
LEMMA ClientCommandIs ==
    ASSUME NEW d \in Document, NEW c \in ClientCommands(d), Accepts(d, c)
    PROVE  \/ c.type = "setTempo" /\ c.value \in Tempos /\ c.id = 0
           \/ /\ c.type = "addTrack" /\ c.id = NextStableId(d)
              /\ c.value \in EditNames /\ c.id \in 1 .. (MaxStableId - 1)
              /\ c.id \notin TrackIds(d)
           \/ c.type = "renameTrack" /\ c.value \in EditNames /\ c.id \in TrackIds(d)
<1>1. CASE c \in {SetTempo(t) : t \in Tempos}
  BY <1>1 DEF SetTempo
<1>2. CASE c \in {AddTrack(NextStableId(d), n) : n \in Names}
  BY <1>2 DEF AddTrack, Accepts
<1>3. CASE c \in {RenameTrack(i, n) : i \in TrackIds(d), n \in Names}
  BY <1>3 DEF RenameTrack, Accepts
<1> QED
  BY <1>1, <1>2, <1>3 DEF ClientCommands

\* The tracks of a sound document.
LEMMA SoundTracks ==
    ASSUME NEW d \in Document, Sound(d)
    PROVE  /\ d.tracks \in Seq(EditTrack) /\ DOMAIN d.tracks = 1 .. Len(d.tracks)
           /\ Len(d.tracks) \in Nat
           /\ \A i \in 1 .. Len(d.tracks) :
                 /\ d.tracks[i] = [id |-> d.tracks[i].id, name |-> d.tracks[i].name]
                 /\ d.tracks[i].id \in StableId /\ d.tracks[i].name \in EditNames
           /\ TrackIds(d) \subseteq StableId
<1>1. d.tracks \in Seq(EditTrack)
  BY DEF Sound
<1>2. DOMAIN d.tracks = 1 .. Len(d.tracks) /\ Len(d.tracks) \in Nat
  BY <1>1, LenProperties
<1>3. \A i \in 1 .. Len(d.tracks) : d.tracks[i] \in EditTrack
  BY <1>1, ElementOfSeq
<1> QED
  BY <1>1, <1>2, <1>3 DEF EditTrack, Track, TrackIds

\* The tracks after a new one was added, and its place.
LEMMA AddedTrack ==
    ASSUME NEW d \in Document, NEW c \in Command, Sound(d), Accepts(d, c),
           c.type = "addTrack", NEW e, e.tracks = EditedTracks(d, c)
    PROVE  /\ e.tracks = Append(d.tracks, [id |-> c.id, name |-> c.value])
           /\ [id |-> c.id, name |-> c.value] \in EditTrack
           /\ Len(e.tracks) = Len(d.tracks) + 1
           /\ DOMAIN e.tracks = 1 .. (Len(d.tracks) + 1)
           /\ TrackIds(e) = TrackIds(d) \cup {c.id}
           /\ PlaceOf(e, c.id) = Len(d.tracks) + 1
<1> DEFINE n == Len(d.tracks)
           x == [id |-> c.id, name |-> c.value]
<1>1. /\ d.tracks \in Seq(EditTrack) /\ DOMAIN d.tracks = 1 .. n /\ n \in Nat
  BY SoundTracks
<1>2. c.value \in EditNames /\ c.id \in 1 .. (MaxStableId - 1) /\ c.id \notin TrackIds(d)
  BY DEF Accepts
<1>3. x \in EditTrack
  BY <1>2, ValuesAssumption, LimitsAssumption DEF EditTrack, Track, StableId
<1>4. e.tracks = Append(d.tracks, x)
  BY DEF EditedTracks
<1>5. /\ Len(e.tracks) = n + 1 /\ DOMAIN e.tracks = 1 .. (n + 1)
      /\ \A i \in 1 .. n : e.tracks[i] = d.tracks[i]
      /\ e.tracks[n + 1] = x
  <2> HIDE DEF x
  <2>1. /\ e.tracks \in Seq(EditTrack) /\ Len(e.tracks) = n + 1 /\ e.tracks[n + 1] = x
        /\ \A i \in 1 .. n : e.tracks[i] = d.tracks[i]
    BY <1>1, <1>3, <1>4, AppendProperties
  <2> QED
    BY <2>1, LenProperties
<1>6. \A i \in 1 .. n : d.tracks[i].id # c.id
  BY <1>1, <1>2 DEF TrackIds
<1>7. x.id = c.id
  OBVIOUS
<1> HIDE DEF x, n
<1>8. PlaceOf(e, c.id) = n + 1
  <2>1. \A i \in DOMAIN e.tracks : e.tracks[i].id = c.id <=> i = n + 1
    BY <1>1, <1>5, <1>6, <1>7
  <2>2. n + 1 \in DOMAIN e.tracks
    BY <1>1, <1>5
  <2> QED
    BY <2>1, <2>2 DEF PlaceOf
<1>9. TrackIds(e) = TrackIds(d) \cup {c.id}
  <2>1. ASSUME NEW i \in 1 .. (n + 1)
        PROVE  e.tracks[i].id \in TrackIds(d) \cup {c.id}
    <3>1. i \in 1 .. n \/ i = n + 1
      BY <1>1
    <3> QED
      BY <1>1, <1>5, <1>7, <3>1 DEF TrackIds
  <2>2. ASSUME NEW i \in 1 .. n
        PROVE  d.tracks[i].id \in TrackIds(e)
    <3>1. i \in 1 .. (n + 1) /\ e.tracks[i] = d.tracks[i]
      BY <1>1, <1>5
    <3> QED
      BY <1>5, <3>1 DEF TrackIds
  <2>3. c.id \in TrackIds(e)
    <3>1. n + 1 \in 1 .. (n + 1)
      BY <1>1
    <3> QED
      BY <1>5, <1>7, <3>1 DEF TrackIds
  <2>4. TrackIds(e) \subseteq TrackIds(d) \cup {c.id}
    BY <2>1, <1>5 DEF TrackIds
  <2>5. TrackIds(d) \subseteq TrackIds(e)
    BY <2>2, <1>1 DEF TrackIds
  <2> QED
    BY <2>3, <2>4, <2>5
<1> QED
  BY <1>3, <1>4, <1>5, <1>8, <1>9 DEF x, n

\* The tracks after one was given another name, and its place.
LEMMA RenamedTrack ==
    ASSUME NEW d \in Document, NEW c \in Command, Sound(d), Accepts(d, c),
           c.type = "renameTrack", NEW e, e.tracks = EditedTracks(d, c)
    PROVE  LET p == PlaceOf(d, c.id)
           IN  /\ p \in 1 .. Len(d.tracks) /\ PlaceOf(e, c.id) = p
               /\ e.tracks \in Seq(EditTrack) /\ Len(e.tracks) = Len(d.tracks)
               /\ DOMAIN e.tracks = 1 .. Len(d.tracks)
               /\ \A i \in 1 .. Len(d.tracks) : i # p => e.tracks[i] = d.tracks[i]
               /\ e.tracks[p] = [id |-> d.tracks[p].id, name |-> c.value]
               /\ TrackIds(e) = TrackIds(d)
<1> DEFINE n == Len(d.tracks)
           p == PlaceOf(d, c.id)
<1>1. /\ d.tracks \in Seq(EditTrack) /\ DOMAIN d.tracks = 1 .. n /\ n \in Nat
      /\ \A i \in 1 .. n :
                 /\ d.tracks[i] = [id |-> d.tracks[i].id, name |-> d.tracks[i].name]
                 /\ d.tracks[i].id \in StableId /\ d.tracks[i].name \in EditNames
  BY SoundTracks
<1>2. c.value \in EditNames /\ c.id \in TrackIds(d)
  BY DEF Accepts
<1>3. p \in 1 .. n
  BY <1>2, PlaceOfTrack
<1>4. e.tracks = [d.tracks EXCEPT ![p].name = c.value]
  BY DEF EditedTracks
<1> HIDE DEF p, n
<1>5. [d.tracks[p] EXCEPT !.name = c.value] = [id |-> d.tracks[p].id, name |-> c.value]
  <2>1. PICK i, m : d.tracks[p] = [id |-> i, name |-> m]
    BY <1>1, <1>3
  <2> QED
    BY <2>1
<1>6. [id |-> d.tracks[p].id, name |-> c.value] \in EditTrack
  BY <1>1, <1>2, <1>3, ValuesAssumption DEF EditTrack, Track
<1>7. /\ DOMAIN e.tracks = 1 .. n
      /\ \A i \in 1 .. n : i # p => e.tracks[i] = d.tracks[i]
      /\ e.tracks[p] = [id |-> d.tracks[p].id, name |-> c.value]
  BY <1>1, <1>3, <1>4, <1>5
<1>8. e.tracks \in Seq(EditTrack) /\ Len(e.tracks) = n
  <2>1. e.tracks = [d.tracks EXCEPT ![p] = [id |-> d.tracks[p].id, name |-> c.value]]
    BY <1>4, <1>5
  <2> QED
    BY <1>1, <1>3, <1>6, <2>1, ExceptSeq DEF n
<1>9. \A i \in DOMAIN d.tracks : d.tracks[i].id = e.tracks[i].id
  BY <1>1, <1>7
<1>10. PlaceOf(e, c.id) = p /\ TrackIds(e) = TrackIds(d)
  <2>1. DOMAIN d.tracks = DOMAIN e.tracks
    BY <1>1, <1>7
  <2>2. PlaceOf(d, c.id) = PlaceOf(e, c.id) /\ TrackIds(d) = TrackIds(e)
    BY ONLY <1>9, <2>1, SamePlace
  <2> QED
    BY <2>2 DEF p
<1> QED
  BY <1>3, <1>4, <1>7, <1>8, <1>10 DEF p, n

\* A client's command leads to a document that is as sound as the one before, and the
\* inverse recorded for it leads back.
LEMMA EditLeads ==
    ASSUME NEW d \in Document, NEW c \in ClientCommands(d), Sound(d), Accepts(d, c)
    PROVE  LET e == Edited(d, c)
           IN  /\ e \in Document /\ Sound(e)
               /\ Leads(c, d, e) /\ Leads(InverseOf(d, c), e, d)
<1> DEFINE e == Edited(d, c)
           b == InverseOf(d, c)
<1>1. c \in Command /\ b \in Command
  BY ClientCommandType, InverseType
<1>2. e \in Document /\ Leads(c, d, e)
  BY <1>1, AcceptedLeads
<1>3. /\ e.tracks = EditedTracks(d, c) /\ e.others = d.others /\ OtherIds(e) = OtherIds(d)
      /\ e.tempo = IF c.type = "setTempo" THEN c.value ELSE d.tempo
  BY DEF Edited, OtherIds
<1>4. /\ Timeless(e).tempo = e.tempo /\ Timeless(e).tracks = e.tracks
      /\ Timeless(e).others = e.others /\ Timeless(e).revision < MaxRevision
      /\ TrackIds(Timeless(e)) = TrackIds(e)
  BY <1>2, TimelessFields, LimitsAssumption
<1>5. /\ d.tempo \in Tempos /\ d.tracks \in Seq(EditTrack) /\ d.others \subseteq Entity
      /\ Cardinality(TrackIds(d)) = Len(d.tracks)
      /\ Cardinality(OtherIds(d)) = Cardinality(d.others)
      /\ TrackIds(d) \cap OtherIds(d) = {}
      /\ \A x \in d.others : x.track \in TrackIds(d) \cup {0}
      /\ MaxStableId \notin TrackIds(d) \cup OtherIds(d)
  BY DEF Sound
<1>6. /\ DOMAIN d.tracks = 1 .. Len(d.tracks) /\ Len(d.tracks) \in Nat
      /\ TrackIds(d) \subseteq StableId
      /\ \A i \in 1 .. Len(d.tracks) :
            /\ d.tracks[i] = [id |-> d.tracks[i].id, name |-> d.tracks[i].name]
            /\ d.tracks[i].name \in EditNames
  BY SoundTracks
<1>7. /\ d.tempo # NoValue /\ NoValue \notin EditNames
  BY <1>5, ValuesAssumption
<1> HIDE DEF e, b
<1>8. CASE c.type = "setTempo"
  <2>1. b = SetTempo(d.tempo) /\ b.type = "setTempo" /\ b.value = d.tempo
    BY <1>8 DEF b, InverseOf, SetTempo
  <2>2. e.tracks = d.tracks /\ TrackIds(e) = TrackIds(d)
    BY <1>3, <1>8 DEF EditedTracks, TrackIds
  <2>3. EditedTracks(e, b) = d.tracks
    BY <2>1, <2>2 DEF EditedTracks
  <2>4. Accepts(Timeless(e), b)
    BY <1>4, <1>5, <2>1 DEF Accepts
  <2>5. Leads(b, e, d)
    BY <1>1, <1>2, <1>3, <2>1, <2>3, <2>4, LeadsIs
  <2>6. e.tempo \in Tempos
    BY <1>2, DocumentFields
  <2>7. Sound(e)
    BY <1>3, <1>5, <2>2, <2>6 DEF Sound
  <2> QED
    BY <1>2, <2>5, <2>7 DEF e, b
<1>9. CASE c.type = "addTrack"
  <2>1. b = RemoveTrack(c.id) /\ b.type = "removeTrack" /\ b.id = c.id
    BY <1>9 DEF b, InverseOf, RemoveTrack
  <2> DEFINE x == [id |-> c.id, name |-> c.value]
             n == Len(d.tracks)
  <2>2. /\ e.tracks = Append(d.tracks, x) /\ x \in EditTrack
        /\ Len(e.tracks) = n + 1
        /\ TrackIds(e) = TrackIds(d) \cup {c.id}
        /\ PlaceOf(e, c.id) = n + 1
    BY <1>1, <1>3, <1>9, AddedTrack
  <2>3. /\ c.id = NextStableId(d) /\ c.id \in 1 .. (MaxStableId - 1)
        /\ c.id \notin TrackIds(d) /\ c.id \notin OtherIds(d)
    BY <1>9, ClientCommandIs, NextIsFree
  <2> HIDE DEF x, n
  <2>4. EditedTracks(e, b) = d.tracks
    <3>1. EditedTracks(e, b) = RemoveAt(e.tracks, PlaceOf(e, b.id))
      BY <2>1 DEF EditedTracks
    <3> QED
      BY <1>5, <2>1, <2>2, <3>1, RemoveLast DEF n
  <2>5. Unreferenced(Timeless(e), c.id)
    <3>1. \A y \in d.others : y.track # c.id
      BY <1>5, <2>3, LimitsAssumption
    <3> QED
      BY <1>3, <1>4, <3>1 DEF Unreferenced
  <2>6. Accepts(Timeless(e), b)
    BY <1>4, <2>1, <2>2, <2>5 DEF Accepts
  <2>7. b.type # "setTempo" /\ e.tempo = d.tempo
    BY <1>3, <1>9, <2>1
  <2>8. Leads(b, e, d)
    BY <1>1, <1>2, <1>3, <2>4, <2>6, <2>7, LeadsIs
  <2>9. e.tracks \in Seq(EditTrack)
    BY <1>5, <2>2, AppendProperties
  <2>10. Cardinality(TrackIds(e)) = Len(e.tracks)
    <3>1. IsFiniteSet(TrackIds(d))
      <4>1. MaxStableId \in Int /\ 1 \in Int
        BY LimitsAssumption
      <4>2. IsFiniteSet(StableId)
        BY <4>1, FS_Interval DEF StableId
      <4> QED
        BY <1>6, <4>2, FS_Subset
    <3>2. Cardinality(TrackIds(d) \cup {c.id}) = Cardinality(TrackIds(d)) + 1
      BY <2>3, <3>1, FS_AddElement
    <3> QED
      BY <1>5, <2>2, <3>2 DEF n
  <2>11. Sound(e)
    <3>1. e.tempo \in Tempos /\ e.others \subseteq Entity
      BY <1>3, <1>5, <2>7
    <3>2. TrackIds(e) \cap OtherIds(e) = {}
      BY <1>3, <1>5, <2>2, <2>3
    <3>3. \A y \in e.others : y.track \in TrackIds(e) \cup {0}
      BY <1>3, <1>5, <2>2
    <3>4. MaxStableId \notin TrackIds(e) \cup OtherIds(e)
      BY <1>3, <1>5, <2>2, <2>3, LimitsAssumption
    <3> QED
      BY <1>3, <1>5, <2>9, <2>10, <3>1, <3>2, <3>3, <3>4 DEF Sound
  <2> QED
    BY <1>2, <2>8, <2>11 DEF e, b
<1>10. CASE c.type = "renameTrack"
  <2> DEFINE p == PlaceOf(d, c.id)
             n == Len(d.tracks)
  <2>1. /\ b = RenameTrack(c.id, d.tracks[p].name)
        /\ b.type = "renameTrack" /\ b.id = c.id /\ b.value = d.tracks[p].name
    BY <1>10 DEF b, InverseOf, RenameTrack
  <2>2. /\ p \in 1 .. n /\ PlaceOf(e, c.id) = p
        /\ e.tracks \in Seq(EditTrack) /\ Len(e.tracks) = n
        /\ DOMAIN e.tracks = 1 .. n
        /\ \A i \in 1 .. n : i # p => e.tracks[i] = d.tracks[i]
        /\ e.tracks[p] = [id |-> d.tracks[p].id, name |-> c.value]
        /\ TrackIds(e) = TrackIds(d)
    <3>1. c \in Command /\ c.type = "renameTrack" /\ e.tracks = EditedTracks(d, c)
      BY <1>1, <1>3, <1>10
    <3>2. d \in Document /\ Sound(d) /\ Accepts(d, c)
      OBVIOUS
    <3> QED
      BY ONLY <3>1, <3>2, RenamedTrack
  <2>3. c.id \in TrackIds(d)
    BY <1>10, ClientCommandIs
  <2>4. e.tempo = d.tempo /\ e.tempo \in Tempos
    BY <1>3, <1>5, <1>10
  <2> HIDE DEF p, n
  <2>5. Sound(e)
    <3>1. Cardinality(TrackIds(e)) = Len(e.tracks)
      BY <1>5, <2>2 DEF n
    <3>2. \A y \in e.others : y.track \in TrackIds(e) \cup {0}
      BY <1>3, <1>5, <2>2
    <3> QED
      BY <1>3, <1>5, <2>2, <2>4, <3>1, <3>2 DEF Sound
  <2>6. Accepts(Timeless(e), b)
    <3>1. b.value \in EditNames
      BY <1>6, <2>1, <2>2 DEF n
    <3> QED
      BY <1>4, <2>1, <2>2, <2>3, <3>1 DEF Accepts
  <2>8. EditedTracks(e, b) = d.tracks
    <3>1. EditedTracks(e, b) = [e.tracks EXCEPT ![p].name = d.tracks[p].name]
      BY <2>1, <2>2 DEF EditedTracks
    <3>2. [e.tracks[p] EXCEPT !.name = d.tracks[p].name] = d.tracks[p]
      <4>1. d.tracks[p] = [id |-> d.tracks[p].id, name |-> d.tracks[p].name]
        BY <1>6, <2>2 DEF n
      <4>2. PICK i, m : d.tracks[p] = [id |-> i, name |-> m]
        BY <4>1
      <4> QED
        BY <2>2, <4>2
    <3>3. EditedTracks(e, b) = [e.tracks EXCEPT ![p] = d.tracks[p]]
      BY <3>1, <3>2
    <3>4. e.tracks = [i \in 1 .. n |-> e.tracks[i]] /\ d.tracks = [i \in 1 .. n |-> d.tracks[i]]
      BY <1>5, <1>6, <2>2 DEF n
    <3>5. [e.tracks EXCEPT ![p] = d.tracks[p]] =
             [i \in 1 .. n |-> IF i = p THEN d.tracks[p] ELSE e.tracks[i]]
      BY <2>2
    <3>6. \A i \in 1 .. n : (IF i = p THEN d.tracks[p] ELSE e.tracks[i]) = d.tracks[i]
      BY <2>2
    <3> QED
      BY <3>3, <3>4, <3>5, <3>6
  <2>9. Leads(b, e, d)
    BY <1>1, <1>2, <1>3, <2>1, <2>4, <2>6, <2>8, LeadsIs
  <2> QED
    BY <1>2, <2>5, <2>9 DEF e, b
<1> QED
  BY <1>8, <1>9, <1>10, ClientCommandIs

-----------------------------------------------------------------------------
(* Ways: the commands of a stack, and the documents that they lead to.     *)

\* Pages q lead to document d: each command of outs leads from a page to the one before
\* it, the command of backs in the same place leads back.
Way(outs, backs, q, d) ==
    /\ outs \in Seq(Command) /\ backs \in Seq(Command) /\ Len(backs) = Len(outs)
    /\ q \in Seq(Document) /\ Len(q) = Len(outs) + 1
    /\ \A i \in 1 .. Len(q) : Sound(q[i])
    /\ Timeless(q[Len(q)]) = Timeless(d)
    /\ \A i \in 1 .. Len(outs) :
          Leads(outs[i], q[i + 1], q[i]) /\ Leads(backs[i], q[i], q[i + 1])

\* A page is read at its content.
LEMMA LeadsTo ==
    ASSUME NEW c, NEW a, NEW b, NEW d, Leads(c, a, b), Timeless(b) = Timeless(d)
    PROVE  Leads(c, a, d)
BY DEF Leads

\* A sequence without its last element.
LEMMA FrontIs ==
    ASSUME NEW S, NEW s \in Seq(S), s # <<>>
    PROVE  /\ Front(s) \in Seq(S) /\ Len(Front(s)) = Len(s) - 1 /\ Len(s) \in Nat \ {0}
           /\ \A i \in 1 .. Len(s) - 1 : Front(s)[i] = s[i]
           /\ Last(s) = s[Len(s)] /\ Last(s) \in S
<1>1. Len(s) \in Nat \ {0} /\ Len(s) - 1 \in 0 .. Len(s)
  BY EmptySeq
<1> QED
  BY <1>1, PrefixType, EndsType DEF Front, Last

\* The empty way.
LEMMA WayBegins ==
    ASSUME NEW d \in Document, Sound(d)
    PROVE  Way(<<>>, <<>>, <<d>>, d)
<1>1. /\ <<>> \in Seq(Command) /\ Len(<<>>) = 0
      /\ <<d>> \in Seq(Document) /\ Len(<<d>>) = 1 /\ <<d>>[1] = d
  OBVIOUS
<1> QED
  BY <1>1 DEF Way

\* A way leads on to a document that two commands connect with its end.
LEMMA WayGrows ==
    ASSUME NEW outs, NEW backs, NEW q, NEW d \in Document, Way(outs, backs, q, d),
           NEW e \in Document, Sound(e),
           NEW o \in Command, NEW b \in Command, Leads(o, e, d), Leads(b, d, e)
    PROVE  Way(Append(outs, o), Append(backs, b), Append(q, e), e)
<1> DEFINE n == Len(outs)
           outs1 == Append(outs, o)
           backs1 == Append(backs, b)
           q1 == Append(q, e)
<1>1. /\ outs \in Seq(Command) /\ backs \in Seq(Command) /\ Len(backs) = n
      /\ q \in Seq(Document) /\ Len(q) = n + 1 /\ n \in Nat
      /\ \A i \in 1 .. (n + 1) : Sound(q[i])
      /\ Timeless(q[n + 1]) = Timeless(d)
      /\ \A i \in 1 .. n : Leads(outs[i], q[i + 1], q[i]) /\ Leads(backs[i], q[i], q[i + 1])
  BY LenProperties DEF Way
<1> HIDE DEF n
<1>2. /\ outs1 \in Seq(Command) /\ Len(outs1) = n + 1 /\ outs1[n + 1] = o
      /\ \A i \in 1 .. n : outs1[i] = outs[i]
  BY <1>1, AppendProperties DEF n
<1>3. /\ backs1 \in Seq(Command) /\ Len(backs1) = n + 1 /\ backs1[n + 1] = b
      /\ \A i \in 1 .. n : backs1[i] = backs[i]
  BY <1>1, AppendProperties
<1>4. /\ q1 \in Seq(Document) /\ Len(q1) = n + 2 /\ q1[n + 2] = e
      /\ \A i \in 1 .. (n + 1) : q1[i] = q[i]
  <2>1. (n + 1) + 1 = n + 2
    BY <1>1
  <2> QED
    BY <1>1, <2>1, AppendProperties
<1> HIDE DEF outs1, backs1, q1
<1>5. q[n + 1] \in Document
  BY <1>1, ElementOfSeq
<1>6. Leads(o, e, q[n + 1]) /\ Leads(b, q[n + 1], e)
  BY <1>1, <1>5, LeadsOn, LeadsTo
<1>7. \A i \in 1 .. (n + 2) : Sound(q1[i])
  <2> TAKE i \in 1 .. (n + 2)
  <2>1. i \in 1 .. (n + 1) \/ i = n + 2
    BY <1>1
  <2> QED
    BY <1>1, <1>4, <2>1
<1>8. ASSUME NEW i \in 1 .. (n + 1)
      PROVE  Leads(outs1[i], q1[i + 1], q1[i]) /\ Leads(backs1[i], q1[i], q1[i + 1])
  <2>1. CASE i \in 1 .. n
    <3>1. i + 1 \in 1 .. (n + 1) /\ i \in 1 .. (n + 1)
      BY <1>1, <2>1
    <3> QED
      BY <1>1, <1>2, <1>3, <1>4, <2>1, <3>1
  <2>2. CASE i = n + 1
    <3>1. i + 1 = n + 2
      BY <1>1, <2>2
    <3> QED
      BY <1>2, <1>3, <1>4, <1>6, <2>2, <3>1
  <2> QED
    BY <1>1, <2>1, <2>2
<1>9. Len(q1) = Len(outs1) + 1
  BY <1>1, <1>2, <1>4
<1> QED
  BY <1>2, <1>3, <1>4, <1>7, <1>8, <1>9 DEF Way, outs1, backs1, q1

\* The end of a way is left behind: the command on top leads to the last page before it.
LEMMA WayShrinks ==
    ASSUME NEW outs, NEW backs, NEW q, NEW d \in Document, Way(outs, backs, q, d),
           outs # <<>>
    PROVE  LET e == q[Len(outs)]
           IN  /\ e \in Document /\ Sound(e)
               /\ Way(Front(outs), Front(backs), Front(q), e)
               /\ Leads(Last(outs), d, e) /\ Leads(Last(backs), e, d)
<1> DEFINE n == Len(outs)
           outs1 == Front(outs)
           backs1 == Front(backs)
           q1 == Front(q)
           e == q[n]
<1>1. /\ outs \in Seq(Command) /\ backs \in Seq(Command) /\ Len(backs) = n
      /\ q \in Seq(Document) /\ Len(q) = n + 1 /\ n \in Nat \ {0}
      /\ \A i \in 1 .. (n + 1) : Sound(q[i])
      /\ Timeless(q[n + 1]) = Timeless(d)
      /\ \A i \in 1 .. n : Leads(outs[i], q[i + 1], q[i]) /\ Leads(backs[i], q[i], q[i + 1])
  BY EmptySeq DEF Way
<1>2. backs # <<>> /\ q # <<>>
  BY <1>1
<1>3. /\ outs1 \in Seq(Command) /\ Len(outs1) = n - 1 /\ Last(outs) = outs[n]
      /\ \A i \in 1 .. n - 1 : outs1[i] = outs[i]
  BY <1>1, FrontIs
<1>4. /\ backs1 \in Seq(Command) /\ Len(backs1) = n - 1 /\ Last(backs) = backs[n]
      /\ \A i \in 1 .. n - 1 : backs1[i] = backs[i]
  BY <1>1, <1>2, FrontIs
<1>5. /\ q1 \in Seq(Document) /\ Len(q1) = n /\ \A i \in 1 .. n : q1[i] = q[i]
  <2>1. (n + 1) - 1 = n
    BY <1>1
  <2> QED
    BY <1>1, <1>2, <2>1, FrontIs
<1>6. /\ n \in 1 .. n /\ n \in 1 .. (n + 1) /\ n + 1 \in 1 .. (n + 1) /\ (n - 1) + 1 = n
      /\ \A i \in 1 .. n - 1 : i \in 1 .. n /\ i + 1 \in 1 .. n
      /\ \A i \in 1 .. n : i \in 1 .. (n + 1)
  BY <1>1
<1>7. q[n + 1] \in Document /\ e \in Document /\ outs[n] \in Command /\ backs[n] \in Command
  BY <1>1, <1>6, ElementOfSeq
<1> HIDE DEF n, outs1, backs1, q1, e
<1>8. Leads(outs[n], q[n + 1], e) /\ Leads(backs[n], e, q[n + 1])
  BY <1>1, <1>6 DEF e
<1>9. Leads(Last(outs), d, e) /\ Leads(Last(backs), e, d)
  BY <1>1, <1>3, <1>4, <1>7, <1>8, LeadsOn, LeadsTo
<1>10. Sound(e)
  BY <1>1, <1>6 DEF e
<1>11. Way(outs1, backs1, q1, e)
  <2>1. Timeless(q1[Len(q1)]) = Timeless(e)
    BY <1>5, <1>6 DEF e
  <2>2. \A i \in 1 .. Len(q1) : Sound(q1[i])
    <3> TAKE i \in 1 .. Len(q1)
    <3>1. q1[i] = q[i] /\ i \in 1 .. (n + 1)
      BY <1>5, <1>6
    <3> QED
      BY <1>1, <3>1
  <2>3. \A i \in 1 .. Len(outs1) :
          Leads(outs1[i], q1[i + 1], q1[i]) /\ Leads(backs1[i], q1[i], q1[i + 1])
    <3> TAKE i \in 1 .. Len(outs1)
    <3>1. i \in 1 .. n - 1 /\ i \in 1 .. n /\ i + 1 \in 1 .. n
      BY <1>3, <1>6
    <3>2. /\ outs1[i] = outs[i] /\ backs1[i] = backs[i]
          /\ q1[i] = q[i] /\ q1[i + 1] = q[i + 1]
      BY <1>3, <1>4, <1>5, <3>1
    <3> QED
      BY <1>1, <3>1, <3>2
  <2> QED
    BY <1>3, <1>4, <1>5, <1>6, <2>1, <2>2, <2>3 DEF Way
<1> QED
  BY <1>7, <1>9, <1>10, <1>11 DEF n, outs1, backs1, q1, e

-----------------------------------------------------------------------------
(* What the recursive walk of Trail computes along a way.                  *)

\* The way that Retraced goes leads through the contents of the pages.
LEMMA RetracedIs ==
    ASSUME NEW a \in Document, NEW b \in Document, NEW c \in Command, Leads(c, a, b),
           NEW x, [x EXCEPT !.revision = 0] = Timeless(a)
    PROVE  Retraced(x, c) = [b EXCEPT !.revision = 1]
<1> DEFINE e == Timeless(a)
<1>1. /\ e.revision = 0 /\ e.tempo = a.tempo /\ e.tracks = a.tracks /\ e.others = a.others
  BY TimelessFields
<1>2. EditedTracks(e, c) = EditedTracks(a, c)
  BY <1>1, EditsAreTimeless
<1>3. /\ Accepts(e, c) /\ EditedTracks(a, c) = b.tracks /\ a.others = b.others
      /\ (IF c.type = "setTempo" THEN c.value ELSE a.tempo) = b.tempo
  BY LeadsIs
<1> HIDE DEF e
<1>4. Edited(e, c) = [revision |-> 1, tempo |-> b.tempo, tracks |-> b.tracks, others |-> b.others]
  BY <1>1, <1>2, <1>3 DEF Edited
<1>5. [b EXCEPT !.revision = 1] =
         [revision |-> 1, tempo |-> b.tempo, tracks |-> b.tracks, others |-> b.others]
  BY DEF Document
<1>6. Retraced(x, c) = Edited(e, c)
  <2>1. [x EXCEPT !.revision = 0] = e
    BY DEF e
  <2> QED
    BY <1>3, <2>1 DEF Retraced
<1> QED
  BY <1>4, <1>5, <1>6

\* What one step of Trail's walk puts in front.
LEMMA InFront ==
    ASSUME NEW S, NEW n \in Nat, NEW w \in [1 .. n -> S], NEW k \in 1 .. n - 1, NEW x,
           x = w[n - k]
    PROVE  <<x>> \o [j \in 1 .. k |-> w[(n - k) + j]] = [j \in 1 .. k + 1 |-> w[(n - k - 1) + j]]
<1> DEFINE v == [j \in 1 .. k |-> w[(n - k) + j]]
           u == [j \in 1 .. k + 1 |-> w[(n - k - 1) + j]]
<1>1. k \in Nat /\ n - k \in 1 .. n /\ \A j \in 1 .. k : (n - k) + j \in 1 .. n
  OBVIOUS
<1>2. v \in Seq(S) /\ Len(v) = k /\ \A j \in 1 .. k : v[j] = w[(n - k) + j]
  <2>1. v \in [1 .. k -> S]
    BY <1>1
  <2> QED
    BY <1>1, <2>1
<1>3. \A j \in 1 .. k + 1 : (n - k - 1) + j \in 1 .. n
  OBVIOUS
<1>4. u \in Seq(S) /\ Len(u) = k + 1 /\ \A j \in 1 .. k + 1 : u[j] = w[(n - k - 1) + j]
  <2>1. u \in [1 .. k + 1 -> S]
    BY <1>3
  <2> QED
    BY <1>1, <2>1
<1> HIDE DEF v, u
<1>5. x \in S
  BY <1>1
<1>6. <<x>> \in Seq(S) /\ Len(<<x>>) = 1 /\ <<x>>[1] = x
  BY <1>5
<1>7. /\ <<x>> \o v \in Seq(S) /\ Len(<<x>> \o v) = 1 + k
      /\ \A j \in 1 .. 1 + k : (<<x>> \o v)[j] = IF j <= 1 THEN x ELSE v[j - 1]
  <2>1. /\ <<x>> \o v \in Seq(S) /\ Len(<<x>> \o v) = Len(<<x>>) + Len(v)
        /\ \A j \in 1 .. Len(<<x>>) + Len(v) :
              (<<x>> \o v)[j] = IF j <= Len(<<x>>) THEN <<x>>[j] ELSE v[j - Len(<<x>>)]
    BY <1>2, <1>6, ConcatProperties
  <2>2. \A j \in 1 .. 1 + k : j <= 1 => j = 1
    BY <1>1
  <2> QED
    BY <1>2, <1>6, <2>1, <2>2
<1>8. ASSUME NEW j \in 1 .. k + 1
      PROVE  (<<x>> \o v)[j] = u[j]
  <2>1. CASE j = 1
    <3>1. (n - k - 1) + 1 = n - k
      BY <1>1
    <3> QED
      BY <1>1, <1>4, <1>7, <2>1, <3>1
  <2>2. CASE j # 1
    <3>1. j - 1 \in 1 .. k /\ ~(j <= 1) /\ (n - k) + (j - 1) = (n - k - 1) + j /\ j \in 1 .. 1 + k
      BY <1>1, <2>2
    <3> QED
      BY <1>2, <1>4, <1>7, <3>1
  <2> QED
    BY <2>1, <2>2
<1>9. 1 + k = k + 1
  BY <1>1
<1>10. Len(<<x>> \o v) = Len(u)
  BY <1>4, <1>7, <1>9
<1>11. \A j \in 1 .. Len(u) : (<<x>> \o v)[j] = u[j]
  BY <1>4, <1>8
<1>12. <<x>> \o v = u
  BY <1>4, <1>7, <1>10, <1>11, SeqEqual
<1> QED
  BY <1>12 DEF v, u

\* Documents w that are Retraced one from the other are those that Trail walks through.
LEMMA TrailWalks ==
    ASSUME NEW commands, NEW S, NEW w \in Seq(S), Len(w) = Len(commands) + 1,
           Len(commands) \in Nat,
           \A i \in 1 .. Len(commands) : Retraced(w[i + 1], commands[i]) = w[i]
    PROVE  LET t == Trail(w[Len(commands) + 1], commands)
           IN  /\ DOMAIN t = 1 .. Len(commands)
               /\ t = [i \in DOMAIN t |-> t[i]]
               /\ \A i \in 1 .. Len(commands) : t[i] = Content(w[i])
<1> DEFINE n == Len(commands)
           d == w[n + 1]
<1>0. /\ n \in Nat /\ n = Len(commands) /\ w \in [1 .. n + 1 -> S] /\ w[n + 1] = d
      /\ w = [i \in 1 .. n + 1 |-> w[i]]
      /\ \A i \in 1 .. n : Retraced(w[i + 1], commands[i]) = w[i]
  <2>1. w \in [1 .. n + 1 -> S]
    BY LenProperties
  <2> QED
    BY <2>1
<1> HIDE DEF n, d
<1> USE <1>0
<1> DEFINE body(f) == [i \in 0 .. n |->
                          IF i = 0 THEN <<d>>
                          ELSE CHOOSE x \in {<<Retraced(Head(v), commands[n + 1 - i])>> \o v :
                                                 v \in {f[i - 1]}} : TRUE]
           walk == CHOOSE f : f = body(f)
           tail(k) == [j \in 1 .. k + 1 |-> w[((n + 1) - k - 1) + j]]
           g == [k \in 0 .. n |-> tail(k)]
<1>1. Trail(d, commands) = CHOOSE t \in {[i \in 1 .. n |-> Content(x[i])] : x \in {walk[n]}} : TRUE
  BY <1>0 DEF Trail
<1>2. tail(0) = <<d>>
  <2>1. \A j \in 1 .. 0 + 1 : w[((n + 1) - 0 - 1) + j] = d
    <3> TAKE j \in 1 .. 0 + 1
    <3>1. ((n + 1) - 0 - 1) + j = n + 1
      OBVIOUS
    <3> QED
      BY <3>1
  <2>2. tail(0) = [j \in 1 .. 1 |-> d]
    BY <2>1
  <2>3. <<d>> = [j \in 1 .. 1 |-> d]
    OBVIOUS
  <2> QED
    BY <2>2, <2>3
<1>3. ASSUME NEW i \in 1 .. n
      PROVE  <<Retraced(Head(tail(i - 1)), commands[n + 1 - i])>> \o tail(i - 1) = tail(i)
  <2>1. /\ i \in 1 .. (n + 1) - 1 /\ n + 1 \in Nat /\ (i - 1) + 1 = i
        /\ (n + 1) - (i - 1) - 1 = (n + 1) - i /\ 1 \in 1 .. i
        /\ ((n + 1) - i) \in 1 .. n
    OBVIOUS
  <2>2. tail(i - 1) = [j \in 1 .. i |-> w[((n + 1) - i) + j]]
    BY <2>1
  <2>3. Head(tail(i - 1)) = w[((n + 1) - i) + 1]
    BY <2>1, <2>2
  <2> HIDE DEF tail
  <2>4. Retraced(Head(tail(i - 1)), commands[n + 1 - i]) = w[(n + 1) - i]
    <3>1. Retraced(w[((n + 1) - i) + 1], commands[(n + 1) - i]) = w[(n + 1) - i]
      BY ONLY <1>0, <2>1
    <3>2. n + 1 - i = (n + 1) - i
      BY <2>1
    <3> QED
      BY ONLY <2>3, <3>1, <3>2
  <2> DEFINE x == Retraced(Head(tail(i - 1)), commands[n + 1 - i])
  <2>5. x = w[(n + 1) - i]
    BY <2>4
  <2> HIDE DEF x
  <2>6. <<x>> \o [j \in 1 .. i |-> w[((n + 1) - i) + j]] =
           [j \in 1 .. i + 1 |-> w[((n + 1) - i - 1) + j]]
    BY ONLY <2>1, <2>5, InFront, w \in [1 .. n + 1 -> S], SMTT(30)
  <2> QED
    BY <2>2, <2>6 DEF tail, x
<1>4. g = body(g)
  <2>1. ASSUME NEW i \in 0 .. n
        PROVE  g[i] = IF i = 0 THEN <<d>>
                      ELSE CHOOSE x \in {<<Retraced(Head(v), commands[n + 1 - i])>> \o v :
                                                 v \in {g[i - 1]}} : TRUE
    <3>1. g[i] = tail(i)
      OBVIOUS
    <3> HIDE DEF tail
    <3>2. CASE i = 0
      BY <1>2, <3>1, <3>2
    <3>3. CASE i # 0
      <4>1. i \in 1 .. n /\ i - 1 \in 0 .. n
        BY <3>3
      <4>2. g[i - 1] = tail(i - 1)
        BY <4>1
      <4> HIDE DEF g
      <4>3. {<<Retraced(Head(v), commands[n + 1 - i])>> \o v : v \in {g[i - 1]}} =
               {<<Retraced(Head(tail(i - 1)), commands[n + 1 - i])>> \o tail(i - 1)}
        BY <4>2
      <4>4. {<<Retraced(Head(v), commands[n + 1 - i])>> \o v : v \in {g[i - 1]}} = {tail(i)}
        BY <1>3, <4>1, <4>3
      <4> QED
        BY <3>1, <3>3, <4>4
    <3> QED
      BY <3>2, <3>3
  <2> QED
    BY <2>1
<1>5. walk = body(walk)
  BY <1>4
<1> HIDE DEF walk
<1>6. \A i \in 0 .. n : walk[i] = IF i = 0 THEN <<d>>
                      ELSE CHOOSE x \in {<<Retraced(Head(v), commands[n + 1 - i])>> \o v :
                                                 v \in {walk[i - 1]}} : TRUE
  BY <1>5
<1> HIDE DEF body, g
<1> DEFINE T == {k \in Nat : k <= n => walk[k] = tail(k)}
<1>7. 0 \in T
  <2> HIDE DEF tail
  <2>1. walk[0] = <<d>>
    <3>1. 0 \in 0 .. n
      OBVIOUS
    <3>2. walk[0] = IF 0 = 0 THEN <<d>>
                    ELSE CHOOSE x \in {<<Retraced(Head(v), commands[n + 1 - 0])>> \o v :
                                           v \in {walk[0 - 1]}} : TRUE
      BY <1>6, <3>1, Zenon
    <3> QED
      BY ONLY <3>2
  <2>2. walk[0] = tail(0)
    BY <1>2, <2>1
  <2> QED
    BY <2>2
<1>8. ASSUME NEW k \in Nat, k \in T
      PROVE  k + 1 \in T
  <2> SUFFICES ASSUME k + 1 <= n
               PROVE  walk[k + 1] = tail(k + 1)
    OBVIOUS
  <2>1. k + 1 \in 0 .. n /\ k + 1 \in 1 .. n /\ k + 1 # 0 /\ (k + 1) - 1 = k /\ k <= n
    OBVIOUS
  <2>2. walk[k] = tail(k)
    BY <1>8, <2>1
  <2>3. <<Retraced(Head(tail(k)), commands[n + 1 - (k + 1)])>> \o tail(k) = tail(k + 1)
    <3>1. <<Retraced(Head(tail((k + 1) - 1)), commands[n + 1 - (k + 1)])>> \o tail((k + 1) - 1)
              = tail(k + 1)
      BY <1>3, <2>1
    <3> HIDE DEF tail
    <3> QED
      BY <2>1, <3>1
  <2> HIDE DEF tail
  <2>4. walk[k + 1] = CHOOSE x \in {<<Retraced(Head(v), commands[n + 1 - (k + 1)])>> \o v :
                                                 v \in {walk[(k + 1) - 1]}} : TRUE
    BY <1>6, <2>1
  <2>5. {<<Retraced(Head(v), commands[n + 1 - (k + 1)])>> \o v : v \in {walk[(k + 1) - 1]}}
           = {tail(k + 1)}
    BY <2>1, <2>2, <2>3
  <2> QED
    BY <2>4, <2>5
<1>9. Nat \subseteq T
  <2> HIDE DEF T
  <2> QED
    BY <1>7, <1>8, NatInd
<1>10. walk[n] = tail(n)
  <2> HIDE DEF tail
  <2>1. n \in T /\ n <= n
    BY <1>9
  <2> QED
    BY <2>1
<1>11. tail(n) = w
  <2>1. \A j \in 1 .. n + 1 : ((n + 1) - n - 1) + j = j
    OBVIOUS
  <2> QED
    BY <2>1
<1>12. {[i \in 1 .. n |-> Content(x[i])] : x \in {walk[n]}} = {[i \in 1 .. n |-> Content(w[i])]}
  <2>1. walk[n] = w
    BY <1>10, <1>11
  <2>2. {walk[n]} = {w}
    BY <2>1
  <2> QED
    BY ONLY <2>2
<1>13. Trail(d, commands) = [i \in 1 .. n |-> Content(w[i])]
  BY <1>1, <1>12
<1> DEFINE trail == Trail(d, commands)
<1>14. trail = [i \in 1 .. n |-> Content(w[i])]
  BY <1>13
<1> HIDE DEF trail
<1>15. DOMAIN trail = 1 .. n /\ \A i \in 1 .. n : trail[i] = Content(w[i])
  BY ONLY <1>14
<1>16. trail = [i \in DOMAIN trail |-> trail[i]]
  BY ONLY <1>14
<1>17. /\ DOMAIN trail = 1 .. n /\ trail = [i \in DOMAIN trail |-> trail[i]]
       /\ \A i \in 1 .. n : trail[i] = Content(w[i])
  BY ONLY <1>15, <1>16
<1> QED
  BY ONLY <1>17, Zenon DEF trail, n, d

\* The commands of a history stack, those that lead back and those that lead forth.
Inverses(es) == [i \in DOMAIN es |-> es[i].inverse]
Forwards(es) == [i \in DOMAIN es |-> es[i].forward]

\* The line of a session: the pages before and those behind its document.
Line(s, p, f) ==
    /\ Way(Inverses(s.undo), Forwards(s.undo), p, s.doc)
    /\ Way(Forwards(s.redo), Inverses(s.redo), f, s.doc)

\* Undo and redo of session s have a line to go.
HasLine(s) == Sound(s.doc) /\ \E p, f : Line(s, p, f)

\* The commands of a stack that has grown or lost its top.
LEMMA StackCommands ==
    ASSUME NEW es \in Seq(Entry)
    PROVE  /\ Inverses(es) \in Seq(Command) /\ Forwards(es) \in Seq(Command)
           /\ Len(Inverses(es)) = Len(es) /\ Len(Forwards(es)) = Len(es)
           /\ \A e \in Entry : /\ Inverses(Append(es, e)) = Append(Inverses(es), e.inverse)
                               /\ Forwards(Append(es, e)) = Append(Forwards(es), e.forward)
           /\ es # <<>> =>
                 /\ Inverses(Front(es)) = Front(Inverses(es))
                 /\ Forwards(Front(es)) = Front(Forwards(es))
                 /\ Last(Inverses(es)) = Last(es).inverse /\ Inverses(es) # <<>>
                 /\ Last(Forwards(es)) = Last(es).forward /\ Forwards(es) # <<>>
                 /\ Last(es) \in Entry
           /\ es = <<>> => Inverses(es) = <<>> /\ Forwards(es) = <<>>
<1> DEFINE n == Len(es)
<1>1. DOMAIN es = 1 .. n /\ n \in Nat
  BY LenProperties
<1>2. \A i \in 1 .. n : es[i] \in Entry
  BY ElementOfSeq
<1>3. \A e \in Entry : e.inverse \in Command /\ e.forward \in Command
  BY DEF Entry
<1>4. /\ Inverses(es) = [i \in 1 .. n |-> es[i].inverse]
      /\ Forwards(es) = [i \in 1 .. n |-> es[i].forward]
  BY <1>1 DEF Inverses, Forwards
<1>5. /\ Inverses(es) \in Seq(Command) /\ Forwards(es) \in Seq(Command)
      /\ Len(Inverses(es)) = n /\ Len(Forwards(es)) = n
  <2>1. Inverses(es) \in [1 .. n -> Command] /\ Forwards(es) \in [1 .. n -> Command]
    BY <1>2, <1>3, <1>4
  <2> QED
    BY <1>1, <2>1
<1>6. ASSUME NEW e \in Entry
      PROVE  /\ Inverses(Append(es, e)) = Append(Inverses(es), e.inverse)
             /\ Forwards(Append(es, e)) = Append(Forwards(es), e.forward)
  <2> DEFINE t == Append(es, e)
  <2>1. /\ t \in Seq(Entry) /\ Len(t) = n + 1 /\ t[n + 1] = e
        /\ \A i \in 1 .. n : t[i] = es[i]
    BY AppendProperties
  <2>2. DOMAIN t = 1 .. (n + 1)
    BY <2>1, LenProperties
  <2> HIDE DEF t
  <2>3. /\ Inverses(t) = [i \in 1 .. (n + 1) |-> t[i].inverse]
        /\ Forwards(t) = [i \in 1 .. (n + 1) |-> t[i].forward]
    BY <2>2 DEF Inverses, Forwards
  <2> HIDE DEF n
  <2>4. /\ Append(Inverses(es), e.inverse) =
              [i \in 1 .. (n + 1) |-> IF i = n + 1 THEN e.inverse ELSE Inverses(es)[i]]
        /\ Append(Forwards(es), e.forward) =
              [i \in 1 .. (n + 1) |-> IF i = n + 1 THEN e.forward ELSE Forwards(es)[i]]
    BY <1>1, <1>3, <1>5
  <2>5. \A i \in 1 .. (n + 1) :
           /\ t[i].inverse = IF i = n + 1 THEN e.inverse ELSE Inverses(es)[i]
           /\ t[i].forward = IF i = n + 1 THEN e.forward ELSE Forwards(es)[i]
    <3> TAKE i \in 1 .. (n + 1)
    <3>1. i = n + 1 \/ (i # n + 1 /\ i \in 1 .. n)
      BY <1>1
    <3> QED
      BY <1>4, <2>1, <3>1
  <2> QED
    BY <2>3, <2>4, <2>5 DEF t
<1>7. ASSUME es # <<>>
      PROVE  /\ Inverses(Front(es)) = Front(Inverses(es))
             /\ Forwards(Front(es)) = Front(Forwards(es))
             /\ Last(Inverses(es)) = Last(es).inverse /\ Inverses(es) # <<>>
             /\ Last(Forwards(es)) = Last(es).forward /\ Forwards(es) # <<>>
             /\ Last(es) \in Entry
  <2>1. n # 0
    BY <1>7, EmptySeq
  <2>2. Inverses(es) # <<>> /\ Forwards(es) # <<>>
    BY <1>5, <2>1
  <2> DEFINE t == Front(es)
  <2>3. /\ t \in Seq(Entry) /\ Len(t) = n - 1 /\ Last(es) = es[n] /\ Last(es) \in Entry
        /\ \A i \in 1 .. n - 1 : t[i] = es[i]
    BY <1>7, FrontIs
  <2>4. /\ Front(Inverses(es)) \in Seq(Command) /\ Len(Front(Inverses(es))) = n - 1
        /\ Last(Inverses(es)) = Inverses(es)[n]
        /\ \A i \in 1 .. n - 1 : Front(Inverses(es))[i] = Inverses(es)[i]
    BY <1>5, <2>2, FrontIs
  <2>5. /\ Front(Forwards(es)) \in Seq(Command) /\ Len(Front(Forwards(es))) = n - 1
        /\ Last(Forwards(es)) = Forwards(es)[n]
        /\ \A i \in 1 .. n - 1 : Front(Forwards(es))[i] = Forwards(es)[i]
    BY <1>5, <2>2, FrontIs
  <2>6. DOMAIN t = 1 .. n - 1
    BY <2>3, LenProperties
  <2> HIDE DEF t, n
  <2>7. n \in 1 .. n /\ \A i \in 1 .. n - 1 : i \in 1 .. n
    BY <1>1, <2>1
  <2>8. Inverses(es)[n] = es[n].inverse /\ Forwards(es)[n] = es[n].forward
    BY <1>4, <2>7
  <2>9. /\ Inverses(t) = [i \in 1 .. n - 1 |-> t[i].inverse]
        /\ Forwards(t) = [i \in 1 .. n - 1 |-> t[i].forward]
    BY <2>6 DEF Inverses, Forwards
  <2>10. \A i \in 1 .. n - 1 : /\ t[i].inverse = Inverses(es)[i]
                               /\ t[i].forward = Forwards(es)[i]
    BY <1>4, <2>3, <2>7
  <2>11. /\ Front(Inverses(es)) = [i \in 1 .. n - 1 |-> Inverses(es)[i]]
         /\ Front(Forwards(es)) = [i \in 1 .. n - 1 |-> Forwards(es)[i]]
    BY <1>1, <2>1, <2>4, <2>5, LenProperties
  <2>12. Inverses(t) = Front(Inverses(es)) /\ Forwards(t) = Front(Forwards(es))
    BY <2>9, <2>10, <2>11
  <2> QED
    BY <2>2, <2>3, <2>4, <2>5, <2>8, <2>12 DEF t
<1>8. es = <<>> => Inverses(es) = <<>> /\ Forwards(es) = <<>>
  BY <1>5
<1> QED
  BY <1>5, <1>6, <1>7, <1>8

\* What documents show.
Contents == {Content(x) : x \in Document}

\* The contents that the commands of a way lead through.
LEMMA WayTrail ==
    ASSUME NEW outs, NEW backs, NEW q, NEW d \in Document, Way(outs, backs, q, d)
    PROVE  /\ Trail(d, outs) \in Seq(Contents) /\ Len(Trail(d, outs)) = Len(outs)
           /\ \A i \in 1 .. Len(outs) : Trail(d, outs)[i] = Content(q[i])
           /\ Content(q[Len(outs) + 1]) = Content(d)
<1> DEFINE n == Len(outs)
           w == [i \in 1 .. n + 1 |-> IF i = n + 1 THEN d ELSE [q[i] EXCEPT !.revision = 1]]
           S == {w[i] : i \in 1 .. n + 1}
<1>1. /\ outs \in Seq(Command) /\ n \in Nat
      /\ q \in Seq(Document) /\ Len(q) = n + 1
      /\ Timeless(q[n + 1]) = Timeless(d)
      /\ \A i \in 1 .. n : Leads(outs[i], q[i + 1], q[i])
  BY LenProperties DEF Way
<1>2. \A i \in 1 .. n + 1 : q[i] \in Document
  BY <1>1, ElementOfSeq
<1>3. \A i \in 1 .. n : outs[i] \in Command
  BY <1>1, ElementOfSeq
<1> HIDE DEF n
<1>4. \A i \in 1 .. n + 1 : [w[i] EXCEPT !.revision = 0] = Timeless(q[i])
  <2> TAKE i \in 1 .. n + 1
  <2>1. CASE i = n + 1
    BY <1>1, <2>1 DEF Timeless
  <2>2. CASE i # n + 1
    <3>1. q[i] \in Document
      BY <1>2
    <3>2. w[i] = [q[i] EXCEPT !.revision = 1]
      BY <2>2
    <3> HIDE DEF w
    <3>3. [w[i] EXCEPT !.revision = 0] = [q[i] EXCEPT !.revision = 0]
      BY <3>1, <3>2 DEF Document
    <3> QED
      BY <3>3 DEF Timeless
  <2> QED
    BY <2>1, <2>2
<1>5. ASSUME NEW i \in 1 .. n
      PROVE  Retraced(w[i + 1], outs[i]) = w[i]
  <2>1. i \in 1 .. n + 1 /\ i + 1 \in 1 .. n + 1 /\ i # n + 1
    BY <1>1
  <2>2. w[i] = [q[i] EXCEPT !.revision = 1]
    BY <2>1
  <2>3. [w[i + 1] EXCEPT !.revision = 0] = Timeless(q[i + 1])
    BY <1>4, <2>1
  <2> HIDE DEF w
  <2>4. q[i] \in Document /\ q[i + 1] \in Document /\ outs[i] \in Command
        /\ Leads(outs[i], q[i + 1], q[i])
    BY <1>1, <1>2, <1>3, <2>1
  <2>5. Retraced(w[i + 1], outs[i]) = [q[i] EXCEPT !.revision = 1]
    BY ONLY <2>3, <2>4, RetracedIs
  <2> QED
    BY <2>2, <2>5
<1>6. w \in [1 .. n + 1 -> S] /\ w[n + 1] = d
  BY <1>1
<1> HIDE DEF S
<1>7. ASSUME NEW i \in 1 .. n
      PROVE  Content(w[i]) = Content(q[i])
  <2>1. i \in 1 .. n + 1 /\ i # n + 1 /\ q[i] \in Document
    BY <1>1, <1>2
  <2>2. w[i] = [q[i] EXCEPT !.revision = 1]
    BY <2>1
  <2> HIDE DEF w
  <2>3. w[i].tempo = q[i].tempo /\ w[i].tracks = q[i].tracks /\ w[i].others = q[i].others
    BY <2>1, <2>2 DEF Document
  <2> QED
    BY <2>3 DEF Content
<1> HIDE DEF w
<1> DEFINE t == Trail(d, outs)
<1>8. /\ DOMAIN t = 1 .. n /\ t = [i \in DOMAIN t |-> t[i]]
      /\ \A i \in 1 .. n : t[i] = Content(w[i])
  <2>1. /\ Len(outs) \in Nat /\ w \in Seq(S) /\ Len(w) = Len(outs) + 1
        /\ \A i \in 1 .. Len(outs) : Retraced(w[i + 1], outs[i]) = w[i]
    <3>1. w \in Seq(S) /\ Len(w) = n + 1
      BY <1>1, <1>6
    <3> QED
      BY <1>1, <1>5, <3>1 DEF n
  <2>2. w[Len(outs) + 1] = d
    BY <1>6 DEF n
  <2>3. /\ DOMAIN t = 1 .. Len(outs) /\ t = [i \in DOMAIN t |-> t[i]]
        /\ \A i \in 1 .. Len(outs) : t[i] = Content(w[i])
    <3> HIDE DEF t
    <3>1. t = Trail(w[Len(outs) + 1], outs)
      BY ONLY <2>2 DEF t
    <3> QED
      BY ONLY <2>1, <3>1, TrailWalks
  <2> QED
    BY ONLY <2>3 DEF n
<1> HIDE DEF t
<1>9. q[n + 1] \in Document
  BY <1>1, <1>2
<1>10. Content(q[n + 1]) = Content(d)
  BY <1>1, <1>9, TimelessIs
<1>11. \A i \in 1 .. n : t[i] = Content(q[i])
  BY <1>7, <1>8
<1>12. \A i \in 1 .. n : i \in 1 .. n + 1 /\ q[i] \in Document
  BY <1>1, <1>2
<1>13. t \in [1 .. n -> Contents]
  BY <1>8, <1>11, <1>12 DEF Contents
<1>14. t \in Seq(Contents) /\ Len(t) = n
  BY <1>1, <1>13
<1> QED
  BY <1>10, <1>11, <1>14 DEF n, t

\* Past and future along a line.
LEMMA LineTimeline ==
    ASSUME NEW s \in Session, NEW p, NEW f, Line(s, p, f)
    PROVE  /\ Past(s) \in Seq(Contents) /\ Len(Past(s)) = Len(s.undo)
           /\ \A i \in 1 .. Len(s.undo) : Past(s)[i] = Content(p[i])
           /\ Content(p[Len(s.undo) + 1]) = Content(s.doc)
           /\ Future(s) \in Seq(Contents) /\ Len(Future(s)) = Len(s.redo)
           /\ \A i \in 1 .. Len(s.redo) : Future(s)[i] = Content(f[i])
           /\ Content(f[Len(s.redo) + 1]) = Content(s.doc)
<1>1. s.doc \in Document /\ s.undo \in Seq(Entry) /\ s.redo \in Seq(Entry)
  BY DEF Session
<1>2. Len(Inverses(s.undo)) = Len(s.undo) /\ Len(Forwards(s.redo)) = Len(s.redo)
  BY <1>1, StackCommands
<1>3. Way(Inverses(s.undo), Forwards(s.undo), p, s.doc)
      /\ Way(Forwards(s.redo), Inverses(s.redo), f, s.doc)
  BY DEF Line
<1>4. Past(s) = Trail(s.doc, Inverses(s.undo)) /\ Future(s) = Trail(s.doc, Forwards(s.redo))
  BY DEF Past, Future, Inverses, Forwards
<1> DEFINE outs == Inverses(s.undo)
           ahead == Forwards(s.redo)
<1>5. /\ Trail(s.doc, outs) \in Seq(Contents) /\ Len(Trail(s.doc, outs)) = Len(outs)
      /\ \A i \in 1 .. Len(outs) : Trail(s.doc, outs)[i] = Content(p[i])
      /\ Content(p[Len(outs) + 1]) = Content(s.doc)
  <2> HIDE DEF outs
  <2>1. Way(outs, Forwards(s.undo), p, s.doc)
    BY <1>3 DEF outs
  <2> QED
    BY ONLY <1>1, <2>1, WayTrail
<1>6. /\ Trail(s.doc, ahead) \in Seq(Contents) /\ Len(Trail(s.doc, ahead)) = Len(ahead)
      /\ \A i \in 1 .. Len(ahead) : Trail(s.doc, ahead)[i] = Content(f[i])
      /\ Content(f[Len(ahead) + 1]) = Content(s.doc)
  <2> HIDE DEF ahead
  <2>1. Way(ahead, Inverses(s.redo), f, s.doc)
    BY <1>3 DEF ahead
  <2> QED
    BY ONLY <1>1, <2>1, WayTrail
<1>7. /\ Past(s) \in Seq(Contents) /\ Len(Past(s)) = Len(s.undo)
      /\ \A i \in 1 .. Len(s.undo) : Past(s)[i] = Content(p[i])
      /\ Content(p[Len(s.undo) + 1]) = Content(s.doc)
  BY <1>2, <1>4, <1>5
<1>8. /\ Future(s) \in Seq(Contents) /\ Len(Future(s)) = Len(s.redo)
      /\ \A i \in 1 .. Len(s.redo) : Future(s)[i] = Content(f[i])
      /\ Content(f[Len(s.redo) + 1]) = Content(s.doc)
  BY <1>2, <1>4, <1>6
<1> QED
  BY <1>7, <1>8

\* The contents of one page more.
LEMMA OneMore ==
    ASSUME NEW S, NEW n \in Nat, NEW s \in Seq(S), Len(s) = n, NEW t \in Seq(S), Len(t) = n + 1,
           \A i \in 1 .. n : t[i] = s[i], NEW x \in S, t[n + 1] = x
    PROVE  t = Append(s, x) /\ s = Front(t) /\ x = Last(t) /\ t # <<>>
<1>1. /\ Append(s, x) \in Seq(S) /\ Len(Append(s, x)) = n + 1 /\ Append(s, x)[n + 1] = x
      /\ \A i \in 1 .. n : Append(s, x)[i] = s[i]
  BY AppendProperties
<1>2. \A i \in 1 .. n + 1 : i \in 1 .. n \/ i = n + 1
  OBVIOUS
<1>3. \A i \in 1 .. Len(t) : t[i] = Append(s, x)[i]
  BY <1>1, <1>2
<1>4. t = Append(s, x)
  BY <1>1, <1>3, SeqEqual
<1>5. t # <<>>
  OBVIOUS
<1>6. /\ Front(t) \in Seq(S) /\ Len(Front(t)) = (n + 1) - 1
      /\ \A i \in 1 .. (n + 1) - 1 : Front(t)[i] = t[i]
      /\ Last(t) = t[n + 1]
  BY <1>5, FrontIs
<1>7. (n + 1) - 1 = n
  OBVIOUS
<1>8. s = Front(t)
  <2>1. Len(s) = Len(Front(t)) /\ \A i \in 1 .. Len(s) : s[i] = Front(t)[i]
    BY <1>6, <1>7
  <2> QED
    BY <1>6, <2>1, SeqEqual
<1> QED
  BY <1>4, <1>5, <1>6, <1>8

-----------------------------------------------------------------------------
(* Edits, undos and redos along the line.                                  *)

\* One page more in the past, read forwards (an edit, a redo) or backwards (an undo).
LEMMA PastGrows ==
    ASSUME NEW s \in Session, NEW p, NEW f, Line(s, p, f),
           NEW t \in Session, NEW q, NEW g, Line(t, q, g),
           Len(t.undo) = Len(s.undo) + 1, \A i \in 1 .. Len(s.undo) + 1 : q[i] = p[i]
    PROVE  /\ Past(t) = Append(Past(s), Content(s.doc)) /\ Past(s) = Front(Past(t))
           /\ Content(s.doc) = Last(Past(t)) /\ Past(t) # <<>>
<1> DEFINE n == Len(s.undo)
<1>1. n \in Nat
  BY LenProperties DEF Session
<1>2. /\ Past(s) \in Seq(Contents) /\ Len(Past(s)) = n
      /\ \A i \in 1 .. n : Past(s)[i] = Content(p[i])
      /\ Content(p[n + 1]) = Content(s.doc)
  BY LineTimeline
<1>3. /\ Past(t) \in Seq(Contents) /\ Len(Past(t)) = Len(t.undo)
      /\ \A i \in 1 .. Len(t.undo) : Past(t)[i] = Content(q[i])
  BY LineTimeline
<1>4. Content(s.doc) \in Contents
  BY DEF Session, Contents
<1>5. \A i \in 1 .. n : i \in 1 .. n + 1
  BY <1>1
<1>6. \A i \in 1 .. n : Past(t)[i] = Past(s)[i]
  BY <1>2, <1>3, <1>5
<1>7. n + 1 \in 1 .. n + 1
  BY <1>1
<1>8. Past(t)[n + 1] = Content(s.doc)
  BY <1>2, <1>3, <1>7
<1>9. Len(Past(t)) = n + 1
  BY <1>3
<1> HIDE DEF n
<1> DEFINE a == Past(s)
           b == Past(t)
           x == Content(s.doc)
<1>10. /\ a \in Seq(Contents) /\ Len(a) = n /\ b \in Seq(Contents) /\ Len(b) = n + 1
       /\ \A i \in 1 .. n : b[i] = a[i]
       /\ x \in Contents /\ b[n + 1] = x
  BY <1>2, <1>3, <1>4, <1>6, <1>8, <1>9
<1> HIDE DEF a, b, x
<1>11. b = Append(a, x) /\ a = Front(b) /\ x = Last(b) /\ b # <<>>
  BY ONLY <1>1, <1>10, OneMore
<1> QED
  BY <1>11 DEF a, b, x

\* One page more in the future (an undo; backwards, a redo).
LEMMA FutureGrows ==
    ASSUME NEW s \in Session, NEW p, NEW f, Line(s, p, f),
           NEW t \in Session, NEW q, NEW g, Line(t, q, g),
           Len(t.redo) = Len(s.redo) + 1, \A i \in 1 .. Len(s.redo) + 1 : g[i] = f[i]
    PROVE  /\ Future(t) = Append(Future(s), Content(s.doc)) /\ Future(s) = Front(Future(t))
           /\ Content(s.doc) = Last(Future(t)) /\ Future(t) # <<>>
<1> DEFINE n == Len(s.redo)
<1>1. n \in Nat
  BY LenProperties DEF Session
<1>2. /\ Future(s) \in Seq(Contents) /\ Len(Future(s)) = n
      /\ \A i \in 1 .. n : Future(s)[i] = Content(f[i])
      /\ Content(f[n + 1]) = Content(s.doc)
  BY LineTimeline
<1>3. /\ Future(t) \in Seq(Contents) /\ Len(Future(t)) = Len(t.redo)
      /\ \A i \in 1 .. Len(t.redo) : Future(t)[i] = Content(g[i])
  BY LineTimeline
<1>4. Content(s.doc) \in Contents
  BY DEF Session, Contents
<1>5. \A i \in 1 .. n : i \in 1 .. n + 1
  BY <1>1
<1>6. \A i \in 1 .. n : Future(t)[i] = Future(s)[i]
  BY <1>2, <1>3, <1>5
<1>7. n + 1 \in 1 .. n + 1
  BY <1>1
<1>8. Future(t)[n + 1] = Content(s.doc)
  BY <1>2, <1>3, <1>7
<1>9. Len(Future(t)) = n + 1
  BY <1>3
<1> HIDE DEF n
<1> DEFINE a == Future(s)
           b == Future(t)
           x == Content(s.doc)
<1>10. /\ a \in Seq(Contents) /\ Len(a) = n /\ b \in Seq(Contents) /\ Len(b) = n + 1
       /\ \A i \in 1 .. n : b[i] = a[i]
       /\ x \in Contents /\ b[n + 1] = x
  BY <1>2, <1>3, <1>4, <1>6, <1>8, <1>9
<1> HIDE DEF a, b, x
<1>11. b = Append(a, x) /\ a = Front(b) /\ x = Last(b) /\ b # <<>>
  BY ONLY <1>1, <1>10, OneMore
<1> QED
  BY <1>11 DEF a, b, x

\* A way ends at any document of its last page's content.
LEMMA WayEnds ==
    ASSUME NEW outs, NEW backs, NEW q, NEW d, Way(outs, backs, q, d),
           NEW e, Timeless(e) = Timeless(d)
    PROVE  Way(outs, backs, q, e)
BY DEF Way

\* commitEdit: a page more in the past, and no future.
LEMMA LineEdit ==
    ASSUME NEW s \in Session, HasLine(s), NEW c \in ClientCommands(s.doc), CanEdit(s, c)
    PROVE  LET t == AfterEdit(s, c)
           IN  t \in Session /\ HasLine(t) /\ Promise!EditOf(Timeline(s), Timeline(t))
<1> DEFINE t == AfterEdit(s, c)
           d == s.doc
           e == Edited(d, c)
           en == EntryFor(d, c)
<1>1. /\ d \in Document /\ s.undo \in Seq(Entry) /\ s.redo \in Seq(Entry)
      /\ c \in Command /\ InverseOf(d, c) \in Command /\ Accepts(d, c) /\ Sound(d)
  BY ClientCommandType, InverseType DEF Session, CanEdit, HasLine
<1>2. en \in Entry /\ en.forward = c /\ en.inverse = InverseOf(d, c)
  BY <1>1 DEF EntryFor, Entry
<1>3. PICK p, f : Line(s, p, f)
  BY DEF HasLine
<1>4. e \in Document /\ Sound(e) /\ Leads(c, d, e) /\ Leads(InverseOf(d, c), e, d)
  BY <1>1, EditLeads
<1>5. /\ t.doc = e /\ t.undo = Append(s.undo, en) /\ t.redo = <<>> /\ e.revision = d.revision + 1
  BY DEF AfterEdit, Edited
<1>6. t \in Session
  <2>1. Append(s.undo, en) \in Seq(Entry) /\ <<>> \in Seq(Entry)
    BY <1>1, <1>2, AppendProperties
  <2> HIDE DEF e, en
  <2>2. t = [doc |-> e, undo |-> Append(s.undo, en), redo |-> <<>>]
    BY DEF AfterEdit, e, en
  <2> QED
    BY <1>4, <2>1, <2>2 DEF Session
<1> DEFINE q == Append(p, e)
           g == <<e>>
<1> HIDE DEF e, en, t, d
<1>7. Way(Inverses(s.undo), Forwards(s.undo), p, d)
  BY <1>3 DEF Line, d
<1>8. Way(Append(Inverses(s.undo), InverseOf(d, c)), Append(Forwards(s.undo), c), q, e)
  BY <1>1, <1>4, <1>7, WayGrows
<1>9. /\ Inverses(Append(s.undo, en)) = Append(Inverses(s.undo), InverseOf(d, c))
      /\ Forwards(Append(s.undo, en)) = Append(Forwards(s.undo), c)
  BY <1>1, <1>2, StackCommands
<1>10. Way(Inverses(t.undo), Forwards(t.undo), q, t.doc)
  BY <1>5, <1>8, <1>9
<1>11. Way(Forwards(t.redo), Inverses(t.redo), g, t.doc)
  <2>1. <<>> \in Seq(Entry)
    OBVIOUS
  <2>2. Inverses(<<>>) = <<>> /\ Forwards(<<>>) = <<>>
    BY <2>1, StackCommands
  <2> QED
    BY <1>4, <1>5, <2>2, WayBegins
<1>12. Line(t, q, g)
  BY <1>10, <1>11 DEF Line
<1>13. HasLine(t)
  BY <1>4, <1>5, <1>12 DEF HasLine
<1>14. Len(t.undo) = Len(s.undo) + 1 /\ \A i \in 1 .. Len(s.undo) + 1 : q[i] = p[i]
  <2>1. p \in Seq(Document) /\ Len(p) = Len(Inverses(s.undo)) + 1
    BY <1>7 DEF Way
  <2>2. Len(p) = Len(s.undo) + 1
    BY <1>1, <2>1, StackCommands
  <2> QED
    BY <1>1, <1>2, <1>4, <1>5, <2>1, <2>2, AppendProperties
<1>15. Past(t) = Append(Past(s), Content(s.doc))
  <2> HIDE DEF q, g
  <2> QED
    BY ONLY <1>3, <1>6, <1>12, <1>14, s \in Session, PastGrows
<1>16. Future(t) = <<>>
  <2>1. Future(t) \in Seq(Contents) /\ Len(Future(t)) = 0
    BY <1>5, <1>6, <1>12, LineTimeline
  <2> QED
    BY <2>1, EmptySeq
<1>17. Promise!EditOf(Timeline(s), Timeline(t))
  BY <1>5, <1>15, <1>16 DEF Promise!EditOf, Timeline, d
<1> QED
  BY <1>6, <1>13, <1>17 DEF t

\* commitHistoryAction, undo: the page before is the document again.
LEMMA LineUndo ==
    ASSUME NEW s \in Session, HasLine(s), CanUndo(s)
    PROVE  LET t == AfterUndo(s)
           IN  t \in Session /\ HasLine(t) /\ Promise!UndoOf(Timeline(s), Timeline(t))
<1> DEFINE t == AfterUndo(s)
           d == s.doc
           en == Last(s.undo)
           e == Edited(d, en.inverse)
           n == Len(s.undo)
           outs == Inverses(s.undo)
           backs == Forwards(s.undo)
<1>1. /\ d \in Document /\ s.undo \in Seq(Entry) /\ s.redo \in Seq(Entry)
      /\ s.undo # <<>> /\ Accepts(d, en.inverse)
  BY DEF Session, CanUndo
<1>2. PICK p, f : Line(s, p, f)
  BY DEF HasLine
<1>3. /\ en \in Entry /\ outs # <<>> /\ Len(outs) = n
      /\ Last(outs) = en.inverse /\ Last(backs) = en.forward
      /\ Inverses(Front(s.undo)) = Front(outs) /\ Forwards(Front(s.undo)) = Front(backs)
  BY <1>1, StackCommands
<1>4. /\ Front(s.undo) \in Seq(Entry) /\ Len(Front(s.undo)) = n - 1 /\ n \in Nat \ {0}
  BY <1>1, FrontIs
<1>5. en.inverse \in Command /\ en.forward \in Command
  BY <1>3 DEF Entry
<1>6. Way(outs, backs, p, d) /\ Way(Forwards(s.redo), Inverses(s.redo), f, d)
  BY <1>2 DEF Line
<1>7. /\ t.doc = e /\ t.undo = Front(s.undo) /\ t.redo = Append(s.redo, en)
      /\ e.revision = d.revision + 1
  BY DEF AfterUndo, Edited
<1>8. e \in Document
  BY <1>1, <1>5, AcceptedLeads
<1>9. t \in Session
  <2>1. Append(s.redo, en) \in Seq(Entry)
    BY <1>1, <1>3, AppendProperties
  <2> HIDE DEF e, en
  <2>2. t = [doc |-> e, undo |-> Front(s.undo), redo |-> Append(s.redo, en)]
    BY DEF AfterUndo, e, en
  <2> QED
    BY <1>4, <1>8, <2>1, <2>2 DEF Session
<1> DEFINE w == p[n]
<1> HIDE DEF e, en, t, d, n, outs, backs
<1>10. /\ w \in Document /\ Sound(w) /\ Way(Front(outs), Front(backs), Front(p), w)
       /\ Leads(en.inverse, d, w) /\ Leads(en.forward, w, d)
  <2>1. /\ p[Len(outs)] \in Document /\ Sound(p[Len(outs)])
        /\ Way(Front(outs), Front(backs), Front(p), p[Len(outs)])
        /\ Leads(Last(outs), d, p[Len(outs)]) /\ Leads(Last(backs), p[Len(outs)], d)
    BY ONLY <1>1, <1>3, <1>6, WayShrinks
  <2> QED
    BY <1>3, <2>1
<1>11. Timeless(e) = Timeless(w)
  <2>1. Timeless(d) = Timeless(d) /\ d.revision < MaxRevision
    BY <1>1 DEF Accepts
  <2> QED
    BY <1>1, <1>5, <1>10, <2>1, LeadsOn DEF e
<1> HIDE DEF w
<1>12. e.tempo = w.tempo /\ e.tracks = w.tracks /\ e.others = w.others
  BY <1>8, <1>10, <1>11, TimelessIs
<1>13. Sound(e)
  BY <1>10, <1>12 DEF Sound, TrackIds, OtherIds
<1>14. Way(Front(outs), Front(backs), Front(p), e)
  BY <1>10, <1>11, WayEnds
<1>15. Leads(en.forward, e, d) /\ Leads(en.inverse, d, e)
  BY <1>1, <1>5, <1>8, <1>10, <1>11, LeadsOn, LeadsTo
<1> DEFINE q == Front(p)
           g == Append(f, e)
<1>16. Way(Append(Forwards(s.redo), en.forward), Append(Inverses(s.redo), en.inverse), g, e)
  BY <1>1, <1>5, <1>6, <1>8, <1>13, <1>15, WayGrows
<1>17. /\ Inverses(Append(s.redo, en)) = Append(Inverses(s.redo), en.inverse)
       /\ Forwards(Append(s.redo, en)) = Append(Forwards(s.redo), en.forward)
  BY <1>1, <1>3, StackCommands
<1>18. Way(Inverses(t.undo), Forwards(t.undo), q, t.doc)
  BY <1>3, <1>7, <1>14
<1>19. Way(Forwards(t.redo), Inverses(t.redo), g, t.doc)
  BY <1>7, <1>16, <1>17
<1>20. Line(t, q, g)
  BY <1>18, <1>19 DEF Line
<1>21. HasLine(t)
  BY <1>7, <1>13, <1>20 DEF HasLine
<1>22. Len(s.undo) = Len(t.undo) + 1 /\ \A i \in 1 .. Len(t.undo) + 1 : p[i] = q[i]
  <2>1. p \in Seq(Document) /\ Len(p) = Len(outs) + 1
    BY <1>6 DEF Way
  <2>2. p # <<>> /\ (n + 1) - 1 = n
    BY <1>3, <1>4, <2>1
  <2>3. \A i \in 1 .. (n + 1) - 1 : q[i] = p[i]
    BY <1>3, <2>1, <2>2, FrontIs
  <2>4. Len(t.undo) = n - 1 /\ (n - 1) + 1 = n /\ n = Len(s.undo)
    BY <1>4, <1>7 DEF n
  <2> QED
    BY <2>2, <2>3, <2>4
<1>23. Len(t.redo) = Len(s.redo) + 1 /\ \A i \in 1 .. Len(s.redo) + 1 : g[i] = f[i]
  <2>1. f \in Seq(Document) /\ Len(f) = Len(Forwards(s.redo)) + 1
    BY <1>6 DEF Way
  <2>2. Len(f) = Len(s.redo) + 1
    BY <1>1, <2>1, StackCommands
  <2> QED
    BY <1>1, <1>3, <1>7, <1>8, <2>1, <2>2, AppendProperties
<1> HIDE DEF q, g
<1>24. /\ Past(s) # <<>> /\ Past(t) = Front(Past(s)) /\ Content(t.doc) = Last(Past(s))
  BY ONLY <1>2, <1>9, <1>20, <1>22, s \in Session, PastGrows
<1>25. Future(t) = Append(Future(s), Content(s.doc))
  BY ONLY <1>2, <1>9, <1>20, <1>23, s \in Session, FutureGrows
<1>26. Promise!UndoOf(Timeline(s), Timeline(t))
  BY <1>7, <1>24, <1>25 DEF Promise!UndoOf, Timeline, d, Promise!Front, Promise!Last, Front, Last
<1> QED
  BY <1>9, <1>21, <1>26 DEF t

\* commitHistoryAction, redo: the page after is.
LEMMA LineRedo ==
    ASSUME NEW s \in Session, HasLine(s), CanRedo(s)
    PROVE  LET t == AfterRedo(s)
           IN  t \in Session /\ HasLine(t) /\ Promise!RedoOf(Timeline(s), Timeline(t))
<1> DEFINE t == AfterRedo(s)
           d == s.doc
           en == Last(s.redo)
           e == Edited(d, en.forward)
           n == Len(s.redo)
           outs == Forwards(s.redo)
           backs == Inverses(s.redo)
<1>1. /\ d \in Document /\ s.undo \in Seq(Entry) /\ s.redo \in Seq(Entry)
      /\ s.redo # <<>> /\ Accepts(d, en.forward)
  BY DEF Session, CanRedo
<1>2. PICK p, f : Line(s, p, f)
  BY DEF HasLine
<1>3. /\ en \in Entry /\ outs # <<>> /\ Len(outs) = n
      /\ Last(outs) = en.forward /\ Last(backs) = en.inverse
      /\ Forwards(Front(s.redo)) = Front(outs) /\ Inverses(Front(s.redo)) = Front(backs)
  BY <1>1, StackCommands
<1>4. /\ Front(s.redo) \in Seq(Entry) /\ Len(Front(s.redo)) = n - 1 /\ n \in Nat \ {0}
  BY <1>1, FrontIs
<1>5. en.inverse \in Command /\ en.forward \in Command
  BY <1>3 DEF Entry
<1>6. Way(outs, backs, f, d) /\ Way(Inverses(s.undo), Forwards(s.undo), p, d)
  BY <1>2 DEF Line
<1>7. /\ t.doc = e /\ t.redo = Front(s.redo) /\ t.undo = Append(s.undo, en)
      /\ e.revision = d.revision + 1
  BY DEF AfterRedo, Edited
<1>8. e \in Document
  BY <1>1, <1>5, AcceptedLeads
<1>9. t \in Session
  <2>1. Append(s.undo, en) \in Seq(Entry)
    BY <1>1, <1>3, AppendProperties
  <2> HIDE DEF e, en
  <2>2. t = [doc |-> e, undo |-> Append(s.undo, en), redo |-> Front(s.redo)]
    BY DEF AfterRedo, e, en
  <2> QED
    BY <1>4, <1>8, <2>1, <2>2 DEF Session
<1> DEFINE w == f[n]
<1> HIDE DEF e, en, t, d, n, outs, backs
<1>10. /\ w \in Document /\ Sound(w) /\ Way(Front(outs), Front(backs), Front(f), w)
       /\ Leads(en.forward, d, w) /\ Leads(en.inverse, w, d)
  <2>1. /\ f[Len(outs)] \in Document /\ Sound(f[Len(outs)])
        /\ Way(Front(outs), Front(backs), Front(f), f[Len(outs)])
        /\ Leads(Last(outs), d, f[Len(outs)]) /\ Leads(Last(backs), f[Len(outs)], d)
    BY ONLY <1>1, <1>3, <1>6, WayShrinks
  <2> QED
    BY <1>3, <2>1
<1>11. Timeless(e) = Timeless(w)
  <2>1. Timeless(d) = Timeless(d) /\ d.revision < MaxRevision
    BY <1>1 DEF Accepts
  <2> QED
    BY <1>1, <1>5, <1>10, <2>1, LeadsOn DEF e
<1> HIDE DEF w
<1>12. e.tempo = w.tempo /\ e.tracks = w.tracks /\ e.others = w.others
  BY <1>8, <1>10, <1>11, TimelessIs
<1>13. Sound(e)
  BY <1>10, <1>12 DEF Sound, TrackIds, OtherIds
<1>14. Way(Front(outs), Front(backs), Front(f), e)
  BY <1>10, <1>11, WayEnds
<1>15. Leads(en.inverse, e, d) /\ Leads(en.forward, d, e)
  BY <1>1, <1>5, <1>8, <1>10, <1>11, LeadsOn, LeadsTo
<1> DEFINE q == Front(f)
           g == Append(p, e)
<1>16. Way(Append(Inverses(s.undo), en.inverse), Append(Forwards(s.undo), en.forward), g, e)
  BY <1>1, <1>5, <1>6, <1>8, <1>13, <1>15, WayGrows
<1>17. /\ Forwards(Append(s.undo, en)) = Append(Forwards(s.undo), en.forward)
       /\ Inverses(Append(s.undo, en)) = Append(Inverses(s.undo), en.inverse)
  BY <1>1, <1>3, StackCommands
<1>18. Way(Forwards(t.redo), Inverses(t.redo), q, t.doc)
  BY <1>3, <1>7, <1>14
<1>19. Way(Inverses(t.undo), Forwards(t.undo), g, t.doc)
  BY <1>7, <1>16, <1>17
<1>20. Line(t, g, q)
  BY <1>18, <1>19 DEF Line
<1>21. HasLine(t)
  BY <1>7, <1>13, <1>20 DEF HasLine
<1>22. Len(s.redo) = Len(t.redo) + 1 /\ \A i \in 1 .. Len(t.redo) + 1 : f[i] = q[i]
  <2>1. f \in Seq(Document) /\ Len(f) = Len(outs) + 1
    BY <1>6 DEF Way
  <2>2. f # <<>> /\ (n + 1) - 1 = n
    BY <1>3, <1>4, <2>1
  <2>3. \A i \in 1 .. (n + 1) - 1 : q[i] = f[i]
    BY <1>3, <2>1, <2>2, FrontIs
  <2>4. Len(t.redo) = n - 1 /\ (n - 1) + 1 = n /\ n = Len(s.redo)
    BY <1>4, <1>7 DEF n
  <2> QED
    BY <2>2, <2>3, <2>4
<1>23. Len(t.undo) = Len(s.undo) + 1 /\ \A i \in 1 .. Len(s.undo) + 1 : g[i] = p[i]
  <2>1. p \in Seq(Document) /\ Len(p) = Len(Inverses(s.undo)) + 1
    BY <1>6 DEF Way
  <2>2. Len(p) = Len(s.undo) + 1
    BY <1>1, <2>1, StackCommands
  <2> QED
    BY <1>1, <1>3, <1>7, <1>8, <2>1, <2>2, AppendProperties
<1> HIDE DEF q, g
<1>24. /\ Future(s) # <<>> /\ Future(t) = Front(Future(s)) /\ Content(t.doc) = Last(Future(s))
  BY ONLY <1>2, <1>9, <1>20, <1>22, s \in Session, FutureGrows
<1>25. Past(t) = Append(Past(s), Content(s.doc))
  BY ONLY <1>2, <1>9, <1>20, <1>23, s \in Session, PastGrows
<1>26. Promise!RedoOf(Timeline(s), Timeline(t))
  BY <1>7, <1>24, <1>25 DEF Promise!RedoOf, Timeline, d, Promise!Front, Promise!Last, Front, Last
<1> QED
  BY <1>9, <1>21, <1>26 DEF t

\* While revisions are left, the command on top of a stack is accepted.
LEMMA LineApplies ==
    ASSUME NEW s \in Session, HasLine(s), s.doc.revision < MaxRevision
    PROVE  /\ s.undo # <<>> => Accepts(s.doc, Last(s.undo).inverse)
           /\ s.redo # <<>> => Accepts(s.doc, Last(s.redo).forward)
<1>1. s.doc \in Document /\ s.undo \in Seq(Entry) /\ s.redo \in Seq(Entry)
  BY DEF Session
<1>2. PICK p, f : Line(s, p, f)
  BY DEF HasLine
<1>3. /\ Way(Inverses(s.undo), Forwards(s.undo), p, s.doc)
      /\ Way(Forwards(s.redo), Inverses(s.redo), f, s.doc)
  BY <1>2 DEF Line
<1>4. ASSUME NEW outs, NEW backs, NEW q, Way(outs, backs, q, s.doc), outs # <<>>,
             Last(outs) \in Command
      PROVE  Accepts(s.doc, Last(outs))
  <2>1. q[Len(outs)] \in Document /\ Leads(Last(outs), s.doc, q[Len(outs)])
    BY <1>1, <1>4, WayShrinks
  <2> QED
    BY <1>1, <1>4, <2>1, LeadsOn
<1>5. ASSUME s.undo # <<>> PROVE Accepts(s.doc, Last(s.undo).inverse)
  <2>1. /\ Inverses(s.undo) # <<>> /\ Last(Inverses(s.undo)) = Last(s.undo).inverse
        /\ Last(s.undo) \in Entry
    BY <1>1, <1>5, StackCommands
  <2>2. Last(Inverses(s.undo)) \in Command
    BY <2>1 DEF Entry
  <2>3. Accepts(s.doc, Last(Inverses(s.undo)))
    BY <1>3, <1>4, <2>1, <2>2
  <2> QED
    BY <2>1, <2>3
<1>6. ASSUME s.redo # <<>> PROVE Accepts(s.doc, Last(s.redo).forward)
  <2>1. /\ Forwards(s.redo) # <<>> /\ Last(Forwards(s.redo)) = Last(s.redo).forward
        /\ Last(s.redo) \in Entry
    BY <1>1, <1>6, StackCommands
  <2>2. Last(Forwards(s.redo)) \in Command
    BY <2>1 DEF Entry
  <2>3. Accepts(s.doc, Last(Forwards(s.redo)))
    BY <1>3, <1>4, <2>1, <2>2
  <2> QED
    BY <2>1, <2>3
<1> QED
  BY <1>5, <1>6

-----------------------------------------------------------------------------
(* The line invariant, and the promise step by step.  Two more hypotheses: *)
(* the saved projects have track names that an edit may give (1..1024      *)
(* bytes; otherwise the undo of a rename would be refused), and the journal*)
(* is not damaged at rest.                                                 *)

SeedsRenameable == \A d \in SeedDocuments : \A i \in DOMAIN d.tracks : d.tracks[i].name \in EditNames
JournalStays == "journal" \notin MediaFaults

\* Undo and redo retrace the line of every session in the ledger.
LInv ==
    /\ damaged \subseteq MediaFaults
    /\ poisoned => mode = "open"
    /\ \A r \in DOMAIN ledger : HasLine(ledger[r])

\* What a step means for the promise.
Kept == (UNCHANGED <<Up, ledger, acked>> \/ Promise!Next) \/ UNCHANGED Promise!observed

\* Documents without history are at the beginning of a line.
LEMMA FreshLine ==
    ASSUME NEW d \in Document, Sound(d)
    PROVE  HasLine(FreshSession(d))
<1> DEFINE s == FreshSession(d)
<1>1. s.doc = d /\ s.undo = <<>> /\ s.redo = <<>>
  BY DEF FreshSession
<1> HIDE DEF s
<1>2. <<>> \in Seq(Entry)
  OBVIOUS
<1>3. Inverses(<<>>) = <<>> /\ Forwards(<<>>) = <<>>
  BY <1>2, StackCommands
<1>4. Way(<<>>, <<>>, <<d>>, d)
  BY WayBegins
<1>5. Line(s, <<d>>, <<d>>)
  BY <1>1, <1>3, <1>4 DEF Line
<1>6. HasLine(s)
  BY <1>1, <1>5 DEF HasLine
<1> QED
  BY <1>6 DEF s

\* The default session and the saved projects are at the beginning of one.
LEMMA SeedsAreSound ==
    ASSUME SeedsRenameable
    PROVE  /\ Sound(DefaultDocument) /\ \A d \in SeedDocuments : Sound(d) /\ d \in Document
           /\ SeedsDecode
<1> DEFINE master == [id |-> 1, name |-> MasterName]
<1>1. master \in EditTrack
  BY ValuesAssumption, LimitsAssumption DEF EditTrack, Track, StableId
<1>2. /\ DefaultDocument.tempo \in Tempos /\ DefaultDocument.others = {}
      /\ DefaultDocument.tracks = <<master>> /\ <<master>> \in Seq(EditTrack)
      /\ Len(<<master>>) = 1 /\ DOMAIN <<master>> = {1} /\ <<master>>[1] = master
  BY <1>1, ValuesAssumption DEF DefaultDocument
<1> HIDE DEF master
<1>3. TrackIds(DefaultDocument) = {1}
  <2>1. TrackIds(DefaultDocument) = {<<master>>[i].id : i \in {1}}
    BY <1>2 DEF TrackIds
  <2> QED
    BY <1>2, <2>1 DEF master
<1>4. OtherIds(DefaultDocument) = {}
  BY <1>2 DEF OtherIds
<1>5. Cardinality({1}) = 1 /\ Cardinality({}) = 0
  BY FS_Singleton, FS_EmptySet
<1>6. MaxStableId # 1
  BY LimitsAssumption
<1>7. Sound(DefaultDocument)
  BY <1>2, <1>3, <1>4, <1>5, <1>6 DEF Sound
<1>8. ASSUME NEW d \in SeedDocuments
      PROVE  Sound(d) /\ d \in Document /\ d.tracks \in Seq(RecordTrack)
  <2>1. d \in Document /\ Editable(d)
    BY DiskAssumption
  <2>2. /\ d.tempo \in Tempos /\ d.tracks \in Seq(Track) /\ d.others \subseteq Entity
    BY <2>1 DEF Document
  <2>3. \A i \in 1 .. Len(d.tracks) : d.tracks[i] \in EditTrack
    <3> TAKE i \in 1 .. Len(d.tracks)
    <3>1. d.tracks[i] \in Track /\ i \in DOMAIN d.tracks
      BY <2>2, ElementOfSeq, LenProperties
    <3> QED
      BY <3>1 DEF SeedsRenameable, EditTrack
  <2>4. d.tracks \in Seq(EditTrack)
    <3>1. Len(d.tracks) \in Nat /\ d.tracks \in [1 .. Len(d.tracks) -> EditTrack]
      BY <2>2, <2>3, LenProperties
    <3> QED
      BY <3>1
  <2>5. EditTrack \subseteq RecordTrack
    BY ValuesAssumption DEF EditTrack, RecordTrack
  <2>6. d.tracks \in Seq(RecordTrack)
    BY <2>4, <2>5
  <2> QED
    BY <2>1, <2>2, <2>4, <2>6 DEF Sound, Editable, WellFormed
<1> QED
  BY <1>7, <1>8 DEF SeedsDecode

\* A project that was never opened has no history yet.
LEMMA InitLInv == ASSUME SeedsRenameable, Init PROVE LInv
<1> DEFINE d == IF target = NoFile THEN DefaultDocument ELSE target
<1>1. d \in Document /\ Sound(d)
  BY SeedsAreSound, DefaultDocumentType DEF Init
<1>2. ledger = [r \in {d.revision} |-> FreshSession(d)] /\ damaged = {} /\ poisoned = FALSE
  BY DEF Init
<1> HIDE DEF d
<1> QED
  BY <1>1, <1>2, FreshLine DEF LInv

\* While the session takes edits the ledger ends with it.
LEMMA UpFacts ==
    ASSUME JournalStays, IInv, HInv, LInv, mode = "open"
    PROVE  /\ JournalIntact /\ live \in Session /\ live = ledger[acked]
           /\ acked = live.doc.revision /\ acked \in Nat /\ acked \in DOMAIN ledger
           /\ HasLine(live)
           /\ ~poisoned => \A r \in DOMAIN ledger : r \in Nat /\ r <= acked
<1>1. JournalIntact
  BY DEF LInv, JournalStays, JournalIntact
<1>2. journal # <<>>
  BY <1>1, RunningHasJournal
<1>3. live = ledger[acked] /\ acked = live.doc.revision
      /\ (~poisoned => live.doc.revision = LastSeq(journal))
  BY <1>1 DEF HInv, OpenOK, IInv, LiveOK
<1>4. acked \in DOMAIN ledger /\ live \in Session /\ acked \in Nat
  BY RevisionsAreNumbers DEF IInv, TypeOK
<1>5. \A r \in DOMAIN ledger : r \in Nat /\ r <= LastSeq(journal)
  BY <1>1, <1>2, LedgerCovers
<1> QED
  BY <1>1, <1>3, <1>4, <1>5 DEF LInv

\* An appended record is a step of the promise, or an interrupted one that is in doubt if
\* the record may be whole.
LEMMA AppendKeeps ==
    ASSUME JournalStays, IInv, HInv, LInv, mode = "open", ~poisoned,
           NEW next \in Session, NEW rec, rec.seq = live.doc.revision + 1,
           HasLine(next), Promise!StepOf(Timeline(live), Timeline(next)),
           AppendRecord(next, rec)
    PROVE  LInv' /\ Kept
<1>1. /\ live = ledger[acked] /\ acked = live.doc.revision /\ acked \in Nat
      /\ acked \in DOMAIN ledger
      /\ \A r \in DOMAIN ledger : r \in Nat /\ r <= acked
  BY UpFacts
<1>2. mode' = "open" /\ damaged' = damaged
  BY DEF AppendRecord
<1>3. next.doc.revision = acked + 1
  BY <1>1 DEF Promise!StepOf, Promise!EditOf, Promise!UndoOf, Promise!RedoOf, Timeline
<1>4. Promise!State = Timeline(live)
  BY <1>1 DEF Promise!State, Timeline
<1>5. {Timeline(ledger[r]) : r \in {q \in DOMAIN ledger : q > acked}} = {}
  BY <1>1
<1>6. ASSUME ledger' = [r \in DOMAIN ledger \cup {rec.seq} |->
                           IF r = rec.seq THEN next ELSE ledger[r]]
      PROVE  /\ DOMAIN ledger' = DOMAIN ledger \cup {acked + 1}
             /\ ledger'[acked + 1] = next /\ ledger'[acked] = live
             /\ \A r \in DOMAIN ledger' : HasLine(ledger'[r])
             /\ \A r \in DOMAIN ledger' : r <= acked + 1
             /\ {q \in DOMAIN ledger' : q > acked} = {acked + 1}
  <2>1. rec.seq = acked + 1 /\ acked # acked + 1
    BY <1>1
  <2>2. DOMAIN ledger' = DOMAIN ledger \cup {acked + 1}
        /\ ledger'[acked + 1] = next /\ ledger'[acked] = live
    BY <1>1, <1>6, <2>1
  <2>3. \A r \in DOMAIN ledger' : HasLine(ledger'[r])
    BY <1>6 DEF LInv
  <2>4. \A r \in DOMAIN ledger' : r <= acked + 1
    BY <1>1, <2>2
  <2>5. {q \in DOMAIN ledger' : q > acked} = {acked + 1}
    BY <1>1, <2>2
  <2> QED
    BY <2>2, <2>3, <2>4, <2>5
<1>7. CASE Acknowledge(next, rec)
  <2>1. /\ poisoned' = poisoned /\ acked' = acked + 1
        /\ ledger' = [r \in DOMAIN ledger \cup {rec.seq} |->
                           IF r = rec.seq THEN next ELSE ledger[r]]
    BY <1>1, <1>7 DEF Acknowledge
  <2>2. LInv'
    BY <1>2, <1>6, <2>1 DEF LInv
  <2>3. Promise!State' = Timeline(next)
    BY <1>3, <1>6, <2>1 DEF Promise!State, Timeline
  <2>4. {Timeline(ledger'[r]) : r \in {q \in DOMAIN ledger' : q > acked'}} = {}
    <3>1. acked' = acked + 1 /\ acked \in Nat
      BY <1>1, <2>1
    <3>2. DOMAIN ledger' = DOMAIN ledger \cup {acked + 1}
      BY <1>6, <2>1
    <3>3. \A q \in DOMAIN ledger' : q \in Nat /\ q <= acked + 1
      BY <1>1, <3>1, <3>2
    <3>4. \A q \in DOMAIN ledger' : ~(q > acked')
      BY <3>1, <3>3
    <3> QED
      BY <3>4
  <2>5. Promise!Step
    BY <1>2, <1>4, <1>5, <2>1, <2>3, <2>4 DEF Promise!Step, Up
  <2> QED
    BY <2>2, <2>5 DEF Kept, Promise!Next
<1>8. CASE Interrupt(next, rec)
  <2>1. /\ poisoned' = TRUE /\ acked' = acked
        /\ \/ ledger' = ledger
           \/ ledger' = [r \in DOMAIN ledger \cup {rec.seq} |->
                           IF r = rec.seq THEN next ELSE ledger[r]]
    BY <1>8 DEF Interrupt
  <2>2. LInv'
    BY <1>2, <1>6, <2>1 DEF LInv
  <2>3. Up /\ ~Up'
    BY <2>1 DEF Up
  <2>4. ledger'[acked'] = ledger[acked]
    BY <1>1, <1>6, <2>1
  <2>5. UNCHANGED Promise!state
    BY <2>1, <2>4 DEF Promise!state
  <2> DEFINE D == {Timeline(ledger'[r]) : r \in {q \in DOMAIN ledger' : q > acked'}}
  <2>6. D \in {{}, {Timeline(next)}}
    <3>1. CASE ledger' = ledger
      BY <1>5, <2>1, <3>1
    <3>2. CASE ledger' = [r \in DOMAIN ledger \cup {rec.seq} |->
                           IF r = rec.seq THEN next ELSE ledger[r]]
      BY <1>6, <2>1, <3>2
    <3> QED
      BY <2>1, <3>1, <3>2
  <2>7. \A t \in D : Promise!StepOf(Promise!State, t) /\ D = {t}
    <3> HIDE DEF D
    <3> QED
      BY <1>4, <2>6
  <2>8. Promise!Interrupt
    BY <2>3, <2>5, <2>7 DEF Promise!Interrupt
  <2> QED
    BY <2>2, <2>8 DEF Kept, Promise!Next
<1> QED
  BY <1>7, <1>8 DEF AppendRecord

\* A checkpoint forgets what came before: the promise does not see it.
LEMMA CheckpointKeeps ==
    ASSUME JournalStays, IInv, HInv, LInv, Checkpoint
    PROVE  LInv' /\ Kept
<1>1. /\ mode = "open" /\ ~poisoned /\ durable = live.doc.revision
      /\ ledger' = [r \in {durable} |-> live]
      /\ UNCHANGED <<mode, poisoned, acked, damaged>>
  BY DEF Checkpoint
<1>2. /\ live = ledger[acked] /\ acked = live.doc.revision /\ acked \in Nat
      /\ HasLine(live) /\ \A r \in DOMAIN ledger : r \in Nat /\ r <= acked
  BY <1>1, UpFacts
<1>3. DOMAIN ledger' = {acked} /\ ledger'[acked] = live
  BY <1>1, <1>2
<1>4. LInv'
  BY <1>1, <1>2, <1>3 DEF LInv
<1>5. {Timeline(ledger[r]) : r \in {q \in DOMAIN ledger : q > acked}} = {}
  BY <1>2
<1>6. {Timeline(ledger'[r]) : r \in {q \in DOMAIN ledger' : q > acked'}} = {}
  <2>1. acked' = acked /\ ~(acked > acked)
    BY <1>1, <1>2
  <2>2. \A q \in DOMAIN ledger' : ~(q > acked')
    BY <1>3, <2>1
  <2> QED
    BY <2>2
<1>7. UNCHANGED Promise!observed
  <2>1. ledger'[acked'] = ledger[acked] /\ acked' = acked /\ Up' = Up
    BY <1>1, <1>2, <1>3 DEF Up
  <2>2. UNCHANGED Promise!state
    BY <2>1 DEF Promise!state
  <2> QED
    BY <1>5, <1>6, <2>1, <2>2 DEF Promise!observed
<1> QED
  BY <1>4, <1>7 DEF Kept

\* A reopened session is the acknowledged one or the one of the interrupted step.
LEMMA GoLiveKeeps ==
    ASSUME JournalStays, IInv, HInv, LInv, mode # "open", JournalIntact, journal # <<>>,
           live = ledger[LastSeq(journal)], NEW revision, GoLive(revision)
    PROVE  LInv' /\ Kept
<1> DEFINE last == LastSeq(journal)
<1>1. /\ last \in Nat /\ last \in {acked, acked + 1} /\ acked \in Nat
      /\ \A r \in DOMAIN ledger : r \in Nat /\ r <= last
      /\ LedgerEnd = last
  BY LedgerCovers, RevisionsAreNumbers
<1>2. last \in DOMAIN ledger
  <2>1. LedgerOK
    BY DEF HInv
  <2> QED
    BY <2>1, JournalFacts
<1>3. live.doc.revision = last
  BY <1>2 DEF HInv, LedgerOK, Dated
<1>4. /\ mode' = "open" /\ acked' = last /\ poisoned' = poisoned /\ damaged' = damaged
      /\ ledger' = [r \in {q \in DOMAIN ledger : Base <= q /\ q < last} \cup {last} |->
                       IF r = last THEN live ELSE ledger[r]]
  BY <1>3 DEF GoLive, Base
<1> HIDE DEF last
<1>5. ~poisoned /\ HasLine(live)
  BY <1>2 DEF LInv, last
<1>6. LInv'
  BY <1>4, <1>5 DEF LInv
<1>7. ~Up /\ Up'
  BY <1>4, <1>5 DEF Up
<1>8. ledger'[acked'] = live
  BY <1>4
<1>9. Promise!State' = Timeline(live)
  BY <1>3, <1>4, <1>8 DEF Promise!State, Timeline
<1>10. {Timeline(ledger'[r]) : r \in {q \in DOMAIN ledger' : q > acked'}} = {}
  <2>1. \A q \in DOMAIN ledger' : ~(q > acked')
    BY <1>1, <1>4
  <2> QED
    BY <2>1
<1> DEFINE D == {Timeline(ledger[r]) : r \in {q \in DOMAIN ledger : q > acked}}
<1>11. Timeline(live) \in {Promise!State} \cup D
  <2>1. CASE last = acked
    <3>1. live = ledger[acked] /\ acked = live.doc.revision
      BY <1>3, <2>1 DEF last
    <3>2. Promise!State = Timeline(live)
      BY <3>1 DEF Promise!State, Timeline
    <3> QED
      BY <3>2
  <2>2. CASE last = acked + 1
    <3>1. last \in {q \in DOMAIN ledger : q > acked} /\ live = ledger[last]
      BY <1>1, <1>2, <2>2 DEF last
    <3> QED
      BY <3>1
  <2> QED
    BY <1>1, <2>1, <2>2
<1>12. Promise!Recover
  BY <1>7, <1>9, <1>10, <1>11 DEF Promise!Recover
<1> QED
  BY <1>6, <1>12 DEF Kept, Promise!Next

\* Steps that touch neither the ledger nor what was acknowledged.
LEMMA QuietKeeps ==
    ASSUME LInv, UNCHANGED <<ledger, acked>>, damaged' \subseteq MediaFaults,
           mode # "open" \/ UNCHANGED poisoned,
           mode' = "open" <=> mode = "open", poisoned' => poisoned
    PROVE  LInv' /\ Kept
<1>1. LInv'
  BY DEF LInv
<1>2. Up' <=> Up
  BY DEF Up, LInv
<1> QED
  BY <1>1, <1>2 DEF Kept, Up

\* commitEdit is an edit of the promise.
LEMMA EditKeeps == ASSUME JournalStays, IInv, HInv, LInv, Edit PROVE LInv' /\ Kept
<1>1. PICK c \in ClientCommands(live.doc) :
          CanEdit(live, c) /\ AppendRecord(AfterEdit(live, c), EditRecord(live, c))
  BY DEF Edit
<1>2. mode = "open" /\ ~poisoned /\ live \in Session /\ HasLine(live)
  BY UpFacts DEF Edit
<1>3. /\ AfterEdit(live, c) \in Session /\ HasLine(AfterEdit(live, c))
      /\ Promise!EditOf(Timeline(live), Timeline(AfterEdit(live, c)))
  BY <1>1, <1>2, LineEdit
<1>4. EditRecord(live, c).seq = live.doc.revision + 1
  BY DEF EditRecord, ActionRecord
<1> QED
  BY <1>1, <1>2, <1>3, <1>4, AppendKeeps DEF Promise!StepOf

\* commitHistoryAction, undo, is one of its undos ...
LEMMA UndoKeeps == ASSUME JournalStays, IInv, HInv, LInv, Undo PROVE LInv' /\ Kept
<1>1. CanUndo(live) /\ AppendRecord(AfterUndo(live), UndoRecord(live))
  BY DEF Undo
<1>2. mode = "open" /\ ~poisoned /\ live \in Session /\ HasLine(live)
  BY UpFacts DEF Undo
<1>3. /\ AfterUndo(live) \in Session /\ HasLine(AfterUndo(live))
      /\ Promise!UndoOf(Timeline(live), Timeline(AfterUndo(live)))
  BY <1>1, <1>2, LineUndo
<1>4. UndoRecord(live).seq = live.doc.revision + 1
  BY DEF UndoRecord, ActionRecord
<1> QED
  BY <1>1, <1>2, <1>3, <1>4, AppendKeeps DEF Promise!StepOf

\* ... and redo one of its redos.
LEMMA RedoKeeps == ASSUME JournalStays, IInv, HInv, LInv, Redo PROVE LInv' /\ Kept
<1>1. CanRedo(live) /\ AppendRecord(AfterRedo(live), RedoRecord(live))
  BY DEF Redo
<1>2. mode = "open" /\ ~poisoned /\ live \in Session /\ HasLine(live)
  BY UpFacts DEF Redo
<1>3. /\ AfterRedo(live) \in Session /\ HasLine(AfterRedo(live))
      /\ Promise!RedoOf(Timeline(live), Timeline(AfterRedo(live)))
  BY <1>1, <1>2, LineRedo
<1>4. RedoRecord(live).seq = live.doc.revision + 1
  BY DEF RedoRecord, ActionRecord
<1> QED
  BY <1>1, <1>2, <1>3, <1>4, AppendKeeps DEF Promise!StepOf

\* Saving promises nothing.
LEMMA SavesKeep == ASSUME LInv, SaveStep PROVE LInv' /\ Kept
<1>1. UNCHANGED <<mode, poisoned, ledger, acked, damaged>>
  BY DEF SaveStep, Submit, WriteStaging, FlushStaging, ReplaceTarget, FinishSave, FailSave,
         session, ghost
<1> QED
  BY <1>1, QuietKeeps DEF LInv

\* A replay that has met every record recovers what was promised ...
LEMMA FinishReplayKeeps ==
    ASSUME JournalStays, IInv, HInv, LInv, FinishReplay PROVE LInv' /\ Kept
<1> DEFINE revision == IF origin.from = "project" THEN origin.revision ELSE 0
<1>1. mode = "replaying" /\ at > Len(journal) /\ GoLive(revision)
  BY DEF FinishReplay
<1> HIDE DEF revision
<1>2. JournalIntact
  BY DEF LInv, JournalStays, JournalIntact
<1>3. journal # <<>> /\ live = ledger[LastSeq(journal)]
  BY <1>1, <1>2, ReplayEndsExact, CandidateFacts
<1> QED
  BY <1>1, <1>2, <1>3, GoLiveKeeps

\* ... and so does one from a backup, once that is the project file.
LEMMA FinishRestoreKeeps ==
    ASSUME JournalStays, IInv, HInv, LInv, FinishRestore PROVE LInv' /\ Kept
<1>1. mode = "restoring" /\ GoLive(origin.revision)
  BY DEF FinishRestore
<1>2. JournalIntact
  BY DEF LInv, JournalStays, JournalIntact
<1>3. journal # <<>> /\ live = ledger[LastSeq(journal)]
  BY <1>1, <1>2, RunningHasJournal DEF HInv, RestoringOK
<1> QED
  BY <1>1, <1>2, <1>3, GoLiveKeeps

\* Up to there the session is down, and nothing is promised of the candidates.
LEMMA OpeningKeeps ==
    ASSUME LInv, Open, ~FinishReplay, ~FinishRestore PROVE LInv' /\ Kept
<1>1. /\ mode # "open" /\ mode' # "open"
      /\ UNCHANGED <<poisoned, ledger, acked, damaged>>
  <2>1. CASE OpenProject \/ OpenJournalOnly
    BY <2>1 DEF OpenProject, OpenJournalOnly, StartReplay, ghost
  <2>2. CASE OpenUnreadable
    BY <2>2 DEF OpenUnreadable, FallBack, ghost
  <2>3. CASE RefuseJournalOnly \/ NoBackupFits
    BY <2>3 DEF RefuseJournalOnly, NoBackupFits, session, ghost
  <2>4. CASE ReplayRecord
    BY <2>4 DEF ReplayRecord, ghost
  <2>5. CASE ReplayRejected
    BY <2>5 DEF ReplayRejected, FallBack, ghost
  <2>6. CASE TryBackup
    BY <2>6 DEF TryBackup, StartReplay, ghost
  <2>7. CASE BeginRestore
    BY <2>7 DEF BeginRestore, session, ghost
  <2> QED
    BY <2>1, <2>2, <2>3, <2>4, <2>5, <2>6, <2>7 DEF Open
<1> QED
  BY <1>1, QuietKeeps DEF LInv

\* A crash loses nothing that was acknowledged or is in doubt.
LEMMA TerminateKeeps == ASSUME LInv, Terminate PROVE LInv' /\ Kept
<1>1. /\ mode' = "closed" /\ poisoned' = FALSE /\ UNCHANGED <<ledger, acked, damaged>>
  BY DEF Terminate, ghost
<1>2. LInv'
  BY <1>1 DEF LInv
<1>3. ~Up'
  BY <1>1 DEF Up
<1>4. CASE Up
  <2>1. UNCHANGED <<Promise!state, ledger, acked>>
    BY <1>1 DEF Promise!state
  <2>2. Promise!Crash
    BY <1>3, <1>4, <2>1 DEF Promise!Crash
  <2> QED
    BY <1>2, <2>2 DEF Kept, Promise!Next
<1>5. CASE ~Up
  BY <1>1, <1>2, <1>3, <1>5 DEF Kept, Up
<1> QED
  BY <1>4, <1>5

\* The other files may be damaged: the promise rests on the journal.
LEMMA DamageKeeps ==
    ASSUME LInv, DamageTarget \/ DamageJournal \/ DamageBackup PROVE LInv' /\ Kept
<1>1. PICK kind \in MediaFaults : Damage(kind)
  BY DEF DamageTarget, DamageJournal, DamageBackup, Damage
<1>2. /\ mode = "closed" /\ mode' = "closed" /\ UNCHANGED <<poisoned, ledger, acked>>
      /\ damaged' = {kind}
  BY <1>1 DEF Damage, session
<1> QED
  BY <1>2, QuietKeeps

\* Every step is one of the promise or leaves what is promised alone.
LEMMA NextKeeps ==
    ASSUME JournalStays, IInv, HInv, LInv, [Next]_vars
    PROVE  LInv' /\ Kept
<1>1. CASE UNCHANGED vars
  BY <1>1, QuietKeeps DEF vars, session, ghost, LInv
<1>2. CASE FinishReplay \/ FinishRestore
  BY <1>2, FinishReplayKeeps, FinishRestoreKeeps
<1> QED
  BY <1>1, <1>2, EditKeeps, UndoKeeps, RedoKeeps, CheckpointKeeps, SavesKeep, OpeningKeeps,
     TerminateKeeps, DamageKeeps
  DEF Next

\* The three invariants hold in every reachable state.
LEMMA LineInvariance ==
    ASSUME SeedsRenameable, SeedsStay, JournalStays
    PROVE  Spec => []((IInv /\ HInv) /\ LInv)
<1>1. SeedsDecode
  BY SeedsAreSound
<1>2. Spec => [](IInv /\ (JournalIntact => HInv))
  BY <1>1, IntactHistory
<1>3. Init => LInv
  BY InitLInv
<1>4. LInv => JournalIntact
  BY DEF LInv, JournalStays, JournalIntact
<1>5. (IInv /\ (JournalIntact => HInv)) /\ LInv /\ [Next]_vars => LInv'
  BY <1>4, NextKeeps
<1> QED
  BY <1>2, <1>3, <1>4, <1>5, PTL DEF Spec

\* A project that was never opened is at the beginning of the promise.
LEMMA PromiseBegins == ASSUME Init PROVE Promise!Init
<1> DEFINE d == IF target = NoFile THEN DefaultDocument ELSE target
<1>1. /\ mode = "closed" /\ acked = d.revision /\ DOMAIN ledger = {acked}
      /\ ledger[acked] = FreshSession(d)
  BY DEF Init
<1> HIDE DEF d
<1>2. ~Up
  BY <1>1 DEF Up
<1>3. {Timeline(ledger[r]) : r \in {q \in DOMAIN ledger : q > acked}} = {}
  <2>1. acked \in Revision
    <3>1. TypeOK
      BY InitIInv DEF IInv
    <3> QED
      BY <3>1 DEF TypeOK
  <2>2. \A q \in DOMAIN ledger : ~(q > acked)
    BY <1>1, <2>1, LimitsAssumption DEF Revision
  <2> QED
    BY <2>2
<1>4. Past(ledger[acked]) = <<>> /\ Future(ledger[acked]) = <<>>
  <2>1. Past(FreshSession(d)) = Trail(d, <<>>) /\ Future(FreshSession(d)) = Trail(d, <<>>)
    <3>1. FreshSession(d).doc = d /\ FreshSession(d).undo = <<>> /\ FreshSession(d).redo = <<>>
      BY DEF FreshSession
    <3>2. <<>> \in Seq(Entry)
      OBVIOUS
    <3>3. Inverses(<<>>) = <<>> /\ Forwards(<<>>) = <<>>
      BY <3>2, StackCommands
    <3> QED
      BY <3>1, <3>3 DEF Past, Future, Inverses, Forwards
  <2> QED
    BY <1>1, <2>1 DEF Trail
<1> QED
  BY <1>2, <1>3, <1>4 DEF Promise!Init

-----------------------------------------------------------------------------
(* Theorems.                                                               *)

\* Type correctness.
THEOREM TypeCorrect == Spec => []TypeOK
<1>1. IInv => TypeOK
  BY DEF IInv
<1> QED
  BY <1>1, Invariance, PTL

\* The journal of commitEdit, commitHistoryAction, checkpoint and
\* createFromDocument is one gapless run behind its baseline, whatever
\* crashes, interrupted appends and renumbering compactions came between.
THEOREM GaplessJournal == Spec => []JournalGapless
<1>1. IInv => JournalGapless
  BY DEF IInv, JournalOK, JournalGapless
<1> QED
  BY <1>1, Invariance, PTL

\* The compact form of the history always fits below the current revision:
\* checkpoint never meets its own "history cannot fit below checkpoint
\* revision" error, and its record numbers are positive.
THEOREM CompactionFits == Spec => []HistoryFits
<1>1. IInv => HistoryFits
  BY DEF IInv, LiveOK, HistoryFits
<1> QED
  BY <1>1, Invariance, PTL

\* createFromDocument and replay: whichever snapshot a reopening process starts from --
\* the project file, a promoted staging file, a backup or none -- and wherever a crash,
\* a failed append or a compaction cut in, the replay rebuilds the acknowledged session
\* with both its stacks, or the one of the record that an interrupted append left whole.
THEOREM RecoveryExact ==
    ASSUME SeedsDecode, SeedsStay
    PROVE  Spec => []RecoveryIsExact
<1>1. IInv /\ (JournalIntact => HInv) => RecoveryIsExact
  <2> SUFFICES ASSUME IInv, HInv, mode = "replaying", at > Len(journal), JournalIntact
               PROVE  LedgerEnd \in {acked, acked + 1} /\ live = ledger[LedgerEnd]
    BY DEF RecoveryIsExact
  <2>1. journal # <<>>
    BY CandidateFacts
  <2> QED
    BY <2>1, LedgerCovers, ReplayEndsExact
<1> QED
  BY <1>1, IntactHistory, PTL

\* replay, with a journal that has lost records or all of them: what it accepts is still
\* a session that once was, its stacks those it had then, or none if its journal had to be
\* begun anew.
THEOREM RecoveredReal ==
    ASSUME SeedsDecode, SeedsStay
    PROVE  Spec => []RecoveredSessionIsReal
<1>1. IInv /\ (HInv \/ LossInv) => RecoveredSessionIsReal
  <2> SUFFICES ASSUME IInv, HInv \/ LossInv, mode = "replaying", at > Len(journal),
                      origin.revision <= LastSeq(journal)
               PROVE  /\ live.doc.revision \in DOMAIN ledger
                      /\ live \in {ledger[live.doc.revision],
                                   FreshSession(ledger[live.doc.revision].doc)}
    BY DEF RecoveredSessionIsReal
  <2>1. Dated
    BY DEF HInv, LedgerOK, LossInv
  <2>2. CASE LastSeq(journal) \in DOMAIN ledger /\ live = ledger[LastSeq(journal)]
    BY <2>1, <2>2 DEF Dated
  <2>3. CASE origin.revision \in DOMAIN ledger /\ live = FreshSession(ledger[origin.revision].doc)
    BY <2>1, <2>3 DEF Dated, FreshSession
  <2>4. CASE HInv
    <3>1. LastSeq(journal) \in DOMAIN ledger /\ live = ledger[LastSeq(journal)]
      BY <2>4, CandidateFacts, ReplayEnds
    <3> QED
      BY <2>2, <3>1
  <2>5. CASE LossInv
    BY <2>2, <2>3, <2>5, LossReplayEnds
  <2> QED
    BY <2>4, <2>5
<1> QED
  BY <1>1, HistoryInvariance, PTL

\* saveProjectSnapshot, saveProjectBackup and loadProjectSnapshot: every file that the
\* journal may be replayed from holds the document that was the session's at that
\* revision.
THEOREM SnapshotsStayTrue ==
    ASSUME SeedsDecode, SeedsStay
    PROVE  Spec => []SnapshotsAreHistory
<1>1. IInv /\ (JournalIntact => HInv) => SnapshotsAreHistory
  <2> SUFFICES ASSUME IInv, HInv, JournalIntact,
                      NEW f \in {target, staging} \cup {backups[r] : r \in DOMAIN backups},
                      Readable(f), f.revision >= OldestRestorable(journal)
               PROVE  f.revision \in DOMAIN ledger /\ f = ledger[f.revision].doc
    BY DEF SnapshotsAreHistory
  <2>1. FilesOK /\ SiblingsOK
    BY DEF HInv, FilesOK, Trusted
  <2>2. CASE f \in {target, staging}
    BY <2>1, <2>2 DEF FilesOK, SiblingsOK, Recalled
  <2>3. CASE f \in {backups[r] : r \in DOMAIN backups}
    <3>1. PICK r \in DOMAIN backups : f = backups[r]
      BY <2>3
    <3>2. f.revision = r /\ f \in Document
      BY <3>1, RevisionsAreNumbers
    <3>3. journal # <<>>
      BY <3>1, RunningHasJournal
    <3>4. Base \in Nat /\ r \in Nat
      BY <3>2, <3>3, LedgerCovers, RevisionsAreNumbers
    <3>5. Base <= r
      BY <3>2, <3>4 DEF Base
    <3> QED
      BY <2>1, <3>1, <3>5 DEF SiblingsOK, Recalled
  <2> QED
    BY <2>2, <2>3
<1> QED
  BY <1>1, IntactHistory, PTL

\* checkpoint: the journal's baseline never passes the project file, which never passes
\* the journal's end, and a baseline that was ever raised leaves a readable project file
\* behind: no acknowledged edit loses the snapshot it could be rebuilt from.
THEOREM BaselineCovered ==
    ASSUME SeedsDecode, SeedsStay
    PROVE  Spec => []BaselineIsCovered
<1>1. IInv /\ (JournalIntact => HInv) => BaselineIsCovered
  <2> SUFFICES ASSUME IInv, HInv, JournalIntact
               PROVE  /\ (Readable(target) /\ journal # <<>>) =>
                            /\ OldestRestorable(journal) <= target.revision
                            /\ target.revision <= LastSeq(journal)
                      /\ (OldestRestorable(journal) > 1 /\ "target" \notin damaged) =>
                            Readable(target)
    BY DEF BaselineIsCovered
  <2>1. FilesOK
    BY DEF HInv
  <2>2. Readable(target) /\ journal # <<>> =>
            Base <= target.revision /\ target.revision <= LastSeq(journal)
    BY <2>1, LedgerCovers DEF FilesOK, Recalled
  <2> QED
    BY <2>1, <2>2 DEF FilesOK, Base
<1> QED
  BY <1>1, IntactHistory, PTL

\* open: it gives up only when no readable snapshot goes with the journal.  In particular
\* replay rejects nothing that the saver, the checkpoint or commitEdit wrote.
THEOREM OpenFindsSnapshot ==
    ASSUME SeedsDecode, SeedsStay
    PROVE  Spec => []OpenFailsOnlyWithoutSnapshot
<1>1. IInv /\ (JournalIntact => HInv) => OpenFailsOnlyWithoutSnapshot
  BY DEF HInv, FallenBackOK, OpenFailsOnlyWithoutSnapshot, Base
<1> QED
  BY <1>1, IntactHistory, PTL

\* open: while the journal is intact, a backup is written over the project file only when that is
\* unreadable.
THEOREM RestoreSpares ==
    ASSUME SeedsDecode, SeedsStay
    PROVE  Spec => []RestoreSparesProject
<1>1. IInv /\ (JournalIntact => HInv) => RestoreSparesProject
  BY DEF HInv, RestoringOK, RestoreSparesProject
<1> QED
  BY <1>1, IntactHistory, PTL

\* commitEdit, commitHistoryAction, checkpoint, open and every crash between them
\* implement UndoableDocument: no acknowledged step is lost, undo brings back exactly the
\* content before the step it takes back and redo the content that was undone, and an
\* interrupted step has afterwards happened entirely or not at all.
THEOREM PromiseKept ==
    ASSUME SeedsRenameable, SeedsStay, JournalStays
    PROVE  Spec => KeepsPromise
<1>1. Init => Promise!Init
  BY PromiseBegins
<1>2. (IInv /\ HInv) /\ LInv /\ [Next]_vars =>
          [UNCHANGED <<Up, ledger, acked>> \/ Promise!Next]_(Promise!observed)
  BY NextKeeps DEF Kept
<1>3. Spec => [][UNCHANGED <<Up, ledger, acked>> \/ Promise!Next]_(Promise!observed)
  BY <1>2, LineInvariance, PTL DEF Spec
<1>4. Spec => Promise!Init
  BY <1>1, PTL DEF Spec
<1> QED
  BY <1>3, <1>4 DEF KeepsPromise

\* applyHistoryAction: while revisions are left, the command on top of each history stack
\* is accepted, as long as the session keeps the format's limit on tracks -- which no
\* edit checks, and beyond which the controller takes no command at all.
THEOREM HistoryRetraced ==
    ASSUME SeedsRenameable, SeedsStay, JournalStays
    PROVE  Spec => [](Len(live.doc.tracks) <= MaxTracks => HistoryApplies)
<1>1. (IInv /\ HInv) /\ LInv => (Len(live.doc.tracks) <= MaxTracks => HistoryApplies)
  <2> SUFFICES ASSUME IInv, HInv, LInv, Len(live.doc.tracks) <= MaxTracks, mode = "open",
                      live.doc.revision < MaxRevision
               PROVE  (live.undo # <<>> => CanUndo(live)) /\ (live.redo # <<>> => CanRedo(live))
    BY DEF HistoryApplies
  <2>1. live \in Session /\ HasLine(live)
    BY UpFacts
  <2>2. Editable(live.doc)
    BY <2>1 DEF HasLine, Sound, Editable, WellFormed
  <2> QED
    BY <2>1, <2>2, LineApplies DEF CanUndo, CanRedo
<1> QED
  BY <1>1, LineInvariance, PTL
=============================================================================
