---------------------------- MODULE SessionEdits ----------------------------
(***************************************************************************)
(* The editable session document and the commands that change it           *)
(* (src/session/SessionController.cpp).                                    *)
(*                                                                         *)
(* A document is its revision, its tempo, its tracks in display order and  *)
(* the other entities that share the stable-ID space (clips, routes,       *)
(* automation lanes, plug-in slots, media sources, MIDI sequences).  No    *)
(* command creates or changes those; an entity keeps the ID of the track   *)
(* it refers to, because a track that is referred to cannot be removed.    *)
(* A track's type, colour and gain are fixed when it is added and are left *)
(* out.  Names and tempos are abstract values.                             *)
(***************************************************************************)
EXTENDS Naturals, Sequences, SequencesExt, FiniteSets

CONSTANTS
    Names,         \* track names a document can hold (0..4096 bytes)
    RecordNames,   \* those a journal record brings back (0..1024 bytes)
    EditNames,     \* those the controller accepts in an edit (1..1024 bytes)
    Tempos,        \* accepted tempos (finite, in (0, 1000])
    NoValue,       \* the unused value of a command
    MasterName,    \* name of the default session's master track
    DefaultTempo,  \* tempo of the default session
    MaxRevision,   \* 2^64-1 in the code: the revision at which edits stop
    MaxStableId,   \* 2^64-1 in the code: never assigned
    MaxTracks      \* kMaximumTrackCount, 100000 in the code

ASSUME ValuesAssumption ==
    /\ EditNames \subseteq RecordNames /\ RecordNames \subseteq Names
    /\ MasterName \in EditNames
    /\ DefaultTempo \in Tempos
    /\ NoValue \notin Names \cup Tempos

ASSUME LimitsAssumption ==
    /\ MaxRevision \in Nat \ {0}
    /\ MaxStableId \in Nat \ {0, 1}
    /\ MaxTracks \in Nat \ {0}

-----------------------------------------------------------------------------
(* Documents.                                                              *)

StableId == 1 .. MaxStableId
Revision == 1 .. MaxRevision
Track == [id : StableId, name : Names]
Entity == [id : StableId, track : StableId \cup {0}]

Document ==
    [revision : Revision, tempo : Tempos, tracks : Seq(Track),
     others : SUBSET Entity]

TrackIds(d) == {d.tracks[i].id : i \in DOMAIN d.tracks}
OtherIds(d) == {e.id : e \in d.others}

\* SessionController's default constructor.
DefaultDocument ==
    [revision |-> 1, tempo |-> DefaultTempo,
     tracks |-> <<[id |-> 1, name |-> MasterName]>>, others |-> {}]

\* What serializeSessionDocument accepts, as far as the commands can tell:
\* distinct IDs, resolved references, and the format's limit on tracks.
WellFormed(d) ==
    /\ Len(d.tracks) <= MaxTracks
    /\ Cardinality(TrackIds(d)) = Len(d.tracks)
    /\ Cardinality(OtherIds(d)) = Cardinality(d.others)
    /\ TrackIds(d) \cap OtherIds(d) = {}
    /\ \A e \in d.others : e.track \in TrackIds(d) \cup {0}

\* SessionController::fromDocument: the document validates and an ID is left.
Editable(d) == WellFormed(d) /\ MaxStableId \notin TrackIds(d) \cup OtherIds(d)

\* nextStableId_ of a controller made from d.
NextStableId(d) ==
    1 + CHOOSE m \in TrackIds(d) \cup OtherIds(d) \cup {0} :
            \A i \in TrackIds(d) \cup OtherIds(d) : i <= m

-----------------------------------------------------------------------------
(* Commands: the four SessionCommandTypes with the fields each one uses.   *)

SetTempo(t) == [type |-> "setTempo", id |-> 0, value |-> t]
AddTrack(i, n) == [type |-> "addTrack", id |-> i, value |-> n]
RenameTrack(i, n) == [type |-> "renameTrack", id |-> i, value |-> n]
RemoveTrack(i) == [type |-> "removeTrack", id |-> i, value |-> NoValue]

CommandTypes == {"setTempo", "addTrack", "renameTrack", "removeTrack"}
Command ==
    [type : CommandTypes, id : StableId \cup {0},
     value : Names \cup Tempos \cup {NoValue}]

\* The track with ID i, by its place in the list.
PlaceOf(d, i) == CHOOSE p \in DOMAIN d.tracks : d.tracks[p].id = i

\* No clip, route, lane or plug-in slot refers to track i.
Unreferenced(d, i) == \A e \in d.others : e.track # i

\* Whether the controller accepts command c for document d.
Accepts(d, c) ==
    /\ d.revision < MaxRevision
    /\ \/ c.type = "setTempo" /\ c.value \in Tempos
       \/ /\ c.type = "addTrack" /\ c.value \in EditNames
          /\ c.id \in 1 .. (MaxStableId - 1)
          /\ c.id \notin TrackIds(d)
       \/ /\ c.type = "renameTrack" /\ c.value \in EditNames
          /\ c.id \in TrackIds(d)
       \/ c.type = "removeTrack" /\ c.id \in TrackIds(d) /\ Unreferenced(d, c.id)

\* The tracks after command c.
EditedTracks(d, c) ==
    CASE c.type = "addTrack" ->
             Append(d.tracks, [id |-> c.id, name |-> c.value])
      [] c.type = "renameTrack" ->
             [d.tracks EXCEPT ![PlaceOf(d, c.id)].name = c.value]
      [] c.type = "removeTrack" ->
             RemoveAt(d.tracks, PlaceOf(d, c.id))
      [] OTHER -> d.tracks

\* The document after an accepted command: every command is one revision.
Edited(d, c) ==
    [revision |-> d.revision + 1,
     tempo |-> IF c.type = "setTempo" THEN c.value ELSE d.tempo,
     tracks |-> EditedTracks(d, c),
     others |-> d.others]

\* Mutant of InverseOf: the inverse is taken from the edited document.
InverseOfAfterwards(d, c) ==
    CASE c.type = "setTempo" -> SetTempo(c.value)
      [] c.type = "addTrack" -> RemoveTrack(c.id)
      [] OTHER -> RenameTrack(c.id, c.value)

\* The command that JournaledSession records to take c back from document d.
InverseOf(d, c) ==
    CASE c.type = "setTempo" -> SetTempo(d.tempo)
      [] c.type = "addTrack" -> RemoveTrack(c.id)
      [] OTHER -> RenameTrack(c.id, d.tracks[PlaceOf(d, c.id)].name)

\* The commands a client can issue at document d; a new track gets its ID
\* from the controller, and removal is not a client command.
ClientCommands(d) ==
    {SetTempo(t) : t \in Tempos}
        \cup {AddTrack(NextStableId(d), n) : n \in Names}
        \cup {RenameTrack(i, n) : i \in TrackIds(d), n \in Names}

\* What a document shows, apart from its revision.
Content(d) == [tempo |-> d.tempo, tracks |-> d.tracks, others |-> d.others]
=============================================================================
