---------------------------- MODULE MediaResolver ----------------------------
(***************************************************************************)
(* Finding the media files of a session again (MediaResolver): the project *)
(* may have been moved, its files lost, replaced or left elsewhere.        *)
(* Resolving only looks; applying the report rewrites the paths of the     *)
(* sources that were found elsewhere.  In between, and afterwards, the     *)
(* file system changes as it likes.  A file's content is what the hash     *)
(* sees of it, its beginning and its length: two files that agree on these *)
(* are one to it.                                                          *)
(***************************************************************************)
EXTENDS Naturals, SequencesExt

CONSTANTS
    Names,          \* file names
    SearchFolders,  \* config.searchDirectories, a sequence of folders
    Documents,      \* the media sources of a session: sequences of [path, hash]
    Contents,       \* what a file may hold: records [start, length, readable]
    LongPaths,      \* the paths whose text is longer than kMaximumPathBytes
    MaxEntries,     \* config.maximumSearchEntries
    MaxChanges      \* bound: changes of the file system

VARIABLES
    root,     \* the folder the project is opened in
    files,    \* what is at each place, a folder and a name; NoFile if nothing
    sources,  \* the document: the path and the content hash of each source
    report,   \* the last report; the document and the files it was made of, which no step reads
    changes

vars == <<root, files, sources, report, changes>>

Folders == {"home", "moved", "library"}
Places == Folders \X Names
NoFile == [start |-> 0, length |-> 0, readable |-> FALSE]

\* hashMediaFile: the first bytes and the length; 0 in a document stands for "not known".
HashOf(content) == <<content.start, content.length>>
Unknown == <<0, 0>>
IsRegularFile(place) == files[place] # NoFile
Hashable(place) == IsRegularFile(place) /\ files[place].readable

\* A path is relative to the project or names a place.
Relative(name) == [relative |-> TRUE, folder |-> "home", name |-> name]
Absolute(place) == [relative |-> FALSE, folder |-> place[1], name |-> place[2]]
AbsoluteCandidate(path) == <<IF path.relative THEN root ELSE path.folder, path.name>>

NoReport == [made |-> FALSE, found |-> <<>>, sources |-> <<>>, files |-> <<>>, applied |-> FALSE]

\* A session is saved in "home" with its media there or in the library.
Init ==
    /\ root = "home" /\ changes = 0 /\ report = NoReport
    /\ \E held \in [{"home", "library"} \X Names -> Contents \cup {NoFile}] :
         files = [place \in Places |-> IF place \in DOMAIN held THEN held[place] ELSE NoFile]
    /\ sources \in Documents

-----------------------------------------------------------------------------
(* The search: every entry of the search folders counts, in any order        *)
(* within a folder, until the budget of the whole report is used up.         *)

EntriesOf(folder) == {place \in Places : place[1] = folder /\ IsRegularFile(place)}

Listings ==
    LET listed[i \in 0..Len(SearchFolders)] ==
          IF i = 0 THEN {<<>>}
          ELSE {l \o o : l \in listed[i - 1], o \in SetToSeqs(EntriesOf(SearchFolders[i]))}
    IN listed[Len(SearchFolders)]

Matches(place, source) ==
    place[2] = source.path.name /\ Hashable(place) /\ HashOf(files[place]) = source.hash

\* What a source that is not at its place is found to be, with the budget it leaves.
FindByFilename(source, listing, scanned) ==
    LET hits == {i \in DOMAIN listing : Matches(listing[i], source)}
        hit == Min(hits)
        reach == MaxEntries - scanned
    IN CASE source.hash = Unknown -> [status |-> "missing", at |-> <<>>, scanned |-> scanned]
         [] source.hash # Unknown /\ hits # {} /\ hit <= reach ->
              [status |-> "relocated", at |-> listing[hit], scanned |-> scanned + hit]
         [] OTHER ->
              [status |-> "missing", at |-> <<>>,
               scanned |-> scanned + Min({reach, Len(listing)})]

StatusAtPlace(source, place) ==
    CASE source.hash = Unknown -> "unverifiable"
      [] source.hash # Unknown /\ HashOf(files[place]) = source.hash -> "verified"
      [] OTHER -> "mismatched"

ResolveSource(source, listing, scanned) ==
    LET declared == AbsoluteCandidate(source.path) IN
    IF Hashable(declared)
    THEN [status |-> StatusAtPlace(source, declared), at |-> declared, scanned |-> scanned]
    ELSE FindByFilename(source, listing, scanned)

\* resolveSessionMedia, which changes nothing.
Resolution(listing) ==
    LET scanned[i \in 0..Len(sources)] ==
          IF i = 0 THEN 0 ELSE ResolveSource(sources[i], listing, scanned[i - 1]).scanned
    IN [i \in DOMAIN sources |-> ResolveSource(sources[i], listing, scanned[i - 1])]

Resolve ==
    /\ \E listing \in Listings :
         report' = [made |-> TRUE, found |-> Resolution(listing), sources |-> sources,
                    files |-> files, applied |-> FALSE]
    /\ UNCHANGED <<root, files, sources, changes>>

\* Mistaken Rewritten: the path is made relative to the project wherever the file is.
RewrittenAsRelative(place) == Relative(place[2])

\* A place inside the project is written relative to it, another as it is.
Rewritten(place) == IF place[1] = root THEN Relative(place[2]) ELSE Absolute(place)

\* applyMediaResolution: only what was found elsewhere, and proved, is bound anew; not if the
\* document could not hold the path.
BoundAnew(found) == found.status = "relocated" /\ Rewritten(found.at) \notin LongPaths

Apply ==
    /\ report.made /\ ~report.applied
    /\ sources' = [i \in DOMAIN sources |->
                     IF BoundAnew(report.found[i])
                     THEN [sources[i] EXCEPT !.path = Rewritten(report.found[i].at)] ELSE sources[i]]
    /\ report' = [report EXCEPT !.applied = TRUE]
    /\ UNCHANGED <<root, files, changes>>

Change == changes < MaxChanges /\ changes' = changes + 1 /\ UNCHANGED <<sources, report>>

ReplaceFile(place, content) ==
    Change /\ files' = [files EXCEPT ![place] = content] /\ UNCHANGED root

\* The project folder is moved wholesale; a report made before is not of this project.
MoveProject ==
    /\ root = "home" /\ ~report.made /\ Change
    /\ root' = "moved"
    /\ files' = [place \in Places |->
                   CASE place[1] = "moved" -> files[<<"home", place[2]>>]
                     [] place[1] = "home" -> NoFile
                     [] OTHER -> files[place]]

Next ==
    \/ Resolve \/ Apply \/ MoveProject
    \/ \E place \in Places, content \in Contents \cup {NoFile} : ReplaceFile(place, content)

Spec == Init /\ [][Next]_vars

-----------------------------------------------------------------------------

\* A session is never silently bound to other audio.  Whatever a report calls verified or
\* relocated held what the document remembers of it when the report was made.  Once the report
\* has been applied, a source that was bound anew names the file the search had found, and the
\* next report calls it verified exactly as long as this file holds what is remembered: if
\* somebody replaces or removes it, that is noticed.  Every other source is as it was
\* (resolveSessionMedia, applyMediaResolution).
NeverBoundToOtherTake ==
    \A i \in DOMAIN sources :
      report.made =>
        LET was == report.sources[i]
            found == report.found[i]
        IN /\ found.status \in {"verified", "relocated"} => HashOf(report.files[found.at]) = was.hash
           /\ report.applied =>
                IF BoundAnew(found)
                THEN /\ AbsoluteCandidate(sources[i].path) = found.at /\ sources[i].hash = was.hash
                     /\ \A listing \in Listings :
                          Resolution(listing)[i].status = "verified" <=>
                            Hashable(found.at) /\ HashOf(files[found.at]) = was.hash
                ELSE sources[i] = was
=============================================================================
