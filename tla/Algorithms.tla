----------------------------- MODULE Algorithms -----------------------------
(***************************************************************************)
(* The parts that run on one thread and share nothing: the compiler of     *)
(* render plans, the MIDI buffers, the search for lost media and the       *)
(* plug-in scan.  A behaviour is one of one of them, the variables of the  *)
(* others are off.                                                         *)
(***************************************************************************)
EXTENDS Integers, FiniteSets, Sequences

CONSTANTS
    NodeIds, Layouts, Channels, MaxConnections,                             \* RenderPlanCompiler
    Buffers, MaxEvents, MaxBytes, Offsets, Sizes, MaxMade, MaxDropped,      \* MidiEventBuffer
    Names, SearchFolders, Documents, Contents, LongPaths,                   \* MediaResolver
    MaxEntries, MaxChanges,
    MaxScans                                                                \* PluginScan

VARIABLES
    subject,
    nodes, connections, info,
    buffers, offered, made,
    root, files, sources, mediaReport, changes,
    scanner, child, scanReport, record

compilerVars == <<nodes, connections, info>>
midiVars == <<buffers, offered, made>>
mediaVars == <<root, files, sources, mediaReport, changes>>
scanVars == <<scanner, child, scanReport, record>>
vars == <<subject, compilerVars, midiVars, mediaVars, scanVars>>

Compiler == INSTANCE RenderPlanCompiler
Midi == INSTANCE MidiEventBuffer
Media == INSTANCE MediaResolver WITH report <- mediaReport
Scan == INSTANCE PluginScan WITH report <- scanReport

\* Nodes and channels are numbered; the metadata of a node are three integers.
ASSUME CompilerAssumption ==
    /\ NodeIds \subseteq Nat /\ Channels \subseteq Nat
    /\ \A layout \in Layouts : \A id \in DOMAIN layout :
          layout[id].ins \in Int /\ layout[id].outs \in Int /\ layout[id].latency \in Int

\* Limits and sizes are unsigned numbers.
ASSUME MidiAssumption ==
    MaxEvents \in Nat /\ MaxBytes \in Nat /\ Offsets \subseteq Nat /\ Sizes \subseteq Nat

\* Folders hold finitely many files; a document is a sequence of sources.
ASSUME MediaAssumption ==
    /\ IsFiniteSet(Names) /\ SearchFolders \in Seq(STRING)
    /\ Documents \subseteq
          Seq([path : [relative : BOOLEAN, folder : Media!Folders, name : Names],
               hash : Nat \X Nat])

CompilerOff == nodes = "off" /\ connections = "off" /\ info = "off"
MidiOff == buffers = "off" /\ offered = "off" /\ made = "off"
MediaOff == root = "off" /\ files = "off" /\ sources = "off" /\ mediaReport = "off" /\ changes = "off"
ScanOff == scanner = "off" /\ child = "off" /\ scanReport = "off" /\ record = "off"

Init ==
    \/ subject = "compiler" /\ Compiler!Init /\ MidiOff /\ MediaOff /\ ScanOff
    \/ subject = "midi" /\ CompilerOff /\ Midi!Init /\ MediaOff /\ ScanOff
    \/ subject = "media" /\ CompilerOff /\ MidiOff /\ Media!Init /\ ScanOff
    \/ subject = "scan" /\ CompilerOff /\ MidiOff /\ MediaOff /\ Scan!Init

Next ==
    \/ subject = "compiler" /\ Compiler!Next /\ UNCHANGED <<subject, midiVars, mediaVars, scanVars>>
    \/ subject = "midi" /\ Midi!Next /\ UNCHANGED <<subject, compilerVars, mediaVars, scanVars>>
    \/ subject = "media" /\ Media!Next /\ UNCHANGED <<subject, compilerVars, midiVars, scanVars>>
    \/ subject = "scan" /\ Scan!Next /\ UNCHANGED <<subject, compilerVars, midiVars, mediaVars>>

Spec == Init /\ [][Next]_vars

\* The plan of every graph makes every node hear what is connected to it, aligned (compileRenderPlan).
PlanIsFaithful == subject = "compiler" => Compiler!PlanIsFaithful

\* MIDI events are played by sample and in the order they came in (MidiEventBuffer).
MidiKeepsOrder == subject = "midi" => Midi!MidiKeepsOrder

\* No media source is silently bound to another take (resolveSessionMedia, applyMediaResolution).
NeverBoundToOtherTake == subject = "media" => Media!NeverBoundToOtherTake

\* A scan's verdict is that of this scan's process, or of a file that nobody could remove
\* (scanCandidate).
VerdictIsEarned == subject = "scan" => Scan!VerdictIsEarned
=============================================================================
