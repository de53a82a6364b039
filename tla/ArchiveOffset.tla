---- MODULE ArchiveOffset ----
(***************************************************************************)
(* ArchiveOffset (util.go): where the archive begins in a file that starts *)
(* with something else (the executable of --self).  webserver --in-memory  *)
(* reads the file from that offset on (initialize); what lies before it is *)
(* lost, and an entry that begins there cannot be read.                    *)
(*                                                                         *)
(* The layout of a file is a record: prefix bytes, where in the data the   *)
(* local entries begin and how long the data are, the order of the central *)
(* directory, the size of each of its headers, and the length of the       *)
(* archive comment.  A comment that holds the signature of an end record,  *)
(* which bytes.LastIndex would find instead, is left out.                  *)
(***************************************************************************)
EXTENDS Integers, Sequences

CONSTANTS
    Layouts,   \* the files
    TailSize,  \* bytes read to find the end of the central directory: 512
    EndSize    \* size of its end record without the comment: 22

IsLayout(y) ==
    /\ y.prefix \in Nat /\ y.comment \in Nat /\ y.header \in Nat \ {0} /\ y.data \in Nat
    /\ y.starts \in Seq(0..(y.data - 1))
    /\ y.starts # <<>> => y.starts[1] = 0
    /\ \A i, j \in DOMAIN y.starts : i < j => y.starts[i] < y.starts[j]
    /\ y.order \in Seq(DOMAIN y.starts) /\ Len(y.order) = Len(y.starts)

ASSUME OffsetAssumption ==
    /\ TailSize \in Nat /\ EndSize \in 1..TailSize
    /\ \A y \in Layouts : IsLayout(y)

VARIABLES
    layout,    \* the file
    opc,       \* where ArchiveOffset is
    idx,       \* where in the tail the end record was found; -1: not
    head,      \* where the central directory is taken to begin
    offs,      \* the offset returned
    oresult    \* "none" | "ok" | "error" (refused) | "unreadable" (the file cannot be read)

offsetVars == <<layout, opc, idx, head, offs, oresult>>

OffsetStart ==
    /\ opc = "tail" /\ idx = -1 /\ head = 0
    /\ offs = 0 /\ oresult = "none"

OffsetInit == layout \in Layouts /\ OffsetStart

Directory == layout.header * Len(layout.order)
DirectoryAt == layout.prefix + layout.data
EndAt == DirectoryAt + Directory
FileSize == EndAt + EndSize + layout.comment
\* Where the local header of the i-th entry begins.
LocalHeader(i) == layout.prefix + layout.starts[i]

Give(result, o) == opc' = "returned" /\ oresult' = result /\ offs' = o

\* Mutant of SeekTail: a file of exactly 512 bytes is refused too.
SeekTailStrict ==
    /\ opc = "tail"
    /\ IF FileSize <= TailSize
       THEN Give("error", 0)
       ELSE opc' = "find" /\ UNCHANGED <<oresult, offs>>
    /\ UNCHANGED <<layout, idx, head>>

\* Seek(-512, io.SeekEnd) fails in a file that is shorter.
SeekTail ==
    /\ opc = "tail"
    /\ IF FileSize < TailSize
       THEN Give("error", 0)
       ELSE opc' = "find" /\ UNCHANGED <<oresult, offs>>
    /\ UNCHANGED <<layout, idx, head>>

\* bytes.LastIndex: a comment may have pushed the end record out of the tail.
FindEnd ==
    /\ opc = "find"
    /\ idx' = IF EndAt < FileSize - TailSize THEN -1 ELSE EndAt - (FileSize - TailSize)
    /\ opc' = "seek"
    /\ UNCHANGED <<layout, head, offs, oresult>>

\* Mutant of SeekDirectory: the size of the end record is taken off as well.
SeekDirectoryShort ==
    /\ opc = "seek" /\ idx # -1
    /\ head' = FileSize - TailSize + idx - Directory - EndSize
    /\ opc' = "head"
    /\ UNCHANGED <<layout, idx, offs, oresult>>

SeekDirectory ==
    /\ opc = "seek" /\ idx # -1
    /\ head' = FileSize - TailSize + idx - Directory
    /\ opc' = "head"
    /\ UNCHANGED <<layout, idx, offs, oresult>>

\* idx = -1 is logged and used: four bytes of the comment are read as the size of the
\* directory, and the seek may fail or lead anywhere.
SeekSomewhere ==
    /\ opc = "seek" /\ idx = -1
    /\ \/ Give("error", 0) /\ UNCHANGED head
       \/ head' \in 0..(FileSize - TailSize - 1) /\ opc' = "head" /\ UNCHANGED <<oresult, offs>>
    /\ UNCHANGED <<layout, idx>>

\* The offset of the entry that the first header of the directory describes; a place
\* without a header gives offset 0 and no error, and the whole file is kept.
ReadHead ==
    /\ opc = "head"
    /\ IF head \in {DirectoryAt + layout.header * i : i \in 0..(Len(layout.order) - 1)}
       THEN Give("ok", LocalHeader(layout.order[(head - DirectoryAt) \div layout.header + 1]))
       ELSE Give("ok", 0)
    /\ UNCHANGED <<layout, idx, head>>

\* Open, or one of the two reads, fails: its error is returned with offset 0.
OffsetUnreadable ==
    /\ opc \in {"tail", "find", "head"}
    /\ Give("unreadable", 0)
    /\ UNCHANGED <<layout, idx, head>>

OffsetNext == SeekTail \/ FindEnd \/ SeekDirectory \/ SeekSomewhere \/ ReadHead \/ OffsetUnreadable

OffsetSpec == OffsetInit /\ [][OffsetNext]_offsetVars

---------------------------------------------------------------------------
(* Properties.                                                             *)

\* When the directory is in the order of the data, as ziphttp writes it, and the end
\* record is in the last 512 bytes, no entry is cut off, and exactly what precedes the
\* first one is (a file that has no entries is kept whole).
InDataOrder == \A i \in DOMAIN layout.order : layout.order[i] = i
TrimIsExact ==
    oresult = "ok" /\ InDataOrder /\ EndSize + layout.comment <= TailSize =>
        offs = IF layout.order = <<>> THEN 0 ELSE layout.prefix

\* An archive is refused only for one of two reasons: the file is shorter than 512
\* bytes, or its comment is so long that the end record is not found.
RefusedHasCause ==
    oresult = "error" => FileSize < TailSize \/ EndSize + layout.comment > TailSize
====
