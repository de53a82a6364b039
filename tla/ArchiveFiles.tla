---- MODULE ArchiveFiles ----
(***************************************************************************)
(* The archives on disk, as the web server sees them while another process *)
(* changes them.  An archive is written in two ways:                       *)
(*   - in place: "ziphttp zip -f a.zip" opens the existing file, truncates *)
(*     it to zero and writes the new archive into the same inode;          *)
(*   - by replacement: any other tool that writes a new file and renames   *)
(*     it over the old name.                                               *)
(* A file is abstracted to a version number, or Torn while a writer is in  *)
(* it: a file without its central directory cannot be opened as an archive.*)
(***************************************************************************)
EXTENDS Naturals, FiniteSets

CONSTANTS
    NArchives,  \* archives served: the one given by -f (1) and those of --add
    MaxWrites,  \* bound on the number of times an archive is changed
    Rewritten,  \* archives that are changed in place
    Replaced,   \* archives that are changed by renaming a new file over them
    Torn        \* content of a file that a writer has truncated and not finished

Archives == 1 .. NArchives
Versions == 0 .. MaxWrites
Inodes == 1 .. NArchives + MaxWrites

ASSUME DiskAssumption ==
    /\ NArchives \in Nat \ {0}
    /\ MaxWrites \in Nat
    /\ Rewritten \subseteq Archives
    /\ Replaced \subseteq Archives
    /\ Torn \notin Nat

VARIABLES
    path,   \* path[k] is the inode the name of archive k leads to
    bytes,  \* bytes[i] is the content of inode i
    writes  \* how many changes have begun: the latest version number

diskVars == <<path, bytes, writes>>

DiskInit ==
    /\ path = [k \in Archives |-> k]
    /\ bytes = [i \in Inodes |-> 0]
    /\ writes = 0

\* The output file is opened without O_EXCL and truncated: the inode the server
\* may have open loses its content.
BeginOverwrite(k) ==
    /\ k \in Rewritten
    /\ writes < MaxWrites
    /\ bytes[path[k]] # Torn
    /\ bytes' = [bytes EXCEPT ![path[k]] = Torn]
    /\ writes' = writes + 1
    /\ UNCHANGED path

\* The writer has written the central directory: the file is an archive again.
EndOverwrite(i) ==
    /\ bytes[i] = Torn
    /\ bytes' = [bytes EXCEPT ![i] = writes]
    /\ UNCHANGED <<path, writes>>

\* A complete new file is renamed over archive k: the old inode keeps its content.
Replace(k) ==
    /\ k \in Replaced
    /\ writes < MaxWrites
    /\ writes' = writes + 1
    /\ path' = [path EXCEPT ![k] = NArchives + writes + 1]
    /\ bytes' = [bytes EXCEPT ![NArchives + writes + 1] = writes + 1]

\* Type invariant of the disk.
DiskTypeOK ==
    /\ path \in [Archives -> Inodes]
    /\ bytes \in [Inodes -> Versions \union {Torn}]
    /\ writes \in Versions
====
