---- MODULE Commands ----
(***************************************************************************)
(* The commands of ziphttp that run to their end (main.go): a process      *)
(* parses its arguments, runs the Execute of one subcommand and exits.     *)
(* "offset" stands for the part of webserver --in-memory that comes before *)
(* serving, and "link" for testlink and for one entry a worker of zip      *)
(* filters; zip is followed up to its jobs, the rest is ZipPipeline.       *)
(***************************************************************************)
EXTENDS NameTable, ZipSort, ZipToGzip, ArchiveOffset, LinkRewriting

VARIABLE command   \* the subcommand of this process

commandVars == <<command, nameTableVars, sortVars, extractVars, offsetVars, linkVars>>

\* A command that is not run has no arguments.
NoZip == zargs = <<>> /\ zmode = "crc" /\ zdelete = FALSE /\ NameTableStart
NoSort == sargs = <<>> /\ same = 0 /\ sortby = "none" /\ reverse = FALSE /\ SortStart
NoExtract == extract = <<>> /\ all = FALSE /\ tar = FALSE /\ ExtractStart
NoOffset ==
    /\ layout = [prefix |-> 0, starts |-> <<>>, data |-> 0, order |-> <<>>, header |-> 1, comment |-> 0]
    /\ OffsetStart
NoLink == page = NoSite /\ doc = <<>> /\ via = "copy" /\ LinkStart

CommandsInit ==
    \/ command = "zip" /\ NameTableInit /\ NoSort /\ NoExtract /\ NoOffset /\ NoLink
    \/ command = "zipsort" /\ NoZip /\ SortInit /\ NoExtract /\ NoOffset /\ NoLink
    \/ command = "zip2gzip" /\ NoZip /\ NoSort /\ ExtractInit /\ NoOffset /\ NoLink
    \/ command = "offset" /\ NoZip /\ NoSort /\ NoExtract /\ OffsetInit /\ NoLink
    \/ command = "link" /\ NoZip /\ NoSort /\ NoExtract /\ NoOffset /\ LinkInit

RunZip ==
    command = "zip" /\ NameTableNext
    /\ UNCHANGED <<command, sortVars, extractVars, offsetVars, linkVars>>
RunZipSort ==
    command = "zipsort" /\ SortNext
    /\ UNCHANGED <<command, nameTableVars, extractVars, offsetVars, linkVars>>
RunZipToGzip ==
    command = "zip2gzip" /\ ExtractNext
    /\ UNCHANGED <<command, nameTableVars, sortVars, offsetVars, linkVars>>
RunOffset ==
    command = "offset" /\ OffsetNext
    /\ UNCHANGED <<command, nameTableVars, sortVars, extractVars, linkVars>>
RunLink ==
    command = "link" /\ LinkNext
    /\ UNCHANGED <<command, nameTableVars, sortVars, extractVars, offsetVars>>

CommandsNext == RunZip \/ RunZipSort \/ RunZipToGzip \/ RunOffset \/ RunLink

CommandsSpec == CommandsInit /\ [][CommandsNext]_commandVars
====
