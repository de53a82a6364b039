---- MODULE LinkRewriting ----
(***************************************************************************)
(* Links of a page made relative (util.go): fix_link, and filtercopy, in   *)
(* which one goroutine rewrites the page into a pipe and another copies    *)
(* the pipe to the destination and then waits for the first.  The workers  *)
(* of zip call it (ZipPipeline has its outcomes only); testlink calls      *)
(* LinkRelative without the pipe, for one file after another.              *)
(*                                                                         *)
(* A page is a sequence of links, each standing for one write to the pipe. *)
(* A path is its segments, with "." and ".." among them, and whether it    *)
(* begins and ends with a slash.  Queries, fragments and escapes, which    *)
(* fix_link carries along, are left out, and so are empty segments, which  *)
(* filepath.Rel removes.  The URL of a page is clean, as url.JoinPath      *)
(* makes it: what testlink does with a --url that is not is left out.      *)
(* A link that cannot be parsed is returned as it is, like one with a user *)
(* (kept).  References with a host but no scheme (//host/path) are left    *)
(* out.                                                                    *)
(***************************************************************************)
EXTENDS Integers, SequencesExt

CONSTANTS
    Pages,     \* the URL of a page, and whether its name is that of HTML
    Docs,      \* the links of a page
    Sites,     \* schemes with their hosts
    NoSite,    \* a URL without scheme and host
    Names,     \* of files and folders
    MovedTo    \* where the pages are copied to: a site and a directory

Segments == Names \union {".", ".."}
Urls == [site : Sites \union {NoSite}, abs : BOOLEAN, path : Seq(Segments), slash : BOOLEAN,
         kept : BOOLEAN]

\* Only the root is a folder without a name, and its path is a slash.
IsPage(p) ==
    /\ p \in [url : Urls, html : BOOLEAN]
    /\ p.url.site # NoSite /\ p.url.abs /\ ~p.url.kept
    /\ p.url.path \in Seq(Names) /\ (p.url.path = <<>> => p.url.slash)

ASSUME LinkAssumption ==
    /\ "." \notin Names /\ ".." \notin Names
    /\ \A p \in Pages : IsPage(p)
    /\ Docs \subseteq Seq(Urls)
    /\ MovedTo.site \in Sites \ {NoSite} /\ MovedTo.path \in Seq(Names)

VARIABLES
    page, doc,  \* the page
    via,        \* "pipe" (zip --baseurl), "copy" (zip), "link" (testlink)
    lpc,        \* the rewriting goroutine: "read" | "write" | "closed"
    left,       \* what it has still to write
    pipe,       \* the write that no read has taken yet, if any
    cpc,        \* the caller: "copy" | "wait" | "returned"
    dst,        \* what has arrived
    failed,     \* the error of io.Copy, which is returned
    dropped     \* the error of LinkRelative, which is logged

linkOptions == <<page, doc, via>>
linkVars == <<linkOptions, lpc, left, pipe, cpc, dst, failed, dropped>>

LinkStart ==
    /\ lpc = "read" /\ left = <<>> /\ pipe = <<>>
    /\ cpc = "copy" /\ dst = <<>> /\ failed = FALSE /\ dropped = FALSE

LinkInit ==
    /\ page \in Pages /\ doc \in Docs /\ via \in {"pipe", "copy", "link"}
    /\ LinkStart

---------------------------------------------------------------------------
(* URLs (net/url).                                                         *)

\* Where a segment leads from a folder without "." and "..".
Follow(d, x) ==
    CASE x = "." -> d
      [] x = ".." -> IF d = <<>> THEN <<>> ELSE Front(d)
      [] OTHER -> Append(d, x)

\* The segments without "." and "..": r[i] is what the first i of them lead to.
Plain(s) ==
    LET r[i \in 0..Len(s)] == IF i = 0 THEN <<>> ELSE Follow(r[i - 1], s[i])
    IN r[Len(s)]

Folder(u) == IF u.slash \/ u.path = <<>> THEN u.path ELSE Front(u.path)

Located(u, site, path, slash) ==
    [site |-> site, abs |-> TRUE, path |-> Plain(path),
     slash |-> slash \/ Plain(path) = <<>> \/ Last(path) \in {".", ".."}, kept |-> u.kept]

\* ResolveReference: what the link u means on the page b.
Resolve(b, u) ==
    IF u.site # NoSite
    THEN IF u.abs THEN Located(u, u.site, u.path, u.slash) ELSE u
    ELSE CASE u.abs -> Located(u, b.site, u.path, u.slash)
           [] ~u.abs /\ u.path = <<>> -> Located(u, b.site, b.path, b.slash)
           [] OTHER -> Located(u, b.site, Folder(b) \o u.path, u.slash)

---------------------------------------------------------------------------
(* fix_link.                                                               *)

\* Hostname leaves out the port.
SameHost(t, b) == t.site.scheme = b.site.scheme /\ t.site.host = b.site.host

\* How many segments two paths begin with alike.
Shared(d, p) == Max({k \in 0..Len(d) : k <= Len(p) /\ SubSeq(d, 1, k) = SubSeq(p, 1, k)})

\* The path from d to p.
PathFrom(d, p) ==
    [i \in 1..(Len(d) - Shared(d, p)) |-> ".."] \o SubSeq(p, Shared(d, p) + 1, Len(p))

\* Mutant of Rel: relative to the page itself.
RelToPage(b, t) == PathFrom(b.path, t.path)

\* filepath.Rel from the folder of the page.
Rel(b, t) == PathFrom(Folder(b), t.path)

FixLink(b, u) ==
    LET t == Resolve(b, u) IN
    IF u.kept \/ ~t.abs \/ ~SameHost(t, b)
    THEN u
    ELSE [site |-> NoSite, abs |-> FALSE, path |-> IF Rel(b, t) = <<>> THEN <<".">> ELSE Rel(b, t),
          slash |-> t.slash, kept |-> t.kept]

\* LinkRelative: HTML is rewritten, anything else is passed through.
Fixed == IF page.html THEN [i \in DOMAIN doc |-> FixLink(page.url, doc[i])] ELSE doc

---------------------------------------------------------------------------
(* filtercopy.                                                             *)

\* HTML is parsed as a whole before anything is written; other files are copied up
\* to where they cannot be read.
ReadPage ==
    /\ via = "pipe" /\ lpc = "read"
    /\ lpc' = "write"
    /\ \E k \in IF page.html THEN {0, Len(doc)} ELSE 0..Len(doc) :
          left' = SubSeq(Fixed, 1, k) /\ dropped' = (k < Len(doc))
    /\ UNCHANGED <<linkOptions, pipe, cpc, dst, failed>>

\* A write waits until it has been read.
WritePipe ==
    /\ lpc = "write" /\ pipe = <<>> /\ left # <<>>
    /\ pipe' = <<Head(left)>> /\ left' = Tail(left)
    /\ UNCHANGED <<linkOptions, lpc, cpc, dst, failed, dropped>>

ClosePipe ==
    /\ lpc = "write" /\ pipe = <<>> /\ left = <<>>
    /\ lpc' = "closed"
    /\ UNCHANGED <<linkOptions, left, pipe, cpc, dst, failed, dropped>>

CopyChunk ==
    /\ cpc = "copy" /\ pipe # <<>>
    /\ dst' = dst \o pipe /\ pipe' = <<>>
    /\ UNCHANGED <<linkOptions, lpc, left, cpc, failed, dropped>>

\* Mutant of CopyFails: the error of io.Copy is only logged, like that of LinkRelative.
CopyFailsQuietly ==
    /\ cpc = "copy" /\ pipe # <<>>
    /\ pipe' = <<>> /\ cpc' = "wait"
    /\ UNCHANGED <<linkOptions, lpc, left, dst, failed, dropped>>

\* The destination fails: nobody reads the pipe any more, and it is not closed yet.
CopyFails ==
    /\ cpc = "copy" /\ pipe # <<>>
    /\ pipe' = <<>>
    /\ failed' = TRUE /\ cpc' = "wait"
    /\ UNCHANGED <<linkOptions, lpc, left, dst, dropped>>

CopyEnds ==
    /\ via = "pipe" /\ cpc = "copy" /\ lpc = "closed"
    /\ cpc' = "wait"
    /\ UNCHANGED <<linkOptions, lpc, left, pipe, dst, failed, dropped>>

\* Mutant of WaitReturns: the rewriter is not waited for.
WaitReturnsNot ==
    /\ cpc = "wait"
    /\ cpc' = "returned"
    /\ UNCHANGED <<linkOptions, lpc, left, pipe, dst, failed, dropped>>

\* wg.Wait; only after it the deferred rpipe.Close.
WaitReturns ==
    /\ cpc = "wait" /\ lpc = "closed"
    /\ cpc' = "returned"
    /\ UNCHANGED <<linkOptions, lpc, left, pipe, dst, failed, dropped>>

\* Without the pipe every error is returned.
CopyDirectly ==
    /\ via # "pipe" /\ cpc = "copy"
    /\ cpc' = "returned"
    /\ \E k \in 0..Len(doc) :
          /\ dst' = SubSeq(IF via = "link" THEN Fixed ELSE doc, 1, k)
          /\ failed' = (k < Len(doc))
    /\ UNCHANGED <<linkOptions, lpc, left, pipe, dropped>>

LinkNext ==
    \/ ReadPage \/ WritePipe \/ ClosePipe
    \/ CopyChunk \/ CopyFails \/ CopyEnds \/ WaitReturns \/ CopyDirectly

LinkSpec == LinkInit /\ [][LinkNext]_linkVars

---------------------------------------------------------------------------
(* Properties.                                                             *)

Moved(u) ==
    [site |-> MovedTo.site, abs |-> u.abs, path |-> MovedTo.path \o u.path,
     slash |-> u.slash, kept |-> u.kept]

\* v on the page that has been moved, for u on the page where it was.
Survives(b, u, v) ==
    LET was == Resolve(b, u)
        now == Resolve(Moved(b), v)
    IN \/ u.kept
       \/ ~was.abs /\ now = was
       \/ ~SameHost(was, b) /\ now = was
       \/ /\ was.abs /\ SameHost(was, b)
          /\ now \in {Moved(was), [Moved(was) EXCEPT !.slash = TRUE]}
          /\ now.slash # was.slash => IsPrefix(was.path, Folder(b))

\* A page that has been rewritten can be moved with its site to another host and
\* directory: its links mean the same pages there, and links to other hosts are the
\* same as before.  Not so for a link with a user or that cannot be parsed, which is
\* kept; an absolute link to the same host that has no path (http://h) is left
\* unchanged, and still names the old host; a link to a folder of the page that is
\* written without its slash is given one; and a port of the same host is forgotten.
LinksSurviveMove ==
    cpc = "returned" /\ page.html /\ via # "copy" =>
        \A i \in DOMAIN dst : Survives(page.url, doc[i], dst[i])

\* filtercopy returns no error only when the destination has the whole page, unless
\* LinkRelative has failed: that error is dropped, and the page is cut short.
FilteredIsWhole ==
    cpc = "returned" /\ ~failed =>
        IF via = "copy" THEN dst = doc ELSE dst = Fixed \/ (dropped /\ IsStrictPrefix(dst, Fixed))

\* With the pipe, the error of a destination reaches the caller only when there was
\* nothing more to write: before that, filtercopy waits for ever, and it does so for
\* no other reason.
Hung == cpc = "wait" /\ pipe # <<>>
HangHasCause ==
    /\ Hung => failed
    /\ via = "pipe" /\ cpc = "returned" /\ failed => left = <<>> /\ pipe = <<>>
====
