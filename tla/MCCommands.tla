---- MODULE MCCommands ----
(***************************************************************************)
(* Instances of Commands for TLC.                                          *)
(***************************************************************************)
EXTENDS Commands

\* zip
Offer(n, c, t, u, z) ==
    [name |-> n, crc |-> c, time |-> t, zone |-> "UTC", usize |-> u, csize |-> z, excluded |-> FALSE]
In(z, f) == [f EXCEPT !.zone = z]
Left(f) == [f EXCEPT !.excluded = TRUE]
Dir(p, fs) == [path |-> p, kind |-> "dir", dir |-> p, readable |-> TRUE, files |-> fs]
Arc(p, fs) == [path |-> p, kind |-> "zip", dir |-> "", readable |-> TRUE, files |-> fs]
Single(p, d, f) == [path |-> p, kind |-> "file", dir |-> d, readable |-> TRUE, files |-> <<f>>]
Device(p) == [path |-> p, kind |-> "other", dir |-> "", readable |-> TRUE, files |-> <<>>]
Unreadable(a) == [a EXCEPT !.readable = FALSE]

\* The last archive, a directory that has changed since, an archive in between.
Update == <<Arc("o", <<Offer("x", 1, 1, 3, 2), Offer("y", 2, 1, 3, 2), Left(Offer("z", 1, 1, 1, 1)),
                       Offer("w", 5, 1, 1, 1)>>),
            Dir("d", <<Offer("x", 1, 4, 3, 0), Offer("z", 3, 2, 1, 0)>>),
            Arc("n", <<Offer("x", 2, 2, 5, 1), Offer("y", 2, 3, 3, 1)>>)>>
\* Equal times in three zones, a name twice in an archive, single files in and out of a
\* directory.
Singles == <<Dir("d", <<Offer("x", 1, 2, 4, 0), Offer("y", 3, 2, 2, 0)>>),
             Single("d/y", "d", Offer("y", 3, 2, 2, 0)),
             Arc("o", <<Offer("x", 2, 2, 5, 3), In("own", Offer("x", 2, 2, 5, 2))>>),
             Single("e/z", "e", Offer("z", 4, 1, 1, 0))>>
\* One name in five inputs, of two contents.
Five == <<Dir("d", <<Offer("x", 1, 3, 4, 0)>>), Dir("e", <<Offer("x", 1, 1, 4, 0)>>),
          Arc("o", <<Offer("x", 1, 2, 4, 2)>>), Arc("p", <<Offer("x", 1, 5, 4, 3)>>),
          Dir("f", <<Offer("x", 2, 4, 4, 0)>>)>>
\* A single file under its directory, which does not offer it; a device.
Beside == <<Dir("d", <<Left(Offer("x", 1, 1, 2, 0))>>), Device("n"), Arc("o", <<Offer("x", 2, 2, 5, 3)>>),
            Single("d/x", "d", Offer("x", 1, 1, 2, 0))>>
\* A directory given twice, an archive that cannot be opened.
Broken == <<Dir("d", <<Offer("x", 1, 3, 4, 0)>>), Dir("d", <<Offer("x", 1, 3, 4, 0)>>),
            Unreadable(Arc("o", <<>>))>>

MCZipNames == {"w", "x", "y", "z"}
MCCommandLines == {Update, Singles, Five, Beside, Broken}
MCArguments == UNION {{z[k] : k \in DOMAIN z} : z \in MCCommandLines}
MCZipFiles == UNION {{a.files[i] : i \in DOMAIN a.files} : a \in MCArguments}

\* The insertion sort of sort.Sort: its first element is what First says, for both
\* comparisons, which are not orders.
Insert(Less(_, _), s, x) ==
    LET stops == {j \in DOMAIN s : ~Less(x, s[j])}
    IN InsertAt(s, IF stops = {} THEN 1 ELSE Max(stops) + 1, x)
Sorted(Less(_, _), s) == FoldLeft(LAMBDA t, x : Insert(Less, t, x), <<>>, s)
ASSUME FirstIsSorted ==
    LET file == [time : 1..2, usize : 1..2, csize : 0..2, zone : {"UTC", "+1"}] IN
    \A s \in [1..3 -> file] :
        /\ First(SameCRCLess, s, 1..3) = Head(Sorted(SameCRCLess, s))
        /\ First(DiffCRCLess, s, 1..3) = Head(Sorted(DiffCRCLess, s))

\* zipsort
Sf(n, c, t, u, z) == [name |-> n, crc |-> c, time |-> t, usize |-> u, csize |-> z, skip |-> FALSE]
Skipped(f) == [f EXCEPT !.skip = TRUE]
\* Three versions of one name, equal contents of different size, equal keys.
SortA == <<Sf(1, 1, 2, 4, 2), Sf(2, 4, 1, 6, 3), Skipped(Sf(3, 9, 9, 9, 9)), Sf(3, 5, 1, 4, 3)>>
SortB == <<Sf(1, 2, 3, 4, 3), Sf(2, 4, 2, 6, 2)>>
SortC == <<Sf(1, 3, 3, 5, 1), Sf(2, 4, 1, 6, 2), Sf(1, 6, 1, 9, 1)>>
MCSortNames == 1..3
MCSortLines == {<<SortA>>, <<SortA, SortB, SortC>>, <<SortC, <<>>, SortB>>}
MCSortFiles == UNION {{a[i] : i \in DOMAIN a} : a \in {SortA, SortB, SortC}}

\* zip2gzip
Xf(m, p) == [method |-> m, path |-> p, dirs |-> {}, match |-> TRUE, dots |-> FALSE, unsafe |-> FALSE]
Every == <<Xf("deflate", "a.gz"), Xf("br", "b.br"), [Xf("zstd", "c.zstd") EXCEPT !.dots = TRUE],
           Xf("zstd", "c.zstd"), [Xf("deflate", "e") EXCEPT !.match = FALSE]>>
\* A stored a.gz beside a deflated a; a directory as an entry; bzip2; a method in
\* neither list; a bad path.
Clash == <<Xf("deflate", "a.gz"), Xf("store", "a.gz"), Xf("store", "d"),
           [Xf("deflate", "d/e.gz") EXCEPT !.dirs = {"d"}], Xf("br", "b.br")>>
Failing == <<Xf("br", "b.br"), Xf("bzip2", "e"), Xf("deflate", "a.gz")>>
Unsafe == <<Xf("br", "b.br"), [Xf("deflate", "e") EXCEPT !.unsafe = TRUE]>>
Unknown == <<Xf("lzma", "b.br"), Xf("other", "e"), Xf("xz", "c.zstd")>>
MCExtracts == {Every, Clash, Failing, Unknown, Unsafe}
MCTargets == {"a.gz", "b.br", "c.zstd", "d", "d/e.gz", "e"}

\* ArchiveOffset, with 16 and 4 in place of 512 and 22.
Layout(p, s, n, o, c) ==
    [prefix |-> p, starts |-> s, data |-> n, order |-> o, header |-> 3, comment |-> c]
MCLayouts ==
    {Layout(p, <<0, 5, 11>>, 18, o, c) :
        p \in {0, 9}, o \in {<<1, 2, 3>>, <<2, 1, 3>>}, c \in {0, 3, 12, 13, 20}}
    \union {Layout(p, <<0>>, 4, <<1>>, c) : p \in {0, 4, 5, 6, 30}, c \in {0, 13}}
    \union {Layout(p, <<>>, 0, <<>>, 0) : p \in {0, 30}}

\* Links of the pages of http://h, in two folders and at the root.
Http(h, p) == [scheme |-> "http", host |-> h, port |-> p]
Mailto == [scheme |-> "mailto", host |-> "", port |-> ""]
Url(s, a, p, e) == [site |-> s, abs |-> a, path |-> p, slash |-> e, kept |-> FALSE]
Page(p, e, html) == [url |-> Url(Http("h", ""), TRUE, p, e), html |-> html]
MCPages == {Page(<<"p", "q", "i">>, FALSE, TRUE), Page(<<"i">>, FALSE, TRUE),
            Page(<<"p">>, TRUE, TRUE), Page(<<"p", "t">>, FALSE, FALSE)}
Relative == <<Url(NoSite, FALSE, <<"..", "x">>, FALSE), Url(NoSite, FALSE, <<>>, FALSE),
              Url(NoSite, FALSE, <<".", "r", "..", "y">>, TRUE)>>
Rooted == <<Url(NoSite, TRUE, <<"p", "q", "z">>, FALSE), Url(NoSite, TRUE, <<"p">>, TRUE),
            Url(NoSite, TRUE, <<>>, TRUE), Url(NoSite, TRUE, <<"p", "q">>, FALSE)>>
Absolute == <<Url(Http("h", ""), TRUE, <<"q", "x">>, FALSE), Url(Http("g", ""), TRUE, <<"q">>, FALSE),
              Url(Http("h", "81"), TRUE, <<"p", "x">>, FALSE), Url(Http("h", ""), FALSE, <<>>, FALSE),
              [Url(Http("h", ""), TRUE, <<"x">>, FALSE) EXCEPT !.kept = TRUE],
              Url(Mailto, FALSE, <<>>, FALSE)>>
MCDocs == {<<>>, Relative, Rooted, Absolute}
MCNames == {"copy", "i", "p", "q", "r", "t", "x", "y", "z"}
MCSites == {Http("h", ""), Http("h", "81"), Http("g", ""), Http("m", ""), Mailto}
MCMovedTo == [site |-> Http("m", ""), path |-> <<"copy">>]
====
