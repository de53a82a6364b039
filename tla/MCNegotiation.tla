---- MODULE MCNegotiation ----
(***************************************************************************)
(* Instances of Negotiation for TLC.                                       *)
(***************************************************************************)
EXTENDS Negotiation

MCNames == {"a", "a.gz", "d", "d/index"}
MCMethods == {"store", "deflate", "br", "zstd"}
MCGunzipped == [n \in {"a.gz"} |-> "a"]
MCIndexName == [n \in {"d"} |-> "d/index"]
MCAccepts == {{}, {"gzip"}, {"deflate"}, {"gzip", "deflate"}, {"br", "gzip"},
              {"br", "zstd", "deflate"}, Codings}

FileOf(n, m, c, t, z) == [name |-> n, method |-> m, crc |-> c, time |-> t, zone |-> z, served |-> TRUE]
Directory == [name |-> "d", method |-> "store", crc |-> 0, time |-> 1, zone |-> 0, served |-> FALSE]

\* Two archives made from the same files (the second one of --add), ahead of them
\* an archive without files; the same names in other methods, a page of a directory.
Old == << <<>>,
          <<FileOf("a", "deflate", 1, 1, 0), Directory, FileOf("d/index", "store", 3, 1, 0)>>,
          <<FileOf("a", "br", 1, 1, 0), FileOf("a", "deflate", 1, 2, 0), FileOf("a", "zstd", 1, 1, 0)>> >>
\* The content has changed, in every variant; the files come from another time zone.
New2 == << <<FileOf("a", "store", 2, 2, 1), FileOf("a", "deflate", 2, 2, 1)>>,
           <<FileOf("a", "br", 2, 2, -1)>> >>
\* The variants disagree, which init2 only warns of; a file named a.gz of its own.
Mixed == << <<FileOf("a", "store", 1, 1, 0), FileOf("a.gz", "store", 4, 1, 0)>>,
            <<FileOf("a", "br", 2, 3, 0), FileOf("a", "br", 5, 3, 0)>> >>

MCLoads == {Old, New2, Mixed}
MCFiles == UNION {UNION {{l[k][i] : i \in DOMAIN l[k]} : k \in DOMAIN l} : l \in MCLoads}
====
