---- MODULE Negotiation ----
(***************************************************************************)
(* What ServeHTTP (webserver.go) answers: which of the stored variants of  *)
(* a name is sent, under which headers, and when a client is told that its *)
(* copy is still good.  ServeHTTP tries the variants one after another and *)
(* adds headers to the answer as it goes, so that what an abandoned try    *)
(* has added is still there when another variant is sent.                  *)
(*                                                                         *)
(* The client keeps the last complete answer and asks again with its ETag  *)
(* or its date, perhaps after the server has loaded other archives.        *)
(*                                                                         *)
(* A length is the body whose length it is; a body is a position in the    *)
(* archives and the form it is sent in.  A request holds the read lock for *)
(* its whole run (ZipHandler), so one request at a time is enough here,    *)
(* and loads happen between requests.  Encoded weights (";q=0") are read   *)
(* off by accept_encoding, as are "*", "identity" and "compress", which    *)
(* are recognised and never used.                                          *)
(***************************************************************************)
EXTENDS ArchiveIndex

CONSTANTS
    Accepts,      \* the sets of codings a client may name
    Gunzipped,    \* for a name that ends in ".gz", the name without
    IndexName,    \* for the name of a directory, that of its index page
    DirRedirect,  \* --directory-redirect
    None          \* no header, no body, no copy

Codings == {"br", "zstd", "gzip", "deflate"}
MethodOf == [br |-> "br", zstd |-> "zstd", gzip |-> "deflate", deflate |-> "deflate"]

ASSUME NegotiationAssumption ==
    /\ {"br", "zstd", "deflate"} \subseteq Methods
    /\ Accepts \subseteq SUBSET Codings
    /\ DOMAIN Gunzipped \subseteq Names /\ DOMAIN IndexName \subseteq Names
    /\ \A n \in DOMAIN Gunzipped : Gunzipped[n] \in Names
    /\ \A n \in DOMAIN IndexName : IndexName[n] \in Names
    /\ \A f \in Files : f.crc \in Nat /\ f.time \in Int /\ f.zone \in Int
    /\ DirRedirect \in BOOLEAN
    /\ None \notin Names \union Int \union [crc : Nat, gz : BOOLEAN]

VARIABLES
    stage,    \* where ServeHTTP is: a coding it tries, or another step
    req,      \* the request
    answer,   \* headers, status and body so far; kept until the next request
    copy      \* what the client has: the last complete answer

negotiationVars == <<archiveIndexVars, stage, req, answer, copy>>

NoAnswer == [status |-> 0, logged |-> 200, coding |-> <<>>, length |-> <<>>,
             etag |-> <<>>, date |-> <<>>, body |-> None, tried |-> <<>>]
NoRequest == [path |-> None, slash |-> FALSE, accept |-> {}, ifnone |-> None, since |-> None]

NegotiationInit ==
    /\ IndexInit
    /\ stage = "idle" /\ req = NoRequest /\ answer = NoAnswer /\ copy = None

---------------------------------------------------------------------------
(* The parts of an answer.                                                 *)

\* filename: a path that ends in a slash stands for the index page.
Filename == IF req.slash THEN IndexName[req.path] ELSE req.path
Exists(n) == Stored(n) # {}

ETag(f) == [crc |-> f.crc, gz |-> FALSE]
\* The time is written in the zone of the entry and labelled GMT.
LastModified(f) == f.time + f.zone
Body(form) == [of |-> <<at, rest + 1>>, form |-> form]
Form(s) == CASE s \in {"br", "zstd", "deflate"} -> "raw"
             [] s = "gzip" -> "gzip"
             [] OTHER -> "plain"

\* Mutant of Conditional: the date is compared even when there is an ETag.
ConditionalDateToo(f) ==
    \/ req.ifnone = ETag(f)
    \/ req.since # None /\ f.time <= req.since

\* Mutant of Conditional: both the ETag and the date must match.
ConditionalBoth(f) ==
    /\ req.ifnone # None \/ req.since # None
    /\ req.ifnone \in {None, ETag(f)}
    /\ req.since # None => f.time <= req.since

Conditional(f) ==
    \/ req.ifnone = ETag(f)
    \/ req.ifnone = None /\ req.since # None /\ f.time <= req.since

\* Mutant of WithHeaders: the length is that of the stored bytes.
WithHeadersRawLength ==
    [answer EXCEPT !.coding = IF stage \in Codings THEN Append(@, stage) ELSE @,
                   !.length = Append(@, Body("raw")),
                   !.etag = Append(@, ETag(Found)),
                   !.date = Append(@, LastModified(Found))]

\* Mutant of WithHeaders: the test for an encoding is dropped.
WithHeadersAlwaysCoding ==
    [answer EXCEPT !.coding = Append(@, stage),
                   !.length = Append(@, Body(Form(stage))),
                   !.etag = Append(@, ETag(Found)),
                   !.date = Append(@, LastModified(Found))]

\* handle_pre: the headers are added, never replaced.
WithHeaders ==
    [answer EXCEPT !.coding = IF stage \in Codings THEN Append(@, stage) ELSE @,
                   !.length = Append(@, Body(Form(stage))),
                   !.etag = Append(@, ETag(Found)),
                   !.date = Append(@, LastModified(Found))]

\* Mutant of Sent: the status is not noted for the access log.
SentUnlogged(a, status, body) == [a EXCEPT !.status = status, !.body = body]

Sent(a, status, body) == [a EXCEPT !.status = status, !.logged = status, !.body = body]

\* The client keeps a complete answer under its first ETag and date.
Kept(a) ==
    [path |-> req.path, slash |-> req.slash, etag |-> Head(a.etag),
     date |-> IF a.date = <<>> THEN None ELSE Head(a.date),
     crc |-> Found.crc, tried |-> a.tried]

Reply(a) ==
    /\ answer' = a
    /\ stage' = "idle"
    /\ copy' = IF a.status = 200 /\ a.body # None THEN Kept(a) ELSE copy
    /\ EndLookup
    /\ UNCHANGED req

---------------------------------------------------------------------------
(* ServeHTTP.                                                              *)

Request(n, slash, accept, ifnone, since) ==
    /\ stage = "idle" /\ Ready
    /\ slash => n \in DOMAIN IndexName
    /\ req' = [path |-> n, slash |-> slash, accept |-> accept, ifnone |-> ifnone, since |-> since]
    /\ answer' = NoAnswer
    /\ stage' = "route"
    /\ UNCHANGED <<archiveIndexVars, copy>>

FirstRequest ==
    \E n \in Names, slash \in BOOLEAN, accept \in Accepts :
        Request(n, slash, accept, None, None)

\* A client that has an answer sends its ETag, its date, or both.
AskAgain ==
    /\ copy # None
    /\ \E accept \in Accepts, ifnone \in {None, copy.etag}, since \in {None, copy.date} :
          /\ ifnone # None \/ since # None
          /\ Request(copy.path, copy.slash, accept, ifnone, since)

Redirected ==
    /\ DirRedirect
    /\ ~Exists(Filename)
    /\ Filename \in DOMAIN IndexName /\ Exists(IndexName[Filename])
IsGzip ==
    /\ Filename \in DOMAIN Gunzipped
    /\ methodmap[Gunzipped[Filename]]["deflate"] # Absent

Finish(status) ==
    /\ stage' = "idle"
    /\ answer' = Sent(answer, status, None)
    /\ UNCHANGED <<archiveIndexVars, req, copy>>

Redirect == stage = "route" /\ Redirected /\ Finish(301)

NotFound ==
    /\ stage = "route" /\ ~Redirected /\ ~IsGzip
    /\ ~Exists(Filename)
    /\ Finish(404)

FindGzip ==
    /\ stage = "route" /\ ~Redirected /\ IsGzip
    /\ stage' = "gzurl"
    /\ CallGetIdx(Gunzipped[Filename], "deflate")
    /\ UNCHANGED <<req, answer, copy>>

\* The .gz file is made from the deflated variant; no condition is looked at.
SendGzipFile ==
    /\ stage = "gzurl" /\ lookup = "found"
    /\ \E body \in {Body("gzip"), None} :
          Reply(Sent([answer EXCEPT !.etag = <<[ETag(Found) EXCEPT !.gz = TRUE]>>], 200, body))

Negotiate ==
    /\ stage = "route" /\ ~Redirected /\ ~IsGzip
    /\ Exists(Filename)
    /\ stage' = "br"
    /\ UNCHANGED <<archiveIndexVars, req, answer, copy>>

---------------------------------------------------------------------------
(* send_raw: brotli, zstd, then gzip if it is accepted, else deflate.      *)

After(s) ==
    CASE s = "br" -> "zstd"
      [] s = "zstd" -> IF "gzip" \in req.accept THEN "gzip" ELSE "deflate"
      [] OTHER -> "fallback"

HasVariant == stage \in req.accept /\ MethodOf[stage] \in Stored(Filename)

TryVariant ==
    /\ stage \in Codings /\ lookup = "none"
    /\ HasVariant
    /\ CallGetIdx(Filename, MethodOf[stage])
    /\ UNCHANGED <<stage, req, answer, copy>>

\* Mutant of NextVariant: a variant may be passed over though it is accepted.
NextVariantAnyway ==
    /\ stage \in Codings /\ lookup = "none"
    /\ stage' = After(stage)
    /\ UNCHANGED <<archiveIndexVars, req, answer, copy>>

NextVariant ==
    /\ stage \in Codings /\ lookup = "none"
    /\ ~HasVariant
    /\ stage' = After(stage)
    /\ UNCHANGED <<archiveIndexVars, req, answer, copy>>

\* handle_pre and ServeHTTP itself: the client's copy is still good.
NotModified ==
    /\ stage \in Codings \union {"fallback", "plain"} /\ lookup = "found"
    /\ Conditional(Found)
    /\ Reply(Sent([answer EXCEPT !.etag = Append(@, ETag(Found)),
                                 !.date = Append(@, LastModified(Found))], 304, None))

SendRaw ==
    /\ stage \in {"br", "zstd", "deflate"} /\ lookup = "found"
    /\ ~Conditional(Found)
    /\ Reply(Sent(WithHeaders, 200, Body("raw")))

\* OpenRaw fails: the headers stay, the next variant is tried.
RawFails ==
    /\ stage \in {"br", "zstd", "deflate"} /\ lookup = "found"
    /\ ~Conditional(Found)
    /\ answer' = [WithHeaders EXCEPT !.tried = Append(@, stage), !.logged = 500]
    /\ stage' = After(stage)
    /\ EndLookup
    /\ UNCHANGED <<req, copy>>

\* The status is written before CopyGzip opens the entry: when that fails, the
\* answer is 200 without a body.
SendGzip ==
    /\ stage = "gzip" /\ lookup = "found"
    /\ ~Conditional(Found)
    /\ \E body \in {Body("gzip"), None} : Reply(Sent(WithHeaders, 200, body))

---------------------------------------------------------------------------
(* The fallback: any variant, decompressed.  The map is ranged over twice, *)
(* once for the condition and once for the body.                           *)

PickVariant ==
    /\ stage \in {"fallback", "plain"} /\ lookup = "none"
    /\ \E m \in Stored(Filename) : CallGetIdx(Filename, m)
    /\ UNCHANGED <<stage, req, answer, copy>>

PickAgain ==
    /\ stage = "fallback" /\ lookup = "found"
    /\ ~Conditional(Found)
    /\ stage' = "plain"
    /\ EndLookup
    /\ UNCHANGED <<req, answer, copy>>

SendNormal ==
    /\ stage = "plain" /\ lookup = "found"
    /\ ~Conditional(Found)
    /\ Reply(Sent(WithHeaders, 200, Body("plain")))

\* Open fails: 500 is logged, but no status is written: the client sees 200.
NormalFails ==
    /\ stage = "plain" /\ lookup = "found"
    /\ ~Conditional(Found)
    /\ Reply([WithHeaders EXCEPT !.logged = 500, !.status = 200])

ServeHTTP ==
    \/ FirstRequest \/ AskAgain
    \/ Redirect \/ NotFound \/ FindGzip \/ SendGzipFile \/ Negotiate
    \/ TryVariant \/ NextVariant \/ NotModified \/ SendRaw \/ RawFails \/ SendGzip
    \/ PickVariant \/ PickAgain \/ SendNormal \/ NormalFails

\* The index is built, and replaced, between requests only.
Reload ==
    /\ stage = "idle"
    /\ IndexStep
    /\ answer' = NoAnswer
    /\ UNCHANGED <<stage, req, copy>>

WalkIndex == GetIdxStep /\ UNCHANGED <<stage, req, answer, copy>>

NegotiationNext == ServeHTTP \/ Reload \/ WalkIndex

NegotiationSpec == NegotiationInit /\ [][NegotiationNext]_negotiationVars

---------------------------------------------------------------------------
(* Properties.                                                             *)

NegotiationTypeOK ==
    /\ stage \in Codings \union {"idle", "route", "gzurl", "fallback", "plain"}
    /\ req.path \in Names \union {None} /\ req.accept \subseteq Codings
    /\ answer.status \in {0, 200, 301, 304, 404} /\ answer.logged \in {200, 301, 304, 404, 500}
    /\ answer.coding \in Seq(Codings) /\ answer.tried \in Seq(Codings)
    /\ answer.body = None \/ answer.body.form \in {"raw", "gzip", "plain"}
    /\ stage \in {"idle", "route"} => lookup = "none"

Answered == stage = "idle" /\ answer.status # 0
FileAt(p) == archives[p[1]][p[2]]
\* The variants of a name, by definition: of each method the first file served.
Positions == UNION {{k} \X DOMAIN archives[k] : k \in DOMAIN archives}
Variants(n) ==
    {FileAt(p) : p \in {q \in Positions :
        /\ Serves(FileAt(q), n, FileAt(q).method)
        /\ \A o \in Positions : Earlier(o[1], o[2], q[1], q[2])
                => ~Serves(FileAt(o), n, FileAt(q).method)}}

\* The headers of an answer are those of the bytes sent: one length, the coding of
\* the form, the ETag of the content, whatever variants were tried before (unless
\* one of them could not be opened: RawFails leaves its headers behind) and
\* although the fallback picks its variant twice.
HeadersDescribeBody ==
    Answered /\ answer.body # None /\ answer.tried = <<>> =>
        LET f == FileAt(answer.body.of) IN
        /\ answer.etag \in {<<[crc |-> f.crc, gz |-> z]>> : z \in BOOLEAN}
        /\ answer.length \in {<<>>, <<answer.body>>}
        /\ answer.length = <<>> => Head(answer.etag).gz
        /\ CASE answer.body.form = "plain" -> answer.coding = <<>>
             [] answer.body.form = "gzip" -> answer.coding = IF Head(answer.etag).gz THEN <<>> ELSE <<"gzip">>
             [] answer.body.form = "raw" -> \E c \in Codings \ {"gzip"} :
                                              answer.coding = <<c>> /\ f.method = MethodOf[c]

\* A coding is sent only to a client that names it, and the bytes are decompressed
\* only for a client none of whose codings is stored and can be opened: "ziphttp
\* send contents without decompress stream if it is acceptable" (README).
AcceptableForm ==
    Answered /\ answer.status = 200 =>
        /\ \A i \in DOMAIN answer.coding : answer.coding[i] \in req.accept
        /\ answer.body # None /\ answer.body.form = "plain" =>
              \A c \in req.accept :
                  \/ \A v \in Variants(Filename) : v.method # MethodOf[c]
                  \/ \E i \in DOMAIN answer.tried : answer.tried[i] = c

\* A client that sends the ETag of its copy is told that nothing has changed when
\* all variants have that content, whichever coding it now asks for and whichever
\* variant the map yields first, also after a reload.
RevalidatesByETag ==
    /\ Answered /\ req.ifnone # None /\ ~IsGzip
    /\ Variants(Filename) # {}
    /\ \A v \in Variants(Filename) : v.crc = req.ifnone.crc /\ ~req.ifnone.gz
    => answer.status = 304

\* The claim of the README without the exception of the .gz files: an answer that
\* carries an ETag can be asked for again under it.
RevalidatesEveryETag ==
    LET n == IF IsGzip THEN Gunzipped[Filename] ELSE Filename IN
    /\ Answered /\ req.ifnone # None
    /\ Variants(n) # {}
    /\ \A v \in Variants(n) : v.crc = req.ifnone.crc /\ req.ifnone.gz = IsGzip
    => answer.status = 304

\* 304 is never sent to a client whose copy is of no current variant, although
\* archives are loaded between its requests, unless it has sent a date alone (then a
\* variant was not modified after that date) or its copy came under the ETag that an
\* abandoned variant had left behind.
NotModifiedIsTrue ==
    Answered /\ answer.status = 304 =>
        \/ \E v \in Variants(Filename) : v.crc = copy.crc
        \/ req.ifnone = None /\ \E v \in Variants(Filename) : v.time <= copy.date
        \/ copy.tried # <<>>

\* The access log shows the status the client gets, also when variants have failed
\* on the way, except for a last variant that cannot be opened: 500 is logged, and
\* a 200 without body is sent.
LoggedStatusIsSent ==
    Answered /\ answer.logged # answer.status =>
        answer.logged = 500 /\ answer.status = 200 /\ answer.body = None
====
