---- MODULE NegotiationProofs ----
(***************************************************************************)
(* Theorems about Negotiation, for all archives, requests and clients:     *)
(* what ArchiveIndex promises holds while requests are answered, and the   *)
(* answers are what their headers, the request and the client's copy say.  *)
(***************************************************************************)
EXTENDS Negotiation, ArchiveIndexProofs

---------------------------------------------------------------------------
(* The inductive invariant.                                                *)

Statuses == {0, 200, 301, 304, 404}
LoggedStatuses == {200, 301, 304, 404, 500}
ETags == [crc : Nat, gz : BOOLEAN]
Bodies == [of : Nat \X Nat, form : {"raw", "gzip", "plain"}]
SentBodies == Bodies \union {None}
Answers == [status : Statuses, logged : LoggedStatuses,
            coding : Seq(Codings), length : Seq(Bodies), etag : Seq(ETags), date : Seq(Int),
            body : SentBodies, tried : Seq(Codings)]
Requests == [path : Names \union {None}, slash : BOOLEAN, accept : SUBSET Codings,
             ifnone : ETags \union {None}, since : Int \union {None}]
Copies == [path : Names, slash : BOOLEAN, etag : ETags, date : Int \union {None},
           crc : Nat, tried : Seq(Codings)]
Fallback == {"fallback", "plain"}
Stages == Codings \union {"idle", "route", "gzurl"} \union Fallback

TypeInv ==
    /\ stage \in Stages
    /\ req \in Requests /\ answer \in Answers
    /\ copy \in Copies \union {None}

\* A request is under way, or has been answered from the index as it still is.
Busy == stage # "idle" \/ answer.status # 0

RequestInv ==
    /\ Busy => /\ ~Indexing
               /\ req.path \in Names /\ (req.slash => req.path \in DOMAIN IndexName)
    /\ stage \in {"idle", "route"} => lookup = "none"

\* What getidx has been called for is what the stage is about.
StageInv ==
    /\ stage = "gzurl" => lookup # "none" /\ IsGzip /\ asked = <<Gunzipped[Filename], "deflate">>
    /\ stage \in Codings /\ lookup # "none" =>
          stage \in req.accept /\ asked = <<Filename, MethodOf[stage]>>
    /\ stage \in Fallback /\ lookup # "none" => asked[1] = Filename

\* Nothing is sent before the end, and headers are left by abandoned variants only.
AnswerInv ==
    /\ stage # "idle" => answer.status = 0 /\ answer.body = None
    /\ stage # "idle" /\ answer.tried = <<>> => answer = NoAnswer

NegotiationInv == IndexInv /\ TypeInv /\ RequestInv /\ StageInv

---------------------------------------------------------------------------
(* A request and the index.                                                *)

LEMMA FilenameTyped ==
    ASSUME RequestInv, Busy
    PROVE  Filename \in Names
BY NegotiationAssumption DEF RequestInv, Filename

LEMMA MethodsOfCodings ==
    /\ \A c \in Codings : MethodOf[c] \in Methods
    /\ "deflate" \in Methods
BY NegotiationAssumption DEF Codings, MethodOf

\* Every step of the handler is a step of the index, or leaves it alone.
LEMMA StepIsIndexStep ==
    NegotiationInv /\ [NegotiationNext]_negotiationVars => [IndexNext]_archiveIndexVars
<1> SUFFICES ASSUME NegotiationInv, NegotiationNext
             PROVE  [IndexNext]_archiveIndexVars
  BY DEF negotiationVars
<1>1. stage # "idle" => Filename \in Names /\ ~Indexing
  BY FilenameTyped DEF NegotiationInv, RequestInv, Busy
<1>2. CASE Reload
  BY <1>2 DEF Reload, IndexNext
<1>3. CASE WalkIndex
  BY <1>3 DEF WalkIndex, IndexNext
<1>4. CASE FindGzip
  <2>1. Gunzipped[Filename] \in Names
    BY <1>4, NegotiationAssumption DEF FindGzip, IsGzip
  <2>2. lookup = "none"
    BY <1>4 DEF FindGzip, NegotiationInv, RequestInv
  <2>3. Ready /\ CallGetIdx(Gunzipped[Filename], "deflate")
    BY <1>1, <1>4, <2>2 DEF FindGzip, Ready
  <2> QED BY <2>1, <2>3, MethodsOfCodings DEF IndexNext
<1>5. CASE TryVariant
  <2>1. Ready /\ CallGetIdx(Filename, MethodOf[stage]) /\ stage \in Codings
    BY <1>1, <1>5 DEF TryVariant, Ready, Codings
  <2> QED BY <1>1, <1>5, <2>1, MethodsOfCodings DEF IndexNext, TryVariant, Codings
<1>6. CASE PickVariant
  <2>1. PICK m \in Stored(Filename) : CallGetIdx(Filename, m)
    BY <1>6 DEF PickVariant
  <2>2. m \in Methods /\ Ready
    BY <1>1, <1>6 DEF Stored, Ready, PickVariant
  <2> QED BY <1>1, <1>6, <2>1, <2>2 DEF IndexNext, PickVariant
<1>7. CASE SendGzipFile \/ NotModified \/ SendRaw \/ RawFails \/ SendGzip \/ PickAgain
           \/ SendNormal \/ NormalFails
  BY <1>7
  DEF SendGzipFile, NotModified, SendRaw, RawFails, SendGzip, PickAgain, SendNormal, NormalFails,
      Reply, IndexNext
<1>8. CASE FirstRequest \/ AskAgain \/ Redirect \/ NotFound \/ Negotiate \/ NextVariant
  BY <1>8 DEF FirstRequest, AskAgain, Request, Redirect, NotFound, Finish, Negotiate, NextVariant
<1> QED
  BY <1>2, <1>3, <1>4, <1>5, <1>6, <1>7, <1>8 DEF NegotiationNext, ServeHTTP

LEMMA IndexInvKept ==
    NegotiationInv /\ [NegotiationNext]_negotiationVars => IndexInv'
BY StepIsIndexStep, IndexInvStep DEF NegotiationInv

---------------------------------------------------------------------------
(* Types.                                                                  *)

LEMMA FoundTyped ==
    ASSUME IndexInv, lookup = "found"
    PROVE  /\ Found \in Files /\ <<at, rest + 1>> \in Nat \X Nat
           /\ at \in DOMAIN archives /\ rest + 1 \in DOMAIN archives[at]
           /\ Found.crc \in Nat /\ Found.time \in Int /\ LastModified(Found) \in Int
           /\ ETag(Found) \in ETags /\ [ETag(Found) EXCEPT !.gz = TRUE] \in ETags
<1>1. IndexTypeOK
  BY DEF IndexInv
<1>2. at \in DOMAIN archives /\ rest < Len(archives[at])
  BY DEF IndexInv, NumberInv, LookupInv
<1>3. rest + 1 \in DOMAIN archives[at] /\ <<at, rest + 1>> \in Nat \X Nat
  BY <1>1, <1>2 DEF IndexTypeOK
<1>4. Found \in Files
  BY <1>1, <1>2, <1>3 DEF IndexTypeOK, Found
<1>5. Found.crc \in Nat /\ Found.time \in Int /\ Found.zone \in Int
  BY <1>4, NegotiationAssumption
<1>6. LastModified(Found) \in Int
  BY <1>5 DEF LastModified
<1>7. ETag(Found) \in ETags /\ [ETag(Found) EXCEPT !.gz = TRUE] \in ETags
  BY <1>5 DEF ETag, ETags
<1> QED BY <1>2, <1>3, <1>4, <1>5, <1>6, <1>7

LEMMA BodyTyped ==
    ASSUME IndexInv, lookup = "found", NEW form \in {"raw", "gzip", "plain"}
    PROVE  Body(form) \in Bodies
BY FoundTyped DEF Body, Bodies

FinalStatuses == {200, 301, 304, 404}

LEMMA SentTyped ==
    ASSUME NEW a \in Answers, NEW status \in FinalStatuses,
           NEW body \in SentBodies
    PROVE  /\ Sent(a, status, body) \in Answers
           /\ Sent(a, status, body).etag = a.etag /\ Sent(a, status, body).tried = a.tried
           /\ Sent(a, status, body).status = status /\ Sent(a, status, body).body = body
           /\ Sent(a, status, body).logged = status
           /\ Sent(a, status, body).coding = a.coding /\ Sent(a, status, body).length = a.length
<1>1. status \in Statuses /\ status \in LoggedStatuses
  BY DEF Statuses, LoggedStatuses, FinalStatuses
<1> QED BY <1>1 DEF Sent, Answers

\* The answer when Open fails.
Unopened(a) == [a EXCEPT !.logged = 500, !.status = 200]

LEMMA UnopenedTyped ==
    ASSUME NEW a \in Answers
    PROVE  /\ Unopened(a) \in Answers
           /\ Unopened(a).etag = a.etag /\ Unopened(a).tried = a.tried
           /\ Unopened(a).status = 200 /\ Unopened(a).logged = 500 /\ Unopened(a).body = a.body
<1>1. 500 \in LoggedStatuses /\ 200 \in Statuses
  BY DEF LoggedStatuses, Statuses
<1> QED BY <1>1 DEF Unopened, Answers

LEMMA AppendTyped ==
    ASSUME NEW S, NEW s \in Seq(S), NEW x \in S
    PROVE  Append(s, x) \in Seq(S) /\ Append(s, x) # <<>>
<1>1. Len(Append(s, x)) = Len(s) + 1 /\ Len(s) \in Nat /\ Append(s, x) \in Seq(S)
  OBVIOUS
<1>2. Len(<<>>) = 0
  OBVIOUS
<1> QED BY <1>1, <1>2

LEMMA HeadersTyped ==
    ASSUME IndexInv, TypeInv, lookup = "found", stage \in Codings \union Fallback
    PROVE  /\ WithHeaders \in Answers
           /\ WithHeaders.etag # <<>>
           /\ WithHeaders.status = answer.status /\ WithHeaders.body = answer.body
           /\ WithHeaders.tried = answer.tried
<1>1. answer \in Answers
  BY DEF TypeInv
<1>2. Form(stage) \in {"raw", "gzip", "plain"}
  BY DEF Form
<1>3. Body(Form(stage)) \in Bodies
  BY <1>2, BodyTyped
<1>4. ETag(Found) \in ETags /\ LastModified(Found) \in Int
  BY FoundTyped
<1>5. Append(answer.etag, ETag(Found)) \in Seq(ETags) /\ Append(answer.etag, ETag(Found)) # <<>>
  BY <1>1, <1>4, AppendTyped DEF Answers
<1>6. /\ Append(answer.date, LastModified(Found)) \in Seq(Int)
      /\ Append(answer.length, Body(Form(stage))) \in Seq(Bodies)
  BY <1>1, <1>3, <1>4, AppendTyped DEF Answers
<1>7. stage \in Codings => Append(answer.coding, stage) \in Seq(Codings)
  BY <1>1, AppendTyped DEF Answers
<1>8. CASE stage \in Codings
  BY <1>1, <1>5, <1>6, <1>7, <1>8 DEF WithHeaders, Answers
<1>9. CASE stage \notin Codings
  BY <1>1, <1>5, <1>6, <1>9 DEF WithHeaders, Answers
<1> QED BY <1>8, <1>9

LEMMA KeptTyped ==
    ASSUME IndexInv, TypeInv, RequestInv, stage # "idle", lookup = "found",
           NEW a \in Answers, a.etag # <<>>
    PROVE  Kept(a) \in Copies
<1>1. req.path \in Names /\ req.slash \in BOOLEAN
  BY DEF RequestInv, Busy, TypeInv, Requests
<1>2. Head(a.etag) \in ETags /\ a.tried \in Seq(Codings)
  BY DEF Answers
<1>3. a.date # <<>> => Head(a.date) \in Int
  BY DEF Answers
<1>4. Found.crc \in Nat
  BY FoundTyped
<1> QED BY <1>1, <1>2, <1>3, <1>4 DEF Kept, Copies

---------------------------------------------------------------------------
(* The invariant is kept.                                                  *)

SendsReply == SendGzipFile \/ NotModified \/ SendRaw \/ SendGzip \/ SendNormal \/ NormalFails

LEMMA ReplyTyped ==
    ASSUME IndexInv, TypeInv, SendsReply
    PROVE  /\ stage \notin {"idle", "route"} /\ lookup = "found"
           /\ \E a \in Answers : a.etag # <<>> /\ Reply(a)
<1>0. 200 \in FinalStatuses /\ 304 \in FinalStatuses
  BY DEF FinalStatuses
<1>1. answer \in Answers /\ None \in SentBodies
  BY DEF TypeInv, SentBodies
<1>2. lookup = "found" /\ stage \notin {"idle", "route"}
  BY DEF SendsReply, SendGzipFile, NotModified, SendRaw, SendGzip, SendNormal, NormalFails, Fallback,
         Codings
<1>3. \A form \in {"raw", "gzip", "plain"} : Body(form) \in SentBodies
  BY <1>2, BodyTyped DEF SentBodies
<1>4. CASE SendGzipFile
  <2> DEFINE e == <<[ETag(Found) EXCEPT !.gz = TRUE]>>
             a == [answer EXCEPT !.etag = e]
  <2>1. e \in Seq(ETags) /\ e # <<>>
    BY <1>2, FoundTyped
  <2> HIDE DEF e
  <2>2. a \in Answers /\ a.etag = e
    BY <1>1, <2>1 DEF Answers
  <2>3. PICK body \in {Body("gzip"), None} : Reply(Sent(a, 200, body))
    BY <1>4 DEF SendGzipFile, e
  <2>4. body \in SentBodies
    BY <1>1, <1>3, <2>3
  <2> HIDE DEF a
  <2>5. Sent(a, 200, body) \in Answers /\ Sent(a, 200, body).etag = a.etag
    BY <1>0, <2>2, <2>4, SentTyped
  <2> QED BY <1>2, <2>1, <2>2, <2>3, <2>5
<1>5. CASE NotModified
  <2> DEFINE e == Append(answer.etag, ETag(Found))
             d == Append(answer.date, LastModified(Found))
             a == [answer EXCEPT !.etag = e, !.date = d]
  <2>1. e \in Seq(ETags) /\ e # <<>> /\ d \in Seq(Int)
    BY <1>1, <1>2, FoundTyped, AppendTyped DEF Answers
  <2>2. Reply(Sent(a, 304, None))
    BY <1>5 DEF NotModified
  <2> HIDE DEF e, d
  <2>3. a \in Answers /\ a.etag = e
    BY <1>1, <2>1 DEF Answers
  <2> HIDE DEF a
  <2>4. Sent(a, 304, None) \in Answers /\ Sent(a, 304, None).etag = a.etag
    BY <1>0, <1>1, <2>3, SentTyped
  <2> QED BY <1>2, <2>1, <2>2, <2>3, <2>4
<1>6. CASE SendRaw \/ SendGzip \/ SendNormal
  <2>1. WithHeaders \in Answers /\ WithHeaders.etag # <<>>
    BY <1>2, <1>6, HeadersTyped DEF SendRaw, SendGzip, SendNormal, Codings, Fallback
  <2>2. PICK body \in SentBodies : Reply(Sent(WithHeaders, 200, body))
    BY <1>1, <1>3, <1>6 DEF SendRaw, SendGzip, SendNormal
  <2>3. Sent(WithHeaders, 200, body) \in Answers /\ Sent(WithHeaders, 200, body).etag # <<>>
    BY <1>0, <2>1, <2>2, SentTyped
  <2> QED BY <1>2, <2>2, <2>3
<1>7. CASE NormalFails
  <2>1. WithHeaders \in Answers /\ WithHeaders.etag # <<>>
    BY <1>2, <1>7, HeadersTyped DEF NormalFails, Fallback
  <2>2. Unopened(WithHeaders) \in Answers /\ Unopened(WithHeaders).etag # <<>>
    BY <2>1, UnopenedTyped
  <2>3. Reply(Unopened(WithHeaders))
    BY <1>7 DEF NormalFails, Unopened
  <2> QED BY <1>2, <2>2, <2>3
<1> QED BY <1>2, <1>4, <1>5, <1>6, <1>7 DEF SendsReply

LEMMA ReplyKeepsInv ==
    ASSUME NegotiationInv, SendsReply
    PROVE  TypeInv' /\ RequestInv' /\ StageInv'
<1>1. PICK a \in Answers : a.etag # <<>> /\ Reply(a)
  BY ReplyTyped DEF NegotiationInv
<1>2. stage \notin {"idle", "route"} /\ lookup = "found"
  BY ReplyTyped DEF NegotiationInv
<1>3. Kept(a) \in Copies
  BY <1>1, <1>2, KeptTyped DEF NegotiationInv
<1>4. TypeInv'
  BY <1>1, <1>3 DEF Reply, NegotiationInv, TypeInv, Stages
<1>5. RequestInv'
  BY <1>1, <1>2 DEF Reply, EndLookup, indexVars, NegotiationInv, RequestInv, Busy, Indexing
<1>6. StageInv'
  BY <1>1 DEF Reply, StageInv, Codings, Fallback
<1> QED BY <1>4, <1>5, <1>6

LEMMA FinishKeepsInv ==
    ASSUME NegotiationInv, Redirect \/ NotFound
    PROVE  TypeInv' /\ RequestInv' /\ StageInv'
<1>0. 301 \in FinalStatuses /\ 404 \in FinalStatuses
  BY DEF FinalStatuses
<1>1. PICK status \in FinalStatuses : Finish(status)
  BY <1>0 DEF Redirect, NotFound
<1>2. stage = "route" /\ answer \in Answers /\ None \in SentBodies
  BY DEF Redirect, NotFound, NegotiationInv, TypeInv, SentBodies
<1>3. answer' \in Answers
  BY <1>1, <1>2, SentTyped DEF Finish
<1>4. stage' = "idle" /\ UNCHANGED <<archives, arch, lookup, req, copy>>
  BY <1>1 DEF Finish, archiveIndexVars, indexVars, lookupVars
<1>5. TypeInv'
  BY <1>3, <1>4 DEF NegotiationInv, TypeInv, Stages
<1>6. RequestInv'
  BY <1>2, <1>4 DEF NegotiationInv, RequestInv, Busy, Indexing
<1>7. StageInv'
  BY <1>4 DEF StageInv, Codings, Fallback
<1> QED BY <1>5, <1>6, <1>7

LEMMA NoAnswerTyped == NoAnswer \in Answers
<1>1. 0 \in Statuses /\ 200 \in LoggedStatuses /\ None \in SentBodies
  BY DEF Statuses, LoggedStatuses, SentBodies
<1>2. <<>> \in Seq(Codings) /\ <<>> \in Seq(Bodies) /\ <<>> \in Seq(ETags) /\ <<>> \in Seq(Int)
  OBVIOUS
<1> QED BY <1>1, <1>2 DEF NoAnswer, Answers

LEMMA RequestKeepsInv ==
    ASSUME NegotiationInv, FirstRequest \/ AskAgain
    PROVE  TypeInv' /\ RequestInv' /\ StageInv'
<1>1. \E n \in Names, slash \in BOOLEAN, accept \in Accepts :
        \E ifnone \in ETags \union {None}, since \in Int \union {None} :
           Request(n, slash, accept, ifnone, since)
  <2>1. CASE FirstRequest
    BY <2>1 DEF FirstRequest
  <2>2. CASE AskAgain
    <3>1. /\ copy.path \in Names /\ copy.slash \in BOOLEAN
          /\ copy.etag \in ETags /\ copy.date \in Int \union {None}
      BY <2>2 DEF AskAgain, NegotiationInv, TypeInv, Copies
    <3> QED BY <2>2, <3>1 DEF AskAgain
  <2> QED BY <2>1, <2>2
<1>2. PICK n \in Names, slash \in BOOLEAN, accept \in Accepts :
        \E ifnone \in ETags \union {None}, since \in Int \union {None} :
           Request(n, slash, accept, ifnone, since)
  BY <1>1
<1>3. PICK ifnone \in ETags \union {None}, since \in Int \union {None} :
        Request(n, slash, accept, ifnone, since)
  BY <1>2
<1>4. req' \in Requests /\ req'.path \in Names /\ (req'.slash => req'.path \in DOMAIN IndexName)
  BY <1>3, NegotiationAssumption DEF Request, Requests
<1>5. /\ answer' = NoAnswer /\ stage' = "route" /\ ~Indexing /\ lookup = "none"
      /\ UNCHANGED <<archives, arch, lookup, copy>>
  BY <1>3 DEF Request, Ready, archiveIndexVars, indexVars, lookupVars
<1>6. TypeInv'
  BY <1>4, <1>5, NoAnswerTyped DEF NegotiationInv, TypeInv, Stages
<1>7. RequestInv'
  BY <1>4, <1>5 DEF RequestInv, Indexing
<1>8. StageInv'
  BY <1>5 DEF StageInv, Codings, Fallback
<1> QED BY <1>6, <1>7, <1>8

\* Steps that neither begin nor end a request.
Proceeds ==
    FindGzip \/ Negotiate \/ TryVariant \/ NextVariant \/ RawFails \/ PickVariant \/ PickAgain
    \/ WalkIndex

LEMMA ProceedKeepsIndex ==
    Proceeds => /\ UNCHANGED <<archives, methodmap, arch, pos, cur, req, copy>>
                /\ UNCHANGED <<Filename, IsGzip, Indexing>>
<1> SUFFICES ASSUME Proceeds
             PROVE  UNCHANGED <<archives, methodmap, arch, pos, cur, req, copy>>
  BY DEF Filename, IsGzip, Indexing
<1> QED
  BY DEF Proceeds, FindGzip, Negotiate, TryVariant, NextVariant, RawFails, PickVariant, PickAgain,
         WalkIndex, GetIdxStep, FoundHere, NotHere, CallGetIdx, EndLookup, archiveIndexVars, indexVars

LEMMA AfterTyped ==
    ASSUME stage \in Codings
    PROVE  After(stage) \in Codings \union Fallback
BY DEF After, Codings, Fallback

LEMMA ProceedStages ==
    ASSUME NegotiationInv, Proceeds
    PROVE  stage # "idle" /\ stage' \in Stages \ {"idle", "route"}
<1>1. CASE WalkIndex
  <2>1. lookup = "walking" /\ stage' = stage
    BY <1>1 DEF WalkIndex, GetIdxStep, FoundHere, NotHere
  <2> QED BY <2>1 DEF NegotiationInv, RequestInv, TypeInv
<1>2. CASE NextVariant \/ RawFails
  <2>1. stage \in Codings /\ stage' = After(stage)
    BY <1>2 DEF NextVariant, RawFails, Codings
  <2>2. stage' \in Codings \union Fallback
    BY <2>1, AfterTyped
  <2> QED BY <2>1, <2>2 DEF Codings, Fallback, Stages
<1>3. CASE FindGzip \/ Negotiate \/ TryVariant \/ PickVariant \/ PickAgain
  BY <1>3
  DEF FindGzip, Negotiate, TryVariant, PickVariant, PickAgain, Codings, Fallback, Stages
<1> QED BY <1>1, <1>2, <1>3 DEF Proceeds

LEMMA ProceedKeepsInv ==
    ASSUME NegotiationInv, Proceeds
    PROVE  TypeInv' /\ RequestInv' /\ StageInv'
<1>1. UNCHANGED <<archives, methodmap, arch, req, copy, Filename, IsGzip, Indexing>>
  BY ProceedKeepsIndex
<1>2. stage # "idle" /\ stage' \in Stages \ {"idle", "route"}
  BY ProceedStages
<1>3. answer' \in Answers
  <2>1. CASE RawFails
    <3>1. WithHeaders \in Answers /\ stage \in Codings
      BY <2>1, HeadersTyped DEF RawFails, NegotiationInv, Codings
    <3>2. Append(WithHeaders.tried, stage) \in Seq(Codings) /\ 500 \in LoggedStatuses
      BY <3>1, AppendTyped DEF Answers, LoggedStatuses
    <3> QED BY <2>1, <3>1, <3>2 DEF RawFails, Answers
  <2>2. CASE ~RawFails
    <3>1. answer' = answer
      BY <2>2 DEF Proceeds, FindGzip, Negotiate, TryVariant, NextVariant, PickVariant, PickAgain, WalkIndex
    <3> QED BY <3>1 DEF NegotiationInv, TypeInv
  <2> QED BY <2>1, <2>2
<1>4. TypeInv'
  BY <1>1, <1>2, <1>3 DEF NegotiationInv, TypeInv
<1>5. RequestInv'
  BY <1>1, <1>2 DEF NegotiationInv, RequestInv, Busy
<1>6. StageInv'
  <2>1. CASE FindGzip
    BY <1>1, <2>1 DEF FindGzip, CallGetIdx, StageInv, Codings, Fallback
  <2>2. CASE Negotiate
    <3>1. stage' = "br" /\ lookup' = "none"
      BY <2>2 DEF Negotiate, NegotiationInv, RequestInv, archiveIndexVars, lookupVars
    <3> QED BY <3>1 DEF StageInv, Fallback
  <2>3. CASE TryVariant
    <3>1. /\ stage \in Codings /\ stage \in req.accept /\ asked' = <<Filename, MethodOf[stage]>>
          /\ stage' = stage
      BY <2>3 DEF TryVariant, HasVariant, CallGetIdx
    <3> QED BY <1>1, <3>1 DEF StageInv, Codings, Fallback
  <2>4. CASE NextVariant \/ RawFails \/ PickAgain
    <3>1. lookup' = "none"
      BY <2>4 DEF NextVariant, RawFails, PickAgain, EndLookup, archiveIndexVars, lookupVars
    <3>2. stage' # "gzurl"
      BY <2>4, AfterTyped DEF NextVariant, RawFails, PickAgain, Codings, Fallback
    <3> QED BY <3>1, <3>2 DEF StageInv
  <2>5. CASE PickVariant
    BY <1>1, <2>5 DEF PickVariant, CallGetIdx, StageInv, Codings, Fallback
  <2>6. CASE WalkIndex
    <3>1. stage' = stage /\ asked' = asked /\ lookup # "none" /\ lookup' # "none"
      BY <2>6 DEF WalkIndex, GetIdxStep, FoundHere, NotHere
    <3> QED BY <1>1, <3>1 DEF NegotiationInv, StageInv
  <2> QED BY <2>1, <2>2, <2>3, <2>4, <2>5, <2>6 DEF Proceeds
<1> QED BY <1>4, <1>5, <1>6

LEMMA ReloadKeepsInv ==
    ASSUME NegotiationInv, Reload
    PROVE  TypeInv' /\ RequestInv' /\ StageInv'
<1>1. stage = "idle" /\ answer' = NoAnswer /\ UNCHANGED <<stage, req, copy, lookup>>
  BY DEF Reload, IndexStep, AddFile, SkipFile, NextInput, Load, lookupVars
<1>2. answer'.status = 0
  BY <1>1 DEF NoAnswer
<1>3. TypeInv'
  BY <1>1, NoAnswerTyped DEF NegotiationInv, TypeInv
<1>4. RequestInv'
  BY <1>1, <1>2 DEF NegotiationInv, RequestInv, Busy
<1>5. StageInv'
  BY <1>1 DEF StageInv, Codings, Fallback
<1> QED BY <1>3, <1>4, <1>5

LEMMA StepKinds ==
    NegotiationNext <=> \/ FirstRequest \/ AskAgain \/ Redirect \/ NotFound
                        \/ SendsReply \/ Proceeds \/ Reload
BY DEF NegotiationNext, ServeHTTP, SendsReply, Proceeds

LEMMA StutterKeepsInv ==
    ASSUME NegotiationInv, UNCHANGED negotiationVars
    PROVE  TypeInv' /\ RequestInv' /\ StageInv'
BY DEF negotiationVars, archiveIndexVars, indexVars, lookupVars, NegotiationInv, TypeInv, RequestInv,
       StageInv, Busy, Indexing, Filename, IsGzip

LEMMA NegotiationInvStep ==
    NegotiationInv /\ [NegotiationNext]_negotiationVars => NegotiationInv'
BY IndexInvKept, StepKinds, RequestKeepsInv, FinishKeepsInv, ReplyKeepsInv, ProceedKeepsInv,
   ReloadKeepsInv, StutterKeepsInv
DEF NegotiationInv

LEMMA InitNegotiationInv == NegotiationInit => NegotiationInv
<1> SUFFICES ASSUME NegotiationInit PROVE NegotiationInv
  OBVIOUS
<1>1. IndexInv
  BY InitIndexInv DEF NegotiationInit
<1>2. TypeInv
  BY NoAnswerTyped DEF NegotiationInit, TypeInv, Stages, NoRequest, Requests
<1>3. RequestInv /\ StageInv
  BY DEF NegotiationInit, IndexInit, RequestInv, StageInv, Busy, NoAnswer, Codings, Fallback
<1> QED BY <1>1, <1>2, <1>3 DEF NegotiationInv

\* The inductive invariant: the index is complete and stays as it is while a request
\* is under way, and getidx is called for what the stage of ServeHTTP is about.
THEOREM NegotiationInvariant == NegotiationSpec => []NegotiationInv
BY InitNegotiationInv, NegotiationInvStep, PTL DEF NegotiationSpec

\* ServeHTTP calls getidx for entries of the index only, so that it is never given nil
\* while requests and reloads alternate.
THEOREM AnswersStayInside == NegotiationSpec => []WalkStaysInside
BY NegotiationInvariant, IndexInvGives, PTL DEF NegotiationInv

\* Every body ServeHTTP picks is the first file of its name and method.
THEOREM AnswersResolve == NegotiationSpec => []IndexResolves
BY NegotiationInvariant, IndexInvGives, PTL DEF NegotiationInv

---------------------------------------------------------------------------
(* How a request ends.                                                     *)

Ends == Redirect \/ NotFound \/ SendsReply

LEMMA EndKeepsIndex ==
    ASSUME Ends
    PROVE  /\ UNCHANGED <<archives, methodmap, arch, req, Filename, IsGzip, Indexing>>
           /\ \A n : UNCHANGED Variants(n)
<1>1. UNCHANGED <<archives, methodmap, arch, req>>
  BY DEF Ends, Redirect, NotFound, Finish, SendsReply, SendGzipFile, NotModified, SendRaw, SendGzip,
         SendNormal, NormalFails, Reply, EndLookup, archiveIndexVars, indexVars
<1> QED BY <1>1 DEF Filename, IsGzip, Indexing, Variants, FileAt, Positions

\* Only these steps, and steps that change nothing, lead to a state with an answer.
LEMMA AnsweredByEnd ==
    ASSUME NegotiationInv, [NegotiationNext]_negotiationVars, Answered'
    PROVE  Ends \/ UNCHANGED negotiationVars
<1>1. CASE FirstRequest \/ AskAgain
  BY <1>1 DEF FirstRequest, AskAgain, Request, Answered
<1>2. CASE Proceeds
  BY <1>2, ProceedStages DEF Answered
<1>3. CASE Reload
  BY <1>3 DEF Reload, NoAnswer, Answered
<1> QED BY <1>1, <1>2, <1>3, StepKinds DEF Ends

LEMMA AnswerInvStep ==
    NegotiationInv /\ AnswerInv /\ [NegotiationNext]_negotiationVars => AnswerInv'
<1> SUFFICES ASSUME NegotiationInv, AnswerInv, [NegotiationNext]_negotiationVars
             PROVE  AnswerInv'
  OBVIOUS
<1>1. CASE UNCHANGED negotiationVars
  BY <1>1 DEF AnswerInv, negotiationVars
<1>2. CASE FirstRequest \/ AskAgain
  BY <1>2 DEF FirstRequest, AskAgain, Request, AnswerInv, NoAnswer
<1>3. CASE Ends \/ Reload
  BY <1>3
  DEF Ends, Redirect, NotFound, Finish, SendsReply, SendGzipFile, NotModified, SendRaw, SendGzip,
      SendNormal, NormalFails, Reply, Reload, AnswerInv
<1>4. CASE RawFails
  <2>1. WithHeaders \in Answers /\ stage \in Codings /\ WithHeaders.tried \in Seq(Codings)
        /\ WithHeaders.status = 0 /\ WithHeaders.body = None
    BY <1>4, HeadersTyped DEF RawFails, NegotiationInv, Codings, AnswerInv, Answers
  <2>2. Append(WithHeaders.tried, stage) # <<>>
    BY <2>1, AppendTyped
  <2>3. /\ answer'.tried = Append(WithHeaders.tried, stage)
        /\ answer'.status = 0 /\ answer'.body = None
    BY <1>4, <2>1 DEF RawFails, Answers
  <2> QED BY <2>2, <2>3 DEF AnswerInv
<1>5. CASE Proceeds /\ ~RawFails
  <2>1. answer' = answer /\ stage # "idle"
    BY <1>5, ProceedStages
    DEF Proceeds, FindGzip, Negotiate, TryVariant, NextVariant, PickVariant, PickAgain, WalkIndex
  <2> QED BY <2>1 DEF AnswerInv
<1> QED BY <1>1, <1>2, <1>3, <1>4, <1>5, StepKinds DEF Ends

LEMMA InitAnswerInv == NegotiationInit => AnswerInv
BY DEF NegotiationInit, AnswerInv

\* Nothing is sent before the end of ServeHTTP, and headers are there before it only if a
\* variant was abandoned.
THEOREM AnswerInvariant == NegotiationSpec => [](NegotiationInv /\ AnswerInv)
BY InitNegotiationInv, InitAnswerInv, NegotiationInvStep, AnswerInvStep, PTL DEF NegotiationSpec

---------------------------------------------------------------------------
(* The access log.                                                         *)

\* What is sent and noted in one step is what the client gets.
LEMMA EndIsSent ==
    ASSUME NegotiationInv, Ends, ~NormalFails
    PROVE  answer'.logged = answer'.status
<1> DEFINE OK(a) == "status" \in DOMAIN a /\ "logged" \in DOMAIN a
<1>1. OK(answer)
  BY DEF NegotiationInv, TypeInv, Answers
<1>2. ASSUME NEW a, OK(a), NEW status, NEW body, answer' = Sent(a, status, body)
      PROVE  answer'.logged = answer'.status
  BY <1>2 DEF Sent
<1>3. \A e : OK([answer EXCEPT !.etag = e])
  BY <1>1
<1>4. \A e, d : OK([answer EXCEPT !.etag = e, !.date = d])
  BY <1>1
<1>5. OK(WithHeaders)
  BY <1>1 DEF WithHeaders
<1> HIDE DEF OK
<1>6. CASE Redirect \/ NotFound
  BY <1>1, <1>2, <1>6 DEF Redirect, NotFound, Finish
<1>7. CASE SendGzipFile
  BY <1>2, <1>3, <1>7 DEF SendGzipFile, Reply
<1>8. CASE NotModified
  BY <1>2, <1>4, <1>8 DEF NotModified, Reply
<1>9. CASE SendRaw \/ SendGzip \/ SendNormal
  BY <1>2, <1>5, <1>9 DEF SendRaw, SendGzip, SendNormal, Reply
<1> QED BY <1>6, <1>7, <1>8, <1>9 DEF Ends, SendsReply

LEMMA EndStatus ==
    ASSUME NegotiationInv, Ends, ~NotModified
    PROVE  /\ answer'.status # 304
           /\ Redirect \/ NotFound => answer'.status # 200 /\ answer'.body = None
<1> DEFINE OK(a) == "status" \in DOMAIN a /\ "body" \in DOMAIN a
<1>1. OK(answer)
  BY DEF NegotiationInv, TypeInv, Answers
<1>2. ASSUME NEW a, OK(a), NEW status, NEW body, answer' = Sent(a, status, body)
      PROVE  answer'.status = status /\ answer'.body = body
  BY <1>2 DEF Sent
<1>3. \A e : OK([answer EXCEPT !.etag = e])
  BY <1>1
<1>4. OK(WithHeaders)
  BY <1>1 DEF WithHeaders
<1>5. NormalFails => answer'.status = 200
  BY <1>4 DEF NormalFails, Reply
<1> HIDE DEF OK
<1>6. CASE Redirect
  <2>1. answer'.status = 301 /\ answer'.body = None
    BY <1>1, <1>2, <1>6 DEF Redirect, Finish
  <2> QED BY <1>6, <2>1
<1>7. CASE NotFound
  <2>1. answer'.status = 404 /\ answer'.body = None
    BY <1>1, <1>2, <1>7 DEF NotFound, Finish
  <2> QED BY <1>7, <2>1
<1>8. CASE SendsReply
  <2>1. answer'.status = 200
    <3>1. CASE SendGzipFile
      BY <1>2, <1>3, <3>1 DEF SendGzipFile, Reply
    <3>2. CASE SendRaw \/ SendGzip \/ SendNormal
      BY <1>2, <1>4, <3>2 DEF SendRaw, SendGzip, SendNormal, Reply
    <3> QED BY <1>5, <1>8, <3>1, <3>2 DEF SendsReply
  <2>2. ~Redirect /\ ~NotFound
    BY <1>8, ReplyTyped DEF Redirect, NotFound, NegotiationInv
  <2> QED BY <2>1, <2>2
<1> QED BY <1>6, <1>7, <1>8 DEF Ends

LEMMA LoggedStep ==
    /\ NegotiationInv /\ AnswerInv /\ LoggedStatusIsSent
    /\ [NegotiationNext]_negotiationVars
    => LoggedStatusIsSent'
<1> SUFFICES ASSUME NegotiationInv, AnswerInv, LoggedStatusIsSent,
                    [NegotiationNext]_negotiationVars, Answered'
             PROVE  answer'.logged # answer'.status =>
                       answer'.logged = 500 /\ answer'.status = 200 /\ answer'.body = None
  BY DEF LoggedStatusIsSent
<1>1. CASE UNCHANGED negotiationVars
  BY <1>1 DEF LoggedStatusIsSent, Answered, negotiationVars
<1>2. CASE NormalFails
  <2>1. WithHeaders \in Answers /\ WithHeaders.body = None
    BY <1>2, HeadersTyped DEF NormalFails, NegotiationInv, AnswerInv, Fallback
  <2>2. answer' = Unopened(WithHeaders)
    BY <1>2 DEF NormalFails, Reply, Unopened
  <2> QED BY <2>1, <2>2, UnopenedTyped
<1>3. CASE Ends /\ ~NormalFails
  BY <1>3, EndIsSent
<1> QED BY <1>1, <1>2, <1>3, AnsweredByEnd

LEMMA InitLogged == NegotiationInit => LoggedStatusIsSent
BY DEF NegotiationInit, LoggedStatusIsSent, Answered, NoAnswer

\* The access log has the status that the client got, but for a last variant that
\* cannot be opened, whatever variants were tried before.
THEOREM LogIsTrue == NegotiationSpec => []LoggedStatusIsSent
<1>1. NegotiationInit => NegotiationInv /\ AnswerInv /\ LoggedStatusIsSent
  BY InitNegotiationInv, InitAnswerInv, InitLogged
<1>2. NegotiationInv /\ AnswerInv /\ LoggedStatusIsSent /\ [NegotiationNext]_negotiationVars
      => (NegotiationInv /\ AnswerInv /\ LoggedStatusIsSent)'
  BY NegotiationInvStep, AnswerInvStep, LoggedStep
<1> QED BY <1>1, <1>2, PTL DEF NegotiationSpec

LEMMA TypeInvGives == NegotiationInv => NegotiationTypeOK
<1> SUFFICES ASSUME NegotiationInv PROVE NegotiationTypeOK
  OBVIOUS
<1>1. stage \in Stages /\ req \in Requests /\ answer \in Answers
  BY DEF NegotiationInv, TypeInv
<1>2. answer.body = None \/ answer.body.form \in {"raw", "gzip", "plain"}
  BY <1>1 DEF Answers, SentBodies, Bodies
<1>3. /\ answer.status \in {0, 200, 301, 304, 404} /\ answer.logged \in {200, 301, 304, 404, 500}
      /\ answer.coding \in Seq(Codings) /\ answer.tried \in Seq(Codings)
  BY <1>1 DEF Answers, Statuses, LoggedStatuses
<1>4. req.path \in Names \union {None} /\ req.accept \subseteq Codings
  BY <1>1 DEF Requests
<1> QED
  BY <1>1, <1>2, <1>3, <1>4 DEF NegotiationTypeOK, NegotiationInv, RequestInv, Stages, Fallback

\* Type correctness of requests and answers.
THEOREM NegotiationTypes == NegotiationSpec => []NegotiationTypeOK
BY NegotiationInvariant, TypeInvGives, PTL

---------------------------------------------------------------------------
(* The variants of a name and the index.                                   *)

LEMMA FoundIsVariant ==
    ASSUME NegotiationInv, lookup = "found"
    PROVE  Found \in Variants(asked[1]) /\ Found.method = asked[2]
<1>1. /\ at \in DOMAIN archives /\ rest + 1 \in DOMAIN archives[at]
      /\ at \in Nat /\ rest + 1 \in Nat
  BY FoundTyped DEF NegotiationInv
<1>2. IndexResolves
  BY IndexInvGives DEF NegotiationInv
<1> DEFINE p == <<at, rest + 1>>
<1>3. p \in Positions
  BY <1>1 DEF Positions
<1>4. FileAt(p) = Found
  BY DEF FileAt, Found
<1>5. Serves(Found, asked[1], asked[2]) /\ Found.method = asked[2]
  BY <1>2 DEF IndexResolves, Serves
<1>6. ASSUME NEW o \in Positions, Earlier(o[1], o[2], at, rest + 1)
      PROVE  ~Serves(FileAt(o), asked[1], asked[2])
  <2>1. o[1] \in DOMAIN archives /\ o[2] \in DOMAIN archives[o[1]]
    BY DEF Positions
  <2> QED BY <1>2, <1>6, <2>1 DEF IndexResolves, FileAt
<1>7. /\ Serves(FileAt(p), asked[1], FileAt(p).method)
      /\ \A o \in Positions : Earlier(o[1], o[2], p[1], p[2])
            => ~Serves(FileAt(o), asked[1], FileAt(p).method)
  BY <1>4, <1>5, <1>6
<1> HIDE DEF p
<1> QED BY <1>3, <1>4, <1>5, <1>7 DEF Variants

LEMMA VariantIsStored ==
    ASSUME NegotiationInv, ~Indexing, NEW n \in Names, NEW v \in Variants(n)
    PROVE  v.method \in Stored(n)
<1>1. PICK p \in Positions : v = FileAt(p) /\ Serves(FileAt(p), n, v.method)
  BY DEF Variants
<1>2. p[1] \in DOMAIN archives /\ p[2] \in DOMAIN archives[p[1]]
  BY DEF Positions
<1>3. IndexTypeOK /\ archives \in Seq(Seq(Files)) /\ arch = Len(archives) + 1
  BY DEF NegotiationInv, IndexInv, IndexTypeOK, Indexing
<1>4. v \in Files
  BY <1>1, <1>2, <1>3 DEF FileAt
<1>5. v.method \in Methods
  BY <1>4, IndexAssumption
<1>6. PICK b : MapInv(b)
  BY DEF NegotiationInv, IndexInv, NumberInv
<1>7. EntryOK(archives, arch, pos, b, n, v.method, methodmap[n][v.method])
  BY <1>5, <1>6 DEF MapInv
<1>8. Earlier(p[1], p[2], arch, pos)
  BY <1>2, <1>3 DEF Earlier
<1>9. methodmap[n][v.method] # Absent
  BY <1>1, <1>2, <1>7, <1>8 DEF EntryOK, FileAt
<1> QED BY <1>5, <1>9 DEF Stored

---------------------------------------------------------------------------
(* A copy that is still good.                                              *)

\* A body is sent from a variant of the name asked for.
LEMMA SentIsVariant ==
    ASSUME NegotiationInv, NotModified \/ SendRaw \/ SendGzip \/ SendNormal \/ NormalFails
    PROVE  Found \in Variants(Filename)
<1>1. lookup = "found" /\ (stage \in Codings \/ stage \in Fallback)
  BY DEF NotModified, SendRaw, SendGzip, SendNormal, NormalFails, Codings, Fallback
<1>2. asked[1] = Filename
  BY <1>1 DEF NegotiationInv, StageInv
<1> QED BY <1>1, <1>2, FoundIsVariant

LEMMA NotModifiedStatus ==
    ASSUME NegotiationInv, NotModified
    PROVE  answer'.status = 304 /\ answer'.body = None
<1>1. {"status", "body"} \subseteq DOMAIN answer
  BY DEF NegotiationInv, TypeInv, Answers
<1>2. ASSUME NEW e, NEW d, NEW a, a = [answer EXCEPT !.etag = e, !.date = d],
             answer' = Sent(a, 304, None)
      PROVE  answer'.status = 304 /\ answer'.body = None
  <2>1. DOMAIN a = DOMAIN answer
    BY <1>2
  <2> QED BY <1>1, <1>2, <2>1 DEF Sent
<1> QED BY <1>2 DEF NotModified, Reply

LEMMA RevalidatesStep ==
    /\ NegotiationInv /\ AnswerInv /\ RevalidatesByETag
    /\ [NegotiationNext]_negotiationVars
    => RevalidatesByETag'
<1> SUFFICES ASSUME NegotiationInv, RevalidatesByETag, [NegotiationNext]_negotiationVars,
                    Answered'
             PROVE  RevalidatesByETag'
  BY DEF RevalidatesByETag
<1>1. CASE UNCHANGED negotiationVars
  BY <1>1
  DEF RevalidatesByETag, Answered, Filename, IsGzip, Variants, FileAt, Positions, negotiationVars,
      archiveIndexVars, indexVars
<1>2. CASE Ends
  <2>1. UNCHANGED <<req, Filename, IsGzip, Indexing, Variants(Filename)>>
    BY <1>2, EndKeepsIndex DEF Variants, FileAt, Positions
  <2> SUFFICES ASSUME req.ifnone # None, ~IsGzip, Variants(Filename) # {},
                      \A v \in Variants(Filename) : v.crc = req.ifnone.crc /\ ~req.ifnone.gz
               PROVE  answer'.status = 304
    BY <2>1 DEF RevalidatesByETag
  <2>2. stage # "idle"
    BY <1>2, ReplyTyped DEF Ends, Redirect, NotFound, NegotiationInv
  <2>3. ~(Redirect \/ NotFound)
    <3>1. Filename \in Names /\ ~Indexing
      BY <2>2, FilenameTyped DEF NegotiationInv, RequestInv, Busy
    <3>2. Exists(Filename)
      BY <3>1, VariantIsStored DEF Exists
    <3> QED BY <3>2 DEF Redirect, NotFound, Redirected
  <2>4. ~SendGzipFile
    BY DEF SendGzipFile, NegotiationInv, StageInv
  <2>5. ~(SendRaw \/ SendGzip \/ SendNormal \/ NormalFails)
    <3> SUFFICES ASSUME SendRaw \/ SendGzip \/ SendNormal \/ NormalFails
                 PROVE  FALSE
      OBVIOUS
    <3>1. Found.crc = req.ifnone.crc /\ ~req.ifnone.gz
      BY SentIsVariant
    <3>2. req.ifnone \in ETags
      BY DEF NegotiationInv, TypeInv, Requests
    <3>3. req.ifnone = ETag(Found)
      BY <3>1, <3>2 DEF ETags, ETag
    <3> QED BY <3>3 DEF SendRaw, SendGzip, SendNormal, NormalFails, Conditional
  <2>6. NotModified
    BY <1>2, <2>3, <2>4, <2>5 DEF Ends, SendsReply
  <2> QED BY <2>6, NotModifiedStatus
<1> QED BY <1>1, <1>2, AnsweredByEnd

LEMMA InitRevalidates == NegotiationInit => RevalidatesByETag
BY DEF NegotiationInit, RevalidatesByETag, Answered, NoAnswer

\* The ETag of a copy is enough, for all archives: whichever of the variants of one
\* content the handler finds, in whatever coding, the answer is 304.
THEOREM ETagRevalidates == NegotiationSpec => []RevalidatesByETag
<1>1. NegotiationInit => NegotiationInv /\ AnswerInv /\ RevalidatesByETag
  BY InitNegotiationInv, InitAnswerInv, InitRevalidates
<1>2. NegotiationInv /\ AnswerInv /\ RevalidatesByETag /\ [NegotiationNext]_negotiationVars
      => (NegotiationInv /\ AnswerInv /\ RevalidatesByETag)'
  BY NegotiationInvStep, AnswerInvStep, RevalidatesStep
<1> QED BY <1>1, <1>2, PTL DEF NegotiationSpec

---------------------------------------------------------------------------
(* What a first try adds to the answer, and what the client keeps of it.   *)

LEMMA CleanHeaders ==
    ASSUME NegotiationInv, AnswerInv, stage # "idle", answer.tried = <<>>
    PROVE  /\ WithHeaders.etag = <<ETag(Found)>>
           /\ WithHeaders.length = <<Body(Form(stage))>>
           /\ WithHeaders.coding = IF stage \in Codings THEN <<stage>> ELSE <<>>
<1>1. answer = NoAnswer
  BY DEF AnswerInv
<1>2. \A x : Append(<<>>, x) = <<x>>
  OBVIOUS
<1> QED BY <1>1, <1>2 DEF WithHeaders, NoAnswer

\* The ETag of a copy is that of its content, unless a variant was abandoned; a
\* request has its conditions from the copy.
CopyInv ==
    /\ copy # None /\ copy.tried = <<>> => copy.etag.crc = copy.crc
    /\ stage # "idle" /\ (req.ifnone # None \/ req.since # None) =>
          /\ copy # None
          /\ req.ifnone \in {None, copy.etag} /\ req.since \in {None, copy.date}

LEMMA CopyInvStep ==
    NegotiationInv /\ AnswerInv /\ CopyInv /\ [NegotiationNext]_negotiationVars => CopyInv'
<1> SUFFICES ASSUME NegotiationInv, AnswerInv, CopyInv, [NegotiationNext]_negotiationVars
             PROVE  CopyInv'
  OBVIOUS
<1>1. CASE UNCHANGED negotiationVars
  BY <1>1 DEF CopyInv, negotiationVars
<1>2. CASE FirstRequest \/ AskAgain
  BY <1>2 DEF FirstRequest, AskAgain, Request, CopyInv
<1>3. CASE Redirect \/ NotFound \/ Reload
  BY <1>3 DEF Redirect, NotFound, Finish, Reload, CopyInv
<1>4. CASE Proceeds
  BY <1>4, ProceedStages, ProceedKeepsIndex DEF CopyInv
<1>5. CASE SendsReply /\ copy' = copy
  BY <1>5
  DEF SendsReply, SendGzipFile, NotModified, SendRaw, SendGzip, SendNormal, NormalFails, Reply, CopyInv
<1>6. CASE SendsReply /\ copy' # copy
  <2>1. stage # "idle" /\ stage' = "idle"
    BY <1>6, ReplyTyped DEF Reply, NegotiationInv
  <2>2. ~NotModified
    <3> SUFFICES ASSUME NotModified PROVE FALSE
      OBVIOUS
    <3>1. answer'.status = 304
      BY NotModifiedStatus
    <3> QED BY <1>6, <3>1 DEF NotModified, Reply
  <2>3. ~NormalFails
    <3> SUFFICES ASSUME NormalFails PROVE FALSE
      OBVIOUS
    <3>1. WithHeaders \in Answers /\ WithHeaders.body = None
      BY HeadersTyped DEF NormalFails, NegotiationInv, AnswerInv, Fallback
    <3>2. Reply(Unopened(WithHeaders))
      BY DEF NormalFails, Unopened
    <3>3. Unopened(WithHeaders).body = None
      BY <3>1, UnopenedTyped
    <3> QED BY <1>6, <3>2, <3>3 DEF Reply
  <2>4. CASE SendGzipFile
    <3>1. \E a : /\ copy' = Kept(a) /\ Head(a.etag).crc = Found.crc
      <4> DEFINE e == [ETag(Found) EXCEPT !.gz = TRUE]
      <4>1. e.crc = Found.crc
        BY DEF ETag
      <4>2. PICK body : Reply(Sent([answer EXCEPT !.etag = <<e>>], 200, body))
        BY <2>4 DEF SendGzipFile
      <4> HIDE DEF e
      <4> DEFINE a == Sent([answer EXCEPT !.etag = <<e>>], 200, body)
      <4>3. "etag" \in DOMAIN answer
        BY DEF NegotiationInv, TypeInv, Answers
      <4>4. a.etag = <<e>>
        BY <4>3 DEF Sent
      <4>5. copy' = Kept(a)
        BY <1>6, <4>2 DEF Reply
      <4> HIDE DEF a
      <4>6. Head(a.etag) = e
        BY <4>4
      <4> QED BY <4>1, <4>5, <4>6
    <3> QED BY <2>1, <3>1 DEF Kept, CopyInv
  <2>5. CASE SendRaw \/ SendGzip \/ SendNormal
    <3>1. WithHeaders \in Answers /\ WithHeaders.tried = answer.tried
      BY <2>5, HeadersTyped DEF SendRaw, SendGzip, SendNormal, NegotiationInv, Codings, Fallback
    <3>2. PICK body \in SentBodies : Reply(Sent(WithHeaders, 200, body))
      <4>1. \A form \in {"raw", "gzip", "plain"} : Body(form) \in SentBodies
        BY <2>5, BodyTyped DEF SentBodies, SendRaw, SendGzip, SendNormal, NegotiationInv
      <4> QED BY <2>5, <4>1 DEF SendRaw, SendGzip, SendNormal, SentBodies
    <3>3. 200 \in FinalStatuses
      BY DEF FinalStatuses
    <3> DEFINE a == Sent(WithHeaders, 200, body)
    <3>4. a.etag = WithHeaders.etag /\ a.tried = answer.tried
      BY <3>1, <3>2, <3>3, SentTyped
    <3>5. copy' = Kept(a)
      BY <1>6, <3>2 DEF Reply
    <3> HIDE DEF a
    <3>6. copy'.tried = answer.tried /\ copy'.etag = Head(WithHeaders.etag) /\ copy'.crc = Found.crc
      BY <3>4, <3>5 DEF Kept
    <3>7. answer.tried = <<>> => copy'.etag.crc = Found.crc
      BY <2>1, <3>6, CleanHeaders DEF ETag
    <3> QED BY <2>1, <3>6, <3>7 DEF CopyInv
  <2> QED BY <1>6, <2>2, <2>3, <2>4, <2>5 DEF SendsReply
<1> QED BY <1>1, <1>2, <1>3, <1>4, <1>5, <1>6, StepKinds

LEMMA TrueStep ==
    /\ NegotiationInv /\ AnswerInv /\ CopyInv /\ NotModifiedIsTrue
    /\ [NegotiationNext]_negotiationVars
    => NotModifiedIsTrue'
<1> SUFFICES ASSUME NegotiationInv, AnswerInv, CopyInv, NotModifiedIsTrue,
                    [NegotiationNext]_negotiationVars, Answered', answer'.status = 304
             PROVE  NotModifiedIsTrue'
  BY DEF NotModifiedIsTrue
<1>1. CASE UNCHANGED negotiationVars
  BY <1>1
  DEF NotModifiedIsTrue, Answered, Filename, Variants, FileAt, Positions, negotiationVars,
      archiveIndexVars, indexVars
<1>2. CASE NotModified
  <2>1. UNCHANGED <<req, Filename, Variants(Filename)>>
    BY <1>2, EndKeepsIndex DEF Ends, SendsReply, Variants, FileAt, Positions
  <2>2. copy' = copy
    BY <1>2, NotModifiedStatus DEF NotModified, Reply
  <2>3. Found \in Variants(Filename) /\ ETag(Found) \in ETags /\ stage # "idle"
    BY <1>2, SentIsVariant, FoundTyped DEF NotModified, NegotiationInv, Codings
  <2>4. None \notin ETags
    BY NegotiationAssumption DEF ETags
  <2>5. CASE req.ifnone = ETag(Found)
    <3>1. copy # None /\ copy.etag = ETag(Found)
      BY <2>3, <2>4, <2>5 DEF CopyInv
    <3>2. copy.tried = <<>> => Found.crc = copy.crc
      BY <3>1 DEF CopyInv, ETag
    <3> QED BY <2>1, <2>2, <2>3, <3>2 DEF NotModifiedIsTrue
  <2>6. CASE req.ifnone = None /\ req.since # None /\ Found.time <= req.since
    <3>1. req.since = copy.date
      BY <2>3, <2>6 DEF CopyInv
    <3> QED BY <2>1, <2>2, <2>3, <2>6, <3>1 DEF NotModifiedIsTrue
  <2> QED BY <1>2, <2>5, <2>6 DEF NotModified, Conditional
<1>3. CASE Ends /\ ~NotModified
  BY <1>3, EndStatus
<1> QED BY <1>1, <1>2, <1>3, AnsweredByEnd

LEMMA InitCopyInv == NegotiationInit => CopyInv /\ NotModifiedIsTrue
BY DEF NegotiationInit, CopyInv, NotModifiedIsTrue, Answered, NoAnswer

\* A client is told 304 only when its copy is of a current variant, its date alone
\* says so, or its copy came under the ETag of an abandoned variant; loads of any
\* archives may lie between its requests.
THEOREM NotModifiedHolds == NegotiationSpec => []NotModifiedIsTrue
<1> DEFINE Inv == NegotiationInv /\ AnswerInv /\ CopyInv /\ NotModifiedIsTrue
<1>1. NegotiationInit => Inv
  BY InitNegotiationInv, InitAnswerInv, InitCopyInv
<1>2. Inv /\ [NegotiationNext]_negotiationVars => Inv'
  BY NegotiationInvStep, AnswerInvStep, CopyInvStep, TrueStep
<1> QED BY <1>1, <1>2, PTL DEF NegotiationSpec

---------------------------------------------------------------------------
(* The headers and the body.                                               *)

LEMMA BodyIsFound ==
    ASSUME NEW form
    PROVE  archives[Body(form).of[1]][Body(form).of[2]] = Found /\ Body(form).form = form
BY DEF Body, Found

\* What SendRaw, SendGzip and SendNormal send, when no variant was abandoned before.
LEMMA SentAnswer ==
    ASSUME NegotiationInv, AnswerInv, SendRaw \/ SendGzip \/ SendNormal
    PROVE  \E body \in {Body(Form(stage)), None} :
              /\ answer' = Sent(WithHeaders, 200, body)
              /\ answer'.tried = answer.tried /\ answer'.body = body /\ answer'.status = 200
              /\ answer'.coding = WithHeaders.coding
              /\ answer.tried = <<>> =>
                    /\ answer'.etag = <<ETag(Found)>>
                    /\ answer'.length = <<Body(Form(stage))>>
                    /\ answer'.coding = IF stage \in Codings THEN <<stage>> ELSE <<>>
<1>1. WithHeaders \in Answers /\ WithHeaders.tried = answer.tried /\ stage # "idle"
  BY HeadersTyped DEF SendRaw, SendGzip, SendNormal, NegotiationInv, Codings, Fallback
<1>2. PICK body \in {Body(Form(stage)), None} : answer' = Sent(WithHeaders, 200, body)
  BY DEF SendRaw, SendGzip, SendNormal, Form, Reply
<1>3. body \in SentBodies
  <2>1. \A form \in {"raw", "gzip", "plain"} : Body(form) \in SentBodies
    BY BodyTyped DEF SentBodies, SendRaw, SendGzip, SendNormal, NegotiationInv
  <2> QED BY <2>1 DEF Form, SentBodies
<1>4. 200 \in FinalStatuses
  BY DEF FinalStatuses
<1>5. /\ Sent(WithHeaders, 200, body).tried = answer.tried
      /\ Sent(WithHeaders, 200, body).body = body
      /\ Sent(WithHeaders, 200, body).status = 200
      /\ Sent(WithHeaders, 200, body).etag = WithHeaders.etag
      /\ Sent(WithHeaders, 200, body).length = WithHeaders.length
      /\ Sent(WithHeaders, 200, body).coding = WithHeaders.coding
  BY <1>1, <1>3, <1>4, SentTyped
<1> QED BY <1>1, <1>2, <1>5, CleanHeaders

LEMMA HeadersStep ==
    /\ NegotiationInv /\ AnswerInv /\ HeadersDescribeBody
    /\ [NegotiationNext]_negotiationVars
    => HeadersDescribeBody'
<1> SUFFICES ASSUME NegotiationInv, AnswerInv, HeadersDescribeBody,
                    [NegotiationNext]_negotiationVars,
                    Answered', answer'.body # None, answer'.tried = <<>>
             PROVE  HeadersDescribeBody'
  BY DEF HeadersDescribeBody
<1>1. CASE UNCHANGED negotiationVars
  BY <1>1
  DEF HeadersDescribeBody, Answered, FileAt, negotiationVars, archiveIndexVars, indexVars
<1>2. CASE Ends
  <2>1. archives' = archives
    BY <1>2, EndKeepsIndex
  <2>2. ~(Redirect \/ NotFound \/ NotModified)
    BY EndStatus, NotModifiedStatus DEF Ends, Redirect, NotFound, NotModified
  <2>3. ~NormalFails
    <3> SUFFICES ASSUME NormalFails PROVE FALSE
      OBVIOUS
    <3>1. WithHeaders \in Answers /\ WithHeaders.body = None
      BY HeadersTyped DEF NormalFails, NegotiationInv, AnswerInv, Fallback
    <3>2. answer' = Unopened(WithHeaders)
      BY DEF NormalFails, Reply, Unopened
    <3> QED BY <3>1, <3>2, UnopenedTyped
  <2>4. CASE SendGzipFile
    <3> DEFINE e == [ETag(Found) EXCEPT !.gz = TRUE]
    <3>1. e = [crc |-> Found.crc, gz |-> TRUE]
      <4>1. e.crc = Found.crc /\ e.gz = TRUE
        BY DEF ETag
      <4>2. e \in ETags
        BY <2>4, FoundTyped DEF NegotiationInv, SendGzipFile
      <4> HIDE DEF e
      <4> QED BY <4>1, <4>2 DEF ETags
    <3>2. PICK body \in {Body("gzip"), None} :
            answer' = Sent([answer EXCEPT !.etag = <<e>>], 200, body)
      BY <2>4 DEF SendGzipFile, Reply
    <3> HIDE DEF e
    <3>3. {"status", "logged", "coding", "length", "etag", "body", "tried"} \subseteq DOMAIN answer
      BY DEF NegotiationInv, TypeInv, Answers
    <3>4. /\ answer'.etag = <<e>> /\ answer'.body = body /\ answer'.coding = answer.coding
          /\ answer'.length = answer.length /\ answer'.tried = answer.tried
      BY <3>2, <3>3 DEF Sent
    <3>5. answer = NoAnswer
      BY <2>4, <3>4 DEF AnswerInv, SendGzipFile
    <3>6. answer'.coding = <<>> /\ answer'.length = <<>> /\ answer'.body = Body("gzip")
      BY <3>2, <3>4, <3>5 DEF NoAnswer
    <3>7. FileAt(answer.body.of)' = Found /\ answer'.body.form = "gzip"
      BY <2>1, <3>6, BodyIsFound DEF FileAt
    <3>8. Head(answer'.etag) = e /\ e.gz
      BY <3>1, <3>4
    <3>9. answer'.etag \in {<<[crc |-> Found.crc, gz |-> z]>> : z \in BOOLEAN}
      BY <3>1, <3>4
    <3> QED BY <3>6, <3>7, <3>8, <3>9 DEF HeadersDescribeBody
  <2>5. CASE SendRaw \/ SendGzip \/ SendNormal
    <3>1. /\ answer'.body = Body(Form(stage)) /\ answer'.etag = <<ETag(Found)>>
          /\ answer'.length = <<Body(Form(stage))>>
          /\ answer'.coding = IF stage \in Codings THEN <<stage>> ELSE <<>>
      BY <2>5, SentAnswer
    <3>2. FileAt(answer.body.of)' = Found /\ answer'.body.form = Form(stage)
      BY <2>1, <3>1, BodyIsFound DEF FileAt
    <3>3. answer'.etag \in {<<[crc |-> Found.crc, gz |-> z]>> : z \in BOOLEAN}
      BY <3>1 DEF ETag
    <3>4. Head(answer'.etag) = ETag(Found) /\ ~ETag(Found).gz
      BY <3>1 DEF ETag
    <3>5. <<Body(Form(stage))>> # <<>>
      OBVIOUS
    <3>6. CASE SendRaw
      <4>1. stage \in Codings \ {"gzip"} /\ Form(stage) = "raw" /\ lookup = "found"
        BY <3>6 DEF SendRaw, Codings, Form
      <4>2. Found.method = MethodOf[stage]
        BY <4>1, FoundIsVariant DEF NegotiationInv, StageInv
      <4> QED BY <3>1, <3>2, <3>3, <3>5, <4>1, <4>2 DEF HeadersDescribeBody
    <3>7. CASE SendGzip
      <4>1. stage = "gzip" /\ stage \in Codings /\ Form(stage) = "gzip"
        BY <3>7 DEF SendGzip, Codings, Form
      <4> QED BY <3>1, <3>2, <3>3, <3>4, <3>5, <4>1 DEF HeadersDescribeBody
    <3>8. CASE SendNormal
      <4>1. stage \notin Codings /\ Form(stage) = "plain"
        BY <3>8 DEF SendNormal, Codings, Form
      <4> QED BY <3>1, <3>2, <3>3, <3>5, <4>1 DEF HeadersDescribeBody
    <3> QED BY <2>5, <3>6, <3>7, <3>8
  <2> QED BY <1>2, <2>2, <2>3, <2>4, <2>5 DEF Ends, SendsReply
<1> QED BY <1>1, <1>2, AnsweredByEnd

LEMMA InitHeaders == NegotiationInit => HeadersDescribeBody
BY DEF NegotiationInit, HeadersDescribeBody, Answered, NoAnswer

\* The length, the coding and the ETag are those of the bytes, for any archives and
\* any request, unless a variant that could not be opened has left its own behind.
THEOREM HeadersHold == NegotiationSpec => []HeadersDescribeBody
<1>1. NegotiationInit => NegotiationInv /\ AnswerInv /\ HeadersDescribeBody
  BY InitNegotiationInv, InitAnswerInv, InitHeaders
<1>2. NegotiationInv /\ AnswerInv /\ HeadersDescribeBody /\ [NegotiationNext]_negotiationVars
      => (NegotiationInv /\ AnswerInv /\ HeadersDescribeBody)'
  BY NegotiationInvStep, AnswerInvStep, HeadersStep
<1> QED BY <1>1, <1>2, PTL DEF NegotiationSpec

---------------------------------------------------------------------------
(* The variants that have been passed over.                                *)

CodingsNamed(a) == \A i \in DOMAIN a.coding : a.coding[i] \in req.accept

\* A coding the client names is not stored, or could not be opened.
PassedOver(c) ==
    c \in req.accept => \/ MethodOf[c] \notin Stored(Filename)
                        \/ \E i \in DOMAIN answer.tried : answer.tried[i] = c

PassedInv ==
    /\ stage # "idle" => CodingsNamed(answer)
    /\ stage \in {"zstd", "gzip", "deflate"} \union Fallback => PassedOver("br")
    /\ stage \in {"gzip", "deflate"} \union Fallback => PassedOver("zstd")
    /\ stage = "gzip" => "gzip" \in req.accept
    /\ stage = "deflate" => "gzip" \notin req.accept
    /\ stage \in Fallback => PassedOver("gzip") /\ PassedOver("deflate")

LEMMA CodingAdded ==
    ASSUME NegotiationInv, CodingsNamed(answer), stage \in req.accept \/ stage \notin Codings
    PROVE  CodingsNamed(WithHeaders)
<1>1. answer \in Answers /\ answer.coding \in Seq(Codings)
  BY DEF NegotiationInv, TypeInv, Answers
<1>2. WithHeaders.coding = IF stage \in Codings THEN Append(answer.coding, stage) ELSE answer.coding
  BY <1>1 DEF WithHeaders, Answers
<1>3. CASE stage \notin Codings
  BY <1>2, <1>3 DEF CodingsNamed
<1>4. CASE stage \in Codings /\ stage \in req.accept
  <2>1. \A i \in DOMAIN Append(answer.coding, stage) :
          \/ i \in DOMAIN answer.coding /\ Append(answer.coding, stage)[i] = answer.coding[i]
          \/ Append(answer.coding, stage)[i] = stage
    BY <1>1
  <2> QED BY <1>2, <1>4, <2>1 DEF CodingsNamed
<1> QED BY <1>3, <1>4

\* The steps along the variants.
LEMMA AfterPassed ==
    ASSUME PassedInv, NEW s \in Codings, s = stage, PassedOver(s)', stage' = After(s),
           UNCHANGED <<req, Filename, methodmap>>,
           \A c \in Codings : PassedOver(c) => PassedOver(c)',
           s = "gzip" => PassedOver("deflate")', CodingsNamed(answer)'
    PROVE  PassedInv'
<1> USE DEF After, Codings, Fallback
<1>1. CASE s = "br"
  BY <1>1 DEF PassedInv
<1>2. CASE s = "zstd"
  BY <1>2 DEF PassedInv
<1>3. CASE s = "gzip"
  BY <1>3 DEF PassedInv
<1>4. CASE s = "deflate"
  <2>1. PassedOver("gzip")'
    BY <1>4 DEF PassedOver, PassedInv
  <2> QED BY <1>4, <2>1 DEF PassedInv
<1> QED BY <1>1, <1>2, <1>3, <1>4

LEMMA PassedInvStep ==
    /\ NegotiationInv /\ AnswerInv /\ PassedInv
    /\ [NegotiationNext]_negotiationVars
    => PassedInv'
<1> SUFFICES ASSUME NegotiationInv, AnswerInv, PassedInv, [NegotiationNext]_negotiationVars
             PROVE  PassedInv'
  OBVIOUS
<1>1. CASE UNCHANGED negotiationVars
  BY <1>1
  DEF PassedInv, PassedOver, CodingsNamed, Stored, Filename, negotiationVars, archiveIndexVars, indexVars
<1>2. CASE FirstRequest \/ AskAgain
  BY <1>2 DEF FirstRequest, AskAgain, Request, PassedInv, CodingsNamed, NoAnswer, Fallback
<1>3. CASE Ends \/ Reload
  <2>1. stage' = "idle"
    BY <1>3
    DEF Ends, Redirect, NotFound, Finish, SendsReply, SendGzipFile, NotModified, SendRaw, SendGzip,
        SendNormal, NormalFails, Reply, Reload
  <2> QED BY <2>1 DEF PassedInv, Fallback
<1>4. CASE FindGzip \/ Negotiate
  BY <1>4, ProceedKeepsIndex DEF Proceeds, FindGzip, Negotiate, PassedInv, CodingsNamed, Fallback
<1>5. CASE TryVariant \/ PickVariant \/ WalkIndex \/ PickAgain
  <2>1. UNCHANGED <<req, answer, methodmap, Filename>> /\ stage # "idle"
    BY <1>5, ProceedKeepsIndex, ProceedStages
    DEF Proceeds, TryVariant, PickVariant, WalkIndex, PickAgain
  <2>2. stage' = stage \/ (stage = "fallback" /\ stage' = "plain")
    BY <1>5 DEF TryVariant, PickVariant, WalkIndex, PickAgain
  <2> QED BY <2>1, <2>2 DEF PassedInv, PassedOver, CodingsNamed, Stored, Fallback
<1>6. CASE NextVariant
  <2>1. /\ UNCHANGED <<req, answer, methodmap, Filename>>
        /\ stage \in Codings /\ stage' = After(stage) /\ ~HasVariant
    BY <1>6, ProceedKeepsIndex DEF Proceeds, NextVariant
  <2>2. PICK s \in Codings : s = stage
    BY <2>1
  <2>3. PassedOver(s)'
    BY <2>1, <2>2 DEF PassedOver, HasVariant, Stored
  <2>4. \A c \in Codings : PassedOver(c) => PassedOver(c)'
    BY <2>1 DEF PassedOver, Stored
  <2>5. s = "gzip" => PassedOver("deflate")'
    BY <2>1, <2>2 DEF PassedOver, HasVariant, Stored, MethodOf, PassedInv
  <2>6. CodingsNamed(answer)'
    BY <2>1 DEF PassedInv, CodingsNamed, Codings
  <2> QED BY <2>1, <2>2, <2>3, <2>4, <2>5, <2>6, AfterPassed
<1>7. CASE RawFails
  <2>1. /\ UNCHANGED <<req, methodmap, Filename>>
        /\ stage \in Codings \ {"gzip"} /\ stage' = After(stage) /\ lookup = "found"
    BY <1>7, ProceedKeepsIndex DEF Proceeds, RawFails, Codings
  <2>2. PICK s \in Codings : s = stage /\ s # "gzip"
    BY <2>1
  <2>3. WithHeaders \in Answers /\ WithHeaders.tried = answer.tried /\ answer.tried \in Seq(Codings)
    BY <2>1, HeadersTyped DEF NegotiationInv, TypeInv, Answers
  <2>4. answer'.tried = Append(answer.tried, s) /\ answer'.coding = WithHeaders.coding
    BY <1>7, <2>2, <2>3 DEF RawFails, Answers
  <2>5. /\ \E i \in DOMAIN answer'.tried : answer'.tried[i] = s
        /\ \A i \in DOMAIN answer.tried : i \in DOMAIN answer'.tried /\ answer'.tried[i] = answer.tried[i]
    <3>1. Len(answer.tried) + 1 \in DOMAIN Append(answer.tried, s)
          /\ Append(answer.tried, s)[Len(answer.tried) + 1] = s
      BY <2>3
    <3>2. \A i \in DOMAIN answer.tried :
            i \in DOMAIN Append(answer.tried, s) /\ Append(answer.tried, s)[i] = answer.tried[i]
      BY <2>3
    <3> QED BY <2>4, <3>1, <3>2
  <2>6. PassedOver(s)'
    BY <2>5 DEF PassedOver
  <2>7. \A c \in Codings : PassedOver(c) => PassedOver(c)'
    BY <2>1, <2>5 DEF PassedOver, Stored
  <2>8. CodingsNamed(answer)'
    <3>1. stage \in req.accept
      BY <2>1 DEF NegotiationInv, StageInv
    <3>2. CodingsNamed(WithHeaders)
      BY <2>1, <3>1, CodingAdded DEF PassedInv, Codings
    <3> QED BY <2>1, <2>4, <3>2 DEF CodingsNamed
  <2> QED BY <2>1, <2>2, <2>6, <2>7, <2>8, AfterPassed
<1> QED BY <1>1, <1>2, <1>3, <1>4, <1>5, <1>6, <1>7, StepKinds DEF Proceeds, Ends

\* In the fallback, every coding the client names has been passed over.
LEMMA FallbackPassed ==
    ASSUME NegotiationInv, PassedInv, stage \in Fallback, NEW c \in req.accept
    PROVE  \/ \A v \in Variants(Filename) : v.method # MethodOf[c]
           \/ \E i \in DOMAIN answer.tried : answer.tried[i] = c
<1>1. c \in Codings
  BY DEF NegotiationInv, TypeInv, Requests
<1>2. PassedOver(c)
  BY <1>1 DEF PassedInv, Codings
<1>3. ~Indexing /\ Filename \in Names
  BY FilenameTyped DEF NegotiationInv, RequestInv, Busy, Fallback
<1>4. \A v \in Variants(Filename) : v.method \in Stored(Filename)
  BY <1>3, VariantIsStored
<1> QED BY <1>2, <1>4 DEF PassedOver

LEMMA AcceptableStep ==
    /\ NegotiationInv /\ AnswerInv /\ PassedInv /\ AcceptableForm
    /\ [NegotiationNext]_negotiationVars
    => AcceptableForm'
<1> SUFFICES ASSUME NegotiationInv, AnswerInv, PassedInv, AcceptableForm,
                    [NegotiationNext]_negotiationVars, Answered', answer'.status = 200
             PROVE  AcceptableForm'
  BY DEF AcceptableForm
<1>1. CASE UNCHANGED negotiationVars
  BY <1>1
  DEF AcceptableForm, Answered, Filename, Variants, FileAt, Positions, negotiationVars,
      archiveIndexVars, indexVars
<1>2. CASE Ends
  <2>1. UNCHANGED <<req, Filename, Variants(Filename)>>
    BY <1>2, EndKeepsIndex DEF Variants, FileAt, Positions
  <2>2. ~(Redirect \/ NotFound \/ NotModified)
    BY EndStatus, NotModifiedStatus DEF Ends, Redirect, NotFound, NotModified
  <2>3. stage # "idle" /\ CodingsNamed(answer)
    <3>1. stage # "idle"
      BY <1>2, <2>2, ReplyTyped DEF Ends, NegotiationInv
    <3> QED BY <3>1 DEF PassedInv
  <2>4. CASE SendGzipFile
    <3> DEFINE e == <<[ETag(Found) EXCEPT !.gz = TRUE]>>
    <3>1. PICK body \in {Body("gzip"), None} :
            answer' = Sent([answer EXCEPT !.etag = e], 200, body)
      BY <2>4 DEF SendGzipFile, Reply
    <3> HIDE DEF e
    <3>2. {"status", "logged", "coding", "etag", "body"} \subseteq DOMAIN answer
      BY DEF NegotiationInv, TypeInv, Answers
    <3>3. answer'.body = body /\ answer'.coding = answer.coding
      BY <3>1, <3>2 DEF Sent
    <3>4. Body("gzip").form # "plain"
      BY BodyIsFound
    <3> QED BY <2>1, <2>3, <3>1, <3>3, <3>4 DEF AcceptableForm, CodingsNamed
  <2>5. CASE SendRaw \/ SendGzip \/ SendNormal
    <3>1. /\ answer'.body \in {Body(Form(stage)), None}
          /\ answer'.coding = WithHeaders.coding /\ answer'.tried = answer.tried
      BY <2>5, SentAnswer
    <3>2. Body(Form(stage)).form = Form(stage)
      BY DEF Body
    <3>3. CodingsNamed(WithHeaders)
      <4>1. stage \in req.accept \/ stage \notin Codings
        BY <2>5 DEF SendRaw, SendGzip, SendNormal, NegotiationInv, StageInv, Codings
      <4> QED BY <2>3, <4>1, CodingAdded
    <3>4. Form(stage) = "plain" => stage \in Fallback
      BY <2>5 DEF SendRaw, SendGzip, SendNormal, Form, Fallback
    <3> QED BY <2>1, <3>1, <3>2, <3>3, <3>4, FallbackPassed DEF AcceptableForm, CodingsNamed
  <2>6. CASE NormalFails
    <3>1. WithHeaders \in Answers /\ WithHeaders.body = None
      BY <2>6, HeadersTyped DEF NormalFails, NegotiationInv, AnswerInv, Fallback
    <3>2. answer' = Unopened(WithHeaders)
      BY <2>6 DEF NormalFails, Reply, Unopened
    <3>3. Unopened(WithHeaders).body = None /\ Unopened(WithHeaders).coding = WithHeaders.coding
      BY <3>1, UnopenedTyped DEF Unopened, Answers
    <3>4. CodingsNamed(WithHeaders)
      BY <2>3, <2>6, CodingAdded DEF NormalFails, Codings
    <3> QED BY <2>1, <3>2, <3>3, <3>4 DEF AcceptableForm, CodingsNamed
  <2> QED BY <1>2, <2>2, <2>4, <2>5, <2>6 DEF Ends, SendsReply
<1> QED BY <1>1, <1>2, AnsweredByEnd

LEMMA InitAcceptable == NegotiationInit => PassedInv /\ AcceptableForm
BY DEF NegotiationInit, PassedInv, AcceptableForm, Answered, NoAnswer, Fallback

\* For any archives and any request: a coding is sent only to a client that names it,
\* and decompressed bytes only to a client none of whose codings is stored and opens.
THEOREM AcceptableHolds == NegotiationSpec => []AcceptableForm
<1> DEFINE Inv == NegotiationInv /\ AnswerInv /\ PassedInv /\ AcceptableForm
<1>1. NegotiationInit => Inv
  BY InitNegotiationInv, InitAnswerInv, InitAcceptable
<1>2. Inv /\ [NegotiationNext]_negotiationVars => Inv'
  BY NegotiationInvStep, AnswerInvStep, PassedInvStep, AcceptableStep
<1> QED BY <1>1, <1>2, PTL DEF NegotiationSpec
====
