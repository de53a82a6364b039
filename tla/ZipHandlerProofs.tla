---- MODULE ZipHandlerProofs ----
(***************************************************************************)
(* Proofs about ZipHandler, for every number of archives, of changes to    *)
(* them, of loaders and of requests; at the end that it implements         *)
(* AtomicArchive.                                                          *)
(***************************************************************************)
EXTENDS ZipHandler, TLAPS

\* An element of a sequence over S is in S.
LEMMA SeqElement ==
  ASSUME NEW S, NEW s \in Seq(S), NEW k \in DOMAIN s
  PROVE  s[k] \in S
  OBVIOUS

\* Its positions are 1 .. Len(s).
LEMMA SeqDomain ==
  ASSUME NEW S, NEW s \in Seq(S)
  PROVE  Len(s) \in Nat /\ DOMAIN s = 1 .. Len(s)
  OBVIOUS

\* While a request is between its lookup and its return it holds the read lock, so
\* no loader is exchanging the archives and the index describes the archives held.
LEMMA RequestSeesOneLoad ==
  ASSUME HandlerTypeOK, LockInv, IndexInv,
         NEW r \in Requests, rpc[r] \in {"getidx", "file", "done"}
  PROVE  /\ \A l \in Loaders : lpc[l] \notin {"files", "map"}
         /\ DOMAIN methodmap = DOMAIN zipfiles
         /\ \A k \in DOMAIN zipfiles : methodmap[k] = zipfiles[k].ver
<1>1. \A l \in Loaders : lpc[l] \notin {"files", "map"}
  BY DEF LockInv
<1>2. QED
  BY <1>1 DEF IndexInv

\* In an initial state every variable has its type.
LEMMA TypeInit == HandlerInit => HandlerTypeOK
<1> SUFFICES ASSUME HandlerInit PROVE HandlerTypeOK
  OBVIOUS
<1> USE DiskAssumption, HandlerAssumption DEF HandlerInit, DiskInit, LockInit
<1>1. DiskTypeOK
  BY DEF DiskTypeOK, Archives, Inodes, Versions
<1>2. /\ writer \in Loaders \union {NoOne}
      /\ readers \subseteq Requests /\ blocked \subseteq Requests
      /\ open \subseteq Nat /\ nextid \in Nat \ {0}
  OBVIOUS
<1>6. inmemory \in BOOLEAN
  OBVIOUS
<1>7. hclosed \in BOOLEAN
  OBVIOUS
<1>3. zipfiles \in Seq(Handles) /\ methodmap \in Seq(Versions)
  OBVIOUS
<1>4. /\ lpc \in [Loaders -> {"idle", "open", "wait", "files", "map", "done", "failed"}]
      /\ inputs \in [Loaders -> Seq(Handles)]
      /\ part \in [Loaders -> [ino : Inodes, head : Versions] \union {None}]
  OBVIOUS
<1>5. /\ rpc \in [Requests -> {"idle", "lookup", "getidx", "file", "done"}]
      /\ entry \in [Requests -> Entries \union {None}]
      /\ file \in [Requests -> Handles \union {None}]
      /\ body \in [Requests -> Versions \union {None, Garbled, Closed}]
  OBVIOUS
<1>8. QED
  BY <1>1, <1>2, <1>3, <1>4, <1>5, <1>6, <1>7 DEF HandlerTypeOK

\* Every step of the handler, of the loaders, of the requests and of the disk keeps
\* every variable in its type.
LEMMA TypeStep ==
  ASSUME HandlerInv, [HandlerNext]_handlerVars
  PROVE  HandlerTypeOK'
<1> HandlerTypeOK /\ LockInv /\ LoadInv /\ IndexInv /\ RequestInv
  BY DEF HandlerInv
<1> USE DiskAssumption, HandlerAssumption DEF HandlerTypeOK, DiskTypeOK, diskVars, lockVars, loadVars,
        indexVars, handleVars, requestVars
<1>1. ASSUME NEW l \in Loaders, BeginLoad(l) PROVE HandlerTypeOK'
  BY <1>1 DEF BeginLoad
<1>2. ASSUME NEW l \in Loaders, OpenFile(l) PROVE HandlerTypeOK'
<2> DEFINE i == path[NextArchive(l)]
           h == [id |-> nextid, ino |-> i, ver |-> bytes[i], copy |-> bytes[i]]
  <2>1. NextArchive(l) \in Archives
    BY <1>2 DEF OpenFile, Opening, NextArchive, Archives
  <2>2. h \in Handles
    BY <1>2, <2>1 DEF OpenFile, Handles
  <2>3. inputs' = [inputs EXCEPT ![l] = Append(@, h)]
    BY <1>2 DEF OpenFile
  <2>4. inputs' \in [Loaders -> Seq(Handles)]
    BY <2>2, <2>3
  <2>5. QED
    BY <1>2, <2>4 DEF OpenFile
<1>3. ASSUME NEW l \in Loaders, StartRead(l) PROVE HandlerTypeOK'
  BY <1>3 DEF StartRead, Opening, NextArchive, Archives
<1>4. ASSUME NEW l \in Loaders, FinishRead(l) PROVE HandlerTypeOK'
  <2> DEFINE v == bytes[part[l].ino]
             h == [id |-> 0, ino |-> part[l].ino, ver |-> v,
                   copy |-> IF v = part[l].head THEN v ELSE Garbled]
  <2>1. h \in Handles
    BY <1>4 DEF FinishRead, Handles
  <2>2. inputs' = [inputs EXCEPT ![l] = Append(@, h)]
    BY <1>4 DEF FinishRead
  <2>3. inputs' \in [Loaders -> Seq(Handles)]
    BY <2>1, <2>2
  <2>4. QED
    BY <1>4, <2>3 DEF FinishRead
<1>5. ASSUME NEW l \in Loaders, OpenFails(l) PROVE HandlerTypeOK'
  BY <1>5 DEF OpenFails
<1>6. ASSUME NEW l \in Loaders, LockRequest(l) PROVE HandlerTypeOK'
  BY <1>6 DEF LockRequest, Announce
<1>7. ASSUME NEW l \in Loaders, CloseOld(l) PROVE HandlerTypeOK'
  BY <1>7 DEF CloseOld
<1>8. ASSUME NEW l \in Loaders, SetFiles(l) PROVE HandlerTypeOK'
  BY <1>8 DEF SetFiles
<1>9. ASSUME NEW l \in Loaders, SetMap(l) PROVE HandlerTypeOK'
  <2>1. /\ inputs[l] \in Seq(Handles) /\ Len(inputs[l]) = NArchives
    BY <1>9 DEF SetMap, LoadInv
  <2>2. ASSUME NEW k \in 1 .. NArchives PROVE inputs[l][k].ver \in Versions
    <3>1. inputs[l][k] \in Handles
      BY <2>1, SeqElement, SeqDomain
    <3>2. QED
      BY <3>1 DEF Handles
  <2>3. methodmap' \in Seq(Versions)
    BY <1>9, <2>2 DEF SetMap
  <2>4. inputs' \in [Loaders -> Seq(Handles)]
    BY <1>9 DEF SetMap
  <2>5. QED
    BY <1>9, <2>3, <2>4 DEF SetMap, Unlock
<1>10. ASSUME NEW l \in Loaders, LoadReturns(l) PROVE HandlerTypeOK'
  BY <1>10 DEF LoadReturns
<1>11. ASSUME NEW r \in Requests, Arrive(r) PROVE HandlerTypeOK'
  BY <1>11 DEF Arrive, RLock
<1>12. ASSUME NEW r \in Requests, NEW k \in Archives, Lookup(r, k) PROVE HandlerTypeOK'
  BY <1>12 DEF Lookup, Entries
<1>13. ASSUME NEW r \in Requests, NotServed(r) PROVE HandlerTypeOK'
  BY <1>13 DEF NotServed
<1>14. ASSUME NEW r \in Requests, GetIdx(r) PROVE HandlerTypeOK'
  <2>1. entry[r].arch \in DOMAIN zipfiles
    BY <1>14, RequestSeesOneLoad DEF GetIdx, RequestInv
  <2>2. zipfiles[entry[r].arch] \in Handles
    BY <2>1, SeqElement
  <2>3. QED
    BY <1>14, <2>2 DEF GetIdx
<1>15. ASSUME NEW r \in Requests, NotModified(r) PROVE HandlerTypeOK'
  BY <1>15 DEF NotModified
<1>16. ASSUME NEW r \in Requests, CopyBody(r) PROVE HandlerTypeOK'
  <2>1. file[r] \in Handles
    <3>1. entry[r].arch \in DOMAIN zipfiles /\ file[r] = zipfiles[entry[r].arch]
      BY <1>16, RequestSeesOneLoad DEF CopyBody, RequestInv
    <3>2. QED
      BY <3>1, SeqElement
  <2>2. BodyOf(file[r]) \in Versions \union {Garbled, Closed}
    BY <2>1 DEF BodyOf, Handles
  <2>3. QED
    BY <1>16, <2>2 DEF CopyBody
<1>17. ASSUME NEW r \in Requests, Return(r) PROVE HandlerTypeOK'
  BY <1>17 DEF Return, RUnlock
<1>18. ASSUME HandlerClose PROVE HandlerTypeOK'
  BY <1>18 DEF HandlerClose
<1>19. ASSUME DiskStep, UNCHANGED <<lockVars, inmemory, loadVars, indexVars, handleVars, requestVars>>
       PROVE  HandlerTypeOK'
  <2>1. DiskTypeOK'
    <3>1. ASSUME NEW k \in Archives, BeginOverwrite(k) PROVE DiskTypeOK'
      BY <3>1 DEF BeginOverwrite, Versions, DiskTypeOK
    <3>2. ASSUME NEW k \in Archives, Replace(k) PROVE DiskTypeOK'
      BY <3>2 DEF Replace, Archives, Inodes, Versions, DiskTypeOK
    <3>3. ASSUME NEW i \in Inodes, EndOverwrite(i) PROVE DiskTypeOK'
      BY <3>3 DEF EndOverwrite, DiskTypeOK
    <3>4. QED
      BY <1>19, <3>1, <3>2, <3>3 DEF DiskStep
  <2>2. QED
    BY <1>19, <2>1
<1>20. CASE UNCHANGED handlerVars
  BY <1>20 DEF handlerVars
<1>21. QED
  BY <1>1, <1>2, <1>3, <1>4, <1>5, <1>6, <1>7, <1>8, <1>9, <1>10, <1>11, <1>12, <1>13,
     <1>14, <1>15, <1>16, <1>17, <1>18, <1>19, <1>20
  DEF HandlerNext, LoadStep, ServeStep

\* Every step keeps the write lock exclusive and the readers accounted for.
LEMMA LockStep ==
  ASSUME HandlerInv, [HandlerNext]_handlerVars
  PROVE  LockInv'
<1> HandlerTypeOK /\ LockInv
  BY DEF HandlerInv
<1> USE HandlerAssumption DEF HandlerTypeOK, LockInv, diskVars, lockVars, loadVars,
        indexVars, handleVars, requestVars
<1>1. ASSUME NEW l \in Loaders, BeginLoad(l) PROVE LockInv'
  BY <1>1 DEF BeginLoad
<1>2. ASSUME NEW l \in Loaders, OpenFile(l) PROVE LockInv'
  BY <1>2 DEF OpenFile
<1>3. ASSUME NEW l \in Loaders, StartRead(l) PROVE LockInv'
  BY <1>3 DEF StartRead
<1>4. ASSUME NEW l \in Loaders, FinishRead(l) PROVE LockInv'
  BY <1>4 DEF FinishRead
<1>5. ASSUME NEW l \in Loaders, OpenFails(l) PROVE LockInv'
  BY <1>5 DEF OpenFails, Opening
<1>6. ASSUME NEW l \in Loaders, LockRequest(l) PROVE LockInv'
  BY <1>6 DEF LockRequest, Announce
<1>7. ASSUME NEW l \in Loaders, CloseOld(l) PROVE LockInv'
  BY <1>7 DEF CloseOld, Exclusive
<1>8. ASSUME NEW l \in Loaders, SetFiles(l) PROVE LockInv'
  BY <1>8 DEF SetFiles
<1>9. ASSUME NEW l \in Loaders, SetMap(l) PROVE LockInv'
  BY <1>9 DEF SetMap, Unlock
<1>10. ASSUME NEW l \in Loaders, LoadReturns(l) PROVE LockInv'
  BY <1>10 DEF LoadReturns
<1>11. ASSUME NEW r \in Requests, Arrive(r) PROVE LockInv'
  BY <1>11 DEF Arrive, RLock
<1>12. ASSUME NEW r \in Requests, NEW k \in Archives, Lookup(r, k) PROVE LockInv'
  BY <1>12 DEF Lookup
<1>13. ASSUME NEW r \in Requests, NotServed(r) PROVE LockInv'
  BY <1>13 DEF NotServed
<1>14. ASSUME NEW r \in Requests, GetIdx(r) PROVE LockInv'
  BY <1>14 DEF GetIdx
<1>15. ASSUME NEW r \in Requests, NotModified(r) PROVE LockInv'
  BY <1>15 DEF NotModified
<1>16. ASSUME NEW r \in Requests, CopyBody(r) PROVE LockInv'
  BY <1>16 DEF CopyBody
<1>17. ASSUME NEW r \in Requests, Return(r) PROVE LockInv'
  BY <1>17 DEF Return, RUnlock
<1>18. ASSUME HandlerClose PROVE LockInv'
  BY <1>18 DEF HandlerClose
<1>19. ASSUME DiskStep, UNCHANGED <<lockVars, inmemory, loadVars, indexVars, handleVars, requestVars>>
       PROVE  LockInv'
  BY <1>19
<1>20. CASE UNCHANGED handlerVars
  BY <1>20 DEF handlerVars
<1>21. QED
  BY <1>1, <1>2, <1>3, <1>4, <1>5, <1>6, <1>7, <1>8, <1>9, <1>10, <1>11, <1>12, <1>13,
     <1>14, <1>15, <1>16, <1>17, <1>18, <1>19, <1>20
  DEF HandlerNext, LoadStep, ServeStep

\* Every step keeps what a loader holds in line with where it is in initialize.
LEMMA LoadInvStep ==
  ASSUME HandlerInv, [HandlerNext]_handlerVars
  PROVE  LoadInv'
<1> HandlerTypeOK /\ LoadInv
  BY DEF HandlerInv
<1> USE DiskAssumption DEF HandlerTypeOK, LoadInv, diskVars, lockVars, loadVars,
        indexVars, handleVars, requestVars
<1>1. ASSUME NEW l \in Loaders, BeginLoad(l) PROVE LoadInv'
  BY <1>1 DEF BeginLoad
<1>2. ASSUME NEW l \in Loaders, OpenFile(l) PROVE LoadInv'
  BY <1>2 DEF OpenFile, Opening
<1>3. ASSUME NEW l \in Loaders, StartRead(l) PROVE LoadInv'
  BY <1>3 DEF StartRead, Opening
<1>4. ASSUME NEW l \in Loaders, FinishRead(l) PROVE LoadInv'
  BY <1>4 DEF FinishRead, Opening
<1>5. ASSUME NEW l \in Loaders, OpenFails(l) PROVE LoadInv'
  BY <1>5 DEF OpenFails
<1>6. ASSUME NEW l \in Loaders, LockRequest(l) PROVE LoadInv'
  BY <1>6 DEF LockRequest
<1>7. ASSUME NEW l \in Loaders, CloseOld(l) PROVE LoadInv'
  BY <1>7 DEF CloseOld
<1>8. ASSUME NEW l \in Loaders, SetFiles(l) PROVE LoadInv'
  BY <1>8 DEF SetFiles
<1>9. ASSUME NEW l \in Loaders, SetMap(l) PROVE LoadInv'
  BY <1>9 DEF SetMap
<1>10. ASSUME NEW l \in Loaders, LoadReturns(l) PROVE LoadInv'
  BY <1>10 DEF LoadReturns
<1>11. ASSUME NEW r \in Requests, Arrive(r) PROVE LoadInv'
  BY <1>11 DEF Arrive
<1>12. ASSUME NEW r \in Requests, NEW k \in Archives, Lookup(r, k) PROVE LoadInv'
  BY <1>12 DEF Lookup
<1>13. ASSUME NEW r \in Requests, NotServed(r) PROVE LoadInv'
  BY <1>13 DEF NotServed
<1>14. ASSUME NEW r \in Requests, GetIdx(r) PROVE LoadInv'
  BY <1>14 DEF GetIdx
<1>15. ASSUME NEW r \in Requests, NotModified(r) PROVE LoadInv'
  BY <1>15 DEF NotModified
<1>16. ASSUME NEW r \in Requests, CopyBody(r) PROVE LoadInv'
  BY <1>16 DEF CopyBody
<1>17. ASSUME NEW r \in Requests, Return(r) PROVE LoadInv'
  BY <1>17 DEF Return
<1>18. ASSUME HandlerClose PROVE LoadInv'
  BY <1>18 DEF HandlerClose
<1>19. ASSUME DiskStep, UNCHANGED <<lockVars, inmemory, loadVars, indexVars, handleVars, requestVars>>
       PROVE  LoadInv'
  BY <1>19
<1>20. CASE UNCHANGED handlerVars
  BY <1>20 DEF handlerVars
<1>21. QED
  BY <1>1, <1>2, <1>3, <1>4, <1>5, <1>6, <1>7, <1>8, <1>9, <1>10, <1>11, <1>12, <1>13,
     <1>14, <1>15, <1>16, <1>17, <1>18, <1>19, <1>20
  DEF HandlerNext, LoadStep, ServeStep

\* Every step keeps the index and the archives in step with each other.
LEMMA IndexStep ==
  ASSUME HandlerInv, [HandlerNext]_handlerVars
  PROVE  IndexInv'
<1> HandlerTypeOK /\ LockInv /\ LoadInv /\ IndexInv
  BY DEF HandlerInv
<1> USE DiskAssumption, HandlerAssumption DEF HandlerTypeOK, IndexInv, diskVars, lockVars, loadVars,
        indexVars, handleVars, requestVars
<1>1. ASSUME NEW l \in Loaders, BeginLoad(l) PROVE IndexInv'
  BY <1>1 DEF BeginLoad
<1>2. ASSUME NEW l \in Loaders, OpenFile(l) PROVE IndexInv'
  BY <1>2 DEF OpenFile, Opening
<1>3. ASSUME NEW l \in Loaders, StartRead(l) PROVE IndexInv'
  BY <1>3 DEF StartRead
<1>4. ASSUME NEW l \in Loaders, FinishRead(l) PROVE IndexInv'
  BY <1>4 DEF FinishRead, Opening
<1>5. ASSUME NEW l \in Loaders, OpenFails(l) PROVE IndexInv'
  BY <1>5 DEF OpenFails, Opening
<1>6. ASSUME NEW l \in Loaders, LockRequest(l) PROVE IndexInv'
  BY <1>6 DEF LockRequest
<1>7. ASSUME NEW l \in Loaders, CloseOld(l) PROVE IndexInv'
  BY <1>7 DEF CloseOld
<1>8. ASSUME NEW l \in Loaders, SetFiles(l) PROVE IndexInv'
  BY <1>8 DEF SetFiles, LockInv, LoadInv
<1>9. ASSUME NEW l \in Loaders, SetMap(l) PROVE IndexInv'
  BY <1>9, SeqDomain DEF SetMap, LockInv, LoadInv
<1>10. ASSUME NEW l \in Loaders, LoadReturns(l) PROVE IndexInv'
  BY <1>10 DEF LoadReturns
<1>11. ASSUME NEW r \in Requests, Arrive(r) PROVE IndexInv'
  BY <1>11 DEF Arrive
<1>12. ASSUME NEW r \in Requests, NEW k \in Archives, Lookup(r, k) PROVE IndexInv'
  BY <1>12 DEF Lookup
<1>13. ASSUME NEW r \in Requests, NotServed(r) PROVE IndexInv'
  BY <1>13 DEF NotServed
<1>14. ASSUME NEW r \in Requests, GetIdx(r) PROVE IndexInv'
  BY <1>14 DEF GetIdx
<1>15. ASSUME NEW r \in Requests, NotModified(r) PROVE IndexInv'
  BY <1>15 DEF NotModified
<1>16. ASSUME NEW r \in Requests, CopyBody(r) PROVE IndexInv'
  BY <1>16 DEF CopyBody
<1>17. ASSUME NEW r \in Requests, Return(r) PROVE IndexInv'
  BY <1>17 DEF Return
<1>18. ASSUME HandlerClose PROVE IndexInv'
  BY <1>18 DEF HandlerClose
<1>19. ASSUME DiskStep, UNCHANGED <<lockVars, inmemory, loadVars, indexVars, handleVars, requestVars>>
       PROVE  IndexInv'
  BY <1>19
<1>20. CASE UNCHANGED handlerVars
  BY <1>20 DEF handlerVars
<1>21. QED
  BY <1>1, <1>2, <1>3, <1>4, <1>5, <1>6, <1>7, <1>8, <1>9, <1>10, <1>11, <1>12, <1>13,
     <1>14, <1>15, <1>16, <1>17, <1>18, <1>19, <1>20
  DEF HandlerNext, LoadStep, ServeStep

\* Every step keeps what a request has found true of the index and the archives.
LEMMA RequestStep ==
  ASSUME HandlerInv, [HandlerNext]_handlerVars
  PROVE  RequestInv'
<1> HandlerTypeOK /\ LockInv /\ IndexInv /\ RequestInv
  BY DEF HandlerInv
<1> USE DiskAssumption, HandlerAssumption DEF HandlerTypeOK, RequestInv, diskVars, lockVars, loadVars,
        indexVars, handleVars, requestVars
<1>1. ASSUME NEW l \in Loaders, BeginLoad(l) PROVE RequestInv'
  BY <1>1 DEF BeginLoad
<1>2. ASSUME NEW l \in Loaders, OpenFile(l) PROVE RequestInv'
  BY <1>2 DEF OpenFile
<1>3. ASSUME NEW l \in Loaders, StartRead(l) PROVE RequestInv'
  BY <1>3 DEF StartRead
<1>4. ASSUME NEW l \in Loaders, FinishRead(l) PROVE RequestInv'
  BY <1>4 DEF FinishRead
<1>5. ASSUME NEW l \in Loaders, OpenFails(l) PROVE RequestInv'
  BY <1>5 DEF OpenFails
<1>6. ASSUME NEW l \in Loaders, LockRequest(l) PROVE RequestInv'
  BY <1>6 DEF LockRequest
<1>7. ASSUME NEW l \in Loaders, CloseOld(l) PROVE RequestInv'
  BY <1>7 DEF CloseOld
<1>8. ASSUME NEW l \in Loaders, SetFiles(l) PROVE RequestInv'
  BY <1>8 DEF SetFiles, LockInv
<1>9. ASSUME NEW l \in Loaders, SetMap(l) PROVE RequestInv'
  BY <1>9 DEF SetMap, LockInv
<1>10. ASSUME NEW l \in Loaders, LoadReturns(l) PROVE RequestInv'
  BY <1>10 DEF LoadReturns
<1>11. ASSUME NEW r \in Requests, Arrive(r) PROVE RequestInv'
  BY <1>11 DEF Arrive
<1>12. ASSUME NEW r \in Requests, NEW k \in Archives, Lookup(r, k) PROVE RequestInv'
  BY <1>12, SeqElement DEF Lookup, Entries
<1>13. ASSUME NEW r \in Requests, NotServed(r) PROVE RequestInv'
  BY <1>13 DEF NotServed
<1>14. ASSUME NEW r \in Requests, GetIdx(r) PROVE RequestInv'
  BY <1>14 DEF GetIdx
<1>15. ASSUME NEW r \in Requests, NotModified(r) PROVE RequestInv'
  BY <1>15 DEF NotModified
<1>16. ASSUME NEW r \in Requests, CopyBody(r) PROVE RequestInv'
  BY <1>16 DEF CopyBody
<1>17. ASSUME NEW r \in Requests, Return(r) PROVE RequestInv'
  BY <1>17 DEF Return
<1>18. ASSUME HandlerClose PROVE RequestInv'
  BY <1>18 DEF HandlerClose
<1>19. ASSUME DiskStep, UNCHANGED <<lockVars, inmemory, loadVars, indexVars, handleVars, requestVars>>
       PROVE  RequestInv'
  BY <1>19
<1>20. CASE UNCHANGED handlerVars
  BY <1>20 DEF handlerVars
<1>21. QED
  BY <1>1, <1>2, <1>3, <1>4, <1>5, <1>6, <1>7, <1>8, <1>9, <1>10, <1>11, <1>12, <1>13,
     <1>14, <1>15, <1>16, <1>17, <1>18, <1>19, <1>20
  DEF HandlerNext, LoadStep, ServeStep

\* The ids of the archives of a load, as it opens one more, and of none.
LEMMA IdsAppend ==
  ASSUME NEW s \in Seq(Handles), NEW h \in Handles
  PROVE  Ids(Append(s, h)) = Ids(s) \union {h.id}
<1>1. /\ DOMAIN Append(s, h) = 1 .. Len(s) + 1
      /\ DOMAIN s = 1 .. Len(s) /\ Len(s) \in Nat
      /\ \A k \in 1 .. Len(s) : Append(s, h)[k] = s[k]
      /\ Append(s, h)[Len(s) + 1] = h
  OBVIOUS
<1>2. ASSUME NEW i \in Ids(Append(s, h)) PROVE i \in Ids(s) \union {h.id}
  BY <1>1 DEF Ids
<1>3. ASSUME NEW i \in Ids(s) \union {h.id} PROVE i \in Ids(Append(s, h))
  BY <1>1 DEF Ids
<1>4. QED
  BY <1>2, <1>3

\* No archives, no ids.
LEMMA IdsEmpty == Ids(<<>>) = {}
  BY DEF Ids

\* Ids are numbers.
LEMMA IdsNat ==
  ASSUME NEW s \in Seq(Handles)
  PROVE  Ids(s) \subseteq Nat
<1>1. ASSUME NEW k \in DOMAIN s PROVE s[k].id \in Nat
  <2>1. s[k] \in Handles
    BY SeqElement
  <2>2. QED
    BY <2>1 DEF Handles
<1>2. QED
  BY <1>1 DEF Ids

\* Every step keeps the archive files of different loads apart, and those of a load
\* that is under way open.
LEMMA OpenStep ==
  ASSUME HandlerInv, [HandlerNext]_handlerVars
  PROVE  OpenInv'
<1> HandlerTypeOK /\ LockInv /\ LoadInv /\ IndexInv /\ OpenInv
  BY DEF HandlerInv
<1> USE DiskAssumption, HandlerAssumption DEF HandlerTypeOK, OpenInv, diskVars, lockVars, loadVars,
        indexVars, handleVars, requestVars
<1>1. ASSUME NEW l \in Loaders, BeginLoad(l) PROVE OpenInv'
  BY <1>1 DEF BeginLoad
<1>2. ASSUME NEW l \in Loaders, OpenFile(l) PROVE OpenInv'
  <2> DEFINE i == path[NextArchive(l)]
             h == [id |-> nextid, ino |-> i, ver |-> bytes[i], copy |-> bytes[i]]
  <2>1. h \in Handles /\ h.id = nextid
    <3>1. NextArchive(l) \in Archives
      BY <1>2 DEF OpenFile, Opening, NextArchive, Archives
    <3>2. QED
      BY <1>2, <3>1 DEF OpenFile, Handles, DiskTypeOK
  <2>2. inputs' = [inputs EXCEPT ![l] = Append(@, h)]
    BY <1>2 DEF OpenFile
  <2> HIDE DEF h
  <2>3. Ids(inputs'[l]) = Ids(inputs[l]) \union {nextid}
    BY <2>1, <2>2, IdsAppend
  <2>4. \A m \in Loaders \ {l} : inputs'[m] = inputs[m]
    BY <2>2
  <2>5. /\ open' = open \union {nextid} /\ nextid' = nextid + 1
        /\ UNCHANGED <<inmemory, zipfiles, lpc>> /\ ~inmemory
    BY <1>2 DEF OpenFile
  <2>6. \A m \in Loaders : Ids(inputs[m]) \subseteq Nat
    BY IdsNat
  <2>7. Ids(zipfiles) \subseteq Nat
    BY IdsNat
  <2>8. ASSUME NEW m \in Loaders PROVE /\ \A j \in Ids(inputs'[m]) : j < nextid'
                                      /\ \A j \in Ids(inputs[m]) : j # nextid
    <3>1. \A j \in Ids(inputs[m]) : j \in Nat /\ j < nextid
      BY <2>5, <2>6
    <3>2. Ids(inputs'[m]) \subseteq Ids(inputs[m]) \union {nextid}
      BY <2>3, <2>4
    <3>3. nextid \in Nat /\ nextid' = nextid + 1
      BY <2>5
    <3>4. \A j \in Ids(inputs[m]) : j # nextid /\ j < nextid'
      BY <3>1, <3>3
    <3>5. QED
      BY <3>2, <3>3, <3>4
  <2>9. \A j \in Ids(zipfiles) : j < nextid' /\ j # nextid
    BY <2>5, <2>7
  <2>10. ASSUME NEW m \in Loaders, lpc[m] # "map"
         PROVE  /\ Ids(inputs'[m]) \subseteq open'
                /\ Ids(inputs'[m]) \intersect Ids(zipfiles) = {}
    <3>1. Ids(inputs[m]) \subseteq open /\ Ids(inputs[m]) \intersect Ids(zipfiles) = {}
      BY <2>5, <2>10
    <3>2. Ids(inputs'[m]) \subseteq Ids(inputs[m]) \union {nextid}
      BY <2>3, <2>4
    <3>3. QED
      BY <2>5, <2>9, <3>1, <3>2
  <2>11. ASSUME NEW m \in Loaders, NEW n \in Loaders, m # n
         PROVE  Ids(inputs'[m]) \intersect Ids(inputs'[n]) = {}
    BY <2>3, <2>4, <2>5, <2>8, <2>11
  <2>12. QED
    BY <2>5, <2>8, <2>9, <2>10, <2>11
<1>3. ASSUME NEW l \in Loaders, StartRead(l) PROVE OpenInv'
  BY <1>3 DEF StartRead
<1>4. ASSUME NEW l \in Loaders, FinishRead(l) PROVE OpenInv'
  BY <1>4 DEF FinishRead, Opening, LoadInv
<1>5. ASSUME NEW l \in Loaders, OpenFails(l) PROVE OpenInv'
  BY <1>5, IdsEmpty DEF OpenFails, Opening
<1>6. ASSUME NEW l \in Loaders, LockRequest(l) PROVE OpenInv'
  BY <1>6 DEF LockRequest
<1>7. ASSUME NEW l \in Loaders, CloseOld(l) PROVE OpenInv'
  BY <1>7 DEF CloseOld
<1>8. ASSUME NEW l \in Loaders, SetFiles(l) PROVE OpenInv'
  BY <1>8 DEF SetFiles, LockInv
<1>9. ASSUME NEW l \in Loaders, SetMap(l) PROVE OpenInv'
  BY <1>9, IdsEmpty DEF SetMap, LockInv, IndexInv
<1>10. ASSUME NEW l \in Loaders, LoadReturns(l) PROVE OpenInv'
  BY <1>10 DEF LoadReturns
<1>11. ASSUME NEW r \in Requests, Arrive(r) PROVE OpenInv'
  BY <1>11 DEF Arrive
<1>12. ASSUME NEW r \in Requests, NEW k \in Archives, Lookup(r, k) PROVE OpenInv'
  BY <1>12 DEF Lookup
<1>13. ASSUME NEW r \in Requests, NotServed(r) PROVE OpenInv'
  BY <1>13 DEF NotServed
<1>14. ASSUME NEW r \in Requests, GetIdx(r) PROVE OpenInv'
  BY <1>14 DEF GetIdx
<1>15. ASSUME NEW r \in Requests, NotModified(r) PROVE OpenInv'
  BY <1>15 DEF NotModified
<1>16. ASSUME NEW r \in Requests, CopyBody(r) PROVE OpenInv'
  BY <1>16 DEF CopyBody
<1>17. ASSUME NEW r \in Requests, Return(r) PROVE OpenInv'
  BY <1>17 DEF Return
<1>18. ASSUME HandlerClose PROVE OpenInv'
  BY <1>18 DEF HandlerClose
<1>19. ASSUME DiskStep, UNCHANGED <<lockVars, inmemory, loadVars, indexVars, handleVars, requestVars>>
       PROVE  OpenInv'
  BY <1>19
<1>20. CASE UNCHANGED handlerVars
  BY <1>20 DEF handlerVars
<1>21. QED
  BY <1>1, <1>2, <1>3, <1>4, <1>5, <1>6, <1>7, <1>8, <1>9, <1>10, <1>11, <1>12, <1>13,
     <1>14, <1>15, <1>16, <1>17, <1>18, <1>19, <1>20
  DEF HandlerNext, LoadStep, ServeStep

\* Every step keeps the installed archives open, unless the handler is closed.
LEMMA InstalledStep ==
  ASSUME HandlerInv, [HandlerNext]_handlerVars
  PROVE  InstalledArchivesAreOpen'
<1> HandlerTypeOK /\ LockInv /\ LoadInv /\ IndexInv /\ OpenInv /\ InstalledArchivesAreOpen
  BY DEF HandlerInv
<1> USE DiskAssumption, HandlerAssumption DEF HandlerTypeOK, InstalledArchivesAreOpen, diskVars, lockVars, loadVars,
        indexVars, handleVars, requestVars
<1>1. ASSUME NEW l \in Loaders, BeginLoad(l) PROVE InstalledArchivesAreOpen'
  BY <1>1 DEF BeginLoad
<1>2. ASSUME NEW l \in Loaders, OpenFile(l) PROVE InstalledArchivesAreOpen'
  BY <1>2 DEF OpenFile
<1>3. ASSUME NEW l \in Loaders, StartRead(l) PROVE InstalledArchivesAreOpen'
  BY <1>3 DEF StartRead
<1>4. ASSUME NEW l \in Loaders, FinishRead(l) PROVE InstalledArchivesAreOpen'
  BY <1>4 DEF FinishRead
<1>5. ASSUME NEW l \in Loaders, OpenFails(l) PROVE InstalledArchivesAreOpen'
  BY <1>5 DEF OpenFails, Opening
<1>6. ASSUME NEW l \in Loaders, LockRequest(l) PROVE InstalledArchivesAreOpen'
  BY <1>6 DEF LockRequest
<1>7. ASSUME NEW l \in Loaders, CloseOld(l) PROVE InstalledArchivesAreOpen'
  BY <1>7 DEF CloseOld
<1>8. ASSUME NEW l \in Loaders, SetFiles(l) PROVE InstalledArchivesAreOpen'
  BY <1>8 DEF SetFiles, LockInv, OpenInv
<1>9. ASSUME NEW l \in Loaders, SetMap(l) PROVE InstalledArchivesAreOpen'
  BY <1>9 DEF SetMap
<1>10. ASSUME NEW l \in Loaders, LoadReturns(l) PROVE InstalledArchivesAreOpen'
  BY <1>10 DEF LoadReturns
<1>11. ASSUME NEW r \in Requests, Arrive(r) PROVE InstalledArchivesAreOpen'
  BY <1>11 DEF Arrive
<1>12. ASSUME NEW r \in Requests, NEW k \in Archives, Lookup(r, k) PROVE InstalledArchivesAreOpen'
  BY <1>12 DEF Lookup
<1>13. ASSUME NEW r \in Requests, NotServed(r) PROVE InstalledArchivesAreOpen'
  BY <1>13 DEF NotServed
<1>14. ASSUME NEW r \in Requests, GetIdx(r) PROVE InstalledArchivesAreOpen'
  BY <1>14 DEF GetIdx
<1>15. ASSUME NEW r \in Requests, NotModified(r) PROVE InstalledArchivesAreOpen'
  BY <1>15 DEF NotModified
<1>16. ASSUME NEW r \in Requests, CopyBody(r) PROVE InstalledArchivesAreOpen'
  BY <1>16 DEF CopyBody
<1>17. ASSUME NEW r \in Requests, Return(r) PROVE InstalledArchivesAreOpen'
  BY <1>17 DEF Return
<1>18. ASSUME HandlerClose PROVE InstalledArchivesAreOpen'
  BY <1>18 DEF HandlerClose
<1>19. ASSUME DiskStep, UNCHANGED <<lockVars, inmemory, loadVars, indexVars, handleVars, requestVars>>
       PROVE  InstalledArchivesAreOpen'
  BY <1>19
<1>20. CASE UNCHANGED handlerVars
  BY <1>20 DEF handlerVars
<1>21. QED
  BY <1>1, <1>2, <1>3, <1>4, <1>5, <1>6, <1>7, <1>8, <1>9, <1>10, <1>11, <1>12, <1>13,
     <1>14, <1>15, <1>16, <1>17, <1>18, <1>19, <1>20
  DEF HandlerNext, LoadStep, ServeStep

\* Every step keeps the inodes the names lead to among those made so far.
LEMMA PathStep ==
  ASSUME HandlerInv, [HandlerNext]_handlerVars
  PROVE  PathInv'
<1> HandlerTypeOK /\ PathInv
  BY DEF HandlerInv
<1> USE DiskAssumption DEF HandlerTypeOK, PathInv, diskVars, lockVars, loadVars,
        indexVars, handleVars, requestVars
<1>1. ASSUME NEW l \in Loaders, BeginLoad(l) PROVE PathInv'
  BY <1>1 DEF BeginLoad
<1>2. ASSUME NEW l \in Loaders, OpenFile(l) PROVE PathInv'
  BY <1>2 DEF OpenFile
<1>3. ASSUME NEW l \in Loaders, StartRead(l) PROVE PathInv'
  BY <1>3 DEF StartRead
<1>4. ASSUME NEW l \in Loaders, FinishRead(l) PROVE PathInv'
  BY <1>4 DEF FinishRead
<1>5. ASSUME NEW l \in Loaders, OpenFails(l) PROVE PathInv'
  BY <1>5 DEF OpenFails
<1>6. ASSUME NEW l \in Loaders, LockRequest(l) PROVE PathInv'
  BY <1>6 DEF LockRequest
<1>7. ASSUME NEW l \in Loaders, CloseOld(l) PROVE PathInv'
  BY <1>7 DEF CloseOld
<1>8. ASSUME NEW l \in Loaders, SetFiles(l) PROVE PathInv'
  BY <1>8 DEF SetFiles
<1>9. ASSUME NEW l \in Loaders, SetMap(l) PROVE PathInv'
  BY <1>9 DEF SetMap
<1>10. ASSUME NEW l \in Loaders, LoadReturns(l) PROVE PathInv'
  BY <1>10 DEF LoadReturns
<1>11. ASSUME NEW r \in Requests, Arrive(r) PROVE PathInv'
  BY <1>11 DEF Arrive
<1>12. ASSUME NEW r \in Requests, NEW k \in Archives, Lookup(r, k) PROVE PathInv'
  BY <1>12 DEF Lookup
<1>13. ASSUME NEW r \in Requests, NotServed(r) PROVE PathInv'
  BY <1>13 DEF NotServed
<1>14. ASSUME NEW r \in Requests, GetIdx(r) PROVE PathInv'
  BY <1>14 DEF GetIdx
<1>15. ASSUME NEW r \in Requests, NotModified(r) PROVE PathInv'
  BY <1>15 DEF NotModified
<1>16. ASSUME NEW r \in Requests, CopyBody(r) PROVE PathInv'
  BY <1>16 DEF CopyBody
<1>17. ASSUME NEW r \in Requests, Return(r) PROVE PathInv'
  BY <1>17 DEF Return
<1>18. ASSUME HandlerClose PROVE PathInv'
  BY <1>18 DEF HandlerClose
<1>19. ASSUME DiskStep, UNCHANGED <<lockVars, inmemory, loadVars, indexVars, handleVars, requestVars>>
       PROVE  PathInv'
  BY <1>19 DEF DiskStep, BeginOverwrite, EndOverwrite, Replace, DiskTypeOK, Archives, Inodes, Versions
<1>20. CASE UNCHANGED handlerVars
  BY <1>20 DEF handlerVars
<1>21. QED
  BY <1>1, <1>2, <1>3, <1>4, <1>5, <1>6, <1>7, <1>8, <1>9, <1>10, <1>11, <1>12, <1>13,
     <1>14, <1>15, <1>16, <1>17, <1>18, <1>19, <1>20
  DEF HandlerNext, LoadStep, ServeStep

\* Every step keeps intact what an archive that is only replaced is served from.
LEMMA DataStep ==
  ASSUME HandlerInv, [HandlerNext]_handlerVars
  PROVE  DataInv'
<1> HandlerTypeOK /\ LoadInv /\ PathInv /\ DataInv
  BY DEF HandlerInv
<1> USE DiskAssumption, HandlerAssumption DEF HandlerTypeOK, DataInv, Intact, OwnedBy, NextArchive, diskVars, lockVars, loadVars,
        indexVars, handleVars, requestVars
<1>1. ASSUME NEW l \in Loaders, BeginLoad(l) PROVE DataInv'
  BY <1>1 DEF BeginLoad
<1>2. ASSUME NEW l \in Loaders, OpenFile(l) PROVE DataInv'
  <2> DEFINE i == path[NextArchive(l)]
             h == [id |-> nextid, ino |-> i, ver |-> bytes[i], copy |-> bytes[i]]
  <2>1. /\ inputs' = [inputs EXCEPT ![l] = Append(@, h)]
        /\ UNCHANGED <<path, bytes, writes, zipfiles, part, inmemory>>
        /\ \A m \in Loaders : part[m] = None
    BY <1>2 DEF OpenFile, LoadInv
  <2>2. ASSUME NEW k \in Archives \ Rewritten, k \in DOMAIN inputs'[l]
        PROVE  Intact(k, inputs[l][k])'
    <3>1. CASE k \in DOMAIN inputs[l]
      <4>1. inputs'[l][k] = inputs[l][k]
        BY <2>1, <3>1
      <4>2. QED
        BY <2>1, <3>1, <4>1
    <3>2. CASE k \notin DOMAIN inputs[l]
      <4>1. k = NextArchive(l) /\ inputs'[l][k] = h
        BY <2>1, <2>2, <3>2
      <4>2. QED
        BY <2>1, <4>1
    <3>3. QED
      BY <3>1, <3>2
  <2>3. ASSUME NEW m \in Loaders, m # l PROVE inputs'[m] = inputs[m]
    BY <2>1, <2>3
  <2>4. QED
    BY <2>1, <2>2, <2>3
<1>3. ASSUME NEW l \in Loaders, StartRead(l) PROVE DataInv'
  BY <1>3 DEF StartRead
<1>4. ASSUME NEW l \in Loaders, FinishRead(l) PROVE DataInv'
  BY <1>4 DEF FinishRead
<1>5. ASSUME NEW l \in Loaders, OpenFails(l) PROVE DataInv'
  BY <1>5 DEF OpenFails
<1>6. ASSUME NEW l \in Loaders, LockRequest(l) PROVE DataInv'
  BY <1>6 DEF LockRequest
<1>7. ASSUME NEW l \in Loaders, CloseOld(l) PROVE DataInv'
  BY <1>7 DEF CloseOld
<1>8. ASSUME NEW l \in Loaders, SetFiles(l) PROVE DataInv'
  BY <1>8 DEF SetFiles
<1>9. ASSUME NEW l \in Loaders, SetMap(l) PROVE DataInv'
  BY <1>9 DEF SetMap, LoadInv
<1>10. ASSUME NEW l \in Loaders, LoadReturns(l) PROVE DataInv'
  BY <1>10 DEF LoadReturns
<1>11. ASSUME NEW r \in Requests, Arrive(r) PROVE DataInv'
  BY <1>11 DEF Arrive
<1>12. ASSUME NEW r \in Requests, NEW k \in Archives, Lookup(r, k) PROVE DataInv'
  BY <1>12 DEF Lookup
<1>13. ASSUME NEW r \in Requests, NotServed(r) PROVE DataInv'
  BY <1>13 DEF NotServed
<1>14. ASSUME NEW r \in Requests, GetIdx(r) PROVE DataInv'
  BY <1>14 DEF GetIdx
<1>15. ASSUME NEW r \in Requests, NotModified(r) PROVE DataInv'
  BY <1>15 DEF NotModified
<1>16. ASSUME NEW r \in Requests, CopyBody(r) PROVE DataInv'
  BY <1>16 DEF CopyBody
<1>17. ASSUME NEW r \in Requests, Return(r) PROVE DataInv'
  BY <1>17 DEF Return
<1>18. ASSUME HandlerClose PROVE DataInv'
  BY <1>18 DEF HandlerClose
<1>19. ASSUME DiskStep, UNCHANGED <<lockVars, inmemory, loadVars, indexVars, handleVars, requestVars>>
       PROVE  DataInv'
  <2>1. ASSUME NEW k \in Archives \ Rewritten, NEW i \in Inodes, OwnedBy(k, i), bytes[i] # Torn
        PROVE  OwnedBy(k, i)' /\ bytes'[i] = bytes[i]
    <3> USE <2>1
    <3>1. ASSUME NEW j \in Archives, BeginOverwrite(j) PROVE OwnedBy(k, i)' /\ bytes'[i] = bytes[i]
      <4>1. path[j] # i
        BY <3>1 DEF BeginOverwrite
      <4>2. QED
        BY <3>1, <4>1 DEF BeginOverwrite, DiskTypeOK, Versions, Inodes
    <3>2. ASSUME NEW j \in Archives, Replace(j) PROVE OwnedBy(k, i)' /\ bytes'[i] = bytes[i]
      BY <3>2 DEF Replace, DiskTypeOK, Versions, Inodes
    <3>3. ASSUME NEW j \in Inodes, EndOverwrite(j) PROVE OwnedBy(k, i)' /\ bytes'[i] = bytes[i]
      BY <3>3 DEF EndOverwrite, DiskTypeOK
    <3>4. QED
      BY <1>19, <3>1, <3>2, <3>3 DEF DiskStep
  <2>2. ASSUME NEW k \in Archives \ Rewritten, NEW h \in Handles, Intact(k, h)
        PROVE  Intact(k, h)'
    <3>1. h.ino \in Inodes /\ h.ver \in Nat
      BY DEF Handles, Versions
    <3>2. bytes[h.ino] = h.ver /\ bytes[h.ino] # Torn /\ OwnedBy(k, h.ino)
      BY <2>2, <3>1
    <3>3. OwnedBy(k, h.ino)' /\ bytes'[h.ino] = bytes[h.ino]
      BY <2>1, <3>1, <3>2
    <3>4. QED
      BY <2>2, <3>2, <3>3
  <2>3. ASSUME NEW k \in Archives \ Rewritten
        PROVE  (OwnedBy(k, path[k]) /\ bytes[path[k]] # Torn)'
    <3>1. CASE path'[k] = path[k]
      BY <2>1, <3>1 DEF DiskTypeOK
    <3>2. ASSUME NEW j \in Archives, Replace(j), path'[k] # path[k]
          PROVE  (OwnedBy(k, path[k]) /\ bytes[path[k]] # Torn)'
      <4>1. /\ j = k /\ path'[k] = NArchives + writes + 1
            /\ writes' = writes + 1 /\ writes \in Nat
            /\ bytes'[path'[k]] = writes + 1
        BY <3>2 DEF Replace, DiskTypeOK, Versions, Inodes
      <4>2. ASSUME NEW m \in Archives \ {k} PROVE path'[m] # path'[k]
        <5>1. path'[m] = path[m] /\ path[m] \in Inodes
          BY <3>2, <4>1 DEF Replace, DiskTypeOK
        <5>2. path[m] <= NArchives + writes
          BY DEF PathInv
        <5>3. QED
          BY <4>1, <5>1, <5>2 DEF Inodes
      <4>3. QED
        BY <4>1, <4>2
    <3>3. QED
      BY <1>19, <3>1, <3>2 DEF DiskStep, BeginOverwrite, EndOverwrite
  <2>4. ASSUME NEW k \in Archives \ Rewritten, k \in DOMAIN zipfiles
        PROVE  Intact(k, zipfiles[k])'
    BY <1>19, <2>2, <2>4, SeqElement
  <2>5. ASSUME NEW k \in Archives \ Rewritten, NEW l \in Loaders, k \in DOMAIN inputs[l]
        PROVE  Intact(k, inputs[l][k])'
    <3>1. inputs[l] \in Seq(Handles) /\ inputs'[l] = inputs[l]
      BY <1>19
    <3>2. inputs[l][k] \in Handles
      BY <2>5, <3>1, SeqElement
    <3>3. PICK h \in Handles : h = inputs[l][k]
      BY <3>2
    <3>4. Intact(k, h)
      BY <2>5, <3>3
    <3>5. Intact(k, h)'
      BY <2>2, <3>4
    <3>6. QED
      BY <3>1, <3>3, <3>5
  <2>6. ASSUME NEW k \in Archives \ Rewritten, NEW l \in Loaders, part[l] # None, k = NextArchive(l)
        PROVE  (OwnedBy(k, part[l].ino) /\ bytes[part[l].ino] = part[l].head)'
    <3>1. part[l].ino \in Inodes /\ part[l].head # Torn
      BY <2>6 DEF Versions
    <3>2. PICK i \in Inodes : i = part[l].ino
      BY <3>1
    <3>3. OwnedBy(k, i) /\ bytes[i] = part[l].head
      BY <2>6, <3>2
    <3>4. OwnedBy(k, i)' /\ bytes'[i] = bytes[i]
      BY <2>1, <3>1, <3>3
    <3>5. part'[l] = part[l]
      BY <1>19
    <3>6. QED
      BY <3>2, <3>3, <3>4, <3>5
  <2>7. QED
    BY <1>19, <2>3, <2>4, <2>5, <2>6
<1>20. CASE UNCHANGED handlerVars
  BY <1>20 DEF handlerVars
<1>21. QED
  BY <1>1, <1>2, <1>3, <1>4, <1>5, <1>6, <1>7, <1>8, <1>9, <1>10, <1>11, <1>12, <1>13,
     <1>14, <1>15, <1>16, <1>17, <1>18, <1>19, <1>20
  DEF HandlerNext, LoadStep, ServeStep

\* Every step keeps the file and the body of a request those its entry describes.
LEMMA AnswerStep ==
  ASSUME HandlerInv, [HandlerNext]_handlerVars
  PROVE  (AnswersFromOneLoad /\ BodyIsIndexed)'
<1> HandlerTypeOK /\ LockInv /\ IndexInv /\ RequestInv /\ DataInv /\ InstalledArchivesAreOpen /\ AnswersFromOneLoad /\ BodyIsIndexed
  BY DEF HandlerInv
<1> USE DiskAssumption, HandlerAssumption DEF HandlerTypeOK, AnswersFromOneLoad, BodyIsIndexed, diskVars, lockVars, loadVars,
        indexVars, handleVars, requestVars
<1>1. ASSUME NEW l \in Loaders, BeginLoad(l) PROVE (AnswersFromOneLoad /\ BodyIsIndexed)'
  BY <1>1 DEF BeginLoad
<1>2. ASSUME NEW l \in Loaders, OpenFile(l) PROVE (AnswersFromOneLoad /\ BodyIsIndexed)'
  BY <1>2 DEF OpenFile
<1>3. ASSUME NEW l \in Loaders, StartRead(l) PROVE (AnswersFromOneLoad /\ BodyIsIndexed)'
  BY <1>3 DEF StartRead
<1>4. ASSUME NEW l \in Loaders, FinishRead(l) PROVE (AnswersFromOneLoad /\ BodyIsIndexed)'
  BY <1>4 DEF FinishRead
<1>5. ASSUME NEW l \in Loaders, OpenFails(l) PROVE (AnswersFromOneLoad /\ BodyIsIndexed)'
  BY <1>5 DEF OpenFails
<1>6. ASSUME NEW l \in Loaders, LockRequest(l) PROVE (AnswersFromOneLoad /\ BodyIsIndexed)'
  BY <1>6 DEF LockRequest
<1>7. ASSUME NEW l \in Loaders, CloseOld(l) PROVE (AnswersFromOneLoad /\ BodyIsIndexed)'
  BY <1>7 DEF CloseOld
<1>8. ASSUME NEW l \in Loaders, SetFiles(l) PROVE (AnswersFromOneLoad /\ BodyIsIndexed)'
  BY <1>8 DEF SetFiles
<1>9. ASSUME NEW l \in Loaders, SetMap(l) PROVE (AnswersFromOneLoad /\ BodyIsIndexed)'
  BY <1>9 DEF SetMap
<1>10. ASSUME NEW l \in Loaders, LoadReturns(l) PROVE (AnswersFromOneLoad /\ BodyIsIndexed)'
  BY <1>10 DEF LoadReturns
<1>11. ASSUME NEW r \in Requests, Arrive(r) PROVE (AnswersFromOneLoad /\ BodyIsIndexed)'
  BY <1>11 DEF Arrive
<1>12. ASSUME NEW r \in Requests, NEW k \in Archives, Lookup(r, k) PROVE (AnswersFromOneLoad /\ BodyIsIndexed)'
  BY <1>12 DEF Lookup, RequestInv
<1>13. ASSUME NEW r \in Requests, NotServed(r) PROVE (AnswersFromOneLoad /\ BodyIsIndexed)'
  BY <1>13 DEF NotServed
<1>14. ASSUME NEW r \in Requests, GetIdx(r) PROVE (AnswersFromOneLoad /\ BodyIsIndexed)'
  BY <1>14, RequestSeesOneLoad DEF GetIdx, RequestInv
<1>15. ASSUME NEW r \in Requests, NotModified(r) PROVE (AnswersFromOneLoad /\ BodyIsIndexed)'
  BY <1>15 DEF NotModified
<1>16. ASSUME NEW r \in Requests, CopyBody(r) PROVE (AnswersFromOneLoad /\ BodyIsIndexed)'
  <2> DEFINE k == entry[r].arch
  <2>1. /\ k \in DOMAIN zipfiles /\ file[r] = zipfiles[k]
        /\ entry[r] \in Entries /\ entry[r].ver = zipfiles[k].ver
    BY <1>16, RequestSeesOneLoad DEF CopyBody, RequestInv
  <2>2. zipfiles[k] \in Handles
    BY <2>1, SeqElement
  <2>3. zipfiles[k].id \in Ids(zipfiles)
    BY <2>1 DEF Ids
  <2>4. \/ BodyOf(file[r]) = entry[r].ver
        \/ BodyOf(file[r]) = Garbled /\ entry[r].arch \in Rewritten
        \/ BodyOf(file[r]) = Closed /\ hclosed
    <3>1. CASE k \in Rewritten
      <4>1. BodyOf(file[r]) \in {entry[r].ver, Garbled} \/ (BodyOf(file[r]) = Closed /\ hclosed)
        <5>1. \A l \in Loaders : lpc[l] # "files"
          BY <1>16, RequestSeesOneLoad DEF CopyBody
        <5>2. CASE inmemory
          BY <2>1, <2>2, <5>2 DEF BodyOf, Handles
        <5>3. CASE ~inmemory
          BY <2>1, <2>3, <5>1, <5>3 DEF BodyOf, InstalledArchivesAreOpen
        <5>4. QED
          BY <5>2, <5>3
      <4>2. QED
        BY <3>1, <4>1
    <3>2. CASE k \notin Rewritten
      <4>1. Intact(k, zipfiles[k])
        BY <2>1, <3>2 DEF DataInv, Entries
      <4>2. \A l \in Loaders : lpc[l] # "files"
        BY <1>16, RequestSeesOneLoad DEF CopyBody
      <4>3. QED
        BY <2>1, <2>3, <4>1, <4>2 DEF BodyOf, Intact, InstalledArchivesAreOpen
    <3>3. QED
      BY <3>1, <3>2
  <2>5. body' = [body EXCEPT ![r] = BodyOf(file[r])] /\ UNCHANGED <<entry, file, hclosed>>
    BY <1>16 DEF CopyBody
  <2>6. QED
    BY <2>4, <2>5
<1>17. ASSUME NEW r \in Requests, Return(r) PROVE (AnswersFromOneLoad /\ BodyIsIndexed)'
  BY <1>17 DEF Return
<1>18. ASSUME HandlerClose PROVE (AnswersFromOneLoad /\ BodyIsIndexed)'
  BY <1>18 DEF HandlerClose
<1>19. ASSUME DiskStep, UNCHANGED <<lockVars, inmemory, loadVars, indexVars, handleVars, requestVars>>
       PROVE  (AnswersFromOneLoad /\ BodyIsIndexed)'
  BY <1>19
<1>20. CASE UNCHANGED handlerVars
  BY <1>20 DEF handlerVars
<1>21. QED
  BY <1>1, <1>2, <1>3, <1>4, <1>5, <1>6, <1>7, <1>8, <1>9, <1>10, <1>11, <1>12, <1>13,
     <1>14, <1>15, <1>16, <1>17, <1>18, <1>19, <1>20
  DEF HandlerNext, LoadStep, ServeStep

\* The inductive invariant holds in the initial states.
LEMMA InvInit == HandlerInit => HandlerInv
<1> SUFFICES ASSUME HandlerInit PROVE HandlerInv
  OBVIOUS
<1> USE DiskAssumption, HandlerAssumption DEF HandlerInit, DiskInit, LockInit
<1>1. HandlerTypeOK
  BY TypeInit
<1>2. LockInv /\ LoadInv /\ RequestInv
  BY DEF LockInv, LoadInv, RequestInv
<1>3. IndexInv /\ OpenInv /\ InstalledArchivesAreOpen
  BY DEF IndexInv, OpenInv, InstalledArchivesAreOpen, Ids
<1>4. PathInv
  BY DEF PathInv, Archives
<1>5. DataInv
  BY DEF DataInv, OwnedBy, Archives, Inodes
<1>6. AnswersFromOneLoad /\ BodyIsIndexed
  BY DEF AnswersFromOneLoad, BodyIsIndexed
<1>7. QED
  BY <1>1, <1>2, <1>3, <1>4, <1>5, <1>6 DEF HandlerInv

\* Every step keeps the inductive invariant.
LEMMA InvStep ==
  ASSUME HandlerInv, [HandlerNext]_handlerVars
  PROVE  HandlerInv'
  BY TypeStep, LockStep, LoadInvStep, IndexStep, RequestStep, OpenStep, InstalledStep,
     PathStep, DataStep, AnswerStep
  DEF HandlerInv

\* The inductive invariant holds in every reachable state of the handler.
THEOREM HandlerInvariant == HandlerSpec => []HandlerInv
<1>1. HandlerInit => HandlerInv
  BY InvInit
<1>2. HandlerInv /\ [HandlerNext]_handlerVars => HandlerInv'
  BY InvStep
<1>3. QED
  BY <1>1, <1>2, PTL DEF HandlerSpec

\* Type correctness of the handler, the lock and the disk.
THEOREM HandlerTyped == HandlerSpec => []HandlerTypeOK
  BY HandlerInvariant, PTL DEF HandlerInv

\* A request never resolves an index entry against the archives of another load.
THEOREM OneLoadPerAnswer == HandlerSpec => []AnswersFromOneLoad
  BY HandlerInvariant, PTL DEF HandlerInv

\* A body is the indexed content, whatever reloads, requests and changes overlap,
\* save for an archive changed in place and for a handler that was closed.
THEOREM BodiesAreIndexed == HandlerSpec => []BodyIsIndexed
  BY HandlerInvariant, PTL DEF HandlerInv

\* No load closes an archive that another load has installed.
THEOREM InstalledStayOpen == HandlerSpec => []InstalledArchivesAreOpen
  BY HandlerInvariant, PTL DEF HandlerInv

---------------------------------------------------------------------------
(* ZipHandler implements AtomicArchive.                                    *)

\* The initial states of the handler map to those of AtomicArchive.
LEMMA RefineInit == HandlerInit => Abstract!AInit
  BY DEF HandlerInit, Abstract!AInit

\* Every step of the handler maps to a step of AtomicArchive or to a stutter: the
\* index is found at Lookup, the body fixed at CopyBody, and a reload takes effect
\* at SetMap, when no request stands between the two.
LEMMA RefineStep ==
  ASSUME HandlerInv, HandlerInv', [HandlerNext]_handlerVars
  PROVE  [Abstract!ANext]_(Abstract!avars)
<1> HandlerTypeOK /\ LockInv /\ LoadInv /\ IndexInv /\ RequestInv /\ BodyIsIndexed'
  BY DEF HandlerInv
<1> USE DiskAssumption, HandlerAssumption DEF HandlerTypeOK, diskVars, lockVars, loadVars,
        indexVars, handleVars, requestVars
<1>0. ASSUME UNCHANGED <<methodmap, hclosed, rpc, entry, body>>
      PROVE  UNCHANGED Abstract!avars
  BY <1>0 DEF Abstract!avars
<1>1. ASSUME NEW l \in Loaders,
             BeginLoad(l) \/ OpenFile(l) \/ StartRead(l) \/ FinishRead(l) \/ OpenFails(l)
               \/ LockRequest(l) \/ CloseOld(l) \/ SetFiles(l) \/ LoadReturns(l)
      PROVE  UNCHANGED Abstract!avars
  BY <1>0, <1>1 DEF BeginLoad, OpenFile, StartRead, FinishRead, OpenFails, LockRequest,
     CloseOld, SetFiles, LoadReturns
<1>2. ASSUME NEW l \in Loaders, SetMap(l) PROVE Abstract!Install
  <2>1. methodmap' \in [1 .. NArchives -> 0 .. MaxWrites]
    <3>1. methodmap' = [k \in 1 .. NArchives |-> inputs[l][k].ver] /\ Len(inputs[l]) = NArchives
      BY <1>2 DEF SetMap, LoadInv
    <3>2. ASSUME NEW k \in 1 .. NArchives PROVE inputs[l][k].ver \in 0 .. MaxWrites
      <4>1. inputs[l][k] \in Handles
        BY <3>1, SeqElement, SeqDomain
      <4>2. QED
        BY <4>1 DEF Handles, Versions
    <3>3. QED
      BY <3>1, <3>2
  <2>2. \A r \in Requests : rpc[r] \notin {"getidx", "file"}
    BY <1>2 DEF SetMap, LockInv
  <2>3. QED
    BY <1>2, <2>1, <2>2 DEF SetMap, Abstract!Install
<1>3. ASSUME NEW r \in Requests, Arrive(r) PROVE Abstract!Call(r)
  BY <1>3 DEF Arrive, Abstract!Call
<1>4. ASSUME NEW r \in Requests, NEW k \in Archives, Lookup(r, k) PROVE Abstract!Find(r)
  <2>1. [arch |-> k, ver |-> methodmap[k]] \in Abstract!Promises
    BY <1>4, SeqElement DEF Lookup, Abstract!Promises, Archives, Versions
  <2>2. QED
    BY <1>4, <2>1 DEF Lookup, Abstract!Find
<1>5. ASSUME NEW r \in Requests, NotServed(r) \/ NotModified(r)
      PROVE  Abstract!AnswerWithoutBody(r)
  BY <1>5 DEF NotServed, NotModified, Abstract!AnswerWithoutBody
<1>6. ASSUME NEW r \in Requests, GetIdx(r) PROVE UNCHANGED Abstract!avars
  BY <1>6 DEF GetIdx, Abstract!avars
<1>7. ASSUME NEW r \in Requests, CopyBody(r) PROVE Abstract!Answer(r)
  <2>1. entry[r].arch \in DOMAIN zipfiles /\ file[r] = zipfiles[entry[r].arch]
    BY <1>7, RequestSeesOneLoad DEF CopyBody, RequestInv
  <2>2. file[r] \in Handles
    BY <2>1, SeqElement
  <2>3. BodyOf(file[r]) \in Versions \union {Garbled, Closed} /\ BodyOf(file[r]) # None
    BY <2>2 DEF BodyOf, Handles, Versions
  <2>4. /\ body' = [body EXCEPT ![r] = BodyOf(file[r])]
        /\ rpc[r] = "file" /\ rpc' = [rpc EXCEPT ![r] = "done"]
        /\ UNCHANGED <<entry, hclosed, methodmap>>
    BY <1>7 DEF CopyBody
  <2>5. \/ body'[r] = entry[r].ver
        \/ body'[r] = Garbled /\ entry[r].arch \in Rewritten
        \/ body'[r] = Closed /\ hclosed
    BY <2>3, <2>4 DEF BodyIsIndexed
  <2>6. body' = [body EXCEPT ![r] = body'[r]]
    BY <2>4
  <2>7. QED
    BY <2>4, <2>5, <2>6 DEF Abstract!Answer
<1>8. ASSUME NEW r \in Requests, Return(r) PROVE Abstract!Leave(r)
  BY <1>8 DEF Return, Abstract!Leave
<1>9. ASSUME HandlerClose PROVE Abstract!Shut
  BY <1>9 DEF HandlerClose, Abstract!Shut
<1>10. ASSUME UNCHANGED <<lockVars, inmemory, loadVars, indexVars, handleVars, requestVars>>
       PROVE  UNCHANGED Abstract!avars
  BY <1>0, <1>10
<1>11. CASE UNCHANGED handlerVars
  BY <1>0, <1>11 DEF handlerVars
<1>12. QED
  BY <1>1, <1>2, <1>3, <1>4, <1>5, <1>6, <1>7, <1>8, <1>9, <1>10, <1>11
  DEF HandlerNext, LoadStep, ServeStep, Abstract!ANext

\* The handler implements AtomicArchive: the index is replaced as a whole and every
\* answer is what an index current during the call promised.
THEOREM HandlerImplementsAtomicArchive == HandlerSpec => ImplementsAtomicArchive
<1>1. HandlerInit => Abstract!AInit
  BY RefineInit
<1>2. HandlerInv /\ HandlerInv' /\ [HandlerNext]_handlerVars
        => [Abstract!ANext]_(Abstract!avars)
  BY RefineStep
<1>3. QED
  BY <1>1, <1>2, HandlerInvariant, PTL DEF HandlerSpec, ImplementsAtomicArchive, Abstract!ASpec
====
