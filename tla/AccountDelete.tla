---------------------------- MODULE AccountDelete ----------------------------
(***************************************************************************)
(* Deleting a local account (processing/account, src/unnamed/part_006):    *)
(*                                                                         *)
(*  - DeleteLocal checks the request (the owner's password, or the        *)
(*    existence of the admin account asking) and queues a Delete Person   *)
(*    message on the client worker;                                        *)
(*  - the worker runs Delete: it removes the account's OAuth token with   *)
(*    its client and application, then deletes rows table by table, pages *)
(*    through the account's statuses 20 at a time (newest first, below    *)
(*    maxID), queueing a Delete Note and deleting each status and every   *)
(*    boost of it, deletes more rows and the user, and finally updates    *)
(*    the account to a suspended stub.                                     *)
(*                                                                         *)
(* Concurrently the account's client may be inside status Create           *)
(* (processing/status, part_005), which takes a ULID before it processes  *)
(* the form and puts the status only at the end.                           *)
(*                                                                         *)
(* Each database call is one step and may fail when DBFaults holds; Delete *)
(* only logs the failures of all but its last two calls.  Rows of the      *)
(* tables Delete clears with DeleteWhere are not represented: a step there *)
(* changes nothing the properties read, so only its failure is recorded.  *)
(***************************************************************************)
EXTENDS Naturals, Sequences, SequencesExt, FiniteSetsExt

CONSTANTS
    A,             \* the local account being deleted
    B,             \* another account: an admin, or the author of boosts
    NoID,          \* the empty maxID / boost_of_id
    InitStatuses,  \* the possible status tables when the model starts
    PageSize,      \* the limit Delete passes to GetAccountStatuses (20)
    MaxCreates,    \* bound on status Create requests of A's client
    MaxReads,      \* bound on GetAccountByID(A) calls
    MaxSets,       \* bound on SetAccountHeaderOrAvatar calls
    DBFaults       \* whether database calls may fail

ASSUME PageSize \in Nat \ {0} /\ NoID = 0

Accounts == {A, B}
StatusRecs(ids) == [id : ids, acct : Accounts, boostOf : ids \cup {NoID}]
Ids(S) == {s.id : s \in S}

\* the DeleteWhere calls before and after the status loop, in code order
PreStatusRows == <<"blocks by", "blocks of", "follow requests by",
                   "follow requests of", "follows by", "follows of">>
PostStatusRows == <<"notifications by", "notifications of", "bookmarks",
                    "faves", "mutes">>
\* per token: DeleteByID client, DeleteWhere application, DeleteByID token
TokenCalls == <<"client", "application", "token">>

VARIABLES
    statuses,   \* the status table
    nextId,     \* the next ULID id.NewULID hands out (ids grow with time)
    oauth,      \* A's OAuth rows still present: client, application, token
    userRow,    \* A's user row is present
    suspended,  \* A's account row has been updated to a suspended stub
    queue,      \* messages queued on the client worker (a set: the properties
                \* read which messages went out, not their order)
    dlReqs,     \* DeleteLocal requests made
    dlResp,     \* DeleteLocal's answer: 0 (none), 200, 403 or 500
    dpc,        \* where the worker is in Delete
    n,          \* index into the current list of calls
    maxID,      \* the loop's maxID
    page,       \* the statuses GetAccountStatuses returned, newest first
    idx,        \* the status of the page being processed
    boosts,     \* boosts of that status still to process
    dret,       \* what Delete returned: "none", "nil" or "error"
    cpc,        \* where A's client request is in Create
    cid,        \* the ULID its Create took
    creates,    \* Create requests made
    cret,       \* Create's answer: 0, 200 or 500
    failed,     \* ghost: a database call of Delete failed
    snap,       \* ghost: ids of A's statuses when the status loop began
    media,      \* A's row references an avatar or header attachment
    cache,      \* the AccountCache entry for A: {} or {a copy of the row}
    rpc,        \* where a reader is in GetAccountByID(A)
    rcopy,      \* the row its database query returned
    reads,      \* GetAccountByID(A) calls made
    spc,        \* where A's client is in SetAccountHeaderOrAvatar
    sets,       \* SetAccountHeaderOrAvatar calls made
    staleFill   \* ghost: a reader put a copy the row no longer matched

storeVars == <<statuses, nextId, oauth, userRow, suspended, queue>>
deleteVars == <<dpc, n, maxID, page, idx, boosts, dret, failed, snap>>
createVars == <<cpc, cid, creates, cret>>
cacheVars == <<media, cache, rpc, rcopy, reads, spc, sets, staleFill>>
vars == <<storeVars, dlReqs, dlResp, deleteVars, createVars, cacheVars>>

\* A's account row, as far as the properties read it
Row == [suspended |-> suspended, media |-> media]

Msg(t, o) == [type |-> t, obj |-> o]

-----------------------------------------------------------------------------
(***************************************************************************)
(* accountDB.GetAccountStatuses(accountID, limit, .., maxID, ..): the      *)
(* account's statuses with id < maxID, ordered by id DESC, at most limit;  *)
(* an empty result is ErrNoEntries (part_001).                             *)
(***************************************************************************)

\* Mutant: the query is ordered by id ASC
GetAccountStatusesAsc(acct, limit, max) ==
    LET sel == {s \in statuses : s.acct = acct /\ (max = NoID \/ s.id < max)}
        sorted == SetToSortSeq(sel, LAMBDA x, y : x.id < y.id)
    IN SubSeq(sorted, 1, Min({limit, Len(sorted)}))

GetAccountStatuses(acct, limit, max) ==
    LET sel == {s \in statuses : s.acct = acct /\ (max = NoID \/ s.id < max)}
        sorted == SetToSortSeq(sel, LAMBDA x, y : x.id > y.id)
    IN SubSeq(sorted, 1, Min({limit, Len(sorted)}))

\* the environment fails the current call
Fail == failed' = TRUE

\* Delete breaks out of selectStatusesLoop to the notifications step
BreakLoop == dpc' = "rows2" /\ n' = 1

-----------------------------------------------------------------------------
(***************************************************************************)
(* DeleteLocal                                                             *)
(***************************************************************************)

\* the owner (authorised by A's token) or an admin B asks; the owner's
\* user is fetched (500 on error) and the password must be set and match
\* (403); an admin's account is fetched (500 on error); then Delete Person
\* is queued
DeleteLocal ==
    /\ dlReqs = 0
    /\ dlReqs' = 1
    /\ \E origin \in Accounts, pw \in {"unset", "wrong", "right"} :
          \/ /\ origin = A /\ "token" \in oauth
             /\ \/ (~userRow \/ DBFaults) /\ dlResp' = 500 /\ UNCHANGED queue
                \/ /\ userRow /\ pw # "right"
                   /\ dlResp' = 403 /\ UNCHANGED queue
                \/ /\ userRow /\ pw = "right"
                   /\ queue' = queue \cup {Msg("DeletePerson", A)}
                   /\ dlResp' = 200
          \/ /\ origin = B
             /\ \/ DBFaults /\ dlResp' = 500 /\ UNCHANGED queue
                \/ queue' = queue \cup {Msg("DeletePerson", A)} /\ dlResp' = 200
    /\ UNCHANGED <<cacheVars, statuses, nextId, oauth, userRow, suspended, deleteVars,
                   createVars>>

-----------------------------------------------------------------------------
(***************************************************************************)
(* Delete, run by the client worker for the Delete Person message          *)
(***************************************************************************)

\* the worker takes the message; A is local (Domain ""), so step 1 runs
DeleteStart ==
    /\ dpc = "idle"
    /\ Msg("DeletePerson", A) \in queue
    /\ dpc' = "user"
    /\ UNCHANGED <<cacheVars, storeVars, dlReqs, dlResp, n, maxID, page, idx, boosts, dret,
                   failed, snap, createVars>>

\* GetWhere user by account_id, then GetWhere tokens by user_id; on any
\* error step 1 is skipped
GetUserTokens(step) ==
    /\ dpc = step
    /\ LET found == IF step = "user" THEN userRow ELSE "token" \in oauth IN
       \/ /\ found
          /\ IF step = "user" THEN dpc' = "tokens" /\ UNCHANGED n
                              ELSE dpc' = "oauth" /\ n' = 1
          /\ UNCHANGED failed
       \/ ~found /\ dpc' = "rows1" /\ n' = 1 /\ UNCHANGED failed
       \/ DBFaults /\ Fail /\ dpc' = "rows1" /\ n' = 1
    /\ UNCHANGED <<cacheVars, storeVars, dlReqs, dlResp, maxID, page, idx, boosts, dret,
                   snap, createVars>>

\* the three deletes of the token's client, application and token, each
\* error only logged
DeleteTokenRow ==
    /\ dpc = "oauth"
    /\ \/ oauth' = oauth \ {TokenCalls[n]} /\ UNCHANGED failed
       \/ DBFaults /\ Fail /\ UNCHANGED oauth
    /\ IF n = Len(TokenCalls) THEN dpc' = "rows1" /\ n' = 1
                              ELSE n' = n + 1 /\ UNCHANGED dpc
    /\ UNCHANGED <<cacheVars, statuses, nextId, userRow, suspended, queue, dlReqs, dlResp,
                   maxID, page, idx, boosts, dret, snap, createVars>>

\* one DeleteWhere of steps 2, 4, 5 or 10-13, its error only logged
DeleteRows ==
    /\ dpc \in {"rows1", "rows2"}
    /\ \/ UNCHANGED failed
       \/ DBFaults /\ Fail
    /\ LET calls == IF dpc = "rows1" THEN PreStatusRows ELSE PostStatusRows IN
       IF n < Len(calls) THEN n' = n + 1 /\ UNCHANGED <<dpc, maxID>>
       ELSE IF dpc = "rows1" THEN dpc' = "select" /\ maxID' = NoID /\ UNCHANGED n
       ELSE dpc' = "userdel" /\ UNCHANGED <<n, maxID>>
    /\ UNCHANGED <<cacheVars, storeVars, dlReqs, dlResp, page, idx, boosts, dret, snap,
                   createVars>>

\* GetAccountStatuses(A, 20, maxID): ErrNoEntries or any error ends the loop
SelectPage ==
    /\ dpc = "select"
    /\ LET p == GetAccountStatuses(A, PageSize, maxID) IN
       \/ /\ p # <<>>
          /\ page' = p /\ idx' = 1 /\ dpc' = "status"
          /\ UNCHANGED <<n, failed>>
       \/ p = <<>> /\ BreakLoop /\ UNCHANGED <<page, idx, failed>>
       \/ DBFaults /\ Fail /\ BreakLoop /\ UNCHANGED <<page, idx>>
    /\ snap' = IF maxID = NoID THEN Ids({s \in statuses : s.acct = A}) ELSE snap
    /\ UNCHANGED <<cacheVars, storeVars, dlReqs, dlResp, maxID, boosts, dret, createVars>>

\* Mutant: a plain `break` on a DeleteByID error leaves only the range loop,
\* and the outer loop selects the same page again
StatusDeleteInnerBreak ==
    /\ dpc = "status"
    /\ queue' = queue \cup {Msg("DeleteNote", page[idx].id)}
    /\ \/ statuses' = statuses \ {page[idx]} /\ dpc' = "boosts"
          /\ UNCHANGED <<failed, n>>
       \/ DBFaults /\ Fail /\ dpc' = "select" /\ UNCHANGED <<statuses, n>>
    /\ UNCHANGED <<cacheVars, nextId, oauth, userRow, suspended, dlReqs, dlResp, maxID,
                   page, idx, boosts, dret, snap, createVars>>

\* queue the Delete Note, then DeleteByID the status (ErrNoEntries, a row
\* already gone, is not an error); any other error breaks the loop
StatusDelete ==
    /\ dpc = "status"
    /\ queue' = queue \cup {Msg("DeleteNote", page[idx].id)}
    /\ \/ statuses' = statuses \ {page[idx]} /\ dpc' = "boosts"
          /\ UNCHANGED <<failed, n>>
       \/ DBFaults /\ Fail /\ BreakLoop /\ UNCHANGED statuses
    /\ UNCHANGED <<cacheVars, nextId, oauth, userRow, suspended, dlReqs, dlResp, maxID,
                   page, idx, boosts, dret, snap, createVars>>

\* GetWhere boost_of_id = s.ID; an error other than ErrNoEntries breaks
GetBoosts ==
    /\ dpc = "boosts"
    /\ \/ /\ boosts' = SetToSortSeq({b \in statuses : b.boostOf = page[idx].id},
                                    LAMBDA x, y : x.id < y.id)
          /\ dpc' = "boost"
          /\ UNCHANGED <<failed, n>>
       \/ DBFaults /\ Fail /\ BreakLoop /\ UNCHANGED boosts
    /\ UNCHANGED <<cacheVars, storeVars, dlReqs, dlResp, maxID, page, idx, dret, snap,
                   createVars>>

\* per boost: GetAccountByID of its author (error: continue, the boost is
\* kept), queue Undo Announce, DeleteByID the boost (error: break)
DeleteBoost ==
    /\ dpc = "boost" /\ boosts # <<>>
    /\ LET b == Head(boosts) IN
       \/ /\ queue' = queue \cup {Msg("UndoAnnounce", page[idx].id)}
          /\ statuses' = statuses \ {b}
          /\ boosts' = Tail(boosts)
          /\ UNCHANGED <<dpc, n, failed>>
       \/ /\ DBFaults /\ Fail /\ boosts' = Tail(boosts)
          /\ UNCHANGED <<queue, statuses, dpc, n>>
       \/ /\ DBFaults /\ Fail
          /\ queue' = queue \cup {Msg("UndoAnnounce", page[idx].id)}
          /\ BreakLoop /\ UNCHANGED <<statuses, boosts>>
    /\ UNCHANGED <<cacheVars, nextId, oauth, userRow, suspended, dlReqs, dlResp, maxID,
                   page, idx, dret, snap, createVars>>

\* Mutant: the next status is taken without checking for the page's end
NextStatusNoLastCheck ==
    /\ dpc = "boost" /\ boosts = <<>>
    /\ idx' = idx + 1 /\ dpc' = "status"
    /\ UNCHANGED <<cacheVars, storeVars, dlReqs, dlResp, n, maxID, page, boosts, dret,
                   failed, snap, createVars>>

\* after the page's last status maxID becomes its id and the next page is
\* selected; otherwise the next status of the page
NextStatus ==
    /\ dpc = "boost" /\ boosts = <<>>
    /\ IF idx = Len(page)
       THEN maxID' = page[idx].id /\ dpc' = "select" /\ UNCHANGED idx
       ELSE idx' = idx + 1 /\ dpc' = "status" /\ UNCHANGED maxID
    /\ UNCHANGED <<cacheVars, storeVars, dlReqs, dlResp, n, page, boosts, dret, failed,
                   snap, createVars>>

\* 16: DeleteWhere the user; an error returns 500
DeleteUser ==
    /\ dpc = "userdel"
    /\ \/ userRow' = FALSE /\ dpc' = "update" /\ UNCHANGED <<dret, failed>>
       \/ DBFaults /\ Fail /\ dret' = "error" /\ dpc' = "done"
          /\ UNCHANGED userRow
    /\ UNCHANGED <<cacheVars, statuses, nextId, oauth, suspended, queue, dlReqs, dlResp, n,
                   maxID, page, idx, boosts, snap, createVars>>

\* 18: the account's fields are cleared (the avatar and header ids among
\* them), SuspendedAt set, and UpdateAccount writes the whole row; a
\* database error returns 500
UpdateAccount ==
    /\ dpc = "update"
    /\ \/ /\ suspended' = TRUE /\ media' = FALSE /\ dpc' = "cacheput"
          /\ UNCHANGED <<dret, failed>>
       \/ /\ DBFaults /\ Fail /\ dret' = "error" /\ dpc' = "done"
          /\ UNCHANGED <<suspended, media>>
    /\ UNCHANGED <<statuses, nextId, oauth, userRow, queue, dlReqs, dlResp, n,
                   maxID, page, idx, boosts, snap, createVars, cache, rpc,
                   rcopy, reads, spc, sets, staleFill>>

\* Mutant: UpdateAccount does not put the updated account in the cache
UpdateCacheNoPut ==
    /\ dpc = "cacheput"
    /\ dret' = "nil" /\ dpc' = "done"
    /\ UNCHANGED <<storeVars, dlReqs, dlResp, n, maxID, page, idx, boosts,
                   failed, snap, createVars, cacheVars>>

\* UpdateAccount then puts the updated account in the cache, replacing the
\* entry, and Delete returns nil
UpdateCachePut ==
    /\ dpc = "cacheput"
    /\ cache' = {Row}
    /\ dret' = "nil" /\ dpc' = "done"
    /\ UNCHANGED <<storeVars, dlReqs, dlResp, n, maxID, page, idx, boosts,
                   failed, snap, createVars, media, rpc, rcopy, reads, spc,
                   sets, staleFill>>

-----------------------------------------------------------------------------
(***************************************************************************)
(* accountDB.getAccount (GetAccountByID) and SetAccountHeaderOrAvatar      *)
(* (part_001); the AccountCache's entries also expire with their TTL       *)
(***************************************************************************)

\* cacheGet: a hit returns the cached account, a miss goes to the database
GetAccountByID ==
    /\ rpc = "idle" /\ reads < MaxReads
    /\ reads' = reads + 1
    /\ rpc' = IF cache = {} THEN "query" ELSE "idle"
    /\ UNCHANGED <<storeVars, dlReqs, dlResp, deleteVars, createVars, media,
                   cache, rcopy, spc, sets, staleFill>>

\* dbQuery: an error is returned, otherwise the row is read
QueryAccount ==
    /\ rpc = "query"
    /\ \/ rcopy' = Row /\ rpc' = "put"
       \/ DBFaults /\ rpc' = "idle" /\ UNCHANGED rcopy
    /\ UNCHANGED <<storeVars, dlReqs, dlResp, deleteVars, createVars, media,
                   cache, reads, spc, sets, staleFill>>

\* a.cache.Put(account) with the copy read, whatever was written since
FillCache ==
    /\ rpc = "put"
    /\ cache' = {rcopy}
    /\ staleFill' = (staleFill \/ rcopy # Row)
    /\ rpc' = "idle"
    /\ UNCHANGED <<storeVars, dlReqs, dlResp, deleteVars, createVars, media,
                   rcopy, reads, spc, sets>>

\* the entry's TTL runs out
Expire ==
    /\ cache # {}
    /\ cache' = {}
    /\ UNCHANGED <<storeVars, dlReqs, dlResp, deleteVars, createVars, media,
                   rpc, rcopy, reads, spc, sets, staleFill>>

\* a caller of accountDB.SetAccountHeaderOrAvatar for A (the db.Account
\* interface offers it; no caller of it is in this source set) sets an
\* attachment as avatar or header: one that is both or neither is
\* refused, then the attachment is inserted
SetAccountHeaderOrAvatar ==
    /\ spc = "idle" /\ "token" \in oauth /\ sets < MaxSets
    /\ sets' = sets + 1
    /\ \E avatar, header \in BOOLEAN :
          spc' = IF avatar = header THEN "idle" ELSE "insert"
    /\ UNCHANGED <<storeVars, dlReqs, dlResp, deleteVars, createVars, media,
                   cache, rpc, rcopy, reads, staleFill>>

\* NewInsert of the attachment, then the update of the account's
\* <avatar|header>_media_attachment_id column; either error is returned,
\* and neither touches the cache
SetAttachmentColumn ==
    /\ spc \in {"insert", "update"}
    /\ \/ spc = "insert" /\ spc' = "update" /\ UNCHANGED media
       \/ spc = "update" /\ spc' = "idle" /\ media' = TRUE
       \/ DBFaults /\ spc' = "idle" /\ UNCHANGED media
    /\ UNCHANGED <<storeVars, dlReqs, dlResp, deleteVars, createVars, cache,
                   rpc, rcopy, reads, sets, staleFill>>

-----------------------------------------------------------------------------
(***************************************************************************)
(* status Create of A's client (part_005)                                  *)
(***************************************************************************)

\* a request authorised by A's token: NewULID, then the Process* steps
\* (reply, media, visibility, language, mentions, tags, emojis, content),
\* any of which returns 500
CreateStart ==
    /\ cpc = "idle" /\ "token" \in oauth /\ creates < MaxCreates
    /\ creates' = creates + 1
    /\ nextId' = nextId + 1
    /\ \/ cid' = nextId /\ cpc' = "put" /\ UNCHANGED cret
       \/ DBFaults /\ cret' = 500 /\ UNCHANGED <<cpc, cid>>
    /\ UNCHANGED <<cacheVars, statuses, oauth, userRow, suspended, queue, dlReqs, dlResp,
                   deleteVars>>

\* PutStatus (500 on error), queue Create Note, StatusToAPIStatus (500 on
\* error, after the status is stored and queued)
CreatePut ==
    /\ cpc = "put"
    /\ cpc' = "idle"
    /\ \/ /\ statuses' = statuses \cup {[id |-> cid, acct |-> A, boostOf |-> NoID]}
          /\ queue' = queue \cup {Msg("CreateNote", cid)}
          /\ cret' \in IF DBFaults THEN {200, 500} ELSE {200}
       \/ DBFaults /\ cret' = 500 /\ UNCHANGED <<statuses, queue>>
    /\ UNCHANGED <<cacheVars, nextId, oauth, userRow, suspended, dlReqs, dlResp, cid,
                   creates, deleteVars>>

-----------------------------------------------------------------------------

Init ==
    /\ statuses \in InitStatuses
    /\ nextId = Max(Ids(statuses) \cup {0}) + 1
    /\ oauth = {"client", "application", "token"}
    /\ userRow = TRUE
    /\ suspended = FALSE
    /\ queue = {}
    /\ dlReqs = 0 /\ dlResp = 0
    /\ dpc = "idle" /\ n = 1 /\ maxID = NoID /\ page = <<>> /\ idx = 1
    /\ boosts = <<>> /\ dret = "none" /\ failed = FALSE /\ snap = {}
    /\ cpc = "idle" /\ cid = NoID /\ creates = 0 /\ cret = 0
    /\ media \in BOOLEAN /\ cache = {}
    /\ rpc = "idle" /\ rcopy = Row /\ reads = 0
    /\ spc = "idle" /\ sets = 0 /\ staleFill = FALSE

\* a step of the Delete the worker is running
DeleteStep ==
    \/ DeleteStart \/ GetUserTokens("user") \/ GetUserTokens("tokens")
    \/ DeleteTokenRow \/ DeleteRows \/ SelectPage \/ StatusDelete
    \/ GetBoosts \/ DeleteBoost \/ NextStatus \/ DeleteUser \/ UpdateAccount
    \/ UpdateCachePut

\* a step of a reader or of A's client in accountDB
AccountDBStep ==
    \/ GetAccountByID \/ QueryAccount \/ FillCache
    \/ SetAccountHeaderOrAvatar \/ SetAttachmentColumn

\* nothing is left to do: the request was answered, Delete is over or was
\* never queued, and A's client makes no more requests
Terminating ==
    /\ dlReqs = 1 /\ cpc = "idle" /\ rpc = "idle" /\ spc = "idle"
    /\ reads = MaxReads
    /\ sets = MaxSets \/ "token" \notin oauth
    /\ dpc = "done" \/ (dpc = "idle" /\ ~ENABLED DeleteStart)
    /\ creates = MaxCreates \/ "token" \notin oauth
    /\ UNCHANGED vars

Next ==
    \/ DeleteLocal \/ DeleteStep \/ CreateStart \/ CreatePut
    \/ AccountDBStep \/ Expire \/ Terminating

\* the worker goroutine runs Delete to its end and the request goroutine
\* finishes its Create; every database call returns
Fairness == WF_vars(DeleteStep) /\ WF_vars(CreatePut)

Spec == Init /\ [][Next]_vars /\ Fairness

-----------------------------------------------------------------------------
(***************************************************************************)
(* Properties.                                                             *)
(***************************************************************************)

TypeOK ==
    /\ statuses \subseteq StatusRecs(1..nextId)
    /\ dpc \in {"idle", "user", "tokens", "oauth", "rows1", "select", "status",
                "boosts", "boost", "rows2", "userdel", "update", "cacheput",
                "done"}
    /\ cache \in SUBSET [suspended : BOOLEAN, media : BOOLEAN]
    /\ Cardinality(cache) <= 1
    /\ dpc = "status" => idx \in 1..Len(page)
    /\ Len(page) <= PageSize
    /\ dret \in {"none", "nil", "error"}
    /\ cpc \in {"idle", "put"}

\* Once the row is suspended and UpdateAccount has put the suspended copy,
\* a cached copy of A that is not suspended was put by a reader whose
\* database query ran before the update: UpdateAccount's Put replaces every
\* earlier entry, so only a fill racing it can bring the old account back.
UnsuspendedCacheOnlyFromRacingFill ==
    suspended /\ dpc # "cacheput" /\ (\E e \in cache : ~e.suspended) =>
        staleFill

\* Once Delete has returned nil, GetAccountByID(A) never returns the
\* account unsuspended (the comment on UpdateAccount's Put: "this will
\* replace existing, i.e. invalidating").
CacheSuspendedAfterDelete ==
    dret = "nil" => \A e \in cache : e.suspended

\* A Delete that returns nil, with every database call succeeding, has
\* deleted every status the account had when its status loop began, and
\* every boost of those statuses, whatever the paging by maxID skipped over.
PagedStatusesDeleted ==
    dpc = "done" /\ dret = "nil" /\ ~failed =>
        \A s \in statuses : s.id \notin snap /\ s.boostOf \notin snap

\* Delete always returns: its status loop ends whatever the database
\* answers, since every page it selects lies below the last one.
DeleteReturns == dpc \notin {"idle", "done"} ~> dpc = "done"

\* Once Delete has returned nil with every database call succeeding, the
\* suspended account has no status left.
NoStatusAfterDelete ==
    dpc = "done" /\ dret = "nil" /\ ~failed => \A s \in statuses : s.acct # A

\* A Delete Note goes out only for a status that is gone from the database.
DeleteNoteOnlyForDeleted ==
    \A m \in queue : m.type = "DeleteNote" => m.obj \notin Ids(statuses)

====
