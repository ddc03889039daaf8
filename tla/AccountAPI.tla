----------------------------- MODULE AccountAPI -----------------------------
(***************************************************************************)
(* Two account operations of the client API against the database:        *)
(*                                                                         *)
(*  - AccountGETHandler (api/client/account/accountget.go) answers         *)
(*    GET /api/v1/accounts/:id from processor.AccountGet;                  *)
(*  - processor.BlockRemove (processing/account/removeblock.go) looks the *)
(*    target up, finds the requester's block of it, deletes that row,     *)
(*    queues an Undo Block message for the client worker and answers with *)
(*    RelationshipGet.                                                     *)
(*                                                                         *)
(* Each database call is one step, so requests of several goroutines      *)
(* interleave between them as they do on the shared database.  A block    *)
(* row is identified by its <<account_id, target_account_id>> pair.  The  *)
(* database may fail any call when DBFaults holds; bun's DeleteByID of a   *)
(* row that is already gone deletes nothing and returns no error.         *)
(***************************************************************************)
EXTENDS Naturals, Sequences, FiniteSets

CONSTANTS
    Accounts,     \* accounts in the database
    Missing,      \* an account id no row has
    Callers,      \* goroutines serving client requests
    Requester,    \* Requester[c]: the authorised account c serves
    DBFaults,     \* whether database calls may fail
    MaxRequests   \* bound on BlockRemove requests, all callers together

ASSUME Requester \in [Callers -> Accounts]

Pairs == Accounts \X Accounts
Ids == Accounts \cup {Missing}
Codes == {200, 400, 401, 404, 406, 500}

VARIABLES
    blocks,    \* the block table: pairs <<account, target>>
    queue,     \* messages queued on the client worker, in order
    requests,  \* BlockRemove requests made so far
    pc,        \* per caller: where it is in BlockRemove
    target,    \* per caller: targetAccountID of its request
    resp,      \* per caller: its last BlockRemove response
    getResp,   \* the last AccountGETHandler response
    gwFailed   \* ghost, per caller: its GetWhere failed on a block that exists

vars == <<blocks, queue, requests, pc, target, resp, getResp, gwFailed>>

\* the block the caller c asks to remove
Pair(c) == <<Requester[c], target[c]>>

\* caller c returns response r from BlockRemove
Respond(c, r) ==
    /\ pc' = [pc EXCEPT ![c] = "idle"]
    /\ resp' = [resp EXCEPT ![c] = r]

Goto(c, s) == pc' = [pc EXCEPT ![c] = s]

-----------------------------------------------------------------------------
(***************************************************************************)
(* AccountGETHandler                                                       *)
(***************************************************************************)

\* processor.AccountGet: the account's API model, or NotFound for an id no
\* row has, or an internal error when the database fails
AccountGetResults(id) ==
    IF id \in Accounts
    THEN {[acct |-> id, code |-> 200]}
         \cup (IF DBFaults THEN {[acct |-> "nil", code |-> 500]} ELSE {})
    ELSE {[acct |-> "nil", code |-> 404]}

\* oauth.Authed, NegotiateAccept and the empty id each return early
\* (gin's /:id route never binds an empty id); then the processor's result
\* is tested through `err`, the error of oauth.Authed, which is nil there,
\* so the handler answers 200 with whatever AccountGet returned
AccountGETHandler ==
    /\ \E authed \in BOOLEAN, accept \in BOOLEAN, id \in Ids :
          \/ ~authed /\ getResp' = [code |-> 401, body |-> "nil"]
          \/ authed /\ ~accept /\ getResp' = [code |-> 406, body |-> "nil"]
          \/ /\ authed /\ accept
             /\ \E r \in AccountGetResults(id) :
                   getResp' = [code |-> 200, body |-> r.acct]
    /\ UNCHANGED <<blocks, queue, requests, pc, target, resp, gwFailed>>

-----------------------------------------------------------------------------
(***************************************************************************)
(* BlockRemove                                                             *)
(***************************************************************************)

\* a request arrives and GetAccountByID(targetAccountID) runs
GetAccountByID(c) ==
    /\ pc[c] = "idle" /\ requests < MaxRequests
    /\ requests' = requests + 1
    /\ gwFailed' = [gwFailed EXCEPT ![c] = FALSE]
    /\ \E t \in Ids :
          /\ target' = [target EXCEPT ![c] = t]
          /\ \/ t \in Accounts /\ Goto(c, "getwhere") /\ UNCHANGED resp
             \/ /\ t \notin Accounts \/ DBFaults
                /\ Respond(c, [code |-> 404, blocking |-> "nil"])
    /\ UNCHANGED <<blocks, queue, getResp>>

\* Mutant: the Undo is queued whether or not a block was found, carrying
\* the empty gtsmodel.Block GetWhere did not fill
GetWhereAlwaysChanged(c) ==
    /\ pc[c] = "getwhere"
    /\ \/ /\ Pair(c) \in blocks
          /\ Goto(c, "delete")
          /\ UNCHANGED queue
       \/ /\ Pair(c) \notin blocks \/ DBFaults
          /\ queue' = Append(queue, [type |-> "Undo", block |-> "empty"])
          /\ Goto(c, "relationship")
    /\ UNCHANGED <<blocks, requests, target, resp, getResp, gwFailed>>

\* GetWhere(account_id, target_account_id): any error, not only "no
\* entries", leaves blockChanged false
GetWhere(c) ==
    /\ pc[c] = "getwhere"
    /\ \/ /\ Pair(c) \in blocks
          /\ Goto(c, "delete")
          /\ UNCHANGED gwFailed
       \/ /\ Pair(c) \notin blocks \/ DBFaults
          /\ Goto(c, "relationship")
          /\ gwFailed' = [gwFailed EXCEPT ![c] = Pair(c) \in blocks]
    /\ UNCHANGED <<blocks, queue, requests, target, resp, getResp>>

\* DeleteByID(block.ID), which returns 500 on error; then, blockChanged
\* being true, the Undo Block message is queued for the client worker
DeleteByID(c) ==
    /\ pc[c] = "delete"
    /\ \/ /\ blocks' = blocks \ {Pair(c)}
          /\ queue' = Append(queue, [type |-> "Undo", block |-> Pair(c)])
          /\ Goto(c, "relationship")
          /\ UNCHANGED resp
       \/ /\ DBFaults
          /\ Respond(c, [code |-> 500, blocking |-> "nil"])
          /\ UNCHANGED <<blocks, queue>>
    /\ UNCHANGED <<requests, target, getResp, gwFailed>>

\* Mutant: the relationship is the one read before the delete
RelationshipGetStale(c) ==
    /\ pc[c] = "relationship"
    /\ Respond(c, [code |-> 200,
                   blocking |-> Pair(c) \in blocks \cup {Pair(c)}])
    /\ UNCHANGED <<blocks, queue, requests, target, getResp, gwFailed>>

\* return p.RelationshipGet(requester, targetAccountID): it reads the
\* block table, or fails with the database
RelationshipGet(c) ==
    /\ pc[c] = "relationship"
    /\ \/ Respond(c, [code |-> 200, blocking |-> Pair(c) \in blocks])
       \/ DBFaults /\ Respond(c, [code |-> 500, blocking |-> "nil"])
    /\ UNCHANGED <<blocks, queue, requests, target, getResp, gwFailed>>

-----------------------------------------------------------------------------

Init ==
    /\ blocks \in SUBSET Pairs
    /\ queue = <<>>
    /\ requests = 0
    /\ pc = [c \in Callers |-> "idle"]
    /\ target = [c \in Callers |-> Missing]
    /\ resp = [c \in Callers |-> [code |-> 0, blocking |-> "nil"]]
    /\ getResp = [code |-> 0, body |-> "nil"]
    /\ gwFailed = [c \in Callers |-> FALSE]

Next ==
    \/ AccountGETHandler
    \/ \E c \in Callers :
          \/ GetAccountByID(c) \/ GetWhere(c) \/ DeleteByID(c)
          \/ RelationshipGet(c)

Spec == Init /\ [][Next]_vars

-----------------------------------------------------------------------------
(***************************************************************************)
(* Properties.                                                             *)
(***************************************************************************)

TypeOK ==
    /\ blocks \subseteq Pairs
    /\ queue \in Seq([type : {"Undo"}, block : Pairs])
    /\ requests \in 0..MaxRequests
    /\ pc \in [Callers -> {"idle", "getwhere", "delete", "relationship"}]
    /\ target \in [Callers -> Ids]
    /\ \A c \in Callers : resp[c].code \in Codes \cup {0}
    /\ getResp.code \in Codes \cup {0}

\* BlockRemove queues at most one Undo per removed block, so the worker
\* federates one Undo for each unblock, whatever requests interleave.
UndoOncePerBlock ==
    \A p \in Pairs :
       Len(SelectSeq(queue, LAMBDA m : m.block = p)) <= 1

\* A BlockRemove that answers 200 reports the requester as no longer
\* blocking the target.
UnblockReportsUnblocked ==
    \A c \in Callers : pc[c] = "idle" /\ resp[c].code = 200 =>
       resp[c].blocking = FALSE

\* An AccountGETHandler answer with status 200 carries an account.
OKCarriesAccount ==
    getResp.code = 200 => getResp.body \in Accounts

\* A BlockRemove that answers 200 while the requester still blocks the
\* target is one whose GetWhere failed on a block that was there: the
\* handler takes any lookup error for "no block" and carries on, and that
\* is the only way the unblock is silently skipped.
StillBlockingOnlyAfterLookupError ==
    \A c \in Callers :
        pc[c] = "idle" /\ resp[c].code = 200 /\ resp[c].blocking = TRUE =>
            gwFailed[c]

====
