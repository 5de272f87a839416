------------------------------ MODULE Accounts ------------------------------
(***************************************************************************)
(* The account API: authorize -> account service -> account repository.    *)
(*                                                                         *)
(* Node runs a handler without interruption from one `await` to the next,  *)
(* and several replicas share one MongoDB, so the unit of interleaving is  *)
(* the section of a handler that ends in a database call.  Each action     *)
(* below is one such section, for the one request a client has in flight:  *)
(*                                                                         *)
(*   arrival -> [deny] | number* -> insert -> audit -> answer    (create)  *)
(*                     | find -> [write] -> audit -> answer      (others)  *)
(*                                                                         *)
(* Versions in audit entries and the order of the trail are auxiliary: the *)
(* code does not store them, the properties use them.                      *)
(***************************************************************************)
EXTENDS AccountStore, Roles, FiniteSets

CONSTANTS
    Clients,      \* SPA tabs, or API clients, with one request at a time
    RoleOf,       \* the role of the operator behind each client
    MaxAttempts,  \* allocateAccountNumber's limit: 5 in the code
    MaxVersion,   \* bound: no write arrives for a document at this version
    Versioned,    \* TRUE: every write carries expectedVersion, as the SPA's do
    Uses,         \* the operations the clients of an instance call
    UniqueIndex,  \* TRUE: the index accountNumberIndex declares has been built
    Crashes,      \* TRUE: processes die, database calls throw, answers are lost
    AuditFails    \* TRUE: appending to the audit collection may fail

ASSUME RoleOfAssumption == RoleOf \in [Clients -> Roles]
ASSUME MaxAttemptsAssumption == MaxAttempts \in Nat \ {0}
ASSUME MaxVersionAssumption == MaxVersion \in Nat
ASSUME FlagsAssumption ==
    /\ Versioned \in BOOLEAN
    /\ UniqueIndex \in BOOLEAN
    /\ Crashes \in BOOLEAN
    /\ AuditFails \in BOOLEAN

VARIABLES
    accounts,   \* the collection: a document or Null for each ObjectId
    issued,     \* the ObjectIds used so far; the driver never repeats one
    auditlogs,  \* the audit collection
    pc,         \* where each client's request is
    req,        \* the validated request
    current,    \* the handler's `current`: the document it has read
    result,     \* the document it will return
    tries,      \* attempt number of allocateAccountNumber
    seen        \* the last document an answer showed the client

vars == <<accounts, issued, auditlogs, pc, req, current, result, tries, seen>>

store == <<accounts, issued, auditlogs>>

-----------------------------------------------------------------------------
(* Requests, answers and audit entries.                                    *)

Reads == {"get", "lookup"}

Writes == {"update", "changeStatus", "close"}

Ops == {"create", "purge"} \cup Reads \cup Writes

\* The permission each route requires and each service method asserts again.
Required ==
    [create       |-> "account:create", get    |-> "account:read",
     lookup       |-> "account:read",   update |-> "account:update",
     changeStatus |-> "account:update", close  |-> "account:delete",
     purge        |-> "account:purge"]

Answers == {"ok", "notFound", "rule", "conflict", "forbidden"}

Sections == {"deny", "number", "insert", "find", "write", "audit"}

NoRequest ==
    [op |-> Null, id |-> Null, number |-> Null, expected |-> Null,
     details |-> Null, status |-> Null, deposit |-> Null]

Request ==
    [op : Ops \cup {Null}, id : Ids \cup {Null}, number : Numbers \cup {Null},
     expected : Nat \cup {Null}, details : Details \cup {Null},
     status : MutableStatuses \cup {Null}, deposit : Deposits \cup {Null}]

AuditActions ==
    [create       |-> "ACCOUNT_CREATED", get    |-> "ACCOUNT_VIEWED",
     lookup       |-> "ACCOUNT_VIEWED",  update |-> "ACCOUNT_UPDATED",
     changeStatus |-> "ACCOUNT_UPDATED", close  |-> "ACCOUNT_CLOSED",
     purge        |-> "ACCOUNT_PURGED"]

AuditEntry ==
    [action : {AuditActions[op] : op \in Ops} \cup {"ACCESS_DENIED"},
     subject : Ids \cup {Null}, version : Nat \cup {Null},
     from : AccountStatuses \cup {Null}, to : MutableStatuses \cup {Null}]

\* The expectedVersion values a client may send for a document: the version
\* it was last shown, or, for a client other than the SPA, none.
Offered(c, id) ==
    (IF Versioned THEN {} ELSE {Null})
      \cup (IF seen[c] # Null /\ seen[c].id = id THEN {seen[c].version} ELSE {})

\* The entry a handler appends once its database work is done.
Entry(c) ==
    LET op == req[c].op
        denied == pc[c] = "deny"
        restates == op = "changeStatus" /\ ~denied
    IN [action  |-> IF denied THEN "ACCESS_DENIED" ELSE AuditActions[op],
        subject |-> IF denied THEN Null ELSE req[c].id,
        version |-> IF denied \/ result[c] = Null THEN Null ELSE result[c].version,
        from    |-> IF restates THEN current[c].status ELSE Null,
        to      |-> IF restates THEN req[c].status ELSE Null]

TypeOK ==
    /\ accounts \in [Ids -> Account \cup {Null}]
    /\ issued \subseteq Ids
    /\ auditlogs \subseteq AuditEntry
    /\ pc \in [Clients -> Sections \cup Answers \cup {"idle"}]
    /\ req \in [Clients -> Request]
    /\ current \in [Clients -> Account \cup {Null}]
    /\ result \in [Clients -> Account \cup {Null}]
    /\ tries \in [Clients -> 0..MaxAttempts]
    /\ seen \in [Clients -> Account \cup {Null}]

Init ==
    /\ accounts = [id \in Ids |-> Null]
    /\ issued = {}
    /\ auditlogs = {}
    /\ pc = [c \in Clients |-> "idle"]
    /\ req = [c \in Clients |-> NoRequest]
    /\ current = [c \in Clients |-> Null]
    /\ result = [c \in Clients |-> Null]
    /\ tries = [c \in Clients |-> 0]
    /\ seen = [c \in Clients |-> Null]

-----------------------------------------------------------------------------
(* Arrival: authentication is taken as done; authorize decides from the    *)
(* actor's role, and the service's assertPermission repeats the same test. *)

FirstSection(op) == IF op = "create" THEN "number" ELSE "find"

Authorized(c, op) == RoleHasPermission(RoleOf[c], Required[op])

Receive(c, request) ==
    /\ pc[c] = "idle"
    /\ request.op \in Uses
    /\ req' = [req EXCEPT ![c] = request]
    /\ pc' = [pc EXCEPT ![c] = IF Authorized(c, request.op)
                                 THEN FirstSection(request.op)
                                 ELSE "deny"]
    /\ UNCHANGED <<store, current, result, tries, seen>>

\* Bound: one ObjectId is left for every create in flight.
RoomForAccount ==
    Cardinality(issued)
      + Cardinality({c \in Clients : pc[c] \in {"number", "insert"}})
        < Cardinality(Ids)

\* Bound: writes arrive for documents below MaxVersion only.
RoomForVersion(id) == accounts[id] # Null => accounts[id].version < MaxVersion

Post(c) ==
    /\ RoomForAccount
    /\ \E details \in Details, deposit \in Deposits :
          Receive(c, [NoRequest EXCEPT !.op = "create", !.details = details,
                                       !.deposit = deposit])

Get(c) ==
    \E id \in Ids : Receive(c, [NoRequest EXCEPT !.op = "get", !.id = id])

GetByNumber(c) ==
    \E number \in Numbers :
        Receive(c, [NoRequest EXCEPT !.op = "lookup", !.number = number])

Put(c) ==
    \E id \in Ids, details \in Details : \E version \in Offered(c, id) :
        /\ RoomForVersion(id)
        /\ Receive(c, [NoRequest EXCEPT !.op = "update", !.id = id,
                                        !.expected = version, !.details = details])

\* changeStatusSchema refuses CLOSED.
PatchStatus(c) ==
    \E id \in Ids, status \in MutableStatuses : \E version \in Offered(c, id) :
        /\ RoomForVersion(id)
        /\ Receive(c, [NoRequest EXCEPT !.op = "changeStatus", !.id = id,
                                        !.expected = version, !.status = status])

Delete(c) ==
    \E id \in Ids : \E version \in Offered(c, id) :
        /\ RoomForVersion(id)
        /\ Receive(c, [NoRequest EXCEPT !.op = "close", !.id = id,
                                        !.expected = version])

DeletePurge(c) ==
    \E id \in Ids : Receive(c, [NoRequest EXCEPT !.op = "purge", !.id = id])

Arrive(c) ==
    \/ Post(c) \/ Get(c) \/ GetByNumber(c) \/ Put(c)
    \/ PatchStatus(c) \/ Delete(c) \/ DeletePurge(c)

-----------------------------------------------------------------------------
(* The sections of the handlers.                                           *)

\* The request moves on and nothing else does.
Goto(c, section) ==
    /\ pc' = [pc EXCEPT ![c] = section]
    /\ UNCHANGED <<req, current, result, tries, seen>>

\* A mutant: the attempts are not counted.
CandidateTakenAgain(c) ==
    /\ pc[c] = "number"
    /\ \E number \in Numbers : NumberTaken(accounts, number)
    /\ Goto(c, "number")
    /\ UNCHANGED store

\* create: a candidate number is already in use.
CandidateTaken(c) ==
    /\ pc[c] = "number"
    /\ \E number \in Numbers : NumberTaken(accounts, number)
    /\ tries' = [tries EXCEPT ![c] = @ + 1]
    /\ pc' = [pc EXCEPT ![c] = IF tries[c] + 1 = MaxAttempts THEN "conflict" ELSE "number"]
    /\ UNCHANGED <<store, req, current, result, seen>>

CandidateFree(c) ==
    /\ pc[c] = "number"
    /\ \E number \in Numbers :
          /\ ~NumberTaken(accounts, number)
          /\ req' = [req EXCEPT ![c].number = number]
    /\ pc' = [pc EXCEPT ![c] = "insert"]
    /\ UNCHANGED <<store, current, result, tries, seen>>

\* A mutant: accountNumberIndex without its unique option.
NotUnique(number) == FALSE

\* create: the insert itself, refused by the unique index with E11000 when
\* another request took the number since it was found free.  Mongoose builds
\* the index at start-up, except in production (autoIndex).
DuplicateKey(number) == UniqueIndex /\ NumberTaken(accounts, number)

InsertRefused(c) ==
    /\ pc[c] = "insert"
    /\ DuplicateKey(req[c].number)
    /\ Goto(c, "conflict")
    /\ UNCHANGED store

Insert(c) ==
    /\ pc[c] = "insert"
    /\ ~DuplicateKey(req[c].number)
    /\ \E id \in Ids \ issued :
          LET doc == NewAccount(id, req[c].number, req[c].details, req[c].deposit)
          IN /\ accounts' = [accounts EXCEPT ![id] = doc]
             /\ issued' = issued \cup {id}
             /\ req' = [req EXCEPT ![c].id = id]
             /\ result' = [result EXCEPT ![c] = doc]
    /\ pc' = [pc EXCEPT ![c] = "audit"]
    /\ UNCHANGED <<auditlogs, current, tries, seen>>

\* getById and getByAccountNumber.
FindToRead(c) ==
    /\ pc[c] = "find"
    /\ req[c].op \in Reads
    /\ LET found == IF req[c].op = "get"
                      THEN {FindById(accounts, req[c].id, FALSE)} \ {Null}
                      ELSE FindByNumber(accounts, req[c].number)
       IN \/ /\ found = {}
             /\ Goto(c, "notFound")
          \/ \E doc \in found :
             /\ req' = [req EXCEPT ![c].id = doc.id]
             /\ result' = [result EXCEPT ![c] = doc]
             /\ pc' = [pc EXCEPT ![c] = "audit"]
             /\ UNCHANGED <<current, tries, seen>>
    /\ UNCHANGED store

\* Mutants: close without its balance check, purge without its closed check.
ForbiddenButClosable(op, doc) ==
    \/ op = "update" /\ doc.status \notin MutableStatuses
    \/ op = "purge" /\ ~doc.isDeleted

ForbiddenButPurgeable(op, doc) ==
    \/ op = "update" /\ doc.status \notin MutableStatuses
    \/ op = "close" /\ doc.balance # 0

\* The business rules of update, close and purge.
Forbidden(op, doc) ==
    \/ op = "update" /\ doc.status \notin MutableStatuses
    \/ op = "close" /\ doc.balance # 0
    \/ op = "purge" /\ ~doc.isDeleted

\* What the four mutating methods do with the document they have read.
\* changeStatus answers at once when there is nothing to change.
Decision(op, doc, status) ==
    IF doc = Null THEN "notFound"
    ELSE IF Forbidden(op, doc) THEN "rule"
    ELSE IF op = "changeStatus" /\ doc.status = status THEN "ok"
    ELSE "write"

FindToWrite(c) ==
    LET doc == FindById(accounts, req[c].id, req[c].op = "purge")
        next == Decision(req[c].op, doc, req[c].status)
    IN /\ pc[c] = "find"
       /\ req[c].op \in Writes \cup {"purge"}
       /\ current' = [current EXCEPT ![c] = doc]
       /\ result' = [result EXCEPT ![c] = IF next = "ok" THEN doc ELSE Null]
       /\ pc' = [pc EXCEPT ![c] = next]
       /\ UNCHANGED <<store, req, tries, seen>>

\* The document findOneAndUpdate leaves behind.
Written(c, doc) ==
    CASE req[c].op = "update"       -> Patched(doc, req[c].details)
      [] req[c].op = "changeStatus" -> Restated(doc, req[c].status)
      [] req[c].op = "close"        -> SoftDeleted(doc)

Write(c) ==
    LET id == req[c].id
        doc == Written(c, accounts[id])
    IN /\ pc[c] = "write"
       /\ req[c].op \in Writes
       /\ Matches(accounts[id], req[c].expected)
       /\ accounts' = [accounts EXCEPT ![id] = doc]
       /\ result' = [result EXCEPT ![c] = doc]
       /\ pc' = [pc EXCEPT ![c] = "audit"]
       /\ UNCHANGED <<issued, auditlogs, req, current, tries, seen>>

WriteRefused(c) ==
    /\ pc[c] = "write"
    /\ req[c].op \in Writes
    /\ ~Matches(accounts[req[c].id], req[c].expected)
    /\ Goto(c, "conflict")
    /\ UNCHANGED store

\* purge deletes whatever is there and does not look at the outcome.
Purge(c) ==
    /\ pc[c] = "write"
    /\ req[c].op = "purge"
    /\ accounts' = [accounts EXCEPT ![req[c].id] = Null]
    /\ Goto(c, "audit")
    /\ UNCHANGED <<issued, auditlogs>>

Audited(c) == IF pc[c] = "deny" THEN "forbidden" ELSE "ok"

\* A mutant: purge returns without an audit entry.
AppendAuditUnlessPurged(c) ==
    /\ pc[c] \in {"audit", "deny"}
    /\ auditlogs' = IF req[c].op = "purge" THEN auditlogs ELSE auditlogs \cup {Entry(c)}
    /\ Goto(c, Audited(c))
    /\ UNCHANGED <<accounts, issued>>

AppendAudit(c) ==
    /\ pc[c] \in {"audit", "deny"}
    /\ auditlogs' = auditlogs \cup {Entry(c)}
    /\ Goto(c, Audited(c))
    /\ UNCHANGED <<accounts, issued>>

\* audit() and authorize log a failed append and carry on.
FailAudit(c) ==
    /\ AuditFails
    /\ pc[c] \in {"audit", "deny"}
    /\ Goto(c, Audited(c))
    /\ UNCHANGED store

-----------------------------------------------------------------------------
(* Answers, crashes and lost answers.                                      *)

Forget(c) ==
    /\ pc' = [pc EXCEPT ![c] = "idle"]
    /\ req' = [req EXCEPT ![c] = NoRequest]
    /\ current' = [current EXCEPT ![c] = Null]
    /\ result' = [result EXCEPT ![c] = Null]
    /\ tries' = [tries EXCEPT ![c] = 0]
    /\ UNCHANGED store

Reply(c) ==
    /\ pc[c] \in Answers
    /\ seen' = [seen EXCEPT ![c] = IF pc[c] = "ok" /\ result[c] # Null
                                     THEN result[c] ELSE @]
    /\ Forget(c)

\* The process serving c dies, its database call throws (errorHandler: 500),
\* or the answer is lost: the client is shown nothing.
Drop(c) ==
    /\ Crashes
    /\ pc[c] # "idle"
    /\ Forget(c)
    /\ UNCHANGED seen

-----------------------------------------------------------------------------
Serve(c) ==
    \/ CandidateTaken(c) \/ CandidateFree(c) \/ InsertRefused(c) \/ Insert(c)
    \/ FindToRead(c) \/ FindToWrite(c)
    \/ Write(c) \/ WriteRefused(c) \/ Purge(c)
    \/ AppendAudit(c) \/ FailAudit(c)
    \/ Reply(c)

Next == \E c \in Clients : Arrive(c) \/ Serve(c) \/ Drop(c)

\* Node's event loop resumes every handler whose database call has returned,
\* and the driver's timeouts make every call return or throw.
Fairness == \A c \in Clients : WF_vars(Serve(c))

Spec == Init /\ [][Next]_vars

FairSpec == Spec /\ Fairness
-----------------------------------------------------------------------------
(* Safety.                                                                 *)

Snapshots == {current[c] : c \in Clients} \cup {result[c] : c \in Clients}
                 \cup {seen[c] : c \in Clients}

Held == Snapshots \ {Null}

\* A document someone holds - a handler between two awaits, or a client - was
\* issued by the database, is never ahead of the stored one, and is the stored
\* one when the versions agree: the version number alone tells whether a copy
\* is stale, which is what expectedVersion relies on.
VersionIdentifiesContent ==
    /\ \A doc \in Held :
          /\ doc.id \in issued
          /\ accounts[doc.id] # Null =>
                \/ doc.version < accounts[doc.id].version
                \/ doc = accounts[doc.id]
    /\ \A doc, other \in Held :
          doc.id = other.id /\ doc.version = other.version => doc = other

\* CLOSED and isDeleted are two fields written together and filtered on apart
\* (changeStatus never writes CLOSED, findById never looks at status): no
\* interleaving of a close with an update makes them disagree, and a closed
\* account holds no money.
ClosedIsDeletedAndEmpty ==
    \A id \in Ids : accounts[id] # Null =>
        /\ accounts[id].isDeleted <=> accounts[id].status = "CLOSED"
        /\ accounts[id].isDeleted => accounts[id].balance = 0

\* The exists-then-insert race of two creates never yields two documents with
\* one account number, closed accounts included.
UniqueNumbers ==
    \A i, j \in Ids :
        accounts[i] # Null /\ accounts[j] # Null /\ accounts[i].number = accounts[j].number
            => i = j

\* A document is stored under its own id, which was issued.
StoredUnderOwnId ==
    \A id \in Ids : accounts[id] # Null => accounts[id].id = id /\ id \in issued

\* What the handler has in hand in each of its sections.
RequestShape ==
    \A c \in Clients :
        /\ pc[c] # "idle" => req[c].op \in Ops
        /\ pc[c] \in {"number", "insert"} =>
              /\ req[c].op = "create"
              /\ req[c].details \in Details
              /\ req[c].deposit \in Deposits
        /\ pc[c] = "idle" => tries[c] = 0
        /\ pc[c] = "number" => tries[c] < MaxAttempts
        /\ pc[c] = "insert" => req[c].number \in Numbers
        /\ pc[c] = "find" => req[c].op # "create"
        /\ pc[c] \in {"find", "write"} =>
              /\ req[c].op # "lookup" => req[c].id \in Ids
              /\ req[c].op = "update" => req[c].details \in Details
        /\ pc[c] # "idle" /\ req[c].op = "changeStatus" => req[c].status \in MutableStatuses
        /\ pc[c] = "write" => req[c].op \in Writes \cup {"purge"}
        /\ pc[c] = "audit" => req[c].id \in issued

\* What a handler decided from its copy still holds when it writes: the copy is
\* of the requested document, a close found no money and the balance has not
\* moved, a purge found a closed account and it is closed or gone, and the
\* version to be checked is the one the client was shown.
PendingDecisions ==
    \A c \in Clients :
        /\ pc[c] \in {"write", "audit"} /\ req[c].op \in Writes =>
              current[c] # Null /\ current[c].id = req[c].id
        /\ pc[c] = "write" /\ req[c].op = "close" => current[c].balance = 0
        /\ pc[c] = "write" /\ req[c].op = "purge" =>
              /\ req[c].id \in issued
              /\ accounts[req[c].id] # Null => accounts[req[c].id].isDeleted
        /\ pc[c] \in {"find", "write"} /\ req[c].op \in Writes /\ req[c].expected # Null =>
              /\ seen[c] # Null
              /\ seen[c].id = req[c].id
              /\ seen[c].version = req[c].expected

\* No operation of the API moves money, so every copy shows the balance.
BalancesFixed ==
    \A doc \in Held : accounts[doc.id] # Null => doc.balance = accounts[doc.id].balance

\* The inductive invariant: what the properties above and below rest on.
IndInv ==
    /\ TypeOK
    /\ StoredUnderOwnId
    /\ RequestShape
    /\ VersionIdentifiesContent
    /\ ClosedIsDeletedAndEmpty
    /\ BalancesFixed
    /\ PendingDecisions

\* The trail with the entries about to be appended.
Trail == auditlogs \cup {Entry(c) : c \in {d \in Clients : pc[d] = "audit"}}

\* An entry never says more than happened: an account audited as purged is
\* gone, the close it audits was the last write, an update it audits is at or
\* behind the stored version.
AuditTruthful ==
    \A e \in auditlogs :
        /\ e.action # "ACCESS_DENIED" => e.subject \in issued
        /\ e.action = "ACCOUNT_PURGED" => accounts[e.subject] = Null
        /\ e.action = "ACCOUNT_CLOSED" /\ accounts[e.subject] # Null
              => accounts[e.subject].isDeleted /\ accounts[e.subject].version = e.version
        /\ e.action = "ACCOUNT_UPDATED" /\ accounts[e.subject] # Null
              => e.version <= accounts[e.subject].version

\* README.md, "Errors, logging and audit": every create, read, update, close
\* and purge is written to the audit collection.  Of every stored version, of
\* every erasure and of every successful answer there is an entry, in the
\* trail or about to be appended.
AuditComplete ==
    /\ \A id \in issued :
          IF accounts[id] = Null
            THEN \E e \in Trail : e.action = "ACCOUNT_PURGED" /\ e.subject = id
            ELSE \A v \in 0..accounts[id].version :
                    \E e \in Trail : /\ e.subject = id /\ e.version = v
                                     /\ e.action # "ACCOUNT_VIEWED"
    /\ \A c \in Clients :
          pc[c] = "ok" /\ req[c].op \in Reads =>
              \E e \in auditlogs : /\ e.action = "ACCOUNT_VIEWED"
                                   /\ e.subject = req[c].id
                                   /\ e.version = result[c].version

Restatements == {e \in Trail : e.to # Null}

\* Each status change is audited with the status it really replaced: `from`,
\* taken from a document read before the write, is the `to` of the change
\* before it, or ACTIVE for the first.
StatusTrailConnected ==
    \A e \in Restatements :
        LET earlier == {f \in Restatements : f.subject = e.subject /\ f.version < e.version}
        IN IF earlier = {}
             THEN e.from = "ACTIVE"
             ELSE \E f \in earlier : /\ \A g \in earlier : g.version <= f.version
                                     /\ e.from = f.to

-----------------------------------------------------------------------------
(* What a step may never do.                                               *)

\* A write that carries expectedVersion replaces exactly the document its
\* client was shown: nobody's change is silently overwritten.
NoLostUpdate ==
    [][\A c \in Clients :
          (/\ pc[c] = "write" /\ pc'[c] = "audit"
           /\ req[c].op \in Writes /\ req[c].expected # Null)
              => accounts[req[c].id] = seen[c]]_vars

\* A closed account is never written again; all that can happen to it is
\* erasure, and an erased or never-issued id is only ever filled by a create
\* with an id no document had.
ClosedIsFinal ==
    [][\A id \in Ids :
          /\ accounts[id] # Null /\ accounts[id].isDeleted
                => accounts'[id] \in {accounts[id], Null}
          /\ accounts[id] = Null /\ accounts'[id] # Null => id \notin issued]_vars

-----------------------------------------------------------------------------
(* Liveness and refinement.                                                *)

\* Every request is answered, the bounded retry of create included.
Answered == \A c \in Clients : pc[c] # "idle" ~> pc[c] = "idle"

Lifecycle ==
    INSTANCE AccountLifecycle WITH
        phase <- [id \in Ids |->
                    IF accounts[id] # Null THEN accounts[id].status
                    ELSE IF id \in issued THEN "ERASED" ELSE "NEW"],
        funds <- [id \in Ids |-> IF accounts[id] # Null THEN accounts[id].balance ELSE 0]

\* The concurrent API implements the life of an account that AccountLifecycle
\* promises.
ImplementsLifecycle == Lifecycle!Spec
=============================================================================
