--------------------------- MODULE AccountsProofs ---------------------------
(***************************************************************************)
(* Theorems about Accounts, for every set of clients, ids, numbers and     *)
(* values, every assignment of roles, every bound, and with or without     *)
(* faults, but for the two theorems that say otherwise.                    *)
(***************************************************************************)
EXTENDS Accounts, TLAPS

-----------------------------------------------------------------------------
(* The documents the repository returns and writes.                        *)

\* findById returns null or the stored document, never a closed one unless
\* asked.
LEMMA FindByIdReturns ==
    ASSUME NEW coll, NEW id \in Ids, NEW flag \in BOOLEAN, coll[id] \in Account \cup {Null}
    PROVE  /\ FindById(coll, id, flag) \in {coll[id], Null}
           /\ FindById(coll, id, flag) # Null /\ ~flag => ~coll[id].isDeleted
BY DEF FindById

\* A later version of a document: same account, same number, same balance.
Successor(new, doc) ==
    /\ new \in Account
    /\ new.id = doc.id
    /\ new.number = doc.number
    /\ new.balance = doc.balance
    /\ new.version = doc.version + 1

\* Each of the three writes makes a successor; the first two leave isDeleted
\* alone, the third sets it with the status.
LEMMA PatchedIsSuccessor ==
    ASSUME NEW doc \in Account, NEW details \in Details
    PROVE  /\ Successor(Patched(doc, details), doc)
           /\ Patched(doc, details).isDeleted = doc.isDeleted
           /\ Patched(doc, details).status = doc.status
<1>1. ASSUME NEW v \in Nat
      PROVE  /\ [doc EXCEPT !.details = details, !.version = v] \in Account
             /\ [doc EXCEPT !.details = details, !.version = v].id = doc.id
             /\ [doc EXCEPT !.details = details, !.version = v].number = doc.number
             /\ [doc EXCEPT !.details = details, !.version = v].balance = doc.balance
             /\ [doc EXCEPT !.details = details, !.version = v].version = v
             /\ [doc EXCEPT !.details = details, !.version = v].isDeleted = doc.isDeleted
             /\ [doc EXCEPT !.details = details, !.version = v].status = doc.status
  BY DEF Account
<1>2. doc.version + 1 \in Nat
  BY DEF Account
<1> QED
  BY <1>1, <1>2 DEF Patched, Successor

\* The same of changeStatus: only status and version move.
LEMMA RestatedIsSuccessor ==
    ASSUME NEW doc \in Account, NEW status \in MutableStatuses
    PROVE  /\ Successor(Restated(doc, status), doc)
           /\ Restated(doc, status).isDeleted = doc.isDeleted
           /\ Restated(doc, status).status = status
<1>0. status \in AccountStatuses
  BY DEF AccountStatuses, MutableStatuses
<1>1. ASSUME NEW v \in Nat
      PROVE  /\ [doc EXCEPT !.status = status, !.version = v] \in Account
             /\ [doc EXCEPT !.status = status, !.version = v].id = doc.id
             /\ [doc EXCEPT !.status = status, !.version = v].number = doc.number
             /\ [doc EXCEPT !.status = status, !.version = v].balance = doc.balance
             /\ [doc EXCEPT !.status = status, !.version = v].version = v
             /\ [doc EXCEPT !.status = status, !.version = v].isDeleted = doc.isDeleted
             /\ [doc EXCEPT !.status = status, !.version = v].status = status
  BY <1>0 DEF Account
<1>2. doc.version + 1 \in Nat
  BY DEF Account
<1> QED
  BY <1>1, <1>2 DEF Restated, Successor

\* The same of a close: the document is flagged and CLOSED together.
LEMMA SoftDeletedIsSuccessor ==
    ASSUME NEW doc \in Account
    PROVE  /\ Successor(SoftDeleted(doc), doc)
           /\ SoftDeleted(doc).isDeleted
           /\ SoftDeleted(doc).status = "CLOSED"
<1> DEFINE Del(v) == [doc EXCEPT !.isDeleted = TRUE, !.status = "CLOSED", !.version = v]
<1>1. ASSUME NEW v \in Nat
      PROVE  /\ Del(v) \in Account
             /\ Del(v).id = doc.id
             /\ Del(v).number = doc.number
             /\ Del(v).balance = doc.balance
             /\ Del(v).version = v
             /\ Del(v).isDeleted
             /\ Del(v).status = "CLOSED"
  BY DEF Account, AccountStatuses
<1>2. doc.version + 1 \in Nat
  BY DEF Account
<1> QED
  BY <1>1, <1>2 DEF SoftDeleted, Successor

\* A new document is a document, open and at version 0.
LEMMA NewAccountIsAccount ==
    ASSUME NEW id \in Ids, NEW number \in Numbers, NEW details \in Details,
           NEW deposit \in Deposits
    PROVE  /\ NewAccount(id, number, details, deposit) \in Account
           /\ NewAccount(id, number, details, deposit).id = id
           /\ NewAccount(id, number, details, deposit).number = number
           /\ NewAccount(id, number, details, deposit).version = 0
           /\ ~NewAccount(id, number, details, deposit).isDeleted
           /\ NewAccount(id, number, details, deposit).status = "ACTIVE"
BY DEF NewAccount, Account, AccountStatuses

-----------------------------------------------------------------------------
(* Type correctness.                                                       *)

\* An empty collection and idle clients are well typed.
LEMMA InitType == Init => TypeOK
BY MaxAttemptsAssumption DEF Init, TypeOK, NoRequest, Request

\* What validation and the client guarantee of a request on its arrival.
WellFormed(c, r) ==
    /\ r.op \in Ops
    /\ r.op = "create" => r.details \in Details /\ r.deposit \in Deposits
    /\ r.op \notin {"create", "lookup"} => r.id \in Ids
    /\ r.op = "update" => r.details \in Details
    /\ r.op = "changeStatus" => r.status \in MutableStatuses
    /\ r.op \in Writes /\ r.expected # Null =>
          /\ seen[c] # Null
          /\ seen[c].id = r.id
          /\ seen[c].version = r.expected
    /\ Versioned /\ r.op \in Writes => r.expected # Null

\* Every arrival is the reception of a well-formed request.
LEMMA ArriveShape ==
    ASSUME IndInv, NEW c \in Clients, Arrive(c)
    PROVE  \E r \in Request : WellFormed(c, r) /\ Receive(c, r)
<1>0. NoRequest \in Request
  BY DEF NoRequest, Request
<1>1. \A id \in Ids : \A v \in Offered(c, id) :
        /\ v \in Nat \cup {Null}
        /\ v # Null => /\ seen[c] # Null
                       /\ seen[c].id = id
                       /\ seen[c].version = v
        /\ Versioned => v # Null
  BY NullAssumption DEF IndInv, TypeOK, Offered, Account
<1>2. CASE Post(c)
  <2>1. PICK details \in Details, deposit \in Deposits :
          Receive(c, [NoRequest EXCEPT !.op = "create", !.details = details,
                                       !.deposit = deposit])
    BY <1>2 DEF Post
  <2> DEFINE r == [NoRequest EXCEPT !.op = "create", !.details = details,
                                    !.deposit = deposit]
  <2>2. r \in Request
    BY DEF NoRequest, Request, Ops
  <2>3. WellFormed(c, r)
    BY DEF NoRequest, WellFormed, Ops, Writes
  <2> QED
    BY <2>1, <2>2, <2>3
<1>3. CASE Get(c)
  <2>1. PICK id \in Ids : Receive(c, [NoRequest EXCEPT !.op = "get", !.id = id])
    BY <1>3 DEF Get
  <2> DEFINE r == [NoRequest EXCEPT !.op = "get", !.id = id]
  <2>2. r \in Request
    BY DEF NoRequest, Request, Ops, Reads
  <2>3. WellFormed(c, r)
    BY DEF NoRequest, WellFormed, Ops, Reads, Writes
  <2> QED
    BY <2>1, <2>2, <2>3
<1>4. CASE GetByNumber(c)
  <2>1. PICK number \in Numbers :
          Receive(c, [NoRequest EXCEPT !.op = "lookup", !.number = number])
    BY <1>4 DEF GetByNumber
  <2> DEFINE r == [NoRequest EXCEPT !.op = "lookup", !.number = number]
  <2>2. r \in Request
    BY DEF NoRequest, Request, Ops, Reads
  <2>3. WellFormed(c, r)
    BY DEF NoRequest, WellFormed, Ops, Reads, Writes
  <2> QED
    BY <2>1, <2>2, <2>3
<1>5. CASE Put(c)
  <2>0. PICK id \in Ids, details \in Details : \E version \in Offered(c, id) :
          Receive(c, [NoRequest EXCEPT !.op = "update", !.id = id,
                                       !.expected = version, !.details = details])
    BY <1>5 DEF Put
  <2>1. PICK version \in Offered(c, id) :
          Receive(c, [NoRequest EXCEPT !.op = "update", !.id = id,
                                       !.expected = version, !.details = details])
    BY <2>0
  <2> DEFINE r == [NoRequest EXCEPT !.op = "update", !.id = id,
                                    !.expected = version, !.details = details]
  <2>2. r \in Request
    BY <1>1, <2>1 DEF NoRequest, Request, Ops, Writes
  <2>3. WellFormed(c, r)
    BY <1>1, <2>1 DEF NoRequest, WellFormed, Ops, Writes
  <2> QED
    BY <2>1, <2>2, <2>3
<1>6. CASE PatchStatus(c)
  <2>0. PICK id \in Ids, status \in MutableStatuses : \E version \in Offered(c, id) :
          Receive(c, [NoRequest EXCEPT !.op = "changeStatus", !.id = id,
                                       !.expected = version, !.status = status])
    BY <1>6 DEF PatchStatus
  <2>1. PICK version \in Offered(c, id) :
          Receive(c, [NoRequest EXCEPT !.op = "changeStatus", !.id = id,
                                       !.expected = version, !.status = status])
    BY <2>0
  <2> DEFINE r == [NoRequest EXCEPT !.op = "changeStatus", !.id = id,
                                    !.expected = version, !.status = status]
  <2>2. r \in Request
    BY <1>1, <2>1 DEF NoRequest, Request, Ops, Writes
  <2>3. WellFormed(c, r)
    BY <1>1, <2>1 DEF NoRequest, WellFormed, Ops, Writes
  <2> QED
    BY <2>1, <2>2, <2>3
<1>7. CASE Delete(c)
  <2>0. PICK id \in Ids : \E version \in Offered(c, id) :
          Receive(c, [NoRequest EXCEPT !.op = "close", !.id = id, !.expected = version])
    BY <1>7 DEF Delete
  <2>1. PICK version \in Offered(c, id) :
          Receive(c, [NoRequest EXCEPT !.op = "close", !.id = id, !.expected = version])
    BY <2>0
  <2> DEFINE r == [NoRequest EXCEPT !.op = "close", !.id = id, !.expected = version]
  <2>2. r \in Request
    BY <1>1, <2>1 DEF NoRequest, Request, Ops, Writes
  <2>3. WellFormed(c, r)
    BY <1>1, <2>1 DEF NoRequest, WellFormed, Ops, Writes
  <2> QED
    BY <2>1, <2>2, <2>3
<1>8. CASE DeletePurge(c)
  <2>1. PICK id \in Ids : Receive(c, [NoRequest EXCEPT !.op = "purge", !.id = id])
    BY <1>8 DEF DeletePurge
  <2> DEFINE r == [NoRequest EXCEPT !.op = "purge", !.id = id]
  <2>2. r \in Request
    BY DEF NoRequest, Request, Ops
  <2>3. WellFormed(c, r)
    BY DEF NoRequest, WellFormed, Ops, Writes
  <2> QED
    BY <2>1, <2>2, <2>3
<1> QED
  BY <1>2, <1>3, <1>4, <1>5, <1>6, <1>7, <1>8 DEF Arrive

\* What FindToRead finds is a stored document that is not closed.
LEMMA FindsAreStored ==
    ASSUME IndInv, NEW c \in Clients, pc[c] = "find", req[c].op \in Reads,
           NEW doc \in IF req[c].op = "get"
                         THEN {FindById(accounts, req[c].id, FALSE)} \ {Null}
                         ELSE FindByNumber(accounts, req[c].number)
    PROVE  /\ doc \in Account
           /\ doc.id \in Ids
           /\ doc = accounts[doc.id]
           /\ doc.id \in issued
<1>1. PICK id \in Ids : accounts[id] # Null /\ doc = accounts[id]
  BY DEF IndInv, RequestShape, Reads, FindById, FindByNumber
<1> QED
  BY <1>1 DEF IndInv, TypeOK, StoredUnderOwnId

\* A mutating request names one of the ids.
LEMMA WriteTargets ==
    ASSUME IndInv, NEW c \in Clients, pc[c] \in {"find", "write"},
           req[c].op \in Writes \cup {"purge"}
    PROVE  req[c].id \in Ids /\ accounts[req[c].id] \in Account \cup {Null}
BY DEF IndInv, RequestShape, TypeOK, Writes

\* findOneAndUpdate leaves a successor of an open document behind.
LEMMA WriteIsSuccessor ==
    ASSUME IndInv, NEW c \in Clients, Write(c)
    PROVE  /\ req[c].id \in Ids
           /\ accounts[req[c].id] \in Account
           /\ ~accounts[req[c].id].isDeleted
           /\ req[c].expected # Null => accounts[req[c].id].version = req[c].expected
           /\ Successor(Written(c, accounts[req[c].id]), accounts[req[c].id])
           /\ req[c].op # "close" => ~Written(c, accounts[req[c].id]).isDeleted
           /\ req[c].op = "update" =>
                Written(c, accounts[req[c].id]).status = accounts[req[c].id].status
           /\ req[c].op = "changeStatus" =>
                Written(c, accounts[req[c].id]).status \in MutableStatuses
           /\ req[c].op = "close" =>
                /\ Written(c, accounts[req[c].id]).isDeleted
                /\ Written(c, accounts[req[c].id]).status = "CLOSED"
<1>1. pc[c] = "write" /\ req[c].op \in Writes
  BY DEF Write
<1>2. req[c].id \in Ids
  BY <1>1, WriteTargets
<1>3. /\ accounts[req[c].id] \in Account
      /\ ~accounts[req[c].id].isDeleted
      /\ req[c].expected # Null => accounts[req[c].id].version = req[c].expected
  BY <1>2 DEF Write, Matches, IndInv, TypeOK
<1>4. /\ req[c].op = "update" => req[c].details \in Details
      /\ req[c].op = "changeStatus" => req[c].status \in MutableStatuses
  BY <1>1 DEF IndInv, RequestShape
<1>5. CASE req[c].op = "update"
  BY <1>2, <1>3, <1>4, <1>5, PatchedIsSuccessor DEF Written
<1>6. CASE req[c].op = "changeStatus"
  BY <1>2, <1>3, <1>4, <1>6, RestatedIsSuccessor DEF Written
<1>7. CASE req[c].op = "close"
  BY <1>2, <1>3, <1>7, SoftDeletedIsSuccessor DEF Written
<1> QED
  BY <1>1, <1>5, <1>6, <1>7 DEF Writes

\* The entry a request is about to append is an audit entry.
LEMMA EntryType ==
    ASSUME IndInv, NEW c \in Clients, pc[c] \in {"audit", "deny"}
    PROVE  Entry(c) \in AuditEntry
<1>1. req[c].op \in Ops
  BY DEF IndInv, RequestShape
<1>2. CASE pc[c] = "deny"
  BY <1>2 DEF Entry, AuditEntry
<1>3. CASE pc[c] = "audit"
  <2>1. req[c].id \in Ids
    BY <1>3 DEF IndInv, RequestShape, TypeOK
  <2>2. AuditActions[req[c].op] \in {AuditActions[op] : op \in Ops}
    BY <1>1
  <2>3. result[c] # Null => result[c].version \in Nat
    BY DEF IndInv, TypeOK, Account
  <2>4. req[c].op = "changeStatus" =>
          req[c].status \in MutableStatuses /\ current[c].status \in AccountStatuses
    BY <1>3 DEF IndInv, TypeOK, RequestShape, PendingDecisions, Writes, Account
  <2> QED
    BY <1>3, <2>1, <2>2, <2>3, <2>4 DEF Entry, AuditEntry
<1> QED
  BY <1>2, <1>3

\* Every step keeps every variable in its type.
LEMMA TypeStep ==
    ASSUME IndInv, Next
    PROVE  TypeOK'
<1>0. TypeOK
  BY DEF IndInv
<1>1. PICK c \in Clients : Arrive(c) \/ Serve(c) \/ Drop(c)
  BY DEF Next
<1> USE DEF TypeOK, store
<1>2. CASE Arrive(c)
  <2>1. PICK r \in Request : WellFormed(c, r) /\ Receive(c, r)
    BY <1>2, ArriveShape
  <2> QED
    BY <1>0, <2>1 DEF Receive, FirstSection, Sections
<1>3. CASE CandidateTaken(c)
  BY <1>0, <1>3, MaxAttemptsAssumption DEF CandidateTaken, IndInv, RequestShape, Sections, Answers
<1>4. CASE CandidateFree(c)
  <2>1. PICK number \in Numbers : req' = [req EXCEPT ![c].number = number]
    BY <1>4 DEF CandidateFree
  <2>2. req' \in [Clients -> Request]
    BY <1>0, <2>1 DEF Request
  <2> QED
    BY <1>0, <1>4, <2>2 DEF CandidateFree, Sections
<1>5. CASE InsertRefused(c)
  BY <1>0, <1>5 DEF InsertRefused, Goto, Answers
<1>6. CASE Insert(c)
  <2>1. PICK id \in Ids \ issued :
          LET doc == NewAccount(id, req[c].number, req[c].details, req[c].deposit)
          IN /\ accounts' = [accounts EXCEPT ![id] = doc]
             /\ issued' = issued \cup {id}
             /\ req' = [req EXCEPT ![c].id = id]
             /\ result' = [result EXCEPT ![c] = doc]
    BY <1>6 DEF Insert
  <2>2. NewAccount(id, req[c].number, req[c].details, req[c].deposit) \in Account
    BY <1>6, NewAccountIsAccount DEF Insert, IndInv, RequestShape
  <2>3. id \in Ids /\ req \in [Clients -> Request]
    BY <1>0, <2>1
  <2>4. [req[c] EXCEPT !.id = id] \in Request
    BY <2>3 DEF Request
  <2>5. req' \in [Clients -> Request]
    BY <2>1, <2>3, <2>4
  <2> QED
    BY <1>0, <1>6, <2>1, <2>2, <2>5 DEF Insert, Sections
<1>7. CASE FindToRead(c)
  <2>1. CASE Goto(c, "notFound") /\ UNCHANGED store
    BY <1>0, <2>1 DEF Goto, Answers
  <2>2. ASSUME NEW doc \in Account,
               req' = [req EXCEPT ![c].id = doc.id],
               result' = [result EXCEPT ![c] = doc],
               pc' = [pc EXCEPT ![c] = "audit"],
               UNCHANGED <<store, current, tries, seen>>
        PROVE  TypeOK'
    <3>1. doc.id \in Ids
      BY <2>2 DEF Account
    <3>2. req' \in [Clients -> Request]
      BY <1>0, <2>2, <3>1 DEF Request
    <3> QED
      BY <1>0, <2>2, <3>2 DEF Sections
  <2> QED
    BY <1>7, <2>1, <2>2, FindsAreStored DEF FindToRead
<1>8. CASE FindToWrite(c)
  <2>1. Decision(req[c].op, FindById(accounts, req[c].id, req[c].op = "purge"), req[c].status)
          \in {"notFound", "rule", "ok", "write"}
    BY DEF Decision
  <2>2. FindById(accounts, req[c].id, req[c].op = "purge") \in Account \cup {Null}
    BY <1>0, <1>8, WriteTargets, FindByIdReturns DEF FindToWrite
  <2> QED
    BY <1>0, <1>8, <2>1, <2>2 DEF FindToWrite, Sections, Answers
<1>9. CASE Write(c)
  <2>1. /\ req[c].id \in Ids
        /\ Written(c, accounts[req[c].id]) \in Account
    BY <1>9, WriteIsSuccessor DEF Successor
  <2> QED
    BY <1>0, <1>9, <2>1 DEF Write, Sections
<1>10. CASE WriteRefused(c)
  BY <1>0, <1>10 DEF WriteRefused, Goto, Answers
<1>11. CASE Purge(c)
  BY <1>0, <1>11 DEF Purge, Goto, Sections
<1>12. CASE AppendAudit(c)
  BY <1>0, <1>12, EntryType DEF AppendAudit, Audited, Goto, Answers
<1>13. CASE FailAudit(c)
  BY <1>0, <1>13 DEF FailAudit, Audited, Goto, Answers
<1>14. ASSUME Forget(c), seen' \in [Clients -> Account \cup {Null}]
       PROVE  TypeOK'
  <2>1. NoRequest \in Request
    BY DEF NoRequest, Request
  <2> QED
    BY <1>0, <1>14, <2>1, MaxAttemptsAssumption DEF Forget
<1>15. CASE Reply(c)
  BY <1>0, <1>14, <1>15 DEF Reply
<1>16. CASE Drop(c)
  BY <1>0, <1>14, <1>16 DEF Drop
<1> QED
  BY <1>1, <1>2, <1>3, <1>4, <1>5, <1>6, <1>7, <1>8, <1>9, <1>10, <1>11, <1>12, <1>13,
     <1>15, <1>16 DEF Serve

-----------------------------------------------------------------------------
(* What a step does to the store.                                          *)

Stays == accounts' = accounts /\ issued' = issued

Inserts(id, new) ==
    /\ id \notin issued
    /\ new \in Account
    /\ new.id = id
    /\ new.status = "ACTIVE"
    /\ ~new.isDeleted
    /\ UniqueIndex => ~NumberTaken(accounts, new.number)
    /\ accounts' = [accounts EXCEPT ![id] = new]
    /\ issued' = issued \cup {id}

Replaces(id, new) ==
    /\ accounts[id] \in Account
    /\ ~accounts[id].isDeleted
    /\ Successor(new, accounts[id])
    /\ IF new.isDeleted
         THEN new.status = "CLOSED" /\ new.balance = 0
         ELSE new.status \in MutableStatuses
    /\ accounts' = [accounts EXCEPT ![id] = new]
    /\ issued' = issued

Erases(id) ==
    /\ id \in issued
    /\ accounts[id] # Null => accounts[id].isDeleted
    /\ accounts' = [accounts EXCEPT ![id] = Null]
    /\ issued' = issued

\* A step of the API leaves the store alone, inserts a new document, replaces
\* an open one by its successor - by a closed one only if it is empty - or
\* erases a closed one.
LEMMA StoreStep ==
    ASSUME IndInv, Next
    PROVE  \/ Stays
           \/ \E id \in Ids : \E new \in Account : Inserts(id, new)
           \/ \E id \in Ids : \E new \in Account : Replaces(id, new)
           \/ \E id \in Ids : Erases(id)
<1>1. PICK c \in Clients : Arrive(c) \/ Serve(c) \/ Drop(c)
  BY DEF Next
<1>2. CASE Arrive(c)
  BY <1>2, ArriveShape DEF Receive, store, Stays
<1>3. CASE CandidateTaken(c) \/ CandidateFree(c) \/ InsertRefused(c) \/ FindToRead(c)
             \/ FindToWrite(c) \/ WriteRefused(c) \/ AppendAudit(c) \/ FailAudit(c)
             \/ Reply(c) \/ Drop(c)
  BY <1>3 DEF CandidateTaken, CandidateFree, InsertRefused, FindToRead, FindToWrite,
              WriteRefused, AppendAudit, FailAudit, Reply, Drop, Forget, store, Stays
<1>4. CASE Insert(c)
  <2>1. PICK id \in Ids \ issued :
          LET doc == NewAccount(id, req[c].number, req[c].details, req[c].deposit)
          IN /\ accounts' = [accounts EXCEPT ![id] = doc]
             /\ issued' = issued \cup {id}
    BY <1>4 DEF Insert
  <2> DEFINE new == NewAccount(id, req[c].number, req[c].details, req[c].deposit)
  <2>2. /\ req[c].number \in Numbers
        /\ req[c].details \in Details
        /\ req[c].deposit \in Deposits
        /\ UniqueIndex => ~NumberTaken(accounts, req[c].number)
    BY <1>4 DEF Insert, DuplicateKey, IndInv, RequestShape
  <2>3. /\ new \in Account
        /\ new.id = id
        /\ new.number = req[c].number
        /\ ~new.isDeleted
        /\ new.status = "ACTIVE"
    BY <2>1, <2>2, NewAccountIsAccount
  <2> HIDE DEF new
  <2>4. Inserts(id, new)
    BY <2>1, <2>2, <2>3 DEF Inserts, new
  <2> QED
    BY <2>1, <2>3, <2>4
<1>5. CASE Write(c)
  <2> DEFINE id == req[c].id
             new == Written(c, accounts[id])
  <2>1. /\ accounts' = [accounts EXCEPT ![id] = new]
        /\ issued' = issued
        /\ pc[c] = "write"
        /\ req[c].op \in Writes
    BY <1>5 DEF Write
  <2>2. /\ id \in Ids
        /\ accounts[id] \in Account
        /\ ~accounts[id].isDeleted
        /\ Successor(new, accounts[id])
        /\ req[c].op # "close" => ~new.isDeleted
        /\ req[c].op = "update" => new.status = accounts[id].status
        /\ req[c].op = "changeStatus" => new.status \in MutableStatuses
        /\ req[c].op = "close" => new.isDeleted /\ new.status = "CLOSED"
    BY <1>5, WriteIsSuccessor
  <2>3. accounts[id].status \in MutableStatuses
    BY <2>2, NullAssumption DEF IndInv, TypeOK, ClosedIsDeletedAndEmpty, Account,
       AccountStatuses, MutableStatuses
  <2>4. req[c].op = "close" => accounts[id].balance = 0
    <3>1. HAVE req[c].op = "close"
    <3>2. /\ current[c] # Null
          /\ current[c].id = id
          /\ current[c].balance = 0
      BY <2>1, <3>1 DEF IndInv, PendingDecisions
    <3>3. current[c] \in Held
      BY <3>2 DEF Held, Snapshots
    <3>4. accounts[id] # Null
      BY <2>2, NullAssumption
    <3> QED
      BY <3>2, <3>3, <3>4 DEF IndInv, BalancesFixed
  <2> HIDE DEF new
  <2>5. Replaces(id, new)
    BY <2>1, <2>2, <2>3, <2>4 DEF Replaces, Successor, Writes
  <2> QED
    BY <2>2, <2>5 DEF Successor
<1>6. CASE Purge(c)
  <2>1. req[c].id \in Ids /\ Erases(req[c].id)
    BY <1>6, WriteTargets DEF Purge, IndInv, PendingDecisions, Erases
  <2> QED
    BY <2>1
<1> QED
  BY <1>1, <1>2, <1>3, <1>4, <1>5, <1>6 DEF Serve

\* Whatever someone holds after a step was held before, or is the stored
\* document itself.
LEMMA HeldStep ==
    ASSUME IndInv, Next
    PROVE  \A doc \in Held' :
              \/ doc \in Held
              \/ doc.id \in Ids /\ doc.id \in issued' /\ doc = accounts'[doc.id]
<1>1. PICK c \in Clients : Arrive(c) \/ Serve(c) \/ Drop(c)
  BY DEF Next
<1> DEFINE Fresh(doc) == doc.id \in Ids /\ doc.id \in issued' /\ doc = accounts'[doc.id]
<1>2. ASSUME \A d \in Clients :
                /\ current'[d] \in Held \cup {Null} \/ Fresh(current'[d])
                /\ result'[d] \in Held \cup {Null} \/ Fresh(result'[d])
                /\ seen'[d] \in Held \cup {Null} \/ Fresh(seen'[d])
      PROVE  \A doc \in Held' : doc \in Held \/ Fresh(doc)
  BY <1>2 DEF Held, Snapshots
<1>3. \A d \in Clients : /\ current[d] \in Held \cup {Null}
                         /\ result[d] \in Held \cup {Null}
                         /\ seen[d] \in Held \cup {Null}
  BY DEF Held, Snapshots
<1> HIDE DEF Fresh
<1>4. CASE UNCHANGED <<current, result, seen>>
  BY <1>2, <1>3, <1>4 DEF Fresh
<1>5. CASE Arrive(c) \/ CandidateTaken(c) \/ CandidateFree(c) \/ InsertRefused(c)
             \/ WriteRefused(c) \/ Purge(c) \/ AppendAudit(c) \/ FailAudit(c)
  BY <1>4, <1>5, ArriveShape DEF Receive, CandidateTaken, CandidateFree, InsertRefused,
     WriteRefused, Purge, AppendAudit, FailAudit, Goto
<1>6. /\ current \in [Clients -> Account \cup {Null}]
      /\ result \in [Clients -> Account \cup {Null}]
      /\ seen \in [Clients -> Account \cup {Null}]
  BY DEF IndInv, TypeOK
<1> DEFINE Known(doc) == doc \in Held \cup {Null} \/ Fresh(doc)
<1>12. ASSUME NEW x, Known(x), NEW y, Known(y), NEW z, Known(z),
              current' = [current EXCEPT ![c] = x],
              result' = [result EXCEPT ![c] = y],
              seen' = [seen EXCEPT ![c] = z]
       PROVE  \A doc \in Held' : doc \in Held \/ Fresh(doc)
  <2>1. \A d \in Clients : /\ current'[d] \in {current[d], x}
                           /\ result'[d] \in {result[d], y}
                           /\ seen'[d] \in {seen[d], z}
    BY <1>6, <1>12
  <2> QED
    BY <1>2, <1>3, <1>12, <2>1
<1>13. /\ Known(Null) /\ Known(current[c]) /\ Known(result[c]) /\ Known(seen[c])
       /\ current = [current EXCEPT ![c] = current[c]]
       /\ result = [result EXCEPT ![c] = result[c]]
       /\ seen = [seen EXCEPT ![c] = seen[c]]
  BY <1>3, <1>6
<1> HIDE DEF Known
<1>7. CASE Insert(c)
  <2>1. PICK id \in Ids \ issued :
          LET doc == NewAccount(id, req[c].number, req[c].details, req[c].deposit)
          IN /\ accounts' = [accounts EXCEPT ![id] = doc]
             /\ issued' = issued \cup {id}
             /\ result' = [result EXCEPT ![c] = doc]
    BY <1>7 DEF Insert
  <2> DEFINE new == NewAccount(id, req[c].number, req[c].details, req[c].deposit)
  <2>2. new.id = id
    BY DEF NewAccount
  <2> HIDE DEF new
  <2>3. Fresh(new)
    BY <2>1, <2>2 DEF Fresh, new, IndInv, TypeOK
  <2>4. result' = [result EXCEPT ![c] = new] /\ UNCHANGED <<current, seen>>
    BY <1>7, <2>1 DEF Insert, new
  <2>5. Known(new)
    BY <2>3 DEF Known
  <2> QED
    BY <1>12, <1>13, <2>4, <2>5 DEF Fresh
<1>8. CASE FindToRead(c)
  <2>1. CASE Goto(c, "notFound")
    BY <1>4, <2>1 DEF Goto
  <2>2. ASSUME NEW doc, Fresh(doc),
               result' = [result EXCEPT ![c] = doc],
               UNCHANGED <<current, seen>>
        PROVE  \A d \in Held' : d \in Held \/ Fresh(d)
    BY <1>12, <1>13, <2>2 DEF Known
  <2> QED
    BY <1>8, <2>1, <2>2, FindsAreStored DEF FindToRead, Fresh, store
<1>9. CASE FindToWrite(c)
  <2> DEFINE doc == FindById(accounts, req[c].id, req[c].op = "purge")
  <2>1. doc # Null => Fresh(doc)
    <3>1. req[c].id \in Ids /\ doc \in {accounts[req[c].id], Null}
      BY <1>9, WriteTargets, FindByIdReturns DEF FindToWrite
    <3> QED
      BY <1>9, <3>1 DEF FindToWrite, store, Fresh, IndInv, StoredUnderOwnId
  <2>2. /\ current' = [current EXCEPT ![c] = doc]
        /\ \E d \in {doc, Null} : result' = [result EXCEPT ![c] = d]
        /\ UNCHANGED seen
    BY <1>9 DEF FindToWrite
  <2> HIDE DEF doc
  <2>3. Known(doc)
    BY <2>1 DEF Known
  <2>4. PICK d \in {doc, Null} : result' = [result EXCEPT ![c] = d]
    BY <2>2
  <2>5. Known(d)
    BY <1>13, <2>3
  <2> QED
    BY <1>12, <1>13, <2>2, <2>3, <2>4, <2>5 DEF Fresh
<1>10. CASE Write(c)
  <2> DEFINE new == Written(c, accounts[req[c].id])
  <2>1. /\ accounts' = [accounts EXCEPT ![req[c].id] = new]
        /\ result' = [result EXCEPT ![c] = new]
        /\ UNCHANGED <<issued, current, seen>>
    BY <1>10 DEF Write
  <2>2. /\ req[c].id \in Ids
        /\ new.id = req[c].id
        /\ req[c].id \in issued
    BY <1>10, WriteIsSuccessor, NullAssumption DEF Successor, IndInv, StoredUnderOwnId
  <2> HIDE DEF new
  <2>3. Fresh(new)
    BY <2>1, <2>2 DEF Fresh, IndInv, TypeOK
  <2>4. Known(new)
    BY <2>3 DEF Known
  <2> QED
    BY <1>12, <1>13, <2>1, <2>4 DEF Fresh
<1>11. CASE Reply(c) \/ Drop(c)
  <2>1. /\ current' = [current EXCEPT ![c] = Null]
        /\ result' = [result EXCEPT ![c] = Null]
        /\ \E d \in {seen[c], result[c]} : seen' = [seen EXCEPT ![c] = d]
    BY <1>6, <1>11 DEF Reply, Drop, Forget
  <2>2. PICK d \in {seen[c], result[c]} : seen' = [seen EXCEPT ![c] = d]
    BY <2>1
  <2>3. Known(d)
    BY <1>13
  <2> QED
    BY <1>12, <1>13, <2>1, <2>2, <2>3 DEF Fresh
<1> QED
  BY <1>1, <1>5, <1>7, <1>8, <1>9, <1>10, <1>11 DEF Serve, Fresh

-----------------------------------------------------------------------------
(* The parts of the inductive invariant about documents.                   *)

\* No step files a document under another id, moves its balance, or parts
\* isDeleted from CLOSED.
LEMMA StoredStep ==
    ASSUME IndInv, Next
    PROVE  StoredUnderOwnId' /\ ClosedIsDeletedAndEmpty'
<1>1. accounts \in [Ids -> Account \cup {Null}]
  BY DEF IndInv, TypeOK
<1>2. StoredUnderOwnId /\ ClosedIsDeletedAndEmpty
  BY DEF IndInv
<1> USE DEF StoredUnderOwnId, ClosedIsDeletedAndEmpty
<1>3. CASE Stays
  BY <1>2, <1>3 DEF Stays
<1>4. ASSUME NEW id \in Ids, NEW new \in Account, Inserts(id, new)
      PROVE  StoredUnderOwnId' /\ ClosedIsDeletedAndEmpty'
  BY <1>1, <1>2, <1>4 DEF Inserts
<1>5. ASSUME NEW id \in Ids, NEW new \in Account, Replaces(id, new)
      PROVE  StoredUnderOwnId' /\ ClosedIsDeletedAndEmpty'
  <2>1. /\ new.id = id
        /\ id \in issued
        /\ new.isDeleted <=> new.status = "CLOSED"
        /\ new.isDeleted => new.balance = 0
    BY <1>2, <1>5, NullAssumption DEF Replaces, Successor, MutableStatuses, Account
  <2> QED
    BY <1>1, <1>2, <1>5, <2>1 DEF Replaces
<1>6. ASSUME NEW id \in Ids, Erases(id)
      PROVE  StoredUnderOwnId' /\ ClosedIsDeletedAndEmpty'
  BY <1>1, <1>2, <1>6 DEF Erases
<1> QED
  BY <1>3, <1>4, <1>5, <1>6, StoreStep

\* Before a step, a held document is a copy of an issued id that is behind the
\* stored document or equal to it.
LEMMA HeldBehind ==
    ASSUME IndInv, NEW doc \in Held
    PROVE  /\ doc \in Account
           /\ doc.id \in issued
           /\ doc.id \in Ids
           /\ doc.version \in Nat
           /\ accounts[doc.id] # Null =>
                 /\ accounts[doc.id] \in Account
                 /\ accounts[doc.id].version \in Nat
                 /\ doc.version < accounts[doc.id].version \/ doc = accounts[doc.id]
                 /\ doc.balance = accounts[doc.id].balance
<1>1. doc \in Account
  BY DEF Held, Snapshots, IndInv, TypeOK
<1> QED
  BY <1>1 DEF IndInv, TypeOK, VersionIdentifiesContent, BalancesFixed, Account

\* Every step leaves held copies behind the stored document or equal to it.
LEMMA HeldBehindStep ==
    ASSUME IndInv, Next, NEW doc \in Held'
    PROVE  /\ doc.id \in issued'
           /\ accounts'[doc.id] # Null =>
                 /\ doc.version < accounts'[doc.id].version \/ doc = accounts'[doc.id]
                 /\ doc.balance = accounts'[doc.id].balance
<1>1. CASE doc \notin Held
  BY <1>1, HeldStep
<1>2. CASE doc \in Held
  <2>1. /\ doc.id \in issued
        /\ doc.id \in Ids
        /\ doc.version \in Nat
        /\ accounts[doc.id] # Null =>
              /\ accounts[doc.id] \in Account
              /\ accounts[doc.id].version \in Nat
              /\ doc.version < accounts[doc.id].version \/ doc = accounts[doc.id]
              /\ doc.balance = accounts[doc.id].balance
    BY <1>2, HeldBehind
  <2>2. accounts \in [Ids -> Account \cup {Null}]
    BY DEF IndInv, TypeOK
  <2>3. CASE Stays
    BY <2>1, <2>3 DEF Stays
  <2>4. ASSUME NEW id \in Ids, NEW new \in Account, Inserts(id, new)
        PROVE  /\ doc.id \in issued'
               /\ accounts'[doc.id] = accounts[doc.id]
    BY <2>1, <2>2, <2>4 DEF Inserts
  <2>5. ASSUME NEW id \in Ids, NEW new \in Account, Replaces(id, new)
        PROVE  /\ doc.id \in issued'
               /\ accounts'[doc.id] # Null =>
                     /\ doc.version < accounts'[doc.id].version \/ doc = accounts'[doc.id]
                     /\ doc.balance = accounts'[doc.id].balance
    <3>1. CASE doc.id = id
      <4>1. accounts[id] # Null /\ accounts'[id] = new /\ issued' = issued
        BY <2>2, <2>5, NullAssumption DEF Replaces
      <4>2. new.version = accounts[id].version + 1 /\ new.balance = accounts[id].balance
        BY <2>5 DEF Replaces, Successor
      <4>3. doc.version <= accounts[id].version
        BY <2>1, <3>1, <4>1
      <4> QED
        BY <2>1, <3>1, <4>1, <4>2, <4>3
    <3>2. CASE doc.id # id
      BY <2>1, <2>2, <2>5, <3>2 DEF Replaces
    <3> QED
      BY <3>1, <3>2
  <2>6. ASSUME NEW id \in Ids, Erases(id)
        PROVE  /\ doc.id \in issued'
               /\ accounts'[doc.id] \in {accounts[doc.id], Null}
    BY <2>1, <2>2, <2>6 DEF Erases
  <2> QED
    BY <2>1, <2>3, <2>4, <2>5, <2>6, StoreStep
<1> QED
  BY <1>1, <1>2

\* Two copies of one version are one document.
LEMMA CopiesAgreeStep ==
    ASSUME IndInv, Next, NEW doc \in Held', NEW other \in Held',
           doc.id = other.id, doc.version = other.version
    PROVE  doc = other
<1>1. CASE doc \in Held /\ other \in Held
  BY <1>1 DEF IndInv, VersionIdentifiesContent
<1>2. CASE doc \notin Held /\ other \notin Held
  BY <1>2, HeldStep
<1>3. ASSUME NEW old \in Held, NEW new \in Held', new \notin Held, old \in Held',
             old.id = new.id, old.version = new.version
      PROVE  old = new
  <2>1. new = accounts'[new.id] /\ new.id \in Ids
    BY <1>3, HeldStep
  <2>2. old.version \in Nat
    BY <1>3, HeldBehind
  <2>3. CASE accounts'[new.id] # Null
    BY <1>3, <2>1, <2>2, <2>3, HeldBehindStep
  <2>4. CASE accounts'[new.id] = Null
    <3>1. new = Null
      BY <2>1, <2>4
    <3>2. Null \notin Held'
      BY DEF Held
    <3> QED
      BY <1>3, <3>1, <3>2
  <2> QED
    BY <2>3, <2>4
<1> QED
  BY <1>1, <1>2, <1>3

\* The two halves of VersionIdentifiesContent, put together.
LEMMA DocumentsStep ==
    ASSUME IndInv, Next
    PROVE  VersionIdentifiesContent' /\ BalancesFixed'
BY HeldBehindStep, CopiesAgreeStep DEF VersionIdentifiesContent, BalancesFixed

-----------------------------------------------------------------------------
(* The parts of the inductive invariant about requests.                    *)

\* A step of one request leaves the others' requests, documents and places.
LEMMA OthersUntouched ==
    ASSUME IndInv, NEW c \in Clients, Arrive(c) \/ Serve(c) \/ Drop(c),
           NEW d \in Clients, d # c
    PROVE  /\ pc'[d] = pc[d] /\ req'[d] = req[d] /\ current'[d] = current[d]
           /\ result'[d] = result[d] /\ tries'[d] = tries[d] /\ seen'[d] = seen[d]
<1> USE DEF IndInv, TypeOK
<1>1. CASE Arrive(c)
  BY <1>1, ArriveShape DEF Receive
<1>2. CASE CandidateTaken(c) \/ CandidateFree(c) \/ InsertRefused(c) \/ Insert(c)
  BY <1>2 DEF CandidateTaken, CandidateFree, InsertRefused, Insert, Goto
<1>3. CASE FindToRead(c) \/ FindToWrite(c)
  BY <1>3 DEF FindToRead, FindToWrite, Goto
<1>4. CASE Write(c) \/ WriteRefused(c) \/ Purge(c) \/ AppendAudit(c) \/ FailAudit(c)
  BY <1>4 DEF Write, WriteRefused, Purge, AppendAudit, FailAudit, Goto
<1>5. CASE Reply(c) \/ Drop(c)
  BY <1>5 DEF Reply, Drop, Forget
<1> QED
  BY <1>1, <1>2, <1>3, <1>4, <1>5 DEF Serve

\* Issued ids stay issued, and an issued id holds no new document: what was
\* erased or closed stays so.
LEMMA StoreGrows ==
    ASSUME IndInv, Next
    PROVE  /\ issued \subseteq issued'
           /\ \A id \in issued :
                 accounts[id] = Null \/ accounts[id].isDeleted =>
                     accounts'[id] = Null \/ accounts'[id].isDeleted
<1>1. accounts \in [Ids -> Account \cup {Null}] /\ issued \subseteq Ids
  BY DEF IndInv, TypeOK
<1>2. CASE Stays
  BY <1>2 DEF Stays
<1>3. ASSUME NEW id \in Ids, NEW new \in Account, Inserts(id, new)
      PROVE  issued \subseteq issued' /\ \A i \in issued : accounts'[i] = accounts[i]
  BY <1>1, <1>3 DEF Inserts
<1>4. ASSUME NEW id \in Ids, NEW new \in Account, Replaces(id, new)
      PROVE  /\ issued \subseteq issued'
             /\ \A i \in issued : i = id \/ accounts'[i] = accounts[i]
             /\ accounts[id] # Null /\ ~accounts[id].isDeleted
  BY <1>1, <1>4, NullAssumption DEF Replaces
<1>5. ASSUME NEW id \in Ids, Erases(id)
      PROVE  /\ issued \subseteq issued'
             /\ \A i \in issued : accounts'[i] = accounts[i] \/ accounts'[i] = Null
  BY <1>1, <1>5 DEF Erases
<1> QED
  BY <1>2, <1>3, <1>4, <1>5, StoreStep

\* The shape of one request.
ShapeOf(c) ==
    /\ pc[c] # "idle" => req[c].op \in Ops
    /\ pc[c] \in {"number", "insert"} =>
          /\ req[c].op = "create"
          /\ req[c].details \in Details
          /\ req[c].deposit \in Deposits
    /\ pc[c] = "idle" => tries[c] = 0
    /\ pc[c] = "number" => tries[c] < MaxAttempts
    /\ pc[c] = "insert" => req[c].number \in Numbers
    /\ pc[c] = "find" => req[c].op # "create"
    /\ pc[c] \in {"find", "write"} =>
          /\ req[c].op # "lookup" => req[c].id \in Ids
          /\ req[c].op = "update" => req[c].details \in Details
    /\ pc[c] # "idle" /\ req[c].op = "changeStatus" => req[c].status \in MutableStatuses
    /\ pc[c] = "write" => req[c].op \in Writes \cup {"purge"}
    /\ pc[c] = "audit" => req[c].id \in issued

\* Each step of a request leaves it in shape for its next section.
LEMMA ShapeStep ==
    ASSUME IndInv, NEW c \in Clients, Arrive(c) \/ Serve(c) \/ Drop(c)
    PROVE  ShapeOf(c)'
<1>1. /\ pc \in [Clients -> Sections \cup Answers \cup {"idle"}]
      /\ req \in [Clients -> Request]
      /\ tries \in [Clients -> 0..MaxAttempts]
  BY DEF IndInv, TypeOK
<1>2. ShapeOf(c)
  BY DEF IndInv, RequestShape, ShapeOf
<1>3. CASE Arrive(c)
  <2>1. PICK r \in Request : WellFormed(c, r) /\ Receive(c, r)
    BY <1>3, ArriveShape
  <2>2. /\ req'[c] = r
        /\ pc'[c] \in {"number", "find", "deny"}
        /\ pc'[c] = "number" => r.op = "create"
        /\ pc'[c] = "find" => r.op # "create"
        /\ tries[c] = 0 /\ tries'[c] = 0
    BY <1>1, <1>2, <2>1 DEF Receive, ShapeOf, FirstSection
  <2> QED
    BY <2>1, <2>2, MaxAttemptsAssumption DEF WellFormed, ShapeOf
<1>4. CASE CandidateTaken(c)
  BY <1>1, <1>2, <1>4, MaxAttemptsAssumption DEF CandidateTaken, ShapeOf
<1>5. CASE CandidateFree(c)
  BY <1>1, <1>2, <1>5 DEF CandidateFree, ShapeOf, Request
<1>6. CASE InsertRefused(c) \/ WriteRefused(c) \/ AppendAudit(c) \/ FailAudit(c)
  BY <1>1, <1>2, <1>6 DEF InsertRefused, WriteRefused, AppendAudit, FailAudit, Goto,
     Audited, ShapeOf
<1>7. CASE Insert(c)
  BY <1>1, <1>2, <1>7 DEF Insert, ShapeOf, Request
<1>8. CASE FindToRead(c)
  <2>1. CASE Goto(c, "notFound")
    BY <1>1, <1>2, <1>8, <2>1 DEF FindToRead, Goto, ShapeOf
  <2>2. ASSUME NEW doc, doc.id \in issued,
               req' = [req EXCEPT ![c].id = doc.id],
               pc' = [pc EXCEPT ![c] = "audit"],
               UNCHANGED <<store, current, tries, seen>>
        PROVE  ShapeOf(c)'
    BY <1>1, <1>2, <1>8, <2>2 DEF FindToRead, ShapeOf, Request, store, Reads
  <2> QED
    BY <1>8, <2>1, <2>2, FindsAreStored DEF FindToRead
<1>9. CASE FindToWrite(c)
  BY <1>1, <1>2, <1>9 DEF FindToWrite, Decision, ShapeOf
<1>10. CASE Write(c)
  <2>1. req[c].id \in issued
    BY <1>10, WriteIsSuccessor, NullAssumption DEF IndInv, StoredUnderOwnId
  <2> QED
    BY <1>1, <1>2, <1>10, <2>1 DEF Write, ShapeOf
<1>11. CASE Purge(c)
  <2>1. req[c].id \in issued
    BY <1>11 DEF Purge, IndInv, PendingDecisions
  <2> QED
    BY <1>1, <1>2, <1>11, <2>1 DEF Purge, Goto, ShapeOf
<1>12. CASE Reply(c) \/ Drop(c)
  BY <1>1, <1>12 DEF Reply, Drop, Forget, ShapeOf
<1> QED
  BY <1>3, <1>4, <1>5, <1>6, <1>7, <1>8, <1>9, <1>10, <1>11, <1>12 DEF Serve

\* RequestShape, for the request that moved and for the others.
LEMMA RequestsStep ==
    ASSUME IndInv, Next
    PROVE  RequestShape'
<1>1. PICK c \in Clients : Arrive(c) \/ Serve(c) \/ Drop(c)
  BY DEF Next
<1>2. ShapeOf(c)'
  BY <1>1, ShapeStep
<1>3. ASSUME NEW d \in Clients, d # c
      PROVE  ShapeOf(d)'
  <2>1. ShapeOf(d)
    BY DEF IndInv, RequestShape, ShapeOf
  <2>2. /\ pc'[d] = pc[d] /\ req'[d] = req[d] /\ tries'[d] = tries[d]
        /\ issued \subseteq issued'
    BY <1>1, <1>3, OthersUntouched, StoreGrows
  <2> QED
    BY <2>1, <2>2 DEF ShapeOf
<1> QED
  BY <1>2, <1>3 DEF RequestShape, ShapeOf

\* What one request's pending decision rests on.
PendingOf(c) ==
    /\ pc[c] \in {"write", "audit"} /\ req[c].op \in Writes =>
          current[c] # Null /\ current[c].id = req[c].id
    /\ pc[c] = "write" /\ req[c].op = "close" => current[c].balance = 0
    /\ pc[c] = "write" /\ req[c].op = "purge" =>
          /\ req[c].id \in issued
          /\ accounts[req[c].id] # Null => accounts[req[c].id].isDeleted
    /\ pc[c] \in {"find", "write"} /\ req[c].op \in Writes /\ req[c].expected # Null =>
          /\ seen[c] # Null
          /\ seen[c].id = req[c].id
          /\ seen[c].version = req[c].expected

\* Each step of a request leaves its decision well founded.
LEMMA PendingStep ==
    ASSUME IndInv, NEW c \in Clients, Arrive(c) \/ Serve(c) \/ Drop(c)
    PROVE  PendingOf(c)'
<1>1. /\ pc \in [Clients -> Sections \cup Answers \cup {"idle"}]
      /\ req \in [Clients -> Request]
      /\ current \in [Clients -> Account \cup {Null}]
      /\ seen \in [Clients -> Account \cup {Null}]
  BY DEF IndInv, TypeOK
<1>2. PendingOf(c)
  BY DEF IndInv, PendingDecisions, PendingOf
<1>3. CASE Arrive(c)
  <2>1. PICK r \in Request : WellFormed(c, r) /\ Receive(c, r)
    BY <1>3, ArriveShape
  <2>2. req'[c] = r /\ pc'[c] \in {"number", "find", "deny"} /\ seen'[c] = seen[c]
    BY <1>1, <2>1 DEF Receive, FirstSection
  <2>3. r.op \in Writes /\ r.expected # Null =>
          seen'[c] # Null /\ seen'[c].id = r.id /\ seen'[c].version = r.expected
    BY <2>1, <2>2 DEF WellFormed
  <2> QED
    BY <2>2, <2>3 DEF PendingOf
<1>4. CASE CandidateTaken(c) \/ CandidateFree(c) \/ InsertRefused(c) \/ WriteRefused(c)
             \/ AppendAudit(c) \/ FailAudit(c)
  <2>1. pc'[c] \notin {"find", "write", "audit"}
    BY <1>1, <1>4 DEF CandidateTaken, CandidateFree, InsertRefused, WriteRefused,
       AppendAudit, FailAudit, Goto, Audited
  <2> QED
    BY <2>1 DEF PendingOf
<1>5. CASE Insert(c)
  <2>1. pc'[c] = "audit" /\ req'[c].op = "create"
    BY <1>1, <1>5 DEF Insert, IndInv, RequestShape, Request
  <2> QED
    BY <2>1 DEF PendingOf, Writes
<1>6. CASE FindToRead(c)
  <2>0. ASSUME NEW id, req' = [req EXCEPT ![c].id = id]
        PROVE  req'[c].op = req[c].op
    BY <1>1, <2>0 DEF Request
  <2>1. pc'[c] \in {"audit", "notFound"} /\ req'[c].op \in Reads
    BY <1>1, <1>6, <2>0 DEF FindToRead, Goto
  <2> QED
    BY <2>1 DEF PendingOf, Reads, Writes
<1>7. CASE FindToWrite(c)
  <2> DEFINE doc == FindById(accounts, req[c].id, req[c].op = "purge")
             next == Decision(req[c].op, doc, req[c].status)
  <2>1. /\ pc[c] = "find"
        /\ pc'[c] = next
        /\ current'[c] = doc
        /\ req' = req /\ accounts' = accounts /\ issued' = issued /\ seen' = seen
    BY <1>1, <1>7 DEF FindToWrite, store
  <2>2. req[c].id \in Ids /\ doc \in {accounts[req[c].id], Null}
    BY <1>7, WriteTargets, FindByIdReturns DEF FindToWrite
  <2>3. next \in {"notFound", "rule", "ok", "write"}
    BY DEF Decision
  <2>4. next = "write" =>
          /\ doc # Null
          /\ req[c].op = "close" => doc.balance = 0
          /\ req[c].op = "purge" => doc.isDeleted
    BY DEF Decision, Forbidden
  <2> HIDE DEF doc, next
  <2>5. next = "write" => /\ doc = accounts[req[c].id]
                          /\ doc.id = req[c].id
                          /\ req[c].id \in issued
    BY <2>2, <2>4 DEF IndInv, StoredUnderOwnId
  <2>6. req[c].op \in Writes /\ req[c].expected # Null =>
          /\ seen[c] # Null
          /\ seen[c].id = req[c].id
          /\ seen[c].version = req[c].expected
    BY <1>2, <2>1 DEF PendingOf
  <2> QED
    BY <2>1, <2>3, <2>4, <2>5, <2>6 DEF PendingOf
<1>8. CASE Write(c)
  <2>1. /\ pc[c] = "write" /\ pc'[c] = "audit"
        /\ req' = req /\ current' = current
        /\ req[c].op \in Writes
    BY <1>1, <1>8 DEF Write
  <2> QED
    BY <1>2, <2>1 DEF PendingOf, Writes
<1>9. CASE Purge(c)
  BY <1>1, <1>9 DEF Purge, Goto, PendingOf, Writes
<1>10. CASE Reply(c) \/ Drop(c)
  BY <1>1, <1>10 DEF Reply, Drop, Forget, PendingOf
<1> QED
  BY <1>3, <1>4, <1>5, <1>6, <1>7, <1>8, <1>9, <1>10 DEF Serve

\* PendingDecisions, for the request that moved and for the others, whose
\* documents may change under them.
LEMMA DecisionsStep ==
    ASSUME IndInv, Next
    PROVE  PendingDecisions'
<1>1. PICK c \in Clients : Arrive(c) \/ Serve(c) \/ Drop(c)
  BY DEF Next
<1>2. PendingOf(c)'
  BY <1>1, PendingStep
<1>3. ASSUME NEW d \in Clients, d # c
      PROVE  PendingOf(d)'
  <2>1. PendingOf(d)
    BY DEF IndInv, PendingDecisions, PendingOf
  <2>2. /\ pc'[d] = pc[d] /\ req'[d] = req[d] /\ current'[d] = current[d]
        /\ seen'[d] = seen[d]
    BY <1>1, <1>3, OthersUntouched
  <2>3. pc[d] = "write" /\ req[d].op = "purge" =>
          /\ req[d].id \in issued'
          /\ accounts'[req[d].id] = Null \/ accounts'[req[d].id].isDeleted
    BY <2>1, StoreGrows DEF PendingOf
  <2> QED
    BY <2>1, <2>2, <2>3 DEF PendingOf
<1> QED
  BY <1>2, <1>3 DEF PendingDecisions, PendingOf

-----------------------------------------------------------------------------
(* The theorems.                                                           *)

\* The inductive invariant holds at the start.
LEMMA InitInvariant == Init => IndInv
<1> SUFFICES ASSUME Init PROVE IndInv
  OBVIOUS
<1>1. TypeOK
  BY InitType
<1>2. Held = {}
  BY DEF Init, Held, Snapshots
<1>3. VersionIdentifiesContent /\ BalancesFixed
  BY <1>2 DEF VersionIdentifiesContent, BalancesFixed
<1>4. StoredUnderOwnId /\ ClosedIsDeletedAndEmpty
  BY DEF Init, StoredUnderOwnId, ClosedIsDeletedAndEmpty
<1>5. RequestShape /\ PendingDecisions
  BY DEF Init, RequestShape, PendingDecisions
<1> QED
  BY <1>1, <1>3, <1>4, <1>5 DEF IndInv

\* Every step preserves the inductive invariant.
LEMMA NextInvariant == IndInv /\ [Next]_vars => IndInv'
<1>1. CASE UNCHANGED vars
  BY <1>1 DEF vars, IndInv, TypeOK, StoredUnderOwnId, RequestShape,
     VersionIdentifiesContent, Held, Snapshots, ClosedIsDeletedAndEmpty, BalancesFixed,
     PendingDecisions
<1>2. ASSUME IndInv, Next
      PROVE  IndInv'
  BY <1>2, TypeStep, StoredStep, DocumentsStep, RequestsStep, DecisionsStep DEF IndInv
<1> QED
  BY <1>1, <1>2

\* The inductive invariant holds in every reachable state of the account API.
THEOREM Invariance == Spec => []IndInv
BY InitInvariant, NextInvariant, PTL DEF Spec

\* Type correctness: every handler's request, copies and attempt counter and
\* every stored document keep their types, whatever the interleaving.
THEOREM TypeCorrect == Spec => []TypeOK
<1>1. IndInv => TypeOK
  BY DEF IndInv
<1> QED
  BY <1>1, Invariance, PTL

\* expectedVersion is a sound test: a copy with the stored version is the
\* stored document, and no two copies of one version differ.
THEOREM VersionsIdentify == Spec => []VersionIdentifiesContent
<1>1. IndInv => VersionIdentifiesContent
  BY DEF IndInv
<1> QED
  BY <1>1, Invariance, PTL

\* isDeleted and status CLOSED never disagree, and a closed account is empty.
THEOREM ClosedMeansEmpty == Spec => []ClosedIsDeletedAndEmpty
<1>1. IndInv => ClosedIsDeletedAndEmpty
  BY DEF IndInv
<1> QED
  BY <1>1, Invariance, PTL

\* With the index in place no two documents ever share an account number: it
\* decides the race that existsByAccountNumberIndex leaves open.
THEOREM NumbersUnique ==
    ASSUME UniqueIndex
    PROVE  Spec => []UniqueNumbers
<1>1. Init => UniqueNumbers
  BY DEF Init, UniqueNumbers
<1>2. ASSUME IndInv, UniqueNumbers, Next
      PROVE  UniqueNumbers'
  <2>1. accounts \in [Ids -> Account \cup {Null}]
    BY <1>2 DEF IndInv, TypeOK
  <2>2. CASE Stays
    BY <1>2, <2>2 DEF Stays, UniqueNumbers
  <2>3. ASSUME NEW id \in Ids, NEW new \in Account, Inserts(id, new)
        PROVE  UniqueNumbers'
    BY <1>2, <2>1, <2>3 DEF Inserts, NumberTaken, UniqueNumbers
  <2>4. ASSUME NEW id \in Ids, NEW new \in Account, Replaces(id, new)
        PROVE  UniqueNumbers'
    <3>1. new.number = accounts[id].number /\ accounts[id] # Null
      BY <2>4, NullAssumption DEF Replaces, Successor
    <3> QED
      BY <1>2, <2>1, <2>4, <3>1 DEF Replaces, UniqueNumbers
  <2>5. ASSUME NEW id \in Ids, Erases(id)
        PROVE  UniqueNumbers'
    BY <1>2, <2>1, <2>5 DEF Erases, UniqueNumbers
  <2> QED
    BY <1>2, <2>2, <2>3, <2>4, <2>5, StoreStep
<1>3. IndInv /\ UniqueNumbers /\ [Next]_vars => UniqueNumbers'
  BY <1>2 DEF vars, UniqueNumbers
<1> QED
  BY <1>1, <1>3, Invariance, PTL DEF Spec

\* A closed account is never written again, and an id is filled only once.
THEOREM ClosureIsFinal == Spec => ClosedIsFinal
<1> DEFINE Final == \A id \in Ids :
              /\ accounts[id] # Null /\ accounts[id].isDeleted
                    => accounts'[id] \in {accounts[id], Null}
              /\ accounts[id] = Null /\ accounts'[id] # Null => id \notin issued
<1>1. ASSUME IndInv, Next
      PROVE  Final
  <2>1. accounts \in [Ids -> Account \cup {Null}]
    BY <1>1 DEF IndInv, TypeOK
  <2>2. CASE Stays
    BY <2>2 DEF Stays
  <2>3. ASSUME NEW id \in Ids, NEW new \in Account, Inserts(id, new)
        PROVE  Final
    BY <1>1, <2>1, <2>3 DEF Inserts, IndInv, StoredUnderOwnId
  <2>4. ASSUME NEW id \in Ids, NEW new \in Account, Replaces(id, new)
        PROVE  Final
    BY <2>1, <2>4, NullAssumption DEF Replaces
  <2>5. ASSUME NEW id \in Ids, Erases(id)
        PROVE  Final
    BY <2>1, <2>5 DEF Erases
  <2> QED
    BY <1>1, <2>2, <2>3, <2>4, <2>5, StoreStep
<1>2. IndInv /\ [Next]_vars => [Final]_vars
  BY <1>1
<1> QED
  BY <1>2, Invariance, PTL DEF Spec, ClosedIsFinal

\* A write that carries expectedVersion replaces exactly the document its
\* client was shown.
THEOREM NothingOverwritten == Spec => NoLostUpdate
<1> DEFINE Kept == \A c \in Clients :
              (/\ pc[c] = "write" /\ pc'[c] = "audit"
               /\ req[c].op \in Writes /\ req[c].expected # Null)
                  => accounts[req[c].id] = seen[c]
<1>1. ASSUME IndInv, Next, NEW c \in Clients, pc[c] = "write", pc'[c] = "audit",
             req[c].op \in Writes, req[c].expected # Null
      PROVE  accounts[req[c].id] = seen[c]
  <2>1. PICK d \in Clients : Arrive(d) \/ Serve(d) \/ Drop(d)
    BY <1>1 DEF Next
  <2>2. d = c
    BY <1>1, <2>1, OthersUntouched
  <2>3. pc \in [Clients -> Sections \cup Answers \cup {"idle"}]
    BY <1>1 DEF IndInv, TypeOK
  <2>4. Write(c)
    <3>1. ~Arrive(c)
      BY <1>1, <2>3, ArriveShape DEF Receive
    <3>2. ~(CandidateTaken(c) \/ CandidateFree(c) \/ InsertRefused(c) \/ Insert(c))
      BY <1>1 DEF CandidateTaken, CandidateFree, InsertRefused, Insert
    <3>3. ~(FindToRead(c) \/ FindToWrite(c) \/ WriteRefused(c) \/ Purge(c))
      BY <1>1, <2>3 DEF FindToRead, FindToWrite, WriteRefused, Purge, Goto, Writes
    <3>4. ~(AppendAudit(c) \/ FailAudit(c) \/ Reply(c) \/ Drop(c))
      BY <1>1, <2>3 DEF AppendAudit, FailAudit, Reply, Drop, Forget, Answers
    <3> QED
      BY <2>1, <2>2, <3>1, <3>2, <3>3, <3>4 DEF Serve
  <2>5. /\ accounts[req[c].id] # Null
        /\ accounts[req[c].id].version = req[c].expected
    BY <1>1, <2>4 DEF Write, Matches
  <2>6. /\ seen[c] # Null
        /\ seen[c].id = req[c].id
        /\ seen[c].version = req[c].expected
    BY <1>1 DEF IndInv, PendingDecisions
  <2>7. seen[c] \in Held
    BY <2>6 DEF Held, Snapshots
  <2> QED
    BY <1>1, <2>5, <2>6, <2>7, HeldBehind
<1>2. IndInv /\ [Next]_vars => [Kept]_vars
  BY <1>1
<1> QED
  BY <1>2, Invariance, PTL DEF Spec, NoLostUpdate

-----------------------------------------------------------------------------
(* The audit trail.                                                        *)

\* What can happen to an issued id: its document stays, goes, or - an open
\* one - gets its next version.
LEMMA IssuedMoves ==
    ASSUME IndInv, Next, NEW id \in issued
    PROVE  /\ id \in Ids /\ id \in issued'
           /\ \/ accounts'[id] = accounts[id]
              \/ accounts'[id] = Null
              \/ /\ accounts[id] # Null
                 /\ ~accounts[id].isDeleted
                 /\ accounts[id].version \in Nat
                 /\ accounts'[id].version = accounts[id].version + 1
<1>1. accounts \in [Ids -> Account \cup {Null}] /\ id \in Ids
  BY DEF IndInv, TypeOK
<1>2. id \in issued'
  BY StoreGrows
<1>3. CASE Stays
  BY <1>1, <1>2, <1>3 DEF Stays
<1>4. ASSUME NEW i \in Ids, NEW new \in Account, Inserts(i, new)
      PROVE  accounts'[id] = accounts[id]
  BY <1>1, <1>4 DEF Inserts
<1>5. ASSUME NEW i \in Ids, NEW new \in Account, Replaces(i, new)
      PROVE  \/ accounts'[id] = accounts[id]
             \/ /\ accounts[id] # Null
                /\ ~accounts[id].isDeleted
                /\ accounts[id].version \in Nat
                /\ accounts'[id].version = accounts[id].version + 1
  <2>1. CASE i = id
    BY <1>1, <1>5, <2>1, NullAssumption DEF Replaces, Successor, Account
  <2>2. CASE i # id
    BY <1>1, <1>5, <2>2 DEF Replaces
  <2> QED
    BY <2>1, <2>2
<1>6. ASSUME NEW i \in Ids, Erases(i)
      PROVE  accounts'[id] = accounts[id] \/ accounts'[id] = Null
  BY <1>1, <1>6 DEF Erases
<1> QED
  BY <1>1, <1>2, <1>3, <1>4, <1>5, <1>6, StoreStep

\* A request comes to its audit entry from the section that did the work, and
\* only AppendAudit writes to the trail.
LEMMA AuditSections ==
    ASSUME IndInv, NEW c \in Clients, Arrive(c) \/ Serve(c) \/ Drop(c)
    PROVE  /\ pc'[c] = "audit" => Insert(c) \/ FindToRead(c) \/ Write(c) \/ Purge(c)
           /\ AppendAudit(c) \/ auditlogs' = auditlogs
<1>1. pc \in [Clients -> Sections \cup Answers \cup {"idle"}]
  BY DEF IndInv, TypeOK
<1>2. CASE Arrive(c)
  BY <1>1, <1>2, ArriveShape DEF Receive, FirstSection, store
<1>3. CASE CandidateTaken(c) \/ CandidateFree(c) \/ InsertRefused(c) \/ WriteRefused(c)
  BY <1>1, <1>3 DEF CandidateTaken, CandidateFree, InsertRefused, WriteRefused, Goto, store
<1>4. CASE Insert(c) \/ FindToRead(c) \/ Write(c) \/ Purge(c)
  BY <1>4 DEF Insert, FindToRead, Write, Purge, store
<1>5. CASE FindToWrite(c)
  BY <1>1, <1>5 DEF FindToWrite, Decision, store
<1>6. CASE AppendAudit(c) \/ FailAudit(c)
  BY <1>1, <1>6 DEF AppendAudit, FailAudit, Goto, Audited, store
<1>7. CASE Reply(c) \/ Drop(c)
  BY <1>1, <1>7 DEF Reply, Drop, Forget, store
<1> QED
  BY <1>2, <1>3, <1>4, <1>5, <1>6, <1>7 DEF Serve

\* What AuditTruthful says of one entry.
Truthful(e) ==
    /\ e.action # "ACCESS_DENIED" => e.subject \in issued
    /\ e.action = "ACCOUNT_PURGED" => accounts[e.subject] = Null
    /\ e.action = "ACCOUNT_CLOSED" /\ accounts[e.subject] # Null
          => accounts[e.subject].isDeleted /\ accounts[e.subject].version = e.version
    /\ e.action = "ACCOUNT_UPDATED" => e.version \in Nat
    /\ e.action = "ACCOUNT_UPDATED" /\ accounts[e.subject] # Null
          => e.version <= accounts[e.subject].version

\* What a request whose work is done has in hand for its entry.
DoneOf(c) ==
    pc[c] = "audit" =>
        /\ req[c].op = "purge" => accounts[req[c].id] = Null
        /\ req[c].op \in Writes \cup Reads =>
              result[c] # Null /\ result[c].id = req[c].id
        /\ req[c].op = "close" =>
              /\ result[c].isDeleted
              /\ accounts[req[c].id] # Null => accounts[req[c].id] = result[c]

TrailInv ==
    /\ IndInv
    /\ \A e \in auditlogs : Truthful(e)
    /\ \A c \in Clients : DoneOf(c)

\* An entry that is true stays true.
LEMMA TruthfulStays ==
    ASSUME IndInv, Next, NEW e, Truthful(e)
    PROVE  Truthful(e)'
<1>1. CASE e.action = "ACCESS_DENIED"
  BY <1>1 DEF Truthful
<1>2. CASE e.action # "ACCESS_DENIED"
  <2>1. e.subject \in issued
    BY <1>2 DEF Truthful
  <2>2. /\ e.subject \in issued'
        /\ \/ accounts'[e.subject] = accounts[e.subject]
           \/ accounts'[e.subject] = Null
           \/ /\ accounts[e.subject] # Null
              /\ ~accounts[e.subject].isDeleted
              /\ accounts[e.subject].version \in Nat
              /\ accounts'[e.subject].version = accounts[e.subject].version + 1
    BY <2>1, IssuedMoves
  <2> QED
    BY <2>1, <2>2 DEF Truthful
<1> QED
  BY <1>1, <1>2

\* The entry a request is about to append is true.
LEMMA EntryTruthful ==
    ASSUME TrailInv, NEW c \in Clients, pc[c] \in {"audit", "deny"}
    PROVE  Truthful(Entry(c))
<1>1. CASE pc[c] = "deny"
  BY <1>1 DEF Entry, Truthful
<1>2. CASE pc[c] = "audit"
  <2>1. IndInv /\ DoneOf(c) /\ req[c].op \in Ops /\ req[c].id \in issued
    BY <1>2 DEF TrailInv, IndInv, RequestShape
  <2>2. /\ Entry(c).action = AuditActions[req[c].op]
        /\ Entry(c).subject = req[c].id
        /\ result[c] # Null => Entry(c).version = result[c].version
    BY <1>2 DEF Entry
  <2>3. result[c] # Null => result[c] \in Held
    BY DEF Held, Snapshots
  <2>4. /\ AuditActions[req[c].op] # "ACCESS_DENIED"
        /\ AuditActions[req[c].op] = "ACCOUNT_PURGED" => req[c].op = "purge"
        /\ AuditActions[req[c].op] = "ACCOUNT_CLOSED" => req[c].op = "close"
        /\ AuditActions[req[c].op] = "ACCOUNT_UPDATED" => req[c].op \in Writes
    BY <2>1 DEF AuditActions, Ops, Reads, Writes
  <2>5. req[c].op \in Writes =>
          /\ result[c].version \in Nat
          /\ accounts[req[c].id] # Null => result[c].version <= accounts[req[c].id].version
    BY <1>2, <2>1, <2>3, HeldBehind DEF DoneOf
  <2>6. req[c].op = "close" => result[c] # Null
    BY <1>2, <2>1 DEF DoneOf, Writes
  <2>7. req[c].op \in Writes => result[c] # Null
    BY <1>2, <2>1 DEF DoneOf
  <2> HIDE DEF AuditActions, Entry
  <2> QED
    BY <1>2, <2>1, <2>2, <2>4, <2>5, <2>6, <2>7 DEF DoneOf, Truthful
<1> QED
  BY <1>1, <1>2

\* The section that did the work leaves what the entry needs, and nobody takes
\* it away before the entry is appended.
LEMMA DoneStep ==
    ASSUME TrailInv, Next, NEW d \in Clients, pc'[d] = "audit"
    PROVE  DoneOf(d)'
<1>i. IndInv /\ DoneOf(d)
  BY DEF TrailInv
<1>t. /\ accounts \in [Ids -> Account \cup {Null}]
      /\ req \in [Clients -> Request]
      /\ result \in [Clients -> Account \cup {Null}]
  BY <1>i DEF IndInv, TypeOK
<1>1. PICK c \in Clients : Arrive(c) \/ Serve(c) \/ Drop(c)
  BY DEF Next
<1>2. CASE d # c
  <2>1. /\ pc[d] = "audit" /\ req'[d] = req[d] /\ result'[d] = result[d]
    BY <1>i, <1>1, <1>2, OthersUntouched
  <2>2. req[d].id \in issued
    BY <1>i, <2>1 DEF IndInv, RequestShape
  <2>3. \/ accounts'[req[d].id] = accounts[req[d].id]
        \/ accounts'[req[d].id] = Null
        \/ accounts[req[d].id] # Null /\ ~accounts[req[d].id].isDeleted
    BY <1>i, <2>2, IssuedMoves
  <2> QED
    BY <1>i, <2>1, <2>3 DEF DoneOf
<1>3. CASE d = c /\ Insert(c)
  <2>1. req'[c].op = "create"
    BY <1>i, <1>t, <1>3 DEF Insert, IndInv, RequestShape, Request
  <2> QED
    BY <1>3, <2>1 DEF DoneOf, Writes, Reads
<1>4. CASE d = c /\ FindToRead(c)
  <2>1. pc[c] = "find" /\ req[c].op \in Reads
    BY <1>4 DEF FindToRead
  <2> DEFINE found == IF req[c].op = "get"
                        THEN {FindById(accounts, req[c].id, FALSE)} \ {Null}
                        ELSE FindByNumber(accounts, req[c].number)
  <2>2. PICK doc \in found : /\ req' = [req EXCEPT ![c].id = doc.id]
                             /\ result' = [result EXCEPT ![c] = doc]
    <3>1. pc'[c] # "notFound"
      BY <1>4
    <3>2. pc \in [Clients -> Sections \cup Answers \cup {"idle"}]
      BY <1>i DEF IndInv, TypeOK
    <3> QED
      BY <1>4, <3>1, <3>2 DEF FindToRead, Goto
  <2>3. doc \in Account /\ doc.id \in Ids
    BY <1>i, <2>1, FindsAreStored
  <2> HIDE DEF found
  <2>4. req'[c].op = req[c].op /\ req'[c].id = doc.id /\ result'[c] = doc
    BY <1>t, <2>2 DEF Request
  <2> QED
    BY <1>4, <2>1, <2>3, <2>4, NullAssumption DEF DoneOf, Reads
<1>5. CASE d = c /\ Write(c)
  <2> DEFINE doc == Written(c, accounts[req[c].id])
  <2>1. /\ req' = req
        /\ accounts' = [accounts EXCEPT ![req[c].id] = doc]
        /\ result' = [result EXCEPT ![c] = doc]
    BY <1>5 DEF Write
  <2>2. req[c].op \in Writes
    BY <1>5 DEF Write
  <2>3. /\ req[c].id \in Ids
        /\ accounts[req[c].id] \in Account
        /\ Successor(doc, accounts[req[c].id])
        /\ req[c].op = "close" => doc.isDeleted
    BY <1>i, <1>5, WriteIsSuccessor
  <2>4. accounts[req[c].id].id = req[c].id
    BY <1>i, <2>3, NullAssumption DEF IndInv, StoredUnderOwnId
  <2> HIDE DEF doc
  <2>5. doc \in Account /\ doc # Null /\ doc.id = req[c].id
    BY <2>3, <2>4, NullAssumption DEF Successor
  <2>6. accounts'[req[c].id] = doc /\ result'[c] = doc
    BY <1>t, <2>1, <2>3
  <2> QED
    BY <1>5, <2>1, <2>2, <2>3, <2>5, <2>6 DEF DoneOf, Writes
<1>6. CASE d = c /\ Purge(c)
  <2>1. req' = req /\ req[c].op = "purge" /\ req[c].id \in Ids
    BY <1>i, <1>6, WriteTargets DEF Purge, Goto
  <2>2. accounts'[req[c].id] = Null
    BY <1>t, <1>6, <2>1 DEF Purge
  <2> QED
    BY <1>6, <2>1, <2>2 DEF DoneOf, Writes, Reads
<1> QED
  BY <1>i, <1>1, <1>2, <1>3, <1>4, <1>5, <1>6, AuditSections

\* The trail's invariant holds at the start and every step preserves it.
LEMMA TrailStep ==
    /\ Init => TrailInv
    /\ TrailInv /\ [Next]_vars => TrailInv'
<1>1. ASSUME Init
      PROVE  TrailInv
  <2>1. auditlogs = {} /\ \A c \in Clients : pc[c] = "idle"
    BY <1>1 DEF Init
  <2> QED
    BY <1>1, <2>1, InitInvariant DEF TrailInv, DoneOf
<1>2. ASSUME TrailInv, Next
      PROVE  TrailInv'
  <2>1. IndInv /\ IndInv'
    BY <1>2, NextInvariant DEF TrailInv
  <2>2. \A c \in Clients : DoneOf(c)'
    BY <1>2, DoneStep DEF DoneOf
  <2>3. ASSUME NEW e \in auditlogs'
        PROVE  Truthful(e)'
    <3>1. PICK c \in Clients : Arrive(c) \/ Serve(c) \/ Drop(c)
      BY <1>2 DEF Next
    <3>2. CASE e \in auditlogs
      BY <1>2, <2>1, <3>2, TruthfulStays DEF TrailInv
    <3>3. CASE e \notin auditlogs
      <4>1. pc[c] \in {"audit", "deny"} /\ e = Entry(c)
        BY <2>1, <2>3, <3>1, <3>3, AuditSections DEF AppendAudit
      <4>2. Truthful(e)
        BY <1>2, <4>1, EntryTruthful
      <4> QED
        BY <1>2, <2>1, <4>2, TruthfulStays
    <3> QED
      BY <3>2, <3>3
  <2> QED
    BY <2>1, <2>2, <2>3 DEF TrailInv
<1>3. ASSUME TrailInv, UNCHANGED vars
      PROVE  TrailInv'
  <2>1. IndInv'
    BY <1>3, NextInvariant DEF TrailInv
  <2> QED
    BY <1>3, <2>1 DEF TrailInv, vars, Truthful, DoneOf
<1> QED
  BY <1>1, <1>2, <1>3

\* The trail's invariant holds in every reachable state.
THEOREM TrailInvariance == Spec => []TrailInv
BY TrailStep, PTL DEF Spec

\* Whatever dies, is lost or overlaps, no audit entry says more than happened.
THEOREM TrailTruthful == Spec => []AuditTruthful
<1>1. TrailInv => AuditTruthful
  BY DEF TrailInv, AuditTruthful, Truthful
<1> QED
  BY <1>1, TrailInvariance, PTL

\* Without a fault nothing is struck from the trail, nor from what is about to
\* be appended to it.
LEMMA TrailGrows ==
    ASSUME ~Crashes, ~AuditFails, IndInv, Next
    PROVE  auditlogs \subseteq auditlogs' /\ Trail \subseteq Trail'
<1>1. PICK c \in Clients : Arrive(c) \/ Serve(c) \/ Drop(c)
  BY DEF Next
<1>2. auditlogs \subseteq auditlogs'
  BY <1>1, AuditSections DEF AppendAudit
<1>3. ASSUME NEW d \in Clients, pc[d] = "audit"
      PROVE  Entry(d) \in Trail'
  <2>1. CASE d # c
    <3>1. /\ pc'[d] = pc[d] /\ req'[d] = req[d]
          /\ current'[d] = current[d] /\ result'[d] = result[d]
      BY <1>1, <2>1, OthersUntouched
    <3>2. Entry(d)' = Entry(d)
      BY <3>1 DEF Entry
    <3> QED
      BY <1>3, <3>1, <3>2 DEF Trail
  <2>2. CASE d = c
    <3>1. AppendAudit(c)
      <4>1. ~Arrive(c) /\ ~Drop(c)
        BY <1>3, <2>2, ArriveShape DEF Receive, Drop
      <4>2. ~(CandidateTaken(c) \/ CandidateFree(c) \/ InsertRefused(c) \/ Insert(c))
        BY <1>3, <2>2 DEF CandidateTaken, CandidateFree, InsertRefused, Insert
      <4>3. ~(FindToRead(c) \/ FindToWrite(c) \/ Write(c) \/ WriteRefused(c) \/ Purge(c))
        BY <1>3, <2>2 DEF FindToRead, FindToWrite, Write, WriteRefused, Purge
      <4>4. ~(FailAudit(c) \/ Reply(c))
        BY <1>3, <2>2 DEF FailAudit, Reply, Answers
      <4> QED
        BY <1>1, <4>1, <4>2, <4>3, <4>4 DEF Serve
    <3> QED
      BY <2>2, <3>1 DEF AppendAudit, Trail
  <2> QED
    BY <2>1, <2>2
<1> QED
  BY <1>2, <1>3 DEF Trail

\* What a request about to append its entry adds to the trail.
LEMMA PendingEntry ==
    ASSUME NEW c \in Clients, pc[c] = "audit"
    PROVE  /\ Entry(c) \in Trail
           /\ Entry(c).action = AuditActions[req[c].op]
           /\ Entry(c).subject = req[c].id
           /\ result[c] # Null => Entry(c).version = result[c].version
BY DEF Entry, Trail

Recorded(id, v) ==
    \E e \in Trail : e.subject = id /\ e.version = v /\ e.action # "ACCOUNT_VIEWED"

\* The trail accounts for one id.
Covered(id) ==
    IF accounts[id] = Null
      THEN \E e \in Trail : e.action = "ACCOUNT_PURGED" /\ e.subject = id
      ELSE \A v \in 0..accounts[id].version : Recorded(id, v)

\* A successful read is on record.
ReadShown(c) ==
    pc[c] = "ok" /\ req[c].op \in Reads =>
        \E e \in auditlogs : /\ e.action = "ACCOUNT_VIEWED"
                             /\ e.subject = req[c].id
                             /\ e.version = result[c].version

\* An id whose document has not moved stays covered.
LEMMA CoveredStays ==
    ASSUME Trail \subseteq Trail', NEW id, accounts'[id] = accounts[id], Covered(id)
    PROVE  Covered(id)'
BY DEF Covered, Recorded

\* A new document, its next version and its erasure are covered by the entry
\* of the request that brought them about.
LEMMA CoveredStep ==
    ASSUME ~Crashes, ~AuditFails, TrailInv, Next, \A i \in issued : Covered(i),
           NEW id \in issued'
    PROVE  Covered(id)'
<1>i. IndInv /\ TrailInv'
  BY TrailStep DEF TrailInv
<1>t. /\ accounts \in [Ids -> Account \cup {Null}]
      /\ pc \in [Clients -> Sections \cup Answers \cup {"idle"}]
      /\ req \in [Clients -> Request]
      /\ result \in [Clients -> Account \cup {Null}]
      /\ issued \subseteq Ids
  BY <1>i DEF IndInv, TypeOK
<1>g. Trail \subseteq Trail'
  BY <1>i, TrailGrows
<1>1. PICK c \in Clients : Arrive(c) \/ Serve(c) \/ Drop(c)
  BY DEF Next
<1>e. pc'[c] = "audit" =>
        /\ (Entry(c)') \in Trail'
        /\ (Entry(c)').action = AuditActions[req'[c].op]
        /\ (Entry(c)').subject = req'[c].id
        /\ result'[c] # Null => (Entry(c)').version = result'[c].version
  BY DEF Entry, Trail
<1>2. CASE Stays
  BY <1>g, <1>2, CoveredStays DEF Stays
<1>3. CASE Insert(c)
  <2>1. PICK i \in Ids \ issued :
          LET doc == NewAccount(i, req[c].number, req[c].details, req[c].deposit)
          IN /\ accounts' = [accounts EXCEPT ![i] = doc]
             /\ issued' = issued \cup {i}
             /\ req' = [req EXCEPT ![c].id = i]
             /\ result' = [result EXCEPT ![c] = doc]
    BY <1>3 DEF Insert
  <2> DEFINE doc == NewAccount(i, req[c].number, req[c].details, req[c].deposit)
  <2>2. doc \in Account /\ doc.version = 0
    BY <1>i, <1>3 DEF Insert, IndInv, RequestShape, NewAccount, Account, AccountStatuses
  <2> HIDE DEF doc
  <2>3. /\ accounts'[i] = doc /\ result'[c] = doc
        /\ req'[c].id = i /\ req'[c].op = "create" /\ pc'[c] = "audit"
    BY <1>i, <1>t, <1>3, <2>1 DEF Insert, IndInv, RequestShape, Request, doc
  <2>4. AuditActions["create"] # "ACCOUNT_VIEWED"
    BY DEF AuditActions
  <2>5. CASE id = i
    BY <1>e, <2>2, <2>3, <2>4, <2>5, NullAssumption DEF Covered, Recorded
  <2>6. CASE id # i
    BY <1>g, <1>t, <2>1, <2>6, CoveredStays
  <2> QED
    BY <2>5, <2>6
<1>4. CASE Write(c)
  <2>0. PICK i, old, doc :
           i = req[c].id /\ old = accounts[req[c].id] /\ doc = Written(c, accounts[req[c].id])
    OBVIOUS
  <2>1. /\ req' = req /\ issued' = issued
        /\ accounts' = [accounts EXCEPT ![i] = doc]
        /\ result' = [result EXCEPT ![c] = doc]
        /\ pc' = [pc EXCEPT ![c] = "audit"]
        /\ req[c].op \in Writes
    BY <1>4, <2>0 DEF Write
  <2>2. i \in Ids /\ old \in Account /\ Successor(doc, old)
    BY <1>i, <1>4, <2>0, WriteIsSuccessor
  <2>3. AuditActions[req[c].op] # "ACCOUNT_VIEWED"
    BY <2>1 DEF AuditActions, Writes
  <2>4. doc # Null /\ doc.version = old.version + 1 /\ old.version \in Nat
    BY <2>2, NullAssumption DEF Successor, Account
  <2>5. accounts'[i] = doc /\ result'[c] = doc /\ pc'[c] = "audit"
    BY <1>t, <2>1, <2>2
  <2>6. CASE id = i
    <3>1. old # Null /\ accounts[i] = old
      BY <2>0, <2>2, NullAssumption
    <3>2. \A v \in 0..old.version : Recorded(i, v)
      BY <2>1, <2>6, <3>1 DEF Covered
    <3>3. \A v \in 0..old.version : Recorded(i, v)'
      BY <1>g, <3>2 DEF Recorded
    <3>4. Recorded(i, doc.version)'
      <4>1. (Entry(c)').subject = i /\ (Entry(c)').version = doc.version
        BY <1>e, <2>0, <2>1, <2>4, <2>5
      <4> QED
        BY <1>e, <2>1, <2>3, <2>5, <4>1 DEF Recorded
    <3>5. \A v \in 0..doc.version : v \in 0..old.version \/ v = doc.version
      BY <2>4
    <3> QED
      BY <2>4, <2>5, <2>6, <3>3, <3>4, <3>5 DEF Covered
  <2>7. CASE id # i
    BY <1>g, <1>t, <2>1, <2>7, CoveredStays
  <2> QED
    BY <2>6, <2>7
<1>5. CASE Purge(c)
  <2>1. /\ req' = req /\ issued' = issued /\ req[c].op = "purge"
        /\ accounts' = [accounts EXCEPT ![req[c].id] = Null]
        /\ pc'[c] = "audit"
    BY <1>t, <1>5 DEF Purge, Goto
  <2>2. AuditActions["purge"] = "ACCOUNT_PURGED"
    BY DEF AuditActions
  <2>3. CASE id = req[c].id
    <3>1. accounts'[id] = Null
      BY <1>t, <2>1, <2>3
    <3> QED
      BY <1>e, <2>1, <2>2, <2>3, <3>1 DEF Covered
  <2>4. CASE id # req[c].id
    BY <1>g, <1>t, <2>1, <2>4, CoveredStays
  <2> QED
    BY <2>3, <2>4
<1>6. Insert(c) \/ Write(c) \/ Purge(c) \/ Stays
  <2>1. ASSUME Arrive(c)
        PROVE  Stays
    BY <1>i, <2>1, ArriveShape DEF Receive, store, Stays
  <2>2. ASSUME \/ CandidateTaken(c) \/ CandidateFree(c) \/ InsertRefused(c)
               \/ FindToRead(c) \/ FindToWrite(c) \/ WriteRefused(c)
               \/ AppendAudit(c) \/ FailAudit(c) \/ Reply(c) \/ Drop(c)
        PROVE  Stays
    BY <2>2 DEF CandidateTaken, CandidateFree, InsertRefused, FindToRead, FindToWrite,
                WriteRefused, AppendAudit, FailAudit, Reply, Drop, Forget, store, Stays
  <2> QED
    BY <1>1, <2>1, <2>2 DEF Serve
<1> QED
  BY <1>2, <1>3, <1>4, <1>5, <1>6

\* A read is answered once its entry has been appended.
LEMMA ReadShownStep ==
    ASSUME ~Crashes, ~AuditFails, TrailInv, Next, NEW d \in Clients, ReadShown(d)
    PROVE  ReadShown(d)'
<1>i. IndInv
  BY DEF TrailInv
<1>t. pc \in [Clients -> Sections \cup Answers \cup {"idle"}]
  BY <1>i DEF IndInv, TypeOK
<1> SUFFICES ASSUME pc'[d] = "ok", req'[d].op \in Reads
             PROVE  \E e \in auditlogs' : /\ e.action = "ACCOUNT_VIEWED"
                                          /\ e.subject = req'[d].id
                                          /\ e.version = result'[d].version
  BY DEF ReadShown
<1>1. PICK c \in Clients : Arrive(c) \/ Serve(c) \/ Drop(c)
  BY DEF Next
<1>2. CASE d # c
  <2>1. pc'[d] = pc[d] /\ req'[d] = req[d] /\ result'[d] = result[d]
    BY <1>i, <1>1, <1>2, OthersUntouched
  <2> QED
    BY <1>i, <2>1, TrailGrows DEF ReadShown
<1>3. CASE d = c
  <2>1. AppendAudit(c)
    <3>1. ~Arrive(c)
      <4>1. Arrive(c) => pc'[c] \in {"number", "find", "deny"}
        BY <1>i, <1>t, ArriveShape DEF Receive, FirstSection
      <4> QED
        BY <1>3, <4>1
    <3>2. ~(CandidateTaken(c) \/ CandidateFree(c) \/ InsertRefused(c) \/ Insert(c))
      BY <1>t, <1>3 DEF CandidateTaken, CandidateFree, InsertRefused, Insert, Goto
    <3>3. ~(FindToRead(c) \/ Write(c) \/ WriteRefused(c) \/ Purge(c))
      BY <1>t, <1>3 DEF FindToRead, Write, WriteRefused, Purge, Goto
    <3>4. ~FindToWrite(c)
      BY <1>3 DEF FindToWrite, Writes, Reads
    <3>5. ~(FailAudit(c) \/ Reply(c) \/ Drop(c))
      BY <1>t, <1>3 DEF FailAudit, Reply, Drop, Forget
    <3> QED
      BY <1>1, <3>1, <3>2, <3>3, <3>4, <3>5 DEF Serve
  <2>2. /\ pc[c] = "audit" /\ req' = req /\ result' = result
        /\ Entry(c) \in auditlogs'
    BY <1>t, <1>3, <2>1 DEF AppendAudit, Goto, Audited
  <2>3. result[c] # Null /\ AuditActions[req[c].op] = "ACCOUNT_VIEWED"
    BY <1>3, <2>2 DEF TrailInv, DoneOf, AuditActions, Reads
  <2> QED
    BY <1>3, <2>2, <2>3, PendingEntry
<1> QED
  BY <1>2, <1>3

\* Without faults the trail is complete: every version, every erasure and
\* every successful read is in it or about to be appended, however requests
\* interleave.
THEOREM TrailComplete ==
    ASSUME ~Crashes, ~AuditFails
    PROVE  Spec => []AuditComplete
<1> DEFINE Complete == /\ \A id \in issued : Covered(id)
                       /\ \A c \in Clients : ReadShown(c)
<1>1. Init => Complete
  BY DEF Init, ReadShown
<1>2. TrailInv /\ Complete /\ [Next]_vars => Complete'
  <2>1. ASSUME TrailInv, Complete, Next
        PROVE  Complete'
    <3>1. \A id \in issued' : Covered(id)'
      BY <2>1, CoveredStep
    <3>2. \A c \in Clients : ReadShown(c)'
      BY <2>1, ReadShownStep
    <3> QED
      BY <3>1, <3>2
  <2>2. ASSUME Complete, UNCHANGED vars
        PROVE  Complete'
    <3>1. Trail' = Trail
      BY <2>2 DEF Trail, Entry, vars
    <3> QED
      BY <2>2, <3>1 DEF vars, Covered, Recorded, ReadShown
  <2> QED
    BY <2>1, <2>2
<1>3. Complete => AuditComplete
  BY DEF AuditComplete, Covered, Recorded, ReadShown
<1> HIDE DEF Complete
<1> QED
  BY <1>1, <1>2, <1>3, TrailInvariance, PTL DEF Spec

\* With versions on every write, a request that is about to write knows the
\* version it will replace, and its copy is not behind the one its client saw.
Expecting(c) ==
    /\ pc[c] \in {"find", "write"} /\ req[c].op \in Writes => req[c].expected # Null
    /\ pc[c] = "write" /\ req[c].op \in Writes => seen[c].version <= current[c].version

\* Each step of a request leaves that so, and no other request disturbs it.
LEMMA ExpectingStep ==
    ASSUME Versioned, IndInv, Next, NEW d \in Clients, Expecting(d)
    PROVE  Expecting(d)'
<1>t. /\ pc \in [Clients -> Sections \cup Answers \cup {"idle"}]
      /\ req \in [Clients -> Request]
      /\ current \in [Clients -> Account \cup {Null}]
  BY DEF IndInv, TypeOK
<1>1. PICK c \in Clients : Arrive(c) \/ Serve(c) \/ Drop(c)
  BY DEF Next
<1>2. CASE d # c
  <2>1. /\ pc'[d] = pc[d] /\ req'[d] = req[d]
        /\ current'[d] = current[d] /\ seen'[d] = seen[d]
    BY <1>1, <1>2, OthersUntouched
  <2> QED
    BY <2>1 DEF Expecting
<1>3. ASSUME Arrive(c)
      PROVE  Expecting(c)'
  <2>1. PICK r \in Request : WellFormed(c, r) /\ Receive(c, r)
    BY <1>3, ArriveShape
  <2>2. req'[c] = r /\ pc'[c] \in {"number", "find", "deny"}
    BY <1>t, <2>1 DEF Receive, FirstSection
  <2> QED
    BY <2>1, <2>2 DEF WellFormed, Expecting
<1>4. ASSUME FindToWrite(c), d = c
      PROVE  Expecting(c)'
  <2> DEFINE doc == FindById(accounts, req[c].id, req[c].op = "purge")
  <2>1. /\ pc[c] = "find" /\ req' = req /\ seen' = seen
        /\ current'[c] = doc
        /\ pc'[c] = Decision(req[c].op, doc, req[c].status)
    BY <1>t, <1>4 DEF FindToWrite
  <2>2. pc'[c] = "write" => doc # Null
    BY <2>1 DEF Decision
  <2>3. pc'[c] # "find"
    BY <2>1 DEF Decision
  <2>4. req[c].id \in Ids /\ doc \in {accounts[req[c].id], Null}
    BY <1>4, WriteTargets, FindByIdReturns DEF FindToWrite
  <2> HIDE DEF doc
  <2>5. ASSUME req[c].op \in Writes, doc # Null
        PROVE  req[c].expected # Null /\ seen[c].version <= doc.version
    <3>1. req[c].expected # Null
      BY <1>4, <2>1, <2>5 DEF Expecting
    <3>2. seen[c] # Null /\ seen[c].id = req[c].id
      BY <2>1, <2>5, <3>1 DEF IndInv, PendingDecisions
    <3>3. seen[c] \in Held
      BY <3>2 DEF Held, Snapshots
    <3> QED
      BY <2>4, <2>5, <3>1, <3>2, <3>3, HeldBehind
  <2> QED
    BY <2>1, <2>2, <2>3, <2>5 DEF Expecting
<1>5. ASSUME Serve(c) \/ Drop(c), ~FindToWrite(c)
      PROVE  Expecting(c)'
  <2>1. pc'[c] \notin {"find", "write"}
    BY <1>t, <1>5 DEF Serve, CandidateTaken, CandidateFree, InsertRefused, Insert,
       FindToRead, Write, WriteRefused, Purge, AppendAudit, FailAudit, Goto, Audited,
       Reply, Drop, Forget
  <2> QED
    BY <2>1 DEF Expecting
<1> QED
  BY <1>1, <1>2, <1>3, <1>4, <1>5

\* So the document it replaces is the one it has read.
LEMMA ReplacesWhatItRead ==
    ASSUME IndInv, NEW c \in Clients, Expecting(c), Write(c)
    PROVE  accounts[req[c].id] = current[c]
<1>1. pc[c] = "write" /\ req[c].op \in Writes /\ req[c].expected # Null
  BY DEF Write, Expecting
<1>2. /\ accounts[req[c].id] # Null
      /\ accounts[req[c].id].version = req[c].expected
  BY <1>1 DEF Write, Matches
<1>3. /\ current[c] # Null /\ current[c].id = req[c].id
      /\ seen[c] # Null /\ seen[c].version = req[c].expected
  BY <1>1 DEF IndInv, PendingDecisions
<1>4. current[c] \in Held
  BY <1>3 DEF Held, Snapshots
<1>5. seen[c].version <= current[c].version
  BY <1>1 DEF Expecting
<1> QED
  BY <1>2, <1>3, <1>4, <1>5, HeldBehind

\* The status the latest of these entries left, ACTIVE before the first.
Leaves(entries, status) ==
    IF entries = {}
      THEN status = "ACTIVE"
      ELSE \E f \in entries : /\ \A g \in entries : g.version <= f.version
                              /\ status = f.to

RestatedOf(id) == {e \in Restatements : e.subject = id}

Before(e) == {f \in Restatements : f.subject = e.subject /\ f.version < e.version}

\* An entry is of an issued account, at or behind its version.
Dated(e) ==
    /\ e.subject \in issued
    /\ e.version \in Nat
    /\ accounts[e.subject] # Null => e.version <= accounts[e.subject].version

StatusInv ==
    /\ TrailInv
    /\ \A c \in Clients : Expecting(c)
    /\ \A e \in Restatements : Dated(e) /\ Leaves(Before(e), e.from)
    /\ \A id \in issued :
          accounts[id] # Null /\ ~accounts[id].isDeleted
              => Leaves(RestatedOf(id), accounts[id].status)

\* Only a change of status adds a restatement, and none is lost.
LEMMA RestatementsStep ==
    ASSUME ~Crashes, ~AuditFails, IndInv, Next
    PROVE  \/ Restatements' = Restatements
           \/ \E c \in Clients :
                 /\ Write(c) /\ req[c].op = "changeStatus"
                 /\ Restatements' = Restatements \cup {Entry(c)'}
<1>t. /\ pc \in [Clients -> Sections \cup Answers \cup {"idle"}]
      /\ req \in [Clients -> Request]
  BY DEF IndInv, TypeOK
<1>1. PICK c \in Clients : Arrive(c) \/ Serve(c) \/ Drop(c)
  BY DEF Next
<1>2. Restatements \subseteq Restatements'
  BY TrailGrows DEF Restatements
<1>3. ASSUME NEW e \in Trail', e.to # Null, e \notin Trail
      PROVE  Write(c) /\ req[c].op = "changeStatus" /\ e = Entry(c)'
  <2>1. CASE e \in auditlogs'
    <3>1. AppendAudit(c) /\ e = Entry(c)
      BY <1>1, <1>3, <2>1, AuditSections DEF AppendAudit, Trail
    <3>2. pc[c] = "deny"
      BY <1>3, <3>1 DEF AppendAudit, Trail
    <3> QED
      BY <1>3, <3>1, <3>2 DEF Entry
  <2>2. CASE e \notin auditlogs'
    <3>1. PICK d \in Clients : pc'[d] = "audit" /\ e = Entry(d)'
      BY <1>3, <2>2 DEF Trail
    <3>2. CASE d # c
      <4>1. /\ pc'[d] = pc[d] /\ req'[d] = req[d]
            /\ current'[d] = current[d] /\ result'[d] = result[d]
        BY <1>1, <3>2, OthersUntouched
      <4>2. Entry(d)' = Entry(d)
        BY <4>1 DEF Entry
      <4> QED
        BY <1>3, <3>1, <4>1, <4>2 DEF Trail
    <3>3. CASE d = c
      <4>1. req'[c].op = "changeStatus"
        BY <1>3, <3>1, <3>3 DEF Entry
      <4>2. Insert(c) \/ FindToRead(c) \/ Write(c) \/ Purge(c)
        BY <1>1, <3>1, <3>3, AuditSections
      <4>3. ~Insert(c)
        BY <1>t, <4>1 DEF Insert, IndInv, RequestShape, Request
      <4>4. ~FindToRead(c)
        <5>0. ASSUME NEW id, req' = [req EXCEPT ![c].id = id]
              PROVE  req'[c].op = req[c].op
          BY <1>t, <5>0 DEF Request
        <5> QED
          BY <1>t, <4>1, <5>0 DEF FindToRead, Goto, Reads
      <4>5. ~Purge(c)
        BY <4>1 DEF Purge, Goto
      <4> QED
        BY <3>1, <3>3, <4>1, <4>2, <4>3, <4>4, <4>5 DEF Write
    <3> QED
      BY <3>2, <3>3
  <2> QED
    BY <2>1, <2>2
<1>4. CASE Restatements' \subseteq Restatements
  BY <1>2, <1>4
<1>5. CASE ~(Restatements' \subseteq Restatements)
  <2>1. PICK e \in Restatements' : e \notin Restatements
    BY <1>5
  <2>2. Write(c) /\ req[c].op = "changeStatus" /\ e = Entry(c)'
    BY <1>3, <2>1 DEF Restatements
  <2>3. \A f \in Restatements' : f \in Restatements \/ f = Entry(c)'
    BY <1>3 DEF Restatements
  <2> QED
    BY <1>2, <2>1, <2>2, <2>3
<1> QED
  BY <1>4, <1>5

\* An entry stays dated.
LEMMA DatedStays ==
    ASSUME IndInv, Next, NEW e, Dated(e)
    PROVE  Dated(e)'
<1>1. e.subject \in issued /\ e.version \in Nat
  BY DEF Dated
<1>2. /\ e.subject \in issued'
      /\ \/ accounts'[e.subject] = accounts[e.subject]
         \/ accounts'[e.subject] = Null
         \/ /\ accounts[e.subject] # Null
            /\ accounts[e.subject].version \in Nat
            /\ accounts'[e.subject].version = accounts[e.subject].version + 1
  BY <1>1, IssuedMoves
<1> QED
  BY <1>1, <1>2 DEF Dated

\* A step that is no change of status leaves an open document's status, and
\* opens none but an ACTIVE one.
LEMMA StatusKept ==
    ASSUME IndInv, Next, NEW id \in issued', accounts'[id] # Null, ~accounts'[id].isDeleted,
           \A c \in Clients : ~(Write(c) /\ req[c].op = "changeStatus")
    PROVE  \/ /\ id \in issued
              /\ accounts[id] # Null /\ ~accounts[id].isDeleted
              /\ accounts'[id].status = accounts[id].status
           \/ id \notin issued /\ accounts'[id].status = "ACTIVE"
<1>t. /\ accounts \in [Ids -> Account \cup {Null}]
      /\ issued \subseteq Ids
  BY DEF IndInv, TypeOK
<1>1. PICK c \in Clients : Arrive(c) \/ Serve(c) \/ Drop(c)
  BY DEF Next
<1>2. CASE accounts' = accounts /\ issued' = issued
  BY <1>2
<1>3. CASE Insert(c)
  <2>1. PICK i \in Ids \ issued :
          LET doc == NewAccount(i, req[c].number, req[c].details, req[c].deposit)
          IN /\ accounts' = [accounts EXCEPT ![i] = doc]
             /\ issued' = issued \cup {i}
    BY <1>3 DEF Insert
  <2>2. NewAccount(i, req[c].number, req[c].details, req[c].deposit).status = "ACTIVE"
    BY DEF NewAccount
  <2> QED
    BY <1>t, <2>1, <2>2
<1>4. CASE Write(c)
  <2>1. /\ issued' = issued
        /\ accounts' = [accounts EXCEPT ![req[c].id] = Written(c, accounts[req[c].id])]
        /\ req[c].op \in {"update", "close"}
    BY <1>4 DEF Write, Writes
  <2>2. /\ req[c].id \in Ids
        /\ accounts[req[c].id] \in Account
        /\ ~accounts[req[c].id].isDeleted
        /\ req[c].op = "update" =>
             Written(c, accounts[req[c].id]).status = accounts[req[c].id].status
        /\ req[c].op = "close" => Written(c, accounts[req[c].id]).isDeleted
    BY <1>4, WriteIsSuccessor
  <2> QED
    BY <1>t, <2>1, <2>2, NullAssumption
<1>5. CASE Purge(c)
  BY <1>t, <1>5 DEF Purge
<1>6. Insert(c) \/ Write(c) \/ Purge(c) \/ (accounts' = accounts /\ issued' = issued)
  <2>1. ASSUME Arrive(c)
        PROVE  accounts' = accounts /\ issued' = issued
    BY <2>1, ArriveShape DEF Receive, store
  <2>2. ASSUME \/ CandidateTaken(c) \/ CandidateFree(c) \/ InsertRefused(c)
               \/ FindToRead(c) \/ FindToWrite(c) \/ WriteRefused(c)
               \/ AppendAudit(c) \/ FailAudit(c) \/ Reply(c) \/ Drop(c)
        PROVE  accounts' = accounts /\ issued' = issued
    BY <2>2 DEF CandidateTaken, CandidateFree, InsertRefused, FindToRead, FindToWrite,
                WriteRefused, AppendAudit, FailAudit, Reply, Drop, Forget, store
  <2> QED
    BY <1>1, <2>1, <2>2 DEF Serve
<1> QED
  BY <1>2, <1>3, <1>4, <1>5, <1>6

\* Any other step leaves the chain of restatements as it is.
LEMMA ChainStays ==
    ASSUME StatusInv, Next, Restatements' = Restatements,
           \A c \in Clients : ~(Write(c) /\ req[c].op = "changeStatus")
    PROVE  /\ \A e \in Restatements' : Dated(e)' /\ Leaves(Before(e), e.from)'
           /\ \A id \in issued' :
                 accounts'[id] # Null /\ ~accounts'[id].isDeleted
                     => Leaves(RestatedOf(id), accounts[id].status)'
<1>i. IndInv
  BY DEF StatusInv, TrailInv
<1>1. ASSUME NEW e \in Restatements'
      PROVE  Dated(e)' /\ Leaves(Before(e), e.from)'
  <2>1. Dated(e) /\ Leaves(Before(e), e.from)
    BY <1>1 DEF StatusInv
  <2>2. Before(e)' = Before(e)
    BY DEF Before
  <2> QED
    BY <1>i, <2>1, <2>2, DatedStays DEF Leaves
<1>2. ASSUME NEW id \in issued', accounts'[id] # Null, ~accounts'[id].isDeleted
      PROVE  Leaves(RestatedOf(id), accounts[id].status)'
  <2>1. RestatedOf(id)' = RestatedOf(id)
    BY DEF RestatedOf
  <2>2. CASE id \in issued
    <3>1. /\ accounts[id] # Null /\ ~accounts[id].isDeleted
          /\ accounts'[id].status = accounts[id].status
      BY <1>i, <1>2, <2>2, StatusKept
    <3> QED
      BY <2>1, <2>2, <3>1 DEF StatusInv, Leaves
  <2>3. CASE id \notin issued
    <3>1. accounts'[id].status = "ACTIVE"
      BY <1>i, <1>2, <2>3, StatusKept
    <3>2. RestatedOf(id) = {}
      BY <2>3 DEF RestatedOf, StatusInv, Dated
    <3> QED
      BY <2>1, <3>1, <3>2 DEF Leaves
  <2> QED
    BY <2>2, <2>3
<1> QED
  BY <1>1, <1>2

\* A change of status adds one link to the chain of one account.
LEMMA ChainGrows ==
    ASSUME StatusInv, Next, NEW c \in Clients, Write(c), req[c].op = "changeStatus",
           Restatements' = Restatements \cup {Entry(c)'}
    PROVE  /\ \A e \in Restatements' : Dated(e)' /\ Leaves(Before(e), e.from)'
           /\ \A id \in issued' :
                 accounts'[id] # Null /\ ~accounts'[id].isDeleted
                     => Leaves(RestatedOf(id), accounts[id].status)'
<1>i. IndInv
  BY DEF StatusInv, TrailInv
<1>t. /\ accounts \in [Ids -> Account \cup {Null}]
      /\ pc \in [Clients -> Sections \cup Answers \cup {"idle"}]
      /\ result \in [Clients -> Account \cup {Null}]
  BY <1>i DEF IndInv, TypeOK
<1>0. PICK i, old, new, link :
         /\ i = req[c].id
         /\ old = accounts[req[c].id]
         /\ new = Written(c, accounts[req[c].id])
         /\ link = Entry(c)'
  OBVIOUS
<1>1. /\ i \in Ids /\ i \in issued
      /\ old \in Account /\ old # Null /\ ~old.isDeleted /\ old = accounts[i]
      /\ new \in Account /\ new # Null
      /\ new.version = old.version + 1
  <2>1. i \in Ids /\ old \in Account /\ ~old.isDeleted /\ Successor(new, old)
    BY <1>i, <1>0, WriteIsSuccessor
  <2> QED
    BY <1>i, <1>0, <2>1, NullAssumption DEF Successor, IndInv, StoredUnderOwnId
<1>2. new.status = req[c].status /\ ~new.isDeleted /\ req[c].status \in MutableStatuses
  <2>1. req[c].status \in MutableStatuses
    BY <1>i DEF Write, IndInv, RequestShape
  <2>2. new = Restated(old, req[c].status)
    BY <1>0 DEF Written
  <2> QED
    BY <1>1, <2>1, <2>2, RestatedIsSuccessor
<1>3. /\ accounts' = [accounts EXCEPT ![i] = new] /\ issued' = issued
      /\ accounts'[i] = new
      /\ req' = req /\ current' = current /\ result'[c] = new /\ pc'[c] = "audit"
  BY <1>t, <1>0, <1>1 DEF Write
<1>4. /\ link.subject = i
      /\ link.version = new.version
      /\ link.from = current[c].status
      /\ link.to = new.status
  BY <1>0, <1>1, <1>2, <1>3 DEF Entry
<1>5. current[c] = old
  BY <1>i, <1>0, ReplacesWhatItRead DEF StatusInv
<1>6. old.version \in Nat /\ new.version \in Nat
  BY <1>1 DEF Account
<1>7. \A e \in Restatements :
         /\ e.version \in Nat
         /\ e.subject = i => e.version <= old.version
  BY <1>1 DEF StatusInv, Dated
<1>8. ASSUME NEW e \in Restatements'
      PROVE  Dated(e)' /\ Leaves(Before(e), e.from)'
  <2>1. CASE e = link
    <3>1. Dated(e)'
      BY <1>1, <1>3, <1>4, <1>6, <2>1 DEF Dated
    <3>2. Before(e)' = RestatedOf(i)
      <4>1. \A f \in Restatements :
               f.subject = link.subject /\ f.version < link.version <=> f.subject = i
        BY <1>1, <1>4, <1>6, <1>7
      <4>2. ~(link.version < link.version)
        BY <1>4, <1>6
      <4>3. Restatements' = Restatements \cup {link}
        BY <1>0
      <4> QED
        BY <2>1, <4>1, <4>2, <4>3 DEF Before, RestatedOf
    <3>3. Leaves(RestatedOf(i), e.from)
      BY <1>1, <1>4, <1>5, <2>1 DEF StatusInv
    <3> QED
      BY <3>1, <3>2, <3>3 DEF Leaves
  <2>2. CASE e # link
    <3>1. e \in Restatements
      BY <1>0, <2>2
    <3>2. Dated(e) /\ Leaves(Before(e), e.from)
      BY <3>1 DEF StatusInv
    <3>3. Before(e)' = Before(e)
      <4>1. ~(link.subject = e.subject /\ link.version < e.version)
        BY <1>1, <1>4, <1>6, <1>7, <3>1
      <4>2. Restatements' = Restatements \cup {link}
        BY <1>0
      <4> QED
        BY <4>1, <4>2 DEF Before
    <3> QED
      BY <1>i, <3>2, <3>3, DatedStays DEF Leaves
  <2> QED
    BY <2>1, <2>2
<1>9. ASSUME NEW id \in issued', accounts'[id] # Null, ~accounts'[id].isDeleted
      PROVE  Leaves(RestatedOf(id), accounts[id].status)'
  <2>0. Restatements' = Restatements \cup {link}
    BY <1>0
  <2>1. CASE id = i
    <3>1. link \in RestatedOf(id)'
      BY <1>4, <2>0, <2>1 DEF RestatedOf
    <3>2. \A g \in RestatedOf(id)' : g.version <= link.version
      BY <1>1, <1>4, <1>6, <1>7, <2>0, <2>1 DEF RestatedOf
    <3> QED
      BY <1>3, <1>4, <2>1, <3>1, <3>2 DEF Leaves
  <2>2. CASE id # i
    <3>1. RestatedOf(id)' = RestatedOf(id)
      BY <1>4, <2>0, <2>2 DEF RestatedOf
    <3>2. id \in issued /\ id \in Ids /\ accounts'[id] = accounts[id]
      BY <1>i, <1>t, <1>3, <1>9, <2>2 DEF IndInv, TypeOK
    <3> QED
      BY <1>9, <3>1, <3>2 DEF StatusInv, Leaves
  <2> QED
    BY <2>1, <2>2
<1> QED
  BY <1>8, <1>9

\* Without faults and with versions on every write, each change of status is
\* audited with the status it really replaced, however requests interleave.
THEOREM StatusTrail ==
    ASSUME Versioned, ~Crashes, ~AuditFails
    PROVE  Spec => []StatusTrailConnected
<1>1. ASSUME Init
      PROVE  StatusInv
  <2>1. TrailInv
    BY <1>1, TrailStep
  <2>2. /\ \A c \in Clients : pc[c] = "idle"
        /\ auditlogs = {} /\ issued = {}
    BY <1>1 DEF Init
  <2>3. Restatements = {}
    BY <2>2 DEF Restatements, Trail
  <2> QED
    BY <2>1, <2>2, <2>3 DEF StatusInv, Expecting
<1>2. ASSUME StatusInv, Next
      PROVE  StatusInv'
  <2>1. TrailInv /\ TrailInv' /\ IndInv
    BY <1>2, TrailStep DEF StatusInv, TrailInv
  <2>2. \A c \in Clients : Expecting(c)'
    BY <1>2, <2>1, ExpectingStep DEF StatusInv
  <2>3. CASE \E c \in Clients : Write(c) /\ req[c].op = "changeStatus"
    <3>1. PICK c \in Clients : Write(c) /\ req[c].op = "changeStatus"
      BY <2>3
    <3>2. Restatements' = Restatements \cup {Entry(c)'}
      <4>1. /\ pc'[c] = "audit" /\ req' = req
            /\ pc[c] = "write"
        BY <2>1, <3>1 DEF Write, IndInv, TypeOK
      <4>2. req[c].status # Null
        BY <2>1, <3>1, <4>1, NullAssumption
           DEF IndInv, RequestShape, MutableStatuses, AccountStatuses
      <4>3. Entry(c)' \in Restatements'
        BY <3>1, <4>1, <4>2 DEF Restatements, Trail, Entry
      <4>4. \A d \in Clients : Write(d) => d = c
        BY <2>1, <3>1, <4>1 DEF Write, IndInv, TypeOK
      <4> QED
        BY <2>1, <1>2, <4>3, <4>4, RestatementsStep
    <3> QED
      BY <1>2, <2>1, <2>2, <3>1, <3>2, ChainGrows DEF StatusInv
  <2>4. CASE ~ \E c \in Clients : Write(c) /\ req[c].op = "changeStatus"
    <3>1. Restatements' = Restatements
      BY <1>2, <2>1, <2>4, RestatementsStep
    <3> QED
      BY <1>2, <2>1, <2>2, <2>4, <3>1, ChainStays DEF StatusInv
  <2> QED
    BY <2>3, <2>4
<1>3. ASSUME StatusInv, UNCHANGED vars
      PROVE  StatusInv'
  <2>1. TrailInv'
    BY <1>3, TrailStep DEF StatusInv
  <2>2. Trail' = Trail
    BY <1>3 DEF Trail, Entry, vars
  <2>3. Restatements' = Restatements
    BY <2>2 DEF Restatements
  <2> QED
    BY <1>3, <2>1, <2>3 DEF StatusInv, Expecting, Dated, Leaves, Before, RestatedOf, vars
<1>4. StatusInv => StatusTrailConnected
  BY DEF StatusInv, StatusTrailConnected, Leaves, Before
<1> QED
  BY <1>1, <1>2, <1>3, <1>4, PTL DEF Spec

-----------------------------------------------------------------------------
(* The concurrent API implements AccountLifecycle.                         *)

\* With no documents every account is NEW.
LEMMA LifecycleInit == Init => Lifecycle!Init
BY DEF Init, Lifecycle!Init

\* Every step of the API is a step of one account's life, or of none.
LEMMA LifecycleStep == IndInv /\ [Next]_vars => [Lifecycle!Next]_Lifecycle!vars
<1> SUFFICES ASSUME IndInv, Next
             PROVE  Lifecycle!Next \/ UNCHANGED Lifecycle!vars
  BY DEF vars, Lifecycle!vars
<1> DEFINE Phase(doc, used) == IF doc # Null THEN doc.status
                               ELSE IF used THEN "ERASED" ELSE "NEW"
           Funds(doc) == IF doc # Null THEN doc.balance ELSE 0
           phase == [id \in Ids |-> IF accounts[id] # Null THEN accounts[id].status
                                    ELSE IF id \in issued THEN "ERASED" ELSE "NEW"]
           funds == [id \in Ids |-> IF accounts[id] # Null THEN accounts[id].balance ELSE 0]
<1>1. accounts \in [Ids -> Account \cup {Null}]
  BY DEF IndInv, TypeOK
<1>2. CASE Stays
  BY <1>2 DEF Stays, Lifecycle!vars
<1>3. ASSUME NEW id \in Ids, NEW new \in Account, Inserts(id, new)
      PROVE  Lifecycle!Open(id)
  <2>1. accounts[id] = Null /\ id \notin issued
    BY <1>3 DEF Inserts, IndInv, StoredUnderOwnId
  <2>2. phase' = [phase EXCEPT ![id] = "ACTIVE"]
    BY <1>1, <1>3, NullAssumption DEF Inserts
  <2>3. funds' = [funds EXCEPT ![id] = new.balance]
    BY <1>1, <1>3, NullAssumption DEF Inserts
  <2>4. new.balance \in Deposits
    BY DEF Account
  <2> QED
    BY <2>1, <2>2, <2>3, <2>4 DEF Lifecycle!Open
<1>4. ASSUME NEW id \in Ids, NEW new \in Account, Replaces(id, new)
      PROVE  Lifecycle!Restate(id) \/ Lifecycle!Close(id)
  <2>1. /\ accounts[id] # Null
        /\ new # Null
        /\ accounts[id].status \in MutableStatuses
        /\ new.balance = accounts[id].balance
    BY <1>1, <1>4, NullAssumption DEF Replaces, Successor, IndInv, ClosedIsDeletedAndEmpty,
       Account, AccountStatuses, MutableStatuses
  <2>2. phase' = [phase EXCEPT ![id] = new.status]
    BY <1>1, <1>4, <2>1 DEF Replaces
  <2>3. funds' = funds
    BY <1>1, <1>4, <2>1 DEF Replaces
  <2>4. CASE new.isDeleted
    BY <1>4, <2>1, <2>2, <2>3, <2>4 DEF Replaces, Lifecycle!Close, Lifecycle!Live,
       MutableStatuses
  <2>5. CASE ~new.isDeleted
    BY <1>4, <2>1, <2>2, <2>3, <2>5 DEF Replaces, Lifecycle!Restate, Lifecycle!Live,
       MutableStatuses
  <2> QED
    BY <2>4, <2>5
<1>5. ASSUME NEW id \in Ids, Erases(id)
      PROVE  Lifecycle!Erase(id) \/ UNCHANGED Lifecycle!vars
  <2>1. CASE accounts[id] = Null
    BY <1>1, <1>5, <2>1 DEF Erases, Lifecycle!vars
  <2>2. CASE accounts[id] # Null
    <3>1. accounts[id].status = "CLOSED" /\ accounts[id].balance = 0
      BY <1>5, <2>2 DEF Erases, IndInv, ClosedIsDeletedAndEmpty
    <3>2. phase' = [phase EXCEPT ![id] = "ERASED"]
      BY <1>1, <1>5 DEF Erases
    <3>3. funds' = funds
      BY <1>1, <1>5, <3>1 DEF Erases
    <3> QED
      BY <2>2, <3>1, <3>2, <3>3 DEF Lifecycle!Erase
  <2> QED
    BY <2>1, <2>2
<1> QED
  BY <1>2, <1>3, <1>4, <1>5, StoreStep DEF Lifecycle!Next

\* Every behaviour of the concurrent API is, account by account, a life that
\* AccountLifecycle allows.
THEOREM Refinement == Spec => ImplementsLifecycle
BY LifecycleInit, LifecycleStep, Invariance, PTL DEF Spec, ImplementsLifecycle, Lifecycle!Spec
=============================================================================
