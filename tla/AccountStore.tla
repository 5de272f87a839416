---------------------------- MODULE AccountStore ----------------------------
(***************************************************************************)
(* The `accounts` collection and the queries of the account repository     *)
(* (repositories/account.repository.mongo.js).  MongoDB runs each of them  *)
(* atomically on one document, so each is one operator on the collection   *)
(* or on a document; Accounts.tla applies them in single steps.            *)
(*                                                                         *)
(* The patchable, encrypted and descriptive fields of a document are one   *)
(* abstract value, `details`; the account number stands for its blind      *)
(* index.                                                                  *)
(***************************************************************************)
EXTENDS Integers

CONSTANTS
    Ids,        \* the ObjectIds the driver can generate
    Numbers,    \* the account numbers generateAccountNumber can return
    Details,    \* the values of the fields PUT may patch
    Deposits,   \* opening balances, in minor units
    Null        \* null: no document, field not sent

ASSUME DepositsAssumption == Deposits \subseteq Nat

AccountStatuses == {"ACTIVE", "DORMANT", "FROZEN", "CLOSED"}

MutableStatuses == {"ACTIVE", "DORMANT", "FROZEN"}

Account ==
    [id : Ids, number : Numbers, details : Details, balance : Deposits,
     status : AccountStatuses, isDeleted : BOOLEAN, version : Nat]

\* Null is told apart from every value it stands beside.
ASSUME NullAssumption ==
    /\ Null \notin Account
    /\ Null \notin Ids
    /\ Null \notin Nat
    /\ Null \notin AccountStatuses

NewAccount(id, number, details, deposit) ==
    [id |-> id, number |-> number, details |-> details, balance |-> deposit,
     status |-> "ACTIVE", isDeleted |-> FALSE, version |-> 0]

\* A mutant of FindById: the reader forgets the soft-delete filter.
FindByIdEvenDeleted(coll, id, includeDeleted) == coll[id]

FindById(coll, id, includeDeleted) ==
    IF coll[id] # Null /\ (includeDeleted \/ ~coll[id].isDeleted)
      THEN coll[id]
      ELSE Null

FindByNumber(coll, number) ==
    {coll[id] : id \in {i \in Ids : /\ coll[i] # Null
                                    /\ coll[i].number = number
                                    /\ ~coll[i].isDeleted}}

\* existsByAccountNumberIndex counts closed accounts too; the unique index
\* on accountNumberIndex sees the same documents.
NumberTaken(coll, number) ==
    \E id \in Ids : coll[id] # Null /\ coll[id].number = number

\* Mutants of Matches: the filter without isDeleted, without the version,
\* and with the version only a lower bound.
MatchesDeletedToo(doc, expected) ==
    doc # Null /\ (expected = Null \/ doc.version = expected)

MatchesAnyVersion(doc, expected) == doc # Null /\ ~doc.isDeleted

\* The filter of updateById and of softDeleteById.
Matches(doc, expected) ==
    /\ doc # Null
    /\ ~doc.isDeleted
    /\ expected = Null \/ doc.version = expected

\* A mutant of Patched: no $inc of the version.
PatchedInPlace(doc, details) == [doc EXCEPT !.details = details]

Patched(doc, details) ==
    [doc EXCEPT !.details = details, !.version = @ + 1]

Restated(doc, status) ==
    [doc EXCEPT !.status = status, !.version = @ + 1]

SoftDeleted(doc) ==
    [doc EXCEPT !.isDeleted = TRUE, !.status = "CLOSED", !.version = @ + 1]
=============================================================================
