------------------------------- MODULE Pages -------------------------------
(***************************************************************************)
(* The pages of the console in one tab of a signed-in operator: the list,  *)
(* the page of an account and the form, the addresses they are shown at,   *)
(* and the calls they have under way.                                      *)
(*                                                                         *)
(* The tab shows one page.  It is kept when the address changes to another *)
(* one of the same component - between two accounts, or between the form   *)
(* of an account and the empty one - and made anew otherwise.  The answers *)
(* to calls come in any order.  Calls whose answers the page shows end with *)
(* it.  Errands are the calls whose answer leads to another address, which *)
(* it still does when the page that made them is gone.                     *)
(*                                                                         *)
(* What an account holds and what the server makes of a write is in        *)
(* Accounts; here an answer is good, or not.                               *)
(***************************************************************************)
EXTENDS Integers, Sequences, SequencesExt

CONSTANTS
    Ids,         \* accounts
    Kinds,       \* choices of the two filters
    AnyKind,     \* the one they start with: all statuses, all types
    MaxPages,    \* bound: pages of the list
    MaxHistory,  \* bound: entries of the tab's history
    MaxCalls,    \* bound: calls under way
    Null

ASSUME IdsAssumption == Null \notin Ids /\ Ids # {}

ASSUME KindsAssumption == AnyKind \in Kinds

ASSUME BoundsAssumption ==
    MaxPages \in Nat \ {0} /\ MaxHistory \in Nat \ {0} /\ MaxCalls \in Nat \ {0}

VARIABLES
    history,  \* the addresses visited
    at,       \* which of them is shown
    view,     \* the state of the page
    calls,    \* calls of the page under way, in the order they were made
    errands,  \* calls under way that lead to another address
    mishaps   \* what has happened to this page that may confuse it

vars == <<history, at, view, calls, errands, mishaps>>

\* The routes: list, account, form of an account, empty form.
Locations ==
    [page : {"list"}, id : {Null}] \cup [page : {"detail"}, id : Ids]
        \cup [page : {"form"}, id : Ids \cup {Null}]

List == [page |-> "list", id |-> Null]
Detail(id) == [page |-> "detail", id |-> id]
Form(id) == [page |-> "form", id |-> id]

Here == history[at]

Filters == [kind : Kinds, page : 0..MaxPages]

\* Rows are known by the query they answer, and come with the total of pages.
Rows == [of : Filters, pages : 0..MaxPages]

ASSUME RowsAssumption == Null \notin Rows

Views ==
    [page : {"list"}, filters : Filters, rows : Rows \cup {Null}, loading : BOOLEAN,
     error : BOOLEAN, looking : BOOLEAN]
    \cup [page : {"detail"}, account : Ids \cup {Null}, loading : BOOLEAN, error : BOOLEAN]
    \cup [page : {"form"}, form : Ids \cup {Null}, loading : BOOLEAN, busy : BOOLEAN]

\* The calls and the errands of each page.
CallsOf ==
    [page \in {"list", "detail", "form"} |->
        CASE page = "list"   -> {"list"}
          [] page = "detail" -> {"get", "status"}
          [] page = "form"   -> {"fill"}]

ErrandsOf ==
    [page \in {"list", "detail", "form"} |->
        CASE page = "list"   -> {"lookup"}
          [] page = "detail" -> {"close"}
          [] page = "form"   -> {"save"}]

Showing == {"list", "get", "status"}

Mishaps == {"reordered", "hasty", "failed"}

TypeOK ==
    /\ history \in BoundedSeq(Locations, MaxHistory)
    /\ at \in 1..Len(history)
    /\ view \in Views /\ view.page = Here.page
    /\ Len(calls) + Len(errands) <= MaxCalls
    /\ \A i \in 1..Len(calls) :
          /\ calls[i].job \in CallsOf[view.page]
          /\ calls[i].of \in IF calls[i].job = "list" THEN Filters ELSE Ids
          /\ calls[i].shown \in Ids \cup {Null} /\ calls[i].cancelled \in BOOLEAN
    /\ \A i \in 1..Len(errands) :
          /\ errands[i].job \in {"lookup", "close", "save"}
          /\ errands[i].of \in IF errands[i].job = "save" THEN Ids \cup {Null} ELSE Ids
          /\ errands[i].shown \in Ids \cup {Null} /\ errands[i].here \in BOOLEAN
          /\ errands[i].here => errands[i].job \in ErrandsOf[view.page]
    /\ mishaps \subseteq Mishaps

-----------------------------------------------------------------------------
(* Calls and addresses.                                                    *)

\* `shown` is the account whose data the page showed, or the form holds.
Call(job, of, shown) ==
    [job |-> job, of |-> of, shown |-> shown, cancelled |-> FALSE]

\* `here` is whether the page that runs it is still shown.
Errand(job, of, shown) ==
    [job |-> job, of |-> of, shown |-> shown, here |-> TRUE]

FirstQuery(kind) == [kind |-> kind, page |-> 1]

\* useState's initial values.
FreshPage(loc) ==
    CASE loc.page = "list" ->
            [page |-> "list", filters |-> FirstQuery(AnyKind), rows |-> Null,
             loading |-> TRUE, error |-> FALSE, looking |-> FALSE]
      [] loc.page = "detail" ->
            [page |-> "detail", account |-> Null, loading |-> TRUE, error |-> FALSE]
      [] loc.page = "form" ->
            [page |-> "form", form |-> Null, loading |-> loc.id # Null, busy |-> FALSE]

\* The call an effect makes when its page is mounted or its id changes.
FirstLoad(loc) ==
    CASE loc.page = "list"                   -> <<Call("list", FirstQuery(AnyKind), Null)>>
      [] loc.page = "detail"                 -> <<Call("get", loc.id, Null)>>
      [] loc.page = "form" /\ loc.id # Null  -> <<Call("fill", loc.id, Null)>>
      [] loc.page = "form" /\ loc.id = Null  -> <<>>

\* A mutant: the page does not look at the account while it loads.
StartLoadAsIs(v) == [v EXCEPT !.error = FALSE]

StartLoad(v) == [v EXCEPT !.loading = TRUE, !.error = FALSE]

\* A mutant: the clean-up of the form's effect is forgotten.
NotCancelled(cs) == cs

\* The clean-up of the form's effect.
Cancelled(cs) ==
    [i \in 1..Len(cs) |-> [cs[i] EXCEPT !.cancelled = @ \/ cs[i].job = "fill"]]

\* A mutant: errands outlive their page with its state.
NeverLeft(es) == es

\* The page is unmounted.
Left(es) == [i \in 1..Len(es) |-> [es[i] EXCEPT !.here = FALSE]]

\* A mutant: the effect has no dependencies.
RunsOnce(loc) == FALSE

\* The effect depends on the id of the address.
Reruns(loc) == loc.id # Here.id

\* The tab's address is loc now, and the errands under way are es.
Show(loc, es) ==
    IF loc.page # Here.page
    THEN /\ view' = FreshPage(loc)
         /\ calls' = FirstLoad(loc)
         /\ errands' = Left(es)
         /\ mishaps' = {}
    ELSE /\ errands' = es /\ UNCHANGED mishaps
         /\ IF Reruns(loc)
            THEN /\ view' = IF loc.page = "detail" THEN StartLoad(view) ELSE view
                 /\ calls' = Cancelled(calls) \o FirstLoad(loc)
            ELSE UNCHANGED <<view, calls>>

Room == Len(calls) + Len(errands) < MaxCalls

Push(loc, es) ==
    /\ at < MaxHistory
    /\ history' = Append(SubSeq(history, 1, at), loc)
    /\ at' = at + 1
    /\ Show(loc, es)

Replace(loc, es) ==
    /\ history' = [history EXCEPT ![at] = loc]
    /\ UNCHANGED at
    /\ Show(loc, es)

\* A tab opened at any address.
Init ==
    /\ \E loc \in Locations : history = <<loc>>
    /\ at = 1
    /\ view = FreshPage(Here)
    /\ calls = FirstLoad(Here)
    /\ errands = <<>>
    /\ mishaps = {}

-----------------------------------------------------------------------------
(* The operator.                                                           *)

\* Nothing that the page loads is on its way.
Quiet == \A i \in 1..Len(calls) : calls[i].job # "status" => calls[i].cancelled

\* The operator acts on a page that is still loading.
Hasten == mishaps' = IF Quiet THEN mishaps ELSE mishaps \cup {"hasty"}

\* A mutant: load is made once, and asks for the filters it was made with.
QueryOfClosure(filters) == view.filters

QueryOf(filters) == filters

LoadList(filters) ==
    /\ view' = [StartLoad(view) EXCEPT !.filters = filters]
    /\ calls' = Append(calls, Call("list", QueryOf(filters), Null))
    /\ UNCHANGED <<history, at, errands>>

ChooseFilter(kind) ==
    /\ view.page = "list" /\ Room
    /\ kind # view.filters.kind
    /\ LoadList(FirstQuery(kind))
    /\ UNCHANGED mishaps

ShowsRows ==
    /\ view.page = "list" /\ ~view.loading
    /\ view.rows # Null
    /\ view.rows.of.page <= view.rows.pages

\* The buttons look at the page shown, and count from the page asked for.
\* Bounds: one page before the first, and none beyond MaxPages.
Turn ==
    /\ ShowsRows /\ Room
    /\ \/ /\ view.rows.of.page > 1
          /\ view.filters.page >= 1
          /\ LoadList([view.filters EXCEPT !.page = @ - 1])
       \/ /\ view.rows.of.page < view.rows.pages
          /\ view.filters.page < MaxPages
          /\ LoadList([view.filters EXCEPT !.page = @ + 1])
    /\ Hasten

Lookup(id) ==
    /\ view.page = "list" /\ ~view.looking /\ Room
    /\ view' = [view EXCEPT !.looking = TRUE]
    /\ errands' = Append(errands, Errand("lookup", id, Null))
    /\ UNCHANGED <<history, at, calls, mishaps>>

\* A row, "New account", "Edit", and the links back to the list.
Follow ==
    /\ Room
    /\ \/ ShowsRows /\ \E id \in Ids : Push(Detail(id), errands)
       \/ view.page = "list" /\ Push(Form(Null), errands)
       \/ view.page # "list" /\ Push(List, errands)

ShowsAccount ==
    view.page = "detail" /\ ~view.loading /\ ~view.error

Edit == ShowsAccount /\ Room /\ Push(Form(Here.id), errands)

\* The id is the address's, the version that of the account shown.  The buttons
\* of a busy page stay enabled: `disabled` given to Button comes after `busy`.
ChangeAccount ==
    /\ ShowsAccount /\ Room
    /\ \/ /\ calls' = Append(calls, Call("status", Here.id, view.account))
          /\ UNCHANGED errands
       \/ /\ errands' = Append(errands, Errand("close", Here.id, view.account))
          /\ UNCHANGED calls
    /\ Hasten
    /\ UNCHANGED <<history, at, view>>

Submit ==
    /\ view.page = "form" /\ ~view.loading /\ ~view.busy /\ Room
    /\ view' = [view EXCEPT !.busy = TRUE]
    /\ errands' = Append(errands, Errand("save", Here.id, view.form))
    /\ Hasten
    /\ UNCHANGED <<history, at, calls>>

\* Back and forward, by any number of entries; "Cancel" goes one back.
Jump ==
    /\ Room
    /\ \E k \in 1..Len(history) \ {at} :
          /\ at' = k
          /\ Show(history[k], errands)
    /\ UNCHANGED history

User ==
    \/ \E kind \in Kinds : ChooseFilter(kind)
    \/ Turn
    \/ \E id \in Ids : Lookup(id)
    \/ Follow \/ Edit
    \/ ChangeAccount \/ Submit
    \/ Jump

-----------------------------------------------------------------------------
(* Answers.                                                                *)

\* An answer that sets what is shown comes before one to an earlier call.
Note(i, also) ==
    mishaps' = mishaps \cup also \cup
        IF calls[i].job \in Showing /\ \E j \in 1..(i - 1) : calls[j].job \in Showing
        THEN {"reordered"} ELSE {}

\* A mutant: the page goes on loading after a failure.
FailAndLoad(v) == IF v.page = "form" THEN v ELSE [v EXCEPT !.error = TRUE]

FailLoad(v) ==
    IF v.page = "form" THEN [v EXCEPT !.loading = FALSE]
    ELSE [v EXCEPT !.loading = FALSE, !.error = TRUE]

Stay == UNCHANGED <<history, at, errands>>

\* Page 0 is refused by the schema of the query.
AnswerList(i) ==
    LET query == calls[i].of
    IN /\ calls[i].job = "list"
       /\ query.page >= 1
       /\ \E pages \in 0..MaxPages :
             view' = [view EXCEPT !.rows = [of |-> query, pages |-> pages], !.loading = FALSE]
       /\ calls' = RemoveAt(calls, i)
       /\ Note(i, {}) /\ Stay

AnswerGet(i) ==
    /\ calls[i].job = "get"
    /\ view' = [view EXCEPT !.account = calls[i].of, !.loading = FALSE]
    /\ calls' = RemoveAt(calls, i)
    /\ Note(i, {}) /\ Stay

AnswerFill(i) ==
    /\ calls[i].job = "fill"
    /\ view' = IF calls[i].cancelled THEN view
               ELSE [view EXCEPT !.form = calls[i].of, !.loading = FALSE]
    /\ calls' = RemoveAt(calls, i)
    /\ Stay /\ UNCHANGED mishaps

\* A list, an account or a form's account could not be had.
FailToLoad(i) ==
    /\ calls[i].job \in {"list", "get", "fill"}
    /\ view' = IF calls[i].cancelled THEN view ELSE FailLoad(view)
    /\ calls' = RemoveAt(calls, i)
    /\ Note(i, IF calls[i].cancelled THEN {} ELSE {"failed"}) /\ Stay

AnswerStatus(i) ==
    /\ calls[i].job = "status"
    /\ view' \in {view, [view EXCEPT !.account = calls[i].of]}
    /\ calls' = RemoveAt(calls, i)
    /\ Note(i, {}) /\ Stay

\* navigate() is called though the page that made the call may be gone.
\* Bound: with a full history the lookup's address replaces the last.
AnswerLookup(i) ==
    /\ errands[i].job = "lookup"
    /\ \/ Push(Detail(errands[i].of), RemoveAt(errands, i))
       \/ at = MaxHistory /\ Replace(Detail(errands[i].of), RemoveAt(errands, i))

AnswerClose(i) ==
    /\ errands[i].job = "close"
    /\ Replace(List, RemoveAt(errands, i))

AnswerSave(i) ==
    /\ errands[i].job = "save"
    /\ \E id \in IF errands[i].of = Null THEN Ids ELSE {errands[i].of} :
          Replace(Detail(id), RemoveAt(errands, i))

\* The page, if it is still there, is told that the errand has failed.
Refuse(i) ==
    /\ view' = CASE errands[i].job = "lookup" /\ errands[i].here ->
                       [view EXCEPT !.looking = FALSE]
                 [] errands[i].job = "save" /\ errands[i].here ->
                       [view EXCEPT !.busy = FALSE]
                 [] OTHER -> view
    /\ errands' = RemoveAt(errands, i)
    /\ UNCHANGED <<history, at, calls, mishaps>>

Answer(i) ==
    AnswerList(i) \/ AnswerGet(i) \/ AnswerFill(i) \/ FailToLoad(i) \/ AnswerStatus(i)

Return(i) == AnswerLookup(i) \/ AnswerClose(i) \/ AnswerSave(i) \/ Refuse(i)

Answered ==
    \/ \E i \in 1..Len(calls) : Answer(i)
    \/ \E i \in 1..Len(errands) : Return(i)

Next == User \/ Answered

Spec == Init /\ [][Next]_vars

\* Every call is answered or fails: the browser and the server time out.
FairSpec == Spec /\ WF_vars(Answered)

-----------------------------------------------------------------------------
(* Properties.                                                             *)

\* With no call of the list under way the rows are those of the filters
\* (AccountsPage, load), unless it has failed, or answers came in another
\* order than the calls: load does not cancel the one before it.
RowsMatchFilters ==
    view.page = "list" /\ calls = <<>> =>
        \/ view.error \/ "reordered" \in mishaps
        \/ view.rows # Null /\ view.rows.of = view.filters

\* With nothing under way the page of an account shows the account of its
\* address (AccountDetailPage, load), unless answers came in another order.
DetailShowsAddressed ==
    view.page = "detail" /\ calls = <<>> =>
        view.error \/ "reordered" \in mishaps \/ view.account = Here.id

\* A status change, a close or a save goes to the account whose data the
\* operator saw (AccountDetailPage, onChangeStatus and onClose; AccountFormPage,
\* onSubmit), unless they acted while the page loaded, the load failed, or
\* answers came in another order.
WritesAddressShown ==
    mishaps = {} =>
        /\ \A i \in 1..Len(calls) :
              calls[i].job = "status" => calls[i].shown = calls[i].of
        /\ \A i \in 1..Len(errands) :
              errands[i].job \in {"close", "save"} /\ errands[i].here /\ errands[i].of # Null
                 => errands[i].shown = errands[i].of

\* The page of an account never renders without one: its JSX reads
\* account.status when it neither loads nor has failed (AccountDetailPage).
NeverRendersNull ==
    view.page = "detail" => view.loading \/ view.error \/ view.account # Null

\* If the operator waits, the page stops loading (setLoading in the pages), but
\* for the empty form that was come to from the form of an account still loading.
SpinnerEnds == <>[][~User]_vars => []<>(Here # Form(Null) => ~view.loading)
=============================================================================
