---------------------------- MODULE PagesProofs ----------------------------
(***************************************************************************)
(* Theorems about Pages, for any accounts and filters, any length of the   *)
(* tab's history, and any number of calls under way.                       *)
(***************************************************************************)
EXTENDS Pages, SequenceTheorems, TLAPS

-----------------------------------------------------------------------------
(* Sequences of calls.                                                     *)

\* Without its i-th element a sequence keeps the others in their order.
LEMMA RemoveAtProperties ==
    ASSUME NEW S, NEW s \in Seq(S), NEW i \in 1..Len(s)
    PROVE  /\ RemoveAt(s, i) \in Seq(S)
           /\ Len(RemoveAt(s, i)) = Len(s) - 1
           /\ \A j \in 1..(Len(s) - 1) :
                 RemoveAt(s, i)[j] = IF j < i THEN s[j] ELSE s[j + 1]
<1>1. Len(s) \in Nat /\ i \in Nat /\ \A j \in 1..Len(s) : s[j] \in S
  BY LenProperties
<1>2. PICK s1 : s1 = SubSeq(s, 1, i - 1)
  OBVIOUS
<1>3. PICK s2 : s2 = SubSeq(s, i + 1, Len(s))
  OBVIOUS
<1>4. /\ s1 \in Seq(S) /\ Len(s1) = i - 1
      /\ \A j \in 1..(i - 1) : s1[j] = s[j]
  <2>1. /\ s1 \in Seq(S) /\ Len(s1) = IF 1 <= i - 1 THEN (i - 1) - 1 + 1 ELSE 0
        /\ \A j \in 1 .. (i - 1) - 1 + 1 : s1[j] = s[1 + j - 1]
    BY <1>1, <1>2, SubSeqProperties
  <2> QED
    BY <1>1, <2>1
<1>5. /\ s2 \in Seq(S) /\ Len(s2) = Len(s) - i
      /\ \A j \in 1..(Len(s) - i) : s2[j] = s[i + j]
  <2>1. /\ s2 \in Seq(S) /\ Len(s2) = IF i + 1 <= Len(s) THEN Len(s) - (i + 1) + 1 ELSE 0
        /\ \A j \in 1 .. Len(s) - (i + 1) + 1 : s2[j] = s[(i + 1) + j - 1]
    BY <1>1, <1>3, SubSeqProperties
  <2> QED
    BY <1>1, <2>1
<1>6. RemoveAt(s, i) = s1 \o s2
  BY <1>2, <1>3 DEF RemoveAt
<1>7. /\ s1 \o s2 \in Seq(S) /\ Len(s1 \o s2) = Len(s1) + Len(s2)
      /\ \A j \in 1 .. Len(s1) + Len(s2) : (s1 \o s2)[j] =
             IF j <= Len(s1) THEN s1[j] ELSE s2[j - Len(s1)]
  BY <1>4, <1>5, ConcatProperties
<1>8. ASSUME NEW j \in 1..(Len(s) - 1)
      PROVE  (s1 \o s2)[j] = IF j < i THEN s[j] ELSE s[j + 1]
  <2>1. CASE j < i
    <3>1. j \in 1..(i - 1) /\ j \in 1 .. Len(s1) + Len(s2) /\ j <= Len(s1)
      BY <1>1, <1>4, <1>5, <2>1
    <3> QED
      BY <1>4, <1>7, <2>1, <3>1
  <2>2. CASE ~(j < i)
    <3>1. PICK k \in 1..(Len(s) - i) : k = j - (i - 1)
      BY <1>1, <2>2
    <3>2. s2[k] = s[i + k] /\ i + k = j + 1 /\ j - Len(s1) = k /\ ~(j <= Len(s1))
      BY <1>1, <1>4, <1>5, <2>2, <3>1
    <3>3. j \in 1 .. Len(s1) + Len(s2)
      BY <1>1, <1>4, <1>5
    <3>4. (s1 \o s2)[j] = s2[j - Len(s1)]
      BY <1>7, <3>2, <3>3
    <3> QED
      BY <2>2, <3>2, <3>4
  <2> QED
    BY <2>1, <2>2
<1> QED
  BY <1>1, <1>4, <1>5, <1>6, <1>7, <1>8

\* A sequence made index by index.
LEMMA IndexedSequence ==
    ASSUME NEW S, NEW n \in Nat, NEW f \in [1..n -> S]
    PROVE  f \in Seq(S) /\ Len(f) = n
OBVIOUS

-----------------------------------------------------------------------------
(* The invariant.                                                          *)

ListViews ==
    [page : {"list"}, filters : Filters, rows : Rows \cup {Null}, loading : BOOLEAN,
     error : BOOLEAN, looking : BOOLEAN]

DetailViews ==
    [page : {"detail"}, account : Ids \cup {Null}, loading : BOOLEAN, error : BOOLEAN]

FormViews == [page : {"form"}, form : Ids \cup {Null}, loading : BOOLEAN, busy : BOOLEAN]

CallRecords ==
    [job : {"list", "get", "status", "fill"}, of : Ids \cup Filters,
     shown : Ids \cup {Null}, cancelled : BOOLEAN]

ErrandRecords ==
    [job : {"lookup", "close", "save"}, of : Ids \cup {Null}, shown : Ids \cup {Null},
     here : BOOLEAN]

\* The types, as the provers like them.
Typed ==
    /\ history \in Seq(Locations) /\ Len(history) <= MaxHistory
    /\ at \in 1..Len(history)
    /\ view \in Views /\ view.page = Here.page
    /\ calls \in Seq(CallRecords) /\ errands \in Seq(ErrandRecords)
    /\ Len(calls) + Len(errands) <= MaxCalls
    /\ mishaps \subseteq Mishaps

\* What a page asks for, and what it may do without.
CallFits(c, page) ==
    /\ c.job \in CallsOf[page]
    /\ c.of \in IF c.job = "list" THEN Filters ELSE Ids
    /\ c.cancelled => c.job = "fill"

ErrandFits(e, page) ==
    /\ e.of = Null => e.job = "save"
    /\ e.here => e.job \in ErrandsOf[page]

Fits ==
    /\ \A i \in 1..Len(calls) : CallFits(calls[i], view.page)
    /\ \A i \in 1..Len(errands) : ErrandFits(errands[i], view.page)

\* The last query asked for is that of the filters, or the rows are its answer.
ListInv ==
    view.page = "list" /\ "reordered" \notin mishaps =>
        IF calls = <<>>
        THEN view.error \/ (view.rows # Null /\ view.rows.of = view.filters)
        ELSE calls[Len(calls)].of = view.filters

\* A call for another account is followed by a get of the address's, and so is
\* another account on the page.
Gets(i) == calls[i].job = "get" /\ calls[i].of = Here.id

DetailInv ==
    view.page = "detail" /\ "reordered" \notin mishaps =>
        /\ \A i \in 1..Len(calls) :
              calls[i].of = Here.id \/ \E j \in (i + 1)..Len(calls) : Gets(j)
        /\ \/ view.error \/ view.account = Here.id
           \/ \E j \in 1..Len(calls) : Gets(j)

\* Only the answer for the address's account will fill the form, and it is on
\* its way unless it has.
Fills(i) == calls[i].job = "fill" /\ ~calls[i].cancelled

FormInv ==
    view.page = "form" =>
        /\ \A i \in 1..Len(calls) : Fills(i) => calls[i].of = Here.id
        /\ mishaps = {} /\ Here.id # Null =>
              view.form = Here.id \/ \E i \in 1..Len(calls) : Fills(i)

PagesInv ==
    Typed /\ Fits /\ ListInv /\ DetailInv /\ FormInv /\ NeverRendersNull /\ WritesAddressShown

-----------------------------------------------------------------------------
(* Addresses, pages and their first calls.                                 *)

\* The pages have addresses of these forms,
LEMMA LocationFields ==
    ASSUME NEW loc \in Locations
    PROVE  /\ loc.page \in {"list", "detail", "form"}
           /\ loc.page = "list" => loc.id = Null
           /\ loc.page = "detail" => loc.id \in Ids
           /\ loc.page = "form" => loc.id \in Ids \cup {Null}
BY DEF Locations

\* and these are addresses.
LEMMA LocationsAre ==
    /\ List \in Locations
    /\ \A id \in Ids : Detail(id) \in Locations
    /\ \A id \in Ids \cup {Null} : Form(id) \in Locations
BY DEF Locations, List, Detail, Form

\* The state of a page is that of its kind.
LEMMA ViewFields ==
    ASSUME NEW v \in Views
    PROVE  /\ v.page \in {"list", "detail", "form"}
           /\ v.page = "list" => v \in ListViews
           /\ v.page = "detail" => v \in DetailViews
           /\ v.page = "form" => v \in FormViews
BY DEF Views, ListViews, DetailViews, FormViews

\* The calls of each page.
LEMMA JobsOfPages ==
    /\ CallsOf["list"] = {"list"} /\ CallsOf["detail"] = {"get", "status"}
    /\ CallsOf["form"] = {"fill"}
    /\ ErrandsOf["list"] = {"lookup"} /\ ErrandsOf["detail"] = {"close"}
    /\ ErrandsOf["form"] = {"save"}
BY DEF CallsOf, ErrandsOf

\* The first query is one of the list's.
LEMMA QueryFields ==
    \A kind \in Kinds : FirstQuery(kind) \in Filters
BY BoundsAssumption DEF FirstQuery, Filters

\* A page as it is mounted.
LEMMA FreshFields ==
    ASSUME NEW loc \in Locations
    PROVE  /\ FreshPage(loc) \in Views /\ FreshPage(loc).page = loc.page
           /\ loc.page = "list" => FreshPage(loc).filters = FirstQuery(AnyKind)
           /\ loc.page = "detail" => FreshPage(loc).loading
<1>1. CASE loc.page = "list"
  <2>1. PICK v : v = [page |-> "list", filters |-> FirstQuery(AnyKind), rows |-> Null,
                      loading |-> TRUE, error |-> FALSE, looking |-> FALSE]
    OBVIOUS
  <2>2. v \in ListViews /\ v.page = "list" /\ v.filters = FirstQuery(AnyKind)
    BY <2>1, KindsAssumption, QueryFields DEF ListViews
  <2>3. FreshPage(loc) = v
    BY <1>1, <2>1 DEF FreshPage
  <2> QED
    BY <1>1, <2>2, <2>3 DEF Views, ListViews
<1>2. CASE loc.page = "detail"
  <2>1. PICK v : v = [page |-> "detail", account |-> Null, loading |-> TRUE, error |-> FALSE]
    OBVIOUS
  <2>2. v \in DetailViews /\ v.page = "detail" /\ v.loading
    BY <2>1 DEF DetailViews
  <2>3. FreshPage(loc) = v
    BY <1>2, <2>1 DEF FreshPage
  <2> QED
    BY <1>2, <2>2, <2>3 DEF Views, DetailViews
<1>3. CASE loc.page = "form"
  <2>0. PICK spins \in BOOLEAN : spins = (loc.id # Null)
    OBVIOUS
  <2>1. PICK v : v = [page |-> "form", form |-> Null, loading |-> spins, busy |-> FALSE]
    OBVIOUS
  <2>2. v \in FormViews /\ v.page = "form"
    BY <2>1 DEF FormViews
  <2>3. FreshPage(loc) = v
    BY <1>3, <2>0, <2>1 DEF FreshPage
  <2> QED
    BY <1>3, <2>2, <2>3 DEF Views, FormViews
<1> QED
  BY <1>1, <1>2, <1>3, LocationFields

\* The call it makes, if it makes one.
LEMMA FirstLoadFields ==
    ASSUME NEW loc \in Locations
    PROVE  \/ FirstLoad(loc) = <<>> /\ loc.page = "form" /\ loc.id = Null
           \/ \E c \in CallRecords :
                 /\ FirstLoad(loc) = <<c>>
                 /\ CallFits(c, loc.page) /\ ~c.cancelled /\ c.job # "status"
                 /\ loc.page = "list" => c.of = FirstQuery(AnyKind)
                 /\ loc.page # "list" => c.of = loc.id
<1>1. ASSUME NEW job \in {"list", "get", "fill"}, NEW of \in Ids \cup Filters
      PROVE  /\ Call(job, of, Null) \in CallRecords
             /\ Call(job, of, Null).job = job /\ Call(job, of, Null).of = of
             /\ Call(job, of, Null).cancelled = FALSE
  BY DEF Call, CallRecords
<1>2. CASE loc.page = "list"
  <2>1. FirstQuery(AnyKind) \in Filters
    BY QueryFields, KindsAssumption
  <2>2. FirstLoad(loc) = <<Call("list", FirstQuery(AnyKind), Null)>>
    BY <1>2 DEF FirstLoad
  <2>3. PICK c \in CallRecords :
           /\ c = Call("list", FirstQuery(AnyKind), Null)
           /\ c.job = "list" /\ c.of = FirstQuery(AnyKind) /\ c.cancelled = FALSE
    BY <1>1, <2>1
  <2>4. CallFits(c, loc.page)
    BY <1>2, <2>1, <2>3, JobsOfPages DEF CallFits
  <2> QED
    BY <1>2, <2>2, <2>3, <2>4
<1>3. CASE loc.page = "detail"
  <2>1. loc.id \in Ids
    BY <1>3, LocationFields
  <2>2. FirstLoad(loc) = <<Call("get", loc.id, Null)>>
    BY <1>3 DEF FirstLoad
  <2>3. PICK c \in CallRecords :
           c = Call("get", loc.id, Null) /\ c.job = "get" /\ c.of = loc.id /\ c.cancelled = FALSE
    BY <1>1, <2>1
  <2>4. CallFits(c, loc.page)
    BY <1>3, <2>1, <2>3, JobsOfPages DEF CallFits
  <2> QED
    BY <1>3, <2>2, <2>3, <2>4
<1>4. CASE loc.page = "form" /\ loc.id # Null
  <2>1. loc.id \in Ids
    BY <1>4, LocationFields
  <2>2. FirstLoad(loc) = <<Call("fill", loc.id, Null)>>
    BY <1>4 DEF FirstLoad
  <2>3. PICK c \in CallRecords :
           c = Call("fill", loc.id, Null) /\ c.job = "fill" /\ c.of = loc.id /\ c.cancelled = FALSE
    BY <1>1, <2>1
  <2>4. CallFits(c, loc.page)
    BY <1>4, <2>1, <2>3, JobsOfPages DEF CallFits
  <2> QED
    BY <1>4, <2>2, <2>3, <2>4
<1>5. CASE loc.page = "form" /\ loc.id = Null
  BY <1>5 DEF FirstLoad
<1> QED
  BY <1>2, <1>3, <1>4, <1>5, LocationFields

\* The calls under way when an effect is cleaned up.
LEMMA CancelledFields ==
    ASSUME NEW cs \in Seq(CallRecords)
    PROVE  /\ Cancelled(cs) \in Seq(CallRecords) /\ Len(Cancelled(cs)) = Len(cs)
           /\ \A i \in 1..Len(cs) :
                 /\ Cancelled(cs)[i].job = cs[i].job /\ Cancelled(cs)[i].of = cs[i].of
                 /\ Cancelled(cs)[i].shown = cs[i].shown
                 /\ Cancelled(cs)[i].cancelled <=> cs[i].cancelled \/ cs[i].job = "fill"
<1>1. Len(cs) \in Nat /\ \A i \in 1..Len(cs) : cs[i] \in CallRecords
  BY LenProperties
<1>2. ASSUME NEW i \in 1..Len(cs)
      PROVE  /\ Cancelled(cs)[i] \in CallRecords
             /\ Cancelled(cs)[i].job = cs[i].job /\ Cancelled(cs)[i].of = cs[i].of
             /\ Cancelled(cs)[i].shown = cs[i].shown
             /\ Cancelled(cs)[i].cancelled <=> cs[i].cancelled \/ cs[i].job = "fill"
  <2>1. PICK off \in BOOLEAN : off = (cs[i].cancelled \/ cs[i].job = "fill")
    BY <1>1 DEF CallRecords
  <2>2. Cancelled(cs)[i] = [cs[i] EXCEPT !.cancelled = off]
    BY <2>1 DEF Cancelled
  <2> QED
    BY <1>1, <2>1, <2>2 DEF CallRecords
<1>3. Cancelled(cs) \in [1..Len(cs) -> CallRecords]
  BY <1>2 DEF Cancelled
<1> QED
  BY <1>1, <1>2, <1>3, IndexedSequence

\* The errands under way when the page that runs them is left.
LEMMA LeftFields ==
    ASSUME NEW es \in Seq(ErrandRecords)
    PROVE  /\ Left(es) \in Seq(ErrandRecords) /\ Len(Left(es)) = Len(es)
           /\ \A i \in 1..Len(es) :
                 /\ Left(es)[i].job = es[i].job /\ Left(es)[i].of = es[i].of
                 /\ ~Left(es)[i].here
<1>1. Len(es) \in Nat /\ \A i \in 1..Len(es) : es[i] \in ErrandRecords
  BY LenProperties
<1>2. ASSUME NEW i \in 1..Len(es)
      PROVE  /\ Left(es)[i] \in ErrandRecords
             /\ Left(es)[i].job = es[i].job /\ Left(es)[i].of = es[i].of
             /\ ~Left(es)[i].here
  BY <1>1 DEF Left, ErrandRecords
<1>3. Left(es) \in [1..Len(es) -> ErrandRecords]
  BY <1>2 DEF Left
<1> QED
  BY <1>1, <1>2, <1>3, IndexedSequence

-----------------------------------------------------------------------------
(* Another address.                                                        *)

\* What PagesInv says of the types.
LEMMA Unfolded ==
    ASSUME PagesInv
    PROVE  /\ Typed /\ Fits /\ ListInv /\ DetailInv /\ FormInv
           /\ NeverRendersNull /\ WritesAddressShown
           /\ Here \in Locations
           /\ Len(calls) \in Nat /\ Len(errands) \in Nat /\ Len(history) \in Nat
           /\ \A i \in 1..Len(calls) : calls[i] \in CallRecords
           /\ \A i \in 1..Len(errands) : errands[i] \in ErrandRecords
BY LenProperties DEF PagesInv, Typed, Here

\* The calls of a page as it is mounted.
LEMMA FirstLoadIs ==
    ASSUME NEW loc \in Locations, NEW cs, cs = FirstLoad(loc)
    PROVE  /\ cs \in Seq(CallRecords) /\ Len(cs) \in 0..1
           /\ cs = <<>> => loc.page = "form" /\ loc.id = Null
           /\ cs # <<>> => Len(cs) = 1
           /\ \A i \in 1..Len(cs) :
                 /\ cs[i] \in CallRecords /\ CallFits(cs[i], loc.page)
                 /\ ~cs[i].cancelled /\ cs[i].job # "status"
                 /\ loc.page = "list" => cs[i].of = FirstQuery(AnyKind)
                 /\ loc.page # "list" => cs[i].of = loc.id
<1>1. CASE cs = <<>> /\ loc.page = "form" /\ loc.id = Null
  BY <1>1, EmptySeq
<1>2. ASSUME NEW c \in CallRecords, cs = <<c>>
      PROVE  cs \in Seq(CallRecords) /\ Len(cs) = 1 /\ cs[1] = c
  BY <1>2
<1>3. ASSUME NEW c \in CallRecords, cs = <<c>>,
             CallFits(c, loc.page), ~c.cancelled, c.job # "status",
             loc.page = "list" => c.of = FirstQuery(AnyKind),
             loc.page # "list" => c.of = loc.id
      PROVE  /\ cs \in Seq(CallRecords) /\ Len(cs) = 1 /\ cs # <<>>
             /\ \A i \in 1..Len(cs) : cs[i] = c
  <2>1. cs \in Seq(CallRecords) /\ Len(cs) = 1 /\ cs[1] = c
    BY <1>2, <1>3
  <2> QED
    BY <2>1, EmptySeq
<1> QED
  BY <1>1, <1>3, FirstLoadFields

\* A page that is mounted is right from its first call on.
LEMMA MountKeeps ==
    ASSUME PagesInv, NEW loc \in Locations, NEW es \in Seq(ErrandRecords),
           \A i \in 1..Len(es) : \E j \in 1..Len(errands) : es[i] = errands[j],
           Len(calls) + Len(es) < MaxCalls,
           Show(loc, es), loc.page # Here.page,
           history' \in Seq(Locations), Len(history') <= MaxHistory,
           at' \in 1..Len(history'), Here' = loc
    PROVE  PagesInv'
<1>1. /\ view' = FreshPage(loc) /\ calls' = FirstLoad(loc)
      /\ errands' = Left(es) /\ mishaps' = {}
  BY DEF Show
<1>2. /\ calls' \in Seq(CallRecords) /\ Len(calls') \in 0..1
      /\ calls' = <<>> => loc.page = "form" /\ loc.id = Null
      /\ calls' # <<>> => Len(calls') = 1
      /\ \A i \in 1..Len(calls') :
            /\ calls'[i] \in CallRecords /\ CallFits(calls'[i], loc.page)
            /\ ~calls'[i].cancelled /\ calls'[i].job # "status"
            /\ loc.page = "list" => calls'[i].of = FirstQuery(AnyKind)
            /\ loc.page # "list" => calls'[i].of = loc.id
  BY <1>1, FirstLoadIs
<1>3. /\ view' \in Views /\ view'.page = loc.page
      /\ loc.page = "list" => view'.filters = FirstQuery(AnyKind)
      /\ loc.page = "detail" => view'.loading
  BY <1>1, FreshFields
<1>4. /\ errands' \in Seq(ErrandRecords) /\ Len(errands') = Len(es) /\ Len(es) \in Nat
      /\ \A i \in 1..Len(es) :
            /\ errands'[i].job = es[i].job /\ errands'[i].of = es[i].of
            /\ ~errands'[i].here
  BY <1>1, LeftFields, LenProperties
<1>5. Typed'
  <2>1. Len(calls') + Len(errands') <= MaxCalls
    <3>1. Len(calls) \in Nat /\ Len(calls) + Len(es) < MaxCalls
      BY Unfolded
    <3>2. Len(calls') \in 0..1 /\ Len(errands') = Len(es) /\ Len(es) \in Nat
      BY <1>2, <1>4
    <3>3. \A m \in Nat, n \in Nat, k \in 0..1 : m + n < MaxCalls => k + n <= MaxCalls
      BY BoundsAssumption
    <3> QED
      BY <3>1, <3>2, <3>3
  <2>2. view'.page = Here'.page /\ mishaps' \subseteq Mishaps
    BY <1>1, <1>3
  <2> QED
    BY <1>2, <1>3, <1>4, <2>1, <2>2 DEF Typed
<1>6. Fits'
  <2>1. \A i \in 1..Len(errands') : ErrandFits(errands'[i], loc.page)
    BY <1>4, Unfolded DEF Fits, ErrandFits
  <2> QED
    BY <1>2, <1>3, <2>1 DEF Fits
<1>7. ListInv'
  BY <1>2, <1>3 DEF ListInv
<1>8. DetailInv'
  <2> SUFFICES ASSUME loc.page = "detail" PROVE DetailInv'
    BY <1>3 DEF DetailInv
  <2>1. Len(calls') = 1 /\ calls'[1].of = loc.id /\ calls'[1].job = "get"
    BY <1>2, JobsOfPages DEF CallFits
  <2>2. Gets(1)'
    BY <2>1 DEF Gets
  <2>3. \A i \in 1..Len(calls') : calls'[i].of = Here'.id
    BY <2>1
  <2>4. \E j \in 1..Len(calls') : Gets(j)'
    BY <2>1, <2>2
  <2> QED
    BY <2>3, <2>4 DEF DetailInv
<1>9. FormInv'
  <2> SUFFICES ASSUME loc.page = "form" PROVE FormInv'
    BY <1>3 DEF FormInv
  <2>1. \A i \in 1..Len(calls') : calls'[i].of = loc.id /\ calls'[i].job = "fill"
    BY <1>2, JobsOfPages DEF CallFits
  <2>2. loc.id # Null => Len(calls') = 1 /\ Fills(1)'
    BY <1>2, <2>1 DEF Fills
  <2>3. loc.id # Null =>
           \E i \in 1..Len(calls') : calls'[i].job = "fill" /\ ~calls'[i].cancelled
    BY <2>2 DEF Fills
  <2> QED
    BY <2>1, <2>3 DEF FormInv, Fills
<1>10. NeverRendersNull'
  BY <1>3 DEF NeverRendersNull
<1>11. WritesAddressShown'
  BY <1>2, <1>4 DEF WritesAddressShown
<1> QED
  BY <1>5, <1>6, <1>7, <1>8, <1>9, <1>10, <1>11 DEF PagesInv

\* A page that is kept while its id changes calls for the new one, after all
\* it has called for before.
LEMMA RerunKeeps ==
    ASSUME PagesInv, NEW loc \in Locations, NEW es \in Seq(ErrandRecords),
           \A i \in 1..Len(es) : \E j \in 1..Len(errands) : es[i] = errands[j],
           Len(calls) + Len(es) < MaxCalls,
           Show(loc, es), loc.page = Here.page, Reruns(loc),
           history' \in Seq(Locations), Len(history') <= MaxHistory,
           at' \in 1..Len(history'), Here' = loc
    PROVE  PagesInv'
<1>b. /\ Typed /\ Fits /\ NeverRendersNull /\ WritesAddressShown
      /\ view \in Views /\ view.page = loc.page /\ calls \in Seq(CallRecords)
      /\ Len(calls) \in Nat /\ Len(es) \in Nat
      /\ \A i \in 1..Len(calls) : CallFits(calls[i], loc.page)
  BY Unfolded, LenProperties DEF Typed, Fits
<1>1. /\ view' = IF loc.page = "detail" THEN StartLoad(view) ELSE view
      /\ calls' = Cancelled(calls) \o FirstLoad(loc)
      /\ errands' = es /\ mishaps' = mishaps
  BY DEF Show
<1>2. loc.page # "list"
  <2>1. loc.page = "list" => loc.id = Null /\ Here.id = Null
    BY Unfolded, LocationFields
  <2> QED
    BY <2>1 DEF Reruns
<1>3. PICK first : first = FirstLoad(loc)
  OBVIOUS
<1>4. /\ first \in Seq(CallRecords) /\ Len(first) \in 0..1
      /\ first = <<>> => loc.page = "form" /\ loc.id = Null
      /\ first # <<>> => Len(first) = 1
      /\ \A i \in 1..Len(first) :
            /\ first[i] \in CallRecords /\ CallFits(first[i], loc.page)
            /\ ~first[i].cancelled /\ first[i].job # "status" /\ first[i].of = loc.id
  BY <1>2, <1>3, FirstLoadIs
<1>5. PICK old : old = Cancelled(calls)
  OBVIOUS
<1>6. /\ old \in Seq(CallRecords) /\ Len(old) = Len(calls)
      /\ \A i \in 1..Len(calls) :
            /\ old[i].job = calls[i].job /\ old[i].of = calls[i].of
            /\ old[i].shown = calls[i].shown
            /\ old[i].cancelled <=> calls[i].cancelled \/ calls[i].job = "fill"
  BY <1>b, <1>5, CancelledFields
<1>7. calls' = old \o first
  BY <1>1, <1>3, <1>5
<1>8. /\ calls' \in Seq(CallRecords) /\ Len(calls') = Len(calls) + Len(first)
      /\ \A i \in 1 .. Len(calls) + Len(first) :
            calls'[i] = IF i <= Len(calls) THEN old[i] ELSE first[i - Len(calls)]
  <2>0. old \in Seq(CallRecords) /\ first \in Seq(CallRecords)
    BY <1>4, <1>6
  <2>1. /\ old \o first \in Seq(CallRecords) /\ Len(old \o first) = Len(old) + Len(first)
        /\ \A i \in 1 .. Len(old) + Len(first) :
              (old \o first)[i] = IF i <= Len(old) THEN old[i] ELSE first[i - Len(old)]
    BY <2>0, ConcatProperties
  <2>2. Len(old) = Len(calls)
    BY <1>6
  <2>3. calls' \in Seq(CallRecords) /\ Len(calls') = Len(calls) + Len(first)
    BY <1>7, <2>1, <2>2
  <2>4. ASSUME NEW i \in 1 .. Len(calls) + Len(first)
        PROVE  calls'[i] = IF i <= Len(calls) THEN old[i] ELSE first[i - Len(calls)]
    <3>1. i \in 1 .. Len(old) + Len(first)
      BY <2>2
    <3> QED
      BY <1>7, <2>1, <2>2, <3>1
  <2> QED
    BY <2>3, <2>4
<1>9. /\ \A i \in 1..Len(calls) : i \in 1..Len(calls') /\ calls'[i] = old[i]
      /\ \A i \in 1..Len(calls') \ 1..Len(calls) :
            i = Len(calls) + 1 /\ Len(first) = 1 /\ calls'[i] = first[1]
      /\ first # <<>> => /\ Len(calls') = Len(calls) + 1
                         /\ calls'[Len(calls) + 1] = first[1]
  <2>1. ASSUME NEW i \in 1..Len(calls)
        PROVE  i \in 1..Len(calls') /\ calls'[i] = old[i]
    BY <1>b, <1>4, <1>8
  <2>2. ASSUME NEW i \in 1..Len(calls'), i \notin 1..Len(calls)
        PROVE  i = Len(calls) + 1 /\ Len(first) = 1 /\ calls'[i] = first[1]
    <3>0. \A m \in Nat, k \in 0..1 :
             i \in 1 .. m + k /\ i \notin 1..m => i = m + 1 /\ k = 1
      OBVIOUS
    <3>1. i = Len(calls) + 1 /\ Len(first) = 1
      BY <1>b, <1>4, <1>8, <2>2, <3>0
    <3>2. i - Len(calls) = 1 /\ ~(i <= Len(calls))
      BY <1>b, <3>1
    <3> QED
      BY <1>8, <3>1, <3>2
  <2>3. ASSUME first # <<>>
        PROVE  Len(calls') = Len(calls) + 1 /\ calls'[Len(calls) + 1] = first[1]
    <3>1. Len(first) = 1 /\ Len(calls') = Len(calls) + 1
      BY <1>4, <1>8, <2>3
    <3>2. Len(calls) + 1 \in 1..Len(calls') /\ Len(calls) + 1 \notin 1..Len(calls)
      BY <1>b, <3>1
    <3> QED
      BY <2>2, <3>1, <3>2
  <2> QED
    BY <2>1, <2>2, <2>3
<1>10. view' \in Views /\ view'.page = loc.page /\ (loc.page = "detail" => view'.loading)
  <2>1. CASE loc.page = "detail"
    <3>1. view \in DetailViews
      BY <1>b, <2>1, ViewFields
    <3>2. StartLoad(view) \in DetailViews /\ StartLoad(view).loading
      BY <3>1 DEF StartLoad, DetailViews
    <3> QED
      BY <1>1, <2>1, <3>2 DEF Views, DetailViews
  <2>2. CASE loc.page # "detail"
    BY <1>b, <1>1, <2>2
  <2> QED
    BY <2>1, <2>2
<1>11. Typed'
  <2>1. Len(calls') + Len(errands') <= MaxCalls
    <3>1. \A m \in Nat, n \in Nat, k \in 0..1 : m + n < MaxCalls => m + k + n <= MaxCalls
      BY BoundsAssumption
    <3> QED
      BY <1>b, <1>1, <1>4, <1>8, <3>1
  <2>2. view'.page = Here'.page /\ mishaps' \subseteq Mishaps
    BY <1>b, <1>1, <1>10 DEF Typed
  <2> QED
    BY <1>1, <1>8, <1>10, <2>1, <2>2 DEF Typed
<1>12. Fits'
  <2>1. \A i \in 1..Len(calls') : CallFits(calls'[i], loc.page)
    <3>1. \A i \in 1..Len(calls) : CallFits(calls'[i], loc.page)
      BY <1>b, <1>6, <1>9 DEF CallFits
    <3> QED
      BY <1>4, <1>9, <3>1
  <2>2. \A i \in 1..Len(errands') : ErrandFits(errands'[i], loc.page)
    BY <1>b, <1>1 DEF Fits
  <2> QED
    BY <1>10, <2>1, <2>2 DEF Fits
<1>13. ListInv'
  BY <1>2, <1>10 DEF ListInv
<1>14. DetailInv'
  <2> SUFFICES ASSUME loc.page = "detail" PROVE DetailInv'
    BY <1>10 DEF DetailInv
  <2>1. first # <<>> /\ first[1].job = "get" /\ first[1].of = loc.id
    BY <1>4, JobsOfPages DEF CallFits
  <2>2. PICK n \in 1..Len(calls') : n = Len(calls) + 1 /\ Len(calls') = n /\ calls'[n] = first[1]
    BY <1>b, <1>9, <2>1
  <2>3. Gets(n)'
    BY <2>1, <2>2 DEF Gets
  <2>4. \A i \in 1..Len(calls') : i = n \/ n \in (i + 1)..Len(calls')
    BY <1>b, <2>2
  <2>5. calls'[n].of = Here'.id
    BY <2>1, <2>2
  <2> QED
    BY <2>3, <2>4, <2>5 DEF DetailInv
<1>15. FormInv'
  <2> SUFFICES ASSUME loc.page = "form" PROVE FormInv'
    BY <1>10 DEF FormInv
  <2>1. \A i \in 1..Len(calls) : calls'[i].cancelled
    BY <1>b, <1>6, <1>9, JobsOfPages DEF CallFits
  <2>2. \A i \in 1..Len(calls') :
           calls'[i].job = "fill" /\ ~calls'[i].cancelled => calls'[i].of = Here'.id
    BY <1>4, <1>9, <2>1
  <2>3. ASSUME loc.id # Null
        PROVE  \E i \in 1..Len(calls') : calls'[i].job = "fill" /\ ~calls'[i].cancelled
    <3>1. first # <<>> /\ first[1].job = "fill" /\ ~first[1].cancelled
      BY <1>4, <2>3, JobsOfPages DEF CallFits
    <3>2. PICK n \in 1..Len(calls') : calls'[n] = first[1]
      BY <1>b, <1>9, <3>1
    <3> QED
      BY <3>1, <3>2
  <2> QED
    BY <2>2, <2>3 DEF FormInv, Fills
<1>16. NeverRendersNull'
  BY <1>10 DEF NeverRendersNull
<1>17. WritesAddressShown'
  <2> SUFFICES ASSUME mishaps = {} PROVE WritesAddressShown'
    BY <1>1 DEF WritesAddressShown
  <2>1. \A i \in 1..Len(calls') :
           calls'[i].job = "status" => calls'[i].shown = calls'[i].of
    <3>1. \A i \in 1..Len(calls) :
             calls'[i].job = "status" => calls'[i].shown = calls'[i].of
      BY <1>b, <1>6, <1>9 DEF WritesAddressShown
    <3>2. \A i \in 1..Len(calls') \ 1..Len(calls) : calls'[i].job # "status"
      BY <1>4, <1>9
    <3> QED
      BY <3>1, <3>2
  <2>2. \A i \in 1..Len(errands') :
           errands'[i].job \in {"close", "save"} /\ errands'[i].here /\ errands'[i].of # Null
              => errands'[i].shown = errands'[i].of
    BY <1>b, <1>1 DEF WritesAddressShown
  <2> QED
    BY <2>1, <2>2 DEF WritesAddressShown
<1> QED
  BY <1>11, <1>12, <1>13, <1>14, <1>15, <1>16, <1>17 DEF PagesInv

\* An address of the page shown, and of its id, changes nothing that is shown.
LEMMA SameKeeps ==
    ASSUME PagesInv, NEW es \in Seq(ErrandRecords),
           \A i \in 1..Len(es) : \E j \in 1..Len(errands) : es[i] = errands[j],
           Len(calls) + Len(es) <= MaxCalls,
           errands' = es, UNCHANGED <<view, calls, mishaps>>,
           history' \in Seq(Locations), Len(history') <= MaxHistory,
           at' \in 1..Len(history'), Here'.page = Here.page, Here'.id = Here.id
    PROVE  PagesInv'
<1>b. /\ Typed /\ Fits /\ ListInv /\ DetailInv /\ FormInv
      /\ NeverRendersNull /\ WritesAddressShown
  BY Unfolded
<1>1. Typed'
  BY <1>b DEF Typed
<1>2. Fits'
  BY <1>b DEF Fits
<1>3. ListInv' /\ NeverRendersNull'
  BY <1>b DEF ListInv, NeverRendersNull
<1>4. DetailInv'
  BY <1>b DEF DetailInv, Gets
<1>5. FormInv'
  BY <1>b DEF FormInv, Fills
<1>6. WritesAddressShown'
  BY <1>b DEF WritesAddressShown
<1> QED
  BY <1>1, <1>2, <1>3, <1>4, <1>5, <1>6 DEF PagesInv

\* All three.
LEMMA ShowKeeps ==
    ASSUME PagesInv, NEW loc \in Locations, NEW es \in Seq(ErrandRecords),
           \A i \in 1..Len(es) : \E j \in 1..Len(errands) : es[i] = errands[j],
           Len(calls) + Len(es) < MaxCalls,
           Show(loc, es),
           history' \in Seq(Locations), Len(history') <= MaxHistory,
           at' \in 1..Len(history'), Here' = loc
    PROVE  PagesInv'
<1>1. CASE loc.page # Here.page
  BY <1>1, MountKeeps
<1>2. CASE loc.page = Here.page /\ Reruns(loc)
  BY <1>2, RerunKeeps
<1>3. CASE loc.page = Here.page /\ ~Reruns(loc)
  <2>1. /\ errands' = es /\ UNCHANGED <<view, calls, mishaps>>
        /\ Here'.page = Here.page /\ Here'.id = Here.id
    BY <1>3 DEF Show, Reruns
  <2>2. Len(calls) + Len(es) <= MaxCalls
    <3>1. Len(calls) \in Nat /\ Len(es) \in Nat
      BY Unfolded, LenProperties
    <3> QED
      BY <3>1, BoundsAssumption
  <2> QED
    BY <2>1, <2>2, SameKeeps
<1> QED
  BY <1>1, <1>2, <1>3

\* A new entry of the history drops those after the one shown,
LEMMA PushKeeps ==
    ASSUME PagesInv, NEW loc \in Locations, NEW es \in Seq(ErrandRecords),
           \A i \in 1..Len(es) : \E j \in 1..Len(errands) : es[i] = errands[j],
           Len(calls) + Len(es) < MaxCalls,
           Push(loc, es)
    PROVE  PagesInv'
<1>1. /\ history \in Seq(Locations) /\ Len(history) \in Nat /\ at \in 1..Len(history)
      /\ \A i \in 1..Len(history) : history[i] \in Locations
  BY Unfolded, LenProperties DEF Typed
<1>2. PICK past : past = SubSeq(history, 1, at)
  OBVIOUS
<1>3. past \in Seq(Locations) /\ Len(past) = at
  <2>1. /\ past \in Seq(Locations) /\ Len(past) = IF 1 <= at THEN at - 1 + 1 ELSE 0
        /\ \A i \in 1 .. at - 1 + 1 : past[i] = history[1 + i - 1]
    BY <1>1, <1>2, SubSeqProperties
  <2> QED
    BY <1>1, <2>1
<1>4. at < MaxHistory /\ history' = Append(past, loc) /\ at' = at + 1 /\ Show(loc, es)
  BY <1>2 DEF Push
<1>5. /\ Append(past, loc) \in Seq(Locations) /\ Len(Append(past, loc)) = Len(past) + 1
      /\ Append(past, loc)[Len(past) + 1] = loc
  BY <1>3, AppendProperties
<1>6. /\ history' \in Seq(Locations) /\ Len(history') = at + 1
      /\ history'[at'] = loc /\ at \in Nat
  BY <1>1, <1>3, <1>4, <1>5
<1>7. Len(history') <= MaxHistory /\ at' \in 1..Len(history') /\ Here' = loc
  BY <1>4, <1>6, BoundsAssumption DEF Here
<1> QED
  BY <1>4, <1>6, <1>7, ShowKeeps

\* and one that is replaced keeps them.
LEMMA ReplaceKeeps ==
    ASSUME PagesInv, NEW loc \in Locations, NEW es \in Seq(ErrandRecords),
           \A i \in 1..Len(es) : \E j \in 1..Len(errands) : es[i] = errands[j],
           Len(calls) + Len(es) < MaxCalls,
           Replace(loc, es)
    PROVE  PagesInv'
<1>1. /\ history \in Seq(Locations) /\ at \in 1..Len(history) /\ Len(history) <= MaxHistory
  BY Unfolded DEF Typed
<1>2. history' = [history EXCEPT ![at] = loc] /\ at' = at /\ Show(loc, es)
  BY DEF Replace
<1>3. /\ history' \in Seq(Locations) /\ Len(history') = Len(history)
      /\ history'[at] = loc
  BY <1>1, <1>2, ExceptSeq
<1>4. Len(history') <= MaxHistory /\ at' \in 1..Len(history') /\ Here' = loc
  BY <1>1, <1>2, <1>3 DEF Here
<1> QED
  BY <1>2, <1>3, <1>4, ShowKeeps

\* The operator's ways to another address keep the invariant,
LEMMA LinksKeep ==
    ASSUME PagesInv, Follow \/ Edit \/ Jump
    PROVE  PagesInv'
<1>b. /\ errands \in Seq(ErrandRecords) /\ Len(errands) \in Nat
      /\ \A i \in 1..Len(errands) : \E j \in 1..Len(errands) : errands[i] = errands[j]
      /\ history \in Seq(Locations) /\ Len(history) <= MaxHistory
      /\ Here \in Locations /\ view.page = Here.page
  BY Unfolded DEF Typed
<1>1. Len(calls) + Len(errands) < MaxCalls
  BY DEF Follow, Edit, Jump, Room
<1>2. ASSUME NEW loc \in Locations, Push(loc, errands)
      PROVE  PagesInv'
  BY <1>b, <1>1, <1>2, PushKeeps
<1>3. CASE Follow
  BY <1>2, <1>3, LocationsAre DEF Follow
<1>4. CASE Edit
  <2>1. Here.id \in Ids
    BY <1>b, <1>4, LocationFields DEF Edit, ShowsAccount
  <2> QED
    BY <1>2, <1>4, <2>1, LocationsAre DEF Edit
<1>5. CASE Jump
  <2>1. PICK k \in 1..Len(history) : at' = k /\ Show(history[k], errands) /\ history' = history
    BY <1>5 DEF Jump
  <2>2. history[k] \in Locations
    BY <1>b, <2>1, ElementOfSeq
  <2>3. /\ history' \in Seq(Locations) /\ Len(history') <= MaxHistory
        /\ at' \in 1..Len(history') /\ Here' = history[k]
    BY <1>b, <2>1 DEF Here
  <2> QED
    BY <1>b, <1>1, <2>1, <2>2, <2>3, ShowKeeps
<1> QED
  BY <1>3, <1>4, <1>5

\* What is left of the errands when one returns.
LEMMA ErrandGone ==
    ASSUME PagesInv, NEW i \in 1..Len(errands)
    PROVE  /\ RemoveAt(errands, i) \in Seq(ErrandRecords)
           /\ \A j \in 1..Len(RemoveAt(errands, i)) :
                 \E k \in 1..Len(errands) : RemoveAt(errands, i)[j] = errands[k]
           /\ Len(calls) + Len(RemoveAt(errands, i)) < MaxCalls
<1>1. /\ errands \in Seq(ErrandRecords) /\ Len(errands) \in Nat /\ Len(calls) \in Nat
      /\ Len(calls) + Len(errands) <= MaxCalls
  BY Unfolded DEF Typed
<1>2. PICK es : es = RemoveAt(errands, i)
  OBVIOUS
<1>3. /\ es \in Seq(ErrandRecords) /\ Len(es) = Len(errands) - 1
      /\ \A j \in 1..(Len(errands) - 1) :
            es[j] = IF j < i THEN errands[j] ELSE errands[j + 1]
  BY <1>1, <1>2, RemoveAtProperties
<1>4. ASSUME NEW j \in 1..Len(es)
      PROVE  \E k \in 1..Len(errands) : es[j] = errands[k]
  <2>1. j \in 1..(Len(errands) - 1) /\ j \in 1..Len(errands) /\ j + 1 \in 1..Len(errands)
    BY <1>1, <1>3
  <2> QED
    BY <1>3, <2>1
<1>5. Len(calls) + Len(es) < MaxCalls
  BY <1>1, <1>3, BoundsAssumption
<1> QED
  BY <1>2, <1>3, <1>4, <1>5

\* and so do the answers that lead to another address.
LEMMA ReturnsKeep ==
    ASSUME PagesInv, NEW i \in 1..Len(errands),
           AnswerLookup(i) \/ AnswerClose(i) \/ AnswerSave(i)
    PROVE  PagesInv'
<1>1. errands[i] \in ErrandRecords /\ (errands[i].of = Null => errands[i].job = "save")
  BY Unfolded DEF Fits, ErrandFits
<1>2. ASSUME NEW loc \in Locations,
             Push(loc, RemoveAt(errands, i)) \/ Replace(loc, RemoveAt(errands, i))
      PROVE  PagesInv'
  <2>1. PICK es : es = RemoveAt(errands, i)
    OBVIOUS
  <2>2. /\ es \in Seq(ErrandRecords) /\ Len(calls) + Len(es) < MaxCalls
        /\ \A j \in 1..Len(es) : \E k \in 1..Len(errands) : es[j] = errands[k]
    BY <2>1, ErrandGone
  <2>3. Push(loc, es) \/ Replace(loc, es)
    BY <1>2, <2>1
  <2> QED
    BY <2>2, <2>3, PushKeeps, ReplaceKeeps
<1>3. CASE AnswerLookup(i)
  <2>1. errands[i].of \in Ids
    BY <1>1, <1>3 DEF AnswerLookup, ErrandRecords
  <2> QED
    BY <1>2, <1>3, <2>1, LocationsAre DEF AnswerLookup
<1>4. CASE AnswerClose(i)
  BY <1>2, <1>4, LocationsAre DEF AnswerClose
<1>5. CASE AnswerSave(i)
  <2>1. PICK id \in IF errands[i].of = Null THEN Ids ELSE {errands[i].of} :
           Replace(Detail(id), RemoveAt(errands, i))
    BY <1>5 DEF AnswerSave
  <2>2. id \in Ids
    BY <1>1, <2>1 DEF ErrandRecords
  <2> QED
    BY <1>2, <2>1, <2>2, LocationsAre
<1> QED
  BY <1>3, <1>4, <1>5

-----------------------------------------------------------------------------
(* Answers that the page shows.                                            *)

\* The calls but for the i-th.
Without(cs, i) ==
    /\ cs \in Seq(CallRecords) /\ Len(cs) \in Nat /\ Len(cs) = Len(calls) - 1
    /\ \A j \in 1..Len(cs) : \E k \in 1..Len(calls) : k # i /\ cs[j] = calls[k]
    /\ \A k \in 1..Len(calls) : k # i => \E j \in 1..Len(cs) : cs[j] = calls[k]

\* What is left of the calls when one is answered.
LEMMA CallGone ==
    ASSUME PagesInv, NEW i \in 1..Len(calls)
    PROVE  Without(RemoveAt(calls, i), i)
<1>0. PICK cs : cs = RemoveAt(calls, i)
  OBVIOUS
<1>1. calls \in Seq(CallRecords) /\ Len(calls) \in Nat
  BY Unfolded DEF Typed
<1>2. /\ cs \in Seq(CallRecords) /\ Len(cs) = Len(calls) - 1
      /\ \A j \in 1..(Len(calls) - 1) :
            cs[j] = IF j < i THEN calls[j] ELSE calls[j + 1]
  BY <1>0, <1>1, RemoveAtProperties
<1>3. ASSUME NEW j \in 1..Len(cs)
      PROVE  \E k \in 1..Len(calls) : k # i /\ cs[j] = calls[k]
  <2>1. j \in 1..(Len(calls) - 1)
    BY <1>2
  <2>2. CASE j < i
    <3>1. j \in 1..Len(calls) /\ j # i /\ cs[j] = calls[j]
      BY <1>1, <1>2, <2>1, <2>2
    <3> QED
      BY <3>1
  <2>3. CASE ~(j < i)
    <3>1. j + 1 \in 1..Len(calls) /\ j + 1 # i /\ cs[j] = calls[j + 1]
      BY <1>1, <1>2, <2>1, <2>3
    <3> QED
      BY <3>1
  <2> QED
    BY <2>2, <2>3
<1>4. ASSUME NEW k \in 1..Len(calls), k # i
      PROVE  \E j \in 1..Len(cs) : cs[j] = calls[k]
  <2>1. CASE k < i
    <3>1. k \in 1..(Len(calls) - 1) /\ cs[k] = calls[k]
      BY <1>1, <1>2, <1>4, <2>1
    <3> QED
      BY <1>2, <3>1
  <2>2. CASE ~(k < i)
    <3>1. PICK j \in 1..(Len(calls) - 1) : j = k - 1
      BY <1>1, <1>4, <2>2
    <3>2. ~(j < i) /\ j + 1 = k
      BY <1>1, <1>4, <2>2, <3>1
    <3>3. cs[j] = calls[k]
      BY <1>2, <3>1, <3>2
    <3> QED
      BY <1>2, <3>1, <3>3
  <2> QED
    BY <2>1, <2>2
<1>5. Len(cs) \in Nat
  BY <1>2, LenProperties
<1>6. Without(cs, i)
  BY <1>2, <1>3, <1>4, <1>5 DEF Without
<1> QED
  BY <1>0, <1>6

\* If it was the first, the others move up.
LEMMA FirstGone ==
    ASSUME PagesInv, Len(calls) # 0, NEW cs, cs = RemoveAt(calls, 1)
    PROVE  /\ 1 \in 1..Len(calls)
           /\ cs \in Seq(CallRecords) /\ Len(cs) \in Nat /\ Len(cs) = Len(calls) - 1
           /\ \A j \in 1..Len(cs) : cs[j] = calls[j + 1]
<1>1. calls \in Seq(CallRecords) /\ Len(calls) \in Nat
  BY Unfolded DEF Typed
<1>2. 1 \in 1..Len(calls)
  BY <1>1
<1>3. /\ cs \in Seq(CallRecords) /\ Len(cs) = Len(calls) - 1
      /\ \A j \in 1..(Len(calls) - 1) :
            cs[j] = IF j < 1 THEN calls[j] ELSE calls[j + 1]
  BY <1>1, <1>2, RemoveAtProperties
<1>4. \A j \in 1..Len(cs) : ~(j < 1)
  BY <1>1, <1>3
<1> QED
  BY <1>1, <1>2, <1>3, <1>4

\* On a page that shows answers, those that come in the order of the calls are
\* to the first.
LEMMA InOrder ==
    ASSUME PagesInv, NEW i \in 1..Len(calls), NEW also \in SUBSET Mishaps,
           view.page \in {"list", "detail"}, Note(i, also)
    PROVE  /\ mishaps \subseteq mishaps' /\ mishaps' \subseteq Mishaps
           /\ "reordered" \notin mishaps' => i = 1 /\ "reordered" \notin mishaps
<1>1. \A j \in 1..Len(calls) : calls[j].job \in Showing
  BY Unfolded, JobsOfPages DEF Fits, CallFits, Showing
<1>2. i # 1 => 1 \in 1..(i - 1) /\ 1 \in 1..Len(calls)
  BY Unfolded
<1>3. i # 1 => "reordered" \in mishaps'
  BY <1>1, <1>2 DEF Note
<1>4. mishaps \subseteq Mishaps
  BY Unfolded DEF Typed
<1> QED
  BY <1>3, <1>4 DEF Note, Mishaps

\* The other parts of the invariant do not mind an answer.
LEMMA AnsweredKeeps ==
    ASSUME PagesInv, NEW i \in 1..Len(calls), calls' = RemoveAt(calls, i), Stay,
           view' \in Views, view'.page = view.page,
           mishaps \subseteq mishaps', mishaps' \subseteq Mishaps,
           ListInv', DetailInv', FormInv', NeverRendersNull'
    PROVE  PagesInv'
<1>b. Typed /\ Fits /\ WritesAddressShown /\ Len(calls) \in Nat /\ Len(errands) \in Nat
  BY Unfolded
<1>1. history' = history /\ at' = at /\ errands' = errands /\ Here' = Here
  BY DEF Stay, Here
<1>2. /\ calls' \in Seq(CallRecords) /\ Len(calls') \in Nat /\ Len(calls') = Len(calls) - 1
      /\ \A j \in 1..Len(calls') : \E k \in 1..Len(calls) : calls'[j] = calls[k]
  <2>1. Without(RemoveAt(calls, i), i)
    BY CallGone
  <2>2. Without(calls', i)
    BY <2>1
  <2> QED
    BY <2>2 DEF Without
<1>3. Typed'
  <2>1. Len(calls') + Len(errands') <= MaxCalls
    BY <1>b, <1>1, <1>2, BoundsAssumption DEF Typed
  <2> QED
    BY <1>b, <1>1, <1>2, <2>1 DEF Typed
<1>4. Fits'
  BY <1>b, <1>1, <1>2 DEF Fits
<1>5. WritesAddressShown'
  <2> SUFFICES ASSUME mishaps' = {} PROVE WritesAddressShown'
    BY DEF WritesAddressShown
  <2>1. mishaps = {}
    OBVIOUS
  <2> QED
    BY <1>b, <1>1, <1>2, <2>1 DEF WritesAddressShown
<1> QED
  BY <1>3, <1>4, <1>5 DEF PagesInv

\* On the list the last query stays the last until it is answered.
LEMMA LastKept ==
    ASSUME PagesInv, view.page = "list", "reordered" \notin mishaps, Len(calls) # 0,
           calls' = RemoveAt(calls, 1)
    PROVE  IF calls' = <<>> THEN calls[1].of = view.filters
           ELSE calls'[Len(calls')].of = view.filters
<1>1. /\ calls' \in Seq(CallRecords) /\ Len(calls') \in Nat /\ Len(calls') = Len(calls) - 1
      /\ \A j \in 1..Len(calls') : calls'[j] = calls[j + 1]
  BY FirstGone
<1>2. Len(calls) \in Nat /\ calls[Len(calls)].of = view.filters
  <2>1. calls # <<>>
    BY EmptySeq
  <2> QED
    BY <2>1, Unfolded DEF ListInv
<1>3. CASE calls' = <<>>
  <2>1. Len(calls) = 1
    BY <1>1, <1>2, <1>3, EmptySeq
  <2> QED
    BY <1>2, <1>3, <2>1
<1>4. CASE calls' # <<>>
  <2>1. Len(calls') # 0
    BY <1>1, <1>4, EmptySeq
  <2>2. Len(calls') \in 1..Len(calls') /\ Len(calls') + 1 = Len(calls)
    BY <1>1, <1>2, <2>1
  <2>3. calls'[Len(calls')] = calls[Len(calls)]
    BY <1>1, <2>2
  <2> QED
    BY <1>2, <1>4, <2>3
<1> QED
  BY <1>3, <1>4

\* On the page of an account the calls that follow another account's stay.
LEMMA GetsKept ==
    ASSUME PagesInv, view.page = "detail", "reordered" \notin mishaps, Len(calls) # 0,
           calls' = RemoveAt(calls, 1), Here' = Here
    PROVE  /\ \A j \in 1..Len(calls') :
                 calls'[j].of = Here.id \/ \E m \in (j + 1)..Len(calls') : Gets(m)'
           /\ calls[1].of = Here.id \/ \E m \in 1..Len(calls') : Gets(m)'
           /\ (\E m \in 1..Len(calls) : Gets(m)) =>
                 \/ calls[1].of = Here.id /\ calls[1].job = "get"
                 \/ \E m \in 1..Len(calls') : Gets(m)'
<1>1. /\ Len(calls') \in Nat /\ Len(calls') = Len(calls) - 1 /\ 1 \in 1..Len(calls)
      /\ \A j \in 1..Len(calls') : calls'[j] = calls[j + 1]
  BY FirstGone
<1>2. Len(calls) \in Nat
  BY Unfolded
<1>3. \A j \in 1..Len(calls) :
         calls[j].of = Here.id \/ \E m \in (j + 1)..Len(calls) : Gets(m)
  BY Unfolded DEF DetailInv
<1>4. ASSUME NEW j \in Nat, NEW m \in (j + 2)..Len(calls), Gets(m)
      PROVE  \E n \in (j + 1)..Len(calls') : Gets(n)'
  <2>1. PICK n \in (j + 1)..Len(calls') : n = m - 1
    BY <1>1, <1>2, <1>4
  <2>2. n \in 1..Len(calls') /\ n + 1 = m
    BY <1>1, <1>2, <1>4, <2>1
  <2>3. calls'[n] = calls[m]
    BY <1>1, <2>2
  <2>4. Gets(n)'
    BY <1>4, <2>3 DEF Gets
  <2> QED
    BY <2>4
<1>5. ASSUME NEW j \in 1..Len(calls')
      PROVE  calls'[j].of = Here.id \/ \E m \in (j + 1)..Len(calls') : Gets(m)'
  <2>1. j \in Nat /\ j + 1 \in 1..Len(calls) /\ calls'[j] = calls[j + 1] /\ (j + 1) + 1 = j + 2
    BY <1>1, <1>2
  <2>2. calls[j + 1].of = Here.id \/ \E m \in ((j + 1) + 1)..Len(calls) : Gets(m)
    BY <1>3, <2>1
  <2> QED
    BY <1>4, <2>1, <2>2
<1>6. ASSUME NEW m \in 2..Len(calls), Gets(m)
      PROVE  \E n \in 1..Len(calls') : Gets(n)'
  <2>1. 0 \in Nat /\ m \in (0 + 2)..Len(calls) /\ 0 + 1 = 1
    BY <1>2
  <2>2. \E n \in (0 + 1)..Len(calls') : Gets(n)'
    BY <1>4, <1>6, <2>1
  <2> QED
    BY <2>1, <2>2
<1>7. calls[1].of = Here.id \/ \E m \in 1..Len(calls') : Gets(m)'
  <2>1. calls[1].of = Here.id \/ \E m \in (1 + 1)..Len(calls) : Gets(m)
    BY <1>1, <1>3
  <2>2. 1 + 1 = 2
    OBVIOUS
  <2> QED
    BY <1>6, <2>1, <2>2
<1>8. ASSUME NEW m \in 1..Len(calls), Gets(m)
      PROVE  (calls[1].of = Here.id /\ calls[1].job = "get") \/ \E n \in 1..Len(calls') : Gets(n)'
  <2>1. CASE m = 1
    BY <1>8, <2>1 DEF Gets
  <2>2. CASE m # 1
    <3>1. m \in 2..Len(calls)
      BY <1>2, <2>2
    <3> QED
      BY <1>6, <1>8, <3>1
  <2> QED
    BY <2>1, <2>2
<1> QED
  BY <1>5, <1>7, <1>8

\* The list's answer.
LEMMA AnswerListKeeps ==
    ASSUME PagesInv, NEW i \in 1..Len(calls), AnswerList(i)
    PROVE  PagesInv'
<1>1. view.page = "list" /\ view \in ListViews /\ calls[i].of \in Filters
  BY Unfolded, JobsOfPages, ViewFields DEF AnswerList, Typed, Fits, CallFits
<1>2. PICK pages \in 0..MaxPages :
         view' = [view EXCEPT !.rows = [of |-> calls[i].of, pages |-> pages], !.loading = FALSE]
  BY DEF AnswerList
<1>3. PICK rows \in Rows : rows = [of |-> calls[i].of, pages |-> pages]
  BY <1>1 DEF Rows
<1>4. /\ view' \in ListViews /\ view'.page = "list" /\ view'.filters = view.filters
      /\ view'.rows = rows /\ rows.of = calls[i].of
  BY <1>1, <1>2, <1>3 DEF ListViews
<1>5. view' \in Views
  BY <1>4 DEF Views, ListViews
<1>6. calls' = RemoveAt(calls, i) /\ Note(i, {}) /\ Stay
  BY DEF AnswerList
<1>7. /\ mishaps \subseteq mishaps' /\ mishaps' \subseteq Mishaps
      /\ "reordered" \notin mishaps' => i = 1 /\ "reordered" \notin mishaps
  BY <1>1, <1>6, InOrder
<1>8. rows # Null
  BY <1>3, RowsAssumption
<1>9. ListInv'
  <2> SUFFICES ASSUME "reordered" \notin mishaps' PROVE ListInv'
    BY DEF ListInv
  <2>1. i = 1 /\ Len(calls) # 0
    BY <1>7, Unfolded
  <2>2. IF calls' = <<>> THEN calls[1].of = view.filters
        ELSE calls'[Len(calls')].of = view.filters
    BY <1>1, <1>6, <1>7, <2>1, LastKept
  <2> QED
    BY <1>4, <1>8, <2>1, <2>2 DEF ListInv
<1>10. DetailInv' /\ FormInv' /\ NeverRendersNull'
  BY <1>4 DEF DetailInv, FormInv, NeverRendersNull
<1> QED
  BY <1>1, <1>4, <1>5, <1>6, <1>7, <1>9, <1>10, AnsweredKeeps

\* The answer to a get, which is the account called for.
LEMMA AnswerGetKeeps ==
    ASSUME PagesInv, NEW i \in 1..Len(calls), AnswerGet(i)
    PROVE  PagesInv'
<1>1. view.page = "detail" /\ view \in DetailViews /\ calls[i].of \in Ids
  BY Unfolded, JobsOfPages, ViewFields DEF AnswerGet, Typed, Fits, CallFits
<1>2. /\ view' \in DetailViews /\ view'.page = "detail" /\ view'.account = calls[i].of
  BY <1>1 DEF AnswerGet, DetailViews
<1>3. view' \in Views
  BY <1>2 DEF Views, DetailViews
<1>4. calls' = RemoveAt(calls, i) /\ Note(i, {}) /\ Stay /\ Here' = Here
  BY DEF AnswerGet, Stay, Here
<1>5. /\ mishaps \subseteq mishaps' /\ mishaps' \subseteq Mishaps
      /\ "reordered" \notin mishaps' => i = 1 /\ "reordered" \notin mishaps
  BY <1>1, <1>4, InOrder
<1>6. DetailInv'
  <2> SUFFICES ASSUME "reordered" \notin mishaps' PROVE DetailInv'
    BY DEF DetailInv
  <2>1. i = 1 /\ Len(calls) # 0
    BY <1>5, Unfolded
  <2>2. /\ \A j \in 1..Len(calls') :
              calls'[j].of = Here.id \/ \E m \in (j + 1)..Len(calls') : Gets(m)'
        /\ calls[1].of = Here.id \/ \E m \in 1..Len(calls') : Gets(m)'
    BY <1>1, <1>4, <1>5, <2>1, GetsKept
  <2> QED
    BY <1>2, <1>4, <2>1, <2>2 DEF DetailInv
<1>7. ListInv' /\ FormInv' /\ NeverRendersNull'
  BY <1>1, <1>2, IdsAssumption DEF ListInv, FormInv, NeverRendersNull
<1> QED
  BY <1>1, <1>2, <1>3, <1>4, <1>5, <1>6, <1>7, AnsweredKeeps

\* The answer to a status change may be applied, or refused.
LEMMA AnswerStatusKeeps ==
    ASSUME PagesInv, NEW i \in 1..Len(calls), AnswerStatus(i)
    PROVE  PagesInv'
<1>1. view.page = "detail" /\ view \in DetailViews /\ calls[i].of \in Ids
  BY Unfolded, JobsOfPages, ViewFields DEF AnswerStatus, Typed, Fits, CallFits
<1>2. /\ view' \in DetailViews /\ view'.page = "detail"
      /\ view' = view \/ (view'.account = calls[i].of /\ view'.error = view.error)
  BY <1>1 DEF AnswerStatus, DetailViews
<1>3. view' \in Views
  BY <1>2 DEF Views, DetailViews
<1>4. calls' = RemoveAt(calls, i) /\ Note(i, {}) /\ Stay /\ Here' = Here
      /\ calls[i].job = "status"
  BY DEF AnswerStatus, Stay, Here
<1>5. /\ mishaps \subseteq mishaps' /\ mishaps' \subseteq Mishaps
      /\ "reordered" \notin mishaps' => i = 1 /\ "reordered" \notin mishaps
  BY <1>1, <1>4, InOrder
<1>6. DetailInv'
  <2> SUFFICES ASSUME "reordered" \notin mishaps' PROVE DetailInv'
    BY DEF DetailInv
  <2>1. i = 1 /\ Len(calls) # 0
    BY <1>5, Unfolded
  <2>2. /\ \A j \in 1..Len(calls') :
              calls'[j].of = Here.id \/ \E m \in (j + 1)..Len(calls') : Gets(m)'
        /\ calls[1].of = Here.id \/ \E m \in 1..Len(calls') : Gets(m)'
        /\ (\E m \in 1..Len(calls) : Gets(m)) => \E m \in 1..Len(calls') : Gets(m)'
    BY <1>1, <1>4, <1>5, <2>1, GetsKept
  <2>3. \/ view'.error \/ view'.account = Here.id
        \/ \E m \in 1..Len(calls') : Gets(m)'
    <3>1. \/ view.error \/ view.account = Here.id
          \/ \E m \in 1..Len(calls) : Gets(m)
      BY <1>1, <1>5, Unfolded DEF DetailInv
    <3> QED
      BY <1>2, <2>1, <2>2, <3>1
  <2> QED
    BY <1>4, <2>2, <2>3 DEF DetailInv
<1>7. ListInv' /\ FormInv'
  BY <1>2 DEF ListInv, FormInv
<1>8. NeverRendersNull'
  <2>1. CASE view' = view
    BY <2>1, Unfolded DEF NeverRendersNull
  <2>2. CASE view'.account = calls[i].of
    BY <1>1, <2>2, IdsAssumption DEF NeverRendersNull
  <2> QED
    BY <1>2, <2>1, <2>2
<1> QED
  BY <1>1, <1>2, <1>3, <1>4, <1>5, <1>6, <1>7, <1>8, AnsweredKeeps

\* The calls that may fill the form stay, but for the one that is answered.
LEMMA FillsKept ==
    ASSUME PagesInv, view.page = "form", NEW i \in 1..Len(calls),
           calls' = RemoveAt(calls, i), Here' = Here
    PROVE  /\ \A j \in 1..Len(calls') : Fills(j)' => calls'[j].of = Here.id
           /\ Fills(i) => calls[i].of = Here.id
           /\ ~Fills(i) /\ (\E k \in 1..Len(calls) : Fills(k)) =>
                 \E j \in 1..Len(calls') : Fills(j)'
<1>1. Without(calls', i)
  BY CallGone
<1>2. \A k \in 1..Len(calls) : Fills(k) => calls[k].of = Here.id
  BY Unfolded DEF FormInv
<1>3. ASSUME NEW j \in 1..Len(calls'), Fills(j)'
      PROVE  calls'[j].of = Here.id
  <2>1. PICK k \in 1..Len(calls) : calls'[j] = calls[k]
    BY <1>1 DEF Without
  <2> QED
    BY <1>2, <1>3, <2>1 DEF Fills
<1>4. ASSUME ~Fills(i), NEW k \in 1..Len(calls), Fills(k)
      PROVE  \E j \in 1..Len(calls') : Fills(j)'
  <2>1. PICK j \in 1..Len(calls') : calls'[j] = calls[k]
    BY <1>1, <1>4 DEF Without
  <2> QED
    BY <1>4, <2>1 DEF Fills
<1> QED
  BY <1>2, <1>3, <1>4

\* The answer for the form.
LEMMA AnswerFillKeeps ==
    ASSUME PagesInv, NEW i \in 1..Len(calls), AnswerFill(i)
    PROVE  PagesInv'
<1>1. view.page = "form" /\ view \in FormViews /\ calls[i].of \in Ids /\ calls[i].job = "fill"
  BY Unfolded, JobsOfPages, ViewFields DEF AnswerFill, Typed, Fits, CallFits
<1>2. /\ view' \in FormViews /\ view'.page = "form"
      /\ IF calls[i].cancelled THEN view' = view ELSE view'.form = calls[i].of
  BY <1>1 DEF AnswerFill, FormViews
<1>3. view' \in Views
  BY <1>2 DEF Views, FormViews
<1>4. calls' = RemoveAt(calls, i) /\ mishaps' = mishaps /\ Stay /\ Here' = Here
      /\ mishaps \subseteq Mishaps
  BY Unfolded DEF AnswerFill, Stay, Here, Typed
<1>5. FormInv'
  <2>1. /\ \A j \in 1..Len(calls') : Fills(j)' => calls'[j].of = Here.id
        /\ Fills(i) => calls[i].of = Here.id
        /\ ~Fills(i) /\ (\E k \in 1..Len(calls) : Fills(k)) =>
              \E j \in 1..Len(calls') : Fills(j)'
    BY <1>1, <1>4, FillsKept
  <2>2. ASSUME mishaps = {}, Here.id # Null
        PROVE  view'.form = Here.id \/ \E j \in 1..Len(calls') : Fills(j)'
    <3>1. view.form = Here.id \/ \E k \in 1..Len(calls) : Fills(k)
      BY <1>1, <2>2, Unfolded DEF FormInv
    <3>2. CASE calls[i].cancelled
      BY <1>2, <2>1, <3>1, <3>2 DEF Fills
    <3>3. CASE ~calls[i].cancelled
      BY <1>1, <1>2, <2>1, <3>3 DEF Fills
    <3> QED
      BY <3>2, <3>3
  <2> QED
    BY <1>4, <2>1, <2>2 DEF FormInv
<1>6. ListInv' /\ DetailInv' /\ NeverRendersNull'
  BY <1>2 DEF ListInv, DetailInv, NeverRendersNull
<1> QED
  BY <1>1, <1>2, <1>3, <1>4, <1>5, <1>6, AnsweredKeeps

\* A load that fails is noted, on the page or as a mishap.
LEMMA FailToLoadKeeps ==
    ASSUME PagesInv, NEW i \in 1..Len(calls), FailToLoad(i)
    PROVE  PagesInv'
<1>1. /\ calls' = RemoveAt(calls, i) /\ Stay /\ Here' = Here
      /\ Note(i, IF calls[i].cancelled THEN {} ELSE {"failed"})
      /\ view' = IF calls[i].cancelled THEN view ELSE FailLoad(view)
  BY DEF FailToLoad, Stay, Here
<1>2. view \in Views /\ view.page \in {"list", "detail", "form"} /\ mishaps \subseteq Mishaps
  BY Unfolded, ViewFields DEF Typed
<1>3. CallFits(calls[i], view.page)
  BY Unfolded DEF Fits
<1>4. PICK also \in SUBSET Mishaps : also = IF calls[i].cancelled THEN {} ELSE {"failed"}
  <2>1. {} \in SUBSET Mishaps /\ {"failed"} \in SUBSET Mishaps
    BY DEF Mishaps
  <2> QED
    BY <2>1
<1>5. CASE view.page \in {"list", "detail"}
  <2>1. ~calls[i].cancelled
    BY <1>3, <1>5, JobsOfPages DEF CallFits
  <2>2. /\ view' \in Views /\ view'.page = view.page /\ view'.error
    <3>1. view \in ListViews \/ view \in DetailViews
      BY <1>2, <1>5, ViewFields
    <3>2. view' = [view EXCEPT !.loading = FALSE, !.error = TRUE]
      BY <1>1, <1>5, <2>1 DEF FailLoad
    <3>3. CASE view \in ListViews
      <4>1. view' \in ListViews /\ view'.page = view.page /\ view'.error
        BY <3>2, <3>3 DEF ListViews
      <4> QED
        BY <4>1 DEF Views, ListViews
    <3>4. CASE view \in DetailViews
      <4>1. view' \in DetailViews /\ view'.page = view.page /\ view'.error
        BY <3>2, <3>4 DEF DetailViews
      <4> QED
        BY <4>1 DEF Views, DetailViews
    <3> QED
      BY <3>1, <3>3, <3>4
  <2>3. view.page = "list" => view'.filters = view.filters
    <3>1. view.page = "list" => view \in ListViews
      BY <1>2, ViewFields
    <3>2. view' = [view EXCEPT !.loading = FALSE, !.error = TRUE]
      BY <1>1, <1>5, <2>1 DEF FailLoad
    <3> QED
      BY <3>1, <3>2 DEF ListViews
  <2>4. /\ mishaps \subseteq mishaps' /\ mishaps' \subseteq Mishaps
        /\ "reordered" \notin mishaps' => i = 1 /\ "reordered" \notin mishaps
    BY <1>1, <1>4, <1>5, InOrder
  <2>5. ListInv'
    <3> SUFFICES ASSUME view.page = "list", "reordered" \notin mishaps' PROVE ListInv'
      BY <2>2 DEF ListInv
    <3>1. i = 1 /\ Len(calls) # 0
      BY <2>4, Unfolded
    <3>2. IF calls' = <<>> THEN calls[1].of = view.filters
          ELSE calls'[Len(calls')].of = view.filters
      BY <1>1, <2>4, <3>1, LastKept
    <3> QED
      BY <2>2, <2>3, <3>2 DEF ListInv
  <2>6. DetailInv'
    <3> SUFFICES ASSUME view.page = "detail", "reordered" \notin mishaps' PROVE DetailInv'
      BY <2>2 DEF DetailInv
    <3>1. i = 1 /\ Len(calls) # 0
      BY <2>4, Unfolded
    <3>2. \A j \in 1..Len(calls') :
             calls'[j].of = Here.id \/ \E m \in (j + 1)..Len(calls') : Gets(m)'
      BY <1>1, <2>4, <3>1, GetsKept
    <3> QED
      BY <1>1, <2>2, <3>2 DEF DetailInv
  <2>7. FormInv' /\ NeverRendersNull'
    BY <1>5, <2>2 DEF FormInv, NeverRendersNull
  <2> QED
    BY <1>1, <2>2, <2>4, <2>5, <2>6, <2>7, AnsweredKeeps
<1>6. CASE view.page = "form"
  <2>1. view \in FormViews /\ calls[i].job = "fill"
    BY <1>2, <1>3, <1>6, ViewFields, JobsOfPages DEF CallFits
  <2>2. mishaps' = mishaps \cup also
    BY <1>1, <1>4, <2>1 DEF Note, Showing
  <2>3. view' \in FormViews /\ view'.page = "form" /\ view'.form = view.form
    <3>1. CASE calls[i].cancelled
      BY <1>1, <2>1, <3>1 DEF FormViews
    <3>2. CASE ~calls[i].cancelled
      <4>1. view' = [view EXCEPT !.loading = FALSE]
        BY <1>1, <1>6, <3>2 DEF FailLoad
      <4> QED
        BY <2>1, <4>1 DEF FormViews
    <3> QED
      BY <3>1, <3>2
  <2>4. view' \in Views
    BY <2>3 DEF Views, FormViews
  <2>5. FormInv'
    <3>1. /\ \A j \in 1..Len(calls') : Fills(j)' => calls'[j].of = Here.id
          /\ ~Fills(i) /\ (\E k \in 1..Len(calls) : Fills(k)) =>
                \E j \in 1..Len(calls') : Fills(j)'
      BY <1>1, <1>6, FillsKept
    <3>2. ASSUME mishaps' = {}, Here.id # Null
          PROVE  view'.form = Here.id \/ \E j \in 1..Len(calls') : Fills(j)'
      <4>1. mishaps = {} /\ calls[i].cancelled
        BY <1>4, <2>2, <3>2
      <4>2. view.form = Here.id \/ \E k \in 1..Len(calls) : Fills(k)
        BY <1>6, <3>2, <4>1, Unfolded DEF FormInv
      <4> QED
        BY <2>3, <3>1, <4>1, <4>2 DEF Fills
    <3> QED
      BY <1>1, <3>1, <3>2 DEF FormInv
  <2>6. ListInv' /\ DetailInv' /\ NeverRendersNull'
    BY <2>3 DEF ListInv, DetailInv, NeverRendersNull
  <2>7. mishaps \subseteq mishaps' /\ mishaps' \subseteq Mishaps /\ view'.page = view.page
    BY <1>2, <1>4, <1>6, <2>2, <2>3
  <2> QED
    BY <1>1, <2>4, <2>5, <2>6, <2>7, AnsweredKeeps
<1> QED
  BY <1>2, <1>5, <1>6

-----------------------------------------------------------------------------
(* Calls and errands that the operator makes.                              *)

\* One more call.
LEMMA AskedKeeps ==
    ASSUME PagesInv, NEW c \in CallRecords, CallFits(c, view.page), Room,
           calls' = Append(calls, c), UNCHANGED <<history, at, errands>>,
           view' \in Views, view'.page = view.page,
           mishaps \subseteq mishaps', mishaps' \subseteq Mishaps,
           mishaps' = {} /\ c.job = "status" => c.shown = c.of,
           ListInv', DetailInv', FormInv', NeverRendersNull'
    PROVE  PagesInv'
<1>b. Typed /\ Fits /\ WritesAddressShown /\ Len(calls) \in Nat /\ Len(errands) \in Nat
  BY Unfolded
<1>1. calls' \in Seq(CallRecords) /\ Len(calls') = Len(calls) + 1
  BY <1>b, AppendProperties DEF Typed
<1>2. \A j \in 1..Len(calls') :
         (j \in 1..Len(calls) /\ calls'[j] = calls[j]) \/ calls'[j] = c
  <2>1. /\ \A j \in 1..Len(calls) : calls'[j] = calls[j]
        /\ calls'[Len(calls) + 1] = c
    BY <1>b, AppendProperties DEF Typed
  <2> QED
    BY <1>b, <1>1, <2>1
<1>3. Typed'
  <2>1. Len(calls') + Len(errands') <= MaxCalls
    BY <1>b, <1>1, BoundsAssumption DEF Room
  <2> QED
    BY <1>b, <1>1, <2>1 DEF Typed, Here
<1>4. Fits'
  BY <1>b, <1>2 DEF Fits
<1>5. WritesAddressShown'
  <2> SUFFICES ASSUME mishaps' = {} PROVE WritesAddressShown'
    BY DEF WritesAddressShown
  <2>1. mishaps = {}
    OBVIOUS
  <2> QED
    BY <1>b, <1>2, <2>1 DEF WritesAddressShown
<1> QED
  BY <1>3, <1>4, <1>5 DEF PagesInv

\* The list is called for with the filters that it shows from now on.
LEMMA LoadListKeeps ==
    ASSUME PagesInv, NEW filters \in Filters, view.page = "list", Room, LoadList(filters),
           mishaps \subseteq mishaps', mishaps' \subseteq Mishaps
    PROVE  PagesInv'
<1>1. view \in ListViews /\ calls \in Seq(CallRecords) /\ Len(calls) \in Nat
  BY Unfolded, ViewFields DEF Typed
<1>2. PICK c \in CallRecords :
         /\ c = Call("list", filters, Null)
         /\ c.job = "list" /\ c.of = filters /\ c.cancelled = FALSE
  <2> DEFINE new == Call("list", filters, Null)
  <2>1. /\ new \in CallRecords
        /\ new.job = "list" /\ new.of = filters /\ new.cancelled = FALSE
    BY DEF Call, CallRecords
  <2> QED
    BY <2>1, Zenon
<1>3. calls' = Append(calls, c) /\ UNCHANGED <<history, at, errands>>
  BY <1>2 DEF LoadList, QueryOf
<1>4. CallFits(c, view.page)
  BY <1>2, JobsOfPages DEF CallFits
<1>5. view' \in ListViews /\ view'.page = "list" /\ view'.filters = filters
  <2>1. StartLoad(view) \in ListViews
    BY <1>1 DEF StartLoad, ListViews
  <2> QED
    BY <2>1 DEF LoadList, ListViews
<1>6. view' \in Views
  BY <1>5 DEF Views, ListViews
<1>7. ListInv'
  <2>1. calls' # <<>> /\ Len(calls') = Len(calls) + 1 /\ calls'[Len(calls) + 1] = c
    BY <1>1, <1>3, AppendProperties
  <2> QED
    BY <1>2, <1>5, <2>1 DEF ListInv
<1>8. DetailInv' /\ FormInv' /\ NeverRendersNull'
  BY <1>5 DEF DetailInv, FormInv, NeverRendersNull
<1> QED
  BY <1>2, <1>3, <1>4, <1>5, <1>6, <1>7, <1>8, AskedKeeps

\* A page that shows what it has shown.
ShowsTheSame ==
    /\ view' \in Views /\ view'.page = view.page
    /\ view.page = "list" => /\ view'.filters = view.filters /\ view'.rows = view.rows
                             /\ view'.error = view.error
    /\ view.page = "detail" => view' = view
    /\ view.page = "form" => view'.form = view.form

\* What the page shows is left alone.
LEMMA ShownKeeps ==
    ASSUME PagesInv, ShowsTheSame, UNCHANGED <<history, at, calls>>, mishaps \subseteq mishaps'
    PROVE  ListInv' /\ DetailInv' /\ FormInv' /\ NeverRendersNull'
<1>b. /\ Typed /\ ListInv /\ DetailInv /\ FormInv /\ NeverRendersNull
      /\ Here' = Here /\ calls' = calls
  BY Unfolded DEF Here
<1>1. ListInv' /\ NeverRendersNull'
  BY <1>b DEF ListInv, NeverRendersNull, ShowsTheSame
<1>2. DetailInv'
  BY <1>b DEF DetailInv, Gets, ShowsTheSame
<1>3. FormInv'
  <2> SUFFICES ASSUME view.page = "form" PROVE FormInv'
    BY DEF FormInv, ShowsTheSame
  <2>1. mishaps' = {} => mishaps = {}
    OBVIOUS
  <2> QED
    BY <1>b, <2>1 DEF FormInv, Fills, ShowsTheSame
<1> QED
  BY <1>1, <1>2, <1>3

\* One more errand.
LEMMA SentKeeps ==
    ASSUME PagesInv, NEW e \in ErrandRecords, ErrandFits(e, view.page), Room,
           errands' = Append(errands, e), UNCHANGED <<history, at, calls>>,
           ShowsTheSame,
           mishaps \subseteq mishaps', mishaps' \subseteq Mishaps,
           mishaps' = {} /\ e.job \in {"close", "save"} /\ e.of # Null => e.shown = e.of
    PROVE  PagesInv'
<1>b. Typed /\ Fits /\ WritesAddressShown /\ Len(calls) \in Nat /\ Len(errands) \in Nat
  BY Unfolded
<1>1. errands' \in Seq(ErrandRecords) /\ Len(errands') = Len(errands) + 1
  BY <1>b, AppendProperties DEF Typed
<1>2. \A j \in 1..Len(errands') :
         (j \in 1..Len(errands) /\ errands'[j] = errands[j]) \/ errands'[j] = e
  <2>1. /\ \A j \in 1..Len(errands) : errands'[j] = errands[j]
        /\ errands'[Len(errands) + 1] = e
    BY <1>b, AppendProperties DEF Typed
  <2> QED
    BY <1>b, <1>1, <2>1
<1>3. Typed'
  <2>1. Len(calls') + Len(errands') <= MaxCalls
    BY <1>b, <1>1, BoundsAssumption DEF Room
  <2> QED
    BY <1>b, <1>1, <2>1 DEF Typed, Here, ShowsTheSame
<1>4. Fits'
  <2>1. \A j \in 1..Len(errands') : ErrandFits(errands'[j], view.page)
    BY <1>b, <1>2 DEF Fits
  <2>2. \A j \in 1..Len(calls') : CallFits(calls'[j], view.page)
    BY <1>b DEF Fits
  <2>3. view'.page = view.page
    BY DEF ShowsTheSame
  <2> QED
    BY <2>1, <2>2, <2>3 DEF Fits
<1>5. WritesAddressShown'
  <2> SUFFICES ASSUME mishaps' = {} PROVE WritesAddressShown'
    BY DEF WritesAddressShown
  <2>1. mishaps = {}
    OBVIOUS
  <2> QED
    BY <1>b, <1>2, <2>1 DEF WritesAddressShown
<1> QED
  BY <1>3, <1>4, <1>5, ShownKeeps DEF PagesInv

\* An operator who does not act in haste is noted as before.
LEMMA HastenFields ==
    ASSUME PagesInv, Hasten
    PROVE  /\ mishaps \subseteq mishaps' /\ mishaps' \subseteq Mishaps
           /\ mishaps' = {} => mishaps = {} /\ Quiet
<1>1. mishaps \subseteq Mishaps
  BY Unfolded DEF Typed
<1>2. CASE Quiet
  BY <1>1, <1>2 DEF Hasten
<1>3. CASE ~Quiet
  BY <1>1, <1>3 DEF Hasten, Mishaps
<1> QED
  BY <1>2, <1>3

\* A filter, and the pager.
LEMMA ListActionsKeep ==
    ASSUME PagesInv, (\E kind \in Kinds : ChooseFilter(kind)) \/ Turn
    PROVE  PagesInv'
<1>1. mishaps \subseteq Mishaps
  BY Unfolded DEF Typed
<1>2. ASSUME NEW kind \in Kinds, ChooseFilter(kind)
      PROVE  PagesInv'
  <2>1. FirstQuery(kind) \in Filters
    BY QueryFields
  <2> QED
    BY <1>1, <1>2, <2>1, LoadListKeeps DEF ChooseFilter
<1>3. CASE Turn
  <2>1. view.page = "list" /\ Room /\ Hasten
    BY <1>3 DEF Turn, ShowsRows
  <2>2. view.filters \in Filters
    BY <2>1, Unfolded, ViewFields DEF Typed, ListViews
  <2>3. ASSUME view.filters.page >= 1
        PROVE  [view.filters EXCEPT !.page = @ - 1] \in Filters
    BY <2>2, <2>3, BoundsAssumption DEF Filters
  <2>4. ASSUME view.filters.page < MaxPages
        PROVE  [view.filters EXCEPT !.page = @ + 1] \in Filters
    BY <2>2, <2>4, BoundsAssumption DEF Filters
  <2>5. PICK filters \in Filters : LoadList(filters)
    BY <1>3, <2>3, <2>4 DEF Turn
  <2> QED
    BY <2>1, <2>5, HastenFields, LoadListKeeps
<1> QED
  BY <1>2, <1>3

\* What the operator saw on a page that loads nothing is what it is about.
LEMMA SeenIsAddressed ==
    ASSUME PagesInv, mishaps = {}, Quiet
    PROVE  /\ ShowsAccount => view.account = Here.id
           /\ view.page = "form" /\ Here.id # Null => view.form = Here.id
<1>1. Fits /\ DetailInv /\ FormInv
  BY Unfolded
<1>2. ASSUME ShowsAccount
      PROVE  view.account = Here.id
  <2>1. view.page = "detail" /\ ~view.error
    BY <1>2 DEF ShowsAccount
  <2>2. \A j \in 1..Len(calls) : ~Gets(j)
    BY <1>1 DEF Fits, CallFits, Gets, Quiet
  <2> QED
    BY <1>1, <2>1, <2>2 DEF DetailInv
<1>3. ASSUME view.page = "form", Here.id # Null
      PROVE  view.form = Here.id
  <2>1. \A j \in 1..Len(calls) : ~Fills(j)
    BY DEF Fills, Quiet
  <2> QED
    BY <1>1, <1>3, <2>1 DEF FormInv
<1> QED
  BY <1>2, <1>3

\* The writes carry the account of the address and the one that is shown.
LEMMA WritesKeep ==
    ASSUME PagesInv, ChangeAccount \/ Submit
    PROVE  PagesInv'
<1>b. /\ view \in Views /\ view.page = Here.page /\ Here \in Locations
      /\ calls \in Seq(CallRecords) /\ Len(calls) \in Nat
  BY Unfolded DEF Typed
<1>1. Hasten /\ Room /\ UNCHANGED <<history, at>> /\ Here' = Here
  BY DEF ChangeAccount, Submit, Here
<1>2. /\ mishaps \subseteq mishaps' /\ mishaps' \subseteq Mishaps
      /\ mishaps' = {} => mishaps = {} /\ Quiet
  BY <1>1, HastenFields
<1>3. CASE ShowsAccount /\ view' = view
           /\ calls' = Append(calls, Call("status", Here.id, view.account)) /\ errands' = errands
  <2>1. view.page = "detail" /\ view \in DetailViews /\ Here.id \in Ids
    BY <1>b, <1>3, ViewFields, LocationFields DEF ShowsAccount
  <2>2. PICK c \in CallRecords :
           /\ c = Call("status", Here.id, view.account)
           /\ c.job = "status" /\ c.of = Here.id /\ c.shown = view.account
           /\ c.cancelled = FALSE
    <3>1. view.account \in Ids \cup {Null}
      BY <2>1 DEF DetailViews
    <3> DEFINE new == Call("status", Here.id, view.account)
    <3>2. /\ new \in CallRecords
          /\ new.job = "status" /\ new.of = Here.id /\ new.shown = view.account
          /\ new.cancelled = FALSE
      BY <2>1, <3>1 DEF Call, CallRecords
    <3> QED
      BY <3>2, Zenon
  <2>3. CallFits(c, view.page) /\ calls' = Append(calls, c)
    BY <1>3, <2>1, <2>2, JobsOfPages DEF CallFits
  <2>4. mishaps' = {} => c.shown = c.of
    BY <1>2, <1>3, <2>2, SeenIsAddressed
  <2>5. /\ Len(calls') = Len(calls) + 1 /\ calls'[Len(calls) + 1] = c
        /\ \A j \in 1..Len(calls) : calls'[j] = calls[j]
    BY <1>b, <2>3, AppendProperties
  <2>6. DetailInv'
    <3> SUFFICES ASSUME "reordered" \notin mishaps PROVE DetailInv'
      BY <1>2 DEF DetailInv
    <3>1. /\ \A i \in 1..Len(calls) :
                calls[i].of = Here.id \/ \E j \in (i + 1)..Len(calls) : Gets(j)
          /\ \/ view.error \/ view.account = Here.id
             \/ \E j \in 1..Len(calls) : Gets(j)
      BY <2>1, Unfolded DEF DetailInv
    <3>2. \A j \in 1..Len(calls) : j \in 1..Len(calls') /\ (Gets(j) => Gets(j)')
      BY <1>1, <1>b, <2>5 DEF Gets
    <3>3. ASSUME NEW i \in 1..Len(calls')
          PROVE  calls'[i].of = Here.id \/ \E j \in (i + 1)..Len(calls') : Gets(j)'
      <4>1. CASE i \in 1..Len(calls)
        <5>1. ASSUME NEW j \in (i + 1)..Len(calls), Gets(j)
              PROVE  j \in (i + 1)..Len(calls') /\ Gets(j)'
          BY <1>b, <2>5, <3>2, <4>1, <5>1
        <5> QED
          BY <2>5, <3>1, <4>1, <5>1
      <4>2. CASE i = Len(calls) + 1
        BY <2>2, <2>5, <4>2
      <4> QED
        BY <1>b, <2>5, <4>1, <4>2
    <3> QED
      BY <1>1, <1>3, <3>1, <3>2, <3>3 DEF DetailInv
  <2>7. ListInv' /\ FormInv' /\ NeverRendersNull'
    BY <1>3, <2>1, Unfolded DEF ListInv, FormInv, NeverRendersNull
  <2> QED
    BY <1>b, <1>1, <1>2, <1>3, <2>2, <2>3, <2>4, <2>6, <2>7, AskedKeeps
<1>4. ASSUME NEW job \in {"close", "save"}, NEW shown \in Ids \cup {Null},
             errands' = Append(errands, Errand(job, Here.id, shown)), calls' = calls,
             ShowsTheSame, job \in ErrandsOf[view.page],
             Here.id \in Ids \/ (Here.id = Null /\ job = "save"),
             mishaps' = {} /\ Here.id # Null => shown = Here.id
      PROVE  PagesInv'
  <2>1. PICK e \in ErrandRecords :
           /\ e = Errand(job, Here.id, shown)
           /\ e.job = job /\ e.of = Here.id /\ e.shown = shown /\ e.here = TRUE
    <3> DEFINE new == Errand(job, Here.id, shown)
    <3>1. /\ new \in ErrandRecords
          /\ new.job = job /\ new.of = Here.id /\ new.shown = shown /\ new.here = TRUE
      BY <1>4 DEF Errand, ErrandRecords
    <3> QED
      BY <3>1, Zenon
  <2>2. ErrandFits(e, view.page)
    BY <1>4, <2>1, IdsAssumption DEF ErrandFits
  <2>3. errands' = Append(errands, e)
    BY <1>4, <2>1
  <2> QED
    BY <1>1, <1>2, <1>4, <2>1, <2>2, <2>3, SentKeeps
<1>5. CASE ShowsAccount /\ view' = view
           /\ errands' = Append(errands, Errand("close", Here.id, view.account)) /\ calls' = calls
  <2>1. view.page = "detail" /\ view \in DetailViews /\ Here.id \in Ids
    BY <1>b, <1>5, ViewFields, LocationFields DEF ShowsAccount
  <2>2. view.account \in Ids \cup {Null} /\ ShowsTheSame /\ "close" \in ErrandsOf[view.page]
    BY <1>b, <1>5, <2>1, JobsOfPages DEF DetailViews, ShowsTheSame
  <2>3. mishaps' = {} => view.account = Here.id
    BY <1>2, <1>5, SeenIsAddressed
  <2> QED
    BY <1>4, <1>5, <2>1, <2>2, <2>3
<1>6. CASE Submit
  <2>1. /\ view.page = "form" /\ view' = [view EXCEPT !.busy = TRUE] /\ calls' = calls
        /\ errands' = Append(errands, Errand("save", Here.id, view.form))
    BY <1>6 DEF Submit
  <2>2. view \in FormViews /\ Here.id \in Ids \cup {Null}
    BY <1>b, <2>1, ViewFields, LocationFields
  <2>3. view' \in FormViews /\ view'.page = "form" /\ view'.form = view.form
    BY <2>1, <2>2 DEF FormViews
  <2>4. view.form \in Ids \cup {Null} /\ ShowsTheSame /\ "save" \in ErrandsOf[view.page]
    BY <2>1, <2>2, <2>3, JobsOfPages DEF FormViews, Views, ShowsTheSame
  <2>5. mishaps' = {} /\ Here.id # Null => view.form = Here.id
    BY <1>2, <2>1, SeenIsAddressed
  <2> QED
    BY <1>4, <2>1, <2>2, <2>4, <2>5
<1> QED
  BY <1>3, <1>5, <1>6 DEF ChangeAccount

\* A lookup, and an errand that is refused.
LEMMA LookupKeeps ==
    ASSUME PagesInv, NEW id \in Ids, Lookup(id)
    PROVE  PagesInv'
<1>1. /\ view.page = "list" /\ view \in ListViews /\ mishaps \subseteq Mishaps
      /\ mishaps' = mishaps
  BY Unfolded, ViewFields DEF Lookup, Typed
<1>2. ShowsTheSame
  <2>1. /\ view' \in ListViews /\ view'.page = "list" /\ view'.filters = view.filters
        /\ view'.rows = view.rows /\ view'.error = view.error
    BY <1>1 DEF Lookup, ListViews
  <2> QED
    BY <1>1, <2>1 DEF ShowsTheSame, Views, ListViews
<1>3. PICK e \in ErrandRecords :
         /\ e = Errand("lookup", id, Null)
         /\ e.job = "lookup" /\ e.of = id
  <2> DEFINE new == Errand("lookup", id, Null)
  <2>1. new \in ErrandRecords /\ new.job = "lookup" /\ new.of = id
    BY DEF Errand, ErrandRecords
  <2> QED
    BY <2>1, Zenon
<1>4. ErrandFits(e, view.page)
  BY <1>1, <1>3, IdsAssumption, JobsOfPages DEF ErrandFits
<1>5. errands' = Append(errands, e) /\ UNCHANGED <<history, at, calls>> /\ Room
  BY <1>3 DEF Lookup
<1> QED
  BY <1>1, <1>2, <1>3, <1>4, <1>5, SentKeeps

\* A refused errand lets the operator try again, and changes nothing else.
LEMMA RefuseKeeps ==
    ASSUME PagesInv, NEW i \in 1..Len(errands), Refuse(i)
    PROVE  PagesInv'
<1>b. /\ Typed /\ Fits /\ WritesAddressShown /\ Len(errands) \in Nat /\ Len(calls) \in Nat
      /\ view \in Views /\ ErrandFits(errands[i], view.page)
      /\ UNCHANGED <<history, at, calls, mishaps>> /\ Here' = Here
  BY Unfolded DEF Typed, Fits, Refuse, Here
<1>1. ShowsTheSame
  <2>1. CASE errands[i].job = "lookup" /\ errands[i].here
    <3>1. view.page = "list" /\ view \in ListViews
      BY <1>b, <2>1, JobsOfPages, ViewFields DEF ErrandFits
    <3>2. view' = [view EXCEPT !.looking = FALSE]
      BY <2>1 DEF Refuse
    <3>3. /\ view' \in ListViews /\ view'.page = "list" /\ view'.filters = view.filters
          /\ view'.rows = view.rows /\ view'.error = view.error
      BY <3>1, <3>2 DEF ListViews
    <3> QED
      BY <3>1, <3>3 DEF ShowsTheSame, Views, ListViews
  <2>2. CASE errands[i].job = "save" /\ errands[i].here
    <3>1. view.page = "form" /\ view \in FormViews
      BY <1>b, <2>2, JobsOfPages, ViewFields DEF ErrandFits
    <3>2. view' = [view EXCEPT !.busy = FALSE]
      BY <2>2 DEF Refuse
    <3>3. view' \in FormViews /\ view'.page = "form" /\ view'.form = view.form
      BY <3>1, <3>2 DEF FormViews
    <3> QED
      BY <3>1, <3>3 DEF ShowsTheSame, Views, FormViews
  <2>3. CASE ~(errands[i].job = "lookup" /\ errands[i].here)
             /\ ~(errands[i].job = "save" /\ errands[i].here)
    <3>1. view' = view
      BY <2>3 DEF Refuse
    <3> QED
      BY <1>b, <3>1 DEF ShowsTheSame
  <2> QED
    BY <2>1, <2>2, <2>3
<1>2. PICK es : es = RemoveAt(errands, i)
  OBVIOUS
<1>3. /\ es \in Seq(ErrandRecords) /\ Len(calls) + Len(es) < MaxCalls
      /\ \A j \in 1..Len(es) : \E k \in 1..Len(errands) : es[j] = errands[k]
  BY <1>2, ErrandGone
<1>4. errands' = es
  BY <1>2 DEF Refuse
<1>5. Typed'
  <2>1. Len(calls') + Len(errands') <= MaxCalls
    <3>1. Len(es) \in Nat
      BY <1>3, LenProperties
    <3> QED
      BY <1>b, <1>3, <1>4, <3>1, BoundsAssumption
  <2> QED
    BY <1>b, <1>1, <1>3, <1>4, <2>1 DEF Typed, ShowsTheSame
<1>6. Fits'
  <2>1. \A j \in 1..Len(errands') : ErrandFits(errands'[j], view.page)
    BY <1>b, <1>3, <1>4 DEF Fits
  <2>2. view'.page = view.page
    BY <1>1 DEF ShowsTheSame
  <2> QED
    BY <1>b, <2>1, <2>2 DEF Fits
<1>7. WritesAddressShown'
  BY <1>b, <1>3, <1>4 DEF WritesAddressShown
<1> QED
  BY <1>b, <1>1, <1>5, <1>6, <1>7, ShownKeeps DEF PagesInv

-----------------------------------------------------------------------------
(* The invariant holds throughout.                                         *)

\* It holds when the tab is opened,
LEMMA InitPagesInv == Init => PagesInv
<1> SUFFICES ASSUME Init PROVE PagesInv
  OBVIOUS
<1>1. PICK loc \in Locations : history = <<loc>>
  BY DEF Init
<1>2. /\ at = 1 /\ Here = loc /\ history \in Seq(Locations) /\ Len(history) = 1
      /\ view = FreshPage(loc) /\ calls = FirstLoad(loc) /\ errands = <<>> /\ mishaps = {}
  BY <1>1 DEF Init, Here
<1>3. /\ calls \in Seq(CallRecords) /\ Len(calls) \in 0..1
      /\ calls = <<>> => loc.page = "form" /\ loc.id = Null
      /\ calls # <<>> => Len(calls) = 1
      /\ \A i \in 1..Len(calls) :
            /\ CallFits(calls[i], loc.page)
            /\ ~calls[i].cancelled /\ calls[i].job # "status"
            /\ loc.page = "list" => calls[i].of = FirstQuery(AnyKind)
            /\ loc.page # "list" => calls[i].of = loc.id
  BY <1>2, FirstLoadIs
<1>4. /\ view \in Views /\ view.page = loc.page
      /\ loc.page = "list" => view.filters = FirstQuery(AnyKind)
      /\ loc.page = "detail" => view.loading
  BY <1>2, FreshFields
<1>5. errands \in Seq(ErrandRecords) /\ Len(errands) = 0
  BY <1>2, EmptySeq
<1>6. Typed
  BY <1>2, <1>3, <1>4, <1>5, BoundsAssumption DEF Typed
<1>7. Fits
  BY <1>3, <1>4, <1>5 DEF Fits
<1>8. ListInv
  BY <1>3, <1>4 DEF ListInv
<1>9. DetailInv
  <2> SUFFICES ASSUME loc.page = "detail" PROVE DetailInv
    BY <1>4 DEF DetailInv
  <2>1. Len(calls) = 1 /\ calls[1].of = loc.id /\ calls[1].job = "get"
    BY <1>3, JobsOfPages DEF CallFits
  <2>2. \A i \in 1..Len(calls) : calls[i].of = Here.id
    BY <1>2, <2>1
  <2>3. \E j \in 1..Len(calls) : Gets(j)
    BY <1>2, <2>1 DEF Gets
  <2> QED
    BY <2>2, <2>3 DEF DetailInv
<1>10. FormInv
  <2> SUFFICES ASSUME loc.page = "form" PROVE FormInv
    BY <1>4 DEF FormInv
  <2>1. \A i \in 1..Len(calls) : calls[i].of = loc.id /\ calls[i].job = "fill"
    BY <1>3, JobsOfPages DEF CallFits
  <2>2. loc.id # Null => \E i \in 1..Len(calls) : Fills(i)
    BY <1>3, <2>1 DEF Fills
  <2> QED
    BY <1>2, <2>1, <2>2 DEF FormInv
<1>11. NeverRendersNull
  BY <1>4 DEF NeverRendersNull
<1>12. WritesAddressShown
  BY <1>3, <1>5 DEF WritesAddressShown
<1> QED
  BY <1>6, <1>7, <1>8, <1>9, <1>10, <1>11, <1>12 DEF PagesInv

\* and every step keeps it.
LEMMA NextPagesInv == PagesInv /\ [Next]_vars => PagesInv'
<1> SUFFICES ASSUME PagesInv, [Next]_vars PROVE PagesInv'
  OBVIOUS
<1>1. CASE User
  <2>1. ASSUME NEW id \in Ids, Lookup(id)
        PROVE  PagesInv'
    BY <2>1, LookupKeeps
  <2>2. CASE (\E kind \in Kinds : ChooseFilter(kind)) \/ Turn
    BY <2>2, ListActionsKeep
  <2>3. CASE Follow \/ Edit \/ Jump
    BY <2>3, LinksKeep
  <2>4. CASE ChangeAccount \/ Submit
    BY <2>4, WritesKeep
  <2> QED
    BY <1>1, <2>1, <2>2, <2>3, <2>4 DEF User
<1>2. ASSUME NEW i \in 1..Len(calls), Answer(i)
      PROVE  PagesInv'
  BY <1>2, AnswerListKeeps, AnswerGetKeeps, AnswerFillKeeps, FailToLoadKeeps, AnswerStatusKeeps
  DEF Answer
<1>3. ASSUME NEW i \in 1..Len(errands), Return(i)
      PROVE  PagesInv'
  BY <1>3, ReturnsKeep, RefuseKeeps DEF Return
<1>4. CASE UNCHANGED vars
  <2>1. /\ errands \in Seq(ErrandRecords) /\ Len(calls) + Len(errands) <= MaxCalls
        /\ history \in Seq(Locations) /\ Len(history) <= MaxHistory
        /\ at \in 1..Len(history)
    BY Unfolded DEF Typed
  <2>2. UNCHANGED <<history, at, view, calls, errands, mishaps>> /\ Here' = Here
    BY <1>4 DEF vars, Here
  <2> QED
    BY <2>1, <2>2, SameKeeps
<1> QED
  BY <1>1, <1>2, <1>3, <1>4 DEF Next, Answered

\* Of every page: the last call, or what it shows, is for its address or its
\* filters, unless a mishap has been noted.
THEOREM PagesInvariance == Spec => []PagesInv
BY InitPagesInv, NextPagesInv, PTL DEF Spec

\* Every variable keeps its type: the page is that of the address, and its
\* calls and errands are of its kind.
THEOREM TypeCorrect == Spec => []TypeOK
<1>1. PagesInv => TypeOK
  <2> SUFFICES ASSUME PagesInv PROVE TypeOK
    OBVIOUS
  <2>1. Typed /\ Fits /\ Len(history) \in Nat
        /\ (\A i \in 1..Len(calls) : calls[i] \in CallRecords)
        /\ (\A i \in 1..Len(errands) : errands[i] \in ErrandRecords)
    BY Unfolded
  <2>2. history \in BoundedSeq(Locations, MaxHistory)
    <3>1. history \in [1..Len(history) -> Locations] /\ Len(history) \in 0..MaxHistory
      BY <2>1, LenProperties, BoundsAssumption DEF Typed
    <3> QED
      BY <3>1 DEF BoundedSeq, SeqOf
  <2>3. \A i \in 1..Len(calls) :
           /\ calls[i].job \in CallsOf[view.page]
           /\ calls[i].of \in IF calls[i].job = "list" THEN Filters ELSE Ids
           /\ calls[i].shown \in Ids \cup {Null} /\ calls[i].cancelled \in BOOLEAN
    BY <2>1 DEF Fits, CallFits, CallRecords
  <2>4. \A i \in 1..Len(errands) :
           /\ errands[i].job \in {"lookup", "close", "save"}
           /\ errands[i].of \in IF errands[i].job = "save" THEN Ids \cup {Null} ELSE Ids
           /\ errands[i].shown \in Ids \cup {Null} /\ errands[i].here \in BOOLEAN
           /\ errands[i].here => errands[i].job \in ErrandsOf[view.page]
    BY <2>1 DEF Fits, ErrandFits, ErrandRecords
  <2> QED
    BY <2>1, <2>2, <2>3, <2>4 DEF Typed, TypeOK
<1> QED
  BY <1>1, PagesInvariance, PTL

\* The list shows the rows of its filters once its calls are answered, if they
\* were answered in their order and the last was not refused.
THEOREM RowsOfFilters == Spec => []RowsMatchFilters
<1>1. PagesInv => RowsMatchFilters
  BY DEF PagesInv, ListInv, RowsMatchFilters
<1> QED
  BY <1>1, PagesInvariance, PTL

\* The page of an account shows that of its address once its calls are
\* answered, on the same conditions.
THEOREM AccountOfAddress == Spec => []DetailShowsAddressed
<1>1. PagesInv => DetailShowsAddressed
  <2> SUFFICES ASSUME PagesInv, calls = <<>> PROVE DetailShowsAddressed
    BY DEF DetailShowsAddressed
  <2>1. ~\E j \in 1..Len(calls) : Gets(j)
    BY EmptySeq
  <2> QED
    BY <2>1 DEF PagesInv, DetailInv, DetailShowsAddressed
<1> QED
  BY <1>1, PagesInvariance, PTL

\* A write goes to the account whose data the operator saw, unless there was a
\* mishap, whatever the tab's history and the calls under way.
THEOREM WritesWhatIsSeen == Spec => []WritesAddressShown
<1>1. PagesInv => WritesAddressShown
  BY DEF PagesInv
<1> QED
  BY <1>1, PagesInvariance, PTL

\* The page of an account never reads an account that it has not got.
THEOREM AccountThere == Spec => []NeverRendersNull
<1>1. PagesInv => NeverRendersNull
  BY DEF PagesInv
<1> QED
  BY <1>1, PagesInvariance, PTL

=============================================================================
