------------------------------- MODULE Filters --------------------------------
(***************************************************************************)
(* Post filters and wordfilters.  A new post goes through the wordfilters   *)
(* of its board, then, before its upload is received, through the filters   *)
(* without upload conditions, and after it through the others.  The list of *)
(* filters and the conditions of each are read by separate queries, while   *)
(* staff create, edit, enable and disable filters.                          *)
(* A message is the set of the words it contains that a condition looks     *)
(* for, the upload conditions are "hasfile" and "nofile".                   *)
(***************************************************************************)
EXTENDS Handlers

CONSTANTS
    Words,
    FilterForms,        \* what staff enter on the filters page
    WordfilterForms,    \* what staff enter on the wordfilters page
    MaxFilterID,        \* bound: filters ever created
    MaxFiltering        \* bound: posts filtered at the same time

UploadFields == {"hasfile", "nofile"}
Form == [action: {"reject", "ban", "log", "replace"}, any: BOOLEAN, here: BOOLEAN,
         conditions: SUBSET (Words \cup UploadFields), detail: Words \cup {""}]

ASSUME WordsAssumption == Words \cap (UploadFields \cup {""}) = {}
ASSUME FormsAssumption ==
    /\ FilterForms \subseteq Form /\ WordfilterForms \subseteq Form
    /\ \A f \in FilterForms : f.conditions # {}
    /\ \A f \in WordfilterForms : /\ f.action = "replace" /\ ~f.any
                                  /\ \E w \in Words : f.conditions = {w}
ASSUME MaxFilterIDAssumption == MaxFilterID \in Nat \ {0}
ASSUME MaxFilteringAssumption == MaxFiltering \in Nat \ {0}

FilterIDs == 1..MaxFilterID

VARIABLES
    filters,        \* filters[f]: row of the filters table with its conditions, and whether it is
                    \* applied on the board the posts are made to
    active,         \* ids with is_active
    hits,           \* ids with a row in filter_hits
    filterPc,
    filterReq,      \* filterReq[r]: the post, the filters still to be checked; the form of staff
    filterChanged   \* history: filters changed since the post of request r was submitted

filterVars == <<filters, active, hits, filterPc, filterReq, filterChanged>>

NoForm == [action |-> "log", any |-> FALSE, here |-> FALSE, conditions |-> {}, detail |-> ""]
IsFilter(f) == filters[f].conditions # {}

\* What queryFilters reads of a row; the conditions are read when the filter is checked.
Row(f) == [id |-> f, action |-> filters[f].action, any |-> filters[f].any, detail |-> filters[f].detail]
Rows == [id: FilterIDs, action: {"reject", "ban", "log", "replace"}, any: BOOLEAN, detail: Words \cup {""}]

FilterLocals == [text: SUBSET Words, file: BOOLEAN, todo: SUBSET Rows, excluded: SUBSET FilterIDs,
                 logged: BOOLEAN, id: 0..MaxFilterID, form: Form]
NoFilterLocals == [text |-> {}, file |-> FALSE, todo |-> {}, excluded |-> {}, logged |-> FALSE,
                   id |-> 0, form |-> NoForm]

FiltersTypeOK ==
    /\ filters \in [FilterIDs -> Form]
    /\ active \subseteq FilterIDs /\ hits \subseteq FilterIDs
    /\ filterPc \in [Requests -> {"idle", "word", "check1", "check2",
                                  "details", "conditions", "boards"}]
    /\ filterReq \in [Requests -> FilterLocals]
    /\ filterChanged \in [Requests -> SUBSET FilterIDs]

FiltersInit ==
    /\ filters = [f \in FilterIDs |-> NoForm]
    /\ active = {} /\ hits = {}
    /\ filterPc = [r \in Requests |-> "idle"]
    /\ filterReq = [r \in Requests |-> NoFilterLocals]
    /\ filterChanged = [r \in Requests |-> {}]

-----------------------------------------------------------------------------
FilterGoto(r, step) == filterPc' = [filterPc EXCEPT ![r] = step]
FilterDone(r) ==
    /\ FilterGoto(r, "idle")
    /\ filterReq' = [filterReq EXCEPT ![r] = NoFilterLocals]
    /\ filterChanged' = [filterChanged EXCEPT ![r] = {}]
Filtering(r) == filterPc[r] \in {"word", "check1", "check2"}
Changed(f) ==
    filterChanged' = [q \in Requests |-> IF Filtering(q) THEN filterChanged[q] \cup {f} ELSE {}]
FiltersUnchanged == UNCHANGED <<filters, active>>

\* matchString and the handlers of the fields.  Without an upload "hasfile" fails, "nofile" holds.
Satisfied(c, text, upload) == c \in text \/ (c = "hasfile" /\ upload) \/ (c = "nofile" /\ ~upload)

\* checkIfMatch: a filter without conditions matches everything unless it wants any.
Matches(conditions, any, text, upload) ==
    IF any THEN \E c \in conditions : Satisfied(c, text, upload)
    ELSE \A c \in conditions : Satisfied(c, text, upload)

-----------------------------------------------------------------------------
(* A new post. *)

\* doFormatting, ApplyWordFilters: GetBoardWordfilters...
StartFiltering(r, text, file) ==
    /\ filterPc[r] = "idle"
    /\ Cardinality({q \in Requests : Filtering(q)}) < MaxFiltering
    /\ FilterGoto(r, "word")
    /\ filterReq' = [filterReq EXCEPT ![r] = [NoFilterLocals EXCEPT !.text = text, !.file = file,
          !.todo = {Row(f) : f \in {g \in active : filters[g].here /\ filters[g].action = "replace"}}]]
    /\ FiltersUnchanged /\ UNCHANGED <<hits, filterChanged>>

\* ... and Apply, which reads the condition and replaces the word it looks for.
ApplyWordfilter(r, row) ==
    LET text == filterReq[r].text
        found == filters[row.id].conditions \cap text
    IN
    /\ filterPc[r] = "word"
    /\ row \in filterReq[r].todo
    /\ IF Cardinality(filters[row.id].conditions) # 1
       THEN FilterDone(r)
       ELSE /\ filterReq' = [filterReq EXCEPT
                 ![r].todo = @ \ {row},
                 ![r].text = IF found = {} THEN text ELSE (text \ found) \cup ({row.detail} \ {""})]
            /\ UNCHANGED <<filterPc, filterChanged>>
    /\ FiltersUnchanged /\ UNCHANGED hits

\* uploadFilterHelper: also the wordfilters; the ids of the list are excluded later.
InFirstPass_All(f) == filters[f].here
InFirstPass(f) == filters[f].here /\ filters[f].conditions \cap UploadFields = {}
DoNonUploadFiltering(r) ==
    LET list == {f \in active : InFirstPass(f)} IN
    /\ filterPc[r] = "word" /\ filterReq[r].todo = {}
    /\ filterReq' = [filterReq EXCEPT ![r].todo = {Row(f) : f \in list}, ![r].excluded = list]
    /\ FilterGoto(r, "check1")
    /\ FiltersUnchanged /\ UNCHANGED <<hits, filterChanged>>

\* DoPostFiltering: the upload was received meanwhile.
DoPostFiltering(r) ==
    LET list == {f \in active \ filterReq[r].excluded : filters[f].here /\ filters[f].action # "replace"} IN
    /\ filterPc[r] = "check1" /\ filterReq[r].todo = {}
    /\ filterReq' = [filterReq EXCEPT ![r].todo = {Row(f) : f \in list}]
    /\ FilterGoto(r, "check2")
    /\ FiltersUnchanged /\ UNCHANGED <<hits, filterChanged>>

\* checkFilters, handleMatch, HandleFilterAction: the first match ends the pass; after "log" the
\* post goes on, a filter of no known action ("replace") is an error.
CheckFilter(r, row) ==
    LET q == filterReq[r]
        upload == filterPc[r] = "check2" /\ q.file
        match == Matches(filters[row.id].conditions, row.any, q.text, upload)
    IN
    /\ filterPc[r] \in {"check1", "check2"}
    /\ row \in q.todo
    /\ hits' = IF match THEN hits \cup {row.id} ELSE hits
    /\ CASE ~match ->
              /\ filterReq' = [filterReq EXCEPT ![r].todo = @ \ {row}]
              /\ UNCHANGED <<filterPc, filterChanged>>
         [] match /\ row.action = "log" ->
              /\ filterReq' = [filterReq EXCEPT ![r].todo = {}, ![r].logged = TRUE]
              /\ UNCHANGED <<filterPc, filterChanged>>
         [] OTHER -> FilterDone(r)
    /\ FiltersUnchanged

AcceptFilteredPost(r) ==
    /\ filterPc[r] = "check2" /\ filterReq[r].todo = {}
    /\ FilterDone(r)
    /\ FiltersUnchanged /\ UNCHANGED hits

-----------------------------------------------------------------------------
(* Staff. *)

\* ApplyFilterTx and CreateWordFilter of a new filter: handle_if_any is not among the columns.
CreateFilter_IDFirst(r, form) ==
    LET f == Cardinality({g \in FilterIDs : IsFilter(g)}) IN
    /\ filterPc[r] = "idle"
    /\ f + 1 \in FilterIDs
    /\ filters' = [filters EXCEPT ![f + 1] = [form EXCEPT !.any = FALSE]]
    /\ active' = active \cup {f}
    /\ Changed(f)
    /\ UNCHANGED <<hits, filterPc, filterReq>>
CreateFilter(r, form) ==
    LET f == Cardinality({g \in FilterIDs : IsFilter(g)}) + 1 IN
    /\ filterPc[r] = "idle"
    /\ f \in FilterIDs
    /\ filters' = [filters EXCEPT ![f] = [form EXCEPT !.any = FALSE]]
    /\ active' = active \cup {f}
    /\ Changed(f)
    /\ UNCHANGED <<hits, filterPc, filterReq>>

\* submitFilterFormData, ApplyFilterTx: one transaction, which ignores the error of the first
\* statement, the one that stores action, detail and handle_if_any.  Wordfilters have ids as well.
EditFilter(r, f, form) ==
    /\ filterPc[r] = "idle"
    /\ IsFilter(f)
    /\ \/ filters' = [filters EXCEPT ![f] = form]
       \/ /\ MayFail
          /\ filters' = [filters EXCEPT ![f].conditions = form.conditions, ![f].here = form.here]
    /\ Changed(f)
    /\ UNCHANGED <<active, hits, filterPc, filterReq>>

\* wordfiltersCallback with "Edit wordfilter": three transactions.
StartWordfilterEdit(r, f, form) ==
    /\ filterPc[r] = "idle"
    /\ filters[f].action = "replace" /\ Cardinality(filters[f].conditions) = 1
    /\ FilterGoto(r, "details")
    /\ filterReq' = [filterReq EXCEPT ![r] = [NoFilterLocals EXCEPT !.id = f, !.form = form]]
    /\ FiltersUnchanged /\ UNCHANGED <<hits, filterChanged>>

UpdateDetails(r) ==
    LET f == filterReq[r].id IN
    /\ filterPc[r] = "details"
    /\ filters' = [filters EXCEPT ![f].action = "replace", ![f].any = FALSE,
                                  ![f].detail = filterReq[r].form.detail]
    /\ Changed(f)
    /\ FilterGoto(r, "conditions")
    /\ UNCHANGED <<active, hits, filterReq>>

SetConditions(r) ==
    LET f == filterReq[r].id IN
    /\ filterPc[r] = "conditions"
    /\ filters' = [filters EXCEPT ![f].conditions = filterReq[r].form.conditions]
    /\ Changed(f)
    /\ FilterGoto(r, "boards")
    /\ UNCHANGED <<active, hits, filterReq>>

SetBoardDirs(r) ==
    LET f == filterReq[r].id IN
    /\ filterPc[r] = "boards"
    /\ filters' = [filters EXCEPT ![f].here = filterReq[r].form.here]
    /\ FilterGoto(r, "idle")
    /\ filterReq' = [filterReq EXCEPT ![r] = NoFilterLocals]
    /\ Changed(f)
    /\ UNCHANGED <<active, hits>>

SetFilterActive(r, f) ==
    /\ filterPc[r] = "idle"
    /\ IsFilter(f)
    /\ active' = IF f \in active THEN active \ {f} ELSE active \cup {f}
    /\ Changed(f)
    /\ UNCHANGED <<filters, hits, filterPc, filterReq>>

ClearFilterHits(r, f, rank) ==
    /\ filterPc[r] = "idle"
    /\ rank >= 3
    /\ hits' = hits \ {f}
    /\ FiltersUnchanged /\ UNCHANGED <<filterPc, filterReq, filterChanged>>

FilterQueryFails(r) ==
    /\ MayFail
    /\ filterPc[r] # "idle"
    /\ FilterDone(r)
    /\ FiltersUnchanged /\ UNCHANGED hits

FiltersNext ==
    \E r \in Requests :
       \/ \E text \in SUBSET Words, file \in BOOLEAN : StartFiltering(r, text, file)
       \/ \E row \in filterReq[r].todo : ApplyWordfilter(r, row) \/ CheckFilter(r, row)
       \/ DoNonUploadFiltering(r) \/ DoPostFiltering(r) \/ AcceptFilteredPost(r)
       \/ \E form \in FilterForms \cup WordfilterForms : CreateFilter(r, form)
       \/ \E f \in FilterIDs, form \in FilterForms : EditFilter(r, f, form)
       \/ \E f \in FilterIDs, form \in WordfilterForms : StartWordfilterEdit(r, f, form)
       \/ UpdateDetails(r) \/ SetConditions(r) \/ SetBoardDirs(r)
       \/ \E f \in FilterIDs : SetFilterActive(r, f) \/ ClearFilterHits(r, f, 3)
       \/ FilterQueryFails(r)

FiltersSpec == FiltersInit /\ [][FiltersNext]_filterVars

-----------------------------------------------------------------------------
\* A filter that rejects or bans, was active and not touched since the post was submitted, and
\* matches the post as it is now stops it, in one of the two passes; the exception is a filter
\* that only logs, which ends its pass.
FiltersInForceApply ==
    \A r \in Requests : filterPc[r] = "check2" /\ filterReq[r].todo = {} =>
       \A f \in active \ filterChanged[r] :
          filters[f].here /\ filters[f].action \in {"reject", "ban"} =>
             \/ filterReq[r].logged
             \/ ~Matches(filters[f].conditions, filters[f].any, filterReq[r].text, filterReq[r].file)

\* A wordfilter replaces and never rejects: the recorded hits are those of other filters.
WordfiltersHaveNoHits == \A f \in hits : filters[f].action # "replace"
===============================================================================
