------------------------------- MODULE EditPost -------------------------------
(***************************************************************************)
(* Editing the message of a post: the new message is stored first, then run *)
(* through the filters (module Filters), and the old one is put back when   *)
(* they refuse it.                                                          *)
(***************************************************************************)
EXTENDS Handlers

CONSTANTS Texts, FirstText

ASSUME EditAssumption == FirstText \in Texts /\ "" \notin Texts

VARIABLES
    message,        \* the message in the row of the post
    editPc,
    editReq,        \* editReq[r]: the new message, and the old one as it was read
    refused,        \* history: messages the filters refused as an edit
    tainted         \* history: edits overlapped, or one was cut short before it was undone

editVars == <<message, editPc, editReq, refused, tainted>>

NoEditLocals == [text |-> "", old |-> ""]

EditTypeOK ==
    /\ message \in Texts
    /\ editPc \in [Requests -> {"idle", "update", "filter", "restore"}]
    /\ editReq \in [Requests -> [text: Texts \cup {""}, old: Texts \cup {""}]]
    /\ refused \subseteq Texts
    /\ tainted \in BOOLEAN

EditInit ==
    /\ message = FirstText
    /\ editPc = [r \in Requests |-> "idle"]
    /\ editReq = [r \in Requests |-> NoEditLocals]
    /\ refused = {}
    /\ tainted = FALSE

EditGoto(r, step) == editPc' = [editPc EXCEPT ![r] = step]
EditDone(r) ==
    /\ EditGoto(r, "idle")
    /\ editReq' = [editReq EXCEPT ![r] = NoEditLocals]

-----------------------------------------------------------------------------
\* editPost with doedit=post: GetPostFromID, the password, the message as it is now.
StartEditing_NothingRead(r, text) ==
    /\ editPc[r] = "idle"
    /\ EditGoto(r, "update")
    /\ editReq' = [editReq EXCEPT ![r] = [NoEditLocals EXCEPT !.text = text]]
    /\ tainted' = (tainted \/ \E q \in Requests : editPc[q] # "idle")
    /\ UNCHANGED <<message, refused>>
StartEditing(r, text) ==
    /\ editPc[r] = "idle"
    /\ EditGoto(r, "update")
    /\ editReq' = [editReq EXCEPT ![r] = [text |-> text, old |-> message]]
    /\ tainted' = (tainted \/ \E q \in Requests : editPc[q] # "idle")
    /\ UNCHANGED <<message, refused>>

UpdateContents(r) ==
    /\ editPc[r] = "update"
    /\ message' = editReq[r].text
    /\ EditGoto(r, "filter")
    /\ UNCHANGED <<editReq, refused, tainted>>

\* DoPostFiltering, HandleFilterAction: accepted, or refused by a reject or ban filter.
FilterEdit(r) ==
    LET q == editReq[r] IN
    /\ editPc[r] = "filter"
    /\ \/ EditDone(r) /\ refused' = refused \ {q.text}
       \/ /\ EditGoto(r, "restore")
          /\ refused' = IF q.text = q.old THEN refused ELSE refused \cup {q.text}
          /\ UNCHANGED editReq
    /\ UNCHANGED <<message, tainted>>

RestoreContents_FormText(r) ==
    /\ editPc[r] = "restore"
    /\ message' = editReq[r].text
    /\ EditDone(r)
    /\ UNCHANGED <<refused, tainted>>
RestoreContents(r) ==
    /\ editPc[r] = "restore"
    /\ message' = editReq[r].old
    /\ EditDone(r)
    /\ UNCHANGED <<refused, tainted>>

\* A query fails: nothing is put back, and an error of the restoring query is ignored.
EditQueryFails(r) ==
    /\ MayFail
    /\ editPc[r] # "idle"
    /\ tainted' = (tainted \/ editPc[r] \in {"filter", "restore"})
    /\ EditDone(r)
    /\ UNCHANGED <<message, refused>>

EditNext ==
    \E r \in Requests :
       \/ \E text \in Texts : StartEditing(r, text)
       \/ UpdateContents(r) \/ FilterEdit(r) \/ RestoreContents(r)
       \/ EditQueryFails(r)

EditSpec == EditInit /\ [][EditNext]_editVars

-----------------------------------------------------------------------------
\* A message the filters refuse as an edit does not stay: once no edit is being handled the old
\* one is back, if edits did not overlap and none was cut short before it was undone.
RefusedEditIsUndone ==
    ~tainted /\ (\A r \in Requests : editPc[r] = "idle") => message \notin refused
===============================================================================
