------------------------------- MODULE Outbox -------------------------------
(***************************************************************************)
(* Messages on their way out: MessageManager's previews and Client's uploads *)
(* (src/Core/MessageManager.cpp, src/Discord/Client.cpp).  A message with    *)
(* files asks for upload slots, PUTs every file, and is POSTed; the gateway  *)
(* echoes what was posted.                                                  *)
(*                                                                         *)
(* Everything but the HTTP worker runs on the UI thread.  The answers of a   *)
(* message's requests come in any order, from a server that may have done    *)
(* what it reports as failed.  Slot lists that do not match are failures.    *)
(***************************************************************************)
EXTENDS Integers, FiniteSets

CONSTANTS Sends,    \* nonces
          FilesOf   \* the files of each

None == "none"

VARIABLES
  pendingSends,  \* previews the gateway has not echoed
  previews,      \* previews shown
  shown,         \* messages shown that the gateway echoed
  errored,       \* messageErrored was emitted
  active,        \* activeUploads
  cancelFlag,    \* set by cancelMessageSend, or when a PUT fails
  failed,        \* UploadState::failed
  uploaded,      \* files whose PUT succeeded
  asking,        \* messages whose upload slots are asked for
  putting,       \* PUTs not answered: remaining
  posting,       \* messages whose POST is not answered
  deleting,      \* files whose DELETE is not answered
  posted,        \* history: POSTs that reached the server
  stored,        \* files the server holds
  leftover,      \* history: files whose DELETE failed, which is only logged
  echoes,        \* echoes under way
  cancelled,     \* history: cancelMessageSend returned true
  unechoed       \* history: the echo was lost with the gateway's session

vars == <<pendingSends, previews, shown, errored, active, cancelFlag, failed, uploaded,
          asking, putting, posting, deleting, posted, stored, leftover, echoes, cancelled, unechoed>>
view == <<pendingSends, previews, shown, errored>>
http == <<asking, putting, posting, deleting>>
server == <<posted, stored, leftover, echoes, unechoed>>

Files == UNION {FilesOf[m] : m \in Sends}

TypeOK ==
  /\ \A set \in {pendingSends, previews, shown, errored, active, cancelFlag, failed, asking,
                 posting, posted, echoes, cancelled, unechoed} : set \subseteq Sends
  /\ \A m \in Sends : /\ uploaded[m] \subseteq FilesOf[m] /\ putting[m] \subseteq FilesOf[m]
                      /\ stored[m] \subseteq FilesOf[m]
                      /\ deleting[m] \cup leftover[m] \subseteq uploaded[m]
                      /\ uploaded[m] \cap putting[m] = {}
                      /\ m \in asking => putting[m] = {}
  /\ asking \subseteq active

Init ==
  /\ pendingSends = {} /\ previews = {} /\ shown = {} /\ errored = {}
  /\ active = {} /\ cancelFlag = {} /\ failed = {} /\ uploaded = [m \in Sends |-> {}]
  /\ asking = {} /\ putting = [m \in Sends |-> {}] /\ posting = {}
  /\ posted = {} /\ stored = [m \in Sends |-> {}] /\ echoes = {}
  /\ deleting = [m \in Sends |-> {}] /\ leftover = [m \in Sends |-> {}]
  /\ cancelled = {} /\ unechoed = {}

Unsent(m) == m \notin pendingSends \cup shown \cup errored \cup cancelled \cup posted

-----------------------------------------------------------------------------
(* MessageManager.                                                          *)

\* mutant: the preview of a failed message stays
ErroredOnly(m) == errored' = errored \cup {m} /\ UNCHANGED <<shown, pendingSends, previews>>

\* onMessageSendFailed: a preview goes, and the error is told in any case.
SendFailed(m) ==
  /\ errored' = errored \cup {m} /\ UNCHANGED shown
  /\ IF m \in pendingSends
     THEN pendingSends' = pendingSends \ {m} /\ previews' = previews \ {m}
     ELSE UNCHANGED <<pendingSends, previews>>

\* sendMessage, and Client::sendMessage with or without files.  An attachment that has
\* neither data nor a path is an error before there is a preview.
SendMessage(m) ==
  /\ Unsent(m)
  /\ \/ /\ FilesOf[m] # {} /\ errored' = errored \cup {m}
        /\ UNCHANGED <<pendingSends, previews, active, asking, posting>>
     \/ /\ pendingSends' = pendingSends \cup {m} /\ previews' = previews \cup {m}
        /\ IF FilesOf[m] = {}
           THEN posting' = posting \cup {m} /\ UNCHANGED <<active, asking>>
           ELSE active' = active \cup {m} /\ asking' = asking \cup {m} /\ UNCHANGED posting
        /\ UNCHANGED errored
  /\ UNCHANGED <<shown, cancelFlag, failed, uploaded, putting, deleting, server, cancelled>>

\* cancelSend, which does nothing once the upload is settled.
CancelSend(m) ==
  /\ m \in active /\ m \notin cancelled
  /\ cancelFlag' = cancelFlag \cup {m} /\ cancelled' = cancelled \cup {m}
  /\ pendingSends' = pendingSends \ {m} /\ previews' = previews \ {m}
  /\ UNCHANGED <<shown, errored, active, failed, uploaded, http, server>>

\* onMessageCreated: the echo replaces the preview.
OnMessageCreated(m) ==
  /\ m \in echoes /\ echoes' = echoes \ {m} /\ shown' = shown \cup {m}
  /\ pendingSends' = pendingSends \ {m}
  /\ previews' = IF m \in pendingSends THEN previews \ {m} ELSE previews
  /\ UNCHANGED <<errored, active, cancelFlag, failed, uploaded, http, posted, stored, leftover, cancelled, unechoed>>

\* A new gateway session brings no old events.
SessionLost ==
  /\ echoes # {} /\ echoes' = {} /\ unechoed' = unechoed \cup echoes
  /\ UNCHANGED <<view, active, cancelFlag, failed, uploaded, http, posted, stored, leftover, cancelled>>

-----------------------------------------------------------------------------
(* Uploads.                                                                 *)

\* uploadAttachmentsAndSend: the slots are granted, and every file is PUT.
SlotsGranted(m) ==
  /\ m \in asking /\ asking' = asking \ {m}
  /\ IF m \in cancelFlag
     THEN active' = active \ {m} /\ UNCHANGED putting
     ELSE putting' = [putting EXCEPT ![m] = FilesOf[m]] /\ UNCHANGED active
  /\ UNCHANGED <<view, cancelFlag, failed, uploaded, posting, deleting, server, cancelled>>

\* The slots are refused.
SlotsFail(m) ==
  /\ m \in asking /\ asking' = asking \ {m} /\ active' = active \ {m}
  /\ IF m \in cancelFlag THEN UNCHANGED view ELSE SendFailed(m)
  /\ UNCHANGED <<cancelFlag, failed, uploaded, putting, posting, deleting, server, cancelled>>

\* mutant: only the failure of a PUT ends an upload
AbortedByFailure(m) == m \in failed'

\* What keeps finishUpload from posting.
Aborted(m) == m \in failed' \cup cancelFlag'

\* settleUpload, before the message is posted.
Settled(m) == active \ {m}

\* cleanupUploadedSlots asks for the deletion of what was uploaded.
Cleanup(m) == uploaded'[m]

\* The last PUT is answered: the message is posted with its files, or cleaned up.
LastPut(m) ==
  /\ active' = Settled(m)
  /\ IF Aborted(m)
     THEN deleting' = [deleting EXCEPT ![m] = @ \cup Cleanup(m)] /\ UNCHANGED posting
     ELSE posting' = posting \cup {m} /\ UNCHANGED deleting

\* remaining is counted down.
Answered(m, f) ==
  /\ f \in putting[m] /\ putting' = [putting EXCEPT ![m] = @ \ {f}]
  /\ IF putting'[m] = {} THEN LastPut(m) ELSE UNCHANGED <<active, deleting, posting>>
  /\ UNCHANGED <<asking, server, cancelled>>

\* The server stores a file; the client has not heard of it.
SrvStores(m, f) ==
  /\ f \in putting[m] /\ f \notin stored[m]
  /\ stored' = [stored EXCEPT ![m] = @ \cup {f}]
  /\ UNCHANGED <<view, active, cancelFlag, failed, uploaded, http, posted, leftover, echoes, unechoed, cancelled>>

\* onDone with success.
PutDone(m, f) ==
  /\ f \in stored[m]
  /\ uploaded' = [uploaded EXCEPT ![m] = @ \cup {f}] /\ UNCHANGED <<view, cancelFlag, failed>>
  /\ Answered(m, f)

\* mutant: a PUT that is aborted by the user is a failure
AnyFailure(m) == m \notin failed

\* A failure is told once, and not after a cancellation.
Fails(m) == m \notin failed \cup cancelFlag

\* onDone with a failure, or aborted by the cancel flag: the first failure aborts the rest.
PutFails(m, f) ==
  /\ IF Fails(m)
     THEN failed' = failed \cup {m} /\ cancelFlag' = cancelFlag \cup {m} /\ SendFailed(m)
     ELSE UNCHANGED <<failed, cancelFlag, view>>
  /\ UNCHANGED uploaded
  /\ Answered(m, f)

\* The server deletes a file, and may have done so when the answer is a failure.
SrvDeletes(m, f) ==
  /\ f \in deleting[m] \cap stored[m] /\ stored' = [stored EXCEPT ![m] = @ \ {f}]
  /\ UNCHANGED <<view, active, cancelFlag, failed, uploaded, http, posted, leftover, echoes, unechoed, cancelled>>

\* cleanupUploadedSlots' callback logs a failure; nobody asks again.
DeleteAnswered(m, f) ==
  /\ f \in deleting[m] /\ deleting' = [deleting EXCEPT ![m] = @ \ {f}]
  /\ leftover' = [leftover EXCEPT ![m] = @ \cup ({f} \cap stored[m])]
  /\ UNCHANGED <<view, active, cancelFlag, failed, uploaded, asking, putting, posting, posted, stored, echoes,
                 unechoed, cancelled>>

-----------------------------------------------------------------------------
(* The POST.                                                                *)

\* The server posts the message, and echoes it.
SrvPosts(m) ==
  /\ m \in posting /\ m \notin posted
  /\ posted' = posted \cup {m} /\ echoes' = echoes \cup {m}
  /\ UNCHANGED <<view, active, cancelFlag, failed, uploaded, http, stored, leftover, unechoed, cancelled>>

\* Success says nothing to the preview; a failure does, also one of the answer alone.
PostAnswered(m) ==
  /\ m \in posting /\ posting' = posting \ {m}
  /\ (m \in posted /\ UNCHANGED view) \/ SendFailed(m)
  /\ UNCHANGED <<active, cancelFlag, failed, uploaded, asking, putting, deleting, server, cancelled>>

-----------------------------------------------------------------------------
Next ==
  \/ SessionLost
  \/ \E m \in Sends :
       \/ SendMessage(m) \/ CancelSend(m) \/ OnMessageCreated(m)
       \/ SlotsGranted(m) \/ SlotsFail(m) \/ SrvPosts(m) \/ PostAnswered(m)
       \/ \E f \in FilesOf[m] :
            SrvStores(m, f) \/ PutDone(m, f) \/ PutFails(m, f) \/ SrvDeletes(m, f) \/ DeleteAnswered(m, f)

Spec == Init /\ [][Next]_vars

-----------------------------------------------------------------------------
\* A cancellation the code accepts keeps the message from being posted, however late.
CancelledNeverSent == cancelled \cap (posting \cup posted) = {}

\* Every file uploaded for a message that was given up before its POST is off the server or
\* has its DELETE under way, unless that DELETE failed; and a message that was POSTed never
\* has its files deleted, however late the cancellation.
NothingOrphaned ==
  /\ \A m \in Sends \ (active \cup posting \cup posted \cup (errored \ failed)) :
       uploaded[m] \cap stored[m] \subseteq deleting[m] \cup leftover[m]
  /\ \A m \in posting \cup posted : deleting[m] = {} /\ uploaded[m] = FilesOf[m] /\ FilesOf[m] \subseteq stored[m]

\* The preview and the message it stands for are never shown together, and a preview is
\* shown only while something will replace or remove it.
OnePlace == previews \cap shown = {} /\ previews \subseteq active \cup posting \cup echoes \cup unechoed

\* The user who cancelled hears of no failure afterwards.
CancelIsQuiet == [][\A m \in cancelled : m \in errored' => m \in errored]_vars

\* Every preview goes at last, unless the session that was to echo its message was lost.
PreviewsEnd == \A m \in Sends : (m \in previews) ~> (m \notin previews \/ m \in unechoed)

\* An upload ends, and with it the chance to cancel it.
UploadsSettle == \A m \in Sends : (m \in active) ~> (m \notin active)

\* A message is shown in one place, and the files of one given up are asked to be deleted.
Inv == TypeOK /\ CancelledNeverSent /\ NothingOrphaned /\ OnePlace

\* What the user sent, cancelled or retries is never left under way for ever.
SendsEnd == PreviewsEnd /\ UploadsSettle

=============================================================================
