------------------------------ MODULE Composer ------------------------------
(***************************************************************************)
(* The composer between what the user may do and what is sent                *)
(* (src/UI/MainWindow.cpp): a message leaves only through an enabled input,   *)
(* to the open channel, and the server posts it only where it lets the user   *)
(* write.  A lost gateway session takes the events of both sides with it.     *)
(***************************************************************************)
EXTENDS Outbox, Permissions

VARIABLE target  \* the channel of each message sent

composerVars == <<vars, permVars, target>>

ComposerInit == Init /\ PermInit /\ target = [m \in Sends |-> Nowhere]

\* The slot of sendMessage.  One message is enough: messages share no state.
SendTyped(m) ==
  /\ enabled /\ \A n \in Sends : target[n] = Nowhere
  /\ target' = [target EXCEPT ![m] = open]
  /\ SendMessage(m) /\ UNCHANGED permVars

\* The server refuses a message where the user may not write; PostAnswered tells the client.
SrvAccepts(m) == m \in posting /\ Send \in Computed(srv, target[m]) /\ SrvPosts(m)

\* What goes on with a message once it is sent.
Progress(m) ==
  \/ CancelSend(m) \/ OnMessageCreated(m) \/ SlotsGranted(m) \/ SlotsFail(m)
  \/ SrvAccepts(m) \/ PostAnswered(m)
  \/ \E f \in FilesOf[m] :
       SrvStores(m, f) \/ PutDone(m, f) \/ PutFails(m, f) \/ SrvDeletes(m, f) \/ DeleteAnswered(m, f)

NewSession == SrvSession /\ (SessionLost \/ (echoes = {} /\ UNCHANGED vars))

ComposerNext ==
  \/ \E m \in Sends : SendTyped(m) \/ (Progress(m) /\ UNCHANGED <<permVars, target>>)
  \/ NewSession /\ UNCHANGED target
  \/ GuildStep /\ UNCHANGED <<vars, target>>

ComposerSpec == ComposerInit /\ [][ComposerNext]_composerVars

\* Requests are answered, at least by a timeout, and events handled.
ComposerFairSpec ==
  /\ ComposerSpec
  /\ \A m \in Sends :
       /\ WF_composerVars((SlotsGranted(m) \/ SlotsFail(m)) /\ UNCHANGED <<permVars, target>>)
       /\ WF_composerVars(PostAnswered(m) /\ UNCHANGED <<permVars, target>>)
       /\ WF_composerVars(OnMessageCreated(m) /\ UNCHANGED <<permVars, target>>)
       /\ \A f \in FilesOf[m] :
            WF_composerVars((PutDone(m, f) \/ PutFails(m, f)) /\ UNCHANGED <<permVars, target>>)

=============================================================================
