---------------------------- MODULE ComposerProofs --------------------------
(***************************************************************************)
(* What is proved of the composer and of the two parts it joins: Outbox, for *)
(* any messages and files, and Permissions, for any channels, roles,        *)
(* permissions and bounds.                                                  *)
(*                                                                         *)
(* Outbox.  That a cancelled message is not posted rests on where a message  *)
(* is (Places: on its way to the slots, to the disk of the server, or to the *)
(* channel, never in two of them) and on what the flags of an upload say of  *)
(* it (Flags).  Shows ties the preview to what will end it.                  *)
(*                                                                         *)
(* Permissions.  The last event under way that tells of a row tells what the *)
(* server has, and a row no event tells of is the server's already (Known);  *)
(* an entry of the member list brings news only if the event that invalidates *)
(* comes behind it (ListBacked).                                            *)
(***************************************************************************)
EXTENDS Composer, TLAPS

Functions ==
  /\ uploaded \in [Sends -> SUBSET Files]
  /\ putting \in [Sends -> SUBSET Files]
  /\ stored \in [Sends -> SUBSET Files]
  /\ deleting \in [Sends -> SUBSET Files]
  /\ leftover \in [Sends -> SUBSET Files]

Begun == pendingSends \cup shown \cup errored \cup cancelled

Places ==
  /\ active \cap (posting \cup posted) = {}
  /\ active \cup posting \subseteq Begun
  /\ posted \subseteq echoes \cup shown \cup unechoed
  /\ \A m \in Sends : putting[m] # {} => m \in active
  /\ \A m \in Sends : uploaded[m] # {} => m \in Begun /\ m \notin asking

Flags ==
  /\ failed \subseteq cancelFlag /\ cancelled \subseteq cancelFlag
  /\ cancelFlag \subseteq errored \cup cancelled
  /\ cancelFlag \cap (posting \cup posted) = {}
  /\ cancelFlag \cap previews = {}

\* While a message is on its way none of its files is deleted, and each was granted a PUT.
Whole ==
  \A m \in active :
    /\ deleting[m] = {} /\ uploaded[m] \subseteq stored[m]
    /\ m \notin asking \cup cancelFlag => uploaded[m] \cup putting[m] = FilesOf[m]

Shows == previews = pendingSends

\* TypeOK without the quantifier over variables.
Kinds ==
  /\ pendingSends \subseteq Sends /\ previews \subseteq Sends /\ shown \subseteq Sends
  /\ errored \subseteq Sends /\ active \subseteq Sends /\ cancelFlag \subseteq Sends
  /\ failed \subseteq Sends /\ asking \subseteq active /\ posting \subseteq Sends
  /\ posted \subseteq Sends /\ echoes \subseteq Sends /\ cancelled \subseteq Sends
  /\ unechoed \subseteq Sends
  /\ \A m \in Sends : /\ uploaded[m] \subseteq FilesOf[m] /\ putting[m] \subseteq FilesOf[m]
                      /\ stored[m] \subseteq FilesOf[m]
                      /\ deleting[m] \cup leftover[m] \subseteq uploaded[m]
                      /\ uploaded[m] \cap putting[m] = {}
                      /\ m \in asking => putting[m] = {}

OutboxIInv == Kinds /\ Functions /\ Places /\ Flags /\ Whole /\ Shows /\ NothingOrphaned /\ OnePlace

-----------------------------------------------------------------------------
\* The initial state.
LEMMA OutboxIInvAtFirst == Init => OutboxIInv
  BY DEF Init, OutboxIInv, Kinds, Functions, Places, Flags, Whole, Shows, NothingOrphaned, OnePlace, Begun

\* A message's files are files.
LEMMA AllFiles == \A m \in Sends : FilesOf[m] \subseteq Files
  BY DEF Files

\* A message is sent: it was nowhere before.
LEMMA SendStep ==
  ASSUME OutboxIInv, NEW m \in Sends, SendMessage(m)
  PROVE  OutboxIInv'
  <1> USE DEF OutboxIInv, SendMessage, Unsent, server
  <1>0. /\ m \notin active \cup posting \cup cancelFlag \cup asking \cup previews
        /\ putting[m] = {} /\ uploaded[m] = {} /\ deleting[m] = {} /\ m \notin posted
    BY DEF Kinds, Places, Flags, Begun, Shows
  <1>1. Kinds'
    BY <1>0 DEF Kinds
  <1>2. Functions'
    BY AllFiles DEF Functions, Kinds
  <1>3. Places'
    BY <1>0 DEF Places, Begun
  <1>4. Flags'
    BY DEF Flags, Kinds, Places, Begun, Shows
  <1>5. Shows'
    BY DEF Shows
  <1>6. NothingOrphaned'
    <2>1. /\ UNCHANGED <<uploaded, stored, deleting, leftover, posted, failed>>
          /\ \A n \in Sends : n # m => /\ (n \in active') <=> (n \in active)
                                       /\ (n \in posting') <=> (n \in posting)
                                       /\ (n \in errored') <=> (n \in errored)
          /\ m \in posting' => FilesOf[m] = {}
      BY <1>0
    <2> QED
      BY <1>0, <2>1 DEF NothingOrphaned, Kinds
  <1>7. OnePlace'
    BY DEF OnePlace, Kinds, Places, Flags, Shows
  <1>8. Whole'
    <2>1. /\ UNCHANGED <<uploaded, putting, stored, deleting, cancelFlag>> /\ asking \subseteq asking'
          /\ active' \subseteq active \cup {m} /\ asking' \subseteq asking \cup {m}
          /\ m \in active' => m \in asking'
      BY <1>0
    <2> QED
      BY <1>0, <2>1 DEF Whole
  <1> QED
    BY <1>1, <1>2, <1>3, <1>4, <1>5, <1>6, <1>7, <1>8

\* A cancellation finds its message before the POST.
LEMMA CancelStep ==
  ASSUME OutboxIInv, NEW m \in Sends, CancelSend(m)
  PROVE  OutboxIInv'
  <1> USE DEF OutboxIInv, CancelSend, http, server
  <1>1. Kinds'
    BY DEF Kinds
  <1>2. Functions'
    BY AllFiles DEF Functions, Kinds
  <1>3. Places'
    BY DEF Places, Kinds, Functions, Begun, Flags
  <1>4. Flags'
    BY DEF Flags, Kinds, Places, Begun, Shows
  <1>5. Shows'
    BY DEF Shows
  <1>6. NothingOrphaned'
    BY DEF NothingOrphaned, Kinds, Functions, Places, Flags, Whole
  <1>7. OnePlace'
    BY DEF OnePlace, Kinds, Places, Flags, Shows
  <1>8. Whole'
    BY DEF Whole, Kinds, Functions, Places, Flags
  <1> QED
    BY <1>1, <1>2, <1>3, <1>4, <1>5, <1>6, <1>7, <1>8

\* The echo takes the place of the preview.
LEMMA EchoStep ==
  ASSUME OutboxIInv, NEW m \in Sends, OnMessageCreated(m)
  PROVE  OutboxIInv'
  <1> USE DEF OutboxIInv, OnMessageCreated, http
  <1>1. Kinds'
    BY DEF Kinds
  <1>2. Functions'
    BY AllFiles DEF Functions, Kinds
  <1>3. Places'
    BY DEF Places, Kinds, Functions, Begun, Flags
  <1>4. Flags'
    BY DEF Flags, Kinds, Places, Begun, Shows
  <1>5. Shows'
    BY DEF Shows
  <1>6. NothingOrphaned'
    BY DEF NothingOrphaned, Kinds, Functions, Places, Flags, Whole
  <1>7. OnePlace'
    BY DEF OnePlace, Kinds, Places, Flags, Shows
  <1>8. Whole'
    BY DEF Whole, Kinds, Functions, Places, Flags
  <1> QED
    BY <1>1, <1>2, <1>3, <1>4, <1>5, <1>6, <1>7, <1>8

\* Echoes are lost with the session.
LEMMA LossStep ==
  ASSUME OutboxIInv, SessionLost
  PROVE  OutboxIInv'
  <1> USE DEF OutboxIInv, SessionLost, view, http
  <1>1. Kinds'
    BY DEF Kinds
  <1>2. Functions'
    BY AllFiles DEF Functions, Kinds
  <1>3. Places'
    BY DEF Places, Kinds, Functions, Begun, Flags
  <1>4. Flags'
    BY DEF Flags, Kinds, Places, Begun, Shows
  <1>5. Shows'
    BY DEF Shows
  <1>6. NothingOrphaned'
    BY DEF NothingOrphaned, Kinds, Functions, Places, Flags, Whole
  <1>7. OnePlace'
    BY DEF OnePlace, Kinds, Places, Flags, Shows
  <1>8. Whole'
    BY DEF Whole, Kinds, Functions, Places, Flags
  <1> QED
    BY <1>1, <1>2, <1>3, <1>4, <1>5, <1>6, <1>7, <1>8

\* The slots are granted.
LEMMA GrantStep ==
  ASSUME OutboxIInv, NEW m \in Sends, SlotsGranted(m)
  PROVE  OutboxIInv'
  <1> USE DEF OutboxIInv, SlotsGranted, view, server
  <1>1. Kinds'
    BY AllFiles DEF Kinds, Places, Functions
  <1>2. Functions'
    BY AllFiles DEF Functions, Kinds
  <1>3. Places'
    BY DEF Places, Kinds, Functions, Begun, Flags
  <1>4. Flags'
    BY DEF Flags, Kinds, Places, Begun, Shows
  <1>5. Shows'
    BY DEF Shows
  <1>6. NothingOrphaned'
    BY DEF NothingOrphaned, Kinds, Functions, Places, Flags, Whole
  <1>7. OnePlace'
    BY DEF OnePlace, Kinds, Places, Flags, Shows
  <1>8. Whole'
    BY DEF Whole, Kinds, Functions, Places, Flags
  <1> QED
    BY <1>1, <1>2, <1>3, <1>4, <1>5, <1>6, <1>7, <1>8

\* The slots are refused.
LEMMA RefuseStep ==
  ASSUME OutboxIInv, NEW m \in Sends, SlotsFail(m)
  PROVE  OutboxIInv'
  <1> USE DEF OutboxIInv, SlotsFail, SendFailed, view, server
  <1>1. Kinds'
    BY DEF Kinds
  <1>2. Functions'
    BY AllFiles DEF Functions, Kinds
  <1>3. Places'
    BY DEF Places, Kinds, Functions, Begun, Flags
  <1>4. Flags'
    BY DEF Flags, Kinds, Places, Begun, Shows
  <1>5. Shows'
    BY DEF Shows
  <1>6. NothingOrphaned'
    BY DEF NothingOrphaned, Kinds, Functions, Places, Flags, Whole
  <1>7. OnePlace'
    BY DEF OnePlace, Kinds, Places, Flags, Shows
  <1>8. Whole'
    BY DEF Whole, Kinds, Functions, Places, Flags
  <1> QED
    BY <1>1, <1>2, <1>3, <1>4, <1>5, <1>6, <1>7, <1>8

\* The server stores a file.
LEMMA StoreStep ==
  ASSUME OutboxIInv, NEW m \in Sends, NEW f \in FilesOf[m], SrvStores(m, f)
  PROVE  OutboxIInv'
  <1> USE DEF OutboxIInv, SrvStores, view, http
  <1>1. Kinds'
    BY DEF Kinds
  <1>2. Functions'
    BY AllFiles DEF Functions, Kinds
  <1>3. Places'
    BY DEF Places, Kinds, Functions, Begun, Flags
  <1>4. Flags'
    BY DEF Flags, Kinds, Places, Begun, Shows
  <1>5. Shows'
    BY DEF Shows
  <1>6. NothingOrphaned'
    BY DEF NothingOrphaned, Kinds, Functions, Places, Flags, Whole
  <1>7. OnePlace'
    BY DEF OnePlace, Kinds, Places, Flags, Shows
  <1>8. Whole'
    BY DEF Whole, Kinds, Functions, Places, Flags
  <1> QED
    BY <1>1, <1>2, <1>3, <1>4, <1>5, <1>6, <1>7, <1>8

\* A PUT succeeded.
LEMMA DoneStep ==
  ASSUME OutboxIInv, NEW m \in Sends, NEW f \in FilesOf[m], PutDone(m, f)
  PROVE  OutboxIInv'
  <1> USE DEF OutboxIInv, PutDone, Answered, LastPut, Settled, Cleanup, Aborted, view, server
  <1>1. Kinds'
    BY AllFiles DEF Kinds, Places, Functions
  <1>2. Functions'
    BY AllFiles DEF Functions, Kinds
  <1>3. Places'
    BY DEF Places, Kinds, Functions, Begun, Flags
  <1>4. Flags'
    BY DEF Flags, Kinds, Places, Begun, Shows
  <1>5. Shows'
    BY DEF Shows
  <1>6. NothingOrphaned'
    <2>1. m \in active /\ m \notin posting \cup posted \cup asking
      BY DEF Places, Kinds
    <2>2. /\ UNCHANGED <<stored, leftover, posted, errored, failed, cancelFlag>>
          /\ \A n \in Sends : n # m => /\ deleting'[n] = deleting[n] /\ uploaded'[n] = uploaded[n]
                                       /\ (n \in active') <=> (n \in active)
                                       /\ (n \in posting') <=> (n \in posting)
      BY DEF Functions
    <2>3. uploaded'[m] = uploaded[m] \cup {f} /\ putting'[m] = putting[m] \ {f} /\ f \in stored[m]
      BY DEF Functions
    <2>4. m \in posting' => deleting'[m] = {} /\ uploaded'[m] = FilesOf[m] /\ FilesOf[m] \subseteq stored[m]
      <3>1. m \in posting' => putting'[m] = {} /\ m \notin cancelFlag /\ deleting' = deleting
        BY <2>1
      <3>2. /\ deleting[m] = {} /\ uploaded[m] \subseteq stored[m]
            /\ m \notin cancelFlag => uploaded[m] \cup putting[m] = FilesOf[m]
        BY <2>1 DEF Whole
      <3>3. f \in putting[m]
        OBVIOUS
      <3>4. ASSUME m \in posting' PROVE uploaded'[m] = FilesOf[m]
        <4> DEFINE U == uploaded[m]
                   P == putting[m]
        <4>1. U \cup P = FilesOf[m] /\ P \ {f} = {} /\ f \in P
          BY <2>3, <3>1, <3>2, <3>3, <3>4
        <4>2. uploaded'[m] = U \cup {f}
          BY <2>3
        <4> HIDE DEF U, P
        <4> QED
          BY <4>1, <4>2
      <3> QED
        BY <2>3, <3>1, <3>2, <3>4
    <2>5. m \notin active' /\ m \notin posting' => deleting'[m] = deleting[m] \cup uploaded'[m]
      BY <2>1 DEF Functions
    <2> QED
      BY <2>1, <2>2, <2>4, <2>5 DEF NothingOrphaned, Kinds
  <1>7. OnePlace'
    BY DEF OnePlace, Kinds, Places, Flags, Shows
  <1>8. Whole'
    BY DEF Whole, Kinds, Functions, Places, Flags
  <1> QED
    BY <1>1, <1>2, <1>3, <1>4, <1>5, <1>6, <1>7, <1>8

\* A PUT failed.
LEMMA FailStep ==
  ASSUME OutboxIInv, NEW m \in Sends, NEW f \in FilesOf[m], PutFails(m, f)
  PROVE  OutboxIInv'
  <1> USE DEF OutboxIInv, PutFails, Fails, SendFailed, Answered, LastPut, Settled, Cleanup, Aborted, view, server
  <1>1. Kinds'
    BY AllFiles DEF Kinds, Places, Functions
  <1>2. Functions'
    BY AllFiles DEF Functions, Kinds
  <1>3. Places'
    BY DEF Places, Kinds, Functions, Begun, Flags
  <1>4. Flags'
    BY DEF Flags, Kinds, Places, Begun, Shows
  <1>5. Shows'
    BY DEF Shows
  <1>6. NothingOrphaned'
    <2>1. m \in active /\ m \notin posting \cup posted /\ m \in cancelFlag' /\ posting' = posting
      BY DEF Places, Flags
    <2>2. /\ UNCHANGED <<uploaded, stored, leftover, posted>>
          /\ \A n \in Sends : n # m => /\ deleting'[n] = deleting[n]
                                       /\ (n \in active') <=> (n \in active)
                                       /\ (n \in errored') <=> (n \in errored)
                                       /\ (n \in failed') <=> (n \in failed)
      BY DEF Functions
    <2>3. m \notin active' => deleting'[m] = deleting[m] \cup uploaded[m]
      BY <2>1 DEF Functions
    <2> QED
      BY <2>1, <2>2, <2>3 DEF NothingOrphaned, Kinds
  <1>7. OnePlace'
    BY DEF OnePlace, Kinds, Places, Flags, Shows
  <1>8. Whole'
    BY DEF Whole, Kinds, Functions, Places, Flags
  <1> QED
    BY <1>1, <1>2, <1>3, <1>4, <1>5, <1>6, <1>7, <1>8

\* The server deletes a file of a message given up.
LEMMA DeleteStep ==
  ASSUME OutboxIInv, NEW m \in Sends, NEW f \in FilesOf[m], SrvDeletes(m, f)
  PROVE  OutboxIInv'
  <1> USE DEF OutboxIInv, SrvDeletes, view, http
  <1>1. Kinds'
    BY DEF Kinds, Functions
  <1>2. Functions'
    BY AllFiles DEF Functions, Kinds
  <1>3. Places'
    BY DEF Places, Kinds, Functions, Begun, Flags
  <1>4. Flags'
    BY DEF Flags, Kinds, Places, Begun, Shows
  <1>5. Shows'
    BY DEF Shows
  <1>6. NothingOrphaned'
    BY DEF NothingOrphaned, Kinds, Functions, Places, Flags, Whole
  <1>7. OnePlace'
    BY DEF OnePlace, Kinds, Places, Flags, Shows
  <1>8. Whole'
    BY DEF Whole, Kinds, Functions, Places, Flags
  <1> QED
    BY <1>1, <1>2, <1>3, <1>4, <1>5, <1>6, <1>7, <1>8

\* The DELETE is answered, and its failure only logged.
LEMMA DeletedStep ==
  ASSUME OutboxIInv, NEW m \in Sends, NEW f \in FilesOf[m], DeleteAnswered(m, f)
  PROVE  OutboxIInv'
  <1> USE DEF OutboxIInv, DeleteAnswered, view
  <1>1. Kinds'
    BY DEF Kinds, Functions
  <1>2. Functions'
    BY AllFiles DEF Functions, Kinds
  <1>3. Places'
    BY DEF Places, Kinds, Functions, Begun, Flags
  <1>4. Flags'
    BY DEF Flags, Kinds, Places, Begun, Shows
  <1>5. Shows'
    BY DEF Shows
  <1>6. NothingOrphaned'
    BY DEF NothingOrphaned, Kinds, Functions, Places, Flags, Whole
  <1>7. OnePlace'
    BY DEF OnePlace, Kinds, Places, Flags, Shows
  <1>8. Whole'
    BY DEF Whole, Kinds, Functions, Places, Flags
  <1> QED
    BY <1>1, <1>2, <1>3, <1>4, <1>5, <1>6, <1>7, <1>8

\* The server posts the message.
LEMMA PostStep ==
  ASSUME OutboxIInv, NEW m \in Sends, SrvPosts(m)
  PROVE  OutboxIInv'
  <1> USE DEF OutboxIInv, SrvPosts, view, http
  <1>1. Kinds'
    BY DEF Kinds
  <1>2. Functions'
    BY AllFiles DEF Functions, Kinds
  <1>3. Places'
    BY DEF Places, Kinds, Functions, Begun, Flags
  <1>4. Flags'
    BY DEF Flags, Kinds, Places, Begun, Shows
  <1>5. Shows'
    BY DEF Shows
  <1>6. NothingOrphaned'
    BY DEF NothingOrphaned, Kinds, Functions, Places, Flags, Whole
  <1>7. OnePlace'
    BY DEF OnePlace, Kinds, Places, Flags, Shows
  <1>8. Whole'
    BY DEF Whole, Kinds, Functions, Places, Flags
  <1> QED
    BY <1>1, <1>2, <1>3, <1>4, <1>5, <1>6, <1>7, <1>8

\* The answer to the POST.
LEMMA AnswerStep ==
  ASSUME OutboxIInv, NEW m \in Sends, PostAnswered(m)
  PROVE  OutboxIInv'
  <1> USE DEF OutboxIInv, PostAnswered, SendFailed, view, server
  <1>1. Kinds'
    BY DEF Kinds
  <1>2. Functions'
    BY AllFiles DEF Functions, Kinds
  <1>3. Places'
    BY DEF Places, Kinds, Functions, Begun, Flags
  <1>4. Flags'
    BY DEF Flags, Kinds, Places, Begun, Shows
  <1>5. Shows'
    BY DEF Shows
  <1>6. NothingOrphaned'
    BY DEF NothingOrphaned, Kinds, Functions, Places, Flags, Whole
  <1>7. OnePlace'
    BY DEF OnePlace, Kinds, Places, Flags, Shows
  <1>8. Whole'
    BY DEF Whole, Kinds, Functions, Places, Flags
  <1> QED
    BY <1>1, <1>2, <1>3, <1>4, <1>5, <1>6, <1>7, <1>8

-----------------------------------------------------------------------------
\* Each action keeps OutboxIInv.
LEMMA OutboxIInvKept == OutboxIInv /\ [Next]_vars => OutboxIInv'
  <1> SUFFICES ASSUME OutboxIInv, [Next]_vars PROVE OutboxIInv'
    OBVIOUS
  <1>1. CASE UNCHANGED vars
    BY <1>1 DEF vars, OutboxIInv, Kinds, Functions, Places, Flags, Whole, Shows, NothingOrphaned, OnePlace, Begun
  <1>2. CASE SessionLost
    BY <1>2, LossStep
  <1>3. ASSUME NEW m \in Sends,
               SendMessage(m) \/ CancelSend(m) \/ OnMessageCreated(m) \/ SlotsGranted(m)
               \/ SlotsFail(m) \/ SrvPosts(m) \/ PostAnswered(m)
        PROVE OutboxIInv'
    BY <1>3, SendStep, CancelStep, EchoStep, GrantStep, RefuseStep, PostStep, AnswerStep
  <1>4. ASSUME NEW m \in Sends, NEW f \in FilesOf[m],
               SrvStores(m, f) \/ PutDone(m, f) \/ PutFails(m, f) \/ SrvDeletes(m, f) \/ DeleteAnswered(m, f)
        PROVE OutboxIInv'
    BY <1>4, StoreStep, DoneStep, FailStep, DeleteStep, DeletedStep
  <1> QED BY <1>1, <1>2, <1>3, <1>4 DEF Next

\* OutboxIInv is inductive.
THEOREM OutboxInvariance == Spec => []OutboxIInv
  BY OutboxIInvAtFirst, OutboxIInvKept, PTL DEF Spec

\* A cancelled message is never posted; of one that is given up every uploaded file is off
\* the server, being deleted, or kept there by a DELETE that failed; of one that is posted
\* none is deleted; and preview and message are never both shown, for any messages and files.
THEOREM OutboxSafe == Spec => []Inv
  <1>1. OutboxIInv => Inv
    <2> SUFFICES ASSUME OutboxIInv PROVE Inv
      OBVIOUS
    <2>1. TypeOK
      BY DEF OutboxIInv, Kinds, TypeOK
    <2>2. CancelledNeverSent
      BY DEF OutboxIInv, Flags, CancelledNeverSent
    <2> QED BY <2>1, <2>2 DEF OutboxIInv, Inv
  <1> QED BY OutboxInvariance, <1>1, PTL

\* No failure is told of a message after its cancellation.
THEOREM CancelStaysQuiet == Spec => CancelIsQuiet
  <1> DEFINE Quiet == \A m \in cancelled : m \in errored' => m \in errored
  <1>1. OutboxIInv /\ [Next]_vars => [Quiet]_vars
    <2> SUFFICES ASSUME OutboxIInv, Next, NEW n \in cancelled, n \in errored' PROVE n \in errored
      OBVIOUS
    <2>1. n \in cancelFlag /\ n \notin posting
      BY DEF OutboxIInv, Flags
    <2>2. ASSUME NEW m \in Sends, SendFailed(m), m # n PROVE n \in errored
      BY <2>2 DEF SendFailed
    <2>3. CASE UNCHANGED errored
      BY <2>3
    <2>4. ASSUME NEW m \in Sends, SlotsFail(m) \/ PostAnswered(m) PROVE n \in errored
      BY <2>1, <2>2, <2>3, <2>4 DEF SlotsFail, PostAnswered, view
    <2>5. ASSUME NEW m \in Sends, NEW f \in FilesOf[m], PutFails(m, f) PROVE n \in errored
      BY <2>1, <2>2, <2>3, <2>5 DEF PutFails, Fails, view
    <2>6. ASSUME NEW m \in Sends,
                 SendMessage(m) \/ CancelSend(m) \/ OnMessageCreated(m) \/ SlotsGranted(m) \/ SrvPosts(m)
          PROVE n \in errored
      BY <2>6 DEF SendMessage, Unsent, CancelSend, OnMessageCreated, SlotsGranted, SrvPosts, view
    <2>7. ASSUME NEW m \in Sends, NEW f \in FilesOf[m],
                 SrvStores(m, f) \/ PutDone(m, f) \/ SrvDeletes(m, f) \/ DeleteAnswered(m, f)
          PROVE n \in errored
      BY <2>7 DEF SrvStores, PutDone, SrvDeletes, DeleteAnswered, view
    <2>8. CASE SessionLost
      BY <2>8 DEF SessionLost, view
    <2> QED BY <2>4, <2>5, <2>6, <2>7, <2>8 DEF Next
  <1> QED BY <1>1, OutboxInvariance, PTL DEF Spec, CancelIsQuiet

\* A step of the composition is a step of the outbox or leaves it alone.
LEMMA ComposerStepsOutbox == [ComposerNext]_composerVars => [Next]_vars
  <1> SUFFICES ASSUME [ComposerNext]_composerVars PROVE [Next]_vars
    OBVIOUS
  <1>1. ASSUME NEW m \in Sends, SendTyped(m) PROVE Next
    BY <1>1 DEF SendTyped, Next
  <1>2. ASSUME NEW m \in Sends, Progress(m) PROVE Next
    BY <1>2 DEF Progress, SrvAccepts, Next
  <1>3. ASSUME NewSession PROVE [Next]_vars
    BY <1>3 DEF NewSession, Next
  <1> QED
    BY <1>1, <1>2, <1>3 DEF ComposerNext, composerVars

\* The composition of the two sides keeps what Outbox promises, with a server that refuses
\* messages and sessions that take its events with them.
THEOREM ComposerSafe == ComposerSpec => []Inv /\ CancelIsQuiet
  <1>1. ComposerSpec => Spec
    BY ComposerStepsOutbox, PTL DEF ComposerSpec, ComposerInit, Spec
  <1> QED
    BY <1>1, OutboxSafe, CancelStaysQuiet, PTL

-----------------------------------------------------------------------------
(* Permissions.                                                            *)

\* Of the events w, those in S tell of a row, val of them what; the server has now, the client held.
Known(w, S, val, now, held) ==
  /\ \A i \in 1..Len(w) : w[i] \in S /\ (\A j \in i + 1..Len(w) : w[j] \notin S) => val[w[i]] = now
  /\ (\A i \in 1..Len(w) : w[i] \notin S) => held = now

RoleTelling(r) == {e \in Events : e.kind = "ready" \/ (e.kind = "role" /\ e.role = r)}
RoleTold(r) == [e \in Events |-> IF e.kind = "role" THEN e.grants ELSE e.guild.roles[r]]

MineTelling == {e \in Events : e.kind \in {"member", "list", "ready"}}
MineTold == [e \in Events |-> IF e.kind = "ready" THEN e.guild.mine ELSE e.mine]

ChannelTelling(c) == {e \in Events : \/ e.kind = "ready" /\ Exists(e.guild, c)
                                     \/ e.kind = "channel" /\ e.channel = c}
ChannelTold(c) == [e \in Events |-> IF e.kind = "ready" THEN e.guild.over[c] ELSE e.over]

\* With the events w under way, a server that has s and a client that has d agree in the end.
AllKnown(w, s, d) ==
  /\ \A r \in Roles \cup {Everyone} : Known(w, RoleTelling(r), RoleTold(r), s.roles[r], d.roles[r])
  /\ Known(w, MineTelling, MineTold, s.mine, d.mine)
  /\ \A c \in Channels :
       Exists(s, c) => Known(w, ChannelTelling(c), ChannelTold(c), s.over[c], d.over[c])

\* An entry of the member list comes before the event that invalidates, or has nothing new.
ListBacked(w, d) ==
  \A i \in 1..Len(w) : w[i].kind = "list" =>
    \/ \E j \in i + 1..Len(w) : w[j].kind = "member"
    \/ i > 1 /\ w[i - 1].kind = "member" /\ w[i - 1].mine = w[i].mine
    \/ i = 1 /\ w[i].mine = d.mine

\* READY comes first, and a channel it does not name is not known yet.
ReadyFirst(w, s, d) ==
  \A i \in 1..Len(w) : w[i].kind = "ready" =>
    /\ i = 1
    /\ \A c \in Channels : Exists(s, c) /\ ~Exists(w[i].guild, c) => d.over[c] = NotYet

\* Nothing is known of a channel before it is created, and nobody can have asked.  For one
\* that is deleted no permissions are kept.
NotAsked ==
  /\ \A c \in Channels : /\ srv.over[c] = NotYet => db.over[c] = NotYet
                         /\ db.over[c] = NotYet => cache[c] = Absent
                         /\ db.over[c] = Gone => cache[c] \in {Absent, {}}
  /\ open # Nowhere => db.over[open] # NotYet

\* The composer shows the entry of the open channel.
ComposerFollows == open # Nowhere /\ ~hushed => cache[open] # Absent /\ enabled = (Send \in cache[open])

\* No event tells of a channel before it is created.
Created(w, s) ==
  \A i \in 1..Len(w), c \in Channels : w[i] \in ChannelTelling(c) => s.over[c] # NotYet

Order ==
  AllKnown(wire, srv, db) /\ ListBacked(wire, db) /\ ReadyFirst(wire, srv, db) /\ Created(wire, srv)
Kept == StaleNotForLong /\ NotAsked /\ ComposerFollows
PermIInv == PermTypeOK /\ Order /\ Kept

-----------------------------------------------------------------------------
(* Events under way.                                                        *)

\* An event that is handled tells what it tells: the row is held as told, or as before.
LEMMA KnownTail ==
  ASSUME NEW w \in Seq(Events), w # <<>>, NEW S, NEW val, NEW now, NEW held, NEW held2,
         Known(w, S, val, now, held),
         Head(w) \in S => held2 = val[Head(w)],
         Head(w) \notin S => held2 = held
  PROVE  Known(Tail(w), S, val, now, held2)
<1> DEFINE t == Tail(w)
<1>1. /\ t \in Seq(Events) /\ Len(t) = Len(w) - 1 /\ Len(w) >= 1 /\ Head(w) = w[1]
      /\ \A i \in 1..Len(t) : t[i] = w[i + 1]
  OBVIOUS
<1> HIDE DEF t
<1>2. ASSUME NEW i \in 1..Len(t), t[i] \in S, \A j \in i + 1..Len(t) : t[j] \notin S PROVE val[t[i]] = now
  <2>1. i + 1 \in 1..Len(w) /\ w[i + 1] = t[i]
    BY <1>1
  <2>2. ASSUME NEW j \in i + 2..Len(w) PROVE w[j] \notin S
    <3>1. j - 1 \in i + 1..Len(t) /\ t[j - 1] = w[j]
      BY <1>1
    <3> QED
      BY <1>2, <3>1
  <2> QED
    BY <1>2, <2>1, <2>2 DEF Known
<1>3. ASSUME \A i \in 1..Len(t) : t[i] \notin S PROVE held2 = now
  <2>1. \A j \in 2..Len(w) : w[j] \notin S
    <3>1. ASSUME NEW j \in 2..Len(w) PROVE w[j] \notin S
      <4>1. j - 1 \in 1..Len(t) /\ t[j - 1] = w[j]
        BY <1>1
      <4> QED
        BY <1>3, <4>1
    <3> QED
      BY <3>1
  <2>2. CASE w[1] \in S
    BY <1>1, <2>1, <2>2 DEF Known
  <2>3. CASE w[1] \notin S
    <3>1. \A i \in 1..Len(w) : w[i] \notin S
      BY <2>1, <2>3, <1>1
    <3> QED
      BY <1>1, <2>3, <3>1 DEF Known
  <2> QED
    BY <2>2, <2>3
<1> QED
  BY <1>2, <1>3 DEF Known, t

\* An event about another row changes nothing.
LEMMA KnownOther ==
  ASSUME NEW w \in Seq(Events), NEW e \in Events, NEW S, NEW val, NEW now, NEW held,
         Known(w, S, val, now, held), e \notin S
  PROVE  Known(Append(w, e), S, val, now, held)
<1> DEFINE t == Append(w, e)
<1>1. /\ Len(t) = Len(w) + 1 /\ Len(w) \in Nat /\ t[Len(w) + 1] = e
      /\ \A i \in 1..Len(w) : t[i] = w[i]
  OBVIOUS
<1> HIDE DEF t
<1>2. ASSUME NEW i \in 1..Len(t), t[i] \in S, \A j \in i + 1..Len(t) : t[j] \notin S PROVE val[t[i]] = now
  <2>1. i \in 1..Len(w) /\ t[i] = w[i]
    BY <1>1, <1>2
  <2>2. \A j \in i + 1..Len(w) : j \in i + 1..Len(t) /\ t[j] = w[j]
    BY <1>1
  <2> QED
    BY <1>2, <2>1, <2>2 DEF Known
<1>3. ASSUME \A i \in 1..Len(t) : t[i] \notin S PROVE held = now
  <2>1. \A i \in 1..Len(w) : w[i] \notin S
    BY <1>1, <1>3
  <2> QED
    BY <2>1 DEF Known
<1> QED
  BY <1>2, <1>3 DEF Known, t

\* An event about the row tells what the server has from then on.
LEMMA KnownNew ==
  ASSUME NEW w \in Seq(Events), NEW e \in Events, NEW S, NEW val, NEW now, NEW held,
         e \in S, val[e] = now
  PROVE  Known(Append(w, e), S, val, now, held)
<1> DEFINE t == Append(w, e)
<1>1. /\ Len(t) = Len(w) + 1 /\ Len(w) \in Nat /\ t[Len(w) + 1] = e
      /\ \A i \in 1..Len(w) : t[i] = w[i]
  OBVIOUS
<1> HIDE DEF t
<1>2. ASSUME NEW i \in 1..Len(t), t[i] \in S, \A j \in i + 1..Len(t) : t[j] \notin S PROVE val[t[i]] = now
  <2>1. i = Len(w) + 1
    BY <1>1, <1>2
  <2> QED
    BY <1>1, <2>1
<1>3. ~ \A i \in 1..Len(t) : t[i] \notin S
  BY <1>1
<1> QED
  BY <1>2, <1>3 DEF Known, t

-----------------------------------------------------------------------------
(* Order, through the events.                                               *)

\* One more event tells of what changed on the server.
LEMMA OneMore ==
  ASSUME NEW w \in Seq(Events), NEW e \in Events, NEW s \in Guild, NEW t \in Guild, NEW d \in Guild,
         AllKnown(w, s, d),
         \A r \in Roles \cup {Everyone} :
           t.roles[r] = IF e \in RoleTelling(r) THEN RoleTold(r)[e] ELSE s.roles[r],
         t.mine = IF e \in MineTelling THEN MineTold[e] ELSE s.mine,
         \A c \in Channels : Exists(t, c) =>
           IF e \in ChannelTelling(c) THEN t.over[c] = ChannelTold(c)[e] ELSE t.over[c] = s.over[c]
  PROVE  AllKnown(Append(w, e), t, d)
<1>1. ASSUME NEW r \in Roles \cup {Everyone}
      PROVE  Known(Append(w, e), RoleTelling(r), RoleTold(r), t.roles[r], d.roles[r])
  <2>1. CASE e \in RoleTelling(r)
    BY <2>1, KnownNew
  <2>2. CASE e \notin RoleTelling(r)
    <3>1. Known(w, RoleTelling(r), RoleTold(r), t.roles[r], d.roles[r])
      BY <2>2 DEF AllKnown
    <3> QED
      BY <2>2, <3>1, KnownOther
  <2> QED
    BY <2>1, <2>2
<1>2. Known(Append(w, e), MineTelling, MineTold, t.mine, d.mine)
  <2>1. CASE e \in MineTelling
    BY <2>1, KnownNew
  <2>2. CASE e \notin MineTelling
    <3>1. Known(w, MineTelling, MineTold, t.mine, d.mine)
      BY <2>2 DEF AllKnown
    <3> QED
      BY <2>2, <3>1, KnownOther
  <2> QED
    BY <2>1, <2>2
<1>3. ASSUME NEW c \in Channels, Exists(t, c)
      PROVE  Known(Append(w, e), ChannelTelling(c), ChannelTold(c), t.over[c], d.over[c])
  <2>1. CASE e \in ChannelTelling(c)
    <3>1. t.over[c] = ChannelTold(c)[e]
      BY <1>3, <2>1
    <3> QED
      BY <2>1, <3>1, KnownNew
  <2>2. CASE e \notin ChannelTelling(c)
    <3>1. t.over[c] = s.over[c] /\ Exists(s, c)
      BY <1>3, <2>2 DEF Exists
    <3>2. Known(w, ChannelTelling(c), ChannelTold(c), t.over[c], d.over[c])
      BY <3>1 DEF AllKnown
    <3> QED
      BY <2>2, <3>2, KnownOther
  <2> QED
    BY <2>1, <2>2
<1> QED
  BY <1>1, <1>2, <1>3 DEF AllKnown

\* A handler that stores what its event tells, and nothing else, leaves the rest to the others.
LEMMA OneLess ==
  ASSUME NEW w \in Seq(Events), w # <<>>, NEW s \in Guild, NEW d \in Guild, NEW f \in Guild,
         AllKnown(w, s, d),
         \A r \in Roles \cup {Everyone} :
           f.roles[r] = IF Head(w) \in RoleTelling(r) THEN RoleTold(r)[Head(w)] ELSE d.roles[r],
         f.mine = IF Head(w) \in MineTelling THEN MineTold[Head(w)] ELSE d.mine,
         \A c \in Channels :
           f.over[c] = IF Head(w) \in ChannelTelling(c) THEN ChannelTold(c)[Head(w)] ELSE d.over[c]
  PROVE  AllKnown(Tail(w), s, f)
<1>1. ASSUME NEW r \in Roles \cup {Everyone}
      PROVE  Known(Tail(w), RoleTelling(r), RoleTold(r), s.roles[r], f.roles[r])
  <2>1. Known(w, RoleTelling(r), RoleTold(r), s.roles[r], d.roles[r])
    BY DEF AllKnown
  <2> QED
    BY <2>1, KnownTail
<1>2. Known(Tail(w), MineTelling, MineTold, s.mine, f.mine)
  <2>1. Known(w, MineTelling, MineTold, s.mine, d.mine)
    BY DEF AllKnown
  <2> QED
    BY <2>1, KnownTail
<1>3. ASSUME NEW c \in Channels, Exists(s, c)
      PROVE  Known(Tail(w), ChannelTelling(c), ChannelTold(c), s.over[c], f.over[c])
  <2>1. Known(w, ChannelTelling(c), ChannelTold(c), s.over[c], d.over[c])
    BY <1>3 DEF AllKnown
  <2> QED
    BY <2>1, KnownTail
<1> QED
  BY <1>1, <1>2, <1>3 DEF AllKnown

\* A handled event does not leave an entry of the member list without its invalidation.
LEMMA BackedTail ==
  ASSUME NEW w \in Seq(Events), w # <<>>, NEW d, NEW f,
         ListBacked(w, d), Head(w).kind = "member" => f.mine = Head(w).mine
  PROVE  ListBacked(Tail(w), f)
<1> DEFINE t == Tail(w)
<1>1. /\ t \in Seq(Events) /\ Len(t) = Len(w) - 1 /\ Len(w) >= 1 /\ Head(w) = w[1]
      /\ \A i \in 1..Len(t) : t[i] = w[i + 1]
  OBVIOUS
<1> HIDE DEF t
<1>2. SUFFICES ASSUME NEW i \in 1..Len(t), t[i].kind = "list"
               PROVE  \/ \E j \in i + 1..Len(t) : t[j].kind = "member"
                      \/ i > 1 /\ t[i - 1].kind = "member" /\ t[i - 1].mine = t[i].mine
                      \/ i = 1 /\ t[i].mine = f.mine
  BY DEF ListBacked, t
<1>3. i + 1 \in 1..Len(w) /\ w[i + 1] = t[i]
  BY <1>1
<1>4. CASE \E j \in i + 2..Len(w) : w[j].kind = "member"
  <2>1. PICK j \in i + 2..Len(w) : w[j].kind = "member"
    BY <1>4
  <2>2. j - 1 \in i + 1..Len(t) /\ t[j - 1] = w[j]
    BY <1>1
  <2> QED
    BY <2>1, <2>2
<1>5. CASE w[i].kind = "member" /\ w[i].mine = w[i + 1].mine
  <2>1. CASE i = 1
    BY <1>1, <1>3, <1>5, <2>1
  <2>2. CASE i > 1
    <3>1. i - 1 \in 1..Len(t) /\ t[i - 1] = w[i]
      BY <1>1, <2>2
    <3> QED
      BY <1>3, <1>5, <2>2, <3>1
  <2> QED
    BY <2>1, <2>2
<1> QED
  <2>1. w[i + 1].kind = "list" /\ (i + 1) + 1 = i + 2 /\ (i + 1) - 1 = i /\ i + 1 # 1
    BY <1>2, <1>3
  <2> QED
    BY <1>3, <1>4, <1>5, <2>1 DEF ListBacked

\* An event that is no entry of the member list needs nothing.
LEMMA BackedMore ==
  ASSUME NEW w \in Seq(Events), NEW e \in Events, NEW d,
         ListBacked(w, d), e.kind # "list"
  PROVE  ListBacked(Append(w, e), d)
<1> DEFINE t == Append(w, e)
<1>1. /\ Len(t) = Len(w) + 1 /\ Len(w) \in Nat /\ t[Len(w) + 1] = e
      /\ \A i \in 1..Len(w) : t[i] = w[i]
  OBVIOUS
<1> HIDE DEF t
<1>2. ASSUME NEW i \in 1..Len(t), t[i].kind = "list"
      PROVE  \/ \E j \in i + 1..Len(t) : t[j].kind = "member"
             \/ i > 1 /\ t[i - 1].kind = "member" /\ t[i - 1].mine = t[i].mine
             \/ i = 1 /\ t[i].mine = d.mine
  <2>1. i \in 1..Len(w) /\ t[i] = w[i] /\ (i > 1 => t[i - 1] = w[i - 1])
    BY <1>1, <1>2
  <2>2. \A j \in i + 1..Len(w) : j \in i + 1..Len(t) /\ t[j] = w[j]
    BY <1>1
  <2> QED
    BY <1>2, <2>1, <2>2 DEF ListBacked
<1> QED
  BY <1>2 DEF ListBacked, t

\* The member list and GUILD_MEMBER_UPDATE tell the same, in either order.
LEMMA BackedPair ==
  ASSUME NEW w \in Seq(Events), NEW e \in Events, NEW f \in Events, NEW d,
         ListBacked(w, d),
         \/ e.kind = "list" /\ f.kind = "member"
         \/ e.kind = "member" /\ f.kind = "list" /\ e.mine = f.mine
  PROVE  ListBacked(Append(Append(w, e), f), d)
<1> DEFINE t == Append(Append(w, e), f)
<1>1. /\ Len(t) = Len(w) + 2 /\ Len(w) \in Nat /\ t[Len(w) + 1] = e /\ t[Len(w) + 2] = f
      /\ \A i \in 1..Len(w) : t[i] = w[i]
  OBVIOUS
<1> HIDE DEF t
<1>2. ASSUME NEW i \in 1..Len(t), t[i].kind = "list"
      PROVE  \/ \E j \in i + 1..Len(t) : t[j].kind = "member"
             \/ i > 1 /\ t[i - 1].kind = "member" /\ t[i - 1].mine = t[i].mine
             \/ i = 1 /\ t[i].mine = d.mine
  <2>1. CASE i \in 1..Len(w)
    <3>1. t[i] = w[i] /\ (i > 1 => t[i - 1] = w[i - 1])
      BY <1>1, <2>1
    <3>2. \A j \in i + 1..Len(w) : j \in i + 1..Len(t) /\ t[j] = w[j]
      BY <1>1
    <3> QED
      BY <1>2, <2>1, <3>1, <3>2 DEF ListBacked
  <2>2. CASE i = Len(w) + 1
    <3>1. Len(w) + 2 \in i + 1..Len(t) /\ t[Len(w) + 2] = f /\ t[i] = e
      BY <1>1, <2>2
    <3> QED
      BY <1>2, <3>1
  <2>3. CASE i = Len(w) + 2
    <3>1. i > 1 /\ t[i - 1] = e /\ t[i] = f
      BY <1>1, <2>3
    <3> QED
      BY <1>2, <3>1
  <2> QED
    BY <1>1, <2>1, <2>2, <2>3
<1> QED
  BY <1>2 DEF ListBacked, t

\* Only the first event can be a READY.
LEMMA ReadyTail ==
  ASSUME NEW w \in Seq(Events), w # <<>>, NEW s, NEW d, NEW f, ReadyFirst(w, s, d)
  PROVE  ReadyFirst(Tail(w), s, f)
<1> DEFINE t == Tail(w)
<1>1. /\ Len(t) = Len(w) - 1 /\ Len(w) \in Nat /\ \A i \in 1..Len(t) : t[i] = w[i + 1]
  OBVIOUS
<1> HIDE DEF t
<1>2. ASSUME NEW i \in 1..Len(t) PROVE t[i].kind # "ready"
  <2>1. i + 1 \in 1..Len(w) /\ t[i] = w[i + 1] /\ i + 1 # 1
    BY <1>1
  <2> QED
    BY <2>1 DEF ReadyFirst
<1> QED
  BY <1>2 DEF ReadyFirst, t

\* Events are added behind it.
LEMMA ReadyMore ==
  ASSUME NEW w \in Seq(Events), NEW e \in Events, NEW s, NEW t, NEW d, ReadyFirst(w, s, d),
         e.kind # "ready",
         \A c \in Channels : Exists(t, c) => Exists(s, c) \/ d.over[c] = NotYet
  PROVE  ReadyFirst(Append(w, e), t, d)
<1> DEFINE a == Append(w, e)
<1>1. /\ Len(a) = Len(w) + 1 /\ Len(w) \in Nat /\ a[Len(w) + 1] = e
      /\ \A i \in 1..Len(w) : a[i] = w[i]
  OBVIOUS
<1> HIDE DEF a
<1>2. ASSUME NEW i \in 1..Len(a), a[i].kind = "ready"
      PROVE  /\ i = 1
             /\ \A c \in Channels : Exists(t, c) /\ ~Exists(a[i].guild, c) => d.over[c] = NotYet
  <2>1. i \in 1..Len(w) /\ a[i] = w[i]
    BY <1>1, <1>2
  <2> QED
    BY <1>2, <2>1 DEF ReadyFirst
<1> QED
  BY <1>2 DEF ReadyFirst, a

\* What is created stays so.
LEMMA CreatedTail ==
  ASSUME NEW w \in Seq(Events), w # <<>>, NEW s, Created(w, s)
  PROVE  Created(Tail(w), s)
<1> DEFINE t == Tail(w)
<1>1. /\ Len(t) = Len(w) - 1 /\ Len(w) \in Nat /\ \A i \in 1..Len(t) : t[i] = w[i + 1]
  OBVIOUS
<1> HIDE DEF t
<1>2. ASSUME NEW i \in 1..Len(t), NEW c \in Channels, t[i] \in ChannelTelling(c) PROVE s.over[c] # NotYet
  <2>1. i + 1 \in 1..Len(w) /\ t[i] = w[i + 1]
    BY <1>1
  <2> QED
    BY <1>2, <2>1 DEF Created
<1> QED
  BY <1>2 DEF Created, t

\* An event tells of created channels.
LEMMA CreatedMore ==
  ASSUME NEW w \in Seq(Events), NEW e \in Events, NEW s, NEW t, Created(w, s),
         \A c \in Channels : s.over[c] # NotYet \/ e \in ChannelTelling(c) => t.over[c] # NotYet
  PROVE  Created(Append(w, e), t)
<1> DEFINE a == Append(w, e)
<1>1. /\ Len(a) = Len(w) + 1 /\ Len(w) \in Nat /\ a[Len(w) + 1] = e
      /\ \A i \in 1..Len(w) : a[i] = w[i]
  OBVIOUS
<1> HIDE DEF a
<1>2. ASSUME NEW i \in 1..Len(a), NEW c \in Channels, a[i] \in ChannelTelling(c) PROVE t.over[c] # NotYet
  <2>1. CASE i \in 1..Len(w)
    BY <1>1, <1>2, <2>1 DEF Created
  <2>2. CASE i = Len(w) + 1
    BY <1>1, <1>2, <2>2
  <2> QED
    BY <1>1, <2>1, <2>2
<1> QED
  BY <1>2 DEF Created, a

-----------------------------------------------------------------------------
(* Types.                                                                   *)

\* The fields of a guild.
LEMMA GuildFields ==
  ASSUME NEW g \in Guild
  PROVE  /\ g.roles \in [Roles \cup {Everyone} -> Grants] /\ g.mine \in SUBSET Roles
         /\ g.over \in [Channels -> Overwrites \cup {NotYet, Gone}]
BY DEF Guild

\* The fields of an event, by its kind.
LEMMA EventFields ==
  ASSUME NEW e \in Events
  PROVE  /\ e.kind \in {"role", "channel", "member", "list", "ready"}
         /\ e.kind = "role" => e.role \in Roles \cup {Everyone} /\ e.grants \in Grants
         /\ e.kind = "channel" => e.channel \in Channels /\ e.over \in Overwrites \cup {Gone}
         /\ e.kind \in {"member", "list"} => e.mine \in SUBSET Roles
         /\ e.kind = "ready" => e.guild \in Guild
BY DEF Events, RoleEvents, ChannelEvents, MemberEvents, ReadyEvents

\* Rows that are written one at a time.
LEMMA GuildSaved ==
  ASSUME NEW g \in Guild
  PROVE  /\ \A r \in Roles \cup {Everyone}, v \in Grants :
              LET h == [g EXCEPT !.roles[r] = v] IN
                /\ h \in Guild /\ h.mine = g.mine /\ h.over = g.over
                /\ h.roles = [g.roles EXCEPT ![r] = v]
         /\ \A m \in SUBSET Roles :
              LET h == [g EXCEPT !.mine = m] IN
                h \in Guild /\ h.mine = m /\ h.over = g.over /\ h.roles = g.roles
         /\ \A c \in Channels, o \in Overwrites \cup {Gone} :
              LET h == [g EXCEPT !.over[c] = o] IN
                /\ h \in Guild /\ h.mine = g.mine /\ h.roles = g.roles
                /\ h.over = [g.over EXCEPT ![c] = o]
         /\ \A f \in [Channels -> Overwrites \cup {NotYet, Gone}] :
              LET h == [g EXCEPT !.over = f] IN
                h \in Guild /\ h.mine = g.mine /\ h.roles = g.roles /\ h.over = f
BY DEF Guild

\* Permissions are sets of bits.
LEMMA ComputedType ==
  ASSUME NEW g \in Guild, NEW c \in Channels
  PROVE  Computed(g, c) \in SUBSET Perms /\ Computed(g, c) # Absent
<1>1. \A r \in Roles \cup {Everyone} : g.roles[r] \in SUBSET Perms
  BY GuildFields, PermAssumption
<1>2. g.mine \in SUBSET Roles
  BY GuildFields
<1>3. Base(g) \in SUBSET Perms
  BY <1>1, <1>2 DEF Base
<1>4. CASE Exists(g, c)
  <2>1. g.over[c] \in [Targets -> [deny : SUBSET Perms, allow : SUBSET Perms]]
    BY <1>4, GuildFields, PermAssumption DEF Exists
  <2>2. \A t \in Targets : g.over[c][t].deny \in SUBSET Perms /\ g.over[c][t].allow \in SUBSET Perms
    BY <2>1
  <2>3. Everyone \in Targets /\ Me \in Targets /\ g.mine \subseteq Targets
    BY <1>2 DEF Targets
  <2>4. UNION {g.over[c][r].allow : r \in g.mine} \in SUBSET Perms
    BY <2>2, <2>3
  <2>5. WithOverwrites(g, g.over[c]) \in SUBSET Perms
    BY <1>3, <2>2, <2>3, <2>4 DEF WithOverwrites, Overwritten
  <2> QED
    BY <1>4, <2>5, PermAssumption DEF Computed
<1>5. CASE ~Exists(g, c)
  BY <1>5, PermAssumption DEF Computed
<1> QED
  BY <1>4, <1>5

\* They depend on the roles, the membership and the channel only.
LEMMA ComputedSame ==
  ASSUME NEW g, NEW h, NEW c, g.roles = h.roles, g.mine = h.mine, g.over[c] = h.over[c]
  PROVE  Computed(g, c) = Computed(h, c)
BY DEF Computed, WithOverwrites, Base, Exists

-----------------------------------------------------------------------------
(* Invalidation.                                                            *)

\* invalidateUserGuildCache leaves only what was asked of the new rows.
LEMMA GuildInvalidated ==
  ASSUME PermTypeOK, Kept, NEW g \in Guild, g.over = db.over, InvalidateGuild(g)
  PROVE  /\ cache' \in [Channels -> {Absent} \cup SUBSET Perms]
         /\ open' = open /\ enabled' \in BOOLEAN /\ hushed' \in BOOLEAN
         /\ \A c \in Channels : cache'[c] \in {Absent, Computed(g, c)}
         /\ \A c \in Channels : /\ g.over[c] = NotYet => cache'[c] = Absent
                                /\ g.over[c] = Gone => cache'[c] \in {Absent, {}}
         /\ ComposerFollows'
<1> DEFINE cleared == [c \in Channels |-> IF Exists(g, c) THEN Absent ELSE cache[c]]
<1>0. /\ cleared \in [Channels -> {Absent} \cup SUBSET Perms]
      /\ \A c \in Channels : /\ cleared[c] \in {Absent, Computed(g, c)}
                             /\ g.over[c] = NotYet => cleared[c] = Absent
                             /\ g.over[c] = Gone => cleared[c] \in {Absent, {}}
  BY DEF PermTypeOK, Kept, NotAsked, Computed, Exists
<1>1. CASE open # Nowhere /\ Exists(g, open) /\ cache[open] # Absent
  <2>1. open \in Channels /\ g.over[open] # NotYet /\ g.over[open] # Gone
    BY <1>1 DEF PermTypeOK, Exists
  <2>2. Answer(g, cleared, open) = Computed(g, open)
    BY <1>1, <2>1 DEF Answer
  <2>3. /\ cache' = [cleared EXCEPT ![open] = Computed(g, open)]
        /\ enabled' = (Send \in Computed(g, open)) /\ hushed' = FALSE /\ open' = open
    BY <1>1, <2>2 DEF InvalidateGuild, Reshown
  <2>4. Computed(g, open) \in SUBSET Perms /\ Computed(g, open) # Absent
    BY <2>1, ComputedType
  <2>5. cache'[open] = Computed(g, open) /\ \A c \in Channels \ {open} : cache'[c] = cleared[c]
    BY <2>1, <2>3
  <2>6. ComposerFollows'
    BY <2>3, <2>4, <2>5 DEF ComposerFollows
  <2>7. cache' \in [Channels -> {Absent} \cup SUBSET Perms]
    BY <1>0, <2>1, <2>3, <2>4
  <2>8. hushed' \in BOOLEAN
    BY <2>3
  <2>9. enabled' \in BOOLEAN
    <3>1. CASE Send \in Computed(g, open)
      BY <2>3, <3>1
    <3>2. CASE Send \notin Computed(g, open)
      BY <2>3, <3>2
    <3> QED
      BY <3>1, <3>2
  <2> QED
    BY <1>0, <2>1, <2>3, <2>5, <2>6, <2>7, <2>8, <2>9
<1>2. CASE ~(open # Nowhere /\ Exists(g, open) /\ cache[open] # Absent)
  <2>1. cache' = cleared /\ UNCHANGED screen
    BY <1>2 DEF InvalidateGuild
  <2>2. open # Nowhere => hushed \/ cleared[open] = cache[open]
    BY <1>2 DEF Kept, ComposerFollows, PermTypeOK
  <2>3. ComposerFollows'
    BY <2>1, <2>2 DEF ComposerFollows, Kept, screen
  <2> QED
    BY <1>0, <2>1, <2>3 DEF PermTypeOK, screen
<1> QED
  BY <1>1, <1>2

\* invalidateChannelCache does so for one channel.
LEMMA ChannelInvalidated ==
  ASSUME PermTypeOK, Kept, NEW g \in Guild, NEW c \in Channels, InvalidateChannel(g, c)
  PROVE  /\ cache' \in [Channels -> {Absent} \cup SUBSET Perms]
         /\ open' = open /\ enabled' \in BOOLEAN /\ hushed' \in BOOLEAN
         /\ cache'[c] \in {Absent, Computed(g, c)}
         /\ \A x \in Channels \ {c} : cache'[x] = cache[x]
         /\ ComposerFollows'
<1> DEFINE cleared == [cache EXCEPT ![c] = Absent]
<1>0. cache \in [Channels -> {Absent} \cup SUBSET Perms] /\ c # Nowhere
  BY PermAssumption DEF PermTypeOK
<1>1. CASE open = c
  <2>1. Answer(g, cleared, c) = Computed(g, c)
    BY <1>0 DEF Answer
  <2>2. /\ cache' = [cleared EXCEPT ![c] = Computed(g, c)]
        /\ enabled' = (Send \in Computed(g, c)) /\ hushed' = FALSE /\ open' = open
    BY <1>1, <2>1 DEF InvalidateChannel, Reshown
  <2>3. Computed(g, c) \in SUBSET Perms /\ Computed(g, c) # Absent
    BY ComputedType
  <2>4. cache'[c] = Computed(g, c) /\ \A x \in Channels \ {c} : cache'[x] = cache[x]
    BY <1>0, <2>2
  <2>5. ComposerFollows'
    BY <1>1, <2>2, <2>3, <2>4 DEF ComposerFollows
  <2> QED
    BY <1>0, <2>2, <2>3, <2>4, <2>5
<1>2. CASE open # c
  <2>1. cache' = cleared /\ UNCHANGED screen
    BY <1>2 DEF InvalidateChannel
  <2>2. cache'[c] = Absent /\ \A x \in Channels \ {c} : cache'[x] = cache[x]
    BY <1>0, <2>1
  <2>3. open # Nowhere => cache'[open] = cache[open]
    BY <1>2, <2>2 DEF PermTypeOK
  <2>4. ComposerFollows'
    BY <2>1, <2>3 DEF ComposerFollows, Kept, screen
  <2> QED
    BY <1>0, <2>1, <2>2, <2>4 DEF PermTypeOK, screen
<1> QED
  BY <1>1, <1>2

\* Answers that are those of the rows are not stale.
LEMMA NothingStale ==
  ASSUME \A c \in Channels : Exists(srv', c) => cache'[c] \in {Absent, Computed(db', c)}
  PROVE  StaleNotForLong'
BY DEF StaleNotForLong

-----------------------------------------------------------------------------
(* The handlers.                                                            *)

\* What every handler does to the queue.
LEMMA ReceivedQueue ==
  ASSUME PermIInv, NEW kind, Received(kind)
  PROVE  /\ wire \in Seq(Events) /\ wire # <<>> /\ Head(wire) \in Events /\ Head(wire).kind = kind
         /\ Head(wire) = wire[1] /\ 1 \in 1..Len(wire)
         /\ wire' = Tail(wire) /\ Tail(wire) \in Seq(Events)
         /\ srv' = srv /\ srv \in Guild /\ db \in Guild /\ changes' = changes /\ sessions' = sessions
BY DEF PermIInv, PermTypeOK, Received, bounds

\* What the order of events asks of a handler.
LEMMA OrderHandled ==
  ASSUME PermIInv, NEW kind, Received(kind), db' \in Guild,
         \A r \in Roles \cup {Everyone} :
           db'.roles[r] = IF Head(wire) \in RoleTelling(r) THEN RoleTold(r)[Head(wire)] ELSE db.roles[r],
         db'.mine = IF Head(wire) \in MineTelling THEN MineTold[Head(wire)] ELSE db.mine,
         \A c \in Channels :
           db'.over[c] = IF Head(wire) \in ChannelTelling(c) THEN ChannelTold(c)[Head(wire)] ELSE db.over[c]
  PROVE  Order'
<1>1. /\ wire \in Seq(Events) /\ wire # <<>> /\ Head(wire) \in Events /\ wire' = Tail(wire) /\ srv' = srv
      /\ srv \in Guild /\ db \in Guild
  BY ReceivedQueue
<1>2. AllKnown(Tail(wire), srv, db')
  BY <1>1, OneLess DEF PermIInv, Order
<1>3. Head(wire).kind = "member" => db'.mine = Head(wire).mine
  BY <1>1 DEF MineTelling, MineTold
<1>4. ListBacked(Tail(wire), db')
  BY <1>1, <1>3, BackedTail DEF PermIInv, Order
<1>5. ReadyFirst(Tail(wire), srv, db') /\ Created(Tail(wire), srv)
  BY <1>1, ReadyTail, CreatedTail DEF PermIInv, Order
<1> QED
  BY <1>1, <1>2, <1>4, <1>5 DEF Order

\* GUILD_ROLE events.
LEMMA GuildRoleStep ==
  ASSUME PermIInv, OnGuildRole
  PROVE  PermIInv'
<1> DEFINE e == Head(wire)
<1>1. /\ Received("role") /\ e \in Events /\ e.kind = "role" /\ wire' = Tail(wire) /\ srv' = srv
      /\ Tail(wire) \in Seq(Events) /\ srv \in Guild /\ db \in Guild /\ changes' = changes /\ sessions' = sessions
  BY ReceivedQueue DEF OnGuildRole
<1>2. e.role \in Roles \cup {Everyone} /\ e.grants \in Grants
  BY <1>1, EventFields
<1> HIDE DEF e
<1>3. /\ db' \in Guild /\ db'.mine = db.mine /\ db'.over = db.over
      /\ db'.roles = [db.roles EXCEPT ![e.role] = e.grants]
  BY <1>1, <1>2, GuildSaved DEF OnGuildRole, e
<1>4. Order'
  <2>1. ASSUME NEW r \in Roles \cup {Everyone}
        PROVE  db'.roles[r] = IF e \in RoleTelling(r) THEN RoleTold(r)[e] ELSE db.roles[r]
    BY <1>1, <1>2, <1>3, GuildFields DEF RoleTelling, RoleTold
  <2>2. e \notin MineTelling /\ \A c \in Channels : e \notin ChannelTelling(c)
    BY <1>1 DEF MineTelling, ChannelTelling
  <2> QED
    BY <1>1, <1>3, <2>1, <2>2, OrderHandled DEF e
<1>5. /\ cache' \in [Channels -> {Absent} \cup SUBSET Perms] /\ open' = open
      /\ enabled' \in BOOLEAN /\ hushed' \in BOOLEAN
      /\ \A c \in Channels : cache'[c] \in {Absent, Computed(db', c)}
      /\ \A c \in Channels : /\ db'.over[c] = NotYet => cache'[c] = Absent
                             /\ db'.over[c] = Gone => cache'[c] \in {Absent, {}}
      /\ ComposerFollows'
  BY <1>3, GuildInvalidated DEF OnGuildRole, PermIInv
<1>6. Kept'
  <2>1. NotAsked'
    <3>1. \A c \in Channels : srv'.over[c] = NotYet => db'.over[c] = NotYet
      BY <1>1, <1>3 DEF PermIInv, Kept, NotAsked
    <3>2. open' # Nowhere => db'.over[open'] # NotYet
      BY <1>3, <1>5 DEF PermIInv, Kept, NotAsked
    <3>3. \A c \in Channels : /\ db'.over[c] = NotYet => cache'[c] = Absent
                              /\ db'.over[c] = Gone => cache'[c] \in {Absent, {}}
      BY <1>5
    <3> QED
      BY <3>1, <3>2, <3>3 DEF NotAsked
  <2> QED
    BY <1>5, <2>1, NothingStale DEF Kept
<1>7. PermTypeOK'
  BY <1>1, <1>3, <1>5 DEF PermIInv, PermTypeOK
<1> QED
  BY <1>4, <1>6, <1>7 DEF PermIInv

\* GUILD_MEMBER_UPDATE.
LEMMA MemberUpdateStep ==
  ASSUME PermIInv, OnGuildMemberUpdate
  PROVE  PermIInv'
<1> DEFINE e == Head(wire)
<1>1. /\ Received("member") /\ e \in Events /\ e.kind = "member" /\ wire' = Tail(wire) /\ srv' = srv
      /\ Tail(wire) \in Seq(Events) /\ srv \in Guild /\ db \in Guild /\ changes' = changes /\ sessions' = sessions
  BY ReceivedQueue DEF OnGuildMemberUpdate
<1>2. e.mine \in SUBSET Roles
  BY <1>1, EventFields
<1> HIDE DEF e
<1>3. db' \in Guild /\ db'.mine = e.mine /\ db'.over = db.over /\ db'.roles = db.roles
  BY <1>1, <1>2, GuildSaved DEF OnGuildMemberUpdate, e
<1>4. Order'
  <2>1. e \in MineTelling /\ MineTold[e] = e.mine
    BY <1>1 DEF MineTelling, MineTold
  <2>2. /\ \A r \in Roles \cup {Everyone} : e \notin RoleTelling(r)
        /\ \A c \in Channels : e \notin ChannelTelling(c)
    BY <1>1 DEF RoleTelling, ChannelTelling
  <2> QED
    BY <1>1, <1>3, <2>1, <2>2, OrderHandled DEF e
<1>5. /\ cache' \in [Channels -> {Absent} \cup SUBSET Perms] /\ open' = open
      /\ enabled' \in BOOLEAN /\ hushed' \in BOOLEAN
      /\ \A c \in Channels : cache'[c] \in {Absent, Computed(db', c)}
      /\ \A c \in Channels : /\ db'.over[c] = NotYet => cache'[c] = Absent
                             /\ db'.over[c] = Gone => cache'[c] \in {Absent, {}}
      /\ ComposerFollows'
  BY <1>3, GuildInvalidated DEF OnGuildMemberUpdate, PermIInv
<1>6. Kept'
  <2>1. NotAsked'
    <3>1. \A c \in Channels : srv'.over[c] = NotYet => db'.over[c] = NotYet
      BY <1>1, <1>3 DEF PermIInv, Kept, NotAsked
    <3>2. open' # Nowhere => db'.over[open'] # NotYet
      BY <1>3, <1>5 DEF PermIInv, Kept, NotAsked
    <3>3. \A c \in Channels : /\ db'.over[c] = NotYet => cache'[c] = Absent
                              /\ db'.over[c] = Gone => cache'[c] \in {Absent, {}}
      BY <1>5
    <3> QED
      BY <3>1, <3>2, <3>3 DEF NotAsked
  <2> QED
    BY <1>5, <2>1, NothingStale DEF Kept
<1>7. PermTypeOK'
  BY <1>1, <1>3, <1>5 DEF PermIInv, PermTypeOK
<1> QED
  BY <1>4, <1>6, <1>7 DEF PermIInv

\* GUILD_MEMBER_LIST_UPDATE: what it makes stale is dropped by an event behind it.
LEMMA MemberListStep ==
  ASSUME PermIInv, OnGuildMemberListUpdate
  PROVE  PermIInv'
<1> DEFINE e == Head(wire)
<1>1. /\ Received("list") /\ e \in Events /\ e.kind = "list" /\ wire' = Tail(wire) /\ srv' = srv
      /\ Tail(wire) \in Seq(Events) /\ srv \in Guild /\ db \in Guild /\ changes' = changes /\ sessions' = sessions
      /\ wire \in Seq(Events) /\ wire # <<>> /\ e = wire[1] /\ 1 \in 1..Len(wire)
  BY ReceivedQueue DEF OnGuildMemberListUpdate
<1>2. e.mine \in SUBSET Roles
  BY <1>1, EventFields
<1> HIDE DEF e
<1>3. db' \in Guild /\ db'.mine = e.mine /\ db'.over = db.over /\ db'.roles = db.roles
  BY <1>1, <1>2, GuildSaved DEF OnGuildMemberListUpdate, e
<1>4. UNCHANGED <<cache, open, enabled, hushed>>
  BY DEF OnGuildMemberListUpdate, screen
<1>5. Order'
  <2>1. e \in MineTelling /\ MineTold[e] = e.mine
    BY <1>1 DEF MineTelling, MineTold
  <2>2. /\ \A r \in Roles \cup {Everyone} : e \notin RoleTelling(r)
        /\ \A c \in Channels : e \notin ChannelTelling(c)
    BY <1>1 DEF RoleTelling, ChannelTelling
  <2> QED
    BY <1>1, <1>3, <2>1, <2>2, OrderHandled DEF e
<1>6. StaleNotForLong'
  <2>1. \A i \in 1..Len(wire') : wire'[i] = wire[i + 1] /\ i + 1 \in 1..Len(wire)
    BY <1>1
  <2>2. \A i \in 2..Len(wire) : i - 1 \in DOMAIN wire' /\ wire'[i - 1] = wire[i]
    BY <1>1
  <2>3. CASE \E j \in 2..Len(wire) : wire[j].kind = "member"
    BY <2>2, <2>3 DEF StaleNotForLong
  <2>4. CASE e.mine = db.mine
    <3>1. ASSUME NEW c \in Channels, Exists(srv, c), cache[c] \notin {Absent, Computed(db', c)}
          PROVE  \E i \in DOMAIN wire' : wire'[i].kind \in {"member", "ready"}
      <4>1. Computed(db', c) = Computed(db, c)
        BY <1>3, <2>4, ComputedSame
      <4>2. PICK i \in DOMAIN wire : wire[i].kind \in {"member", "ready"}
        BY <3>1, <4>1 DEF PermIInv, Kept, StaleNotForLong
      <4>3. i \in 2..Len(wire)
        BY <1>1, <4>2
      <4> QED
        BY <2>2, <4>2, <4>3
    <3> QED
      BY <1>1, <1>4, <3>1 DEF StaleNotForLong
  <2> QED
    BY <1>1, <2>3, <2>4 DEF PermIInv, Order, ListBacked
<1>7. Kept'
  <2>1. NotAsked'
    BY <1>1, <1>3, <1>4 DEF PermIInv, Kept, NotAsked
  <2>2. ComposerFollows'
    BY <1>4 DEF PermIInv, Kept, ComposerFollows
  <2> QED
    BY <1>6, <2>1, <2>2 DEF Kept
<1>8. PermTypeOK'
  BY <1>1, <1>3, <1>4 DEF PermIInv, PermTypeOK
<1> QED
  BY <1>5, <1>7, <1>8 DEF PermIInv

\* An answer that is stale for another reason than the handled event stays announced.
LEMMA StillAnnounced ==
  ASSUME PermIInv, NEW kind, Received(kind), kind \notin {"member", "ready"},
         NEW c \in Channels, Exists(srv, c), cache[c] \notin {Absent, Computed(db, c)}
  PROVE  \E i \in DOMAIN wire' : wire'[i].kind \in {"member", "ready"}
<1>1. /\ wire \in Seq(Events) /\ wire # <<>> /\ wire' = Tail(wire) /\ wire[1].kind = kind
  BY ReceivedQueue
<1>2. PICK i \in DOMAIN wire : wire[i].kind \in {"member", "ready"}
  BY DEF PermIInv, Kept, StaleNotForLong
<1>3. i - 1 \in DOMAIN wire' /\ wire'[i - 1] = wire[i]
  BY <1>1, <1>2
<1> QED
  BY <1>2, <1>3

\* CHANNEL events: a channel that is created has not been asked for.
LEMMA ChannelStep ==
  ASSUME PermIInv, OnChannel
  PROVE  PermIInv'
<1> DEFINE e == Head(wire)
<1> DEFINE k == e.channel
<1>1. /\ Received("channel") /\ e \in Events /\ e.kind = "channel" /\ wire' = Tail(wire) /\ srv' = srv
      /\ Tail(wire) \in Seq(Events) /\ srv \in Guild /\ db \in Guild /\ changes' = changes /\ sessions' = sessions
      /\ e = wire[1] /\ 1 \in 1..Len(wire)
  BY ReceivedQueue DEF OnChannel
<1>2. k \in Channels /\ k = e.channel /\ e.over \in Overwrites \cup {Gone} /\ e.over # NotYet
  BY <1>1, EventFields, PermAssumption
<1>0. IF db.over[k] = NotYet THEN UNCHANGED <<cache, screen>> ELSE InvalidateChannel(db', k)
  BY DEF OnChannel
<1>3. /\ db' \in Guild /\ db'.mine = db.mine /\ db'.roles = db.roles
      /\ db'.over = [db.over EXCEPT ![k] = e.over]
  <2>1. db' = [db EXCEPT !.over[k] = e.over]
    BY DEF OnChannel
  <2> HIDE DEF k, e
  <2>2. \A c \in Channels, o \in Overwrites \cup {Gone} :
          LET h == [db EXCEPT !.over[c] = o] IN
            h \in Guild /\ h.mine = db.mine /\ h.roles = db.roles /\ h.over = [db.over EXCEPT ![c] = o]
    BY <1>1, GuildSaved
  <2> QED
    BY <1>2, <2>1, <2>2
<1> HIDE DEF k, e
<1>4. db'.over[k] = e.over /\ \A c \in Channels \ {k} : db'.over[c] = db.over[c]
  BY <1>1, <1>2, <1>3, GuildFields
<1>5. Order'
  <2>1. /\ \A r \in Roles \cup {Everyone} : e \notin RoleTelling(r)
        /\ e \notin MineTelling
    BY <1>1 DEF RoleTelling, MineTelling
  <2>2. ASSUME NEW c \in Channels
        PROVE  db'.over[c] = IF e \in ChannelTelling(c) THEN ChannelTold(c)[e] ELSE db.over[c]
    BY <1>1, <1>2, <1>4 DEF ChannelTelling, ChannelTold
  <2> QED
    BY <1>1, <1>3, <2>1, <2>2, OrderHandled DEF e
<1>6. srv.over[k] # NotYet
  <2>1. wire[1] \in ChannelTelling(k)
    BY <1>1, <1>2 DEF ChannelTelling
  <2> QED
    BY <1>1, <1>2, <2>1 DEF PermIInv, Order, Created
<1>7. ASSUME NEW c \in Channels \ {k}, Exists(srv, c), cache[c] \notin {Absent, Computed(db', c)}
      PROVE  \E i \in DOMAIN wire' : wire'[i].kind \in {"member", "ready"}
  <2>1. Computed(db', c) = Computed(db, c)
    BY <1>3, <1>4, ComputedSame
  <2> QED
    BY <1>1, <1>7, <2>1, StillAnnounced
<1>8. /\ cache' \in [Channels -> {Absent} \cup SUBSET Perms] /\ open' = open
      /\ enabled' \in BOOLEAN /\ hushed' \in BOOLEAN /\ ComposerFollows'
      /\ cache'[k] \in {Absent, Computed(db', k)}
      /\ \A c \in Channels \ {k} : cache'[c] = cache[c]
  <2>1. CASE db.over[k] = NotYet
    <3>1. UNCHANGED <<cache, open, enabled, hushed>>
      BY <1>0, <2>1 DEF screen
    <3>2. cache[k] = Absent
      BY <1>2, <2>1 DEF PermIInv, Kept, NotAsked
    <3>3. ComposerFollows'
      BY <3>1 DEF PermIInv, Kept, ComposerFollows
    <3> QED
      BY <3>1, <3>2, <3>3 DEF PermIInv, PermTypeOK
  <2>2. CASE db.over[k] # NotYet
    <3>1. InvalidateChannel(db', k)
      BY <1>0, <2>2
    <3> QED
      BY <1>2, <1>3, <3>1, ChannelInvalidated DEF PermIInv
  <2> QED
    BY <2>1, <2>2
<1>9. Kept'
  <2>1. StaleNotForLong'
    BY <1>1, <1>7, <1>8 DEF StaleNotForLong
  <2>2. NotAsked'
    <3>1. \A c \in Channels : /\ srv.over[c] = NotYet => db'.over[c] = NotYet
                              /\ db'.over[c] = NotYet => cache'[c] = Absent
                              /\ db'.over[c] = Gone => cache'[c] \in {Absent, {}}
      BY <1>2, <1>4, <1>6, <1>8 DEF PermIInv, Kept, NotAsked, Computed, Exists
    <3>2. open # Nowhere => open \in Channels /\ db.over[open] # NotYet
      BY DEF PermIInv, PermTypeOK, Kept, NotAsked
    <3> QED
      BY <1>1, <1>2, <1>4, <1>8, <3>1, <3>2 DEF NotAsked
  <2> QED
    BY <1>8, <2>1, <2>2 DEF Kept
<1>10. PermTypeOK'
  BY <1>1, <1>3, <1>8 DEF PermIInv, PermTypeOK
<1> QED
  BY <1>5, <1>9, <1>10 DEF PermIInv

\* READY: every channel it names is computed anew, the others have not been asked for or are gone.
LEMMA ReadyStep ==
  ASSUME PermIInv, OnReady
  PROVE  PermIInv'
<1> DEFINE e == Head(wire)
<1> DEFINE g == e.guild
<1>1. /\ Received("ready") /\ e \in Events /\ e.kind = "ready" /\ wire' = Tail(wire) /\ srv' = srv
      /\ Tail(wire) \in Seq(Events) /\ srv \in Guild /\ db \in Guild /\ changes' = changes /\ sessions' = sessions
      /\ e = wire[1] /\ 1 \in 1..Len(wire)
  BY ReceivedQueue DEF OnReady
<1>2. g \in Guild
  BY <1>1, EventFields
<1>3. /\ cache' = Precomputed(g) /\ hushed' = TRUE /\ open' = open /\ enabled' = enabled
      /\ db' = [g EXCEPT !.over = [c \in Channels |-> IF Exists(g, c) THEN g.over[c] ELSE db.over[c]]]
  BY DEF OnReady
<1> HIDE DEF e
<1>4. /\ db' \in Guild /\ db'.mine = g.mine /\ db'.roles = g.roles
      /\ \A c \in Channels : db'.over[c] = IF Exists(g, c) THEN g.over[c] ELSE db.over[c]
  <2> DEFINE f == [c \in Channels |-> IF Exists(g, c) THEN g.over[c] ELSE db.over[c]]
  <2>1. f \in [Channels -> Overwrites \cup {NotYet, Gone}]
    BY <1>1, <1>2, GuildFields
  <2>2. db' = [g EXCEPT !.over = f]
    BY <1>3
  <2>3. \A c \in Channels : f[c] = IF Exists(g, c) THEN g.over[c] ELSE db.over[c]
    OBVIOUS
  <2> HIDE DEF f, g
  <2>4. db' \in Guild /\ db'.mine = g.mine /\ db'.roles = g.roles /\ db'.over = f
    BY <1>2, <2>1, <2>2, GuildSaved
  <2> QED
    BY <2>3, <2>4
<1>5. \A c \in Channels : cache'[c] = IF Exists(g, c) THEN Computed(g, c) ELSE cache[c]
  BY <1>3 DEF Precomputed
<1>6. Order'
  <2>1. \A r \in Roles \cup {Everyone} : e \in RoleTelling(r) /\ RoleTold(r)[e] = g.roles[r]
    BY <1>1 DEF RoleTelling, RoleTold
  <2>2. e \in MineTelling /\ MineTold[e] = g.mine
    BY <1>1 DEF MineTelling, MineTold
  <2>3. ASSUME NEW c \in Channels
        PROVE  db'.over[c] = IF e \in ChannelTelling(c) THEN ChannelTold(c)[e] ELSE db.over[c]
    BY <1>1, <1>4 DEF ChannelTelling, ChannelTold
  <2> QED
    BY <1>1, <1>4, <2>1, <2>2, <2>3, OrderHandled DEF e
<1>7. \A c \in Channels : Exists(srv, c) /\ ~Exists(g, c) => db.over[c] = NotYet
  BY <1>1 DEF PermIInv, Order, ReadyFirst
<1>8. \A c \in Channels : Exists(g, c) => srv.over[c] # NotYet
  <2>1. \A c \in Channels : Exists(g, c) => wire[1] \in ChannelTelling(c)
    BY <1>1 DEF ChannelTelling
  <2> QED
    BY <1>1, <2>1 DEF PermIInv, Order, Created
<1>9. Kept'
  <2>1. StaleNotForLong'
    <3>1. ASSUME NEW c \in Channels, Exists(srv, c) PROVE cache'[c] \in {Absent, Computed(db', c)}
      <4>1. CASE Exists(g, c)
        <5>1. Computed(db', c) = Computed(g, c)
          BY <1>4, <4>1, ComputedSame
        <5> QED
          BY <1>5, <4>1, <5>1
      <4>2. CASE ~Exists(g, c)
        BY <1>5, <1>7, <3>1, <4>2 DEF PermIInv, Kept, NotAsked
      <4> QED
        BY <4>1, <4>2
    <3> QED
      BY <1>1, <3>1, NothingStale
  <2>2. NotAsked'
    <3>1. ASSUME NEW c \in Channels, db'.over[c] = NotYet PROVE db.over[c] = NotYet /\ cache'[c] = Absent
      BY <1>4, <1>5, <3>1 DEF PermIInv, Kept, NotAsked, Exists
    <3>2. ASSUME NEW c \in Channels, srv.over[c] = NotYet PROVE db'.over[c] = NotYet
      BY <1>4, <1>8, <3>2 DEF PermIInv, Kept, NotAsked
    <3>3. open # Nowhere => open \in Channels
      BY DEF PermIInv, PermTypeOK
    <3>4. ASSUME NEW c \in Channels, db'.over[c] = Gone PROVE cache'[c] \in {Absent, {}}
      BY <1>4, <1>5, <3>4 DEF PermIInv, Kept, NotAsked, Exists
    <3> QED
      BY <1>1, <1>3, <3>1, <3>2, <3>3, <3>4 DEF PermIInv, Kept, NotAsked
  <2>3. ComposerFollows'
    BY <1>3 DEF ComposerFollows
  <2> QED
    BY <2>1, <2>2, <2>3 DEF Kept
<1>10. PermTypeOK'
  <2>1. cache' \in [Channels -> {Absent} \cup SUBSET Perms]
    BY <1>2, <1>3, ComputedType DEF PermIInv, PermTypeOK, Precomputed
  <2> QED
    BY <1>1, <1>3, <1>4, <2>1 DEF PermIInv, PermTypeOK
<1> QED
  BY <1>6, <1>9, <1>10 DEF PermIInv

-----------------------------------------------------------------------------
(* The user interface.                                                      *)

\* What is asked is computed from the rows or was there before.
LEMMA ShownStep ==
  ASSUME PermIInv, UNCHANGED <<srv, wire, db, bounds>>,
         cache' \in [Channels -> {Absent} \cup SUBSET Perms],
         \A c \in Channels : cache'[c] \in {Absent, cache[c], Computed(db, c)},
         \A c \in Channels : db.over[c] = NotYet => cache'[c] = Absent,
         open' \in Channels \cup {Nowhere}, open' # Nowhere => db.over[open'] # NotYet,
         enabled' \in BOOLEAN, hushed' \in BOOLEAN, ComposerFollows'
  PROVE  PermIInv'
<1>1. Order'
  BY DEF PermIInv, Order, AllKnown, ListBacked, ReadyFirst, Created, Known
<1>2. StaleNotForLong'
  BY DEF PermIInv, Kept, StaleNotForLong
<1>3. NotAsked'
  BY DEF PermIInv, Kept, NotAsked, Computed, Exists
<1>4. PermTypeOK'
  BY DEF PermIInv, PermTypeOK, bounds
<1> QED
  BY <1>1, <1>2, <1>3, <1>4 DEF PermIInv, Kept

\* A question and its answer.
LEMMA ChannelAnswered ==
  ASSUME PermIInv, NEW c \in Channels
  PROVE  /\ Answer(db, cache, c) \in SUBSET Perms /\ Answer(db, cache, c) # Absent
         /\ Answer(db, cache, c) \in {cache[c], Computed(db, c)}
         /\ cache[c] # Absent => Answer(db, cache, c) = cache[c]
         /\ LET asked == [cache EXCEPT ![c] = Answer(db, cache, c)] IN
              /\ asked \in [Channels -> {Absent} \cup SUBSET Perms]
              /\ asked[c] = Answer(db, cache, c) /\ \A x \in Channels \ {c} : asked[x] = cache[x]
<1>1. Computed(db, c) \in SUBSET Perms /\ Computed(db, c) # Absent
  BY ComputedType DEF PermIInv, PermTypeOK
<1>2. cache \in [Channels -> {Absent} \cup SUBSET Perms]
  BY DEF PermIInv, PermTypeOK
<1>3. /\ Answer(db, cache, c) \in SUBSET Perms /\ Answer(db, cache, c) # Absent
      /\ Answer(db, cache, c) \in {cache[c], Computed(db, c)}
      /\ cache[c] # Absent => Answer(db, cache, c) = cache[c]
  BY <1>1, <1>2 DEF Answer
<1> QED
  BY <1>2, <1>3

LEMMA AskStep ==
  ASSUME PermIInv, NEW c \in Channels, Ask(c)
  PROVE  PermIInv'
<1>1. /\ db.over[c] # NotYet /\ cache' = [cache EXCEPT ![c] = Answer(db, cache, c)]
      /\ UNCHANGED <<srv, wire, db, bounds>> /\ UNCHANGED <<open, enabled, hushed>>
  BY DEF Ask, screen
<1>2. /\ cache' \in [Channels -> {Absent} \cup SUBSET Perms] /\ cache'[c] \in {cache[c], Computed(db, c)}
      /\ cache[c] # Absent => cache'[c] = cache[c]
      /\ db.over[c] # NotYet /\ \A x \in Channels \ {c} : cache'[x] = cache[x]
  BY <1>1, ChannelAnswered
<1>3. ComposerFollows'
  <2>1. open # Nowhere /\ cache[open] # Absent => cache'[open] = cache[open]
    BY <1>2 DEF PermIInv, PermTypeOK
  <2> QED
    BY <1>1, <2>1 DEF PermIInv, Kept, ComposerFollows
<1>4. \A x \in Channels : db.over[x] = NotYet => cache'[x] = Absent
  BY <1>2 DEF PermIInv, Kept, NotAsked
<1>5. /\ open' \in Channels \cup {Nowhere} /\ (open' # Nowhere => db.over[open'] # NotYet)
      /\ enabled' \in BOOLEAN /\ hushed' \in BOOLEAN
  BY <1>1 DEF PermIInv, PermTypeOK, Kept, NotAsked
<1>6. \A x \in Channels : cache'[x] \in {Absent, cache[x], Computed(db, x)}
  BY <1>2
<1> QED
  BY <1>1, <1>2, <1>3, <1>4, <1>5, <1>6, ShownStep

\* The limit drops answers only.
LEMMA EvictStep ==
  ASSUME PermIInv, NEW c \in Channels, Evict(c)
  PROVE  PermIInv'
<1>1. /\ cache' = [cache EXCEPT ![c] = Absent] /\ hushed' = (hushed \/ c = open)
      /\ UNCHANGED <<srv, wire, db, bounds>> /\ UNCHANGED <<open, enabled>>
  BY DEF Evict
<1>2. /\ cache' \in [Channels -> {Absent} \cup SUBSET Perms] /\ cache'[c] = Absent
      /\ \A x \in Channels \ {c} : cache'[x] = cache[x]
  BY <1>1 DEF PermIInv, PermTypeOK
<1>3. ComposerFollows'
  <2>1. open # Nowhere /\ ~hushed' => cache'[open] = cache[open] /\ ~hushed
    BY <1>1, <1>2 DEF PermIInv, PermTypeOK
  <2> QED
    BY <1>1, <2>1 DEF PermIInv, Kept, ComposerFollows
<1>4. \A x \in Channels : db.over[x] = NotYet => cache'[x] = Absent
  BY <1>2 DEF PermIInv, Kept, NotAsked
<1>5. /\ open' \in Channels \cup {Nowhere} /\ (open' # Nowhere => db.over[open'] # NotYet)
      /\ enabled' \in BOOLEAN
  BY <1>1 DEF PermIInv, PermTypeOK, Kept, NotAsked
<1>6. hushed' \in BOOLEAN
  BY <1>1 DEF PermIInv, PermTypeOK
<1>7. \A x \in Channels : cache'[x] \in {Absent, cache[x], Computed(db, x)}
  BY <1>2
<1> QED
  BY <1>1, <1>2, <1>3, <1>4, <1>5, <1>6, <1>7, ShownStep

LEMMA SelectStep ==
  ASSUME PermIInv, NEW c \in Channels, SelectChannel(c)
  PROVE  PermIInv'
<1>1. /\ Exists(db, c) /\ cache' = [cache EXCEPT ![c] = Answer(db, cache, c)]
      /\ UNCHANGED <<srv, wire, db, bounds>>
      /\ open' = c /\ enabled' = (Send \in Answer(db, cache, c)) /\ hushed' = FALSE
  BY DEF SelectChannel
<1>2. /\ cache' \in [Channels -> {Absent} \cup SUBSET Perms] /\ cache'[c] \in {cache[c], Computed(db, c)}
      /\ cache'[c] = Answer(db, cache, c) /\ cache'[c] # Absent
      /\ db.over[c] # NotYet /\ \A x \in Channels \ {c} : cache'[x] = cache[x]
  BY <1>1, ChannelAnswered DEF Exists
<1>3. ComposerFollows'
  BY <1>1, <1>2 DEF ComposerFollows
<1>4. \A x \in Channels : db.over[x] = NotYet => cache'[x] = Absent
  BY <1>2 DEF PermIInv, Kept, NotAsked
<1>5. /\ open' \in Channels \cup {Nowhere} /\ (open' # Nowhere => db.over[open'] # NotYet)
      /\ hushed' \in BOOLEAN
  BY <1>1, <1>2
<1>6. enabled' \in BOOLEAN
  <2>1. CASE Send \in Answer(db, cache, c)
    BY <1>1, <2>1
  <2>2. CASE Send \notin Answer(db, cache, c)
    BY <1>1, <2>2
  <2> QED
    BY <2>1, <2>2
<1>7. \A x \in Channels : cache'[x] \in {Absent, cache[x], Computed(db, x)}
  BY <1>2
<1> QED
  BY <1>1, <1>2, <1>3, <1>4, <1>5, <1>6, <1>7, ShownStep

-----------------------------------------------------------------------------
(* The server.                                                              *)

\* What the server does leaves the client as it is, and its events behind those under way.
LEMMA ServerStep ==
  ASSUME PermIInv, srv' \in Guild, wire' \in Seq(Events), UNCHANGED <<db, cache, screen>>,
         changes' \in 0..MaxChanges, sessions' \in 0..MaxSessions, Order',
         \A c \in Channels : Exists(srv', c) => Exists(srv, c) \/ cache[c] = Absent,
         (\E i \in DOMAIN wire : wire[i].kind \in {"member", "ready"}) =>
           \E i \in DOMAIN wire' : wire'[i].kind \in {"member", "ready"},
         \A c \in Channels : srv'.over[c] = NotYet => srv.over[c] = NotYet
  PROVE  PermIInv'
<1>1. UNCHANGED <<db, cache, open, enabled, hushed>>
  BY DEF screen
<1>2. StaleNotForLong'
  BY <1>1 DEF PermIInv, Kept, StaleNotForLong
<1>3. NotAsked'
  BY <1>1 DEF PermIInv, Kept, NotAsked
<1>4. ComposerFollows'
  BY <1>1 DEF PermIInv, Kept, ComposerFollows
<1>5. PermTypeOK'
  BY <1>1 DEF PermIInv, PermTypeOK
<1> QED
  BY <1>2, <1>3, <1>4, <1>5 DEF PermIInv, Kept

\* Events come behind what is under way.
LEMMA TellOne ==
  ASSUME PermIInv, NEW e \in Events, Tell(<<e>>)
  PROVE  /\ wire' = Append(wire, e) /\ wire' \in Seq(Events)
         /\ UNCHANGED <<db, cache, screen>> /\ changes' \in 0..MaxChanges /\ sessions' \in 0..MaxSessions
         /\ (\E i \in DOMAIN wire : wire[i].kind \in {"member", "ready"}) =>
              \E i \in DOMAIN wire' : wire'[i].kind \in {"member", "ready"}
<1>1. wire \in Seq(Events) /\ wire' = wire \o <<e>>
  BY DEF PermIInv, PermTypeOK, Tell
<1>2. wire' = Append(wire, e)
  BY <1>1
<1>3. wire' \in Seq(Events) /\ \A i \in DOMAIN wire : i \in DOMAIN wire' /\ wire'[i] = wire[i]
  BY <1>1, <1>2
<1>4. changes' \in 0..MaxChanges /\ sessions' \in 0..MaxSessions
  BY PermAssumption DEF PermIInv, PermTypeOK, Tell
<1> QED
  BY <1>2, <1>3, <1>4 DEF Tell

LEMMA TellTwo ==
  ASSUME PermIInv, NEW e \in Events, NEW f \in Events, Tell(<<e, f>>)
  PROVE  /\ wire' = Append(Append(wire, e), f) /\ wire' \in Seq(Events) /\ Append(wire, e) \in Seq(Events)
         /\ UNCHANGED <<db, cache, screen>> /\ changes' \in 0..MaxChanges /\ sessions' \in 0..MaxSessions
         /\ (\E i \in DOMAIN wire : wire[i].kind \in {"member", "ready"}) =>
              \E i \in DOMAIN wire' : wire'[i].kind \in {"member", "ready"}
<1>1. wire \in Seq(Events) /\ wire' = wire \o <<e, f>>
  BY DEF PermIInv, PermTypeOK, Tell
<1>2. wire' = Append(Append(wire, e), f)
  BY <1>1
<1>3. /\ wire' \in Seq(Events) /\ Append(wire, e) \in Seq(Events)
      /\ \A i \in DOMAIN wire : i \in DOMAIN wire' /\ wire'[i] = wire[i]
  BY <1>1, <1>2
<1>4. changes' \in 0..MaxChanges /\ sessions' \in 0..MaxSessions
  BY PermAssumption DEF PermIInv, PermTypeOK, Tell
<1> QED
  BY <1>2, <1>3, <1>4 DEF Tell

\* The events the server makes.
LEMMA EventKinds ==
  /\ \A r \in Roles \cup {Everyone}, g \in Grants : [kind |-> "role", role |-> r, grants |-> g] \in Events
  /\ \A c \in Channels, o \in Overwrites \cup {Gone} : [kind |-> "channel", channel |-> c, over |-> o] \in Events
  /\ \A m \in SUBSET Roles : MemberEvent("member", m) \in Events /\ MemberEvent("list", m) \in Events
  /\ \A g \in Guild : [kind |-> "ready", guild |-> g] \in Events
BY DEF Events, RoleEvents, ChannelEvents, MemberEvents, ReadyEvents, MemberEvent

\* What an event of a kind tells of.
LEMMA Tells ==
  /\ \A r \in Roles \cup {Everyone}, g \in Grants :
       LET e == [kind |-> "role", role |-> r, grants |-> g] IN
         /\ \A q \in Roles \cup {Everyone} : e \in RoleTelling(q) <=> q = r
         /\ RoleTold(r)[e] = g /\ e \notin MineTelling /\ \A c \in Channels : e \notin ChannelTelling(c)
  /\ \A k \in Channels, o \in Overwrites \cup {Gone} :
       LET e == [kind |-> "channel", channel |-> k, over |-> o] IN
         /\ \A c \in Channels : e \in ChannelTelling(c) <=> c = k
         /\ ChannelTold(k)[e] = o /\ e \notin MineTelling
         /\ \A q \in Roles \cup {Everyone} : e \notin RoleTelling(q)
  /\ \A m \in SUBSET Roles, kind \in {"member", "list"} :
       LET e == MemberEvent(kind, m) IN
         /\ e \in MineTelling /\ MineTold[e] = m /\ \A q \in Roles \cup {Everyone} : e \notin RoleTelling(q)
         /\ \A c \in Channels : e \notin ChannelTelling(c)
<1>1. ASSUME NEW r \in Roles \cup {Everyone}, NEW g \in Grants
      PROVE  LET e == [kind |-> "role", role |-> r, grants |-> g] IN
               /\ \A q \in Roles \cup {Everyone} : e \in RoleTelling(q) <=> q = r
               /\ RoleTold(r)[e] = g /\ e \notin MineTelling /\ \A c \in Channels : e \notin ChannelTelling(c)
  BY EventKinds DEF RoleTelling, RoleTold, MineTelling, ChannelTelling
<1>2. ASSUME NEW k \in Channels, NEW o \in Overwrites \cup {Gone}
      PROVE  LET e == [kind |-> "channel", channel |-> k, over |-> o] IN
               /\ \A c \in Channels : e \in ChannelTelling(c) <=> c = k
               /\ ChannelTold(k)[e] = o /\ e \notin MineTelling
               /\ \A q \in Roles \cup {Everyone} : e \notin RoleTelling(q)
  BY EventKinds DEF RoleTelling, MineTelling, ChannelTelling, ChannelTold
<1>3. ASSUME NEW m \in SUBSET Roles, NEW kind \in {"member", "list"}
      PROVE  LET e == MemberEvent(kind, m) IN
               /\ e \in MineTelling /\ MineTold[e] = m /\ \A q \in Roles \cup {Everyone} : e \notin RoleTelling(q)
               /\ \A c \in Channels : e \notin ChannelTelling(c)
  BY EventKinds DEF MemberEvent, RoleTelling, MineTelling, MineTold, ChannelTelling
<1> QED
  BY <1>1, <1>2, <1>3

\* A role is created or changed.
LEMMA SrvRoleStep ==
  ASSUME PermIInv, NEW r \in Roles \cup {Everyone}, NEW g \in Grants, SrvRole(r, g)
  PROVE  PermIInv'
<1> DEFINE e == [kind |-> "role", role |-> r, grants |-> g]
<1>1. e \in Events /\ e.kind = "role" /\ Tell(<<e>>) /\ srv \in Guild /\ db \in Guild /\ wire \in Seq(Events)
  BY EventKinds DEF SrvRole, PermIInv, PermTypeOK
<1>2. /\ srv' \in Guild /\ srv'.mine = srv.mine /\ srv'.over = srv.over
      /\ srv'.roles = [srv.roles EXCEPT ![r] = g]
  BY <1>1, GuildSaved DEF SrvRole
<1>3. /\ \A q \in Roles \cup {Everyone} : e \in RoleTelling(q) <=> q = r
      /\ RoleTold(r)[e] = g /\ e \notin MineTelling /\ \A c \in Channels : e \notin ChannelTelling(c)
  BY Tells
<1> HIDE DEF e
<1>4. /\ wire' = Append(wire, e) /\ wire' \in Seq(Events) /\ UNCHANGED <<db, cache, screen>>
      /\ changes' \in 0..MaxChanges /\ sessions' \in 0..MaxSessions
      /\ (\E i \in DOMAIN wire : wire[i].kind \in {"member", "ready"}) =>
           \E i \in DOMAIN wire' : wire'[i].kind \in {"member", "ready"}
  BY <1>1, TellOne
<1>5. \A q \in Roles \cup {Everyone} :
        srv'.roles[q] = IF e \in RoleTelling(q) THEN RoleTold(q)[e] ELSE srv.roles[q]
  BY <1>1, <1>2, <1>3, GuildFields
<1>6. AllKnown(Append(wire, e), srv', db)
  BY <1>1, <1>2, <1>3, <1>5, OneMore DEF PermIInv, Order
<1>7. /\ ListBacked(Append(wire, e), db) /\ ReadyFirst(Append(wire, e), srv', db)
      /\ Created(Append(wire, e), srv')
  BY <1>1, <1>2, <1>3, BackedMore, ReadyMore, CreatedMore DEF PermIInv, Order, Exists
<1>8. Order'
  BY <1>4, <1>6, <1>7 DEF Order
<1> QED
  BY <1>2, <1>4, <1>8, ServerStep DEF Exists

\* A role is deleted: its own event comes first, then the user's membership.
LEMMA SrvRoleDeletedStep ==
  ASSUME PermIInv, NEW r \in Roles, SrvRoleDeleted(r)
  PROVE  PermIInv'
<1> DEFINE m == srv.mine \ {r}
<1> DEFINE e == [kind |-> "role", role |-> r, grants |-> {}]
<1> DEFINE f == MemberEvent("member", m)
<1> DEFINE s == [srv EXCEPT !.roles[r] = {}]
<1>1. /\ srv \in Guild /\ db \in Guild /\ wire \in Seq(Events) /\ m \in SUBSET Roles
      /\ {} \in Grants /\ r \in Roles \cup {Everyone}
  BY GuildFields, PermAssumption DEF PermIInv, PermTypeOK
<1>2. e \in Events /\ f \in Events /\ e.kind = "role" /\ f.kind = "member" /\ Tell(<<e, f>>)
  <2>1. e \in Events /\ f \in Events
    BY <1>1, EventKinds
  <2>2. e.kind = "role" /\ f.kind = "member"
    BY DEF MemberEvent
  <2>3. Tell(<<e, f>>)
    BY DEF SrvRoleDeleted
  <2> QED
    BY <2>1, <2>2, <2>3
<1>3. s \in Guild /\ s.mine = srv.mine /\ s.over = srv.over /\ s.roles = [srv.roles EXCEPT ![r] = {}]
  <2>1. \A q \in Roles \cup {Everyone}, v \in Grants :
          LET h == [srv EXCEPT !.roles[q] = v] IN
            /\ h \in Guild /\ h.mine = srv.mine /\ h.over = srv.over
            /\ h.roles = [srv.roles EXCEPT ![q] = v]
    BY <1>1, GuildSaved
  <2> QED
    BY <1>1, <2>1
<1>4. srv' = [s EXCEPT !.mine = m]
  BY <1>1 DEF SrvRoleDeleted, Guild
<1>5. /\ \A q \in Roles \cup {Everyone} : e \in RoleTelling(q) <=> q = r
      /\ RoleTold(r)[e] = {} /\ e \notin MineTelling /\ \A c \in Channels : e \notin ChannelTelling(c)
  BY <1>1, Tells
<1>6. /\ f \in MineTelling /\ MineTold[f] = m /\ \A q \in Roles \cup {Everyone} : f \notin RoleTelling(q)
      /\ \A c \in Channels : f \notin ChannelTelling(c)
  BY <1>1, Tells
<1> HIDE DEF e, f, s, m
<1>7. srv' \in Guild /\ srv'.mine = m /\ srv'.over = s.over /\ srv'.roles = s.roles
  BY <1>1, <1>3, <1>4, GuildSaved
<1>8. /\ wire' = Append(Append(wire, e), f) /\ wire' \in Seq(Events) /\ Append(wire, e) \in Seq(Events)
      /\ UNCHANGED <<db, cache, screen>> /\ changes' \in 0..MaxChanges /\ sessions' \in 0..MaxSessions
      /\ (\E i \in DOMAIN wire : wire[i].kind \in {"member", "ready"}) =>
           \E i \in DOMAIN wire' : wire'[i].kind \in {"member", "ready"}
  BY <1>2, TellTwo
<1>9. \A q \in Roles \cup {Everyone} : s.roles[q] = IF e \in RoleTelling(q) THEN RoleTold(q)[e] ELSE srv.roles[q]
  BY <1>1, <1>3, <1>5, GuildFields
<1>10. AllKnown(Append(wire, e), s, db)
  BY <1>1, <1>2, <1>3, <1>5, <1>9, OneMore DEF PermIInv, Order
<1>11. AllKnown(Append(Append(wire, e), f), srv', db)
  BY <1>1, <1>2, <1>3, <1>6, <1>7, <1>8, <1>10, OneMore
<1>12. ListBacked(Append(wire, e), db) /\ ReadyFirst(Append(wire, e), s, db) /\ Created(Append(wire, e), s)
  BY <1>1, <1>2, <1>3, <1>5, BackedMore, ReadyMore, CreatedMore DEF PermIInv, Order, Exists
<1>13. /\ ListBacked(Append(Append(wire, e), f), db) /\ ReadyFirst(Append(Append(wire, e), f), srv', db)
       /\ Created(Append(Append(wire, e), f), srv')
  <2>1. ListBacked(Append(Append(wire, e), f), db)
    BY <1>2, <1>8, <1>12, BackedMore
  <2>2. ReadyFirst(Append(Append(wire, e), f), srv', db)
    <3>1. \A c \in Channels : Exists(srv', c) => Exists(s, c)
      BY <1>7 DEF Exists
    <3> QED
      BY <1>2, <1>8, <1>12, <3>1, ReadyMore
  <2>3. Created(Append(Append(wire, e), f), srv')
    <3>1. \A c \in Channels : s.over[c] # NotYet \/ f \in ChannelTelling(c) => srv'.over[c] # NotYet
      BY <1>6, <1>7
    <3>2. f \in Events /\ Append(wire, e) \in Seq(Events) /\ Created(Append(wire, e), s)
      BY <1>2, <1>8, <1>12
    <3> QED
      BY <3>1, <3>2, CreatedMore
  <2> QED
    BY <2>1, <2>2, <2>3
<1>14. Order'
  BY <1>8, <1>11, <1>13 DEF Order
<1> QED
  BY <1>3, <1>7, <1>8, <1>14, ServerStep DEF Exists

\* The user's roles change: one event, or two that tell the same.
LEMMA SrvMemberStep ==
  ASSUME PermIInv, NEW m \in SUBSET Roles, SrvMember(m)
  PROVE  PermIInv'
<1> DEFINE e == MemberEvent("member", m)
<1> DEFINE f == MemberEvent("list", m)
<1>1. srv \in Guild /\ db \in Guild /\ wire \in Seq(Events)
  BY DEF PermIInv, PermTypeOK
<1>2. /\ e \in Events /\ f \in Events /\ e.kind = "member" /\ f.kind = "list" /\ e.mine = f.mine
      /\ Tell(<<e>>) \/ Tell(<<f, e>>) \/ Tell(<<e, f>>)
  BY EventKinds DEF SrvMember, MemberEvent
<1>3. srv' \in Guild /\ srv'.mine = m /\ srv'.over = srv.over /\ srv'.roles = srv.roles
  BY <1>1, GuildSaved DEF SrvMember
<1>4. \A h \in {e, f} :
        /\ h \in MineTelling /\ MineTold[h] = m /\ \A q \in Roles \cup {Everyone} : h \notin RoleTelling(q)
        /\ \A c \in Channels : h \notin ChannelTelling(c)
  BY Tells
<1> HIDE DEF e, f
<1>5. ASSUME NEW h \in {e, f}
      PROVE  /\ AllKnown(Append(wire, h), srv', db) /\ ReadyFirst(Append(wire, h), srv', db)
             /\ Created(Append(wire, h), srv') /\ Append(wire, h) \in Seq(Events)
  <2>1. h \in Events /\ h.kind # "ready"
    BY <1>2
  <2>2. AllKnown(Append(wire, h), srv', db)
    BY <1>1, <1>3, <1>4, <2>1, OneMore DEF PermIInv, Order
  <2> QED
    <3>1. \A c \in Channels : Exists(srv', c) => Exists(srv, c)
      BY <1>3 DEF Exists
    <3>2. ReadyFirst(Append(wire, h), srv', db)
      BY <1>1, <2>1, <3>1, ReadyMore DEF PermIInv, Order
    <3>3. Created(Append(wire, h), srv')
      <4>1. \A c \in Channels : srv.over[c] # NotYet \/ h \in ChannelTelling(c) => srv'.over[c] # NotYet
        BY <1>3, <1>4
      <4> QED
        BY <1>1, <2>1, <4>1, CreatedMore DEF PermIInv, Order
    <3> QED
      BY <1>1, <2>1, <2>2, <3>2, <3>3
<1>6. ASSUME NEW h \in {e, f}, NEW k \in {e, f}
      PROVE  /\ AllKnown(Append(Append(wire, h), k), srv', db)
             /\ ReadyFirst(Append(Append(wire, h), k), srv', db)
             /\ Created(Append(Append(wire, h), k), srv')
  <2>1. k \in Events /\ k.kind # "ready"
    BY <1>2
  <2>2. AllKnown(Append(Append(wire, h), k), srv', db)
    BY <1>1, <1>3, <1>4, <1>5, <2>1, OneMore
  <2> QED
    BY <1>1, <1>3, <1>4, <1>5, <2>1, <2>2, ReadyMore, CreatedMore DEF Exists
<1>7. \A c \in Channels : /\ Exists(srv', c) => Exists(srv, c)
                          /\ srv'.over[c] = NotYet => srv.over[c] = NotYet
  BY <1>3 DEF Exists
<1>8. CASE Tell(<<e>>)
  <2>1. ListBacked(Append(wire, e), db)
    BY <1>1, <1>2, BackedMore DEF PermIInv, Order
  <2>2. Order'
    BY <1>2, <1>5, <1>8, <2>1, TellOne DEF Order
  <2> QED
    BY <1>2, <1>3, <1>7, <1>8, <2>2, TellOne, ServerStep
<1>9. CASE Tell(<<f, e>>)
  <2>1. ListBacked(Append(Append(wire, f), e), db)
    BY <1>1, <1>2, BackedPair DEF PermIInv, Order
  <2>2. Order'
    BY <1>2, <1>6, <1>9, <2>1, TellTwo DEF Order
  <2> QED
    BY <1>2, <1>3, <1>7, <1>9, <2>2, TellTwo, ServerStep
<1>10. CASE Tell(<<e, f>>)
  <2>1. ListBacked(Append(Append(wire, e), f), db)
    BY <1>1, <1>2, BackedPair DEF PermIInv, Order
  <2>2. Order'
    BY <1>2, <1>6, <1>10, <2>1, TellTwo DEF Order
  <2> QED
    BY <1>2, <1>3, <1>7, <1>10, <2>2, TellTwo, ServerStep
<1> QED
  BY <1>2, <1>8, <1>9, <1>10

\* A channel is created, changed or deleted; a new one has not been asked for.
LEMMA SrvChannelStep ==
  ASSUME PermIInv, NEW k \in Channels, NEW o \in Overwrites \cup {Gone}, SrvChannel(k, o)
  PROVE  PermIInv'
<1> DEFINE e == [kind |-> "channel", channel |-> k, over |-> o]
<1>1. e \in Events /\ e.kind = "channel" /\ Tell(<<e>>) /\ srv \in Guild /\ db \in Guild /\ wire \in Seq(Events)
  BY EventKinds DEF SrvChannel, PermIInv, PermTypeOK
<1>2. /\ srv' \in Guild /\ srv'.mine = srv.mine /\ srv'.roles = srv.roles
      /\ srv'.over = [srv.over EXCEPT ![k] = o]
  <2>1. \A c \in Channels, v \in Overwrites \cup {Gone} :
          LET h == [srv EXCEPT !.over[c] = v] IN
            h \in Guild /\ h.mine = srv.mine /\ h.roles = srv.roles /\ h.over = [srv.over EXCEPT ![c] = v]
    BY <1>1, GuildSaved
  <2> QED
    BY <2>1 DEF SrvChannel
<1>3. /\ \A c \in Channels : e \in ChannelTelling(c) <=> c = k
      /\ ChannelTold(k)[e] = o /\ e \notin MineTelling /\ \A q \in Roles \cup {Everyone} : e \notin RoleTelling(q)
  BY Tells
<1> HIDE DEF e
<1>4. /\ wire' = Append(wire, e) /\ wire' \in Seq(Events) /\ UNCHANGED <<db, cache, screen>>
      /\ changes' \in 0..MaxChanges /\ sessions' \in 0..MaxSessions
      /\ (\E i \in DOMAIN wire : wire[i].kind \in {"member", "ready"}) =>
           \E i \in DOMAIN wire' : wire'[i].kind \in {"member", "ready"}
  BY <1>1, TellOne
<1>5. srv'.over[k] = o /\ \A c \in Channels \ {k} : srv'.over[c] = srv.over[c]
  BY <1>1, <1>2, GuildFields
<1>6. o # NotYet /\ srv.over[k] # Gone
  BY PermAssumption DEF SrvChannel
<1>7. AllKnown(Append(wire, e), srv', db)
  <2>1. \A c \in Channels : IF e \in ChannelTelling(c) THEN srv'.over[c] = ChannelTold(c)[e]
                                                      ELSE srv'.over[c] = srv.over[c]
    BY <1>3, <1>5
  <2>2. \A q \in Roles \cup {Everyone} :
          srv'.roles[q] = IF e \in RoleTelling(q) THEN RoleTold(q)[e] ELSE srv.roles[q]
    BY <1>2, <1>3
  <2>3. srv'.mine = IF e \in MineTelling THEN MineTold[e] ELSE srv.mine
    BY <1>2, <1>3
  <2> QED
    BY <1>1, <1>2, <2>1, <2>2, <2>3, OneMore DEF PermIInv, Order
<1>8. \A c \in Channels : Exists(srv', c) => Exists(srv, c) \/ (db.over[c] = NotYet /\ cache[c] = Absent)
  BY <1>5, <1>6 DEF PermIInv, Kept, NotAsked, Exists
<1>9. /\ ListBacked(Append(wire, e), db) /\ ReadyFirst(Append(wire, e), srv', db)
      /\ Created(Append(wire, e), srv')
  <2>1. ReadyFirst(Append(wire, e), srv', db)
    BY <1>1, <1>8, ReadyMore DEF PermIInv, Order
  <2>2. Created(Append(wire, e), srv')
    BY <1>1, <1>3, <1>5, <1>6, CreatedMore DEF PermIInv, Order
  <2> QED
    BY <1>1, <2>1, <2>2, BackedMore DEF PermIInv, Order
<1>10. Order'
  BY <1>4, <1>7, <1>9 DEF Order
<1>11. \A c \in Channels : srv'.over[c] = NotYet => srv.over[c] = NotYet
  BY <1>5, <1>6
<1> QED
  BY <1>2, <1>4, <1>8, <1>10, <1>11, ServerStep

\* READY alone tells of everything.
LEMMA ReadyKnown ==
  ASSUME NEW s \in Guild, NEW d \in Guild
  PROVE  LET w == <<[kind |-> "ready", guild |-> s]>> IN
           /\ w \in Seq(Events) /\ AllKnown(w, s, d) /\ ListBacked(w, d) /\ ReadyFirst(w, s, d) /\ Created(w, s)
<1> DEFINE e == [kind |-> "ready", guild |-> s]
<1> DEFINE w == <<e>>
<1>1. e \in Events /\ e.kind = "ready" /\ e.guild = s
  BY EventKinds
<1>2. w \in Seq(Events) /\ 1 \in 1..Len(w) /\ w[1] = e /\ \A i \in 1..Len(w) : i = 1
  BY <1>1
<1> HIDE DEF e, w
<1>3. \A r \in Roles \cup {Everyone} : e \in RoleTelling(r) /\ RoleTold(r)[e] = s.roles[r]
  BY <1>1 DEF RoleTelling, RoleTold
<1>4. e \in MineTelling /\ MineTold[e] = s.mine
  BY <1>1 DEF MineTelling, MineTold
<1>5. \A c \in Channels : (e \in ChannelTelling(c) <=> Exists(s, c)) /\ ChannelTold(c)[e] = s.over[c]
  BY <1>1 DEF ChannelTelling, ChannelTold
<1>6. AllKnown(w, s, d)
  BY <1>2, <1>3, <1>4, <1>5 DEF AllKnown, Known
<1>7. ListBacked(w, d) /\ ReadyFirst(w, s, d)
  BY <1>1, <1>2 DEF ListBacked, ReadyFirst
<1>8. Created(w, s)
  BY <1>2, <1>5 DEF Created, Exists
<1> QED
  BY <1>2, <1>6, <1>7, <1>8 DEF e, w

LEMMA SrvSessionStep ==
  ASSUME PermIInv, SrvSession
  PROVE  PermIInv'
<1>1. /\ srv' = srv /\ UNCHANGED <<db, cache, screen>> /\ srv \in Guild /\ db \in Guild
      /\ changes' \in 0..MaxChanges /\ sessions' \in 0..MaxSessions
      /\ wire' = <<[kind |-> "ready", guild |-> srv]>>
  BY PermAssumption DEF SrvSession, PermIInv, PermTypeOK
<1>2. wire' \in Seq(Events) /\ Order'
  BY <1>1, ReadyKnown DEF Order
<1>3. 1 \in DOMAIN wire' /\ wire'[1].kind \in {"member", "ready"}
  BY <1>1
<1> QED
  BY <1>1, <1>2, <1>3, ServerStep

-----------------------------------------------------------------------------
(* The theorems.                                                            *)

\* At the start nothing is cached, and READY is under way.
LEMMA PermIInvAtFirst == PermInit => PermIInv
<1> SUFFICES ASSUME PermInit PROVE PermIInv
  OBVIOUS
<1>1. PICK o \in [Channels -> {NotYet, Plain}] :
        srv = [roles |-> [r \in Roles \cup {Everyone} |-> IF r = Everyone THEN {Send} ELSE {}],
               mine |-> {}, over |-> o]
  BY DEF PermInit
<1>2. srv \in Guild /\ db = srv
  BY <1>1, PermAssumption DEF Guild, PermInit
<1>3. wire \in Seq(Events) /\ Order
  <2>1. wire = <<[kind |-> "ready", guild |-> srv]>>
    BY DEF PermInit
  <2> QED
    BY <1>2, <2>1, ReadyKnown DEF Order
<1>4. PermTypeOK
  <2>1. /\ cache = [c \in Channels |-> Absent] /\ open = Nowhere /\ enabled = FALSE /\ hushed = FALSE
        /\ changes = 0 /\ sessions = 0
    BY DEF PermInit
  <2>2. cache \in [Channels -> {Absent} \cup SUBSET Perms]
    BY <2>1
  <2>3. changes \in 0..MaxChanges /\ sessions \in 0..MaxSessions
    BY <2>1, PermAssumption
  <2> QED
    BY <1>2, <1>3, <2>1, <2>2, <2>3 DEF PermTypeOK
<1>5. Kept
  BY <1>2 DEF Kept, StaleNotForLong, NotAsked, ComposerFollows, PermInit
<1> QED
  BY <1>3, <1>4, <1>5 DEF PermIInv

\* Every step of the handlers, the user and the server keeps it.
LEMMA PermIInvKept == PermIInv /\ [PermNext]_permVars => PermIInv'
<1> SUFFICES ASSUME PermIInv, [PermNext]_permVars PROVE PermIInv'
  OBVIOUS
<1>1. CASE OnGuildRole
  BY <1>1, GuildRoleStep
<1>2. CASE OnGuildMemberUpdate
  BY <1>2, MemberUpdateStep
<1>3. CASE OnGuildMemberListUpdate
  BY <1>3, MemberListStep
<1>4. CASE OnChannel
  BY <1>4, ChannelStep
<1>5. CASE OnReady
  BY <1>5, ReadyStep
<1>6. CASE \E c \in Channels : Ask(c)
  BY <1>6, AskStep
<1>7. CASE \E c \in Channels : Evict(c)
  BY <1>7, EvictStep
<1>8. CASE \E c \in Channels : SelectChannel(c)
  BY <1>8, SelectStep
<1>9. CASE \E c \in Channels, o \in Overwrites \cup {Gone} : SrvChannel(c, o)
  BY <1>9, SrvChannelStep
<1>10. CASE \E r \in Roles \cup {Everyone}, g \in Grants : SrvRole(r, g)
  BY <1>10, SrvRoleStep
<1>11. CASE \E r \in Roles : SrvRoleDeleted(r)
  BY <1>11, SrvRoleDeletedStep
<1>12. CASE \E mine \in SUBSET Roles : SrvMember(mine)
  BY <1>12, SrvMemberStep
<1>13. CASE SrvSession
  BY <1>13, SrvSessionStep
<1>14. CASE UNCHANGED permVars
  <2>1. UNCHANGED <<srv, wire, db, cache, open, enabled, hushed, changes, sessions>>
    BY <1>14 DEF permVars
  <2>2. PermTypeOK' /\ Order'
    BY <2>1 DEF PermIInv, PermTypeOK, Order, AllKnown, Known, ListBacked, ReadyFirst, Created
  <2>3. Kept'
    BY <2>1 DEF PermIInv, Kept, StaleNotForLong, NotAsked, ComposerFollows
  <2> QED
    BY <2>2, <2>3 DEF PermIInv
<1> QED
  BY <1>1, <1>2, <1>3, <1>4, <1>5, <1>6, <1>7, <1>8, <1>9, <1>10, <1>11, <1>12, <1>13, <1>14
     DEF PermNext, GuildStep

\* The inductive invariant.
THEOREM PermInvariance == PermSpec => []PermIInv
BY PermIInvAtFirst, PermIInvKept, PTL DEF PermSpec

\* With no event under way the rows are the server's, and so are the answers and the composer.
LEMMA PermIInvSuffices == PermIInv => PermissionsHold
<1> SUFFICES ASSUME PermIInv PROVE PermissionsHold
  OBVIOUS
<1>1. ASSUME wire = <<>>, NEW c \in Channels, Exists(srv, c)
      PROVE  cache[c] \in {Absent, Computed(srv, c)}
  <2>1. Len(wire) = 0 /\ 1..Len(wire) = {} /\ DOMAIN wire = {}
    BY <1>1
  <2>2. srv \in Guild /\ db \in Guild
    BY DEF PermIInv, PermTypeOK
  <2>3. \A r \in Roles \cup {Everyone} : srv.roles[r] = db.roles[r]
    BY <2>1 DEF PermIInv, Order, AllKnown, Known
  <2>4. srv.roles = db.roles
    BY <2>2, <2>3, GuildFields
  <2>5. srv.mine = db.mine /\ srv.over[c] = db.over[c]
    BY <1>1, <2>1 DEF PermIInv, Order, AllKnown, Known
  <2>6. Computed(db, c) = Computed(srv, c)
    BY <2>4, <2>5, ComputedSame
  <2> QED
    BY <1>1, <2>1, <2>6 DEF PermIInv, Kept, StaleNotForLong
<1>2. QuietTrue
  BY <1>1 DEF QuietTrue
<1>3. ComposerTrue
  <2>1. open # Nowhere => open \in Channels
    BY DEF PermIInv, PermTypeOK
  <2> QED
    BY <1>1, <2>1 DEF ComposerTrue, PermIInv, Kept, ComposerFollows
<1> QED
  BY <1>2, <1>3 DEF PermissionsHold, PermIInv, Kept

\* Neither the cached permissions nor the composer stay behind the guild, whatever the order of
\* the events, the limit of the cache and the sessions.
THEOREM AnswersTrue == PermSpec => []PermissionsHold
BY PermInvariance, PermIInvSuffices, PTL

\* A step of the composition is a step of the guild or leaves it alone.
LEMMA ComposerStepsGuild == [ComposerNext]_composerVars => [PermNext]_permVars
BY DEF ComposerNext, composerVars, SendTyped, NewSession, PermNext

\* The composition of the two sides keeps what Permissions promises: the composer that
\* MainWindow enables is enabled where the server lets the user write.
THEOREM ComposerAnswers == ComposerSpec => []PermissionsHold
<1>1. ComposerSpec => PermSpec
  BY ComposerStepsGuild, PTL DEF ComposerSpec, ComposerInit, PermSpec
<1> QED
  BY <1>1, AnswersTrue, PTL

=============================================================================
