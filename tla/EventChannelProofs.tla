------------------------ MODULE EventChannelProofs -------------------------
(***************************************************************************)
(* The mailbox under the session's calls: theorems for every number of       *)
(* torrents, every payload and every bound.                                  *)
(***************************************************************************)
EXTENDS EventChannel, EventMailboxProofs

----------------------------------------------------------------------------
(* The specification.                                                        *)

\* A new session has an empty mailbox.
LEMMA InitEstablishes == Init => Inv
  BY EmptyMailboxInv DEF Init, Inv

\* Every call of the session on its mailbox keeps the invariant.
LEMMA NextPreserves == Inv /\ [Next]_vars => Inv'
<1> SUFFICES ASSUME MailboxInv(mailbox), [Next]_vars PROVE MailboxInv(mailbox')
  BY DEF Inv
<1>1. ASSUME NEW id \in Ids, Admit(id) PROVE MailboxInv(mailbox')
  BY <1>1, AddKeeps DEF Admit
<1>2. ASSUME NEW id \in Ids, Leave(id) PROVE MailboxInv(mailbox')
  BY <1>2, RetireKeeps DEF Leave
<1>3. ASSUME NEW id \in Ids, NEW json \in ErrorJson, PublishError(id, json)
      PROVE  MailboxInv(mailbox')
  <2>1. id \in DOMAIN mailbox.jobs /\ mailbox' = Critical(mailbox, id, Kind.error, json)
    BY <1>3 DEF PublishError, Live, LiveIds
  <2>2. Kind.error \in Kinds /\ json \in Json
    BY DEF Kind, Kinds, Json
  <2> QED
    BY <2>1, <2>2, CriticalKeeps
<1>4. ASSUME NEW id \in Ids, NEW json \in OneShotJson, PublishOnce(id, json)
      PROVE  MailboxInv(mailbox')
  <2>1. id \in DOMAIN mailbox.jobs /\ mailbox' = Critical(mailbox, id, KindOf[json], json)
    BY <1>4 DEF PublishOnce, Live, LiveIds
  <2>2. KindOf[json] \in Kinds /\ json \in Json
    BY KindOfAssumption DEF OneShotKinds, Kinds, Json
  <2> QED
    BY <2>1, <2>2, CriticalKeeps
<1>5. ASSUME NEW id \in Ids, NEW json \in StatusJson, PublishStatus(id, json)
      PROVE  MailboxInv(mailbox')
  BY <1>5, StatusKeeps DEF PublishStatus, Live, LiveIds
<1>6. ASSUME NextEventCritical PROVE MailboxInv(mailbox')
  BY <1>6, PopCriticalKeeps DEF NextEventCritical, FrontIsCritical
<1>7. ASSUME NEW id \in Ids, NextEventStatus(id) PROVE MailboxInv(mailbox')
  BY <1>7, PopStatusKeeps DEF NextEventStatus, StatusIds
<1>8. CASE UNCHANGED vars
  BY <1>8 DEF vars
<1> QED
  BY <1>1, <1>2, <1>3, <1>4, <1>5, <1>6, <1>7, <1>8 DEF Next, Publish, Consume

\* MailboxInv holds in every reachable state: the pointer, the counter and the
\* flags of EventMailbox stay consistent under every sequence of calls.
THEOREM InvHolds == Spec => []Inv
  BY InitEstablishes, NextPreserves, PTL DEF Spec

\* Mailbox and received event keep their types: next_event hands out only
\* payloads that a torrent published.
THEOREM TypeOKHolds == Spec => []TypeOK
<1>1. Init => TypeOK
  BY InitEstablishes DEF Init, TypeOK, Inv, MailboxInv
<1>2. TypeOK /\ Inv /\ Inv' /\ [Next]_vars => TypeOK'
  <2> SUFFICES ASSUME TypeOK, Inv, Inv', [Next]_vars
               PROVE  received' \in {<<>>} \cup (Ids \X (Json \cup StatusJson))
    BY DEF TypeOK, Inv, MailboxInv
  <2>1. CASE UNCHANGED received
    BY <2>1 DEF TypeOK
  <2>2. CASE NextEventCritical
    <3>1. Head(mailbox.critical) \in Entry
      BY <2>2 DEF NextEventCritical, FrontIsCritical, TypeOK, MailboxType
    <3> QED
      BY <2>2, <3>1 DEF NextEventCritical, critical, Entry
  <2>3. ASSUME NEW id \in Ids, NextEventStatus(id)
        PROVE  received' \in Ids \X (Json \cup StatusJson)
    <3>1. mailbox.jobs[id] \in Job /\ mailbox.jobs[id].status # NoStatus
      BY <2>3 DEF NextEventStatus, StatusIds, TypeOK, MailboxType
    <3>2. mailbox.jobs[id].status \in StatusJson
      BY <3>1 DEF Job
    <3> QED
      BY <2>3, <3>2 DEF NextEventStatus, jobs
  <2> QED
    BY <2>1, <2>2, <2>3 DEF Next, Publish, Consume, Admit, Leave, PublishError, PublishOnce,
       PublishStatus, vars
<1> QED
  BY <1>1, <1>2, InvHolds, PTL DEF Spec

\* The assertion of critical() never fails: the list holds at most nine
\* entries per admissible torrent, however slowly the consumer reads.
THEOREM CriticalBoundedHolds == Spec => []CriticalBounded
<1>1. Inv => CriticalBounded
  BY ReservationSuffices DEF Inv, CriticalBounded, critical
<1> QED
  BY <1>1, InvHolds, PTL

\* No error alert is counted on a freed entry or on another torrent's entry.
THEOREM LastErrorNotDanglingHolds == Spec => []LastErrorNotDangling
<1>1. Inv => LastErrorNotDangling
  BY DEF Inv, MailboxInv, LastErrorNotDangling
<1> QED
  BY <1>1, InvHolds, PTL

\* A status event never follows the torrent's terminal event.
THEOREM NoStatusAfterTerminalHolds == Spec => []NoStatusAfterTerminal
<1>1. Inv => NoStatusAfterTerminal
  BY DEF Inv, MailboxInv, NoStatusAfterTerminal
<1> QED
  BY <1>1, InvHolds, PTL

\* A removed torrent is remembered exactly until its last event is read.
THEOREM ForgottenWhenDrainedHolds == Spec => []ForgottenWhenDrained
<1>1. Inv => ForgottenWhenDrained
  BY DEF Inv, MailboxInv, ForgottenWhenDrained
<1> QED
  BY <1>1, InvHolds, PTL

============================================================================
