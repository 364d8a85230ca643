------------------------- MODULE SessionLanesProofs -------------------------
(***************************************************************************)
(* Theorems about SessionLanes: the invariant Inv is inductive, for every    *)
(* number of tasks, identifiers, layouts and calls, and what follows of it.  *)
(***************************************************************************)
EXTENDS SessionLanes, SequenceTheorems, TLAPS

Pcs      == {"idle", "checked", "queued", "begun", "entering", "calling", "waiting", "returned", "resumed"}
Outcomes == {"none", "ok", "failed", "cancelled", "shut_down"}

----------------------------------------------------------------------------
(* What a step does to the calls, field by field.                            *)

\* The call of c is replaced, and no other.
Replaced(c, new) ==
    /\ call' \in [Callers -> Call]
    /\ call'[c] = new
    /\ \A d \in Callers \ {c} : call'[d] = call[d]

\* The call of c goes on; it remains a call of the same operation.
Becomes(c, pc, executed, outcome, layout) ==
    /\ call' \in [Callers -> Call]
    /\ call'[c].pc = pc
    /\ call'[c].op = call[c].op
    /\ call'[c].id = call[c].id
    /\ call'[c].executed = executed
    /\ call'[c].outcome = outcome
    /\ call'[c].layout = layout
    /\ \A d \in Callers \ {c} : call'[d] = call[d]

\* The calls are where they were, but for cancellations, answers and wake-ups.
Unmoved ==
    /\ call' \in [Callers -> Call]
    /\ \A d \in Callers :
          /\ call'[d].pc = call[d].pc
          /\ call'[d].op = call[d].op
          /\ call'[d].id = call[d].id
          /\ call'[d].executed = call[d].executed
          /\ call'[d].outcome = call[d].outcome
          /\ call'[d].layout = call[d].layout

LEMMA ReplaceCall ==
    ASSUME TypeOK, NEW c \in Callers, NEW new \in Call, call' = [call EXCEPT ![c] = new]
    PROVE  Replaced(c, new)
  BY DEF TypeOK, Replaced

LEMMA MoveCall ==
    ASSUME TypeOK, NEW c \in Callers, NEW pc \in Pcs, call' = [call EXCEPT ![c].pc = pc]
    PROVE  Becomes(c, pc, call[c].executed, call[c].outcome, call[c].layout)
  <1> DEFINE new == [call[c] EXCEPT !.pc = pc]
  <1>1. call[c] \in Call
    BY DEF TypeOK
  <1>2. /\ new \in Call
        /\ new.pc = pc /\ new.op = call[c].op /\ new.id = call[c].id
        /\ new.executed = call[c].executed /\ new.outcome = call[c].outcome
        /\ new.layout = call[c].layout
    BY <1>1 DEF Call, Pcs
  <1>3. call' = [call EXCEPT ![c] = new]
    OBVIOUS
  <1> QED BY <1>2, <1>3, ReplaceCall DEF Replaced, Becomes

LEMMA EndCall ==
    ASSUME TypeOK, NEW c \in Callers, NEW pc \in Pcs, NEW outcome \in Outcomes,
           call' = [call EXCEPT ![c].pc = pc, ![c].outcome = outcome]
    PROVE  Becomes(c, pc, call[c].executed, outcome, call[c].layout)
  <1> DEFINE new == [call[c] EXCEPT !.pc = pc, !.outcome = outcome]
  <1>1. call[c] \in Call
    BY DEF TypeOK
  <1>2. /\ new \in Call
        /\ new.pc = pc /\ new.op = call[c].op /\ new.id = call[c].id
        /\ new.executed = call[c].executed /\ new.outcome = outcome
        /\ new.layout = call[c].layout
    BY <1>1 DEF Call, Pcs, Outcomes
  <1>3. call' = [call EXCEPT ![c] = new]
    BY DEF TypeOK
  <1> QED BY <1>2, <1>3, ReplaceCall DEF Replaced, Becomes

LEMMA ExecuteCall ==
    ASSUME TypeOK, NEW c \in Callers, NEW pc \in Pcs,
           call' = [call EXCEPT ![c].pc = pc, ![c].executed = TRUE]
    PROVE  Becomes(c, pc, TRUE, call[c].outcome, call[c].layout)
  <1> DEFINE new == [call[c] EXCEPT !.pc = pc, !.executed = TRUE]
  <1>1. call[c] \in Call
    BY DEF TypeOK
  <1>2. /\ new \in Call
        /\ new.pc = pc /\ new.op = call[c].op /\ new.id = call[c].id
        /\ new.executed = TRUE /\ new.outcome = call[c].outcome
        /\ new.layout = call[c].layout
    BY <1>1 DEF Call, Pcs
  <1>3. call' = [call EXCEPT ![c] = new]
    BY DEF TypeOK
  <1> QED BY <1>2, <1>3, ReplaceCall DEF Replaced, Becomes

LEMMA ReturnCall ==
    ASSUME TypeOK, NEW c \in Callers, NEW outcome \in Outcomes, NEW layout \in Layouts \cup {None},
           Returned(c, outcome, layout)
    PROVE  Becomes(c, "returned", TRUE, outcome, layout)
  <1> DEFINE old == [call[c] EXCEPT !.pc = "returned", !.executed = TRUE, !.outcome = outcome]
             mid == [old EXCEPT !.layout = layout]
             new == [mid EXCEPT !.answered = FALSE, !.interrupted = FALSE]
  <1>1. call[c] \in Call
    BY DEF TypeOK
  <1>2. /\ old \in Call
        /\ old.pc = "returned" /\ old.op = call[c].op /\ old.id = call[c].id
        /\ old.executed = TRUE /\ old.outcome = outcome
    BY <1>1 DEF Call, Outcomes
  <1>3. call' = [call EXCEPT ![c] = new]
    BY DEF TypeOK, Returned
  <1> HIDE DEF old
  <1>4. /\ mid \in Call
        /\ mid.pc = "returned" /\ mid.op = call[c].op /\ mid.id = call[c].id
        /\ mid.executed = TRUE /\ mid.outcome = outcome /\ mid.layout = layout
    BY <1>2 DEF Call
  <1> HIDE DEF mid
  <1>5. /\ new \in Call
        /\ new.pc = "returned" /\ new.op = call[c].op /\ new.id = call[c].id
        /\ new.executed = TRUE /\ new.outcome = outcome /\ new.layout = layout
    BY <1>4 DEF Call
  <1> HIDE DEF new
  <1> QED BY <1>3, <1>5, ReplaceCall DEF Replaced, Becomes

LEMMA MarkCall ==
    ASSUME TypeOK, NEW c \in Callers,
           \/ call' = [call EXCEPT ![c].cancelled = TRUE]
           \/ call' = [call EXCEPT ![c].answered = TRUE]
    PROVE  Unmoved
  <1>1. call[c] \in Call
    BY DEF TypeOK
  <1>2. ASSUME NEW new \in Call, call' = [call EXCEPT ![c] = new],
               new.pc = call[c].pc /\ new.op = call[c].op /\ new.id = call[c].id,
               new.executed = call[c].executed /\ new.outcome = call[c].outcome,
               new.layout = call[c].layout
        PROVE  Unmoved
    BY <1>2, ReplaceCall DEF Replaced, Unmoved
  <1>3. CASE call' = [call EXCEPT ![c].cancelled = TRUE]
    <2> DEFINE new == [call[c] EXCEPT !.cancelled = TRUE]
    <2>1. /\ new \in Call
          /\ new.pc = call[c].pc /\ new.op = call[c].op /\ new.id = call[c].id
          /\ new.executed = call[c].executed /\ new.outcome = call[c].outcome
          /\ new.layout = call[c].layout
      BY <1>1 DEF Call
    <2>2. call' = [call EXCEPT ![c] = new]
      BY <1>3
    <2> HIDE DEF new
    <2> QED BY <1>2, <2>1, <2>2
  <1>4. CASE call' = [call EXCEPT ![c].answered = TRUE]
    <2> DEFINE new == [call[c] EXCEPT !.answered = TRUE]
    <2>1. /\ new \in Call
          /\ new.pc = call[c].pc /\ new.op = call[c].op /\ new.id = call[c].id
          /\ new.executed = call[c].executed /\ new.outcome = call[c].outcome
          /\ new.layout = call[c].layout
      BY <1>1 DEF Call
    <2>2. call' = [call EXCEPT ![c] = new]
      BY <1>4
    <2> HIDE DEF new
    <2> QED BY <1>2, <2>1, <2>2
  <1> QED BY <1>3, <1>4

LEMMA WakeCalls ==
    ASSUME TypeOK, call' = Woken(call)
    PROVE  Unmoved
  <1> DEFINE new(c) == [call[c] EXCEPT !.interrupted = @ \/ call[c].pc = "waiting"]
  <1>1. ASSUME NEW c \in Callers
        PROVE  /\ new(c) \in Call
               /\ new(c).pc = call[c].pc /\ new(c).op = call[c].op /\ new(c).id = call[c].id
               /\ new(c).executed = call[c].executed /\ new(c).outcome = call[c].outcome
               /\ new(c).layout = call[c].layout
    <2>1. call[c] \in Call
      BY DEF TypeOK
    <2>2. (call[c].interrupted \/ call[c].pc = "waiting") \in BOOLEAN
      OBVIOUS
    <2> QED BY <2>1, <2>2 DEF Call
  <1>2. CASE storage
    <2>1. call' = [c \in Callers |-> new(c)]
      BY <1>2 DEF Woken
    <2> HIDE DEF new
    <2> QED BY <1>1, <2>1 DEF Unmoved
  <1>3. CASE ~storage
    BY <1>3 DEF Woken, Unmoved, TypeOK
  <1> QED BY <1>2, <1>3

----------------------------------------------------------------------------
(* The types.                                                                *)

Blocks == Callers \cup {"drain", "destroy"}

LEMMA LanesTyped ==
    ASSUME TypeOK, NEW m \in Blocks, NEW l \in Lanes,
           \/ lanes' = Enqueued(m, l)
           \/ lanes' = Popped(l) /\ lanes[l] # <<>>
           \/ lanes' = lanes
    PROVE  lanes' \in [Lanes -> Seq(Callers \cup {"drain", "destroy"})]
  <1>1. lanes \in [Lanes -> Seq(Blocks)]
    BY DEF TypeOK, Blocks
  <1>2. Append(lanes[l], m) \in Seq(Blocks)
    BY <1>1
  <1>3. lanes[l] # <<>> => Tail(lanes[l]) \in Seq(Blocks)
    BY <1>1
  <1> QED BY <1>1, <1>2, <1>3 DEF Enqueued, Popped, Blocks

LEMMA TablesTyped ==
    ASSUME NEW f, DOMAIN f \subseteq Ids, f \in [DOMAIN f -> Layouts], NEW id \in Ids
    PROVE  /\ \A layout \in Layouts :
                 /\ DOMAIN With(f, id, layout) = DOMAIN f \cup {id}
                 /\ With(f, id, layout) \in [DOMAIN f \cup {id} -> Layouts]
           /\ DOMAIN Without(f, id) = DOMAIN f \ {id}
           /\ Without(f, id) \in [DOMAIN f \ {id} -> Layouts]
           /\ DOMAIN EmptyTable = {} /\ EmptyTable \in [{} -> Layouts]
  BY DEF With, Without, Restrict, EmptyTable

LEMMA CallersFacts ==
    ASSUME NEW c \in Callers
    PROVE  Lane(c) \in Lanes /\ c \in Blocks /\ (c = Reader \/ c \in Tasks)
  BY DEF Callers, Lane, Lanes, Blocks

LEMMA NoCallTyped ==
    /\ NoCall \in Call
    /\ NoCall.pc = "idle" /\ NoCall.op = "event" /\ NoCall.id = None /\ NoCall.executed = FALSE
    /\ NoCall.outcome = "none" /\ NoCall.layout = None
  BY DEF NoCall, Call

LEMMA QueuedTyped ==
    ASSUME NEW op \in Mutations \cup Reads, NEW id \in Ids, NEW layout \in Layouts \cup {None}
    PROVE  /\ Queued(op, id, layout) \in Call
           /\ Queued(op, id, layout).pc = "queued"
           /\ Queued(op, id, layout).op = op
           /\ Queued(op, id, layout).id = id
           /\ Queued(op, id, layout).layout = layout
           /\ ~Queued(op, id, layout).executed
  BY DEF Queued, NoCall, Call

LEMMA WindowTyped ==
    ASSUME NEW q \in Call
    PROVE  LET w == [q EXCEPT !.window = TRUE]
           IN  w \in Call /\ w.pc = q.pc /\ w.op = q.op /\ w.id = q.id /\ w.executed = q.executed
  BY DEF Call

----------------------------------------------------------------------------
(* The actions on the lanes, by their effect on the calls.                   *)

\* The call of c ends its block, with this outcome.
Resumes(c, outcome) ==
    /\ Becomes(c, "resumed", call[c].executed, outcome, call[c].layout)
    /\ lanes' = Popped(Lane(c))

\* The call of c goes on to pc within its block.
Advances(c, pc, executed, outcome, layout) ==
    /\ Becomes(c, pc, executed, outcome, layout)
    /\ lanes' = lanes

LEMMA ResumeEffect ==
    ASSUME TypeOK, NEW c \in Callers, NEW outcome \in Outcomes, Resume(c, outcome)
    PROVE  Resumes(c, outcome)
  <1>1. call' = [call EXCEPT ![c].pc = "resumed", ![c].outcome = outcome] /\ lanes' = Popped(Lane(c))
    BY DEF Resume
  <1>2. "resumed" \in Pcs
    BY DEF Pcs
  <1> QED BY <1>1, <1>2, EndCall DEF Resumes

LEMMA BeginEffect ==
    ASSUME TypeOK, NEW c \in Callers, Begin(c)
    PROVE  /\ call[c].pc = "queued" /\ AtHead(c, Lane(c))
           /\ InLane /\ torrents' = torrents
           /\ \/ Resumes(c, "cancelled")
              \/ Advances(c, "begun", call[c].executed, call[c].outcome, call[c].layout)
  <1>1. "cancelled" \in Outcomes /\ "begun" \in Pcs
    BY DEF Outcomes, Pcs
  <1>2. CASE call[c].cancelled
    BY <1>1, <1>2, ResumeEffect DEF Begin
  <1>3. CASE ~call[c].cancelled
    BY <1>1, <1>3, MoveCall DEF Begin, Advances
  <1> QED BY <1>2, <1>3

LEMMA ReadPointerEffect ==
    ASSUME TypeOK, NEW c \in Callers, ReadPointer(c)
    PROVE  /\ call[c].pc = "begun"
           /\ InLane /\ torrents' = torrents
           /\ \/ Resumes(c, "shut_down")
              \/ /\ storage
                 /\ Advances(c, IF c = Reader THEN "entering" ELSE "calling",
                             call[c].executed, call[c].outcome, call[c].layout)
  <1>1. "shut_down" \in Outcomes /\ (IF c = Reader THEN "entering" ELSE "calling") \in Pcs
    BY DEF Outcomes, Pcs
  <1>2. CASE ~storage
    BY <1>1, <1>2, ResumeEffect DEF ReadPointer
  <1>3. CASE storage
    BY <1>1, <1>3, MoveCall DEF ReadPointer, Advances
  <1> QED BY <1>2, <1>3

LEMMA EnterReaderEffect ==
    ASSUME TypeOK, EnterReader
    PROVE  /\ call[Reader].pc = "entering"
           /\ InLane /\ torrents' = torrents
           /\ \/ Advances(Reader, "returned", call[Reader].executed, "failed", call[Reader].layout)
              \/ /\ ~closed
                 /\ Advances(Reader, "calling", call[Reader].executed, call[Reader].outcome, call[Reader].layout)
  <1>1. "failed" \in Outcomes /\ "returned" \in Pcs /\ "calling" \in Pcs /\ Reader \in Callers
    BY DEF Outcomes, Pcs, Callers
  <1>2. CASE closed
    BY <1>1, <1>2, EndCall DEF EnterReader, Advances
  <1>3. CASE ~closed
    BY <1>1, <1>3, MoveCall DEF EnterReader, Advances
  <1> QED BY <1>2, <1>3

LEMMA NativeCallEffect ==
    ASSUME TypeOK, NEW c \in Callers, NativeCall(c)
    PROVE  /\ call[c].pc = "calling" /\ call[c].op \in Mutations \cup Reads
           /\ InLane
           /\ \E outcome \in {"ok", "failed"} :
                 /\ Advances(c, "returned", TRUE, outcome, None)
                 /\ LET id == call[c].id
                    IN  \/ /\ call[c].op = "add" /\ outcome = "ok" /\ id \notin DOMAIN torrents
                           /\ torrents' = With(torrents, id, call[c].layout)
                        \/ /\ call[c].op = "remove" /\ outcome = "ok"
                           /\ torrents' = Without(torrents, id)
                        \/ /\ call[c].op \in {"add", "remove"} \cup Waits => outcome = "failed"
                           /\ torrents' = torrents
  <1>1. None \in Layouts \cup {None} /\ {"ok", "failed"} \subseteq Outcomes
    BY DEF Outcomes
  <1>2. lanes' = lanes /\ InLane /\ call[c].pc = "calling"
    BY DEF NativeCall
  <1>3. ASSUME NEW outcome \in {"ok", "failed"}, Returned(c, outcome, None)
        PROVE  Advances(c, "returned", TRUE, outcome, None)
    BY <1>1, <1>2, <1>3, ReturnCall DEF Advances
  <1> DEFINE id == call[c].id
             known == id \in DOMAIN torrents
  <1>4. CASE /\ call[c].op = "add" /\ ~known
             /\ torrents' = With(torrents, id, call[c].layout) /\ Returned(c, "ok", None)
    BY <1>2, <1>3, <1>4 DEF Mutations
  <1>5. CASE call[c].op = "remove" /\ torrents' = Without(torrents, id) /\ Returned(c, "ok", None)
    BY <1>2, <1>3, <1>5 DEF Mutations
  <1>6. CASE /\ call[c].op \in {"start", "window", "status"} /\ known
             /\ Returned(c, "ok", None) /\ UNCHANGED torrents
    BY <1>2, <1>3, <1>6 DEF Mutations, Reads, Waits
  <1>7. CASE /\ \/ call[c].op \in {"add", "start", "window", "status"}
                \/ call[c].op = "remove" /\ known
                \/ call[c].op \in Waits /\ ~known
             /\ Returned(c, "failed", None) /\ UNCHANGED torrents
    BY <1>2, <1>3, <1>7 DEF Mutations, Reads, Waits
  <1> QED BY <1>4, <1>5, <1>6, <1>7 DEF NativeCall

LEMMA NativeWaitEffect ==
    ASSUME TypeOK, NEW c \in Callers, NativeWait(c)
    PROVE  /\ call[c].pc = "calling"
           /\ c = Reader \/ call[c].op \in Waits
           /\ InLane /\ torrents' = torrents
           /\ Advances(c, "waiting", TRUE, call[c].outcome, call[c].layout)
  BY ExecuteCall DEF NativeWait, Advances, Pcs

LEMMA NativeReturnEffect ==
    ASSUME TypeOK, call[Reader].op = "event", NEW c \in Callers, NativeReturn(c)
    PROVE  /\ call[c].pc = "waiting"
           /\ InLane /\ torrents' = torrents
           /\ \E outcome \in {"ok", "failed"}, layout \in Layouts \cup {None} :
                 /\ Advances(c, "returned", TRUE, outcome, layout)
                 /\ outcome = "ok" /\ call[c].op = "metadata" =>
                       call[c].id \in DOMAIN torrents /\ layout = torrents[call[c].id]
  <1>1. /\ call[c].pc = "waiting" /\ InLane /\ torrents' = torrents /\ lanes' = lanes
        /\ Returned(c, IF WaitSucceeds(c) THEN "ok" ELSE "failed",
                    IF WaitSucceeds(c) /\ call[c].op = "metadata" THEN torrents[call[c].id] ELSE None)
    BY DEF NativeReturn
  <1>2. {"ok", "failed"} \subseteq Outcomes
    BY DEF Outcomes
  <1>3. CASE WaitSucceeds(c) /\ call[c].op = "metadata"
    <2>1. call[c].id \in DOMAIN torrents
      BY <1>3 DEF WaitSucceeds
    <2>2. torrents[call[c].id] \in Layouts
      BY <2>1 DEF TypeOK
    <2>3. Returned(c, "ok", torrents[call[c].id])
      BY <1>1, <1>3
    <2> QED BY <1>1, <1>2, <2>1, <2>2, <2>3, ReturnCall DEF Advances
  <1>4. CASE WaitSucceeds(c) /\ call[c].op # "metadata"
    <2>1. Returned(c, "ok", None)
      BY <1>1, <1>4
    <2> QED BY <1>1, <1>2, <1>4, <2>1, ReturnCall DEF Advances
  <1>5. CASE ~WaitSucceeds(c)
    <2>1. Returned(c, "failed", None)
      BY <1>1, <1>5
    <2> QED BY <1>1, <1>2, <2>1, ReturnCall DEF Advances
  <1> QED BY <1>3, <1>4, <1>5

LEMMA FinishEffect ==
    ASSUME TypeOK, NEW c \in Callers, Finish(c)
    PROVE  /\ call[c].pc = "returned"
           /\ InLane /\ torrents' = torrents
           /\ \/ Resumes(c, call[c].outcome)
              \/ call[c].op \notin Mutations /\ Resumes(c, "cancelled")
  <1>1. "cancelled" \in Outcomes /\ call[c].outcome \in Outcomes
    BY DEF Outcomes, TypeOK, Call
  <1>2. CASE call[c].cancelled /\ call[c].op \notin Mutations
    BY <1>1, <1>2, ResumeEffect DEF Finish
  <1>3. CASE ~(call[c].cancelled /\ call[c].op \notin Mutations)
    BY <1>1, <1>3, ResumeEffect DEF Finish
  <1> QED BY <1>2, <1>3

----------------------------------------------------------------------------
(* What keeps each part of the invariant while a call goes on in its block.  *)

LEMMA TypesInLane ==
    ASSUME TypeOK, NEW c \in Callers, InLane, call' \in [Callers -> Call],
           \/ lanes' = lanes
           \/ lanes' = Popped(Lane(c)) /\ AtHead(c, Lane(c)),
           DOMAIN torrents' \subseteq Ids, torrents' \in [DOMAIN torrents' -> Layouts]
    PROVE  TypeOK'
  <1>1. lanes' \in [Lanes -> Seq(Callers \cup {"drain", "destroy"})]
    BY LanesTyped, CallersFacts DEF AtHead
  <1> QED BY <1>1 DEF TypeOK, InLane, actor

LEMMA HeadIsOne ==
    ASSUME HeadsRun, NEW c \in Callers, NEW d \in Callers, AtHead(c, Lane(c)), Running(d), d # c
    PROVE  Lane(d) # Lane(c)
  BY DEF HeadsRun, AtHead

LEMMA HeadsAdvance ==
    ASSUME HeadsRun, NEW c \in Callers, AtHead(c, Lane(c)),
           NEW pc, NEW executed, NEW outcome, NEW layout, Advances(c, pc, executed, outcome, layout)
    PROVE  HeadsRun'
  BY DEF HeadsRun, AtHead, Advances, Becomes, Running

LEMMA HeadsResume ==
    ASSUME TypeOK, HeadsRun, NEW c \in Callers, AtHead(c, Lane(c)), NEW outcome, Resumes(c, outcome)
    PROVE  HeadsRun'
  <1> SUFFICES ASSUME NEW d \in Callers, Running(d)'
               PROVE  AtHead(d, Lane(d))'
    BY DEF HeadsRun
  <1>1. d # c /\ Running(d)
    BY DEF Resumes, Becomes, Running
  <1>2. Lane(d) # Lane(c) /\ AtHead(d, Lane(d))
    BY <1>1, HeadIsOne DEF HeadsRun
  <1>3. lanes'[Lane(d)] = lanes[Lane(d)]
    BY <1>2, CallersFacts DEF Resumes, Popped, TypeOK
  <1> QED BY <1>2, <1>3 DEF AtHead

LEMMA ShutdownAdvance ==
    ASSUME ShutdownOrder, NEW c \in Callers, InLane,
           NEW pc, NEW executed, NEW outcome, NEW layout, Advances(c, pc, executed, outcome, layout),
           pc \in {"calling", "waiting"} =>
               IF c = Reader THEN shutdown \in {"no", "closing", "closed", "draining"} ELSE storage
    PROVE  ShutdownOrder'
  <1>1. /\ \A t \in Tasks : t \in Callers /\ t # Reader
        /\ Reader \in Callers
    BY LanesAssumption DEF Callers
  <1> QED BY <1>1 DEF ShutdownOrder, Advances, Becomes, InLane, actor, AtHead

LEMMA ShutdownResume ==
    ASSUME TypeOK, ShutdownOrder, NEW c \in Callers, AtHead(c, Lane(c)), InLane,
           NEW outcome, Resumes(c, outcome)
    PROVE  ShutdownOrder'
  <1>1. /\ \A t \in Tasks : t \in Callers /\ t # Reader
        /\ Reader \in Callers
    BY LanesAssumption DEF Callers
  <1>2. ~storage /\ shutdown = "destroying" => AtHead("destroy", "operations")'
    <2> HAVE ~storage /\ shutdown = "destroying"
    <2>1. AtHead("destroy", "operations")
      BY DEF ShutdownOrder
    <2>2. c # "destroy"
      BY BlocksAssumption DEF Callers
    <2>3. Lane(c) # "operations"
      BY <2>1, <2>2 DEF AtHead
    <2>4. lanes'["operations"] = lanes["operations"]
      BY <2>3, CallersFacts DEF Resumes, Popped, TypeOK, Lanes
    <2> QED BY <2>1, <2>4 DEF AtHead
  <1> QED BY <1>1, <1>2 DEF ShutdownOrder, Resumes, Becomes, InLane, actor

LEMMA CallsBecome ==
    ASSUME CallsInOrder, MutationOutcome, OverlapsKnown, InLane, NEW c \in Callers,
           NEW pc, NEW executed, NEW outcome, NEW layout, Becomes(c, pc, executed, outcome, layout),
           c \in Tasks =>
              /\ call[c].pc # "idle" /\ pc \notin {"idle", "checked", "entering"}
              /\ pc \in {"queued", "begun", "calling"} =>
                    ~executed /\ (call[c].op = "add" => layout # None)
              /\ call[c].op \in Mutations =>
                    /\ pc # "waiting"
                    /\ pc = "returned" => executed /\ outcome \in {"ok", "failed"}
                    /\ pc = "resumed" => (executed <=> outcome \in {"ok", "failed"})
              /\ pc \in {"returned", "resumed"} /\ call[c].op = "metadata" /\ outcome = "ok" =>
                    layout # None
    PROVE  CallsInOrder' /\ MutationOutcome' /\ OverlapsKnown'
  <1>1. /\ \A t \in Tasks : t \in Callers /\ t # Reader
        /\ Reader \in Callers
    BY LanesAssumption DEF Callers
  <1>2. \A d \in Callers : call'[d].id = call[d].id /\ call'[d].op = call[d].op
    BY DEF Becomes
  <1>3. OverlapsKnown'
    BY <1>1, <1>2 DEF OverlapsKnown, InLane, actor
  <1>4. CallsInOrder'
    <2>1. call'[Reader].op = "event"
      BY <1>1, <1>2 DEF CallsInOrder
    <2>2. ASSUME NEW t \in Tasks, t # c
          PROVE  call'[t] = call[t]
      BY <1>1, <2>2 DEF Becomes
    <2>3. ASSUME c \in Tasks
          PROVE  /\ call[c].id # None
                 /\ call'[c].pc = pc /\ call'[c].executed = executed
                 /\ call'[c].outcome = outcome /\ call'[c].layout = layout
      BY <2>3 DEF Becomes, CallsInOrder
    <2> QED BY <1>1, <1>2, <2>1, <2>2, <2>3 DEF CallsInOrder, Done
  <1>5. MutationOutcome'
    BY <1>1 DEF MutationOutcome, Becomes
  <1> QED BY <1>3, <1>4, <1>5

LEMMA TablesBecome ==
    ASSUME TablesFollow, InLane, torrents' = torrents, NEW c \in Callers,
           NEW pc, NEW executed, NEW outcome, NEW layout, Becomes(c, pc, executed, outcome, layout),
           c \in Tasks =>
              /\ Done(c, "add")' <=> Done(c, "add")
              /\ Done(c, "remove")' <=> Done(c, "remove")
              /\ Done(c, "metadata")' =>
                    \/ Done(c, "metadata") /\ layout = call[c].layout
                    \/ call[c].id \in DOMAIN torrents /\ layout = torrents[call[c].id]
    PROVE  TablesFollow'
  <1>1. \A t \in Tasks : t \in Callers /\ call'[t].id = call[t].id
    BY DEF Callers, Becomes
  <1>2. shutdown' = shutdown /\ overlapped' = overlapped /\ \A id \in Ids : InStep(id)' <=> InStep(id)
    BY DEF InLane, actor, InStep
  <1> SUFFICES ASSUME shutdown = "no", NEW id \in Ids \ overlapped
               PROVE  /\ Untouched(id)' => InStep(id)'
                      /\ \A t \in Tasks : call'[t].id = id =>
                            CASE Done(t, "add")'    -> id \in DOMAIN torrents' /\ id \notin DOMAIN geometry'
                              [] Done(t, "remove")' -> id \notin DOMAIN torrents'
                              [] OTHER -> /\ InStep(id)'
                                          /\ Done(t, "metadata")' =>
                                                id \in DOMAIN torrents' /\ call'[t].layout = torrents'[id]
    BY <1>2 DEF TablesFollow
  <1>3. Untouched(id)' => InStep(id)'
    BY <1>1, <1>2 DEF Untouched, TablesFollow
  <1>4. ASSUME NEW t \in Tasks, t # c
        PROVE  /\ call'[t] = call[t]
               /\ \A op \in {"add", "remove", "metadata"} : Done(t, op)' <=> Done(t, op)
    BY <1>1, <1>4 DEF Becomes, Done
  <1>5. geometry' = geometry
    BY DEF InLane, actor
  <1>6. ASSUME NEW t \in Tasks, call'[t].id = id, t # c
        PROVE  CASE Done(t, "add")'    -> id \in DOMAIN torrents' /\ id \notin DOMAIN geometry'
                 [] Done(t, "remove")' -> id \notin DOMAIN torrents'
                 [] OTHER -> /\ InStep(id)'
                             /\ Done(t, "metadata")' =>
                                   id \in DOMAIN torrents' /\ call'[t].layout = torrents'[id]
    BY <1>1, <1>2, <1>4, <1>5, <1>6 DEF TablesFollow
  <1>7. ASSUME c \in Tasks, call'[c].id = id
        PROVE  CASE Done(c, "add")'    -> id \in DOMAIN torrents' /\ id \notin DOMAIN geometry'
                 [] Done(c, "remove")' -> id \notin DOMAIN torrents'
                 [] OTHER -> /\ InStep(id)'
                             /\ Done(c, "metadata")' =>
                                   id \in DOMAIN torrents' /\ call'[c].layout = torrents'[id]
    BY <1>1, <1>2, <1>5, <1>7 DEF TablesFollow, Becomes
  <1> QED BY <1>3, <1>6, <1>7

----------------------------------------------------------------------------
(* The actions on the lanes.                                                 *)

LEMMA TaskFacts ==
    ASSUME NEW c \in Callers
    PROVE  c # Reader <=> c \in Tasks
  BY LanesAssumption DEF Callers

LEMMA BeginStep ==
    ASSUME Inv, NEW c \in Callers, Begin(c)
    PROVE  Inv'
  <1>1. TypeOK /\ HeadsRun /\ ShutdownOrder /\ CallsInOrder /\ MutationOutcome /\ OverlapsKnown /\ TablesFollow
    BY DEF Inv
  <1>2. /\ call[c].pc = "queued" /\ AtHead(c, Lane(c)) /\ InLane /\ torrents' = torrents
        /\ \/ Resumes(c, "cancelled")
           \/ Advances(c, "begun", call[c].executed, call[c].outcome, call[c].layout)
    BY <1>1, BeginEffect
  <1>3. c \in Tasks => ~call[c].executed /\ (call[c].op = "add" => call[c].layout # None)
    BY <1>1, <1>2 DEF CallsInOrder
  <1>4. ASSUME Resumes(c, "cancelled")
        PROVE  Inv'
    <2>1. TypeOK'
      BY <1>1, <1>2, <1>4, TypesInLane DEF Resumes, Becomes, TypeOK
    <2>2. HeadsRun' /\ ShutdownOrder'
      BY <1>1, <1>2, <1>4, HeadsResume, ShutdownResume
    <2>3. CallsInOrder' /\ MutationOutcome' /\ OverlapsKnown'
      BY <1>1, <1>2, <1>3, <1>4, CallsBecome DEF Resumes
    <2>4. TablesFollow'
      BY <1>1, <1>2, <1>4, TablesBecome DEF Resumes, Becomes, Done
    <2> QED BY <2>1, <2>2, <2>3, <2>4 DEF Inv
  <1>5. ASSUME Advances(c, "begun", call[c].executed, call[c].outcome, call[c].layout)
        PROVE  Inv'
    <2>1. TypeOK'
      BY <1>1, <1>2, <1>5, TypesInLane DEF Advances, Becomes, TypeOK
    <2>2. HeadsRun' /\ ShutdownOrder'
      BY <1>1, <1>2, <1>5, HeadsAdvance, ShutdownAdvance
    <2>3. CallsInOrder' /\ MutationOutcome' /\ OverlapsKnown'
      BY <1>1, <1>2, <1>3, <1>5, CallsBecome DEF Advances
    <2>4. TablesFollow'
      BY <1>1, <1>2, <1>5, TablesBecome DEF Advances, Becomes, Done
    <2> QED BY <2>1, <2>2, <2>3, <2>4 DEF Inv
  <1> QED BY <1>2, <1>4, <1>5

LEMMA ReadPointerStep ==
    ASSUME Inv, NEW c \in Callers, ReadPointer(c)
    PROVE  Inv'
  <1> DEFINE pc == IF c = Reader THEN "entering" ELSE "calling"
  <1>1. TypeOK /\ HeadsRun /\ ShutdownOrder /\ CallsInOrder /\ MutationOutcome /\ OverlapsKnown /\ TablesFollow
    BY DEF Inv
  <1>2. /\ call[c].pc = "begun" /\ InLane /\ torrents' = torrents
        /\ \/ Resumes(c, "shut_down")
           \/ storage /\ Advances(c, pc, call[c].executed, call[c].outcome, call[c].layout)
    BY <1>1, ReadPointerEffect
  <1>3. AtHead(c, Lane(c))
    BY <1>1, <1>2 DEF HeadsRun, Running
  <1>4. c \in Tasks => ~call[c].executed /\ (call[c].op = "add" => call[c].layout # None)
    BY <1>1, <1>2 DEF CallsInOrder
  <1>5. ASSUME Resumes(c, "shut_down")
        PROVE  Inv'
    <2>1. TypeOK'
      BY <1>1, <1>2, <1>3, <1>5, TypesInLane DEF Resumes, Becomes, TypeOK
    <2>2. HeadsRun' /\ ShutdownOrder'
      BY <1>1, <1>2, <1>3, <1>5, HeadsResume, ShutdownResume
    <2>3. CallsInOrder' /\ MutationOutcome' /\ OverlapsKnown'
      BY <1>1, <1>2, <1>4, <1>5, CallsBecome DEF Resumes
    <2>4. TablesFollow'
      BY <1>1, <1>2, <1>5, TablesBecome DEF Resumes, Becomes, Done
    <2> QED BY <2>1, <2>2, <2>3, <2>4 DEF Inv
  <1>6. ASSUME storage, Advances(c, pc, call[c].executed, call[c].outcome, call[c].layout)
        PROVE  Inv'
    <2>1. TypeOK'
      BY <1>1, <1>2, <1>6, TypesInLane DEF Advances, Becomes, TypeOK
    <2>2. HeadsRun' /\ ShutdownOrder'
      BY <1>1, <1>2, <1>3, <1>6, HeadsAdvance, ShutdownAdvance
    <2>3. CallsInOrder' /\ MutationOutcome' /\ OverlapsKnown'
      BY <1>1, <1>2, <1>4, <1>6, CallsBecome, TaskFacts DEF Advances
    <2>4. TablesFollow'
      BY <1>1, <1>2, <1>6, TablesBecome DEF Advances, Becomes, Done
    <2> QED BY <2>1, <2>2, <2>3, <2>4 DEF Inv
  <1> QED BY <1>2, <1>5, <1>6

LEMMA EnterReaderStep ==
    ASSUME Inv, EnterReader
    PROVE  Inv'
  <1>1. TypeOK /\ HeadsRun /\ ShutdownOrder /\ CallsInOrder /\ MutationOutcome /\ OverlapsKnown /\ TablesFollow
    BY DEF Inv
  <1>2. Reader \in Callers /\ Reader \notin Tasks
    BY LanesAssumption DEF Callers
  <1>3. PICK pc \in {"returned", "calling"}, outcome \in {"failed", call[Reader].outcome} :
           /\ call[Reader].pc = "entering" /\ InLane /\ torrents' = torrents
           /\ Advances(Reader, pc, call[Reader].executed, outcome, call[Reader].layout)
           /\ pc = "calling" => ~closed
    BY <1>1, EnterReaderEffect
  <1>4. AtHead(Reader, Lane(Reader))
    BY <1>1, <1>2, <1>3 DEF HeadsRun, Running
  <1>5. pc = "calling" => shutdown \in {"no", "closing", "closed", "draining"}
    BY <1>1, <1>3 DEF ShutdownOrder
  <1>6. TypeOK'
    BY <1>1, <1>2, <1>3, TypesInLane DEF Advances, Becomes, TypeOK
  <1>7. HeadsRun' /\ ShutdownOrder'
    BY <1>1, <1>2, <1>3, <1>4, <1>5, HeadsAdvance, ShutdownAdvance
  <1>8. CallsInOrder' /\ MutationOutcome' /\ OverlapsKnown'
    BY <1>1, <1>2, <1>3, CallsBecome DEF Advances
  <1>9. TablesFollow'
    BY <1>1, <1>2, <1>3, TablesBecome DEF Advances
  <1> QED BY <1>6, <1>7, <1>8, <1>9 DEF Inv

LEMMA NativeWaitStep ==
    ASSUME Inv, NEW c \in Callers, NativeWait(c)
    PROVE  Inv'
  <1>1. TypeOK /\ HeadsRun /\ ShutdownOrder /\ CallsInOrder /\ MutationOutcome /\ OverlapsKnown /\ TablesFollow
    BY DEF Inv
  <1>2. /\ call[c].pc = "calling" /\ InLane /\ torrents' = torrents
        /\ c = Reader \/ call[c].op \in Waits
        /\ Advances(c, "waiting", TRUE, call[c].outcome, call[c].layout)
    BY <1>1, NativeWaitEffect
  <1>3. AtHead(c, Lane(c))
    BY <1>1, <1>2 DEF HeadsRun, Running
  <1>4. IF c = Reader THEN shutdown \in {"no", "closing", "closed", "draining"} ELSE storage
    BY <1>1, <1>2, TaskFacts DEF ShutdownOrder
  <1>5. TypeOK'
    BY <1>1, <1>2, TypesInLane DEF Advances, Becomes, TypeOK
  <1>6. HeadsRun' /\ ShutdownOrder'
    BY <1>1, <1>2, <1>3, <1>4, HeadsAdvance, ShutdownAdvance
  <1>7. CallsInOrder' /\ MutationOutcome' /\ OverlapsKnown'
    BY <1>1, <1>2, CallsBecome, TaskFacts DEF Advances, Waits, Mutations
  <1>8. TablesFollow'
    BY <1>1, <1>2, TablesBecome DEF Advances, Becomes, Done
  <1> QED BY <1>5, <1>6, <1>7, <1>8 DEF Inv

LEMMA NativeReturnStep ==
    ASSUME Inv, NEW c \in Callers, NativeReturn(c)
    PROVE  Inv'
  <1>1. TypeOK /\ HeadsRun /\ ShutdownOrder /\ CallsInOrder /\ MutationOutcome /\ OverlapsKnown /\ TablesFollow
    BY DEF Inv
  <1>2. call[Reader].op = "event"
    BY <1>1 DEF CallsInOrder
  <1>3. /\ call[c].pc = "waiting" /\ InLane /\ torrents' = torrents
        /\ \E outcome \in {"ok", "failed"}, layout \in Layouts \cup {None} :
              /\ Advances(c, "returned", TRUE, outcome, layout)
              /\ outcome = "ok" /\ call[c].op = "metadata" =>
                    call[c].id \in DOMAIN torrents /\ layout = torrents[call[c].id]
    BY <1>1, <1>2, NativeReturnEffect
  <1>4. PICK outcome \in {"ok", "failed"}, layout \in Layouts \cup {None} :
           /\ Advances(c, "returned", TRUE, outcome, layout)
           /\ outcome = "ok" /\ call[c].op = "metadata" =>
                 call[c].id \in DOMAIN torrents /\ layout = torrents[call[c].id]
    BY <1>3
  <1>5. AtHead(c, Lane(c))
    BY <1>1, <1>3 DEF HeadsRun, Running
  <1>6. TypeOK'
    BY <1>1, <1>3, <1>4, TypesInLane DEF Advances, Becomes, TypeOK
  <1>7. HeadsRun' /\ ShutdownOrder'
    BY <1>1, <1>3, <1>4, <1>5, HeadsAdvance, ShutdownAdvance
  <1>8. outcome = "ok" /\ call[c].op = "metadata" => layout # None
    <2> HAVE outcome = "ok" /\ call[c].op = "metadata"
    <2>1. call[c].id \in DOMAIN torrents /\ layout = torrents[call[c].id]
      BY <1>4
    <2>2. torrents[call[c].id] \in Layouts
      BY <1>1, <2>1 DEF TypeOK
    <2> QED BY <2>1, <2>2, LanesAssumption
  <1>9. c \in Tasks => call[c].op \notin Mutations
    BY <1>1, <1>3 DEF CallsInOrder
  <1>10. CallsInOrder' /\ MutationOutcome' /\ OverlapsKnown'
    BY <1>1, <1>3, <1>4, <1>8, <1>9, CallsBecome DEF Advances
  <1>11. TablesFollow'
    BY <1>1, <1>3, <1>4, <1>9, TablesBecome DEF Advances, Becomes, Done, Mutations
  <1> QED BY <1>6, <1>7, <1>10, <1>11 DEF Inv

LEMMA FinishStep ==
    ASSUME Inv, NEW c \in Callers, Finish(c)
    PROVE  Inv'
  <1>1. TypeOK /\ HeadsRun /\ ShutdownOrder /\ CallsInOrder /\ MutationOutcome /\ OverlapsKnown /\ TablesFollow
    BY DEF Inv
  <1>2. PICK outcome :
           /\ call[c].pc = "returned" /\ InLane /\ torrents' = torrents
           /\ Resumes(c, outcome)
           /\ outcome = call[c].outcome \/ (call[c].op \notin Mutations /\ outcome = "cancelled")
    BY <1>1, FinishEffect
  <1>3. AtHead(c, Lane(c))
    BY <1>1, <1>2 DEF HeadsRun, Running
  <1>4. TypeOK'
    BY <1>1, <1>2, <1>3, TypesInLane DEF Resumes, Becomes, TypeOK
  <1>5. HeadsRun' /\ ShutdownOrder'
    BY <1>1, <1>2, <1>3, HeadsResume, ShutdownResume
  <1>6. c \in Tasks =>
           /\ call[c].op \in Mutations => call[c].executed /\ outcome \in {"ok", "failed"}
           /\ call[c].op = "metadata" /\ outcome = "ok" => call[c].layout # None
    BY <1>1, <1>2 DEF CallsInOrder, Done
  <1>7. CallsInOrder' /\ MutationOutcome' /\ OverlapsKnown'
    BY <1>1, <1>2, <1>6, CallsBecome DEF Resumes
  <1>8. TablesFollow'
    BY <1>1, <1>2, TablesBecome DEF Resumes, Becomes, Done, Mutations
  <1> QED BY <1>4, <1>5, <1>7, <1>8 DEF Inv

LEMMA TablesCall ==
    ASSUME CallsInOrder, OverlapsKnown, TablesFollow, InLane, NEW c \in Tasks, call[c].id \in Ids,
           call[c].pc = "calling", Becomes(c, "returned", TRUE, "ok", None),
           \/ /\ call[c].op = "add"
              /\ call[c].id \notin DOMAIN torrents /\ call[c].id \in DOMAIN torrents'
           \/ call[c].op = "remove" /\ call[c].id \notin DOMAIN torrents',
           \A id \in Ids \ {call[c].id} :
              /\ id \in DOMAIN torrents' <=> id \in DOMAIN torrents
              /\ id \in DOMAIN torrents => torrents'[id] = torrents[id]
    PROVE  TablesFollow'
  <1>1. \A t \in Tasks : t \in Callers /\ call'[t].id = call[t].id
    BY DEF Callers, Becomes
  <1>2. shutdown' = shutdown /\ overlapped' = overlapped /\ geometry' = geometry /\ identifiers' = identifiers
    BY DEF InLane, actor
  <1>3. \A id \in Ids \ {call[c].id} : InStep(id)' <=> InStep(id)
    BY <1>2 DEF InStep
  <1>4. ASSUME NEW t \in Tasks, t # c
        PROVE  /\ call'[t] = call[t]
               /\ \A op \in {"add", "remove", "metadata"} : Done(t, op)' <=> Done(t, op)
    BY <1>1, <1>4 DEF Becomes, Done
  <1> SUFFICES ASSUME shutdown = "no", NEW id \in Ids \ overlapped
               PROVE  /\ Untouched(id)' => InStep(id)'
                      /\ \A t \in Tasks : call'[t].id = id =>
                            CASE Done(t, "add")'    -> id \in DOMAIN torrents' /\ id \notin DOMAIN geometry'
                              [] Done(t, "remove")' -> id \notin DOMAIN torrents'
                              [] OTHER -> /\ InStep(id)'
                                          /\ Done(t, "metadata")' =>
                                                id \in DOMAIN torrents' /\ call'[t].layout = torrents'[id]
    BY <1>2 DEF TablesFollow
  <1>5. CASE id # call[c].id
    <2>1. Untouched(id)' => InStep(id)'
      BY <1>1, <1>2, <1>3, <1>5 DEF Untouched, TablesFollow
    <2>2. ASSUME NEW t \in Tasks, call'[t].id = id
          PROVE  CASE Done(t, "add")'    -> id \in DOMAIN torrents' /\ id \notin DOMAIN geometry'
                   [] Done(t, "remove")' -> id \notin DOMAIN torrents'
                   [] OTHER -> /\ InStep(id)'
                               /\ Done(t, "metadata")' =>
                                     id \in DOMAIN torrents' /\ call'[t].layout = torrents'[id]
      BY <1>1, <1>2, <1>3, <1>4, <1>5, <2>2 DEF TablesFollow
    <2> QED BY <2>1, <2>2
  <1>6. CASE id = call[c].id
    <2>1. \A t \in Tasks : call'[t].id = id => t = c
      BY <1>1, <1>6, LanesAssumption DEF OverlapsKnown
    <2>2. InStep(id)
      BY <1>6 DEF TablesFollow, Done
    <2>3. ~Untouched(id)'
      BY <1>1, <1>6 DEF Untouched
    <2>4. call'[c].pc = "returned" /\ call'[c].op = call[c].op /\ call'[c].outcome = "ok"
      BY DEF Becomes
    <2>5. CASE call[c].op = "add" /\ id \notin DOMAIN torrents /\ id \in DOMAIN torrents'
      BY <1>2, <2>1, <2>2, <2>3, <2>4, <2>5 DEF Done, InStep
    <2>6. CASE call[c].op = "remove" /\ id \notin DOMAIN torrents'
      BY <1>2, <2>1, <2>3, <2>4, <2>6 DEF Done
    <2> QED BY <1>6, <2>5, <2>6
  <1> QED BY <1>5, <1>6

LEMMA NativeCallStep ==
    ASSUME Inv, NEW c \in Callers, NativeCall(c)
    PROVE  Inv'
  <1>1. TypeOK /\ HeadsRun /\ ShutdownOrder /\ CallsInOrder /\ MutationOutcome /\ OverlapsKnown /\ TablesFollow
    BY DEF Inv
  <1> DEFINE id == call[c].id
             Added   == /\ call[c].op = "add" /\ id \notin DOMAIN torrents
                        /\ torrents' = With(torrents, id, call[c].layout)
             Removed == call[c].op = "remove" /\ torrents' = Without(torrents, id)
             Same(outcome) ==
                        /\ call[c].op \in {"add", "remove"} \cup Waits => outcome = "failed"
                        /\ torrents' = torrents
  <1>2. /\ call[c].pc = "calling" /\ call[c].op \in Mutations \cup Reads /\ InLane
        /\ \E outcome \in {"ok", "failed"} :
              /\ Advances(c, "returned", TRUE, outcome, None)
              /\ \/ outcome = "ok" /\ (Added \/ Removed)
                 \/ Same(outcome)
    <2> HIDE DEF Added, Removed, Same
    <2> QED BY <1>1, NativeCallEffect DEF Added, Removed, Same
  <1>3. PICK outcome \in {"ok", "failed"} :
              /\ Advances(c, "returned", TRUE, outcome, None)
              /\ \/ outcome = "ok" /\ (Added \/ Removed)
                 \/ Same(outcome)
    BY <1>2
  <1>4. AtHead(c, Lane(c))
    BY <1>1, <1>2 DEF HeadsRun, Running
  <1>5. c \in Tasks
    BY <1>1, <1>2, TaskFacts DEF CallsInOrder, Mutations, Reads
  <1>6. id \in Ids /\ call[c].layout \in Layouts \cup {None}
    <2>1. call[c] \in Call
      BY <1>1 DEF TypeOK
    <2> QED BY <1>1, <1>2, <1>5, <2>1 DEF CallsInOrder, Call
  <1>7. call[c].op = "add" => call[c].layout \in Layouts
    BY <1>1, <1>2, <1>5, <1>6 DEF CallsInOrder
  <1>8. HeadsRun' /\ ShutdownOrder'
    BY <1>1, <1>2, <1>3, <1>4, HeadsAdvance, ShutdownAdvance
  <1>9. call[c].op = "metadata" => outcome = "failed"
    BY <1>3 DEF Waits, Same, Added, Removed
  <1>10. CallsInOrder' /\ MutationOutcome' /\ OverlapsKnown'
    BY <1>1, <1>2, <1>3, <1>9, CallsBecome DEF Advances
  <1>11. CASE Same(outcome)
    <2>1. torrents' = torrents
      BY <1>11
    <2>2. TypeOK'
      BY <1>1, <1>2, <1>3, <2>1, TypesInLane DEF Advances, Becomes, TypeOK
    <2>3. TablesFollow'
      BY <1>1, <1>2, <1>3, <1>9, <1>11, TablesBecome DEF Advances, Becomes, Done
    <2> QED BY <1>8, <1>10, <2>2, <2>3 DEF Inv
  <1>12. CASE outcome = "ok" /\ (Added \/ Removed)
    <2>0. /\ \A layout \in Layouts :
                /\ DOMAIN With(torrents, id, layout) = DOMAIN torrents \cup {id}
                /\ With(torrents, id, layout) \in [DOMAIN torrents \cup {id} -> Layouts]
          /\ DOMAIN Without(torrents, id) = DOMAIN torrents \ {id}
          /\ Without(torrents, id) \in [DOMAIN torrents \ {id} -> Layouts]
          /\ DOMAIN torrents \subseteq Ids
      <3>1. DOMAIN torrents \subseteq Ids /\ torrents \in [DOMAIN torrents -> Layouts]
        BY <1>1 DEF TypeOK
      <3> QED BY <1>6, <3>1, TablesTyped
    <2>1. /\ DOMAIN torrents' \subseteq Ids /\ torrents' \in [DOMAIN torrents' -> Layouts]
          /\ Added => id \in DOMAIN torrents'
          /\ Removed => id \notin DOMAIN torrents'
      BY <1>6, <1>7, <1>12, <2>0
    <2>2. \A i \in Ids \ {id} :
             i \in DOMAIN torrents' <=> i \in DOMAIN torrents
      BY <1>6, <1>7, <1>12, <2>0
    <2>3. \A i \in Ids \ {id} : i \in DOMAIN torrents => torrents'[i] = torrents[i]
      BY <1>12 DEF With, Without, Restrict
    <2>4. TypeOK'
      BY <1>1, <1>2, <1>3, <2>1, TypesInLane DEF Advances, Becomes
    <2>5. TablesFollow'
      BY <1>1, <1>2, <1>3, <1>5, <1>6, <1>12, <2>1, <2>2, <2>3, TablesCall DEF Advances
    <2> QED BY <1>8, <1>10, <2>4, <2>5 DEF Inv
  <1> QED BY <1>3, <1>11, <1>12

----------------------------------------------------------------------------
(* The steps that leave every call where it is.                              *)

LEMMA SameCalls ==
    ASSUME TypeOK, call' = call
    PROVE  Unmoved
  BY DEF TypeOK, Unmoved

LEMMA EnqueueKeepsHeads ==
    ASSUME TypeOK, NEW m \in Blocks, NEW l \in Lanes, lanes' = Enqueued(m, l)
    PROVE  \A x \in Blocks, k \in Lanes : AtHead(x, k) => AtHead(x, k)'
  <1> SUFFICES ASSUME NEW x \in Blocks, NEW k \in Lanes, AtHead(x, k)
               PROVE  AtHead(x, k)'
    OBVIOUS
  <1>1. lanes[l] \in Seq(Blocks) /\ lanes[k] \in Seq(Blocks)
    BY DEF TypeOK, Blocks
  <1>2. CASE k = l
    <2>1. lanes'[k] = Append(lanes[k], m)
      BY <1>2 DEF Enqueued, TypeOK
    <2>2. Len(lanes[k]) > 0 /\ Len(Append(lanes[k], m)) > 0
      BY <1>1 DEF AtHead
    <2>3. Head(Append(lanes[k], m)) = Head(lanes[k]) /\ Append(lanes[k], m) # <<>>
      BY <1>1, <2>2
    <2> QED BY <2>1, <2>3 DEF AtHead
  <1>3. CASE k # l
    BY <1>3 DEF Enqueued, TypeOK, AtHead
  <1> QED BY <1>2, <1>3

LEMMA PopKeepsHeads ==
    ASSUME TypeOK, HeadsRun, NEW m \in {"drain", "destroy"}, NEW l \in Lanes, AtHead(m, l),
           lanes' = Popped(l), NEW c \in Callers, Running(c)
    PROVE  Lane(c) # l /\ AtHead(c, Lane(c))'
  <1>1. AtHead(c, Lane(c))
    BY DEF HeadsRun
  <1>2. c # m
    BY BlocksAssumption DEF Callers
  <1>3. Lane(c) # l
    BY <1>1, <1>2 DEF AtHead
  <1>4. lanes'[Lane(c)] = lanes[Lane(c)]
    BY <1>3, CallersFacts DEF Popped, TypeOK
  <1> QED BY <1>1, <1>3, <1>4 DEF AtHead

LEMMA UnmovedHeads ==
    ASSUME HeadsRun, Unmoved, \A c \in Callers : Running(c) => AtHead(c, Lane(c))'
    PROVE  HeadsRun'
  BY DEF HeadsRun, Unmoved, Running

LEMMA UnmovedCalls ==
    ASSUME CallsInOrder, MutationOutcome, OverlapsKnown, Unmoved, overlapped' = overlapped
    PROVE  CallsInOrder' /\ MutationOutcome' /\ OverlapsKnown'
  <1>1. /\ \A t \in Tasks : t \in Callers
        /\ Reader \in Callers
    BY DEF Callers
  <1>2. CallsInOrder'
    BY <1>1 DEF CallsInOrder, Done, Unmoved
  <1>3. MutationOutcome'
    BY <1>1 DEF MutationOutcome, Unmoved
  <1>4. OverlapsKnown'
    BY <1>1 DEF OverlapsKnown, Unmoved
  <1> QED BY <1>2, <1>3, <1>4

LEMMA UnmovedTables ==
    ASSUME TablesFollow, Unmoved, overlapped' = overlapped,
           shutdown' = "no" => shutdown = "no" /\ UNCHANGED <<torrents, identifiers, geometry>>
    PROVE  TablesFollow'
  <1> SUFFICES ASSUME shutdown' = "no"
               PROVE  TablesFollow'
    BY DEF TablesFollow
  <1>1. \A t \in Tasks :
           /\ call'[t].id = call[t].id /\ call'[t].layout = call[t].layout
           /\ Done(t, "add")' <=> Done(t, "add")
           /\ Done(t, "remove")' <=> Done(t, "remove")
           /\ Done(t, "metadata")' <=> Done(t, "metadata")
    BY DEF Callers, Unmoved, Done
  <1>2. \A id \in Ids : (InStep(id)' <=> InStep(id)) /\ (Untouched(id)' => Untouched(id))
    BY <1>1 DEF InStep, Untouched
  <1> QED BY <1>1, <1>2 DEF TablesFollow

\* The waking, cancelling and answering of calls.
LEMMA MarkStep ==
    ASSUME Inv, Unmoved, closed => closed', closed' \in BOOLEAN, due' \subseteq Callers,
           UNCHANGED <<lanes, storage, torrents, freed, actor>>
    PROVE  Inv'
  <1>1. TypeOK /\ HeadsRun /\ ShutdownOrder /\ CallsInOrder /\ MutationOutcome /\ OverlapsKnown /\ TablesFollow
    BY DEF Inv
  <1>2. TypeOK'
    BY <1>1 DEF TypeOK, Unmoved, actor
  <1>3. HeadsRun'
    BY <1>1, UnmovedHeads DEF HeadsRun, AtHead
  <1>4. ShutdownOrder'
    BY <1>1 DEF ShutdownOrder, Unmoved, AtHead, actor, Callers
  <1>5. CallsInOrder' /\ MutationOutcome' /\ OverlapsKnown' /\ TablesFollow'
    BY <1>1, UnmovedCalls, UnmovedTables DEF actor
  <1> QED BY <1>1, <1>2, <1>3, <1>4, <1>5 DEF Inv

LEMMA CancellationSteps ==
    ASSUME Inv,
           \/ \E c \in Callers : NativeAnswer(c) \/ Wake(c)
           \/ \E t \in Tasks : CancelTask(t)
           \/ CancelStream
    PROVE  Inv'
  <1>1. TypeOK
    BY DEF Inv
  <1>2. ASSUME NEW c \in Callers, NativeAnswer(c)
        PROVE  Inv'
    BY <1>1, <1>2, MarkCall, MarkStep DEF NativeAnswer, InLane, TypeOK
  <1>3. ASSUME NEW c \in Callers, Wake(c)
        PROVE  Inv'
    BY <1>1, <1>3, WakeCalls, MarkStep DEF Wake, TypeOK
  <1>4. ASSUME NEW t \in Tasks, CancelTask(t)
        PROVE  Inv'
    <2>1. t \in Callers
      BY DEF Callers
    <2>2. due' \subseteq Callers /\ closed' = closed
      BY <1>1, <1>4, <2>1 DEF CancelTask, TypeOK
    <2>3. closed' \in BOOLEAN
      BY <1>1, <2>2 DEF TypeOK
    <2>4. Unmoved /\ UNCHANGED <<lanes, storage, torrents, freed, actor>>
      BY <1>1, <1>4, <2>1, MarkCall DEF CancelTask
    <2> QED BY <2>2, <2>3, <2>4, MarkStep
  <1>5. ASSUME CancelStream
        PROVE  Inv'
    <2>1. Reader \in Callers
      BY DEF Callers
    <2>2. due' \subseteq Callers /\ closed' = TRUE
      BY <1>1, <1>5, <2>1 DEF CancelStream, TypeOK
    <2> QED BY <1>1, <1>5, <2>1, <2>2, MarkCall, MarkStep DEF CancelStream
  <1> QED BY <1>2, <1>3, <1>4, <1>5

----------------------------------------------------------------------------
(* TorrentSession.shutdown().                                                *)

\* A shutdown's step keeps what no shutdown touches, and the rest is about its order.
LEMMA ShutdownStep ==
    ASSUME Inv, Unmoved, shutdown' # "no", UNCHANGED <<identifiers, overlapped>>,
           \A c \in Callers : Running(c) => AtHead(c, Lane(c))'
    PROVE  HeadsRun' /\ CallsInOrder' /\ MutationOutcome' /\ OverlapsKnown' /\ TablesFollow'
  BY UnmovedHeads, UnmovedCalls, UnmovedTables DEF Inv

LEMMA ShutdownSteps ==
    ASSUME Inv, ShutdownBegins \/ Shutdown
    PROVE  Inv'
  <1>1. TypeOK /\ HeadsRun /\ ShutdownOrder
    BY DEF Inv
  <1>2. \A t \in Tasks : t \in Callers /\ Lane(t) = "operations"
    BY LanesAssumption DEF Callers, Lane
  <1>3. Reader \in Callers /\ Lane(Reader) = "events" /\ "events" \in Lanes /\ "operations" \in Lanes
    BY DEF Callers, Lane, Lanes
  <1>4. "drain" \in Blocks /\ "destroy" \in Blocks /\ Callers \subseteq Blocks
    BY DEF Blocks
  <1>5. ASSUME NEW m \in Blocks, NEW l \in Lanes, lanes' = Enqueued(m, l)
        PROVE  \A c \in Callers : Running(c) => AtHead(c, Lane(c))'
    BY <1>1, <1>4, <1>5, EnqueueKeepsHeads, CallersFacts DEF HeadsRun
  <1>6. CASE ShutdownBegins
    <2>1. Unmoved
      BY <1>1, <1>6, SameCalls DEF ShutdownBegins
    <2>2. TypeOK'
      BY <1>1, <1>6 DEF ShutdownBegins, TypeOK
    <2>3. ShutdownOrder'
      BY <1>1, <1>6 DEF ShutdownBegins, ShutdownOrder, AtHead
    <2> QED BY <1>1, <1>6, <2>1, <2>2, <2>3, ShutdownStep DEF Inv, ShutdownBegins, HeadsRun, AtHead
  <1>7. CASE ReaderCloses
    <2>1. Unmoved
      BY <1>1, <1>7, SameCalls DEF ReaderCloses
    <2>2. TypeOK'
      BY <1>1, <1>7 DEF ReaderCloses, TypeOK
    <2>3. ShutdownOrder'
      BY <1>1, <1>7 DEF ReaderCloses, ShutdownOrder, AtHead
    <2> QED BY <1>1, <1>7, <2>1, <2>2, <2>3, ShutdownStep DEF Inv, ReaderCloses, HeadsRun, AtHead
  <1>8. CASE ReaderDrains
    <2>1. Unmoved
      BY <1>1, <1>8, WakeCalls DEF ReaderDrains
    <2>2. TypeOK'
      <3>1. lanes' \in [Lanes -> Seq(Callers \cup {"drain", "destroy"})]
        BY <1>1, <1>3, <1>4, <1>8, LanesTyped DEF ReaderDrains
      <3> QED BY <1>1, <1>8, <2>1, <3>1 DEF ReaderDrains, TypeOK, Unmoved
    <2>3. ShutdownOrder'
      BY <1>1, <1>2, <1>3, <1>8, <2>1 DEF ReaderDrains, ShutdownOrder, Unmoved
    <2>4. \A c \in Callers : Running(c) => AtHead(c, Lane(c))'
      BY <1>3, <1>4, <1>5, <1>8 DEF ReaderDrains
    <2> QED BY <1>8, <2>1, <2>2, <2>3, <2>4, ShutdownStep DEF Inv, ReaderDrains
  <1>9. CASE LaneDrained
    <2>1. Unmoved
      BY <1>1, <1>9, SameCalls DEF LaneDrained
    <2>2. TypeOK'
      <3>1. lanes' \in [Lanes -> Seq(Callers \cup {"drain", "destroy"})]
        BY <1>1, <1>3, <1>4, <1>9, LanesTyped DEF LaneDrained, AtHead
      <3> QED BY <1>1, <1>9, <2>1, <3>1 DEF LaneDrained, TypeOK, Unmoved
    <2>3. \A c \in Callers : Running(c) => Lane(c) # "events" /\ AtHead(c, Lane(c))'
      BY <1>1, <1>3, <1>9, PopKeepsHeads DEF LaneDrained
    <2>4. ~Running(Reader)
      BY <1>3, <2>3
    <2>5. ShutdownOrder'
      BY <1>1, <1>2, <1>3, <1>9, <2>1, <2>4 DEF LaneDrained, ShutdownOrder, Unmoved, Running
    <2> QED BY <1>9, <2>1, <2>2, <2>3, <2>5, ShutdownStep DEF Inv, LaneDrained
  <1>10. CASE ExecutorShutsDown
    <2>1. Unmoved
      BY <1>1, <1>10, WakeCalls DEF ExecutorShutsDown
    <2>2. TypeOK'
      <3>1. lanes' \in [Lanes -> Seq(Callers \cup {"drain", "destroy"})]
        BY <1>1, <1>3, <1>4, <1>10, LanesTyped DEF ExecutorShutsDown
      <3>2. DOMAIN geometry' \subseteq Ids /\ geometry' \in [DOMAIN geometry' -> Layouts]
        BY <1>10 DEF ExecutorShutsDown, EmptyTable
      <3> QED BY <1>1, <1>10, <2>1, <3>1, <3>2 DEF ExecutorShutsDown, TypeOK, Unmoved
    <2>3. ShutdownOrder'
      BY <1>1, <1>2, <1>3, <1>10, <2>1 DEF ExecutorShutsDown, ShutdownOrder, Unmoved
    <2>4. \A c \in Callers : Running(c) => AtHead(c, Lane(c))'
      BY <1>3, <1>4, <1>5, <1>10 DEF ExecutorShutsDown
    <2> QED BY <1>10, <2>1, <2>2, <2>3, <2>4, ShutdownStep DEF Inv, ExecutorShutsDown
  <1>11. CASE TakePointer
    <2>1. Unmoved
      BY <1>1, <1>11, SameCalls DEF TakePointer
    <2>2. TypeOK'
      BY <1>1, <1>11 DEF TakePointer, TypeOK, actor
    <2>3. \A t \in Tasks : ~Running(t)
      BY <1>1, <1>2, <1>11, BlocksAssumption DEF TakePointer, HeadsRun, AtHead
    <2>4. ShutdownOrder'
      BY <1>1, <1>11, <2>3 DEF TakePointer, ShutdownOrder, Running, AtHead, actor
    <2> QED BY <1>1, <1>11, <2>1, <2>2, <2>4, ShutdownStep DEF Inv, TakePointer, HeadsRun, AtHead, actor
  <1>12. CASE Destroy
    <2>1. Unmoved
      BY <1>1, <1>12, SameCalls DEF Destroy
    <2>2. TypeOK'
      <3>1. lanes' \in [Lanes -> Seq(Callers \cup {"drain", "destroy"})]
        BY <1>1, <1>3, <1>4, <1>12, LanesTyped DEF Destroy, AtHead
      <3>2. DOMAIN torrents' \subseteq Ids /\ torrents' \in [DOMAIN torrents' -> Layouts]
        BY <1>12 DEF Destroy, EmptyTable
      <3> QED BY <1>1, <1>12, <3>1, <3>2 DEF Destroy, TypeOK
    <2>3. \A c \in Callers : Running(c) => AtHead(c, Lane(c))'
      BY <1>1, <1>3, <1>12, PopKeepsHeads DEF Destroy
    <2>4. ShutdownOrder'
      BY <1>1, <1>2, <1>12 DEF Destroy, ShutdownOrder
    <2> QED BY <1>12, <2>1, <2>2, <2>3, <2>4, ShutdownStep DEF Inv, Destroy
  <1> QED BY <1>6, <1>7, <1>8, <1>9, <1>10, <1>11, <1>12 DEF Shutdown

----------------------------------------------------------------------------
(* The actor's methods.                                                      *)

LEMMA PerformStep ==
    ASSUME Inv, NEW t \in Tasks, NEW request \in Call,
           request.pc = "queued", request.op \in Mutations \cup Reads, request.id \in Ids,
           ~request.executed, request.op = "add" => request.layout # None, Perform(t, request)
    PROVE  Inv'
  <1>1. TypeOK /\ HeadsRun /\ ShutdownOrder /\ CallsInOrder /\ MutationOutcome /\ OverlapsKnown /\ TablesFollow
    BY DEF Inv
  <1>2. t \in Callers /\ t \in Blocks /\ "operations" \in Lanes /\ Callers \subseteq Blocks
    BY DEF Callers, Blocks, Lanes
  <1>3. /\ call[t].pc = "idle" /\ call' = [call EXCEPT ![t] = request]
        /\ lanes' = Enqueued(t, "operations")
        /\ started < MaxCalls /\ started' = started + 1
        /\ overlapped' = overlapped \cup {request.id : u \in {v \in Tasks : call[v].id = request.id}}
        /\ UNCHANGED <<due, storage, torrents, freed, closed, identifiers, geometry, shutdown>>
    BY DEF Perform
  <1>4. Replaced(t, request)
    BY <1>1, <1>2, <1>3, ReplaceCall
  <1>5. /\ \A u \in Tasks \ {t} : call'[u] = call[u]
        /\ call'[t] = request
        /\ Reader # t /\ call'[Reader] = call[Reader]
    BY <1>4, LanesAssumption DEF Replaced, Callers
  <1>6. overlapped \subseteq overlapped' /\ \A u \in Tasks : call[u].id = request.id => request.id \in overlapped'
    BY <1>3
  <1>7. call[t].id = None /\ request.id # None
    BY <1>1, <1>3, LanesAssumption DEF CallsInOrder
  <1>8. TypeOK'
    <2>1. lanes' \in [Lanes -> Seq(Callers \cup {"drain", "destroy"})]
      BY <1>1, <1>2, <1>3, LanesTyped
    <2>2. started' \in 0..MaxCalls
      BY <1>1, <1>3, LanesAssumption DEF TypeOK
    <2> QED BY <1>1, <1>3, <1>4, <2>1, <2>2 DEF TypeOK, Replaced
  <1>9. /\ HeadsRun'
        /\ AtHead("destroy", "operations") => AtHead("destroy", "operations")'
    <2>1. \A x \in Blocks, k \in Lanes : AtHead(x, k) => AtHead(x, k)'
      BY <1>1, <1>2, <1>3, EnqueueKeepsHeads
    <2>2. \A c \in Callers : Running(c)' => Running(c)
      BY <1>4 DEF Replaced, Running
    <2> QED BY <1>1, <1>2, <2>1, <2>2, CallersFacts DEF HeadsRun, Blocks
  <1>10. ShutdownOrder'
    BY <1>1, <1>3, <1>5, <1>9 DEF ShutdownOrder
  <1>11. CallsInOrder' /\ MutationOutcome'
    BY <1>1, <1>5, <1>7 DEF CallsInOrder, MutationOutcome, Done
  <1>12. OverlapsKnown'
    BY <1>1, <1>5, <1>6 DEF OverlapsKnown
  <1>13. TablesFollow'
    <2> SUFFICES ASSUME shutdown = "no", NEW id \in Ids \ overlapped'
                 PROVE  /\ Untouched(id)' => InStep(id)'
                        /\ \A u \in Tasks : call'[u].id = id =>
                              CASE Done(u, "add")'    -> id \in DOMAIN torrents' /\ id \notin DOMAIN geometry'
                                [] Done(u, "remove")' -> id \notin DOMAIN torrents'
                                [] OTHER -> /\ InStep(id)'
                                            /\ Done(u, "metadata")' =>
                                                  id \in DOMAIN torrents' /\ call'[u].layout = torrents'[id]
      BY <1>3 DEF TablesFollow
    <2>1. id \in Ids \ overlapped /\ (InStep(id)' <=> InStep(id))
      BY <1>3, <1>6 DEF InStep
    <2>2. Untouched(id)' => Untouched(id)
      BY <1>3, <1>5, <1>7, LanesAssumption DEF Untouched
    <2>3. ASSUME NEW u \in Tasks, u # t, call'[u].id = id
          PROVE  CASE Done(u, "add")'    -> id \in DOMAIN torrents' /\ id \notin DOMAIN geometry'
                   [] Done(u, "remove")' -> id \notin DOMAIN torrents'
                   [] OTHER -> /\ InStep(id)'
                               /\ Done(u, "metadata")' =>
                                     id \in DOMAIN torrents' /\ call'[u].layout = torrents'[id]
      BY <1>1, <1>3, <1>5, <2>1, <2>3 DEF TablesFollow, Done
    <2>4. ASSUME request.id = id
          PROVE  InStep(id)' /\ ~Done(t, "add")' /\ ~Done(t, "remove")' /\ ~Done(t, "metadata")'
      <3>1. Untouched(id)
        BY <1>6, <2>4 DEF Untouched
      <3> QED BY <1>1, <1>5, <2>1, <3>1 DEF TablesFollow, Done
    <2>5. Untouched(id)' => InStep(id)'
      BY <1>1, <2>1, <2>2 DEF TablesFollow
    <2> QED BY <1>5, <2>3, <2>4, <2>5
  <1> QED BY <1>8, <1>9, <1>10, <1>11, <1>12, <1>13 DEF Inv

LEMMA RequestSteps ==
    ASSUME Inv, NEW t \in Tasks, NEW id \in Ids,
           \/ \E op \in Ops, layout \in Layouts \cup {None} : Request(t, op, id, layout)
           \/ UpdateStreamingWindow(t, id)
    PROVE  Inv'
  <1>1. ASSUME NEW op \in Ops, NEW layout \in Layouts \cup {None}, Request(t, op, id, layout)
        PROVE  Inv'
    <2>1. op \in Mutations \cup Reads
      BY OpsAssumption
    <2>2. (op = "add" => layout # None) /\ Perform(t, Queued(op, id, layout))
      BY <1>1 DEF Request
    <2> DEFINE q == Queued(op, id, layout)
    <2>3. /\ q \in Call /\ q.pc = "queued" /\ q.op = op /\ q.id = id /\ q.layout = layout /\ ~q.executed
      BY <2>1, QueuedTyped
    <2> HIDE DEF q
    <2> QED BY <2>1, <2>2, <2>3, PerformStep DEF q
  <1>2. ASSUME UpdateStreamingWindow(t, id)
        PROVE  Inv'
    <2>1. /\ "window" \in Mutations \cup Reads /\ "metadata" \in Mutations \cup Reads
          /\ None \in Layouts \cup {None}
      BY DEF Mutations, Reads
    <2>2. CASE Perform(t, Queued("window", id, None))
      <3> DEFINE q == Queued("window", id, None)
      <3>1. q \in Call /\ q.pc = "queued" /\ q.op = "window" /\ q.id = id /\ ~q.executed
        BY <2>1, QueuedTyped
      <3> HIDE DEF q
      <3> QED BY <2>1, <2>2, <3>1, PerformStep DEF q
    <2>3. CASE Perform(t, [Queued("metadata", id, None) EXCEPT !.window = TRUE])
      <3> DEFINE p == Queued("metadata", id, None)
                 q == [p EXCEPT !.window = TRUE]
      <3>1. p \in Call /\ p.pc = "queued" /\ p.op = "metadata" /\ p.id = id /\ ~p.executed
        BY <2>1, QueuedTyped
      <3>2. q \in Call /\ q.pc = "queued" /\ q.op = "metadata" /\ q.id = id /\ ~q.executed
        <4> HIDE DEF p
        <4> QED BY <3>1, WindowTyped
      <3> HIDE DEF q
      <3> QED BY <2>1, <2>3, <3>2, PerformStep DEF q
    <2> QED BY <1>2, <2>2, <2>3 DEF UpdateStreamingWindow
  <1> QED BY <1>1, <1>2

LEMMA ContinueStep ==
    ASSUME Inv, NEW t \in Tasks, NEW planned \in BOOLEAN, Continue(t, planned)
    PROVE  Inv'
  <1> DEFINE ok(op) == call[t].op = op /\ call[t].outcome = "ok"
             id     == call[t].id
  <1>1. TypeOK /\ HeadsRun /\ ShutdownOrder /\ CallsInOrder /\ MutationOutcome /\ OverlapsKnown /\ TablesFollow
    BY DEF Inv
  <1>2. t \in Callers /\ t \in Blocks /\ "operations" \in Lanes /\ Callers \subseteq Blocks
    BY DEF Callers, Blocks, Lanes
  <1>3. /\ call[t].pc = "resumed"
        /\ identifiers' = CASE ok("add")    -> identifiers \cup {id}
                            [] ok("remove") -> identifiers \ {id}
                            [] OTHER        -> identifiers
        /\ geometry'    = CASE ok("metadata") -> With(geometry, id, call[t].layout)
                            [] ok("remove")   -> Without(geometry, id)
                            [] OTHER          -> geometry
        /\ UNCHANGED <<due, storage, torrents, freed, closed, shutdown, overlapped, started>>
    BY DEF Continue
  <1>4. id \in Ids /\ call[t].layout \in Layouts \cup {None}
    <2>1. call[t] \in Call
      BY <1>1, <1>2 DEF TypeOK
    <2> QED BY <1>1, <1>3, <2>1 DEF Call, CallsInOrder
  <1>5. ok("metadata") => call[t].layout \in Layouts
    BY <1>1, <1>3, <1>4 DEF CallsInOrder, Done
  <1>6. \E new \in Call :
           /\ call' = [call EXCEPT ![t] = new]
           /\ \/ new = NoCall /\ lanes' = lanes
              \/ new = Queued("window", id, None) /\ lanes' = Enqueued(t, "operations")
    <2>1. NoCall \in Call /\ Queued("window", id, None) \in Call
      BY <1>4, NoCallTyped, QueuedTyped DEF Mutations
    <2> QED BY <2>1 DEF Continue
  <1>7. PICK new \in Call :
           /\ call' = [call EXCEPT ![t] = new]
           /\ \/ new = NoCall /\ lanes' = lanes
              \/ new = Queued("window", id, None) /\ lanes' = Enqueued(t, "operations")
    BY <1>6
  <1>8. /\ ~new.executed
        /\ \/ new.pc = "idle" /\ new.id = None /\ new.op = "event"
           \/ new.pc = "queued" /\ new.id = id /\ new.op = "window"
    <2>1. CASE new = NoCall
      BY <2>1, NoCallTyped
    <2>2. CASE new = Queued("window", id, None)
      <3>1. "window" \in Mutations \cup Reads /\ None \in Layouts \cup {None}
        BY DEF Mutations
      <3> QED BY <1>4, <2>2, <3>1, QueuedTyped
    <2> QED BY <1>7, <2>1, <2>2
  <1>9. Replaced(t, new)
    BY <1>1, <1>2, <1>7, ReplaceCall
  <1>10. /\ \A u \in Tasks \ {t} : call'[u] = call[u]
         /\ call'[t] = new
         /\ Reader # t /\ call'[Reader] = call[Reader]
    BY <1>9, LanesAssumption DEF Replaced, Callers
  <1>11. /\ DOMAIN geometry' = IF ok("metadata") THEN DOMAIN geometry \cup {id}
                               ELSE IF ok("remove") THEN DOMAIN geometry \ {id} ELSE DOMAIN geometry
         /\ geometry' \in [DOMAIN geometry' -> Layouts]
    <2>1. DOMAIN geometry \subseteq Ids /\ geometry \in [DOMAIN geometry -> Layouts]
      BY <1>1 DEF TypeOK
    <2>2. /\ \A layout \in Layouts :
                /\ DOMAIN With(geometry, id, layout) = DOMAIN geometry \cup {id}
                /\ With(geometry, id, layout) \in [DOMAIN geometry \cup {id} -> Layouts]
          /\ DOMAIN Without(geometry, id) = DOMAIN geometry \ {id}
          /\ Without(geometry, id) \in [DOMAIN geometry \ {id} -> Layouts]
      BY <1>4, <2>1, TablesTyped
    <2>3. CASE ok("metadata")
      BY <1>3, <1>5, <2>2, <2>3
    <2>4. CASE ok("remove")
      BY <1>3, <2>2, <2>4
    <2>5. CASE ~ok("metadata") /\ ~ok("remove")
      BY <1>3, <2>1, <2>5
    <2> QED BY <2>3, <2>4, <2>5
  <1>12. TypeOK'
    <2>1. lanes' \in [Lanes -> Seq(Callers \cup {"drain", "destroy"})]
      BY <1>1, <1>2, <1>7, LanesTyped
    <2>2. DOMAIN geometry' \subseteq Ids
      BY <1>1, <1>4, <1>11 DEF TypeOK
    <2>3. identifiers' \subseteq Ids
      BY <1>1, <1>3, <1>4 DEF TypeOK
    <2> QED BY <1>1, <1>3, <1>9, <1>11, <2>1, <2>2, <2>3 DEF TypeOK, Replaced
  <1>13. /\ HeadsRun'
         /\ AtHead("destroy", "operations") => AtHead("destroy", "operations")'
    <2>1. \A x \in Blocks, k \in Lanes : AtHead(x, k) => AtHead(x, k)'
      BY <1>1, <1>2, <1>7, EnqueueKeepsHeads DEF AtHead
    <2>2. \A c \in Callers : Running(c)' => Running(c)
      BY <1>8, <1>9 DEF Replaced, Running
    <2> QED BY <1>1, <1>2, <2>1, <2>2, CallersFacts DEF HeadsRun, Blocks
  <1>14. ShutdownOrder'
    BY <1>1, <1>3, <1>8, <1>10, <1>13 DEF ShutdownOrder
  <1>15. CallsInOrder' /\ MutationOutcome'
    BY <1>1, <1>4, <1>8, <1>10, LanesAssumption DEF CallsInOrder, MutationOutcome, Done
  <1>16. OverlapsKnown'
    BY <1>1, <1>3, <1>8, <1>10 DEF OverlapsKnown
  <1>17. TablesFollow'
    <2> SUFFICES ASSUME shutdown = "no", NEW i \in Ids \ overlapped
                 PROVE  /\ Untouched(i)' => InStep(i)'
                        /\ \A u \in Tasks : call'[u].id = i =>
                              CASE Done(u, "add")'    -> i \in DOMAIN torrents' /\ i \notin DOMAIN geometry'
                                [] Done(u, "remove")' -> i \notin DOMAIN torrents'
                                [] OTHER -> /\ InStep(i)'
                                            /\ Done(u, "metadata")' =>
                                                  i \in DOMAIN torrents' /\ call'[u].layout = torrents'[i]
      BY <1>3 DEF TablesFollow
    <2>1. CASE i # id
      <3>1. i \in identifiers' <=> i \in identifiers
        BY <1>3, <2>1
      <3>2. i \in DOMAIN geometry' <=> i \in DOMAIN geometry
        BY <1>11, <2>1
      <3>3. i \in DOMAIN geometry => geometry'[i] = geometry[i]
        BY <1>3, <2>1 DEF With, Without, Restrict
      <3>4. InStep(i)' <=> InStep(i)
        BY <1>3, <3>1, <3>2, <3>3 DEF InStep
      <3>5. Untouched(i)' => Untouched(i)
        BY <1>3, <1>10, <2>1 DEF Untouched
      <3>6. call'[t].id # i
        BY <1>8, <1>10, <2>1, LanesAssumption
      <3>7. ASSUME NEW u \in Tasks, call'[u].id = i
            PROVE  CASE Done(u, "add")'    -> i \in DOMAIN torrents' /\ i \notin DOMAIN geometry'
                     [] Done(u, "remove")' -> i \notin DOMAIN torrents'
                     [] OTHER -> /\ InStep(i)'
                                 /\ Done(u, "metadata")' =>
                                       i \in DOMAIN torrents' /\ call'[u].layout = torrents'[i]
        <4>1. u # t /\ call'[u] = call[u]
          BY <1>10, <3>6, <3>7
        <4> QED BY <1>1, <1>3, <3>2, <3>4, <3>7, <4>1 DEF TablesFollow, Done
      <3>8. Untouched(i)' => InStep(i)'
        BY <1>1, <3>4, <3>5 DEF TablesFollow
      <3> QED BY <3>7, <3>8
    <2>2. CASE i = id
      <3>1. \A u \in Tasks \ {t} : call'[u].id # i
        BY <1>1, <1>4, <1>10, <2>2, LanesAssumption DEF OverlapsKnown
      <3>2. ~Done(t, "add")' /\ ~Done(t, "remove")' /\ ~Done(t, "metadata")'
        BY <1>8, <1>10 DEF Done
      <3>3. /\ ok("add") => i \in DOMAIN torrents /\ i \notin DOMAIN geometry
            /\ ok("remove") => i \notin DOMAIN torrents
            /\ ~ok("add") /\ ~ok("remove") => InStep(i)
            /\ ok("metadata") => i \in DOMAIN torrents /\ call[t].layout = torrents[i]
        BY <1>1, <1>3, <2>2 DEF TablesFollow, Done
      <3>4. CASE ok("add")
        BY <1>3, <2>2, <3>3, <3>2, <3>1, <3>4 DEF InStep
      <3>5. CASE ok("remove")
        BY <1>3, <1>11, <2>2, <3>3, <3>2, <3>1, <3>5 DEF InStep
      <3>6. CASE ok("metadata")
        <4>1. InStep(i) /\ i \in DOMAIN torrents /\ call[t].layout = torrents[i] /\ identifiers' = identifiers
          BY <1>3, <3>3, <3>6
        <4>2. geometry'[i] = call[t].layout
          BY <1>3, <2>2, <3>6 DEF With
        <4>3. InStep(i)'
          BY <1>3, <4>1, <4>2 DEF InStep
        <4> QED BY <3>1, <3>2, <4>3
      <3>7. CASE ~ok("add") /\ ~ok("remove") /\ ~ok("metadata")
        <4>1. InStep(i)'
          BY <1>3, <3>3, <3>7 DEF InStep
        <4> QED BY <3>1, <3>2, <4>1
      <3> QED BY <3>4, <3>5, <3>6, <3>7
    <2> QED BY <2>1, <2>2
  <1> QED BY <1>12, <1>13, <1>14, <1>15, <1>16, <1>17 DEF Inv

----------------------------------------------------------------------------
(* NativeEventReader.next().                                                 *)

\* The reader's steps outside its block touch no task's call and no table.
LEMMA ReaderStep ==
    ASSUME Inv, NEW new \in Call, new.op = "event", new.pc \in {"idle", "checked", "queued"},
           call' = [call EXCEPT ![Reader] = new],
           lanes' = lanes \/ lanes' = Enqueued(Reader, "events"),
           closed => closed', closed' \in BOOLEAN, due' \subseteq Callers,
           UNCHANGED <<storage, torrents, freed, actor>>
    PROVE  Inv'
  <1>1. TypeOK /\ HeadsRun /\ ShutdownOrder /\ CallsInOrder /\ MutationOutcome /\ OverlapsKnown /\ TablesFollow
    BY DEF Inv
  <1>2. /\ Reader \in Callers /\ Reader \in Blocks /\ "events" \in Lanes
        /\ Callers \subseteq Blocks /\ "destroy" \in Blocks /\ "operations" \in Lanes
    BY DEF Callers, Blocks, Lanes
  <1>3. Replaced(Reader, new)
    BY <1>1, <1>2, ReplaceCall
  <1>4. /\ \A t \in Tasks : t \in Callers /\ call'[t] = call[t]
        /\ call'[Reader] = new
    BY <1>3, LanesAssumption DEF Replaced, Callers
  <1>5. TypeOK'
    <2>1. lanes' \in [Lanes -> Seq(Callers \cup {"drain", "destroy"})]
      BY <1>1, <1>2, LanesTyped
    <2> QED BY <1>1, <1>3, <2>1 DEF TypeOK, Replaced, actor
  <1>6. /\ HeadsRun'
        /\ AtHead("destroy", "operations") => AtHead("destroy", "operations")'
    <2>1. \A x \in Blocks, k \in Lanes : AtHead(x, k) => AtHead(x, k)'
      BY <1>1, <1>2, EnqueueKeepsHeads DEF AtHead
    <2>2. \A c \in Callers : Running(c)' => Running(c)
      BY <1>3 DEF Replaced, Running
    <2> QED BY <1>1, <1>2, <2>1, <2>2, CallersFacts DEF HeadsRun
  <1>7. ShutdownOrder'
    BY <1>1, <1>4, <1>6 DEF ShutdownOrder, actor
  <1>8. CallsInOrder' /\ MutationOutcome'
    BY <1>1, <1>4 DEF CallsInOrder, MutationOutcome, Done
  <1>9. OverlapsKnown'
    BY <1>1, <1>4 DEF OverlapsKnown, actor
  <1>10. TablesFollow'
    <2>1. \A t \in Tasks :
             /\ Done(t, "add")' <=> Done(t, "add")
             /\ Done(t, "remove")' <=> Done(t, "remove")
             /\ Done(t, "metadata")' <=> Done(t, "metadata")
      BY <1>4 DEF Done
    <2>2. \A id \in Ids : (InStep(id)' <=> InStep(id)) /\ (Untouched(id)' => Untouched(id))
      BY <1>4 DEF InStep, Untouched, actor
    <2>3. UNCHANGED <<shutdown, overlapped, geometry>>
      BY DEF actor
    <2> QED BY <1>1, <1>4, <2>1, <2>2, <2>3 DEF TablesFollow
  <1> QED BY <1>5, <1>6, <1>7, <1>8, <1>9, <1>10 DEF Inv

LEMMA ReaderSteps ==
    ASSUME Inv, ReaderChecks \/ ReaderQueues \/ ReaderContinues
    PROVE  Inv'
  <1>1. TypeOK /\ call[Reader].op = "event"
    BY DEF Inv, CallsInOrder
  <1>2. Reader \in Callers /\ call[Reader] \in Call
    BY <1>1 DEF TypeOK, Callers
  <1>3. closed \in BOOLEAN /\ due \subseteq Callers
    BY <1>1 DEF TypeOK
  <1>4. CASE ReaderChecks
    <2> DEFINE new == [NoCall EXCEPT !.pc = "checked"]
    <2>1. new \in Call /\ new.op = "event" /\ new.pc = "checked"
      BY NoCallTyped DEF Call
    <2>2. call' = [call EXCEPT ![Reader] = new]
      BY <1>4 DEF ReaderChecks
    <2> HIDE DEF new
    <2> QED BY <1>3, <1>4, <2>1, <2>2, ReaderStep DEF ReaderChecks
  <1>5. CASE ReaderQueues
    <2>1. ASSUME NEW pc \in {"idle", "queued"}, call' = [call EXCEPT ![Reader].pc = pc],
                 lanes' = lanes \/ lanes' = Enqueued(Reader, "events")
          PROVE  Inv'
      <3> DEFINE new == [call[Reader] EXCEPT !.pc = pc]
      <3>1. new \in Call /\ new.op = "event" /\ new.pc = pc
        BY <1>1, <1>2 DEF Call
      <3>2. call' = [call EXCEPT ![Reader] = new]
        BY <2>1
      <3> HIDE DEF new
      <3> QED BY <1>3, <1>5, <2>1, <3>1, <3>2, ReaderStep DEF ReaderQueues
    <2> QED BY <1>5, <2>1 DEF ReaderQueues
  <1>6. CASE ReaderContinues
    <2> DEFINE new == [NoCall EXCEPT !.cancelled = call[Reader].cancelled]
    <2>1. call[Reader].cancelled \in BOOLEAN
      BY <1>2 DEF Call
    <2>2. new \in Call /\ new.op = "event" /\ new.pc = "idle"
      BY <2>1, NoCallTyped DEF Call
    <2>3. call' = [call EXCEPT ![Reader] = new]
      BY <1>6 DEF ReaderContinues
    <2>4. due' \subseteq Callers /\ closed' \in BOOLEAN /\ (closed => closed')
      BY <1>2, <1>3, <1>6 DEF ReaderContinues
    <2> HIDE DEF new
    <2> QED BY <1>6, <2>2, <2>3, <2>4, ReaderStep DEF ReaderContinues
  <1> QED BY <1>4, <1>5, <1>6

----------------------------------------------------------------------------
(* The theorems.                                                             *)

LEMMA InvInit == Init => Inv
  <1> SUFFICES ASSUME Init
               PROVE  Inv
    OBVIOUS
  <1>1. \A c \in Callers : call[c] = NoCall
    BY DEF Init
  <1>2. Reader \in Callers /\ \A t \in Tasks : t \in Callers
    BY DEF Callers
  <1>3. TypeOK
    <2>1. call \in [Callers -> Call]
      BY NoCallTyped DEF Init
    <2>2. DOMAIN EmptyTable = {} /\ EmptyTable \in [{} -> Layouts]
      BY DEF EmptyTable
    <2>3. lanes \in [Lanes -> Seq(Callers \cup {"drain", "destroy"})]
      BY DEF Init
    <2>4. started \in 0..MaxCalls
      BY LanesAssumption DEF Init
    <2> QED BY <2>1, <2>2, <2>3, <2>4 DEF Init, TypeOK
  <1>4. HeadsRun
    BY <1>1, NoCallTyped DEF HeadsRun, Running
  <1>5. ShutdownOrder
    BY <1>1, <1>2, NoCallTyped DEF Init, ShutdownOrder
  <1>6. CallsInOrder /\ MutationOutcome /\ OverlapsKnown
    BY <1>1, <1>2, NoCallTyped DEF CallsInOrder, MutationOutcome, OverlapsKnown, Done, Mutations
  <1>7. TablesFollow
    <2>1. \A id \in Ids : InStep(id)
      BY DEF Init, InStep, EmptyTable
    <2>2. \A t \in Tasks, op \in {"add", "remove", "metadata"} : ~Done(t, op)
      BY <1>1, <1>2, NoCallTyped DEF Done
    <2> QED BY <2>1, <2>2 DEF TablesFollow
  <1> QED BY <1>3, <1>4, <1>5, <1>6, <1>7 DEF Inv

LEMMA InvStep == Inv /\ [Next]_vars => Inv'
  <1> SUFFICES ASSUME Inv, [Next]_vars
               PROVE  Inv'
    OBVIOUS
  <1>1. ASSUME NEW c \in Callers, LaneStep(c)
        PROVE  Inv'
    BY <1>1, BeginStep, ReadPointerStep, EnterReaderStep, NativeCallStep, NativeWaitStep,
       NativeReturnStep, FinishStep DEF LaneStep
  <1>2. CASE UNCHANGED vars
    <2>1. Unmoved
      BY <1>2, SameCalls DEF vars, Inv
    <2>2. closed' = closed /\ due' = due /\ closed \in BOOLEAN /\ due \subseteq Callers
      BY <1>2 DEF vars, Inv, TypeOK
    <2> QED BY <1>2, <2>1, <2>2, MarkStep DEF vars
  <1> QED BY <1>1, <1>2, CancellationSteps, RequestSteps, ContinueStep, ReaderSteps, ShutdownSteps DEF Next

\* The inductive invariant of the lanes, the actor and the shutdown holds.
THEOREM InvHolds == Spec => []Inv
  BY InvInit, InvStep, PTL DEF Spec

\* The types of the state of the Swift side hold; the actor caches only a geometry
\* that metadata() has returned.
THEOREM TypeOKHolds == Spec => []TypeOK
  <1>1. Inv => TypeOK
    BY DEF Inv
  <1> QED BY <1>1, InvHolds, PTL

\* No lane uses the native session once shutdown() has freed it: the reader's lane is
\* drained before the destruction is queued, and that runs alone on the other lane.
THEOREM NoUseAfterFreeHolds == Spec => []NoUseAfterFree
  <1>1. Inv => NoUseAfterFree
    <2> SUFFICES ASSUME Inv, NEW c \in Callers, call[c].pc \in {"calling", "waiting"}, freed
                 PROVE  FALSE
      BY DEF NoUseAfterFree
    <2>1. shutdown = "done" /\ ~storage
      BY DEF Inv, ShutdownOrder
    <2>2. CASE c = Reader
      BY <2>1, <2>2 DEF Inv, ShutdownOrder
    <2>3. CASE c \in Tasks
      BY <2>1, <2>3 DEF Inv, ShutdownOrder
    <2> QED BY <2>2, <2>3, CallersFacts
  <1> QED BY <1>1, InvHolds, PTL

\* A mutation that throws CancellationError, or the error of a session shut down, has
\* not touched the native session, and one that was executed returns its outcome.
THEOREM MutationOutcomeHolds == Spec => []MutationOutcome
  <1>1. Inv => MutationOutcome
    BY DEF Inv
  <1> QED BY <1>1, InvHolds, PTL

\* Once no call on an identifier is under way, and if none ever overlapped another on
\* it, the actor's identifiers and geometry are those of the bridge.
THEOREM TablesReconciledHolds == Spec => []TablesReconciled
  <1>1. Inv => TablesReconciled
    BY DEF Inv, TablesFollow, TablesReconciled, Untouched, InStep
  <1> QED BY <1>1, InvHolds, PTL
=============================================================================
