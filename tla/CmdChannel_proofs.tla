-------------------------- MODULE CmdChannel_proofs --------------------------
(***************************************************************************)
(* Proofs that the command manager, until it gives a command up, is a      *)
(* one-at-a-time channel: the slot of every command has one owner, only    *)
(* the head of the list is in somebody's hands, only the head is answered, *)
(* and so every step is one of CmdChannel.  Also, that the pool suffices   *)
(* after timeouts, and that a deferred command has somebody to wake the    *)
(* worker.  Everything rests on IInv, proved in CmdMgr_proofs.             *)
(***************************************************************************)
EXTENDS CmdMgr_proofs, FiniteSetTheorems

Hands == SendersInHand /\ WorkerInHand /\ SlotsInUse /\ HeadAnswered

-----------------------------------------------------------------------------
(* The list and the slots under the updates of the code *)

LEMMA ListedIndex ==
    ASSUME TypeOK
    PROVE  \A s : Listed(s) <=> \E i \in 1..Len(cmds) : cmds[i] = s
<1>1. DOMAIN cmds = 1..Len(cmds)
  BY LenProperties DEF TypeOK
<1> QED BY <1>1 DEF Listed, Range

LEMMA HeadOfList ==
    ASSUME TypeOK, cmds # <<>>
    PROVE  /\ Head(cmds) = cmds[1] /\ Head(cmds) \in Slots
           /\ 1 \in 1..Len(cmds) /\ Listed(Head(cmds))
<1>1. Head(cmds) = cmds[1] /\ Head(cmds) \in Slots
  BY HeadTailProperties DEF TypeOK
<1>2. 1 \in 1..Len(cmds)
  BY EmptySeq, ListElements DEF TypeOK
<1> QED BY <1>1, <1>2, ListedIndex

LEMMA ListedNonempty ==
    ASSUME TypeOK, NEW s, Listed(s)
    PROVE  cmds # <<>> /\ s \in Slots
<1>1. PICK i \in 1..Len(cmds) : cmds[i] = s
  BY ListedIndex
<1>2. Len(cmds) # 0
  BY <1>1, ListElements
<1> QED BY <1>1, <1>2, EmptySeq, ListElements

\* Queueing: the head stays, or is the command that is queued.
LEMMA EnlistList ==
    ASSUME TypeOK, TypeOK', NEW s \in Slots, cmds' = Append(cmds, s)
    PROVE  /\ \A t : Listed(t)' <=> Listed(t) \/ t = s
           /\ cmds' # <<>>
           /\ Head(cmds') = IF cmds = <<>> THEN s ELSE Head(cmds)
<1>1. /\ Len(cmds') = Len(cmds) + 1 /\ cmds'[Len(cmds) + 1] = s
      /\ \A j \in 1..Len(cmds) : cmds'[j] = cmds[j]
  BY AppendProperties DEF TypeOK
<1>2. Len(cmds) \in Nat
  BY ListElements
<1>3. cmds' # <<>>
  BY <1>1, <1>2, EmptySeq
<1>4. \A t : Listed(t)' <=> \E i \in 1..Len(cmds') : cmds'[i] = t
  <2>1. DOMAIN cmds' = 1..Len(cmds')
    BY LenProperties DEF TypeOK
  <2> QED BY <2>1 DEF Listed, Range
<1>5. \A t : Listed(t)' <=> Listed(t) \/ t = s
  <2>1. ASSUME NEW t, Listed(t)' PROVE Listed(t) \/ t = s
    <3>1. PICK i \in 1..Len(cmds') : cmds'[i] = t
      BY <2>1, <1>4
    <3> QED BY <3>1, <1>1, <1>2, ListedIndex
  <2>2. ASSUME NEW t, Listed(t) PROVE Listed(t)'
    <3>1. PICK i \in 1..Len(cmds) : cmds[i] = t
      BY <2>2, ListedIndex
    <3>2. i \in 1..Len(cmds') /\ cmds'[i] = t
      BY <3>1, <1>1, <1>2
    <3> QED BY <3>2, <1>4
  <2>3. Listed(s)'
    <3>1. Len(cmds) + 1 \in 1..Len(cmds')
      BY <1>1, <1>2
    <3> QED BY <3>1, <1>1, <1>4
  <2> QED BY <2>1, <2>2, <2>3
<1>6. Head(cmds') = cmds'[1]
  BY <1>3, HeadTailProperties DEF TypeOK
<1>7. CASE cmds = <<>>
  <2>1. Len(cmds) = 0
    BY <1>7, EmptySeq
  <2> QED BY <2>1, <1>1, <1>3, <1>5, <1>6, <1>7
<1>8. CASE cmds # <<>>
  BY <1>8, <1>1, <1>3, <1>5, <1>6, HeadOfList
<1> QED BY <1>7, <1>8

\* A confirmation of the head: the rest moves up, and nothing else leaves.
LEMMA UnlinkHead ==
    ASSUME TypeOK, TypeOK', NoDuplicate, cmds # <<>>, Unlink(1)
    PROVE  /\ \A t : Listed(t)' <=> Listed(t) /\ t # Head(cmds)
           /\ cmds' # <<>> => \E k \in 2..Len(cmds) : Head(cmds') = cmds[k]
           /\ Len(cmds') = Len(cmds) - 1
           /\ \A j \in 1..(Len(cmds) - 1) : cmds'[j] = cmds[j + 1]
<1>1. 1 \in 1..Len(cmds) /\ Head(cmds) = cmds[1] /\ Len(cmds) \in Nat
  BY HeadOfList, ListElements
<1>2. /\ Len(cmds') = Len(cmds) - 1
      /\ \A j \in 1..(Len(cmds) - 1) : cmds'[j] = cmds[j + 1]
  <2>1. /\ Len(RemoveAt(cmds, 1)) = Len(cmds) - 1
        /\ \A j \in 1..(Len(cmds) - 1) :
             RemoveAt(cmds, 1)[j] = IF j < 1 THEN cmds[j] ELSE cmds[j + 1]
    BY <1>1, RemoveAtProperties DEF TypeOK
  <2> QED BY <2>1, <1>1 DEF Unlink
<1>3. \A t : Listed(t)' <=> \E i \in 1..Len(cmds') : cmds'[i] = t
  <2>1. DOMAIN cmds' = 1..Len(cmds')
    BY LenProperties DEF TypeOK
  <2> QED BY <2>1 DEF Listed, Range
<1>4. ASSUME NEW t, Listed(t)' PROVE Listed(t) /\ t # Head(cmds)
  <2>1. PICK i \in 1..Len(cmds') : cmds'[i] = t
    BY <1>3, <1>4
  <2>2. i + 1 \in 1..Len(cmds) /\ cmds[i + 1] = t /\ i + 1 # 1
    BY <2>1, <1>1, <1>2
  <2> QED BY <2>2, <1>1, ListedIndex DEF NoDuplicate
<1>5. ASSUME NEW t, Listed(t), t # Head(cmds) PROVE Listed(t)'
  <2>1. PICK i \in 1..Len(cmds) : cmds[i] = t
    BY <1>5, ListedIndex
  <2>2. i # 1
    BY <2>1, <1>1, <1>5
  <2>3. i - 1 \in 1..(Len(cmds) - 1) /\ (i - 1) + 1 = i
    BY <2>1, <2>2, <1>1
  <2>4. i - 1 \in 1..Len(cmds') /\ cmds'[i - 1] = t
    BY <2>1, <2>3, <1>2
  <2> QED BY <2>4, <1>3
<1>6. ASSUME cmds' # <<>> PROVE \E k \in 2..Len(cmds) : Head(cmds') = cmds[k]
  <2>1. Head(cmds') = cmds'[1]
    BY <1>6, HeadTailProperties DEF TypeOK
  <2>2. Len(cmds') \in Nat /\ Len(cmds') # 0
    BY <1>6, EmptySeq, LenProperties DEF TypeOK
  <2>3. 1 \in 1..(Len(cmds) - 1) /\ 1 + 1 = 2 /\ 2 \in 2..Len(cmds)
    BY <2>2, <1>1, <1>2
  <2>4. cmds'[1] = cmds[2]
    BY <2>3, <1>2
  <2> QED BY <2>1, <2>3, <2>4
<1> QED BY <1>2, <1>4, <1>5, <1>6

LEMMA FreeFields ==
    ASSUME TypeOK, NEW s \in Slots, FreeCmd(s)
    PROVE  /\ SameBut(s) /\ slots'[s].used = FALSE
           /\ slots'[s].msg = slots[s].msg /\ slots'[s].id = slots[s].id
           /\ slots'[s].flags = slots[s].flags
<1>1. slots \in [Slots -> Command]
  BY DEF TypeOK
<1> DEFINE c == [slots[s] EXCEPT !.used = FALSE, !.complete = FALSE]
<1>2. slots' = [slots EXCEPT ![s] = c]
  BY DEF FreeCmd
<1>3. /\ c.used = FALSE /\ c.msg = slots[s].msg /\ c.id = slots[s].id
      /\ c.flags = slots[s].flags
  BY <1>1 DEF Command
<1> HIDE DEF c
<1> QED BY <1>1, <1>2, <1>3 DEF SameBut

\* The other updates of a slot: Enlist, the worker's store, a confirmation.
LEMMA UpdateFields ==
    ASSUME TypeOK, NEW s \in Slots, NEW f \in Flags, NEW b \in BOOLEAN
    PROVE  /\ slots' = [slots EXCEPT ![s] = [@ EXCEPT !.complete = b, !.flags = f]] =>
                /\ SameBut(s) /\ slots'[s].complete = b /\ slots'[s].flags = f
                /\ slots'[s].msg = slots[s].msg /\ slots'[s].id = slots[s].id
                /\ slots'[s].used = slots[s].used
           /\ slots' = [slots EXCEPT ![s] = [@ EXCEPT !.flags = f]] =>
                /\ SameBut(s) /\ slots'[s].complete = slots[s].complete
                /\ slots'[s].flags = f
                /\ slots'[s].msg = slots[s].msg /\ slots'[s].id = slots[s].id
                /\ slots'[s].used = slots[s].used
<1>1. slots \in [Slots -> Command]
  BY DEF TypeOK
<1> DEFINE c == [slots[s] EXCEPT !.complete = b, !.flags = f]
           d == [slots[s] EXCEPT !.flags = f]
<1>2. /\ c.complete = b /\ c.flags = f /\ c.msg = slots[s].msg
      /\ c.id = slots[s].id /\ c.used = slots[s].used
  BY <1>1 DEF Command
<1>3. /\ d.complete = slots[s].complete /\ d.flags = f /\ d.msg = slots[s].msg
      /\ d.id = slots[s].id /\ d.used = slots[s].used
  BY <1>1 DEF Command
<1> HIDE DEF c, d
<1>4. ASSUME slots' = [slots EXCEPT ![s] = c]
      PROVE  SameBut(s) /\ slots'[s] = c
  BY <1>1, <1>4 DEF SameBut
<1>5. ASSUME slots' = [slots EXCEPT ![s] = d]
      PROVE  SameBut(s) /\ slots'[s] = d
  BY <1>1, <1>5 DEF SameBut
<1> QED BY <1>2, <1>3, <1>4, <1>5 DEF c, d

\* Who refers to a slot, and what that says about it.
LEMMA Owners ==
    ASSUME TypeOK, Held, Core
    PROVE  /\ \A q \in Senders : pc[q] \in HasSlot =>
                /\ my[q] \in Slots /\ my[q] # NoSlot /\ my[q] # wcur
                /\ slots[my[q]].used /\ ~slots[my[q]].flags.push
           /\ \A p, q \in Senders : my[p] = my[q] /\ my[p] # NoSlot => p = q
           /\ \A q \in Senders : my[q] # NoSlot => pc[q] \in HasSlot
           /\ wcur # NoSlot => wcur \in Slots /\ slots[wcur].used
           /\ \A q \in Senders : my[q] \in Slots => my[q] # NoSlot
<1>1. \A q \in Senders : pc[q] \in HasSlot => my[q] # NoSlot /\ my[q] \in Slots
  BY DEF TypeOK, Held
<1>2. wcur # NoSlot => wcur \in Slots /\ slots[wcur].used
  BY DEF TypeOK, Core, WorkerAtHead
<1>3. NoSlot \notin Slots
  BY DEF NoSlot, Slots
<1> QED BY <1>1, <1>2, <1>3 DEF Core, OneUser, Held

\* The same, for what the senders do with their slots.
LEMMA InUse ==
    /\ {"poll", "queue", "force", "send"} \subseteq HasSlot
    /\ {"push", "wait", "timedout", "release"} \subseteq HasSlot
    /\ "idle" \notin HasSlot /\ "resume" \notin HasSlot
    /\ "wake" \notin HasSlot /\ "wakeforce" \notin HasSlot
BY DEF HasSlot

\* What a step that touches neither the list nor the slots leaves as it was.
LEMMA SameView ==
    ASSUME UNCHANGED <<slots, cmds>>
    PROVE  /\ \A s : Listed(s)' <=> Listed(s)
           /\ \A s : InHand(s)' <=> InHand(s)
           /\ \A s : Deferred(s)' <=> Deferred(s)
BY DEF Listed, InHand, Deferred

\* Poll, the wakings, the expiry of timers, the worker's start and load, and an
\* answer that nobody takes only move a thread on.
LEMMA QuietHands ==
    ASSUME TypeOK, Held, Hands,
           UNCHANGED <<slots, cmds, heap, my, wcur>>, fw' \subseteq fw,
           \A q \in Senders :
                \/ pc'[q] = pc[q] \/ pc'[q] = "idle"
                \/ pc[q] = "poll" /\ pc'[q] = "queue"
                \/ pc[q] = "wait" /\ pc'[q] = "timedout",
           \/ wpc' = wpc /\ wflags' = wflags
           \/ wpc' = "scan"
           \/ wpc = "load" /\ wpc' = "store" /\ wflags' = slots[wcur].flags
           \/ wpc = "wait" /\ wpc' = "timedout"
    PROVE  Hands'
<1>1. SendersInHand'
  <2> SUFFICES ASSUME NEW q \in Senders
               PROVE  /\ pc'[q] # "release"
                      /\ pc'[q] \in {"poll", "queue", "force", "send"} => ~Listed(my[q])
                      /\ pc'[q] \in {"push", "wait", "timedout"} => InHand(my[q])
                      /\ pc'[q] = "push" => ~slots[my[q]].complete
                      /\ pc'[q] \in {"wait", "timedout"} => slots[my[q]].msg \notin heap
    BY SameView DEF SendersInHand
  <2> QED BY DEF Hands, SendersInHand
<1>2. WorkerInHand'
  BY SameView DEF Hands, WorkerInHand
<1>3. SlotsInUse'
  BY SameView DEF Hands, SlotsInUse
<1>4. HeadAnswered'
  BY DEF Hands, HeadAnswered
<1> QED BY <1>1, <1>2, <1>3, <1>4 DEF Hands

\* A slot that is not on the list is given back by the one that holds it.
LEMMA FreeHands ==
    ASSUME TypeOK, Held, Core, Hands, NEW s \in Slots, FreeCmd(s), ~Listed(s),
           UNCHANGED <<cmds, heap, fw, wflags>>,
           \/ \E p \in Senders : /\ my[p] = s /\ my' = [my EXCEPT ![p] = NoSlot]
                                 /\ \E l \in {"idle", "resume"} : GoTo(p, l)
                                 /\ UNCHANGED <<wpc, wcur>>
           \/ /\ s = wcur /\ wpc' = "scan" /\ wcur' = NoSlot
              /\ UNCHANGED <<my, pc>>
    PROVE  Hands'
<1>1. /\ SameBut(s) /\ ~slots'[s].used /\ slots'[s].msg = slots[s].msg
      /\ slots'[s].flags = slots[s].flags
  BY FreeFields
<1>2. \A t : Listed(t)' <=> Listed(t)
  BY DEF Listed
<1>3. \A t \in Slots : t # s => (InHand(t)' <=> InHand(t))
  BY <1>1, <1>2 DEF InHand, SameBut
<1>4. \A q \in Senders : pc'[q] \in HasSlot =>
            /\ pc'[q] = pc[q] /\ my'[q] = my[q] /\ my[q] \in Slots /\ my[q] # s
  <2>1. CASE s = wcur /\ UNCHANGED <<my, pc>>
    BY <2>1, Owners
  <2>2. ASSUME NEW p \in Senders, my[p] = s, my' = [my EXCEPT ![p] = NoSlot],
               NEW l \in {"idle", "resume"}, GoTo(p, l)
        PROVE  \A q \in Senders : pc'[q] \in HasSlot =>
            /\ pc'[q] = pc[q] /\ my'[q] = my[q] /\ my[q] \in Slots /\ my[q] # s
    <3>1. \A q \in Senders : pc'[q] = IF q = p THEN l ELSE pc[q]
      BY <2>2 DEF GoTo, TypeOK
    <3>2. \A q \in Senders : my'[q] = IF q = p THEN NoSlot ELSE my[q]
      BY <2>2 DEF TypeOK
    <3>3. l \notin HasSlot
      BY <2>2, InUse
    <3>4. s # NoSlot
      BY DEF Slots, NoSlot
    <3> QED BY <3>1, <3>2, <3>3, <3>4, <2>2, Owners
  <2> QED BY <2>1, <2>2
<1>5. \A q \in Senders : pc'[q] = pc[q] \/ pc'[q] \in {"idle", "resume"}
  BY DEF GoTo, TypeOK
<1>6. SendersInHand'
  <2> SUFFICES ASSUME NEW q \in Senders
               PROVE  /\ pc'[q] # "release"
                      /\ pc'[q] \in {"poll", "queue", "force", "send"} => ~Listed(my[q])'
                      /\ pc'[q] \in {"push", "wait", "timedout"} => InHand(my[q])'
                      /\ pc'[q] = "push" => ~slots'[my'[q]].complete
                      /\ pc'[q] \in {"wait", "timedout"} => slots'[my'[q]].msg \notin heap
    BY DEF SendersInHand
  <2>1. pc'[q] # "release"
    BY <1>5 DEF Hands, SendersInHand
  <2>2. CASE pc'[q] \in HasSlot
    <3>1. /\ my'[q] = my[q] /\ my[q] \in Slots /\ my[q] # s /\ pc'[q] = pc[q]
          /\ slots'[my[q]] = slots[my[q]]
      BY <2>2, <1>4, <1>1 DEF SameBut
    <3> QED BY <3>1, <2>1, <1>2, <1>3 DEF Hands, SendersInHand
  <2>3. CASE pc'[q] \notin HasSlot
    BY <2>3, <2>1, InUse
  <2> QED BY <2>2, <2>3
<1>7. WorkerInHand'
  <2>1. CASE wcur' = NoSlot
    BY <2>1 DEF WorkerInHand
  <2>2. CASE wcur' # NoSlot
    <3>1. wcur' = wcur /\ wpc' = wpc /\ wcur \in Slots /\ wcur # s
      BY <2>2, Owners DEF NoSlot, Slots
    <3>2. slots'[wcur] = slots[wcur] /\ (InHand(wcur)' <=> InHand(wcur))
      BY <3>1, <1>1, <1>3 DEF SameBut
    <3> QED BY <3>1, <3>2 DEF Hands, WorkerInHand
  <2> QED BY <2>1, <2>2
<1>8. SlotsInUse'
  <2> SUFFICES ASSUME NEW t \in Slots
               PROVE  /\ slots'[t].used =>
                            t = wcur' \/ Deferred(t)' \/ \E q \in Senders : my'[q] = t
                      /\ Listed(t)' =>
                            /\ slots'[t].used /\ ~slots'[t].complete
                            /\ \/ t = wcur' \/ slots'[t].flags.push
                               \/ \E q \in Senders : my'[q] = t
    BY DEF SlotsInUse
  <2>1. CASE t = s
    BY <2>1, <1>1, <1>2
  <2>2. CASE t # s
    <3>1. slots'[t] = slots[t] /\ (Deferred(t)' <=> Deferred(t))
      BY <2>2, <1>1, <1>2 DEF SameBut, Deferred
    <3>2. t = wcur => t = wcur'
      BY <2>2
    <3>3. \A q \in Senders : my[q] = t => my'[q] = t
      BY <2>2 DEF TypeOK
    <3> QED BY <3>1, <3>2, <3>3, <1>2 DEF Hands, SlotsInUse
  <2> QED BY <2>1, <2>2
<1>9. HeadAnswered'
  <2>1. cmds # <<>> => slots'[Head(cmds)] = slots[Head(cmds)]
    BY <1>1, HeadOfList DEF SameBut
  <2> QED BY <2>1 DEF Hands, HeadAnswered
<1> QED BY <1>6, <1>7, <1>8, <1>9 DEF Hands

\* The slot rwnx_cmd_malloc gives is nobody's, and it becomes the caller's.
LEMMA MallocHands ==
    ASSUME TypeOK, Held, Core, Hands, NEW p \in Senders, NEW r \in Requests,
           Malloc(p, r), ~oops'
    PROVE  Hands'
<1>1. PICK s \in Slots : /\ FirstFree(s) /\ Claim(s, r)
                         /\ my' = [my EXCEPT ![p] = s]
                         /\ GoTo(p, EntryPc[r.kind])
  BY DEF Malloc, Fault
<1>2. /\ UNCHANGED <<cmds, fw, wpc, wcur, wflags>> /\ heap' = heap \cup {calls + 1}
      /\ pc[p] = "idle"
  BY DEF Malloc, listVars, workerVars
<1>3. SameFlags /\ SameBut(s) /\ slots'[s].used
  BY <1>1, ClaimEffect
<1>4. ~slots[s].used
  BY <1>1 DEF FirstFree
<1>5. ~Listed(s) /\ s # wcur /\ \A q \in Senders : my[q] # s
  BY <1>4, Owners DEF Hands, SlotsInUse, Slots, NoSlot
<1>6. \A t : Listed(t)' <=> Listed(t)
  BY <1>2 DEF Listed
<1>7. \A t \in Slots : t # s => (InHand(t)' <=> InHand(t)) /\ slots'[t] = slots[t]
  BY <1>2, <1>3, <1>6 DEF InHand, SameBut
<1>8. EntryPc[r.kind] \in {"queue", "poll", "force", "send"}
  BY CmdMgrAssumption DEF CmdMgrAssumption, EntryPc, Kinds
<1>9. /\ \A q \in Senders : my'[q] = IF q = p THEN s ELSE my[q]
      /\ \A q \in Senders : pc'[q] = IF q = p THEN EntryPc[r.kind] ELSE pc[q]
  BY <1>1 DEF GoTo, TypeOK
<1>10. \A t \in Slots : slots[t].msg \in heap' <=> slots[t].msg \in heap
  <2>1. \A t \in Slots : slots[t].msg <= calls /\ slots[t].msg \in 0..MaxCalls
    BY PoolUpdates DEF Core, MessagesDistinct
  <2>2. calls \in Nat
    BY CmdMgrAssumption DEF TypeOK, CmdMgrAssumption
  <2> QED BY <2>1, <2>2, <1>2, CmdMgrAssumption DEF CmdMgrAssumption
<1>11. SendersInHand'
  <2> SUFFICES ASSUME NEW q \in Senders
               PROVE  /\ pc'[q] # "release"
                      /\ pc'[q] \in {"poll", "queue", "force", "send"} => ~Listed(my[q])'
                      /\ pc'[q] \in {"push", "wait", "timedout"} => InHand(my[q])'
                      /\ pc'[q] = "push" => ~slots'[my'[q]].complete
                      /\ pc'[q] \in {"wait", "timedout"} => slots'[my'[q]].msg \notin heap'
    BY DEF SendersInHand
  <2>1. CASE q = p
    BY <2>1, <1>5, <1>6, <1>8, <1>9
  <2>2. CASE q # p /\ pc[q] \in HasSlot
    <3>1. my'[q] = my[q] /\ my[q] \in Slots /\ my[q] # s /\ pc'[q] = pc[q]
      BY <2>2, <1>5, <1>9, Owners
    <3> QED BY <3>1, <1>6, <1>7, <1>10 DEF Hands, SendersInHand
  <2>3. CASE q # p /\ pc[q] \notin HasSlot
    <3>1. pc'[q] = pc[q]
      BY <2>3, <1>9
    <3> QED BY <3>1, <2>3, InUse
  <2> QED BY <2>1, <2>2, <2>3
<1>12. WorkerInHand'
  <2>1. wcur # NoSlot => wcur \in Slots
    BY Owners
  <2> QED BY <2>1, <1>2, <1>5, <1>7, <1>10 DEF Hands, WorkerInHand
<1>13. SlotsInUse'
  <2> SUFFICES ASSUME NEW t \in Slots
               PROVE  /\ slots'[t].used =>
                            t = wcur' \/ Deferred(t)' \/ \E q \in Senders : my'[q] = t
                      /\ Listed(t)' =>
                            /\ slots'[t].used /\ ~slots'[t].complete
                            /\ \/ t = wcur' \/ slots'[t].flags.push
                               \/ \E q \in Senders : my'[q] = t
    BY DEF SlotsInUse
  <2>1. CASE t = s
    BY <2>1, <1>5, <1>6, <1>9
  <2>2. CASE t # s
    <3>1. slots'[t] = slots[t] /\ (Deferred(t)' <=> Deferred(t))
      BY <2>2, <1>7, <1>6 DEF Deferred
    <3>2. my[p] \notin Slots
      BY <1>2, InUse, Owners
    <3>3. \A q \in Senders : my[q] = t => my'[q] = t
      BY <3>2, <1>9
    <3> QED BY <3>1, <3>3, <1>2, <1>6 DEF Hands, SlotsInUse
  <2> QED BY <2>1, <2>2
<1>14. HeadAnswered'
  <2> SUFFICES ASSUME NEW m \in fw
               PROVE  /\ cmds # <<>>
                      /\ m.msg = slots'[Head(cmds)].msg /\ m.id = slots'[Head(cmds)].id
                      /\ m.msg \notin heap'
    BY <1>2 DEF HeadAnswered
  <2>1. /\ cmds # <<>> /\ m.msg = slots[Head(cmds)].msg /\ m.id = slots[Head(cmds)].id
        /\ m.msg \notin heap
    BY DEF Hands, HeadAnswered
  <2>2. Head(cmds) \in Slots /\ Head(cmds) # s
    BY <2>1, HeadOfList, <1>5
  <2> QED BY <2>1, <2>2, <1>7, <1>10
<1> QED BY <1>11, <1>12, <1>13, <1>14 DEF Hands

\* A command that is sent by its caller is the only one on the list.
LEMMA QueueDirectHands ==
    ASSUME TypeOK, TypeOK', Held, Core, Hands, NEW p \in Senders, QueueDirect(p)
    PROVE  Hands' /\ cmds = <<>> /\ ~slots'[Head(cmds')].flags.push
<1> DEFINE s == my[p]
<1>1. /\ s \in Slots /\ s # NoSlot /\ s # wcur /\ slots[s].used /\ ~slots[s].flags.push
  BY Owners, InUse DEF QueueDirect
<1>2. cmds = <<>>
  <2> SUFFICES ASSUME cmds # <<>> PROVE FALSE
    OBVIOUS
  <2>1. Len(cmds) \in 1..Len(cmds)
    BY EmptySeq, LenProperties, ListElements DEF TypeOK
  <2> QED BY <2>1 DEF QueueDirect, LastBusy, Core, AllWaitCfm
<1>3. /\ Enlist(s, FALSE) /\ GoTo(p, "push") /\ UNCHANGED <<my, wpc, wcur, wflags, fw, heap>>
  BY DEF QueueDirect, workerVars, msgVars
<1> HIDE DEF s
<1>4. Queued(slots[s].flags, FALSE) \in Flags /\ ~Queued(slots[s].flags, FALSE).push
  BY <1>1, PoolUpdates, FlagUpdates, FlagValues
<1>5. /\ SameBut(s) /\ ~slots'[s].complete /\ slots'[s].used = slots[s].used
      /\ ~slots'[s].flags.push /\ slots'[s].msg = slots[s].msg
  <2>1. slots' = [slots EXCEPT ![s] = [@ EXCEPT !.complete = FALSE,
                                       !.flags = Queued(slots[s].flags, FALSE)]]
    BY <1>3 DEF Enlist
  <2> QED BY <2>1, <1>1, <1>4, UpdateFields
<1>6. (\A t : Listed(t)' <=> t = s) /\ cmds' # <<>> /\ Head(cmds') = s
  <2>1. cmds' = Append(cmds, s)
    BY <1>3 DEF Enlist
  <2>2. \A t : ~Listed(t)
    BY <1>2, ListedNonempty
  <2> QED BY <2>1, <2>2, <1>1, <1>2, EnlistList
<1>7. fw = {} /\ fw' = {}
  BY <1>2, <1>3 DEF Hands, HeadAnswered
<1>8. \A q \in Senders : pc'[q] = IF q = p THEN "push" ELSE pc[q]
  BY <1>3 DEF GoTo, TypeOK
<1>9. \A t \in Slots : t # s /\ InHand(t) =>
            InHand(t)' /\ slots[t].complete /\ slots'[t] = slots[t]
  BY <1>2, <1>5, <1>6 DEF InHand, SameBut
<1>10. SendersInHand'
  <2> SUFFICES ASSUME NEW q \in Senders
               PROVE  /\ pc'[q] # "release"
                      /\ pc'[q] \in {"poll", "queue", "force", "send"} => ~Listed(my[q])'
                      /\ pc'[q] \in {"push", "wait", "timedout"} => InHand(my[q])'
                      /\ pc'[q] = "push" => ~slots'[my'[q]].complete
                      /\ pc'[q] \in {"wait", "timedout"} => slots'[my'[q]].msg \notin heap'
    BY DEF SendersInHand
  <2>1. CASE q = p
    BY <2>1, <1>3, <1>5, <1>6, <1>8 DEF InHand, s
  <2>2. CASE q # p /\ pc[q] \in HasSlot
    <3>1. my'[q] = my[q] /\ my[q] \in Slots /\ my[q] # s /\ pc'[q] = pc[q]
      BY <2>2, <1>1, <1>3, <1>8, Owners DEF s
    <3> QED BY <3>1, <1>3, <1>6, <1>9 DEF Hands, SendersInHand
  <2>3. CASE q # p /\ pc[q] \notin HasSlot
    <3>1. pc'[q] = pc[q]
      BY <2>3, <1>8
    <3> QED BY <3>1, <2>3, InUse
  <2> QED BY <2>1, <2>2, <2>3
<1>11. WorkerInHand'
  <2>1. wcur # NoSlot => wcur \in Slots
    BY Owners
  <2> QED BY <2>1, <1>1, <1>3, <1>9 DEF Hands, WorkerInHand
<1>12. SlotsInUse'
  <2> SUFFICES ASSUME NEW t \in Slots
               PROVE  /\ slots'[t].used =>
                            t = wcur' \/ Deferred(t)' \/ \E q \in Senders : my'[q] = t
                      /\ Listed(t)' =>
                            /\ slots'[t].used /\ ~slots'[t].complete
                            /\ \/ t = wcur' \/ slots'[t].flags.push
                               \/ \E q \in Senders : my'[q] = t
    BY DEF SlotsInUse
  <2>1. CASE t = s
    BY <2>1, <1>1, <1>3, <1>5 DEF s
  <2>2. CASE t # s
    <3>1. slots'[t] = slots[t] /\ ~Listed(t) /\ ~Listed(t)'
      BY <2>2, <1>2, <1>5, <1>6, ListedNonempty DEF SameBut
    <3> QED BY <3>1, <1>3 DEF Hands, SlotsInUse, Deferred
  <2> QED BY <2>1, <2>2
<1> QED BY <1>2, <1>5, <1>6, <1>7, <1>10, <1>11, <1>12 DEF Hands, HeadAnswered

\* A deferred command joins the list, and its caller leaves it there.
LEMMA QueueDeferredHands ==
    ASSUME TypeOK, TypeOK', Held, Core, Hands, NEW p \in Senders, QueueDeferred(p)
    PROVE  Hands'
<1> DEFINE s == my[p]
<1>1. /\ s \in Slots /\ s # NoSlot /\ s # wcur /\ slots[s].used /\ ~Listed(s)
  BY Owners, InUse DEF QueueDeferred
<1>2. /\ Enlist(s, TRUE) /\ my' = [my EXCEPT ![p] = NoSlot]
      /\ \E l \in {"wake", "wakeforce"} : GoTo(p, l)
      /\ UNCHANGED <<wpc, wcur, wflags, fw, heap>>
  BY DEF QueueDeferred, workerVars, msgVars
<1> HIDE DEF s
<1>3. Queued(slots[s].flags, TRUE) \in Flags /\ Queued(slots[s].flags, TRUE).push
  BY <1>1, PoolUpdates, FlagUpdates, FlagValues
<1>4. /\ SameBut(s) /\ ~slots'[s].complete /\ slots'[s].used = slots[s].used
      /\ slots'[s].flags.push /\ slots'[s].msg = slots[s].msg
  <2>1. slots' = [slots EXCEPT ![s] = [@ EXCEPT !.complete = FALSE,
                                       !.flags = Queued(slots[s].flags, TRUE)]]
    BY <1>2 DEF Enlist
  <2> QED BY <2>1, <1>1, <1>3, UpdateFields
<1>5. /\ \A t : Listed(t)' <=> Listed(t) \/ t = s
      /\ cmds' # <<>> /\ Head(cmds') = IF cmds = <<>> THEN s ELSE Head(cmds)
  <2>1. cmds' = Append(cmds, s)
    BY <1>2 DEF Enlist
  <2> QED BY <2>1, <1>1, EnlistList
<1>6. /\ \A q \in Senders : q # p => pc'[q] = pc[q] /\ my'[q] = my[q]
      /\ pc'[p] \in {"wake", "wakeforce"}
  BY <1>2 DEF GoTo, TypeOK
<1>7. \A t \in Slots : t # s => slots'[t] = slots[t] /\ (InHand(t) => InHand(t)')
  BY <1>4, <1>5 DEF InHand, SameBut
<1>8. SendersInHand'
  <2> SUFFICES ASSUME NEW q \in Senders
               PROVE  /\ pc'[q] # "release"
                      /\ pc'[q] \in {"poll", "queue", "force", "send"} => ~Listed(my[q])'
                      /\ pc'[q] \in {"push", "wait", "timedout"} => InHand(my[q])'
                      /\ pc'[q] = "push" => ~slots'[my'[q]].complete
                      /\ pc'[q] \in {"wait", "timedout"} => slots'[my'[q]].msg \notin heap'
    BY DEF SendersInHand
  <2>1. CASE q = p
    BY <2>1, <1>6
  <2>2. CASE q # p /\ pc[q] \in HasSlot
    <3>1. my'[q] = my[q] /\ my[q] \in Slots /\ my[q] # s /\ pc'[q] = pc[q]
      BY <2>2, <1>1, <1>6, Owners DEF s
    <3> QED BY <3>1, <1>2, <1>5, <1>7 DEF Hands, SendersInHand
  <2>3. CASE q # p /\ pc[q] \notin HasSlot
    <3>1. pc'[q] = pc[q]
      BY <2>3, <1>6
    <3> QED BY <3>1, <2>3, InUse
  <2> QED BY <2>1, <2>2, <2>3
<1>9. WorkerInHand'
  <2>1. wcur # NoSlot => wcur \in Slots
    BY Owners
  <2> QED BY <2>1, <1>1, <1>2, <1>7 DEF Hands, WorkerInHand
<1>10. SlotsInUse'
  <2> SUFFICES ASSUME NEW t \in Slots
               PROVE  /\ slots'[t].used =>
                            t = wcur' \/ Deferred(t)' \/ \E q \in Senders : my'[q] = t
                      /\ Listed(t)' =>
                            /\ slots'[t].used /\ ~slots'[t].complete
                            /\ \/ t = wcur' \/ slots'[t].flags.push
                               \/ \E q \in Senders : my'[q] = t
    BY DEF SlotsInUse
  <2>1. CASE t = s
    BY <2>1, <1>1, <1>4, <1>5 DEF Deferred
  <2>2. CASE t # s
    <3>1. slots'[t] = slots[t] /\ (Deferred(t)' <=> Deferred(t))
      BY <2>2, <1>5, <1>7 DEF Deferred
    <3>2. \A q \in Senders : my[q] = t => my'[q] = t
      BY <2>2, <1>6 DEF s
    <3> QED BY <3>1, <3>2, <2>2, <1>2, <1>5 DEF Hands, SlotsInUse
  <2> QED BY <2>1, <2>2
<1>11. HeadAnswered'
  <2> SUFFICES ASSUME NEW m \in fw
               PROVE  /\ cmds' # <<>>
                      /\ m.msg = slots'[Head(cmds')].msg /\ m.id = slots'[Head(cmds')].id
                      /\ m.msg \notin heap
    BY <1>2 DEF HeadAnswered
  <2>1. /\ cmds # <<>> /\ m.msg = slots[Head(cmds)].msg /\ m.id = slots[Head(cmds)].id
        /\ m.msg \notin heap
    BY DEF Hands, HeadAnswered
  <2>2. Head(cmds) \in Slots /\ Head(cmds) # s
    BY <2>1, HeadOfList, <1>1
  <2> QED BY <2>1, <2>2, <1>5, <1>7
<1> QED BY <1>8, <1>9, <1>10, <1>11 DEF Hands

\* Handing the head to the firmware, by its caller or by the worker.
LEMMA PushHands ==
    ASSUME TypeOK, Held, Core, Hands, NEW s \in Slots, Transmit(s), FreeMsg(s),
           UNCHANGED <<slots, cmds, my, wcur, wflags>>, InHand(s), ~slots[s].complete,
           \/ \E p \in Senders : pc[p] = "push" /\ my[p] = s /\ GoTo(p, "wait")
                                 /\ wpc' = wpc
           \/ wpc = "push" /\ wcur = s /\ wpc' = "wait" /\ pc' = pc
    PROVE  Hands'
<1>1. Head(cmds) = s /\ cmds # <<>> /\ heap' = heap \ {slots[s].msg}
  BY DEF InHand, FreeMsg
<1>2. \A q \in Senders :
            pc'[q] = pc[q] \/ (pc[q] = "push" /\ pc'[q] = "wait" /\ my[q] = s)
  BY DEF GoTo, TypeOK
<1>3. SendersInHand'
  <2> SUFFICES ASSUME NEW q \in Senders
               PROVE  /\ pc'[q] # "release"
                      /\ pc'[q] \in {"poll", "queue", "force", "send"} => ~Listed(my[q])
                      /\ pc'[q] \in {"push", "wait", "timedout"} => InHand(my[q])
                      /\ pc'[q] = "push" => ~slots[my[q]].complete
                      /\ pc'[q] \in {"wait", "timedout"} => slots[my[q]].msg \notin heap'
    BY SameView DEF SendersInHand
  <2> QED BY <1>1, <1>2 DEF Hands, SendersInHand
<1>4. WorkerInHand'
  BY <1>1, SameView DEF Hands, WorkerInHand
<1>5. SlotsInUse'
  BY SameView DEF Hands, SlotsInUse
<1>6. HeadAnswered'
  <2> SUFFICES ASSUME NEW m \in fw'
               PROVE  /\ cmds # <<>>
                      /\ m.msg = slots[Head(cmds)].msg /\ m.id = slots[Head(cmds)].id
                      /\ m.msg \notin heap'
    BY DEF HeadAnswered
  <2>1. CASE m \in fw
    BY <2>1, <1>1 DEF Hands, HeadAnswered
  <2>2. CASE m = [msg |-> slots[s].msg, id |-> slots[s].id]
    BY <2>2, <1>1
  <2> QED BY <2>1, <2>2 DEF Transmit
<1> QED BY <1>3, <1>4, <1>5, <1>6 DEF Hands

LEMMA WorkerScanHands ==
    ASSUME TypeOK, Held, Core, Hands, WorkerScan
    PROVE  Hands'
<1>1. /\ UNCHANGED <<slots, cmds, my, pc, heap, fw>> /\ wcur = NoSlot /\ wcur' = NextCmd
      /\ wpc' = IF NextCmd = NoSlot THEN "idle" ELSE "load"
  BY DEF WorkerScan, senderVars, listVars, msgVars, Held
<1>2. SendersInHand' /\ HeadAnswered'
  BY <1>1, SameView DEF Hands, SendersInHand, HeadAnswered
<1>3. WorkerInHand'
  <2> SUFFICES ASSUME wcur' # NoSlot
               PROVE  InHand(wcur)' /\ ~slots[wcur'].complete /\ slots[wcur'].flags.push
    BY <1>1 DEF WorkerInHand
  <2>1. wcur' = Head(cmds) /\ cmds # <<>> /\ slots[Head(cmds)].flags.push
    BY <1>1 DEF NextCmd
  <2>2. Listed(Head(cmds)) /\ Head(cmds) \in Slots
    BY <2>1, HeadOfList
  <2>3. ~slots[Head(cmds)].complete
    BY <2>2 DEF Hands, SlotsInUse
  <2> QED BY <2>1, <2>3, <1>1 DEF InHand
<1>4. SlotsInUse'
  <2>1. \A t \in Slots : t # wcur
    BY <1>1 DEF Slots, NoSlot
  <2> QED BY <2>1, <1>1, SameView DEF Hands, SlotsInUse
<1> QED BY <1>2, <1>3, <1>4 DEF Hands

\* What the worker stores is what it loaded: only a confirmation could have
\* changed the flags in between, and none comes before the push.
LEMMA WorkerStoreHands ==
    ASSUME TypeOK, Held, Core, Hands, WorkerStore
    PROVE  Hands'
<1>1. /\ UNCHANGED <<cmds, my, pc, heap, fw, wcur>> /\ wpc' = "push"
      /\ wcur \in Slots /\ wcur # NoSlot
      /\ slots' = [slots EXCEPT ![wcur] = [@ EXCEPT !.flags = ClearPush(wflags)]]
  BY Owners DEF WorkerStore, senderVars, listVars, msgVars, Held
<1>2. ClearPush(wflags) \in Flags
  BY FlagUpdates DEF TypeOK
<1>3. /\ SameBut(wcur) /\ slots'[wcur].complete = slots[wcur].complete
      /\ slots'[wcur].used = slots[wcur].used
      /\ slots'[wcur].msg = slots[wcur].msg /\ slots'[wcur].id = slots[wcur].id
  BY <1>1, <1>2, UpdateFields
<1>4. InHand(wcur) /\ ~slots[wcur].complete
  BY <1>1 DEF Hands, WorkerInHand, WorkerStore
<1>5. \A t : Listed(t)' <=> Listed(t)
  BY <1>1 DEF Listed
<1>6. \A t \in Slots : t # wcur => slots'[t] = slots[t] /\ (InHand(t)' <=> InHand(t))
  BY <1>1, <1>3, <1>5 DEF InHand, SameBut
<1>7. SendersInHand'
  <2> SUFFICES ASSUME NEW q \in Senders
               PROVE  /\ pc[q] # "release"
                      /\ pc[q] \in {"poll", "queue", "force", "send"} => ~Listed(my[q])'
                      /\ pc[q] \in {"push", "wait", "timedout"} => InHand(my[q])'
                      /\ pc[q] = "push" => ~slots'[my[q]].complete
                      /\ pc[q] \in {"wait", "timedout"} => slots'[my[q]].msg \notin heap
    BY <1>1 DEF SendersInHand
  <2>1. CASE pc[q] \in HasSlot
    <3>1. my'[q] = my[q] /\ my[q] \in Slots /\ my[q] # wcur
      BY <2>1, <1>1, Owners
    <3> QED BY <3>1, <1>5, <1>6 DEF Hands, SendersInHand
  <2>2. CASE pc[q] \notin HasSlot
    BY <2>2, InUse
  <2> QED BY <2>1, <2>2
<1>8. WorkerInHand'
  <2>1. InHand(wcur)' /\ ~slots'[wcur].complete
    BY <1>1, <1>3, <1>4 DEF InHand
  <2> QED BY <2>1, <1>1 DEF WorkerInHand
<1>9. SlotsInUse'
  <2> SUFFICES ASSUME NEW t \in Slots
               PROVE  /\ slots'[t].used =>
                            t = wcur \/ Deferred(t)' \/ \E q \in Senders : my[q] = t
                      /\ Listed(t)' =>
                            /\ slots'[t].used /\ ~slots'[t].complete
                            /\ \/ t = wcur \/ slots'[t].flags.push
                               \/ \E q \in Senders : my[q] = t
    BY <1>1 DEF SlotsInUse
  <2>1. CASE t = wcur
    BY <2>1, <1>3, <1>4, <1>5 DEF Hands, SlotsInUse
  <2>2. CASE t # wcur
    <3>1. slots'[t] = slots[t] /\ (Deferred(t)' <=> Deferred(t))
      BY <2>2, <1>5, <1>6 DEF Deferred
    <3> QED BY <3>1, <1>5 DEF Hands, SlotsInUse
  <2> QED BY <2>1, <2>2
<1>10. HeadAnswered'
  <2> SUFFICES ASSUME NEW m \in fw
               PROVE  /\ cmds # <<>>
                      /\ m.msg = slots'[Head(cmds)].msg /\ m.id = slots'[Head(cmds)].id
                      /\ m.msg \notin heap
    BY <1>1 DEF HeadAnswered
  <2>1. /\ cmds # <<>> /\ m.msg = slots[Head(cmds)].msg /\ m.id = slots[Head(cmds)].id
        /\ m.msg \notin heap /\ Head(cmds) \in Slots
    BY HeadOfList DEF Hands, HeadAnswered
  <2> QED BY <2>1, <1>3, <1>6
<1> QED BY <1>7, <1>8, <1>9, <1>10 DEF Hands

\* The firmware answers the head of the list, which its holder has pushed and
\* is waiting for.
LEMMA ConfirmTakesHead ==
    ASSUME TypeOK, TypeOK', Held, Core, Hands, NEW m \in fw, Confirm(m)
    PROVE  /\ cmds # <<>> /\ Head(cmds) \in Slots /\ Listed(Head(cmds))
           /\ Unlink(1) /\ SameBut(Head(cmds))
           /\ slots'[Head(cmds)].complete /\ slots'[Head(cmds)].flags.done
           /\ slots'[Head(cmds)].used = slots[Head(cmds)].used
           /\ slots'[Head(cmds)].msg = slots[Head(cmds)].msg
           /\ slots[Head(cmds)].msg = m.msg /\ m.msg \notin heap
           /\ ~slots[Head(cmds)].flags.push /\ ~slots[Head(cmds)].complete
           /\ \A t : Listed(t)' <=> Listed(t) /\ t # Head(cmds)
           /\ fw' = {}
<1>1. /\ cmds # <<>> /\ m.msg = slots[Head(cmds)].msg /\ m.id = slots[Head(cmds)].id
      /\ m.msg \notin heap
  BY DEF Hands, HeadAnswered
<1>2. /\ Head(cmds) = cmds[1] /\ 1 \in 1..Len(cmds) /\ Head(cmds) \in Slots
      /\ Listed(Head(cmds)) /\ DOMAIN cmds = 1..Len(cmds) /\ Len(cmds) \in Nat
  BY <1>1, HeadOfList, LenProperties, ListElements DEF TypeOK
<1>3. Matches(1, m)
  BY <1>1, <1>2 DEF Matches, Core, AllWaitCfm
<1>4. PICK i \in DOMAIN cmds :
            /\ Taker(i, m) /\ Unlink(i)
            /\ slots' = [slots EXCEPT ![cmds[i]] =
                 [@ EXCEPT !.complete = TRUE,
                           !.flags = Answered(slots[cmds[i]].flags)]]
  BY DEF Confirm
<1>5. i = 1
  <2>1. i > 1 => 1 \in 1..(i - 1)
    BY <1>2, <1>4
  <2> QED BY <2>1, <1>2, <1>3, <1>4 DEF Taker
<1>6. Answered(slots[Head(cmds)].flags) \in Flags /\ Answered(slots[Head(cmds)].flags).done
  <2>1. slots[Head(cmds)].flags \in Flags
    BY <1>2, PoolUpdates
  <2> QED BY <2>1 DEF Answered, Flags
<1>7. /\ SameBut(Head(cmds)) /\ slots'[Head(cmds)].complete
      /\ slots'[Head(cmds)].flags.done
      /\ slots'[Head(cmds)].used = slots[Head(cmds)].used
      /\ slots'[Head(cmds)].msg = slots[Head(cmds)].msg
  <2>1. slots' = [slots EXCEPT ![Head(cmds)] =
                    [@ EXCEPT !.complete = TRUE,
                              !.flags = Answered(slots[Head(cmds)].flags)]]
    BY <1>2, <1>4, <1>5
  <2> QED BY <2>1, <1>2, <1>6, UpdateFields
<1>8. ~slots[Head(cmds)].flags.push /\ ~slots[Head(cmds)].complete
  BY <1>1, <1>2 DEF Core, MessagesHeld, Hands, SlotsInUse
<1>9. \A t : Listed(t)' <=> Listed(t) /\ t # Head(cmds)
  BY <1>1, <1>4, <1>5, UnlinkHead DEF Core
<1>10. fw' = {}
  <2>1. fw' = fw \ {m} /\ fw \subseteq [msg : 0..MaxCalls, id : Ids]
    BY DEF Confirm, TypeOK
  <2>2. ASSUME NEW n \in fw PROVE n = m
    <3>1. n.msg = m.msg /\ n.id = m.id
      BY <2>2, <1>1 DEF Hands, HeadAnswered
    <3> QED BY <3>1, <2>1
  <2> QED BY <2>1, <2>2
<1> QED BY <1>1, <1>2, <1>4, <1>5, <1>7, <1>8, <1>9, <1>10

LEMMA ConfirmHands ==
    ASSUME TypeOK, TypeOK', Held, Core, Hands, NEW m \in fw, Confirm(m)
    PROVE  Hands'
<1>0. PICK s : s = Head(cmds)
  OBVIOUS
<1>1. /\ cmds # <<>> /\ s \in Slots /\ Listed(s) /\ SameBut(s)
      /\ slots'[s].complete /\ slots'[s].flags.done /\ slots'[s].used = slots[s].used
      /\ slots'[s].msg = slots[s].msg /\ slots[s].msg \notin heap
      /\ ~slots[s].flags.push /\ ~slots[s].complete
      /\ (\A t : Listed(t)' <=> Listed(t) /\ t # s) /\ fw' = {}
  BY <1>0, ConfirmTakesHead
<1>2. UNCHANGED <<my, pc, wpc, wcur, wflags, heap>>
  BY DEF Confirm, senderVars, workerVars
<1>3. ASSUME NEW t \in Slots, t # s, InHand(t)
      PROVE  InHand(t)' /\ slots'[t] = slots[t]
  BY <1>0, <1>1, <1>3 DEF InHand, SameBut
<1>4. InHand(s)'
  BY <1>1 DEF InHand
<1>5. SendersInHand'
  <2> SUFFICES ASSUME NEW q \in Senders
               PROVE  /\ pc[q] # "release"
                      /\ pc[q] \in {"poll", "queue", "force", "send"} => ~Listed(my[q])'
                      /\ pc[q] \in {"push", "wait", "timedout"} => InHand(my[q])'
                      /\ pc[q] = "push" => ~slots'[my[q]].complete
                      /\ pc[q] \in {"wait", "timedout"} => slots'[my[q]].msg \notin heap
    BY <1>2 DEF SendersInHand
  <2>1. CASE pc[q] \in HasSlot /\ my[q] = s
    <3>1. pc[q] # "push"
      BY <2>1, <1>1 DEF Core, MessagesHeld
    <3> QED BY <3>1, <2>1, <1>1, <1>2, <1>4 DEF Hands, SendersInHand
  <2>2. CASE pc[q] \in HasSlot /\ my[q] # s
    <3>1. my'[q] = my[q] /\ my[q] \in Slots
      BY <2>2, <1>2, Owners
    <3> QED BY <3>1, <2>2, <1>1, <1>3 DEF Hands, SendersInHand
  <2>3. CASE pc[q] \notin HasSlot
    BY <2>3, InUse
  <2> QED BY <2>1, <2>2, <2>3
<1>6. WorkerInHand'
  <2>1. wcur # NoSlot => wcur \in Slots
    BY Owners
  <2>2. CASE wcur = s
    BY <2>2, <1>1, <1>2, <1>4 DEF Hands, WorkerInHand, Core, MessagesHeld
  <2>3. CASE wcur # s
    BY <2>1, <2>3, <1>1, <1>2, <1>3 DEF Hands, WorkerInHand
  <2> QED BY <2>2, <2>3
<1>7. SlotsInUse'
  <2> SUFFICES ASSUME NEW t \in Slots
               PROVE  /\ slots'[t].used =>
                            t = wcur \/ Deferred(t)' \/ \E q \in Senders : my[q] = t
                      /\ Listed(t)' =>
                            /\ slots'[t].used /\ ~slots'[t].complete
                            /\ \/ t = wcur \/ slots'[t].flags.push
                               \/ \E q \in Senders : my[q] = t
    BY <1>2 DEF SlotsInUse
  <2>1. CASE t = s
    BY <2>1, <1>1 DEF Hands, SlotsInUse
  <2>2. CASE t # s
    <3>1. slots'[t] = slots[t] /\ (Listed(t)' <=> Listed(t)) /\ (Deferred(t)' <=> Deferred(t))
      BY <2>2, <1>1 DEF Deferred, SameBut
    <3> QED BY <3>1 DEF Hands, SlotsInUse
  <2> QED BY <2>1, <2>2
<1> QED BY <1>1, <1>5, <1>6, <1>7 DEF Hands, HeadAnswered

-----------------------------------------------------------------------------
(* Every step of a clean state that leaves it clean keeps CleanCore *)

Waker(q) == \/ pc[q] \in {"wakeforce", "resume"}
            \/ pc[q] \in {"wait", "timedout"} /\ slots[my[q]].complete

\* Nobody who will wake the worker is lost, and no head becomes deferred.
LEMMA WakersStay ==
    ASSUME HeadHasWaker, usb' = usb, work => work', wpc' = "idle" => wpc = "idle",
           cmds' # <<>> /\ slots'[Head(cmds')].flags.push =>
                cmds # <<>> /\ slots[Head(cmds)].flags.push,
           \A q \in Senders : Waker(q) => Waker(q)'
    PROVE  HeadHasWaker'
BY DEF HeadHasWaker, Waker

\* A step of p with its own slot does not disturb the others who will wake.
LEMMA OthersWake ==
    ASSUME TypeOK, Held, Core, NEW p \in Senders, NEW s \in Slots, SameBut(s),
           ~Waker(p), s = my[p] \/ ~slots[s].used,
           \A q \in Senders : q # p => pc'[q] = pc[q] /\ my'[q] = my[q]
    PROVE  \A q \in Senders : Waker(q) => Waker(q)'
<1> SUFFICES ASSUME NEW q \in Senders, Waker(q) PROVE Waker(q)'
  OBVIOUS
<1>1. q # p /\ pc'[q] = pc[q] /\ my'[q] = my[q]
  OBVIOUS
<1>2. CASE pc[q] \in {"wakeforce", "resume"}
  BY <1>1, <1>2 DEF Waker
<1>3. CASE pc[q] \in {"wait", "timedout"} /\ slots[my[q]].complete
  <2>1. my[q] \in Slots /\ my[q] # s
    BY <1>1, <1>3, Owners, InUse
  <2> QED BY <2>1, <1>1, <1>3 DEF Waker, SameBut
<1> QED BY <1>2, <1>3 DEF Waker

\* A step that frees or claims a slot off the list leaves the head as it was.
LEMMA SameHead ==
    ASSUME TypeOK, NEW s \in Slots, SameBut(s), ~Listed(s), cmds' = cmds
    PROVE  cmds' # <<>> /\ slots'[Head(cmds')].flags.push =>
                cmds # <<>> /\ slots[Head(cmds)].flags.push
BY HeadOfList DEF SameBut

LEMMA FreeOwnClean ==
    ASSUME TypeOK, Held, Core, CleanCore, NEW p \in Senders,
           Refuse(p) \/ SendOneWay(p)
    PROVE  CleanCore'
<1>1. /\ pc[p] \in {"queue", "force", "send"} /\ FreeCmd(my[p])
      /\ my' = [my EXCEPT ![p] = NoSlot] /\ GoTo(p, "idle")
      /\ UNCHANGED <<cmds, heap, fw, wflags, wpc, wcur, usb, work>>
  BY DEF Refuse, SendOneWay, Return, listVars, workerVars, busVars, msgVars
<1>2. my[p] \in Slots /\ ~Listed(my[p])
  BY <1>1, Owners, InUse DEF CleanCore, SendersInHand
<1>3. Hands'
  BY <1>1, <1>2, FreeHands DEF CleanCore, Hands
<1>4. HeadHasWaker'
  <2>1. SameBut(my[p]) /\ ~Waker(p)
    BY <1>1, <1>2, FreeFields DEF Waker
  <2>2. \A q \in Senders : q # p => pc'[q] = pc[q] /\ my'[q] = my[q]
    BY <1>1 DEF GoTo, TypeOK
  <2>3. \A q \in Senders : Waker(q) => Waker(q)'
    BY <2>1, <2>2, <1>2, OthersWake
  <2>4. cmds' # <<>> /\ slots'[Head(cmds')].flags.push =>
                cmds # <<>> /\ slots[Head(cmds)].flags.push
    BY <2>1, <1>1, <1>2, SameHead
  <2> QED BY <2>3, <2>4, <1>1, WakersStay DEF CleanCore
<1> QED BY <1>3, <1>4 DEF CleanCore, Hands

LEMMA AwakeClean ==
    ASSUME TypeOK, Held, Core, CleanCore, NEW p \in Senders, Awake(p), ~killed'
    PROVE  CleanCore'
<1>1. /\ pc[p] = "wait" /\ FreeCmd(my[p])
      /\ my' = [my EXCEPT ![p] = NoSlot] /\ GoTo(p, "resume")
      /\ UNCHANGED <<cmds, heap, fw, wflags, wpc, wcur>> /\ slots[my[p]].complete
  BY DEF Awake, listVars, workerVars, msgVars
<1>2. my[p] \in Slots /\ ~Listed(my[p])
  BY <1>1, Owners, InUse DEF CleanCore, SendersInHand, InHand
<1>3. Hands'
  BY <1>1, <1>2, FreeHands DEF CleanCore, Hands
<1>4. HeadHasWaker'
  <2>1. pc'[p] = "resume"
    BY <1>1 DEF GoTo, TypeOK
  <2> QED BY <2>1 DEF HeadHasWaker
<1> QED BY <1>3, <1>4 DEF CleanCore, Hands

LEMMA MallocClean ==
    ASSUME TypeOK, Held, Core, CleanCore, NEW p \in Senders, NEW r \in Requests,
           Malloc(p, r), ~oops'
    PROVE  CleanCore'
<1>1. Hands'
  BY MallocHands DEF CleanCore, Hands
<1>2. PICK s \in Slots : /\ FirstFree(s) /\ Claim(s, r)
                         /\ my' = [my EXCEPT ![p] = s]
                         /\ GoTo(p, EntryPc[r.kind])
  BY DEF Malloc, Fault
<1>3. pc[p] = "idle" /\ UNCHANGED <<cmds, usb, work, wpc>>
  BY DEF Malloc, listVars, workerVars, busVars
<1>4. SameBut(s) /\ ~slots[s].used /\ ~Listed(s) /\ ~Waker(p)
  BY <1>2, <1>3, ClaimEffect DEF FirstFree, CleanCore, SlotsInUse, Waker
<1>5. \A q \in Senders : q # p => pc'[q] = pc[q] /\ my'[q] = my[q]
  BY <1>2 DEF GoTo, TypeOK
<1>6. \A q \in Senders : Waker(q) => Waker(q)'
  BY <1>4, <1>5, OthersWake
<1>7. cmds' # <<>> /\ slots'[Head(cmds')].flags.push =>
                cmds # <<>> /\ slots[Head(cmds)].flags.push
  BY <1>3, <1>4, SameHead
<1>8. HeadHasWaker'
  BY <1>3, <1>6, <1>7, WakersStay DEF CleanCore
<1> QED BY <1>1, <1>8 DEF CleanCore, Hands

LEMMA QueueClean ==
    ASSUME TypeOK, TypeOK', Held, Core, CleanCore, NEW p \in Senders,
           QueueDirect(p) \/ QueueDeferred(p)
    PROVE  CleanCore'
<1>1. CASE QueueDirect(p)
  <2>1. Hands' /\ ~slots'[Head(cmds')].flags.push
    BY <1>1, QueueDirectHands DEF CleanCore, Hands
  <2> QED BY <2>1 DEF CleanCore, Hands, HeadHasWaker
<1>2. CASE QueueDeferred(p)
  <2>1. Hands'
    BY <1>2, QueueDeferredHands DEF CleanCore, Hands
  <2>2. /\ pc[p] \in {"queue", "force"} /\ Enlist(my[p], TRUE)
        /\ GoTo(p, IF pc[p] = "force" THEN "wakeforce" ELSE "wake")
        /\ my' = [my EXCEPT ![p] = NoSlot] /\ ~Listed(my[p])
        /\ pc[p] = "force" \/ LastBusy \/ slots[my[p]].id \in TrafficIds
        /\ UNCHANGED <<usb, work, wpc>>
    BY <1>2 DEF QueueDeferred, workerVars, busVars
  <2>3. my[p] \in Slots
    BY <2>2, Owners, InUse
  <2>4. SameBut(my[p])
    <3>1. Queued(slots[my[p]].flags, TRUE) \in Flags
      BY <2>3, PoolUpdates, FlagUpdates
    <3> QED BY <3>1, <2>2, <2>3, UpdateFields DEF Enlist
  <2>5. pc'[p] = IF pc[p] = "force" THEN "wakeforce" ELSE "wake"
    BY <2>2 DEF GoTo, TypeOK
  <2>6. CASE cmds = <<>>
    <3>1. ~LastBusy
      BY <2>6 DEF LastBusy
    <3> QED BY <3>1, <2>1, <2>2, <2>5 DEF CleanCore, Hands, HeadHasWaker
  <2>7. CASE cmds # <<>>
    <3>1. Head(cmds') = Head(cmds) /\ Head(cmds) \in Slots /\ Head(cmds) # my[p]
      BY <2>7, <2>2, <2>3, EnlistList, HeadOfList DEF Enlist
    <3>2. \A q \in Senders : q # p => pc'[q] = pc[q] /\ my'[q] = my[q]
      BY <2>2 DEF GoTo, TypeOK
    <3>3. ~Waker(p)
      BY <2>2 DEF Waker
    <3>4. \A q \in Senders : Waker(q) => Waker(q)'
      BY <3>2, <3>3, <2>3, <2>4, OthersWake
    <3>5. cmds' # <<>> /\ slots'[Head(cmds')].flags.push =>
                cmds # <<>> /\ slots[Head(cmds)].flags.push
      BY <3>1, <2>4, <2>7 DEF SameBut
    <3>6. HeadHasWaker'
      BY <3>4, <3>5, <2>2, WakersStay DEF CleanCore
    <3> QED BY <3>6, <2>1 DEF CleanCore, Hands
  <2> QED BY <2>6, <2>7
<1> QED BY <1>1, <1>2

LEMMA PushDirectClean ==
    ASSUME TypeOK, Held, Core, CleanCore, NEW p \in Senders, PushDirect(p)
    PROVE  CleanCore'
<1>1. /\ pc[p] = "push" /\ Transmit(my[p]) /\ FreeMsg(my[p]) /\ GoTo(p, "wait")
      /\ UNCHANGED <<slots, cmds, my, wcur, wflags, wpc>>
  BY DEF PushDirect, listVars, workerVars
<1>2. /\ my[p] \in Slots /\ InHand(my[p]) /\ ~slots[my[p]].complete
      /\ ~slots[my[p]].flags.push
  BY <1>1, Owners, InUse DEF CleanCore, SendersInHand
<1>3. Hands'
  BY <1>1, <1>2, PushHands DEF CleanCore, Hands
<1>4. Head(cmds) = my[p]
  BY <1>2 DEF InHand
<1>5. HeadHasWaker'
  BY <1>1, <1>2, <1>4 DEF HeadHasWaker
<1> QED BY <1>3, <1>5 DEF CleanCore, Hands

\* Poll, the wakings and the expiry of a sender's timer.
LEMMA MoveOnClean ==
    ASSUME TypeOK, Held, Core, CleanCore, NEW p \in Senders,
           Poll(p) \/ WakeAfterQueue(p) \/ WakeAfterWait(p) \/ TimerExpires(p)
    PROVE  CleanCore'
<1>1. UNCHANGED <<slots, cmds, heap, my, wcur, fw, wpc, wflags, usb>>
  BY DEF Poll, WakeAfterQueue, WakeAfterWait, TimerExpires, listVars, workerVars,
         busVars, msgVars
<1>2. \A q \in Senders : q # p => pc'[q] = pc[q]
  BY DEF Poll, WakeAfterQueue, WakeAfterWait, TimerExpires, GoTo, TypeOK
<1>3. \/ pc'[p] = "idle"
      \/ pc[p] = "poll" /\ pc'[p] = "queue"
      \/ pc[p] = "wait" /\ pc'[p] = "timedout"
  BY DEF Poll, WakeAfterQueue, WakeAfterWait, TimerExpires, GoTo, TypeOK
<1>4. Hands'
  <2>1. \A q \in Senders :
                \/ pc'[q] = pc[q] \/ pc'[q] = "idle"
                \/ pc[q] = "poll" /\ pc'[q] = "queue"
                \/ pc[q] = "wait" /\ pc'[q] = "timedout"
    BY <1>2, <1>3
  <2> QED BY <2>1, <1>1, QuietHands DEF CleanCore, Hands
<1>5. \A q \in Senders : q # p => (Waker(q) => Waker(q)')
  BY <1>1, <1>2 DEF Waker
<1>6. HeadHasWaker'
  <2> SUFFICES ASSUME TrafficIds = {}, usb = "UP", cmds # <<>>,
                      slots[Head(cmds)].flags.push, wpc = "idle", ~work'
               PROVE  \E q \in Senders : Waker(q)'
    BY <1>1 DEF HeadHasWaker, Waker
  <2>1. WorkLeft
    BY DEF WorkLeft
  <2>2. ~WakeAfterWait(p)
    BY <2>1 DEF WakeAfterWait
  <2>3. ~work
    BY <2>2 DEF Poll, WakeAfterQueue, TimerExpires
  <2>4. PICK q \in Senders : Waker(q)
    BY <2>3 DEF CleanCore, HeadHasWaker, Waker
  <2>5. ~Waker(p)
    <3>1. CASE WakeAfterQueue(p)
      BY <3>1 DEF WakeAfterQueue, Waker
    <3>2. CASE Poll(p) \/ TimerExpires(p)
      BY <3>2 DEF Poll, TimerExpires, Waker
    <3> QED BY <3>1, <3>2, <2>2
  <2> QED BY <2>4, <2>5, <1>5
<1> QED BY <1>4, <1>6 DEF CleanCore, Hands

LEMMA WorkerClean ==
    ASSUME TypeOK, Held, Core, CleanCore, WorkerStep, mgr' = "INITED"
    PROVE  CleanCore'
<1>1. CASE WorkerStart \/ WorkerLoad \/ WorkerTimerExpires
  <2>1. UNCHANGED <<slots, cmds, heap, my, pc, wcur, fw>> /\ wpc' # "idle"
    BY <1>1 DEF WorkerStart, WorkerLoad, WorkerTimerExpires, listVars, senderVars, msgVars
  <2>2. \/ wpc' = "scan"
        \/ wpc = "load" /\ wpc' = "store" /\ wflags' = slots[wcur].flags
        \/ wpc = "wait" /\ wpc' = "timedout"
    BY <1>1 DEF WorkerStart, WorkerLoad, WorkerTimerExpires
  <2>3. Hands'
    BY <2>1, <2>2, QuietHands DEF CleanCore, Hands
  <2> QED BY <2>1, <2>3 DEF CleanCore, Hands, HeadHasWaker
<1>2. CASE WorkerScan
  <2>1. Hands'
    BY <1>2, WorkerScanHands DEF CleanCore, Hands
  <2>2. HeadHasWaker'
    <3> SUFFICES ASSUME cmds' # <<>>, slots'[Head(cmds')].flags.push, wpc' = "idle"
                 PROVE  FALSE
      BY DEF HeadHasWaker
    <3>1. cmds # <<>> /\ slots[Head(cmds)].flags.push /\ NextCmd = NoSlot
      BY <1>2 DEF WorkerScan, listVars
    <3>2. NextCmd = Head(cmds) /\ Head(cmds) \in Slots
      BY <3>1, HeadOfList DEF NextCmd
    <3> QED BY <3>1, <3>2 DEF Slots, NoSlot
  <2> QED BY <2>1, <2>2 DEF CleanCore, Hands
<1>3. CASE WorkerStore
  <2>1. Hands' /\ wpc' = "push"
    BY <1>3, WorkerStoreHands DEF CleanCore, Hands, WorkerStore
  <2> QED BY <2>1 DEF CleanCore, Hands, HeadHasWaker
<1>4. CASE WorkerPush
  <2>1. /\ wpc = "push" /\ Transmit(wcur) /\ FreeMsg(wcur) /\ wpc' = "wait"
        /\ UNCHANGED <<slots, cmds, my, pc, wcur, wflags>>
    BY <1>4 DEF WorkerPush, listVars, senderVars
  <2>2. wcur \in Slots /\ InHand(wcur) /\ ~slots[wcur].complete
    BY <2>1, Owners DEF CleanCore, WorkerInHand, Held
  <2>3. Hands'
    BY <2>1, <2>2, PushHands DEF CleanCore, Hands
  <2> QED BY <2>1, <2>3 DEF CleanCore, Hands, HeadHasWaker
<1>5. CASE WorkerComplete
  <2>1. /\ wpc = "wait" /\ FreeCmd(wcur) /\ wpc' = "scan" /\ wcur' = NoSlot
        /\ UNCHANGED <<cmds, heap, fw, wflags, my, pc>> /\ slots[wcur].complete
    BY <1>5 DEF WorkerComplete, listVars, senderVars, msgVars
  <2>2. wcur \in Slots /\ ~Listed(wcur)
    BY <2>1, Owners DEF CleanCore, WorkerInHand, InHand, Held
  <2>3. Hands'
    BY <2>1, <2>2, FreeHands DEF CleanCore, Hands
  <2> QED BY <2>1, <2>3 DEF CleanCore, Hands, HeadHasWaker
<1>6. CASE WorkerTimeout
  BY <1>6 DEF WorkerTimeout, Crash
<1> QED BY <1>1, <1>2, <1>3, <1>4, <1>5, <1>6 DEF WorkerStep

\* The answer leaves a deferred command at the head only if the one that was
\* answered is somebody's who waits for it, or the worker's.
LEMMA BusClean ==
    ASSUME TypeOK, TypeOK', Held, Core, CleanCore, FirmwareStep \/ BusDown
    PROVE  CleanCore'
<1>1. ASSUME NEW m \in fw, Confirm(m) PROVE CleanCore'
  <2>1. Hands'
    BY <1>1, ConfirmHands DEF CleanCore, Hands
  <2>2. PICK s : s = Head(cmds)
    OBVIOUS
  <2>3. /\ s \in Slots /\ Listed(s) /\ slots'[s].complete /\ slots[s].msg \notin heap
        /\ ~slots[s].flags.push
    BY <1>1, <2>2, ConfirmTakesHead DEF CleanCore, Hands
  <2>4. UNCHANGED <<my, pc, wpc, wcur>>
    BY <1>1 DEF Confirm, senderVars, workerVars
  <2>5. HeadHasWaker'
    <3> SUFFICES ASSUME wpc = "idle"
                 PROVE  \E q \in Senders :
                            pc'[q] \in {"wait", "timedout"} /\ slots'[my'[q]].complete
      BY <2>4 DEF HeadHasWaker
    <3>1. wcur = NoSlot
      BY DEF Held
    <3>2. PICK q \in Senders : my[q] = s
      BY <2>3, <3>1 DEF CleanCore, SlotsInUse, Slots, NoSlot
    <3>3. pc[q] \in HasSlot
      BY <3>2, <2>3, Owners
    <3>4. pc[q] \notin {"poll", "queue", "force", "send", "push"}
      BY <3>2, <2>3 DEF CleanCore, SendersInHand, Core, MessagesHeld
    <3>5. pc[q] \in {"wait", "timedout"}
      BY <3>3, <3>4 DEF HasSlot, CleanCore, SendersInHand
    <3> QED BY <3>2, <3>5, <2>3, <2>4
  <2> QED BY <2>1, <2>5 DEF CleanCore, Hands
<1>2. ASSUME NEW m \in fw, Unclaimed(m) PROVE CleanCore'
  <2>1. /\ UNCHANGED <<slots, cmds, heap, my, pc, wcur, wpc, wflags, usb, work>>
        /\ fw' \subseteq fw
    BY <1>2 DEF Unclaimed, listVars, senderVars, workerVars, busVars
  <2>2. Hands'
    BY <2>1, QuietHands DEF CleanCore, Hands
  <2>3. HeadHasWaker'
    BY <2>1 DEF CleanCore, HeadHasWaker
  <2> QED BY <2>2, <2>3 DEF CleanCore, Hands
<1>3. CASE BusDown
  <2>1. /\ UNCHANGED <<slots, cmds, heap, my, pc, wcur, wpc, wflags>>
        /\ fw' = {} /\ usb' = "DOWN"
    BY <1>3 DEF BusDown, listVars, senderVars, workerVars
  <2>2. Hands'
    BY <2>1, QuietHands DEF CleanCore, Hands
  <2> QED BY <2>1, <2>2 DEF CleanCore, Hands, HeadHasWaker
<1> QED BY <1>1, <1>2, <1>3 DEF FirmwareStep

LEMMA SenderClean ==
    ASSUME TypeOK, TypeOK', Held, Core, CleanCore, NEW p \in Senders,
           SenderStep(p) \/ \E r \in Requests : Malloc(p, r),
           mgr # "DEINIT", mgr' = "INITED", ~killed', ~oops'
    PROVE  CleanCore'
<1>1. CASE LinkTwice(p) \/ UseAfterDeinit(p)
  BY <1>1 DEF LinkTwice, UseAfterDeinit, Fault
<1>2. CASE TimeoutDirect(p)
  BY <1>2 DEF TimeoutDirect, Crash
<1>3. CASE Release(p)
  BY <1>3 DEF Release, CleanCore, SendersInHand
<1> QED BY <1>1, <1>2, <1>3, FreeOwnClean, AwakeClean, MallocClean, QueueClean,
           PushDirectClean, MoveOnClean
        DEF SenderStep

\* What a thread of the command manager may do to the bus and the manager.
LEMMA ThreadSteps ==
    ASSUME (\E p \in Senders : SenderStep(p) \/ \E r \in Requests : Malloc(p, r))
           \/ WorkerStep \/ FirmwareStep
    PROVE  /\ UNCHANGED <<usb, dpc>> /\ (killed' = killed \/ killed')
           /\ mgr' = mgr \/ mgr' = "CRASHED"
<1>1. ASSUME NEW p \in Senders, SenderStep(p) \/ \E r \in Requests : Malloc(p, r)
      PROVE  /\ UNCHANGED <<usb, dpc>> /\ (killed' = killed \/ killed')
             /\ mgr' = mgr \/ mgr' = "CRASHED"
  <2>1. CASE Awake(p) \/ TimeoutDirect(p)
    BY <2>1 DEF Awake, TimeoutDirect, Crash, busVars
  <2>2. CASE Poll(p) \/ Refuse(p) \/ QueueDirect(p) \/ QueueDeferred(p) \/ LinkTwice(p)
    BY <2>2 DEF Poll, Refuse, QueueDirect, QueueDeferred, LinkTwice, busVars
  <2>3. CASE WakeAfterQueue(p) \/ PushDirect(p) \/ SendOneWay(p) \/ WakeAfterWait(p)
    BY <2>3 DEF WakeAfterQueue, PushDirect, SendOneWay, WakeAfterWait, busVars
  <2>4. CASE TimerExpires(p) \/ Release(p) \/ UseAfterDeinit(p)
             \/ \E r \in Requests : Malloc(p, r)
    BY <2>4 DEF TimerExpires, Release, UseAfterDeinit, Malloc, busVars
  <2> QED BY <1>1, <2>1, <2>2, <2>3, <2>4 DEF SenderStep
<1>2. ASSUME WorkerStep
      PROVE  /\ UNCHANGED <<usb, dpc, killed>> /\ (mgr' = mgr \/ mgr' = "CRASHED")
  BY <1>2 DEF WorkerStep, WorkerStart, WorkerScan, WorkerLoad, WorkerStore, WorkerPush,
              WorkerComplete, WorkerTimerExpires, WorkerTimeout, Crash, busVars
<1>3. ASSUME FirmwareStep PROVE UNCHANGED <<usb, dpc, killed, mgr>>
  BY <1>3 DEF FirmwareStep, Confirm, Unclaimed, busVars
<1> QED BY <1>1, <1>2, <1>3

\* What is over once does not come back.
LEMMA OneWay ==
    ASSUME TypeOK, [Next]_vars
    PROVE  /\ mgr' = "INITED" => mgr = "INITED"
           /\ dpc' = "up" => dpc = "up" /\ (mgr # "DEINIT" => mgr' # "DEINIT")
           /\ dpc' \in {"up", "drain"} => dpc \in {"up", "drain"}
           /\ ~killed' => ~killed
           /\ ~oops' => ~oops
           /\ usb' = "UP" => usb = "UP"
           /\ (usb = "UP" <=> dpc = "up") => (usb' = "UP" <=> dpc' = "up")
<1>1. CASE UNCHANGED vars
  BY <1>1, Zenon DEF vars, busVars
<1>2. ASSUME ~oops,
             \/ \E p \in Senders : SenderStep(p) \/ \E r \in Requests : Malloc(p, r)
             \/ WorkerStep \/ FirmwareStep
      PROVE  /\ UNCHANGED <<usb, dpc>> /\ (killed' = killed \/ killed')
             /\ mgr' = mgr \/ mgr' = "CRASHED"
  BY <1>2, ThreadSteps
<1>3. ASSUME ~oops, BusDown
      PROVE  usb' = "DOWN" /\ dpc' = "drain" /\ dpc = "up" /\ UNCHANGED <<killed, mgr>>
  BY <1>3 DEF BusDown
<1>4. ASSUME ~oops, Drain
      PROVE  usb' = usb /\ dpc' = "flush" /\ dpc = "drain" /\ UNCHANGED <<killed, mgr>>
  BY <1>4 DEF Drain
<1>5. ASSUME ~oops, Deinit
      PROVE  usb' = usb /\ dpc' = "done" /\ dpc = "flush" /\ mgr' = "DEINIT" /\ killed' = killed
  BY <1>5 DEF Deinit
<1> QED BY <1>1, <1>2, <1>3, <1>4, <1>5 DEF Next, Quiescent

\* While nothing is given up, only these steps are left.
LEMMA NextClean ==
    ASSUME IInv, IInv', [Next]_vars, Clean, Clean', CleanCore
    PROVE  CleanCore'
<1>1. TypeOK /\ TypeOK' /\ Held /\ Core /\ ~oops /\ ~oops' /\ ~killed'
      /\ mgr = "INITED" /\ mgr' = "INITED" /\ dpc' \in {"up", "drain"}
  BY DEF IInv, Clean
<1>2. CASE UNCHANGED vars
  <2>1. UNCHANGED <<slots, cmds, heap, my, pc, wcur, wpc, wflags, fw, usb, work>>
    BY <1>2 DEF vars, listVars, senderVars, workerVars, busVars, msgVars
  <2>2. Hands'
    BY <2>1, <1>1, QuietHands DEF CleanCore, Hands
  <2>3. HeadHasWaker'
    BY <2>1 DEF CleanCore, HeadHasWaker
  <2> QED BY <2>2, <2>3 DEF CleanCore, Hands
<1>3. CASE \E p \in Senders : SenderStep(p) \/ \E r \in Requests : Malloc(p, r)
  BY <1>1, <1>3, SenderClean
<1>4. CASE WorkerStep
  BY <1>1, <1>4, WorkerClean
<1>5. CASE FirmwareStep \/ BusDown
  BY <1>1, <1>5, BusClean
<1>6. ~Drain /\ ~Deinit
  BY <1>1 DEF Drain, Deinit
<1> QED BY <1>1, <1>2, <1>3, <1>4, <1>5, <1>6 DEF Next, Quiescent

-----------------------------------------------------------------------------
(* After a timeout: nothing is unlinked twice, and the pool suffices *)

Giving == {"push", "wait", "timedout"}

\* Who may give up finds the command where it was, or is done with it.
LEMMA FindsKept ==
    ASSUME TypeOK, Held, Core, GiveUpFinds,
           \A t \in Slots : t # wcur /\ Unlinkable(t) => Unlinkable(t)',
           \A q \in Senders : pc'[q] \in Giving =>
                pc[q] \in Giving /\ my'[q] = my[q],
           wcur' # NoSlot =>
                IF wpc' = "timedout" THEN Unlinkable(wcur)'
                ELSE Listed(wcur)' \/ slots'[wcur'].complete
    PROVE  GiveUpFinds'
<1>1. ASSUME NEW q \in Senders, pc'[q] \in {"push", "wait", "timedout"}
      PROVE  Unlinkable(my[q])'
  <2>1. pc[q] \in Giving /\ my'[q] = my[q]
    BY <1>1 DEF Giving
  <2>2. my[q] \in Slots /\ my[q] # wcur
    BY <2>1, Owners, InUse DEF Giving
  <2>3. Unlinkable(my[q])
    BY <2>1 DEF GiveUpFinds, Giving
  <2>4. PICK t \in Slots : t = my[q]
    BY <2>2
  <2>5. Unlinkable(t)'
    BY <2>2, <2>3, <2>4
  <2> QED BY <2>1, <2>4, <2>5 DEF Unlinkable, Listed
<1> QED BY <1>1 DEF GiveUpFinds

\* The slots of the senders do not become orphans, unless they are listed.
LEMMA OrphansOfUse ==
    ASSUME \A t \in Slots : slots'[t].used /\ (\A q \in Senders : my'[q] # t) =>
                slots[t].used /\ \A q \in Senders : my[q] # t
    PROVE  Orphans' \subseteq Orphans
BY DEF Orphans

Shrink == GiveUpFinds' /\ Orphans' \subseteq Orphans

LEMMA QuietShrink ==
    ASSUME TypeOK, Held, Core, GiveUpFinds, SameFlags, SameUse,
           UNCHANGED <<cmds, my, wcur>>,
           wcur # NoSlot /\ slots[wcur].complete => slots'[wcur].complete,
           \A q \in Senders : pc'[q] \in Giving => pc[q] \in Giving,
           wpc' = "timedout" => wpc = "timedout" \/ ~slots[wcur].complete,
           wpc = "timedout" => wpc' = "timedout"
    PROVE  Shrink
<1>1. \A t \in Slots : (Unlinkable(t)' <=> Unlinkable(t)) /\ (Listed(t)' <=> Listed(t))
  BY DEF Unlinkable, Listed, SameFlags
<1>2. wcur' # NoSlot =>
                IF wpc' = "timedout" THEN Unlinkable(wcur)'
                ELSE Listed(wcur)' \/ slots'[wcur'].complete
  <2> SUFFICES ASSUME wcur # NoSlot
               PROVE  IF wpc' = "timedout" THEN Unlinkable(wcur)'
                      ELSE Listed(wcur)' \/ slots'[wcur].complete
    OBVIOUS
  <2>1. PICK t \in Slots : t = wcur
    BY Owners
  <2>2. IF wpc' = "timedout" THEN Unlinkable(t) ELSE Listed(t) \/ slots[t].complete
    BY <2>1 DEF GiveUpFinds, Unlinkable
  <2>3. IF wpc' = "timedout" THEN Unlinkable(t)' ELSE Listed(t)' \/ slots'[t].complete
    BY <2>1, <2>2, <1>1
  <2> QED BY <2>1, <2>3 DEF Unlinkable, Listed
<1>3. GiveUpFinds'
  BY <1>1, <1>2, FindsKept
<1>4. Orphans' \subseteq Orphans
  BY OrphansOfUse DEF SameUse
<1> QED BY <1>3, <1>4 DEF Shrink

\* The end of a call, whatever became of the command.
LEMMA FreeShrink ==
    ASSUME TypeOK, Held, Core, GiveUpFinds, NEW s \in Slots, FreeCmd(s),
           UNCHANGED cmds,
           \/ \E p \in Senders : /\ my[p] = s /\ my' = [my EXCEPT ![p] = NoSlot]
                                 /\ \E l \in {"idle", "resume"} : GoTo(p, l)
                                 /\ UNCHANGED <<wpc, wcur>>
           \/ s = wcur /\ wcur' = NoSlot /\ UNCHANGED <<my, pc>>
    PROVE  Shrink
<1>1. SameFlags /\ SameBut(s) /\ ~slots'[s].used
  BY FreeCmdEffect, FreeFields
<1>2. \A t \in Slots : (Unlinkable(t)' <=> Unlinkable(t)) /\ (Listed(t)' <=> Listed(t))
  BY <1>1 DEF Unlinkable, Listed, SameFlags
<1>3. \A q \in Senders : pc'[q] \in Giving => pc[q] \in Giving /\ my'[q] = my[q]
  <2>1. CASE UNCHANGED <<my, pc>>
    BY <2>1
  <2>2. ASSUME NEW p \in Senders, my' = [my EXCEPT ![p] = NoSlot],
               NEW l \in {"idle", "resume"}, GoTo(p, l)
        PROVE  \A q \in Senders : pc'[q] \in Giving => pc[q] \in Giving /\ my'[q] = my[q]
    <3>1. \A q \in Senders : /\ pc'[q] = IF q = p THEN l ELSE pc[q]
                             /\ my'[q] = IF q = p THEN NoSlot ELSE my[q]
      BY <2>2 DEF GoTo, TypeOK
    <3> QED BY <3>1 DEF Giving
  <2> QED BY <2>1, <2>2
<1>4. wcur' # NoSlot =>
                IF wpc' = "timedout" THEN Unlinkable(wcur)'
                ELSE Listed(wcur)' \/ slots'[wcur'].complete
  <2> SUFFICES ASSUME wcur' # NoSlot
               PROVE  IF wpc' = "timedout" THEN Unlinkable(wcur)'
                      ELSE Listed(wcur)' \/ slots'[wcur'].complete
    OBVIOUS
  <2>1. PICK p \in Senders : my[p] = s /\ UNCHANGED <<wpc, wcur>>
    OBVIOUS
  <2>2. PICK t \in Slots : t = wcur /\ t # s
    BY <2>1, Owners
  <2>3. slots'[t] = slots[t]
    BY <2>2, <1>1 DEF SameBut
  <2>4. IF wpc = "timedout" THEN Unlinkable(t) ELSE Listed(t) \/ slots[t].complete
    BY <2>1, <2>2 DEF GiveUpFinds
  <2>5. IF wpc' = "timedout" THEN Unlinkable(t)' ELSE Listed(t)' \/ slots'[t].complete
    BY <2>1, <2>3, <2>4, <1>2
  <2> QED BY <2>1, <2>2, <2>5 DEF Unlinkable, Listed
<1>5. GiveUpFinds'
  BY <1>2, <1>3, <1>4, FindsKept
<1>6. Orphans' \subseteq Orphans
  <2> SUFFICES ASSUME NEW t \in Slots, slots'[t].used, \A q \in Senders : my'[q] # t
               PROVE  slots[t].used /\ \A q \in Senders : my[q] # t
    BY OrphansOfUse
  <2>1. t # s /\ slots'[t] = slots[t]
    BY <1>1 DEF SameBut
  <2>2. \A q \in Senders : my[q] # t
    BY <2>1 DEF TypeOK
  <2> QED BY <2>1, <2>2
<1> QED BY <1>5, <1>6 DEF Shrink

LEMMA MallocShrink ==
    ASSUME TypeOK, Held, Core, GiveUpFinds, NEW p \in Senders, NEW r \in Requests,
           Malloc(p, r), ~oops'
    PROVE  Shrink
<1>1. PICK s \in Slots : /\ FirstFree(s) /\ Claim(s, r)
                         /\ my' = [my EXCEPT ![p] = s]
                         /\ GoTo(p, EntryPc[r.kind])
  BY DEF Malloc, Fault
<1>2. UNCHANGED <<cmds, wpc, wcur>> /\ pc[p] = "idle"
  BY DEF Malloc, listVars, workerVars
<1>3. SameFlags /\ SameBut(s)
  BY <1>1, ClaimEffect
<1>4. ~slots[s].used /\ s # wcur
  BY <1>1, Owners DEF FirstFree, Slots, NoSlot
<1>5. \A t \in Slots : (Unlinkable(t)' <=> Unlinkable(t)) /\ (Listed(t)' <=> Listed(t))
  BY <1>2, <1>3 DEF Unlinkable, Listed, SameFlags
<1>6. EntryPc[r.kind] \in {"queue", "poll", "force", "send"}
  BY CmdMgrAssumption DEF CmdMgrAssumption, EntryPc, Kinds
<1>7. /\ \A q \in Senders : my'[q] = IF q = p THEN s ELSE my[q]
      /\ \A q \in Senders : pc'[q] = IF q = p THEN EntryPc[r.kind] ELSE pc[q]
  BY <1>1 DEF GoTo, TypeOK
<1>8. \A q \in Senders : pc'[q] \in Giving => pc[q] \in Giving /\ my'[q] = my[q]
  BY <1>6, <1>7 DEF Giving
<1>9. wcur' # NoSlot =>
                IF wpc' = "timedout" THEN Unlinkable(wcur)'
                ELSE Listed(wcur)' \/ slots'[wcur'].complete
  <2> SUFFICES ASSUME wcur # NoSlot
               PROVE  IF wpc' = "timedout" THEN Unlinkable(wcur)'
                      ELSE Listed(wcur)' \/ slots'[wcur].complete
    BY <1>2
  <2>1. PICK t \in Slots : t = wcur /\ t # s
    BY <1>4, Owners
  <2>2. slots'[t] = slots[t]
    BY <2>1, <1>3 DEF SameBut
  <2>3. IF wpc' = "timedout" THEN Unlinkable(t)' ELSE Listed(t)' \/ slots'[t].complete
    BY <2>1, <2>2, <1>2, <1>5 DEF GiveUpFinds
  <2> QED BY <1>2, <2>1, <2>3 DEF Unlinkable, Listed
<1>10. GiveUpFinds'
  BY <1>5, <1>8, <1>9, FindsKept
<1>11. Orphans' \subseteq Orphans
  <2> SUFFICES ASSUME NEW t \in Slots, slots'[t].used, \A q \in Senders : my'[q] # t
               PROVE  slots[t].used /\ \A q \in Senders : my[q] # t
    BY OrphansOfUse
  <2>1. t # s /\ my[p] \notin Slots
    BY <1>2, <1>7, Owners, InUse
  <2>2. \A q \in Senders : my[q] # t
    BY <2>1, <1>7
  <2> QED BY <2>1, <2>2, <1>3 DEF SameBut
<1> QED BY <1>10, <1>11 DEF Shrink

\* Queueing makes the command listed.  It may leave an orphan on the list, which
\* counts only while the manager is not crashed.
LEMMA QueueFinds ==
    ASSUME TypeOK, TypeOK', Held, Core, GiveUpFinds, NEW p \in Senders,
           QueueDirect(p) \/ QueueDeferred(p)
    PROVE  GiveUpFinds'
<1>1. my[p] \in Slots /\ my[p] # NoSlot /\ my[p] # wcur
  BY Owners, InUse DEF QueueDirect, QueueDeferred
<1>2. PICK d \in BOOLEAN : Enlist(my[p], d)
  BY DEF QueueDirect, QueueDeferred
<1>3. UNCHANGED <<wpc, wcur>>
  BY DEF QueueDirect, QueueDeferred, workerVars
<1>4. SameBut(my[p])
  <2>1. Queued(slots[my[p]].flags, d) \in Flags
    BY <1>1, PoolUpdates, FlagUpdates
  <2> QED BY <2>1, <1>1, <1>2, UpdateFields DEF Enlist
<1>5. PICK s \in Slots : s = my[p]
  BY <1>1
<1>6. \A t : Listed(t)' <=> Listed(t) \/ t = s
  BY <1>2, <1>5, EnlistList DEF Enlist
<1>7. \A t \in Slots : Unlinkable(t) => Unlinkable(t)'
  BY <1>4, <1>5, <1>6 DEF Unlinkable, SameBut
<1>8. \A q \in Senders : q # p => pc'[q] = pc[q] /\ my'[q] = my[q]
  BY DEF QueueDirect, QueueDeferred, GoTo, TypeOK
<1>9. ASSUME NEW q \in Senders, pc'[q] \in {"push", "wait", "timedout"}
      PROVE  Unlinkable(my[q])'
  <2>1. CASE q = p
    <3>1. pc'[p] = "push" /\ my' = my
      BY <1>9, <2>1 DEF QueueDirect, QueueDeferred, GoTo, TypeOK
    <3> QED BY <3>1, <2>1, <1>5, <1>6 DEF Unlinkable
  <2>2. CASE q # p
    <3>1. pc'[q] = pc[q] /\ my'[q] = my[q] /\ my[q] \in Slots /\ Unlinkable(my[q])
      BY <1>8, <1>9, <2>2, Owners, InUse DEF GiveUpFinds
    <3>2. PICK t \in Slots : t = my[q]
      BY <3>1
    <3>3. Unlinkable(t)'
      BY <3>1, <3>2, <1>7
    <3> QED BY <3>1, <3>2, <3>3 DEF Unlinkable, Listed
  <2> QED BY <2>1, <2>2
<1>10. wcur' # NoSlot =>
                IF wpc' = "timedout" THEN Unlinkable(wcur)'
                ELSE Listed(wcur)' \/ slots'[wcur'].complete
  <2> SUFFICES ASSUME wcur # NoSlot
               PROVE  IF wpc' = "timedout" THEN Unlinkable(wcur)'
                      ELSE Listed(wcur)' \/ slots'[wcur].complete
    BY <1>3
  <2>1. PICK t \in Slots : t = wcur /\ t # s
    BY <1>1, <1>5, Owners
  <2>2. slots'[t] = slots[t]
    BY <2>1, <1>4, <1>5 DEF SameBut
  <2>3. IF wpc' = "timedout" THEN Unlinkable(t)' ELSE Listed(t)' \/ slots'[t].complete
    BY <2>1, <2>2, <1>3, <1>6, <1>7 DEF GiveUpFinds
  <2> QED BY <1>3, <2>1, <2>3 DEF Unlinkable, Listed
<1> QED BY <1>9, <1>10 DEF GiveUpFinds

\* Taking one command off the list leaves the others on it.
LEMMA UnlinkKeeps ==
    ASSUME TypeOK, TypeOK', NEW i \in 1..Len(cmds), Unlink(i)
    PROVE  \A t : Listed(t) /\ t # cmds[i] => Listed(t)'
<1>1. /\ Len(cmds') = Len(cmds) - 1 /\ Len(cmds) \in Nat
      /\ \A j \in 1..(Len(cmds) - 1) :
            cmds'[j] = IF j < i THEN cmds[j] ELSE cmds[j + 1]
  BY RemoveAtProperties, ListElements DEF Unlink, TypeOK
<1>2. \A t : Listed(t)' <=> \E j \in 1..Len(cmds') : cmds'[j] = t
  <2>1. DOMAIN cmds' = 1..Len(cmds')
    BY LenProperties DEF TypeOK
  <2> QED BY <2>1 DEF Listed, Range
<1> SUFFICES ASSUME NEW t, Listed(t), t # cmds[i] PROVE Listed(t)'
  OBVIOUS
<1>3. PICK k \in 1..Len(cmds) : cmds[k] = t
  BY ListedIndex
<1>4. CASE k < i
  BY <1>1, <1>2, <1>3, <1>4
<1>5. CASE k > i
  <2>1. k - 1 \in 1..(Len(cmds) - 1) /\ ~(k - 1 < i) /\ (k - 1) + 1 = k
    BY <1>1, <1>3, <1>5
  <2> QED BY <2>1, <1>1, <1>2, <1>3
<1> QED BY <1>1, <1>3, <1>4, <1>5

LEMMA ConfirmShrink ==
    ASSUME TypeOK, TypeOK', Held, Core, GiveUpFinds, NEW m \in fw, Confirm(m)
    PROVE  Shrink
<1>1. PICK i \in 1..Len(cmds) :
            /\ Unlink(i)
            /\ slots' = [slots EXCEPT ![cmds[i]] =
                 [@ EXCEPT !.complete = TRUE,
                           !.flags = Answered(slots[cmds[i]].flags)]]
  <2>1. DOMAIN cmds = 1..Len(cmds)
    BY LenProperties DEF TypeOK
  <2>2. \E i \in DOMAIN cmds :
            /\ Unlink(i)
            /\ slots' = [slots EXCEPT ![cmds[i]] =
                 [@ EXCEPT !.complete = TRUE,
                           !.flags = Answered(slots[cmds[i]].flags)]]
    BY DEF Confirm
  <2> QED BY <2>1, <2>2
<1>2. PICK s \in Slots : s = cmds[i]
  BY ListElements
<1>3. Answered(slots[s].flags) \in Flags /\ Answered(slots[s].flags).done
  <2>1. slots[s].flags \in Flags
    BY PoolUpdates
  <2> QED BY <2>1 DEF Answered, Flags
<1>4. /\ SameBut(s) /\ slots'[s].complete /\ slots'[s].flags.done
      /\ slots'[s].used = slots[s].used
  BY <1>1, <1>2, <1>3, UpdateFields
<1>5. UNCHANGED <<my, pc, wpc, wcur>>
  BY DEF Confirm, senderVars, workerVars
<1>6. \A t : Listed(t) /\ t # s => Listed(t)'
  BY <1>1, <1>2, UnlinkKeeps
<1>7. \A t \in Slots : Unlinkable(t) => Unlinkable(t)'
  BY <1>4, <1>6 DEF Unlinkable, SameBut
<1>8. wcur' # NoSlot =>
                IF wpc' = "timedout" THEN Unlinkable(wcur)'
                ELSE Listed(wcur)' \/ slots'[wcur'].complete
  <2> SUFFICES ASSUME wcur # NoSlot
               PROVE  IF wpc' = "timedout" THEN Unlinkable(wcur)'
                      ELSE Listed(wcur)' \/ slots'[wcur].complete
    BY <1>5
  <2>1. PICK t \in Slots : t = wcur
    BY Owners
  <2>2. IF wpc = "timedout" THEN Unlinkable(t) ELSE Listed(t) \/ slots[t].complete
    BY <2>1 DEF GiveUpFinds
  <2>3. slots[t].complete => slots'[t].complete
    BY <1>4 DEF SameBut
  <2>4. Listed(t) => Listed(t)' \/ slots'[t].complete
    BY <1>4, <1>6
  <2>5. IF wpc' = "timedout" THEN Unlinkable(t)' ELSE Listed(t)' \/ slots'[t].complete
    BY <2>2, <2>3, <2>4, <1>5, <1>7
  <2> QED BY <1>5, <2>1, <2>5 DEF Unlinkable, Listed
<1>9. GiveUpFinds'
  BY <1>5, <1>7, <1>8, FindsKept
<1>10. Orphans' \subseteq Orphans
  BY <1>4, <1>5, OrphansOfUse DEF SameBut
<1> QED BY <1>9, <1>10 DEF Shrink

\* Giving a command up.
LEMMA GiveUpShrink ==
    ASSUME TypeOK, TypeOK', Held, Core, GiveUpFinds, NEW s \in Slots, GiveUp(s), ~oops',
           my' = my,
           \/ \E p \in Senders : my[p] = s /\ GoTo(p, "release") /\ UNCHANGED <<wpc, wcur>>
           \/ s = wcur /\ wcur' = NoSlot /\ UNCHANGED pc
    PROVE  Shrink
<1>1. /\ SameBut(s) /\ slots'[s].used = slots[s].used
      /\ \A t \in Slots : t # s => (Listed(t) => Listed(t)')
  <2>1. CASE UNCHANGED <<slots, listVars, oops>>
    BY <2>1 DEF SameBut, Listed, listVars
  <2>2. CASE /\ Listed(s) /\ Unlink(Position(s))
             /\ slots' = [slots EXCEPT ![s] = [@ EXCEPT !.flags = Done(slots[s].flags)]]
    <3>1. Done(slots[s].flags) \in Flags
      BY PoolUpdates, FlagUpdates
    <3>2. SameBut(s) /\ slots'[s].used = slots[s].used
      BY <2>2, <3>1, UpdateFields
    <3>3. Position(s) \in 1..Len(cmds) /\ cmds[Position(s)] = s
      BY <2>2, PositionProperties
    <3>4. \A t : Listed(t) /\ t # s => Listed(t)'
      BY <2>2, <3>3, UnlinkKeeps
    <3> QED BY <3>2, <3>4
  <2> QED BY <2>1, <2>2 DEF GiveUp, Fault
<1>2. \A t \in Slots : t # s /\ Unlinkable(t) => Unlinkable(t)'
  BY <1>1 DEF Unlinkable, SameBut
<1>3. ASSUME NEW q \in Senders, pc'[q] \in {"push", "wait", "timedout"}
      PROVE  Unlinkable(my[q])'
  <2>1. pc'[q] = pc[q] /\ my[q] # s
    <3>1. CASE s = wcur /\ UNCHANGED pc
      BY <3>1, <1>3, Owners, InUse
    <3>2. ASSUME NEW p \in Senders, my[p] = s, GoTo(p, "release")
          PROVE  pc'[q] = pc[q] /\ my[q] # s
      <4>1. q # p /\ pc'[q] = pc[q]
        BY <3>2, <1>3 DEF GoTo, TypeOK
      <4> QED BY <4>1, <3>2, Owners
    <3> QED BY <3>1, <3>2
  <2>2. PICK t \in Slots : t = my[q]
    BY <2>1, <1>3, Owners, InUse
  <2>3. Unlinkable(t)'
    BY <2>1, <2>2, <1>2, <1>3 DEF GiveUpFinds
  <2> QED BY <2>2, <2>3 DEF Unlinkable, Listed
<1>4. wcur' # NoSlot =>
                IF wpc' = "timedout" THEN Unlinkable(wcur)'
                ELSE Listed(wcur)' \/ slots'[wcur'].complete
  <2> SUFFICES ASSUME wcur' # NoSlot
               PROVE  IF wpc' = "timedout" THEN Unlinkable(wcur)'
                      ELSE Listed(wcur)' \/ slots'[wcur'].complete
    OBVIOUS
  <2>1. PICK p \in Senders : my[p] = s /\ UNCHANGED <<wpc, wcur>>
    OBVIOUS
  <2>2. PICK t \in Slots : t = wcur /\ t # s
    BY <2>1, Owners
  <2>3. IF wpc' = "timedout" THEN Unlinkable(t)' ELSE Listed(t)' \/ slots'[t].complete
    BY <2>1, <2>2, <1>1, <1>2 DEF GiveUpFinds, SameBut
  <2> QED BY <2>1, <2>2, <2>3 DEF Unlinkable, Listed
<1>5. Orphans' \subseteq Orphans
  BY <1>1, OrphansOfUse DEF SameBut
<1> QED BY <1>3, <1>4, <1>5 DEF Shrink, GiveUpFinds

LEMMA WorkerShrink ==
    ASSUME TypeOK, TypeOK', Held, Core, GiveUpFinds, WorkerStep, ~oops'
    PROVE  Shrink
<1>1. CASE WorkerStart \/ WorkerLoad \/ WorkerPush \/ WorkerTimerExpires
  <2>1. /\ UNCHANGED <<slots, cmds, my, pc, wcur>> /\ wpc # "timedout"
        /\ wpc' = "timedout" => ~slots[wcur].complete
    BY <1>1 DEF WorkerStart, WorkerLoad, WorkerPush, WorkerTimerExpires, listVars,
                senderVars
  <2>2. SameFlags /\ SameUse
    BY <2>1 DEF SameFlags, SameUse
  <2> QED BY <2>1, <2>2, QuietShrink
<1>2. CASE WorkerScan
  <2>1. UNCHANGED <<slots, cmds, my, pc>> /\ wcur' = NextCmd /\ wpc' # "timedout"
    BY <1>2 DEF WorkerScan, listVars, senderVars
  <2>2. \A t \in Slots : Unlinkable(t) => Unlinkable(t)'
    BY <2>1 DEF Unlinkable, Listed
  <2>3. wcur' # NoSlot => Listed(wcur)'
    <3> SUFFICES ASSUME wcur' # NoSlot PROVE Listed(wcur)'
      OBVIOUS
    <3>1. wcur' = Head(cmds) /\ cmds # <<>>
      BY <2>1 DEF NextCmd
    <3>2. Listed(Head(cmds))
      BY <3>1, HeadOfList
    <3> QED BY <3>1, <3>2, <2>1 DEF Listed
  <2>4. GiveUpFinds'
    BY <2>1, <2>2, <2>3, FindsKept
  <2>5. Orphans' \subseteq Orphans
    BY <2>1, OrphansOfUse
  <2> QED BY <2>4, <2>5 DEF Shrink
<1>3. CASE WorkerStore
  <2>1. /\ UNCHANGED <<cmds, my, pc, wcur>> /\ wpc = "store" /\ wpc' = "push"
        /\ wcur \in Slots
        /\ slots' = [slots EXCEPT ![wcur] = [@ EXCEPT !.flags = ClearPush(wflags)]]
    BY <1>3, SlotOfWorker DEF WorkerStore, listVars, senderVars
  <2>2. ClearPush(wflags) \in Flags
    BY FlagUpdates DEF TypeOK
  <2>3. /\ SameBut(wcur) /\ slots'[wcur].complete = slots[wcur].complete
        /\ slots'[wcur].used = slots[wcur].used
    BY <2>1, <2>2, UpdateFields
  <2>4. \A t : Listed(t)' <=> Listed(t)
    BY <2>1 DEF Listed
  <2>5. \A t \in Slots : t # wcur /\ Unlinkable(t) => Unlinkable(t)'
    BY <2>3, <2>4 DEF Unlinkable, SameBut
  <2>6. wcur' # NoSlot =>
                IF wpc' = "timedout" THEN Unlinkable(wcur)'
                ELSE Listed(wcur)' \/ slots'[wcur'].complete
    <3> SUFFICES ASSUME wcur # NoSlot PROVE Listed(wcur)' \/ slots'[wcur].complete
      BY <2>1
    <3>1. Listed(wcur) \/ slots[wcur].complete
      BY <2>1 DEF GiveUpFinds
    <3> QED BY <3>1, <2>1, <2>3 DEF Listed
  <2>7. GiveUpFinds'
    BY <2>1, <2>5, <2>6, FindsKept
  <2>8. Orphans' \subseteq Orphans
    BY <2>1, <2>3, OrphansOfUse DEF SameBut
  <2> QED BY <2>7, <2>8 DEF Shrink
<1>4. CASE WorkerComplete
  <2>1. /\ FreeCmd(wcur) /\ wcur \in Slots /\ wcur' = NoSlot /\ UNCHANGED <<cmds, my, pc>>
    BY <1>4, SlotOfWorker DEF WorkerComplete, listVars, senderVars
  <2> QED BY <2>1, FreeShrink
<1>5. CASE WorkerTimeout
  <2>1. /\ GiveUp(wcur) /\ wcur \in Slots /\ wcur' = NoSlot /\ UNCHANGED <<my, pc>>
    BY <1>5, SlotOfWorker DEF WorkerTimeout, senderVars
  <2> QED BY <2>1, GiveUpShrink
<1> QED BY <1>1, <1>2, <1>3, <1>4, <1>5 DEF WorkerStep

LEMMA SenderShrink ==
    ASSUME TypeOK, TypeOK', Held, Core, GiveUpFinds, NEW p \in Senders,
           SenderStep(p) \/ \E r \in Requests : Malloc(p, r), ~oops'
    PROVE  GiveUpFinds' /\ (mgr' = "CRASHED" => Orphans' \subseteq Orphans)
<1>1. CASE Poll(p) \/ WakeAfterQueue(p) \/ WakeAfterWait(p) \/ TimerExpires(p)
           \/ PushDirect(p)
  <2>1. UNCHANGED <<slots, cmds, my, wcur, wpc>>
    BY <1>1 DEF Poll, WakeAfterQueue, WakeAfterWait, TimerExpires, PushDirect, listVars,
                workerVars
  <2>2. \A q \in Senders : pc'[q] \in Giving => pc[q] \in Giving
    BY <1>1 DEF Poll, WakeAfterQueue, WakeAfterWait, TimerExpires, PushDirect, GoTo,
                TypeOK, Giving
  <2>3. SameFlags /\ SameUse
    BY <2>1 DEF SameFlags, SameUse
  <2> QED BY <2>1, <2>2, <2>3, QuietShrink DEF Shrink
<1>2. CASE Refuse(p) \/ SendOneWay(p) \/ Awake(p) \/ Release(p)
  <2>1. /\ FreeCmd(my[p]) /\ my' = [my EXCEPT ![p] = NoSlot]
        /\ \E l \in {"idle", "resume"} : GoTo(p, l)
        /\ UNCHANGED <<cmds, wpc, wcur>> /\ pc[p] \in HasSlot
    BY <1>2 DEF Refuse, SendOneWay, Awake, Release, Return, listVars, workerVars, HasSlot
  <2>2. my[p] \in Slots
    BY <2>1, Owners
  <2> QED BY <2>1, <2>2, FreeShrink DEF Shrink
<1>3. CASE QueueDirect(p) \/ QueueDeferred(p)
  <2>1. mgr' # "CRASHED"
    BY <1>3 DEF QueueDirect, QueueDeferred
  <2> QED BY <2>1, <1>3, QueueFinds
<1>4. CASE \E r \in Requests : Malloc(p, r)
  BY <1>4, MallocShrink DEF Shrink
<1>5. CASE TimeoutDirect(p)
  <2>1. /\ GiveUp(my[p]) /\ GoTo(p, "release") /\ my' = my /\ UNCHANGED <<wpc, wcur>>
        /\ my[p] \in Slots
    BY <1>5, SlotOfSender DEF TimeoutDirect, workerVars, HasSlot
  <2> QED BY <2>1, GiveUpShrink DEF Shrink
<1>6. CASE LinkTwice(p) \/ UseAfterDeinit(p)
  BY <1>6 DEF LinkTwice, UseAfterDeinit, Fault
<1> QED BY <1>1, <1>2, <1>3, <1>4, <1>5, <1>6 DEF SenderStep

\* The steps before the teardown.
LEMMA NextShrink ==
    ASSUME IInv, IInv', [Next]_vars, dpc' = "up", ~oops', GiveUpFinds
    PROVE  GiveUpFinds' /\ (mgr' = "CRASHED" => Orphans' \subseteq Orphans)
<1>1. TypeOK /\ TypeOK' /\ Held /\ Core
  BY OneWay DEF IInv
<1>2. CASE UNCHANGED vars
  <2>1. UNCHANGED <<slots, cmds, my, pc, wcur, wpc>>
    BY <1>2 DEF vars, listVars, senderVars, workerVars
  <2>2. SameFlags /\ SameUse
    BY <2>1 DEF SameFlags, SameUse
  <2> QED BY <2>1, <2>2, <1>1, QuietShrink DEF Shrink
<1>3. CASE \E p \in Senders : SenderStep(p) \/ \E r \in Requests : Malloc(p, r)
  BY <1>1, <1>3, SenderShrink
<1>4. CASE WorkerStep
  BY <1>1, <1>4, WorkerShrink DEF Shrink
<1>5. CASE FirmwareStep
  <2>1. ASSUME NEW m \in fw, Unclaimed(m) PROVE Shrink
    <3>1. UNCHANGED <<slots, cmds, my, pc, wcur, wpc>>
      BY <2>1 DEF Unclaimed, listVars, senderVars, workerVars
    <3>2. SameFlags /\ SameUse
      BY <3>1 DEF SameFlags, SameUse
    <3> QED BY <3>1, <3>2, <1>1, QuietShrink
  <2> QED BY <2>1, <1>1, <1>5, ConfirmShrink DEF FirmwareStep, Shrink
<1>6. ~BusDown /\ ~Drain /\ ~Deinit
  BY DEF BusDown, Drain, Deinit
<1> QED BY <1>2, <1>3, <1>4, <1>5, <1>6 DEF Next, Quiescent

\* What a clean state leaves to nobody's care is on the list or with the worker.
LEMMA FewWhileClean ==
    ASSUME TypeOK, Core, SlotsInUse
    PROVE  FewOrphans
<1>1. Len(cmds) \in Nat /\ Len(cmds) <= MaxQueued /\ MaxQueued \in Nat
  BY ListElements, CmdMgrAssumption DEF Core, Counted, CmdMgrAssumption
<1>2. IsFiniteSet(Range(cmds)) /\ Cardinality(Range(cmds)) <= Len(cmds)
  <2>1. IsFiniteSet(1..Len(cmds)) /\ Cardinality(1..Len(cmds)) = Len(cmds)
    <3>1. 1 \in Int /\ Len(cmds) \in Int
      BY <1>1
    <3>2. /\ IsFiniteSet(1..Len(cmds))
          /\ Cardinality(1..Len(cmds)) =
                IF 1 > Len(cmds) THEN 0 ELSE Len(cmds) - 1 + 1
      BY <3>1, FS_Interval
    <3> QED BY <3>2, <1>1
  <2>2. cmds \in Surjection(1..Len(cmds), Range(cmds))
    <3>1. cmds \in [1..Len(cmds) -> Slots] /\ DOMAIN cmds = 1..Len(cmds)
      BY LenProperties DEF TypeOK
    <3>2. \A i \in 1..Len(cmds) : cmds[i] \in Range(cmds)
      BY <3>1 DEF Range
    <3>3. \A t \in Range(cmds) : \E i \in 1..Len(cmds) : cmds[i] = t
      BY <3>1 DEF Range
    <3> QED BY <3>1, <3>2, <3>3 DEF Surjection
  <2> QED BY <2>1, <2>2, FS_Surjection
<1>3. /\ IsFiniteSet(Range(cmds) \cup {wcur})
      /\ Cardinality(Range(cmds) \cup {wcur}) <= MaxQueued + 1
  <2>1. /\ IsFiniteSet(Range(cmds) \cup {wcur})
        /\ Cardinality(Range(cmds) \cup {wcur}) =
              IF wcur \in Range(cmds) THEN Cardinality(Range(cmds))
              ELSE Cardinality(Range(cmds)) + 1
    BY <1>2, FS_AddElement
  <2>2. Cardinality(Range(cmds)) \in Nat
    BY <1>2, FS_CardinalityType
  <2> QED BY <2>1, <2>2, <1>1, <1>2
<1>4. Orphans \in SUBSET (Range(cmds) \cup {wcur})
  BY DEF Orphans, SlotsInUse, Deferred, Listed
<1>5. Cardinality(Orphans) <= Cardinality(Range(cmds) \cup {wcur}) /\ IsFiniteSet(Orphans)
  BY <1>3, <1>4, FS_Subset
<1>6. Cardinality(Orphans) \in Nat /\ Cardinality(Range(cmds) \cup {wcur}) \in Nat
  BY <1>3, <1>5, FS_CardinalityType
<1> QED BY <1>1, <1>3, <1>5, <1>6 DEF FewOrphans

LEMMA FewAfterClean == (TypeOK /\ Core /\ SlotsInUse => FewOrphans)'
<1>1. TypeOK /\ Core /\ SlotsInUse => FewOrphans
  BY FewWhileClean
<1> QED BY <1>1, PTL

LEMMA SlotsFinite == IsFiniteSet(Slots) /\ Cardinality(Slots) = NumSlots
  BY FS_Interval, CmdMgrAssumption DEF Slots, CmdMgrAssumption

LEMMA FewerOrphans ==
    ASSUME FewOrphans, Orphans' \subseteq Orphans
    PROVE  FewOrphans'
<1>1. Orphans \in SUBSET Slots
  BY DEF Orphans
<1>2. IsFiniteSet(Orphans)
  BY <1>1, SlotsFinite, FS_Subset
<1>3. Orphans' \in SUBSET Orphans
  OBVIOUS
<1>4. IsFiniteSet(Orphans') /\ Cardinality(Orphans') <= Cardinality(Orphans)
  BY <1>2, <1>3, FS_Subset
<1>5. Cardinality(Orphans) \in Nat /\ Cardinality(Orphans') \in Nat
  BY <1>2, <1>4, FS_CardinalityType
<1> QED BY <1>4, <1>5, CmdMgrAssumption DEF FewOrphans, CmdMgrAssumption

\* A full pool: the orphans and the slots of the other senders are all there are.
LEMMA PoolNotFull ==
    ASSUME TypeOK, FewOrphans, NEW p \in Senders, my[p] = NoSlot,
           \A s \in Slots : slots[s].used
    PROVE  NumSlots <= MaxQueued + Cardinality(Senders)
<1> DEFINE D == {q \in Senders : my[q] # NoSlot}
           H == {s \in Slots : \E q \in Senders : my[q] = s}
<1>1. Slots = Orphans \cup H
  BY DEF Orphans
<1>2. IsFiniteSet(Senders) /\ IsFiniteSet(Senders \ {p})
      /\ Cardinality(Senders \ {p}) = Cardinality(Senders) - 1
  BY FS_RemoveElement, CmdMgrAssumption DEF CmdMgrAssumption
<1>3. D \in SUBSET (Senders \ {p})
  OBVIOUS
<1>4. IsFiniteSet(D) /\ Cardinality(D) <= Cardinality(Senders \ {p})
  BY <1>2, <1>3, FS_Subset
<1>5. [q \in D |-> my[q]] \in Surjection(D, H)
  <2>1. \A q \in D : my[q] \in H
    BY DEF TypeOK
  <2>2. \A s \in H : \E q \in D : my[q] = s
    BY DEF Slots, NoSlot
  <2> HIDE DEF D, H
  <2> QED BY <2>1, <2>2 DEF Surjection
<1>6. IsFiniteSet(H) /\ Cardinality(H) <= Cardinality(D)
  <2> HIDE DEF D, H
  <2> QED BY <1>4, <1>5, FS_Surjection
<1>7. Orphans \in SUBSET Slots
  BY DEF Orphans
<1>8. IsFiniteSet(Orphans)
  BY <1>7, SlotsFinite, FS_Subset
<1> HIDE DEF D, H
<1>9. /\ Cardinality(Slots) = Cardinality(Orphans) + Cardinality(H)
                                - Cardinality(Orphans \cap H)
      /\ IsFiniteSet(Orphans \cap H)
  BY <1>1, <1>6, <1>8, FS_Union, FS_Intersection
<1>10. /\ Cardinality(Orphans) \in Nat /\ Cardinality(H) \in Nat /\ Cardinality(D) \in Nat
       /\ Cardinality(Orphans \cap H) \in Nat /\ Cardinality(Senders) \in Nat
  BY <1>2, <1>4, <1>6, <1>8, <1>9, FS_CardinalityType
<1> QED BY <1>2, <1>4, <1>6, <1>9, <1>10, SlotsFinite, CmdMgrAssumption
        DEF FewOrphans, CmdMgrAssumption

\* The only steps that could follow a bad pointer before the teardown.
LEMMA NoFault ==
    ASSUME IInv, CleanInv, [Next]_vars, ~oops, dpc = "up", ~killed,
           NumSlots > MaxQueued + Cardinality(Senders)
    PROVE  ~oops'
<1>1. TypeOK /\ Held /\ Core /\ GiveUpFinds /\ FewOrphans /\ mgr # "DEINIT"
  BY DEF IInv, CleanInv
<1>2. CASE UNCHANGED vars
  BY <1>2 DEF vars
<1>3. ASSUME NEW p \in Senders, NEW r \in Requests, Malloc(p, r) PROVE oops' = oops
  <2>1. CASE \A s \in Slots : slots[s].used
    <3>1. my[p] = NoSlot
      BY <1>1, <1>3 DEF Malloc, Held, HasSlot
    <3>2. NumSlots <= MaxQueued + Cardinality(Senders)
      BY <1>1, <2>1, <3>1, PoolNotFull
    <3>3. Cardinality(Senders) \in Nat
      BY FS_CardinalityType, CmdMgrAssumption DEF CmdMgrAssumption
    <3> QED BY <3>2, <3>3, CmdMgrAssumption DEF CmdMgrAssumption
  <2> QED BY <2>1, <1>3 DEF Malloc
<1>4. ASSUME NEW p \in Senders, LinkTwice(p) PROVE FALSE
  <2>1. CleanCore
    BY <1>4 DEF LinkTwice, CleanInv, Clean
  <2> QED BY <2>1, <1>4 DEF LinkTwice, CleanCore, SendersInHand
<1>5. ASSUME NEW p \in Senders, TimeoutDirect(p) PROVE oops' = oops
  BY <1>1, <1>5 DEF TimeoutDirect, GiveUp, GiveUpFinds, Unlinkable
<1>6. ASSUME WorkerTimeout PROVE oops' = oops
  <2>1. wcur # NoSlot /\ wpc = "timedout"
    BY <1>1, <1>6 DEF WorkerTimeout, Held
  <2> QED BY <2>1, <1>1, <1>6 DEF WorkerTimeout, GiveUp, GiveUpFinds, Unlinkable
<1>7. ASSUME NEW p \in Senders, UseAfterDeinit(p) PROVE FALSE
  BY <1>1, <1>7 DEF UseAfterDeinit
<1>8. ASSUME NEW p \in Senders, SenderStep(p) PROVE oops' = oops
  <2>1. CASE Poll(p) \/ Refuse(p) \/ QueueDirect(p) \/ QueueDeferred(p)
             \/ WakeAfterQueue(p) \/ PushDirect(p)
    BY <2>1 DEF Poll, Refuse, QueueDirect, QueueDeferred, WakeAfterQueue, PushDirect
  <2>2. CASE SendOneWay(p) \/ Awake(p) \/ WakeAfterWait(p) \/ TimerExpires(p) \/ Release(p)
    BY <2>2 DEF SendOneWay, Awake, WakeAfterWait, TimerExpires, Release
  <2> QED BY <1>8, <2>1, <2>2, <1>4, <1>5, <1>7 DEF SenderStep
<1>9. ASSUME WorkerStep PROVE oops' = oops
  BY <1>6, <1>9 DEF WorkerStep, WorkerStart, WorkerScan, WorkerLoad, WorkerStore,
                    WorkerPush, WorkerComplete, WorkerTimerExpires
<1>10. ASSUME FirmwareStep \/ BusDown \/ Drain \/ Deinit PROVE oops' = oops
  BY <1>10 DEF FirmwareStep, Confirm, Unclaimed, BusDown, Drain, Deinit
<1> QED BY <1>2, <1>3, <1>8, <1>9, <1>10 DEF Next, Quiescent

-----------------------------------------------------------------------------
(* The theorems *)

LEMMA InitCmdInv == Init => CmdInv
<1> SUFFICES ASSUME Init PROVE CmdInv
  OBVIOUS
<1>1. IInv
  BY InitTypeInv, InitCore DEF IInv, TypeInv
<1>2. /\ cmds = <<>> /\ fw = {} /\ wcur = NoSlot /\ ~oops /\ mgr = "INITED" /\ usb = "UP"
      /\ dpc = "up" /\ \A p \in Senders : pc[p] = "idle"
  BY DEF Init
<1>3. \A s \in Slots : ~slots[s].used
  BY DEF Init
<1>4. \A s : ~Listed(s)
  BY <1>1, <1>2, ListedNonempty DEF IInv
<1>5. SendersInHand /\ WorkerInHand /\ HeadAnswered /\ HeadHasWaker
  BY <1>2 DEF SendersInHand, WorkerInHand, HeadAnswered, HeadHasWaker
<1>6. SlotsInUse
  BY <1>3, <1>4 DEF SlotsInUse
<1>7. GiveUpFinds
  BY <1>2 DEF GiveUpFinds
<1>8. FewOrphans
  BY <1>1, <1>2, <1>6, FewWhileClean DEF IInv
<1> QED BY <1>1, <1>2, <1>5, <1>6, <1>7, <1>8 DEF CmdInv, CleanInv, CleanCore, PoolSuffices

LEMMA NextCmdInv == CmdInv /\ [Next]_vars => CmdInv'
<1> SUFFICES ASSUME CmdInv, [Next]_vars PROVE CmdInv'
  OBVIOUS
<1>1. IInv /\ IInv' /\ CleanInv
  BY NextIInv DEF CmdInv
<1>2. TypeOK /\ TypeOK'
  BY <1>1 DEF IInv
<1>3. (usb = "UP" <=> dpc = "up")'
  BY <1>1, <1>2, OneWay DEF CleanInv
<1>4. Clean' => CleanCore'
  <2> SUFFICES ASSUME Clean' PROVE CleanCore'
    OBVIOUS
  <2>1. Clean
    BY <1>2, OneWay DEF Clean
  <2> QED BY <2>1, <1>1, NextClean DEF CleanInv
<1>5. (dpc = "up" /\ ~killed /\ ~oops => GiveUpFinds /\ FewOrphans /\ mgr # "DEINIT")'
  <2> SUFFICES ASSUME dpc' = "up", ~killed', ~oops'
               PROVE  GiveUpFinds' /\ FewOrphans' /\ mgr' # "DEINIT"
    OBVIOUS
  <2>1. dpc = "up" /\ ~killed /\ ~oops
    BY <1>2, OneWay
  <2>2. GiveUpFinds /\ FewOrphans /\ mgr # "DEINIT"
    BY <1>1, <2>1 DEF CleanInv
  <2>3. mgr' # "DEINIT"
    BY <1>2, <2>2, OneWay
  <2>4. GiveUpFinds' /\ (mgr' = "CRASHED" => Orphans' \subseteq Orphans)
    BY <1>1, <2>2, NextShrink
  <2>5. CASE mgr' = "CRASHED"
    BY <2>2, <2>3, <2>4, <2>5, FewerOrphans
  <2>6. CASE mgr' # "CRASHED"
    <3>1. mgr' = "INITED"
      BY <1>2, <2>3, <2>6 DEF TypeOK
    <3>2. SlotsInUse' /\ Core'
      BY <1>1, <1>4, <3>1 DEF Clean, CleanCore, IInv
    <3>3. FewOrphans'
      BY <1>2, <3>2, FewAfterClean
    <3> QED BY <2>3, <2>4, <3>3
  <2> QED BY <2>5, <2>6
<1>6. PoolSuffices'
  <2> SUFFICES ASSUME dpc' = "up", ~killed', NumSlots > MaxQueued + Cardinality(Senders)
               PROVE  ~oops'
    BY DEF PoolSuffices
  <2>1. dpc = "up" /\ ~killed
    BY <1>2, OneWay
  <2>2. ~oops
    BY <1>1, <2>1 DEF CleanInv, PoolSuffices
  <2> QED BY <1>1, <2>1, <2>2, NoFault
<1> QED BY <1>1, <1>3, <1>4, <1>5, <1>6 DEF CmdInv, CleanInv

\* The inductive invariant of the channel: in the hands of a sender or of the
\* worker is the head of the list or a command that is done; every slot in use
\* has an owner; the firmware answers the head; and after a timeout what is
\* given up is found where it was.
THEOREM ChannelInductive == Spec => []CmdInv
<1> QED BY InitCmdInv, NextCmdInv, PTL DEF Spec

\* No two threads marshal a command that waits for a confirmation into the one
\* cmd_buf of the bus at the same time, although neither holds the lock.
THEOREM OneMarshals == Spec => []OneTransmitter
<1>1. CmdInv => OneTransmitter
  <2> SUFFICES ASSUME CmdInv, Clean
               PROVE  Cardinality({s \in Senders : pc[s] = "push"}
                         \cup {x \in {"worker"} : wpc \in {"load", "store", "push"}}) <= 1
    BY DEF OneTransmitter
  <2>1. TypeOK /\ Held /\ Core /\ SendersInHand /\ WorkerInHand
    BY DEF CmdInv, IInv, CleanInv, Clean, CleanCore
  <2>2. \A p \in Senders : pc[p] = "push" =>
            Head(cmds) = my[p] /\ my[p] # NoSlot /\ my[p] # wcur
    BY <2>1, Owners, InUse DEF SendersInHand, InHand
  <2>3. wpc \in {"load", "store", "push"} => Head(cmds) = wcur
    BY <2>1 DEF WorkerInHand, InHand, Held
  <2>4. \A p, q \in Senders : pc[p] = "push" /\ pc[q] = "push" => p = q
    BY <2>1, <2>2, Owners
  <2> DEFINE T == {s \in Senders : pc[s] = "push"}
                    \cup {x \in {"worker"} : wpc \in {"load", "store", "push"}}
  <2>5. \A x, y \in T : x = y
    BY <2>2, <2>3, <2>4
  <2>6. T = {} \/ \E x : T = {x}
    BY <2>5
  <2> HIDE DEF T
  <2>7. Cardinality(T) = 0 \/ Cardinality(T) = 1
    BY <2>6, FS_EmptySet, FS_Singleton
  <2>8. Cardinality(T) <= 1
    BY <2>7
  <2> QED BY <2>8 DEF T
<1> QED BY <1>1, ChannelInductive, PTL

\* While nothing is given up, every slot of the pool in use has exactly one
\* owner who will give it back, and no other slot is referred to.
THEOREM EverySlotOwned == Spec => []SlotOwned
<1>1. CmdInv => SlotOwned
  <2> SUFFICES ASSUME CmdInv, Clean, NEW s \in Slots
               PROVE  IF slots[s].used
                      THEN \/ wcur # s /\ ~Deferred(s) /\ \E p \in Senders : Holders(s) = {p}
                           \/ wcur # s /\ Deferred(s) /\ Holders(s) = {}
                           \/ wcur = s /\ Holders(s) = {}
                      ELSE wcur # s /\ ~Listed(s) /\ Holders(s) = {}
    BY DEF SlotOwned
  <2>1. TypeOK /\ Held /\ Core /\ SlotsInUse
    BY DEF CmdInv, IInv, CleanInv, Clean, CleanCore
  <2>2. s # NoSlot
    BY DEF Slots, NoSlot
  <2>3. \A p \in Senders : my[p] = s =>
            /\ s # wcur /\ slots[s].used /\ ~slots[s].flags.push
            /\ \A q \in Senders : my[q] = s => q = p
    BY <2>1, <2>2, Owners
  <2>4. CASE ~slots[s].used
    BY <2>1, <2>2, <2>3, <2>4, Owners DEF SlotsInUse, Holders
  <2>5. CASE slots[s].used /\ \E p \in Senders : my[p] = s
    <3>1. PICK p \in Senders : my[p] = s
      BY <2>5
    <3>2. Holders(s) = {p}
      BY <3>1, <2>3 DEF Holders
    <3> QED BY <2>3, <2>5, <3>1, <3>2 DEF Deferred
  <2>6. CASE slots[s].used /\ ~\E p \in Senders : my[p] = s
    <3>1. Holders(s) = {}
      BY <2>6 DEF Holders
    <3> QED BY <3>1, <2>1, <2>6 DEF SlotsInUse
  <2> QED BY <2>4, <2>5, <2>6
<1> QED BY <1>1, ChannelInductive, PTL

\* Nobody who calls rwnx_cmd_malloc gets NULL, and no broken link is followed,
\* while the pool is larger than the list limit and the number of callers, also
\* after any number of timeouts, until a disconnect or a fatal signal.
THEOREM PoolIsEnough == Spec => []PoolSuffices
<1>1. CmdInv => PoolSuffices
  BY DEF CmdInv, CleanInv
<1> QED BY <1>1, ChannelInductive, PTL

\* A command deferred at the head while the worker sleeps has somebody who is
\* about to wake the worker, although the list is read without the lock.
THEOREM SomebodyWakes == Spec => []WakerPending
<1>1. CmdInv => WakerPending
  <2> SUFFICES ASSUME CmdInv, Clean, usb = "UP", TrafficIds = {}, cmds # <<>>,
                      slots[Head(cmds)].flags.push, wpc = "idle", ~work,
                      \A p \in Senders : pc[p] # "timedout"
               PROVE  \E p \in Senders :
                            \/ pc[p] \in {"wakeforce", "resume"}
                            \/ pc[p] = "wait" /\ slots[my[p]].complete
    BY DEF WakerPending
  <2> QED BY DEF CmdInv, CleanInv, CleanCore, HeadHasWaker
<1> QED BY <1>1, ChannelInductive, PTL

\* No thread of the driver takes a message back from the firmware.
LEMMA NoneTaken ==
    ASSUME (\E p \in Senders : SenderStep(p) \/ \E r \in Requests : Malloc(p, r))
           \/ WorkerStep
    PROVE  fw \subseteq fw'
<1>1. ASSUME NEW p \in Senders, SenderStep(p) \/ \E r \in Requests : Malloc(p, r)
      PROVE  fw \subseteq fw'
  <2>1. CASE Poll(p) \/ Refuse(p) \/ QueueDirect(p) \/ QueueDeferred(p) \/ LinkTwice(p)
    BY <2>1 DEF Poll, Refuse, QueueDirect, QueueDeferred, LinkTwice, msgVars
  <2>2. CASE WakeAfterQueue(p) \/ SendOneWay(p) \/ WakeAfterWait(p) \/ Awake(p)
    BY <2>2 DEF WakeAfterQueue, SendOneWay, WakeAfterWait, Awake, msgVars
  <2>3. CASE TimerExpires(p) \/ TimeoutDirect(p) \/ Release(p) \/ UseAfterDeinit(p)
             \/ \E r \in Requests : Malloc(p, r)
    BY <2>3 DEF TimerExpires, TimeoutDirect, Release, UseAfterDeinit, Malloc, msgVars
  <2>4. CASE PushDirect(p)
    BY <2>4 DEF PushDirect, Transmit
  <2> QED BY <1>1, <2>1, <2>2, <2>3, <2>4 DEF SenderStep
<1>2. ASSUME WorkerStep PROVE fw \subseteq fw'
  <2>1. CASE WorkerPush
    BY <2>1 DEF WorkerPush, Transmit
  <2> QED BY <1>2, <2>1 DEF WorkerStep, WorkerStart, WorkerScan, WorkerLoad, WorkerStore,
              WorkerComplete, WorkerTimerExpires, WorkerTimeout, msgVars
<1> QED BY <1>1, <1>2

\* An answer always finds its command: the head of the list waits for its id.
LEMMA NoneUnclaimed ==
    ASSUME TypeOK, Core, HeadAnswered, NEW m \in fw
    PROVE  ~Unclaimed(m)
<1>1. /\ cmds # <<>> /\ m.id = slots[Head(cmds)].id
      /\ Head(cmds) = cmds[1] /\ 1 \in 1..Len(cmds) /\ DOMAIN cmds = 1..Len(cmds)
  BY HeadOfList, LenProperties DEF HeadAnswered, TypeOK
<1>2. Matches(1, m)
  BY <1>1 DEF Matches, Core, AllWaitCfm
<1> QED BY <1>1, <1>2 DEF Unclaimed

\* cmd_mgr_msgind goes by the confirmation id alone, and still completes the
\* command whose message the firmware is answering, the head of the list.
THEOREM AnswersOwn == Spec => OwnConfirm
<1>1. CmdInv /\ [Next]_vars =>
        [\A m \in fw \ fw' : Clean /\ usb' = "UP" =>
            /\ Len(cmds') = Len(cmds) - 1
            /\ slots[cmds[1]].msg = m.msg
            /\ slots'[cmds[1]].complete]_vars
  <2> SUFFICES ASSUME CmdInv, [Next]_vars, NEW m \in fw \ fw', Clean, usb' = "UP"
               PROVE  /\ Len(cmds') = Len(cmds) - 1
                      /\ slots[cmds[1]].msg = m.msg
                      /\ slots'[cmds[1]].complete
    OBVIOUS
  <2>1. TypeOK /\ TypeOK' /\ Held /\ Core /\ Hands
    BY NextTypeInv DEF CmdInv, IInv, TypeInv, CleanInv, Clean, CleanCore, Hands
  <2>2. ~UNCHANGED vars
    BY DEF vars, msgVars
  <2>3. ~(\E p \in Senders : SenderStep(p) \/ \E r \in Requests : Malloc(p, r))
        /\ ~WorkerStep
    BY NoneTaken
  <2>4. ~BusDown /\ ~Drain /\ ~Deinit
    BY DEF BusDown, Drain, Deinit, msgVars
  <2>5. PICK n \in fw : Confirm(n)
    BY <2>1, <2>2, <2>3, <2>4, NoneUnclaimed DEF Next, Quiescent, FirmwareStep, Hands
  <2>6. n = m
    BY <2>5 DEF Confirm
  <2>7. /\ Unlink(1) /\ cmds # <<>> /\ slots'[Head(cmds)].complete
        /\ slots[Head(cmds)].msg = m.msg
    BY <2>1, <2>5, <2>6, ConfirmTakesHead
  <2>8. Head(cmds) = cmds[1]
    BY <2>1, <2>7, HeadOfList
  <2>9. Len(cmds') = Len(cmds) - 1
    BY <2>1, <2>7, UnlinkHead DEF Core
  <2> QED BY <2>7, <2>8, <2>9
<1> QED BY <1>1, ChannelInductive, PTL DEF Spec, OwnConfirm

-----------------------------------------------------------------------------
(* CmdMgr implements CmdChannel: every step of a command manager that has  *)
(* given nothing up accepts one command, hands over the oldest, is its      *)
(* answer, or changes nothing that the channel shows.                       *)

Messages == [i \in DOMAIN cmds |-> slots[cmds[i]].msg]
HandedOver == cmds # <<>> /\ slots[Head(cmds)].msg \notin heap

-----------------------------------------------------------------------------
(* The messages of the list, as a sequence *)

LEMMA MsgSeq ==
    ASSUME NEW c \in Seq(Slots), NEW f \in [Slots -> Command]
    PROVE  /\ [i \in DOMAIN c |-> f[c[i]].msg] \in Seq(0..MaxCalls)
           /\ Len([i \in DOMAIN c |-> f[c[i]].msg]) = Len(c)
           /\ DOMAIN [i \in DOMAIN c |-> f[c[i]].msg] = 1..Len(c)
           /\ \A i \in 1..Len(c) : [j \in DOMAIN c |-> f[c[j]].msg][i] = f[c[i]].msg
<1> DEFINE q == [i \in DOMAIN c |-> f[c[i]].msg]
<1>1. DOMAIN c = 1..Len(c) /\ Len(c) \in Nat
  BY LenProperties
<1>2. \A i \in 1..Len(c) : f[c[i]].msg \in 0..MaxCalls
  BY ElementOfSeq DEF Command
<1>3. q \in [1..Len(c) -> 0..MaxCalls]
  BY <1>1, <1>2
<1>4. \A i \in 1..Len(c) : q[i] = f[c[i]].msg
  BY <1>1
<1> HIDE DEF q
<1>5. q \in Seq(0..MaxCalls)
  <2>1. [1..Len(c) -> 0..MaxCalls] \in {[1..n -> 0..MaxCalls] : n \in Nat}
    BY <1>1
  <2>2. q \in UNION {[1..n -> 0..MaxCalls] : n \in Nat}
    BY <1>3, <2>1, Zenon
  <2> QED BY <2>2, SeqDef, Zenon
<1>6. Len(q) \in Nat /\ DOMAIN q = 1..Len(q) /\ DOMAIN q = 1..Len(c)
  BY <1>3, <1>5, LenProperties
<1>7. Len(q) = Len(c)
  <2>1. \A n, k \in Nat : 1..n = 1..k => n = k
    <3> SUFFICES ASSUME NEW n \in Nat, NEW k \in Nat, 1..n = 1..k, n # k
                 PROVE  FALSE
      OBVIOUS
    <3>1. n < k \/ k < n
      OBVIOUS
    <3>2. n < k => k \in 1..k /\ k \notin 1..n
      OBVIOUS
    <3>3. k < n => n \in 1..n /\ n \notin 1..k
      OBVIOUS
    <3> QED BY <3>1, <3>2, <3>3
  <2> QED BY <2>1, <1>6
<1> QED BY <1>4, <1>5, <1>6, <1>7 DEF q

LEMMA MessagesSeq ==
    TypeOK => /\ Messages \in Seq(0..MaxCalls) /\ Len(Messages) = Len(cmds)
              /\ DOMAIN Messages = 1..Len(cmds) /\ Len(cmds) \in Nat
              /\ \A i \in 1..Len(cmds) : Messages[i] = slots[cmds[i]].msg
BY MsgSeq, LenProperties DEF TypeOK, Messages

LEMMA MessagesSeqAfter ==
    TypeOK' => /\ Messages' \in Seq(0..MaxCalls) /\ Len(Messages') = Len(cmds')
               /\ DOMAIN Messages' = 1..Len(cmds') /\ Len(cmds') \in Nat
               /\ \A i \in 1..Len(cmds') : Messages'[i] = slots'[cmds'[i]].msg
BY MsgSeq, LenProperties DEF TypeOK, Messages

\* The list is empty exactly when the channel is.
LEMMA MessagesEmpty ==
    ASSUME TypeOK
    PROVE  Messages = <<>> <=> cmds = <<>>
<1>1. cmds = <<>> <=> Len(cmds) = 0
  BY EmptySeq, MessagesSeq DEF TypeOK
<1>2. Messages = <<>> <=> Len(Messages) = 0
  BY EmptySeq, MessagesSeq
<1> QED BY <1>1, <1>2, MessagesSeq

\* What does not touch the list or a listed message is not seen.
LEMMA MessagesSame ==
    ASSUME TypeOK, TypeOK', cmds' = cmds,
           \A s \in Slots : Listed(s) => slots'[s].msg = slots[s].msg
    PROVE  Messages' = Messages
<1>1. \A i \in 1..Len(cmds) : slots'[cmds[i]].msg = slots[cmds[i]].msg
  BY ListElements, ListedIndex
<1> QED BY <1>1, MessagesSeq, MessagesSeqAfter, SeqEqual

\* A command that is queued appends its message.
LEMMA MessagesAppend ==
    ASSUME TypeOK, TypeOK', NEW s \in Slots, cmds' = Append(cmds, s),
           \A t \in Slots : slots'[t].msg = slots[t].msg
    PROVE  Messages' = Append(Messages, slots[s].msg)
<1>0. slots[s].msg \in 0..MaxCalls
  BY DEF TypeOK, Command
<1>1. /\ Len(cmds') = Len(cmds) + 1 /\ cmds'[Len(cmds) + 1] = s
      /\ \A j \in 1..Len(cmds) : cmds'[j] = cmds[j]
  BY AppendProperties DEF TypeOK
<1> DEFINE q == Append(Messages, slots[s].msg)
<1>2. /\ q \in Seq(0..MaxCalls) /\ Len(q) = Len(cmds) + 1
      /\ q[Len(cmds) + 1] = slots[s].msg
      /\ \A j \in 1..Len(cmds) : q[j] = Messages[j]
  BY <1>0, MessagesSeq, AppendProperties
<1> HIDE DEF q
<1>3. \A j \in 1..Len(cmds') : Messages'[j] = q[j]
  <2> SUFFICES ASSUME NEW j \in 1..Len(cmds') PROVE Messages'[j] = q[j]
    OBVIOUS
  <2>1. CASE j = Len(cmds) + 1
    BY <2>1, <1>1, <1>2, MessagesSeqAfter
  <2>2. CASE j # Len(cmds) + 1
    <3>1. j \in 1..Len(cmds)
      BY <2>2, <1>1, MessagesSeq
    <3> QED BY <3>1, <1>1, <1>2, ListElements, MessagesSeq, MessagesSeqAfter
  <2> QED BY <2>1, <2>2
<1>4. Messages' = q
  BY <1>1, <1>2, <1>3, MessagesSeqAfter, SeqEqual
<1> QED BY <1>4 DEF q

\* A command that is answered takes the oldest message away.
LEMMA MessagesTail ==
    ASSUME TypeOK, TypeOK', NoDuplicate, cmds # <<>>, Unlink(1),
           \A t \in Slots : slots'[t].msg = slots[t].msg
    PROVE  Messages' = Tail(Messages)
<1>1. /\ Len(cmds') = Len(cmds) - 1
      /\ \A j \in 1..(Len(cmds) - 1) : cmds'[j] = cmds[j + 1]
  BY UnlinkHead
<1>2. Messages # <<>>
  BY MessagesEmpty
<1> DEFINE q == Tail(Messages)
<1>3. /\ q \in Seq(0..MaxCalls) /\ Len(q) = Len(cmds) - 1
      /\ \A j \in 1..(Len(cmds) - 1) : q[j] = Messages[j + 1]
  BY <1>2, MessagesSeq, HeadTailProperties
<1> HIDE DEF q
<1>4. \A j \in 1..Len(cmds') : Messages'[j] = q[j]
  <2> SUFFICES ASSUME NEW j \in 1..Len(cmds') PROVE Messages'[j] = q[j]
    OBVIOUS
  <2>1. j + 1 \in 1..Len(cmds) /\ j \in 1..(Len(cmds) - 1)
    BY <1>1, MessagesSeq
  <2>2. Messages'[j] = slots'[cmds'[j]].msg /\ q[j] = slots[cmds[j + 1]].msg
    BY <2>1, <1>3, MessagesSeq, MessagesSeqAfter
  <2> QED BY <2>1, <2>2, <1>1, ListElements
<1>5. Messages' = q
  BY <1>1, <1>3, <1>4, MessagesSeqAfter, SeqEqual
<1> QED BY <1>5 DEF q

-----------------------------------------------------------------------------
(* What each step shows of itself to the channel *)

Unseen == Messages' = Messages /\ (HandedOver' <=> HandedOver)

LEMMA FrameUnseen ==
    ASSUME TypeOK, TypeOK', cmds' = cmds,
           \A s \in Slots : Listed(s) =>
                /\ slots'[s].msg = slots[s].msg
                /\ slots[s].msg \in heap' <=> slots[s].msg \in heap
    PROVE  Unseen
<1>1. Messages' = Messages
  BY MessagesSame
<1>2. CASE cmds = <<>>
  BY <1>1, <1>2 DEF Unseen, HandedOver
<1>3. CASE cmds # <<>>
  <2>1. PICK s : s = Head(cmds)
    OBVIOUS
  <2>2. s \in Slots /\ Listed(s)
    BY <1>3, <2>1, HeadOfList
  <2>3. slots'[s].msg \in heap' <=> slots[s].msg \in heap
    BY <2>2
  <2> QED BY <1>1, <1>3, <2>1, <2>3 DEF Unseen, HandedOver
<1> QED BY <1>2, <1>3

\* Steps that leave the slots, the list and the allocations alone.
LEMMA QuietUnseen ==
    ASSUME TypeOK, TypeOK', UNCHANGED <<slots, cmds, heap>>
    PROVE  Unseen
BY FrameUnseen

\* A slot that goes back to the pool keeps the name of its message.
LEMMA FreeUnseen ==
    ASSUME TypeOK, TypeOK', NEW s \in Slots, FreeCmd(s), UNCHANGED <<cmds, heap>>
    PROVE  Unseen
<1>1. \A t \in Slots : slots'[t].msg = slots[t].msg
  BY FreeCmdEffect DEF SameData
<1> QED BY <1>1, FrameUnseen

LEMMA StoreUnseen ==
    ASSUME TypeOK, TypeOK', Held, WorkerStore
    PROVE  Unseen
<1>1. /\ wcur \in Slots /\ UNCHANGED <<cmds, heap>>
      /\ slots' = [slots EXCEPT ![wcur] = [@ EXCEPT !.flags = ClearPush(wflags)]]
  BY SlotOfWorker DEF WorkerStore, listVars, msgVars, Held
<1>2. ClearPush(wflags) \in Flags
  BY FlagUpdates DEF TypeOK
<1>3. \A t \in Slots : slots'[t].msg = slots[t].msg
  BY <1>1, <1>2, FlagsEffect DEF SameData
<1> QED BY <1>1, <1>3, FrameUnseen

\* A slot taken from the pool is not on the list, and the number of the call is
\* new.
LEMMA MallocUnseen ==
    ASSUME TypeOK, TypeOK', Core, SlotsInUse, NEW p \in Senders, NEW r \in Requests,
           Malloc(p, r)
    PROVE  Unseen
<1>1. cmds' = cmds /\ heap' = heap \cup {calls + 1} /\ calls \in Nat
  BY DEF Malloc, listVars, TypeOK
<1>2. \A s \in Slots : slots[s].msg # calls + 1
  <2> SUFFICES ASSUME NEW s \in Slots PROVE slots[s].msg # calls + 1
    OBVIOUS
  <2>1. slots[s].msg <= calls /\ slots[s].msg \in Int
    BY DEF Core, MessagesDistinct, TypeOK, Command
  <2> QED BY <1>1, <2>1
<1>3. \A s \in Slots : Listed(s) => slots'[s].msg = slots[s].msg
  <2>1. CASE UNCHANGED slots
    BY <2>1
  <2>2. CASE \E t \in Slots : FirstFree(t) /\ Claim(t, r)
    <3>1. PICK t \in Slots : FirstFree(t) /\ Claim(t, r)
      BY <2>2
    <3>2. ~slots[t].used /\ SameBut(t)
      BY <3>1, ClaimEffect DEF FirstFree
    <3> QED BY <3>2 DEF SlotsInUse, SameBut
  <2> QED BY <2>1, <2>2 DEF Malloc
<1> QED BY <1>1, <1>2, <1>3, FrameUnseen

\* Handing the head to the firmware is seen as HandOver.
LEMMA PushSeen ==
    ASSUME TypeOK, TypeOK', Held, Core, CleanCore,
           (\E p \in Senders : PushDirect(p)) \/ WorkerPush
    PROVE  /\ Messages' = Messages /\ Messages # <<>>
           /\ ~HandedOver /\ HandedOver'
<1>1. PICK s : /\ FreeMsg(s) /\ UNCHANGED <<slots, cmds>>
               /\ InHand(s) /\ ~slots[s].complete /\ slots[s].msg \in heap
  <2>1. ASSUME NEW p \in Senders, PushDirect(p)
        PROVE  /\ FreeMsg(my[p]) /\ UNCHANGED <<slots, cmds>>
               /\ InHand(my[p]) /\ ~slots[my[p]].complete /\ slots[my[p]].msg \in heap
    BY <2>1 DEF PushDirect, listVars, CleanCore, SendersInHand, Core, MessagesHeld
  <2>2. ASSUME WorkerPush
        PROVE  /\ FreeMsg(wcur) /\ UNCHANGED <<slots, cmds>>
               /\ InHand(wcur) /\ ~slots[wcur].complete /\ slots[wcur].msg \in heap
    BY <2>2 DEF WorkerPush, listVars, CleanCore, WorkerInHand, Core, MessagesHeld, Held
  <2> QED BY <2>1, <2>2
<1>2. cmds # <<>> /\ Head(cmds) = s
  BY <1>1 DEF InHand
<1>3. Messages' = Messages /\ Messages # <<>>
  BY <1>1, <1>2, MessagesSame, MessagesEmpty
<1> QED BY <1>1, <1>2, <1>3 DEF HandedOver, FreeMsg

\* Queueing, directly or deferred, is seen as Accept.
LEMMA QueueSeen ==
    ASSUME TypeOK, TypeOK', Held, Core, NEW p \in Senders,
           QueueDirect(p) \/ QueueDeferred(p)
    PROVE  \E c \in Calls :
                /\ \A i \in DOMAIN Messages : Messages[i] # c
                /\ Messages' = Append(Messages, c)
                /\ HandedOver' <=> HandedOver
<1>0. PICK s : s = my[p]
  OBVIOUS
<1>1. PICK d \in BOOLEAN :
            /\ pc[p] \in {"queue", "force"} /\ ~Listed(s)
            /\ Enlist(s, d) /\ UNCHANGED heap
  BY <1>0 DEF QueueDirect, QueueDeferred, msgVars
<1>2. s \in Slots /\ slots[s].msg \in heap
  BY <1>0, <1>1, Owners, InUse DEF Core, MessagesHeld
<1>3. slots[s].msg \in Calls /\ slots[s].msg # 0
  <2>1. heap \subseteq Calls /\ 0 \notin Calls
    BY DEF TypeOK, Calls
  <2> QED BY <2>1, <1>2
<1>4. Queued(slots[s].flags, d) \in Flags
  BY <1>2, PoolUpdates, FlagUpdates
<1>5. cmds' = Append(cmds, s) /\ \A t \in Slots : slots'[t].msg = slots[t].msg
  BY <1>1, <1>2, <1>4, FlagsEffect DEF Enlist, SameData
<1>6. \A i \in DOMAIN Messages : Messages[i] # slots[s].msg
  <2> SUFFICES ASSUME NEW i \in 1..Len(cmds) PROVE Messages[i] # slots[s].msg
    BY MessagesSeq
  <2>1. cmds[i] \in Slots /\ cmds[i] # s
    BY <1>1, ListElements, ListedIndex
  <2> QED BY <2>1, <1>2, <1>3, MessagesSeq DEF Core, MessagesDistinct
<1>7. Messages' = Append(Messages, slots[s].msg)
  BY <1>2, <1>5, MessagesAppend
<1>8. HandedOver' <=> HandedOver
  <2>1. cmds' # <<>> /\ Head(cmds') = IF cmds = <<>> THEN s ELSE Head(cmds)
    BY <1>2, <1>5, EnlistList
  <2>2. CASE cmds = <<>>
    BY <2>1, <2>2, <1>1, <1>2, <1>5 DEF HandedOver
  <2>3. CASE cmds # <<>>
    BY <2>1, <2>3, <1>1, <1>5, HeadOfList DEF HandedOver
  <2> QED BY <2>2, <2>3
<1> QED BY <1>3, <1>6, <1>7, <1>8

\* A confirmation is seen as Answer; the next command is not handed over yet.
LEMMA ConfirmSeen ==
    ASSUME TypeOK, TypeOK', Held, Core, Hands, NEW m \in fw, Confirm(m)
    PROVE  HandedOver /\ ~HandedOver' /\ Messages' = Tail(Messages)
<1>1. /\ cmds # <<>> /\ Head(cmds) \in Slots /\ Unlink(1) /\ SameBut(Head(cmds))
      /\ slots'[Head(cmds)].msg = slots[Head(cmds)].msg
      /\ slots[Head(cmds)].msg \notin heap
  BY ConfirmTakesHead
<1>2. heap' = heap
  BY DEF Confirm
<1>3. \A t \in Slots : slots'[t].msg = slots[t].msg
  BY <1>1 DEF SameBut
<1>4. Messages' = Tail(Messages)
  BY <1>1, <1>3, MessagesTail DEF Core
<1>5. ASSUME cmds' # <<>> PROVE slots'[Head(cmds')].msg \in heap'
  <2>1. PICK k \in 2..Len(cmds) : Head(cmds') = cmds[k]
    BY <1>1, <1>5, UnlinkHead DEF Core
  <2>2. k \in 1..Len(cmds)
    BY <2>1, ListElements
  <2>3. cmds[k] \in Slots /\ slots[cmds[k]].msg \in heap
    BY <2>1, <2>2, ListElements DEF Core, TailWaitsPush, MessagesHeld
  <2> QED BY <2>1, <2>3, <1>2, <1>3
<1> QED BY <1>1, <1>4, <1>5 DEF HandedOver

-----------------------------------------------------------------------------
(* The refinement *)

\* The senders' and the worker's other steps change nothing that is shown.
LEMMA SenderUnseen ==
    ASSUME TypeOK, TypeOK', Held, Core, CleanCore, NEW p \in Senders,
           SenderStep(p) \/ \E r \in Requests : Malloc(p, r),
           mgr' = "INITED",
           ~PushDirect(p), ~QueueDirect(p), ~QueueDeferred(p)
    PROVE  Unseen
<1>1. CASE Poll(p) \/ LinkTwice(p) \/ WakeAfterQueue(p) \/ WakeAfterWait(p)
           \/ TimerExpires(p) \/ UseAfterDeinit(p)
  <2>1. UNCHANGED <<slots, cmds, heap>>
    BY <1>1 DEF Poll, LinkTwice, WakeAfterQueue, WakeAfterWait, TimerExpires,
                UseAfterDeinit, listVars, msgVars
  <2> QED BY <2>1, QuietUnseen
<1>2. CASE Refuse(p) \/ SendOneWay(p) \/ Awake(p) \/ Release(p)
  <2>1. FreeCmd(my[p]) /\ UNCHANGED <<cmds, heap>> /\ pc[p] \in HasSlot
    BY <1>2, InUse DEF Refuse, SendOneWay, Awake, Release, listVars, msgVars
  <2> QED BY <2>1, Owners, FreeUnseen
<1>3. CASE \E r \in Requests : Malloc(p, r)
  BY <1>3, MallocUnseen DEF CleanCore
<1>4. CASE TimeoutDirect(p)
  BY <1>4 DEF TimeoutDirect, Crash
<1> QED BY <1>1, <1>2, <1>3, <1>4 DEF SenderStep

LEMMA WorkerUnseen ==
    ASSUME TypeOK, TypeOK', Held, Core, CleanCore, WorkerStep, mgr' = "INITED", ~WorkerPush
    PROVE  Unseen
<1>1. CASE WorkerStart \/ WorkerScan \/ WorkerLoad \/ WorkerTimerExpires
  <2>1. UNCHANGED <<slots, cmds, heap>>
    BY <1>1 DEF WorkerStart, WorkerScan, WorkerLoad, WorkerTimerExpires, listVars, msgVars
  <2> QED BY <2>1, QuietUnseen
<1>2. CASE WorkerStore
  BY <1>2, StoreUnseen
<1>3. CASE WorkerComplete
  <2>1. FreeCmd(wcur) /\ UNCHANGED <<cmds, heap>> /\ wcur \in Slots
    BY <1>3, Owners DEF WorkerComplete, listVars, msgVars, Held
  <2> QED BY <2>1, FreeUnseen
<1>4. CASE WorkerTimeout
  BY <1>4 DEF WorkerTimeout, Crash
<1> QED BY <1>1, <1>2, <1>3, <1>4 DEF WorkerStep

\* What a step of a manager that works, and works after it, is for the channel.
LEMMA WorkingStep ==
    ASSUME CmdInv, [Next]_vars, Working, Working'
    PROVE  \/ Unseen
           \/ \E c \in Calls : /\ \A i \in DOMAIN Messages : Messages[i] # c
                               /\ Messages' = Append(Messages, c)
                               /\ HandedOver' <=> HandedOver
           \/ Messages' = Messages /\ Messages # <<>> /\ ~HandedOver /\ HandedOver'
           \/ HandedOver /\ ~HandedOver' /\ Messages' = Tail(Messages)
<1>1. TypeOK /\ TypeOK' /\ Held /\ (~oops => Core)
  BY NextTypeInv DEF CmdInv, IInv, TypeInv
<1>2. CASE UNCHANGED vars
  <2>1. UNCHANGED <<slots, cmds, heap>>
    BY <1>2 DEF vars, listVars, msgVars
  <2> QED BY <2>1, <1>1, QuietUnseen
<1>3. CASE ~UNCHANGED vars
  <2>1. ~oops /\ dpc = "up" /\ mgr' = "INITED"
    BY <1>3 DEF Next, Quiescent, Working, CmdInv, CleanInv
  <2>2. Core /\ CleanCore /\ Hands
    BY <1>1, <2>1 DEF CmdInv, CleanInv, Clean, Working, CleanCore, Hands
  <2>3. ~BusDown /\ ~Drain /\ ~Deinit
    BY <2>1 DEF BusDown, Drain, Deinit, Working
  <2>4. CASE \E p \in Senders : SenderStep(p) \/ \E r \in Requests : Malloc(p, r)
    <3>1. PICK p \in Senders : SenderStep(p) \/ \E r \in Requests : Malloc(p, r)
      BY <2>4
    <3>2. CASE PushDirect(p)
      BY <3>2, <1>1, <2>2, PushSeen
    <3>3. CASE QueueDirect(p) \/ QueueDeferred(p)
      BY <3>3, <1>1, <2>2, QueueSeen
    <3>4. CASE ~PushDirect(p) /\ ~QueueDirect(p) /\ ~QueueDeferred(p)
      BY <3>1, <3>4, <1>1, <2>1, <2>2, SenderUnseen
    <3> QED BY <3>2, <3>3, <3>4
  <2>5. CASE WorkerStep
    <3>1. CASE WorkerPush
      BY <3>1, <1>1, <2>2, PushSeen
    <3>2. CASE ~WorkerPush
      BY <3>2, <2>5, <1>1, <2>1, <2>2, WorkerUnseen
    <3> QED BY <3>1, <3>2
  <2>6. CASE FirmwareStep
    <3>1. PICK m \in fw : Confirm(m)
      BY <2>6, <1>1, <2>2, NoneUnclaimed DEF FirmwareStep, Hands
    <3> QED BY <3>1, <1>1, <2>2, ConfirmSeen
  <2> QED BY <1>3, <2>3, <2>4, <2>5, <2>6 DEF Next, Quiescent
<1> QED BY <1>2, <1>3


LEMMA ChannelSteps == CmdInv /\ [Next]_vars => [Channel!ChannelNext]_(Channel!channelVars)
<1> SUFFICES ASSUME CmdInv, [Next]_vars
             PROVE  [Channel!ChannelNext]_(Channel!channelVars)
  OBVIOUS
<1>1. Working' => Working
  <2>1. TypeOK
    BY DEF CmdInv, IInv
  <2> QED BY <2>1, OneWay DEF Working
<1>2. CASE ~Working
  <2>1. ~Working'
    BY <1>1, <1>2
  <2>2. UNCHANGED Channel!channelVars
    BY <1>2, <2>1 DEF Channel!channelVars
  <2> QED BY <2>2
<1>3. CASE Working /\ ~Working'
  <2>1. Channel!Break
    BY <1>3 DEF Channel!Break
  <2> QED BY <2>1 DEF Channel!ChannelNext
<1>4. CASE Working /\ Working'
  <2>1. CASE Unseen
    <3>1. UNCHANGED Channel!channelVars
      BY <1>4, <2>1 DEF Unseen, Channel!channelVars, Messages, HandedOver
    <3> QED BY <3>1
  <2>2. CASE \E c \in Calls : /\ \A i \in DOMAIN Messages : Messages[i] # c
                              /\ Messages' = Append(Messages, c)
                              /\ HandedOver' <=> HandedOver
    <3>1. PICK c \in Calls : /\ \A i \in DOMAIN Messages : Messages[i] # c
                             /\ Messages' = Append(Messages, c)
                             /\ HandedOver' <=> HandedOver
      BY <2>2
    <3>2. Channel!Accept(c)
      BY <3>1, <1>4 DEF Channel!Accept, Messages, HandedOver
    <3> QED BY <3>2 DEF Channel!ChannelNext
  <2>3. CASE Messages' = Messages /\ Messages # <<>> /\ ~HandedOver /\ HandedOver'
    <3>1. Channel!HandOver
      BY <2>3, <1>4 DEF Channel!HandOver, Messages, HandedOver
    <3> QED BY <3>1 DEF Channel!ChannelNext
  <2>4. CASE HandedOver /\ ~HandedOver' /\ Messages' = Tail(Messages)
    <3>1. Channel!Answer
      BY <2>4, <1>4 DEF Channel!Answer, Messages, HandedOver
    <3> QED BY <3>1 DEF Channel!ChannelNext
  <2> QED BY <1>4, <2>1, <2>2, <2>3, <2>4, WorkingStep
<1> QED BY <1>2, <1>3, <1>4

LEMMA ChannelStarts == Init => Channel!ChannelInit
<1> SUFFICES ASSUME Init PROVE Channel!ChannelInit
  OBVIOUS
<1>1. TypeOK /\ cmds = <<>> /\ Working
  BY InitTypeInv DEF Init, TypeInv, Working
<1>2. Messages = <<>>
  BY <1>1, MessagesEmpty
<1> QED BY <1>1, <1>2 DEF Channel!ChannelInit, Messages

\* The command manager is a one-at-a-time FIFO channel to the firmware, until
\* it gives a command up: commands are handed over in the order in which they
\* were queued, each only after the one before it was answered.
THEOREM Refines == Spec => ImplementsChannel
<1> QED BY ChannelStarts, ChannelSteps, ChannelInductive, PTL
        DEF Spec, ImplementsChannel, Channel!ChannelSpec
=============================================================================
