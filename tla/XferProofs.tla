---------------------------- MODULE XferProofs -----------------------------
(***************************************************************************)
(* Transfers, proved for every number of queues, slots, contexts and every *)
(* process: a DSA wait covers the batches of its ticket, a slot is handed   *)
(* on only after its batch, the daemon's descriptor lists outlive the       *)
(* contexts that use them, copies follow the compute stream, and batches in *)
(* flight reach the memory they were built for.                            *)
(***************************************************************************)
EXTENDS Xfer, FiniteSetTheorems, SequenceTheorems, WellFoundedInduction, TLAPS

-----------------------------------------------------------------------------
(* Tickets.  The lookup of a waiter sees a batch in flight only through its *)
(* slot, and a batch submitted after the lookup must carry a later ticket.  *)

CtxFields == {"at", "todo", "ticket", "fut", "ev", "remote", "local"}
WaitFields == {"at", "upto", "slot", "rc"}

TicketTypes ==
  /\ DOMAIN ctx = Ctxs /\ \A c \in Ctxs : DOMAIN ctx[c] = CtxFields /\ ctx[c].ticket \in Nat
  /\ DOMAIN wait = Waiters /\ \A c \in Waiters : DOMAIN wait[c] = WaitFields /\ wait[c].upto \in Nat
  /\ DOMAIN call = Submitters /\ lastTicket \in Nat
  /\ DOMAIN ticket = Slots /\ DOMAIN status = Slots /\ DOMAIN hw = Slots

\* A slot whose batch is in flight has its ticket and an open record.
SlotOf(s) == hw[s] # None =>
  status[s] = "none" /\ ticket[s] = hw[s].ticket /\ ticket[s] \in 1..lastTicket

\* A call holds the mutex, and its ticket is later than any that is waited for.
CallOf(d) == call[d] # None =>
  /\ holder = d /\ DOMAIN call[d] = {"ticket", "todo"} /\ call[d].ticket \in 1..lastTicket
  /\ \A c \in Ctxs : /\ ctx[c].ticket < call[d].ticket
                     /\ wait[c].at # "idle" => wait[c].upto < call[d].ticket

\* A ticket that is waited for was drawn, or the waiter keeps others from drawing.
WaitOf(c) ==
  /\ ctx[c].ticket <= lastTicket
  /\ wait[c].at # "idle" => wait[c].upto <= lastTicket \/ holder = c
  /\ ctx[c].at = "reset" => holder = c

TicketInv ==
  /\ TicketTypes
  /\ \A s \in Slots : SlotOf(s)
  /\ \A d \in Dirs : CallOf(d)
  /\ \A c \in Ctxs : WaitOf(c)
  /\ WaitCovers

\* What a step that leaves the engine alone may do to the contexts.
CtxKeeps ==
  /\ DOMAIN ctx' = Ctxs
  /\ \A c \in Ctxs : /\ DOMAIN ctx'[c] = CtxFields
                     /\ ctx'[c].ticket \in {0, ctx[c].ticket}
                     /\ ctx'[c].at = "reset" => ctx[c].at = "reset"

LEMMA TicketInit == Init => TicketInv
<1> SUFFICES ASSUME Init PROVE TicketInv
  OBVIOUS
<1>1. DsaInit /\ ctx = [c \in Ctxs |-> New]
  BY DEF Init
<1>2. TicketTypes
  BY <1>1 DEF DsaInit, TicketTypes, New, NotWaiting, CtxFields, WaitFields
<1>3. \A s \in Slots : SlotOf(s)
  BY <1>1 DEF DsaInit, SlotOf
<1>4. \A d \in Dirs : CallOf(d)
  BY <1>1, XferConstants DEF DsaInit, CallOf
<1>5. \A c \in Ctxs : WaitOf(c)
  BY <1>1 DEF DsaInit, WaitOf, New, NotWaiting, Ctxs
<1>6. WaitCovers
  BY <1>1 DEF DsaInit, WaitCovers
<1> QED
  BY <1>2, <1>3, <1>4, <1>5, <1>6 DEF TicketInv

\* A step that leaves the engine and the mutex alone.
LEMMA TicketQuiet ==
  ASSUME TicketInv, UNCHANGED <<engineVars, holder>>, CtxKeeps
  PROVE  TicketInv'
<1>0. /\ UNCHANGED <<ticket, status, hw, lastTicket, call, wait, holder>>
  BY DEF engineVars, slotVars
<1>1. TicketTypes'
  BY <1>0 DEF TicketInv, TicketTypes, CtxKeeps
<1>2. ASSUME NEW s \in Slots PROVE SlotOf(s)'
  BY <1>0 DEF TicketInv, SlotOf
<1>3. ASSUME NEW d \in Dirs PROVE CallOf(d)'
  <2>1. CallOf(d) /\ \A c \in Ctxs : ctx[c].ticket \in Nat
    BY DEF TicketInv, TicketTypes
  <2> QED
    BY <1>0, <2>1 DEF CallOf, CtxKeeps
<1>4. ASSUME NEW c \in Ctxs PROVE WaitOf(c)'
  <2>1. WaitOf(c) /\ lastTicket \in Nat
    BY DEF TicketInv, TicketTypes
  <2> QED
    BY <1>0, <2>1 DEF WaitOf, CtxKeeps
<1>5. WaitCovers'
  BY <1>0 DEF TicketInv, WaitCovers
<1> QED
  BY <1>1, <1>2, <1>3, <1>4, <1>5 DEF TicketInv

\* A call draws its ticket: every wait that is under way is for an older one.
LEMMA TicketBegin ==
  ASSUME TicketInv, NEW d \in Dirs, NEW entries, holder = None, holder' = d,
         AsyncBegin(d, entries), UNCHANGED ctx
  PROVE  TicketInv'
<1>0. /\ lastTicket' = lastTicket + 1
      /\ call' = [call EXCEPT ![d] = [ticket |-> lastTicket + 1, todo |-> Batches(entries)]]
      /\ UNCHANGED <<ticket, status, hw, wait, ctx>>
  BY DEF AsyncBegin, slotVars
<1>1. TicketTypes
  BY DEF TicketInv
<1>2. lastTicket \in Nat /\ DOMAIN call = Dirs
  BY <1>1, XferConstants DEF TicketTypes
<1>3. TicketTypes'
  BY <1>0, <1>1 DEF TicketTypes
<1>4. ASSUME NEW s \in Slots PROVE SlotOf(s)'
  BY <1>0, <1>2 DEF TicketInv, SlotOf
<1>5. \A c \in Ctxs : /\ ctx[c].ticket \in Nat /\ ctx[c].ticket <= lastTicket
                      /\ ctx[c].at # "reset" /\ wait[c].upto \in Nat
                      /\ wait[c].at # "idle" => wait[c].upto <= lastTicket
  <2> SUFFICES ASSUME NEW c \in Ctxs
               PROVE  /\ ctx[c].ticket \in Nat /\ ctx[c].ticket <= lastTicket
                      /\ ctx[c].at # "reset" /\ wait[c].upto \in Nat
                      /\ wait[c].at # "idle" => wait[c].upto <= lastTicket
    OBVIOUS
  <2>1. WaitOf(c) /\ holder # c
    BY DsaConstants DEF TicketInv, Ctxs
  <2> QED
    BY <1>1, <2>1 DEF TicketTypes, WaitOf, Ctxs
<1>6. ASSUME NEW e \in Dirs PROVE CallOf(e)'
  <2>1. CASE e = d
    BY <1>0, <1>2, <1>5, <2>1 DEF CallOf
  <2>2. CASE e # d
    <3>1. call[e] = None
      BY DsaConstants, XferConstants DEF TicketInv, CallOf
    <3> QED
      BY <1>0, <1>2, <2>2, <3>1 DEF CallOf
  <2> QED
    BY <2>1, <2>2
<1>7. ASSUME NEW c \in Ctxs PROVE WaitOf(c)'
  BY <1>0, <1>2, <1>5 DEF WaitOf
<1>8. WaitCovers'
  BY <1>0 DEF TicketInv, WaitCovers
<1> QED
  BY <1>3, <1>4, <1>6, <1>7, <1>8 DEF TicketInv

\* A batch goes out.  Every wait that has returned is for an older ticket, so the
\* batch is none of those it covers; reaping leaves the slots in flight alone.
LEMMA TicketSubmit ==
  ASSUME TicketInv, NEW d \in Dirs, RunDsaSubmit(d)
  PROVE  TicketInv'
<1> DEFINE w == nextWq % NumWq
           s == CHOOSE f \in FreeSlots(w) : \A g \in FreeSlots(w) : f[2] <= g[2]
           work == Head(call[d].todo)
           tk == call[d].ticket
           next == IF Len(call[d].todo) = 1 THEN None ELSE [call[d] EXCEPT !.todo = Tail(@)]
<1>0. /\ call[d] # None
      /\ status' = [status EXCEPT ![s] = "none"]
      /\ hw' = [hw EXCEPT ![s] = [ticket |-> tk, work |-> work]]
      /\ ticket' = [TicketAfter({w}) EXCEPT ![s] = tk]
      /\ UNCHANGED <<lastTicket, wait>>
  BY DEF RunDsaSubmit, SubmitSlot, SubmitBatch
<1>1. TicketTypes
  BY DEF TicketInv
<1>2. DOMAIN call = Dirs /\ lastTicket \in Nat
  BY <1>1, XferConstants DEF TicketTypes
<1>3. call' = [call EXCEPT ![d] = next]
  BY DEF RunDsaSubmit, SubmitSlot
<1>4. /\ holder = d /\ DOMAIN call[d] = {"ticket", "todo"} /\ tk \in 1..lastTicket
      /\ \A c \in Ctxs : /\ ctx[c].ticket < tk
                         /\ wait[c].at # "idle" => wait[c].upto < tk
  BY <1>0 DEF TicketInv, CallOf
<1>5. /\ DOMAIN call' = Dirs /\ \A e \in Dirs : e # d => call'[e] = None
      /\ call'[d] # None => DOMAIN call'[d] = {"ticket", "todo"} /\ call'[d].ticket = tk
  <2>1. \A e \in Dirs : e # d => call[e] = None
    BY <1>4 DEF TicketInv, CallOf
  <2>2. call'[d] = next
    BY <1>2, <1>3
  <2> QED
    BY <1>2, <1>3, <1>4, <2>1, <2>2
<1>6. /\ DOMAIN ctx' = Ctxs
      /\ \A c \in Ctxs : /\ DOMAIN ctx'[c] = CtxFields /\ ctx'[c].at = ctx[c].at
                         /\ ctx'[c].ticket = ctx[c].ticket \/ (ctx'[c].ticket = tk /\ call'[d] = None)
  <2>1. CASE call'[d] = None
    <3>1. ctx' = [ctx EXCEPT ![Head(queue[d]).c].ticket = tk]
      BY <2>1 DEF RunDsaSubmit
    <3> QED
      BY <1>1, <2>1, <3>1 DEF TicketTypes, CtxFields
  <2>2. CASE call'[d] # None
    <3>1. ctx' = ctx
      BY <2>2 DEF RunDsaSubmit
    <3> QED
      BY <1>1, <3>1 DEF TicketTypes
  <2> QED
    BY <2>1, <2>2
<1>7. holder' = IF call'[d] = None THEN None ELSE d
  BY <1>4 DEF RunDsaSubmit
<1>8. /\ DOMAIN ticket' = Slots /\ DOMAIN status' = Slots /\ DOMAIN hw' = Slots
      /\ \A r \in Slots :
           \/ hw'[r] = [ticket |-> tk, work |-> work] /\ status'[r] = "none" /\ ticket'[r] = tk
           \/ hw'[r] = hw[r] /\ status'[r] = status[r] /\ (hw[r] # None => ticket'[r] = ticket[r])
  <2>1. DOMAIN TicketAfter({w}) = Slots
    BY DEF TicketAfter
  <2>2. \A r \in Slots : hw[r] # None => TicketAfter({w})[r] = ticket[r]
    BY DEF TicketAfter, Finished, TicketInv, SlotOf
  <2> HIDE DEF s, w, tk, work
  <2> QED
    BY <1>0, <1>1, <2>1, <2>2 DEF TicketTypes
<1> HIDE DEF s, w, tk, work, next
<1>9. TicketTypes'
  <2>1. \A c \in Ctxs : ctx'[c].ticket \in Nat
    BY <1>1, <1>2, <1>4, <1>6 DEF TicketTypes
  <2> QED
    BY <1>0, <1>1, <1>5, <1>6, <1>8, <2>1, XferConstants DEF TicketTypes
<1>10. ASSUME NEW r \in Slots PROVE SlotOf(r)'
  <2>1. SlotOf(r)
    BY DEF TicketInv
  <2>2. CASE hw'[r] = [ticket |-> tk, work |-> work] /\ status'[r] = "none" /\ ticket'[r] = tk
    BY <1>0, <1>4, <2>2 DEF SlotOf
  <2>3. CASE hw'[r] = hw[r] /\ status'[r] = status[r] /\ (hw[r] # None => ticket'[r] = ticket[r])
    BY <1>0, <2>1, <2>3 DEF SlotOf
  <2> QED
    BY <1>8, <2>2, <2>3
<1>11. ASSUME NEW e \in Dirs PROVE CallOf(e)'
  BY <1>0, <1>4, <1>5, <1>6, <1>7 DEF CallOf
<1>12. ASSUME NEW c \in Ctxs PROVE WaitOf(c)'
  <2>1. WaitOf(c) /\ holder # c
    BY <1>4, XferConstants, DsaConstants DEF TicketInv, Ctxs
  <2> QED
    BY <1>0, <1>2, <1>4, <1>6, <2>1 DEF WaitOf
<1>13. WaitCovers'
  <2> SUFFICES ASSUME NEW c \in Ctxs, wait[c].at = "back", NEW r \in Slots, hw'[r] # None
               PROVE  hw'[r].ticket > wait[c].upto
    BY <1>0 DEF WaitCovers, Ctxs
  <2>1. hw[r] # None => hw[r].ticket > wait[c].upto
    BY DEF TicketInv, WaitCovers, Ctxs
  <2>2. wait[c].upto < tk /\ wait[c].upto \in Nat
    BY <1>1, <1>4 DEF TicketTypes, Ctxs
  <2> QED
    BY <1>4, <1>8, <2>1, <2>2
<1> QED
  BY <1>9, <1>10, <1>11, <1>12, <1>13 DEF TicketInv

\* The engine finishes a batch.
LEMMA TicketHw ==
  ASSUME TicketInv, NEW s \in Slots, NEW ok \in BOOLEAN, HwDone(s, ok), UNCHANGED <<holder, ctx>>
  PROVE  TicketInv'
<1>0. /\ hw' = [hw EXCEPT ![s] = None]
      /\ status' = [status EXCEPT ![s] = IF ok THEN "ok" ELSE "fail"]
      /\ UNCHANGED <<ticket, lastTicket, call, wait, holder, ctx>>
  BY DEF HwDone
<1>1. TicketTypes'
  BY <1>0 DEF TicketInv, TicketTypes
<1>2. \A r \in Slots : hw'[r] # None => hw'[r] = hw[r] /\ status'[r] = status[r]
  BY <1>0 DEF TicketInv, TicketTypes
<1>3. ASSUME NEW r \in Slots PROVE SlotOf(r)'
  BY <1>0, <1>2 DEF TicketInv, SlotOf
<1>4. ASSUME NEW d \in Dirs PROVE CallOf(d)'
  BY <1>0 DEF TicketInv, CallOf
<1>5. ASSUME NEW c \in Ctxs PROVE WaitOf(c)'
  BY <1>0 DEF TicketInv, WaitOf
<1>6. WaitCovers'
  BY <1>0, <1>2 DEF TicketInv, WaitCovers
<1> QED
  BY <1>1, <1>3, <1>4, <1>5, <1>6 DEF TicketInv

\* A step of one wait: it goes on with the same ticket, or it ends.
LEMMA TicketWait ==
  ASSUME TicketInv, NEW c \in Ctxs, UNCHANGED <<status, hw, lastTicket, call, ctx, holder>>,
         DOMAIN ticket' = Slots, \A s \in Slots : hw[s] # None => ticket'[s] = ticket[s],
         DOMAIN wait' = Waiters, \A b \in Waiters : b # c => wait'[b] = wait[b],
         DOMAIN wait'[c] = WaitFields, wait'[c].upto = wait[c].upto, wait[c].at # "idle",
         wait'[c].at = "back" => \A s \in Slots : hw[s] # None => ticket[s] > wait[c].upto
  PROVE  TicketInv'
<1>1. TicketTypes'
  BY DEF TicketInv, TicketTypes, Ctxs
<1>2. \A b \in Ctxs : wait'[b].upto = wait[b].upto /\ (wait'[b].at # "idle" => wait[b].at # "idle")
  BY DEF Ctxs
<1>3. ASSUME NEW r \in Slots PROVE SlotOf(r)'
  BY DEF TicketInv, SlotOf
<1>4. ASSUME NEW d \in Dirs PROVE CallOf(d)'
  BY <1>2 DEF TicketInv, CallOf
<1>5. ASSUME NEW b \in Ctxs PROVE WaitOf(b)'
  BY <1>2 DEF TicketInv, WaitOf
<1>6. WaitCovers'
  <2> SUFFICES ASSUME NEW b \in Waiters, wait'[b].at = "back", NEW s \in Slots, hw[s] # None
               PROVE  hw[s].ticket > wait'[b].upto
    BY DEF WaitCovers
  <2>1. CASE b = c
    BY <2>1 DEF TicketInv, SlotOf
  <2>2. CASE b # c
    BY <2>2 DEF TicketInv, WaitCovers
  <2> QED
    BY <2>1, <2>2
<1> QED
  BY <1>1, <1>3, <1>4, <1>5, <1>6 DEF TicketInv

\* The lookup: a batch in flight is not reaped, so one the wait is for is found.
LEMMA TicketLook ==
  ASSUME TicketInv, NEW c \in Ctxs, WaitLook(c), UNCHANGED <<holder, ctx>>
  PROVE  TicketInv'
<1> DEFINE upto == wait[c].upto
           busy == {w \in Queues : Pending(upto, w) # {}}
           seen == IF busy = {} THEN Queues ELSE 0..Lowest(busy)
<1>0. /\ wait[c].at = "look" /\ ticket' = TicketAfter(seen)
      /\ UNCHANGED <<status, hw, lastTicket, call>>
  BY DEF WaitLook
<1>1. DOMAIN wait = Waiters /\ DOMAIN wait[c] = WaitFields /\ upto \in Nat
  BY DEF TicketInv, TicketTypes, Ctxs
<1>2. \A W : DOMAIN TicketAfter(W) = Slots
           /\ \A s \in Slots : hw[s] # None => TicketAfter(W)[s] = ticket[s]
  BY DEF TicketAfter, Finished, TicketInv, SlotOf
<1>3. DOMAIN ticket' = Slots /\ \A s \in Slots : hw[s] # None => ticket'[s] = ticket[s]
  BY <1>0, <1>2
<1>4. busy = {} => \A s \in Slots : hw[s] # None => ticket[s] > upto
  <2> SUFFICES ASSUME busy = {}, NEW s \in Slots, hw[s] # None PROVE ticket[s] > upto
    OBVIOUS
  <2>1. s[1] \in Queues
    BY DEF Slots
  <2>2. ticket[s] \in Nat /\ ticket[s] # 0
    BY DEF TicketInv, SlotOf, TicketTypes
  <2>3. s \notin Pending(upto, s[1])
    BY <2>1
  <2> QED
    BY <1>1, <1>2, <2>2, <2>3 DEF Pending
<1>5. \/ busy = {} /\ \E rc : wait' = [wait EXCEPT ![c].at = "back", ![c].rc = rc]
      \/ \E r : wait' = [wait EXCEPT ![c].at = "poll", ![c].slot = r]
  BY DEF WaitLook
<1> HIDE DEF busy, seen
<1>6. /\ DOMAIN wait' = Waiters /\ \A b \in Waiters : b # c => wait'[b] = wait[b]
      /\ DOMAIN wait'[c] = WaitFields /\ wait'[c].upto = upto
      /\ wait'[c].at = "back" => busy = {}
  <2>1. CASE busy = {} /\ \E rc : wait' = [wait EXCEPT ![c].at = "back", ![c].rc = rc]
    BY <1>1, <2>1 DEF Ctxs, WaitFields
  <2>2. CASE \E r : wait' = [wait EXCEPT ![c].at = "poll", ![c].slot = r]
    BY <1>1, <2>2 DEF Ctxs, WaitFields
  <2> QED
    BY <1>5, <2>1, <2>2
<1> QED
  BY <1>0, <1>3, <1>4, <1>6, TicketWait

LEMMA TicketPoll ==
  ASSUME TicketInv, NEW c \in Ctxs, WaitPoll(c), UNCHANGED <<holder, ctx>>
  PROVE  TicketInv'
<1>0. /\ wait[c].at = "poll" /\ wait' = [wait EXCEPT ![c].at = "look"]
      /\ UNCHANGED <<ticket, status, hw, lastTicket, call>>
  BY DEF WaitPoll, slotVars
<1>1. DOMAIN wait = Waiters /\ DOMAIN wait[c] = WaitFields /\ DOMAIN ticket = Slots
  BY DEF TicketInv, TicketTypes, Ctxs
<1>2. /\ DOMAIN wait' = Waiters /\ \A b \in Waiters : b # c => wait'[b] = wait[b]
      /\ DOMAIN wait'[c] = WaitFields /\ wait'[c].upto = wait[c].upto /\ wait'[c].at = "look"
  BY <1>0, <1>1 DEF Ctxs, WaitFields
<1> QED
  BY <1>0, <1>1, <1>2, TicketWait

\* A wait begins, ends, or is left alone, and the mutex goes with a reset.
LEMMA TicketThread ==
  ASSUME TicketInv, NEW c \in Ctxs, UNCHANGED <<ticket, status, hw, lastTicket, call>>,
         CtxKeeps \/ (holder' = c /\ ctx' = [ctx EXCEPT ![c].at = "reset"]),
         \/ wait' = [wait EXCEPT ![c] = NotWaiting] /\ ctx'[c].at # "reset"
            /\ holder' \in {holder, IF holder = c THEN None ELSE holder}
         \/ WaitBegin(c, ctx[c].ticket) /\ UNCHANGED holder
         \/ WaitBegin(c, TicketAll) /\ holder = None /\ holder' = c
  PROVE  TicketInv'
<1>1. TicketTypes
  BY DEF TicketInv
<1>2. /\ DOMAIN ctx' = Ctxs
      /\ \A b \in Ctxs : /\ DOMAIN ctx'[b] = CtxFields
                         /\ ctx'[b].ticket \in {0, ctx[b].ticket}
                         /\ ctx'[b].at = "reset" => ctx[b].at = "reset" \/ (b = c /\ holder' = c)
  <2>1. CASE CtxKeeps
    BY <2>1 DEF CtxKeeps
  <2>2. CASE holder' = c /\ ctx' = [ctx EXCEPT ![c].at = "reset"]
    BY <1>1, <2>2 DEF TicketTypes, CtxFields
  <2> QED
    BY <2>1, <2>2
<1>3. /\ DOMAIN wait' = Waiters /\ \A b \in Waiters : b # c => wait'[b] = wait[b]
      /\ DOMAIN wait'[c] = WaitFields /\ wait'[c].upto \in Nat /\ wait'[c].at # "back"
      /\ wait'[c].at # "idle" => \/ wait'[c].upto = ctx[c].ticket
                                 \/ holder = None /\ holder' = c
  <2>1. DOMAIN wait = Waiters /\ c \in Waiters /\ ctx[c].ticket \in Nat /\ TicketAll \in Nat
    BY <1>1, DsaConstants DEF TicketTypes, Ctxs
  <2>2. CASE wait' = [wait EXCEPT ![c] = NotWaiting]
    BY <2>1, <2>2 DEF NotWaiting, WaitFields
  <2>3. ASSUME NEW u \in Nat, WaitBegin(c, u)
        PROVE  /\ DOMAIN wait' = Waiters /\ \A b \in Waiters : b # c => wait'[b] = wait[b]
               /\ DOMAIN wait'[c] = WaitFields /\ wait'[c].upto = u /\ wait'[c].at = "look"
    BY <2>1, <2>3 DEF WaitBegin, NotWaiting, WaitFields
  <2>4. CASE WaitBegin(c, ctx[c].ticket) /\ UNCHANGED holder
    BY <2>1, <2>3, <2>4
  <2>5. CASE WaitBegin(c, TicketAll) /\ holder = None /\ holder' = c
    BY <2>1, <2>3, <2>5
  <2> QED
    BY <2>2, <2>4, <2>5
<1>4. TicketTypes'
  BY <1>1, <1>2, <1>3 DEF TicketTypes, Ctxs
<1>5. ASSUME NEW s \in Slots PROVE SlotOf(s)'
  BY DEF TicketInv, SlotOf
<1>6. \A b \in Ctxs : ctx[b].ticket \in Nat
  BY <1>1 DEF TicketTypes
<1>7. \A d \in Dirs : call[d] # None => holder = d /\ d # c /\ d # None
  BY XferConstants, DsaConstants DEF TicketInv, CallOf, Ctxs
<1>8. ASSUME NEW d \in Dirs PROVE CallOf(d)'
  <2> SUFFICES ASSUME call[d] # None PROVE CallOf(d)'
    BY DEF CallOf
  <2>1. CallOf(d) /\ holder = d /\ holder' = d
    BY <1>7 DEF TicketInv, WaitBegin
  <2>2. ASSUME NEW b \in Ctxs
        PROVE  ctx'[b].ticket < call[d].ticket /\ (wait'[b].at # "idle" => wait'[b].upto < call[d].ticket)
    <3>1. ctx'[b].ticket < call[d].ticket
      BY <1>2, <1>6, <2>1 DEF CallOf
    <3>2. CASE b = c
      BY <1>3, <1>7, <2>1, <3>1, <3>2 DEF CallOf
    <3>3. CASE b # c
      BY <1>3, <2>1, <3>1, <3>3 DEF CallOf, Ctxs
    <3> QED
      BY <3>2, <3>3
  <2> QED
    BY <2>1, <2>2 DEF CallOf
<1>9. ASSUME NEW b \in Ctxs PROVE WaitOf(b)'
  <2>1. WaitOf(b) /\ WaitOf(c) /\ lastTicket \in Nat
    BY <1>1 DEF TicketInv, TicketTypes
  <2>2. ctx'[b].ticket <= lastTicket
    BY <1>2, <1>6, <2>1 DEF WaitOf
  <2>3. CASE b = c
    BY <1>2, <1>3, <2>1, <2>2, <2>3 DEF WaitOf
  <2>4. CASE b # c
    <3>1. wait'[b] = wait[b] /\ (ctx'[b].at = "reset" => ctx[b].at = "reset")
      BY <1>2, <1>3, <2>4 DEF Ctxs
    <3>2. holder = b => holder' = b
      BY <2>4, DsaConstants DEF Ctxs
    <3> QED
      BY <2>1, <2>2, <3>1, <3>2 DEF WaitOf
  <2> QED
    BY <2>3, <2>4
<1>10. WaitCovers'
  BY <1>3 DEF TicketInv, WaitCovers
<1> QED
  BY <1>4, <1>5, <1>8, <1>9, <1>10 DEF TicketInv

\* The contexts when one field of one of them changes, or one is created.
LEMMA KeepsField ==
  ASSUME TicketInv
  PROVE  /\ UNCHANGED ctx => CtxKeeps
         /\ \A c, v : ctx' = [ctx EXCEPT ![c].fut = v] => CtxKeeps
         /\ \A c, v : ctx' = [ctx EXCEPT ![c].todo = v] => CtxKeeps
         /\ \A c, v : ctx' = [ctx EXCEPT ![c].at = v] /\ v # "reset" => CtxKeeps
<1>1. DOMAIN ctx = Ctxs /\ \A c \in Ctxs : DOMAIN ctx[c] = CtxFields
  BY DEF TicketInv, TicketTypes
<1> QED
  BY <1>1 DEF CtxKeeps, CtxFields
LEMMA KeepsCreate ==
  ASSUME TicketInv, NEW c \in Ctxs, NEW l, ctx' = [ctx EXCEPT ![c] = Created(c, l)]
  PROVE  CtxKeeps
<1>1. DOMAIN ctx = Ctxs /\ \A b \in Ctxs : DOMAIN ctx[b] = CtxFields
  BY DEF TicketInv, TicketTypes
<1>2. /\ DOMAIN Created(c, l) = CtxFields /\ Created(c, l).ticket = 0
      /\ Created(c, l).at \in {"sync", "issue"}
  BY DEF Created, New, CtxFields
<1> QED
  BY <1>1, <1>2 DEF CtxKeeps

LEMMA TicketStep == TicketInv /\ [Next]_vars => TicketInv'
<1> SUFFICES ASSUME TicketInv, [Next]_vars PROVE TicketInv'
  OBVIOUS
<1> USE KeepsField
<1>1. CASE UNCHANGED vars
  BY <1>1, TicketQuiet DEF vars, dsaVars, xferVars
<1>2. CASE RdmaInit \/ \E n \in DOMAIN proc.pools : RegisterPool(n) \/ UnregisterPool(n)
  BY <1>2, TicketQuiet DEF RdmaInit, RegisterPool, UnregisterPool, dsaVars
<1>3. ASSUME NEW c \in Ctxs, Caller(c) PROVE TicketInv'
  <2>1. ASSUME NEW names, Create(c, names) PROVE TicketInv'
    BY <2>1, KeepsCreate, TicketQuiet DEF Create, dsaVars
  <2>2. CASE FlowCreate(c) \/ CopierCreate(c)
    BY <2>1, <2>2 DEF FlowCreate, CopierCreate
  <2>3. CASE XferWaitCurStream(c)
    BY <2>3, TicketQuiet DEF XferWaitCurStream, dsaVars
  <2>4. CASE XferChunksBatch(c)
    BY <2>4, TicketQuiet DEF XferChunksBatch, dsaVars
  <2>5. CASE XferFinish(c)
    BY <2>5, TicketQuiet DEF XferFinish, dsaVars
  <2> QED
    BY <1>3, <2>2, <2>3, <2>4, <2>5 DEF Caller
<1>4. ASSUME NEW c \in Ctxs, Waiter(c) PROVE TicketInv'
  <2>1. CASE WaitFuture(c)
    <3>0. UNCHANGED <<slotVars, lastTicket, firstFailed, nextWq, call, holder>>
      BY <2>1 DEF WaitFuture
    <3>1. CASE WaitBegin(c, ctx[c].ticket) /\ ctx' = [ctx EXCEPT ![c].at = "dsa"]
      BY <3>0, <3>1, TicketThread DEF slotVars
    <3>2. CASE UNCHANGED wait /\ ctx' = [ctx EXCEPT ![c].at = "event"]
      BY <3>0, <3>2, TicketQuiet DEF engineVars
    <3> QED
      BY <2>1, <3>1, <3>2 DEF WaitFuture
  <2>2. CASE DsaWaitStep(c)
    BY <2>2, TicketLook, TicketPoll DEF DsaWaitStep, xferVars
  <2>3. CASE DsaWaited(c)
    <3>1. CtxKeeps /\ ctx'[c].at # "reset"
      BY <2>3 DEF DsaWaited, TicketInv, TicketTypes, CtxFields
    <3> QED
      BY <2>3, <3>1, TicketThread DEF DsaWaited, slotVars
  <2>4. CASE EventWait(c)
    BY <2>4, TicketQuiet DEF EventWait, dsaVars
  <2>5. CASE ResetDone(c)
    <3>1. CtxKeeps /\ ctx'[c].at # "reset"
      BY <2>5 DEF ResetDone, Gone, TicketInv, TicketTypes, CtxFields
    <3>2. holder = c
      BY <2>5 DEF ResetDone, TicketInv, WaitOf
    <3> QED
      BY <2>5, <3>1, <3>2, TicketThread DEF ResetDone, slotVars
  <2> QED
    BY <1>4, <2>1, <2>2, <2>3, <2>4, <2>5 DEF Waiter
<1>5. ASSUME NEW c \in Ctxs, Destroy(c) PROVE TicketInv'
  <2>0. UNCHANGED <<slotVars, lastTicket, firstFailed, nextWq, call>>
    BY <1>5 DEF Destroy
  <2>1. CASE Gone(c) /\ UNCHANGED <<holder, wait>>
    BY <2>0, <2>1, TicketQuiet DEF Gone, engineVars
  <2>2. CASE /\ holder = None /\ holder' = c /\ WaitBegin(c, TicketAll)
             /\ ctx' = [ctx EXCEPT ![c].at = "reset"]
    BY <2>0, <2>2, TicketThread DEF slotVars
  <2> QED
    BY <1>5, <2>1, <2>2 DEF Destroy, ResetTicket
<1>6. ASSUME NEW d \in Dirs, Worker(d) PROVE TicketInv'
  <2>1. CASE RunCur(d) \/ RunCopyStream(d) \/ RunRdmaPost(d) \/ RunCopyCpu(d)
    BY <2>1, TicketQuiet DEF RunCur, RunCopyStream, RunRdmaPost, RunCopyCpu, dsaVars
  <2>2. CASE RunFinish(d)
    BY <2>2, TicketQuiet DEF RunFinish, dsaVars
  <2>3. CASE RunDsaSubmit(d)
    BY <2>3, TicketSubmit
  <2>4. ASSUME NEW ok \in May("pin"), RunCopyDsa(d, ok) PROVE TicketInv'
    <3>1. \/ UNCHANGED <<dsaVars, ctx>>
          \/ UNCHANGED <<engineVars, holder, ctx>>
          \/ /\ holder = None /\ holder' = d /\ UNCHANGED ctx
             /\ \E entries : AsyncBegin(d, entries)
      BY <2>4, Zenon DEF RunCopyDsa
    <3> QED
      BY <3>1, TicketQuiet, TicketBegin DEF dsaVars
  <2>5. ASSUME NEW ok \in May("rdma"), RunRdmaDone(d, ok) PROVE TicketInv'
    BY <2>5, TicketQuiet DEF RunRdmaDone, dsaVars
  <2> QED
    BY <1>6, <2>1, <2>2, <2>3, <2>4, <2>5 DEF Worker
<1>7. CASE Device
  <2>1. CASE CurStep
    BY <2>1, TicketQuiet DEF CurStep, dsaVars
  <2>2. ASSUME NEW x, StreamStep(x) PROVE TicketInv'
    BY <2>2, TicketQuiet DEF StreamStep, dsaVars
  <2>3. ASSUME NEW s \in Slots, NEW ok \in May("batch"), DsaStep(s, ok) PROVE TicketInv'
    BY <2>3, TicketHw DEF DsaStep, May
  <2> QED
    BY <1>7, <2>1, <2>2, <2>3 DEF Device
<1> QED
  BY <1>1, <1>2, <1>3, <1>4, <1>5, <1>6, <1>7 DEF Next

\* dsa_memcpy_batch_wait covers its ticket: when it has returned, and until its
\* caller has gone on, no batch up to the ticket is with the engine, whatever the
\* other threads submit, reap and reuse meanwhile without the waiter's knowledge.
THEOREM WaitsCoverTheirTicket == Spec => []WaitCovers
<1>1. TicketInv => WaitCovers
  BY DEF TicketInv
<1> QED
  BY <1>1, TicketInit, TicketStep, PTL DEF Spec

\* A slot is given to a batch only when the engine is done with the one before,
\* though waiters and submitters reap slots behind each other's back.
SlotsKept == [][\A s \in Slots : hw[s] # None => hw'[s] \in {hw[s], None}]_hw

\* The first free slot of a queue, which the submission takes, exists.
LEMMA FirstFree ==
  ASSUME NEW S \in SUBSET Slots, S # {}
  PROVE  \E f \in S : \A g \in S : f[2] <= g[2]
<1> DEFINE T == {f[2] : f \in S}
<1>1. \A f \in S : f[2] \in Nat
  BY DsaConstants DEF Slots
<1>2. T \subseteq Nat /\ T # {}
  BY <1>1
<1>3. PICK t \in T : \A y \in T : ~(<<y, t>> \in OpToRel(<, Nat))
  BY <1>2, NatLessThanWellFounded, WFMin
<1>4. PICK f \in S : t = f[2]
  BY <1>3
<1>5. \A g \in S : ~(g[2] < f[2])
  BY <1>1, <1>3, <1>4 DEF OpToRel
<1> QED
  BY <1>1, <1>5

LEMMA SlotsKeptStep ==
  TicketInv /\ [Next]_vars => [\A s \in Slots : hw[s] # None => hw'[s] \in {hw[s], None}]_hw
<1> SUFFICES ASSUME TicketInv, Next, hw' # hw, NEW s \in Slots, hw[s] # None
             PROVE  hw'[s] \in {hw[s], None}
  BY DEF vars, dsaVars, engineVars, slotVars
<1>1. ASSUME NEW d \in Dirs, SubmitSlot(d) PROVE hw'[s] = hw[s]
  <2> DEFINE w == nextWq % NumWq
             f == CHOOSE f \in FreeSlots(w) : \A g \in FreeSlots(w) : f[2] <= g[2]
  <2>1. FreeSlots(w) # {} /\ FreeSlots(w) \in SUBSET Slots
    BY <1>1 DEF SubmitSlot, Saturated, FreeSlots
  <2>2. f \in FreeSlots(w)
    BY <2>1, FirstFree
  <2>3. s \notin FreeSlots(w)
    BY DEF FreeSlots, TicketAfter, Finished, TicketInv, SlotOf
  <2>4. hw' = [hw EXCEPT ![f] = [ticket |-> call[d].ticket, work |-> Head(call[d].todo)]]
    BY <1>1 DEF SubmitSlot, SubmitBatch
  <2> QED
    BY <2>2, <2>3, <2>4 DEF TicketInv, TicketTypes
<1>2. ASSUME NEW r \in Slots, NEW ok, HwDone(r, ok) PROVE hw'[s] \in {hw[s], None}
  BY <1>2 DEF HwDone, TicketInv, TicketTypes
<1>3. \/ \E d \in Dirs : SubmitSlot(d)
      \/ \E r \in Slots : \E ok : HwDone(r, ok)
  <2>1. ASSUME NEW c \in Ctxs, Caller(c) PROVE hw' = hw
    BY <2>1 DEF Caller, FlowCreate, CopierCreate, Create, XferWaitCurStream, XferChunksBatch,
                XferFinish, dsaVars, engineVars, slotVars
  <2>2. ASSUME NEW c \in Ctxs, Waiter(c) PROVE hw' = hw
    BY <2>2 DEF Waiter, WaitFuture, DsaWaitStep, WaitLook, WaitPoll, DsaWaited, EventWait, ResetDone,
                dsaVars, engineVars, slotVars
  <2>3. ASSUME NEW c \in Ctxs, Destroy(c) PROVE hw' = hw
    BY <2>3 DEF Destroy, slotVars
  <2>4. ASSUME NEW d \in Dirs, Worker(d), ~SubmitSlot(d) PROVE hw' = hw
    <3>1. ASSUME NEW ok, RunCopyDsa(d, ok) PROVE hw' = hw
      <4>1. UNCHANGED dsaVars \/ UNCHANGED engineVars \/ \E entries : AsyncBegin(d, entries)
        BY <3>1, Zenon DEF RunCopyDsa
      <4> QED
        BY <4>1 DEF AsyncBegin, dsaVars, engineVars, slotVars
    <3>2. CASE RunCur(d) \/ RunFinish(d) \/ RunCopyStream(d) \/ RunRdmaPost(d) \/ RunCopyCpu(d)
      BY <3>2 DEF RunCur, RunFinish, RunCopyStream, RunRdmaPost, RunCopyCpu, dsaVars, engineVars,
                  slotVars
    <3>3. ASSUME NEW ok, RunRdmaDone(d, ok) PROVE hw' = hw
      BY <3>3 DEF RunRdmaDone, dsaVars, engineVars, slotVars
    <3> QED
      BY <2>4, <3>1, <3>2, <3>3 DEF Worker, RunDsaSubmit
  <2>5. CASE CurStep \/ \E x \in Dirs \cup Ctxs : StreamStep(x)
    BY <2>5 DEF CurStep, StreamStep, dsaVars, engineVars, slotVars
  <2>6. CASE RdmaInit \/ \E n \in DOMAIN proc.pools : RegisterPool(n) \/ UnregisterPool(n)
    BY <2>6 DEF RdmaInit, RegisterPool, UnregisterPool, dsaVars, engineVars, slotVars
  <2> QED
    BY <2>1, <2>2, <2>3, <2>4, <2>5, <2>6 DEF Next, Device, DsaStep
<1> QED
  BY <1>1, <1>2, <1>3

\* dsa_submit_slot takes no slot from a batch in flight: waiters and submitters
\* reap slots by ticket and completion record alone, and both speak of the new
\* batch when g_async_mutex is free again.
THEOREM BatchesKeepTheirSlot == Spec => SlotsKept
BY TicketInit, TicketStep, SlotsKeptStep, PTL DEF Spec, SlotsKept

-----------------------------------------------------------------------------
(* Descriptor lists.  A list lives as long as the count of its buffer, and  *)
(* the count is the number of registered pools on the buffer; a context that *)
(* is alive keeps its two pools registered.                                 *)

PoolsAt(b) == {n \in inPools : proc.pools[n].base = b}

\* The registrations agree with the registry, and a list belongs to its buffer.
RegsInv ==
  /\ inPools \subseteq DOMAIN proc.pools
  /\ DOMAIN regs = {proc.pools[n].base : n \in inPools}
  /\ \A b \in DOMAIN regs :
       /\ DOMAIN regs[b] = {"refs", "dlist"} /\ regs[b].refs = Cardinality(PoolsAt(b))
       /\ regs[b].dlist # None => /\ regs[b].dlist \in lists
                                  /\ regs[b].dlist.owner \in DOMAIN proc.pools
                                  /\ proc.pools[regs[b].dlist.owner].base = b
  /\ \A n \in inPools : proc.pools[n].device = "remote" => regs[proc.pools[n].base].dlist # None

\* Once contexts are created the pools of those that are not gone are registered,
\* and a live context has the lists of its buffers.
KeptPools ==
  (\E b \in Ctxs : ctx[b].at # "new") =>
    \A c \in Ctxs : ctx[c].at # "gone" => {Job(c).pool, Job(c).cpu} \subseteq inPools
OwnLists ==
  \A c \in Ctxs : Live(c) =>
    /\ ctx[c].remote = regs[Pool(c).base].dlist /\ ctx[c].remote # None
    /\ ctx[c].local = regs[CpuPool(c).base].dlist /\ ctx[c].local # None

DlistInv == proc \in Procs /\ (Remote => RegsInv /\ KeptPools /\ OwnLists)

LEMMA DlistInit == Init => DlistInv
<1> SUFFICES ASSUME Init PROVE DlistInv
  OBVIOUS
<1>1. proc \in Procs /\ inPools = {} /\ regs = <<>> /\ \A c \in Ctxs : ctx[c].at = "new"
  BY DEF Init, New
<1>2. DOMAIN regs = {}
  BY <1>1
<1>3. RegsInv
  BY <1>1, <1>2 DEF RegsInv
<1>4. KeptPools /\ OwnLists
  BY <1>1 DEF KeptPools, OwnLists, Live
<1> QED
  BY <1>1, <1>3, <1>4 DEF DlistInv

LEMMA DlistFollows == DlistInv => DlistAlive
<1> SUFFICES ASSUME DlistInv, NEW c \in Ctxs, Remote, Live(c)
             PROVE  ctx[c].remote \in lists /\ ctx[c].local \in lists
  BY DEF DlistAlive
<1>1. {Job(c).pool, Job(c).cpu} \subseteq inPools
  BY DEF DlistInv, KeptPools, Live
<1>2. Pool(c).base \in DOMAIN regs /\ CpuPool(c).base \in DOMAIN regs
  BY <1>1 DEF DlistInv, RegsInv, Pool, CpuPool
<1> QED
  BY <1>2 DEF DlistInv, RegsInv, OwnLists

\* A step that leaves the registry alone: contexts neither begin nor come back.
CtxSteady ==
  \A c \in Ctxs : /\ ctx'[c].at = "new" <=> ctx[c].at = "new"
                  /\ ctx[c].at = "gone" => ctx'[c].at = "gone"
                  /\ ctx'[c].remote = ctx[c].remote /\ ctx'[c].local = ctx[c].local

LEMMA DlistQuiet ==
  ASSUME DlistInv, UNCHANGED proc, Remote => UNCHANGED <<inPools, regs, lists>>, CtxSteady
  PROVE  DlistInv'
<1> SUFFICES ASSUME Remote PROVE (RegsInv /\ KeptPools /\ OwnLists)'
  BY DEF DlistInv, Remote
<1>0. UNCHANGED <<inPools, regs, lists, proc>>
  BY DEF Remote
<1>1. RegsInv'
  <2>1. RegsInv
    BY DEF DlistInv
  <2>2. \A b : (PoolsAt(b))' = PoolsAt(b)
    BY <1>0 DEF PoolsAt
  <2> QED
    BY <1>0, <2>1, <2>2 DEF RegsInv
<1>2. KeptPools'
  BY <1>0 DEF DlistInv, KeptPools, CtxSteady, Job
<1>3. OwnLists'
  BY <1>0 DEF DlistInv, OwnLists, CtxSteady, Live, Pool, CpuPool, Job
<1> QED
  BY <1>1, <1>2, <1>3

LEMMA SteadyField ==
  ASSUME TicketInv
  PROVE  /\ UNCHANGED ctx => CtxSteady
         /\ \A c, v : ctx' = [ctx EXCEPT ![c].fut = v] => CtxSteady
         /\ \A c, v : ctx' = [ctx EXCEPT ![c].todo = v] => CtxSteady
         /\ \A c, v : ctx' = [ctx EXCEPT ![c].ticket = v] => CtxSteady
         /\ \A c \in Ctxs : \A v : ctx' = [ctx EXCEPT ![c].at = v] /\ v # "new"
                              /\ ctx[c].at \notin {"new", "gone"} => CtxSteady
<1>1. DOMAIN ctx = Ctxs /\ \A c \in Ctxs : DOMAIN ctx[c] = CtxFields
  BY DEF TicketInv, TicketTypes
<1> QED
  BY <1>1 DEF CtxSteady, CtxFields

\* The assumptions on a remote process, for the one at hand.
LEMMA RemoteFacts ==
  ASSUME DlistInv, Remote
  PROVE  /\ RegsInv /\ KeptPools /\ OwnLists
         /\ IsFiniteSet(DOMAIN proc.pools)
         /\ \A m, n \in DOMAIN proc.pools :
              proc.pools[m].base = proc.pools[n].base => proc.pools[m].device = proc.pools[n].device
         /\ \A m, n \in DOMAIN proc.pools :
              None # [owner |-> m, od |-> proc.pools[n].outer, is |-> proc.pools[n].inner]
         /\ \A c \in Ctxs : /\ Job(c).owner = "flow"
                            /\ Job(c).pool \in DOMAIN proc.pools
                            /\ Job(c).cpu \in DOMAIN proc.pools
                            /\ Pool(c).device = "remote"
BY RemoteProcs DEF DlistInv, Remote, Job, Pool

\* A pool is registered: the first on its buffer makes the list of a client's.
LEMMA DlistRegister ==
  ASSUME DlistInv, Remote, NEW n \in DOMAIN proc.pools, RegisterPool(n)
  PROVE  DlistInv'
<1> DEFINE p == proc.pools[n]
           list == IF p.device = "remote" THEN DlistOf(n) ELSE None
<1>0. PICK q : q = p.base
  OBVIOUS
<1>1. /\ n \notin inPools /\ inPools' = inPools \cup {n} /\ UNCHANGED <<proc, ctx>>
      /\ \A c \in Ctxs : ctx[c].at = "new"
      /\ hooked /\ OnRegister(n)
  BY DEF RegisterPool
<1>2. RegsInv /\ IsFiniteSet(DOMAIN proc.pools)
  BY RemoteFacts
<1>3. list # None => list.owner = n
  BY DEF DlistOf
<1>4. p.device = "remote" => list # None
  BY RemoteFacts DEF DlistOf
<1>5. IsFiniteSet(inPools)
  BY <1>2, FS_Subset DEF RegsInv
<1>6. \A b : IsFiniteSet(PoolsAt(b))
  <2> SUFFICES ASSUME NEW b PROVE IsFiniteSet(PoolsAt(b))
    OBVIOUS
  <2>1. PoolsAt(b) \in SUBSET inPools
    BY DEF PoolsAt
  <2> QED
    BY <1>5, <2>1, FS_Subset
<1>7. /\ (PoolsAt(q))' = PoolsAt(q) \cup {n} /\ n \notin PoolsAt(q)
      /\ \A b : b # q => (PoolsAt(b))' = PoolsAt(b)
  BY <1>0, <1>1 DEF PoolsAt
<1>8. Cardinality(PoolsAt(q) \cup {n}) = Cardinality(PoolsAt(q)) + 1
  BY <1>6, <1>7, FS_AddElement
<1>9. RegsInv'
  <2>1. inPools' \subseteq DOMAIN proc'.pools
    BY <1>1, <1>2 DEF RegsInv
  <2>2. {proc'.pools[m].base : m \in inPools'} = DOMAIN regs \cup {q}
    BY <1>0, <1>1, <1>2 DEF RegsInv
  <2>3. CASE q \notin DOMAIN regs
    <3>1. /\ regs' = [b \in DOMAIN regs \cup {q} |-> IF b # q THEN regs[b]
                                                    ELSE [refs |-> 1, dlist |-> list]]
          /\ lists' = IF list # None THEN lists \cup {list} ELSE lists
      BY <1>1, <2>3, <1>0 DEF OnRegister
    <3>2. /\ DOMAIN regs' = DOMAIN regs \cup {q} /\ \A b \in DOMAIN regs : regs'[b] = regs[b]
          /\ regs'[q] = [refs |-> 1, dlist |-> list]
      BY <2>3, <3>1
    <3>3. PoolsAt(q) = {}
      BY <1>2, <2>3 DEF RegsInv, PoolsAt
    <3>4. Cardinality((PoolsAt(q))') = 1
      BY <1>7, <1>8, <3>3, FS_EmptySet
    <3> HIDE DEF p, list
    <3>5. ASSUME NEW b \in DOMAIN regs'
          PROVE  /\ DOMAIN regs'[b] = {"refs", "dlist"}
                 /\ regs'[b].refs = Cardinality((PoolsAt(b))')
      <4>1. CASE b = q
        BY <3>2, <3>4, <4>1
      <4>2. CASE b # q
        BY <1>2, <1>7, <3>2, <4>2 DEF RegsInv
      <4> QED
        BY <4>1, <4>2
    <3>6. ASSUME NEW b \in DOMAIN regs', regs'[b].dlist # None
          PROVE  /\ regs'[b].dlist \in lists' /\ regs'[b].dlist.owner \in DOMAIN proc.pools
                 /\ proc.pools[regs'[b].dlist.owner].base = b
      <4>1. CASE b = q
        BY <1>0, <1>3, <3>1, <3>2, <3>6, <4>1 DEF p
      <4>2. CASE b # q
        BY <1>2, <3>1, <3>2, <3>6, <4>2 DEF RegsInv
      <4> QED
        BY <4>1, <4>2
    <3>7. ASSUME NEW m \in inPools', proc.pools[m].device = "remote"
          PROVE  regs'[proc.pools[m].base].dlist # None
      <4>1. CASE m = n
        BY <1>0, <1>4, <3>2, <3>7, <4>1 DEF p
      <4>2. CASE m # n
        BY <1>1, <1>2, <3>2, <3>7, <4>2 DEF RegsInv
      <4> QED
        BY <4>1, <4>2
    <3> QED
      BY <1>1, <2>1, <2>2, <3>2, <3>5, <3>6, <3>7 DEF RegsInv
  <2>4. CASE q \in DOMAIN regs
    <3>1. /\ regs' = [b \in DOMAIN regs \cup {q} |-> IF b # q THEN regs[b]
                                                    ELSE [regs[b] EXCEPT !.refs = @ + 1]]
          /\ lists' = lists
      BY <1>1, <2>4, <1>0 DEF OnRegister
    <3> HIDE DEF p, list
    <3>2. /\ DOMAIN regs' = DOMAIN regs /\ \A b \in DOMAIN regs : b # q => regs'[b] = regs[b]
          /\ regs'[q].refs = regs[q].refs + 1 /\ regs'[q].dlist = regs[q].dlist
          /\ DOMAIN regs'[q] = {"refs", "dlist"}
      BY <1>2, <2>4, <3>1 DEF RegsInv
    <3>3. ASSUME NEW b \in DOMAIN regs'
          PROVE  /\ DOMAIN regs'[b] = {"refs", "dlist"} /\ regs'[b].dlist = regs[b].dlist
                 /\ regs'[b].refs = Cardinality((PoolsAt(b))')
      <4>1. CASE b = q
        BY <1>2, <1>7, <1>8, <2>4, <3>2, <4>1 DEF RegsInv
      <4>2. CASE b # q
        BY <1>2, <1>7, <3>2, <4>2 DEF RegsInv
      <4> QED
        BY <4>1, <4>2
    <3>4. ASSUME NEW m \in inPools', proc.pools[m].device = "remote"
          PROVE  regs'[proc.pools[m].base].dlist # None
      <4>1. PICK k \in inPools : proc.pools[k].base = q
        BY <1>2, <2>4 DEF RegsInv
      <4>2. m = n => proc.pools[k].device = "remote"
        BY <1>0, <1>2, <3>4, <4>1, RemoteFacts DEF RegsInv, p
      <4>3. regs[proc.pools[m].base].dlist # None /\ proc.pools[m].base \in DOMAIN regs
        BY <1>0, <1>1, <1>2, <3>4, <4>1, <4>2 DEF RegsInv, p
      <4> QED
        BY <3>2, <3>3, <4>3
    <3>5. DOMAIN regs' = {proc'.pools[m].base : m \in inPools'}
      BY <2>2, <2>4, <3>2
    <3>6. ASSUME NEW b \in DOMAIN regs', regs'[b].dlist # None
          PROVE  /\ regs'[b].dlist \in lists' /\ regs'[b].dlist.owner \in DOMAIN proc.pools
                 /\ proc.pools[regs'[b].dlist.owner].base = b
      BY <1>2, <3>1, <3>2, <3>3, <3>6 DEF RegsInv
    <3> QED
      BY <1>1, <2>1, <3>3, <3>4, <3>5, <3>6 DEF RegsInv
  <2> QED
    BY <2>3, <2>4
<1>10. KeptPools' /\ OwnLists'
  BY <1>1 DEF KeptPools, OwnLists, Live
<1> QED
  BY <1>1, <1>9, <1>10 DEF DlistInv

\* A pool is unregistered: the list goes with the last pool on the buffer, when no
\* context that is alive has a pool there.
LEMMA DlistUnregister ==
  ASSUME DlistInv, Remote, NEW n, UnregisterPool(n)
  PROVE  DlistInv'
<1>1. /\ n \in inPools /\ inPools' = inPools \ {n} /\ UNCHANGED <<proc, ctx>>
      /\ \A c \in Ctxs : n \in {Job(c).pool, Job(c).cpu} => ctx[c].at = "gone"
      /\ OnUnregister(n)
  BY DEF UnregisterPool
<1>2. RegsInv /\ KeptPools /\ OwnLists /\ IsFiniteSet(DOMAIN proc.pools)
  BY RemoteFacts
<1>3. PICK q : q = proc.pools[n].base
  OBVIOUS
<1>4. q \in DOMAIN regs /\ n \in PoolsAt(q) /\ regs[q].refs = Cardinality(PoolsAt(q))
  BY <1>1, <1>2, <1>3 DEF RegsInv, PoolsAt
<1>5. IsFiniteSet(PoolsAt(q))
  <2>1. PoolsAt(q) \in SUBSET DOMAIN proc.pools
    BY <1>2 DEF RegsInv, PoolsAt
  <2> QED
    BY <1>2, <2>1, FS_Subset
<1>6. (PoolsAt(q))' = PoolsAt(q) \ {n} /\ \A b : b # q => (PoolsAt(b))' = PoolsAt(b)
  BY <1>1, <1>3 DEF PoolsAt
<1>7. Cardinality((PoolsAt(q))') = Cardinality(PoolsAt(q)) - 1
  BY <1>4, <1>5, <1>6, FS_RemoveElement
<1>8. KeptPools'
  BY <1>1, <1>2 DEF KeptPools, Job
<1>9. inPools' \subseteq DOMAIN proc'.pools
  BY <1>1, <1>2 DEF RegsInv
<1>10. \A c \in Ctxs : Live(c) => {Job(c).pool, Job(c).cpu} \subseteq inPools'
  BY <1>1, <1>2 DEF KeptPools, Live
<1>11. CASE regs[q].refs = 1
  <2>1. /\ regs' = [b \in DOMAIN regs \ {q} |-> regs[b]]
        /\ lists' = lists \ {regs[q].dlist}
    BY <1>1, <1>3, <1>4, <1>11 DEF OnUnregister, Unreferenced
  <2>2. PoolsAt(q) = {n}
    <3>1. PICK x : PoolsAt(q) = {x}
      BY <1>4, <1>5, <1>11, FS_Singleton, Zenon
    <3> QED
      BY <1>4, <3>1
  <2>3. \A m \in inPools : m # n => proc.pools[m].base # q
    BY <2>2 DEF PoolsAt
  <2>4. DOMAIN regs' = {proc'.pools[m].base : m \in inPools'}
    <3>1. \A b \in DOMAIN regs' : \E m \in inPools' : b = proc.pools[m].base
      BY <1>1, <1>2, <1>3, <2>1 DEF RegsInv
    <3>2. \A m \in inPools' : proc.pools[m].base \in DOMAIN regs'
      BY <1>1, <1>2, <2>1, <2>3 DEF RegsInv
    <3> QED
      BY <1>1, <3>1, <3>2
  <2>5. ASSUME NEW b \in DOMAIN regs'
        PROVE  /\ b \in DOMAIN regs /\ b # q /\ regs'[b] = regs[b]
               /\ DOMAIN regs'[b] = {"refs", "dlist"} /\ regs'[b].refs = Cardinality((PoolsAt(b))')
    BY <1>2, <1>6, <2>1 DEF RegsInv
  <2>6. ASSUME NEW b \in DOMAIN regs', regs'[b].dlist # None
        PROVE  /\ regs'[b].dlist \in lists' /\ regs'[b].dlist.owner \in DOMAIN proc.pools
               /\ proc.pools[regs'[b].dlist.owner].base = b
    <3>1. /\ regs[b].dlist \in lists /\ regs[b].dlist.owner \in DOMAIN proc.pools
          /\ proc.pools[regs[b].dlist.owner].base = b
      BY <1>2, <2>5, <2>6 DEF RegsInv
    <3>2. regs[b].dlist # regs[q].dlist
      BY <1>2, <1>4, <2>5, <2>6, <3>1 DEF RegsInv
    <3> QED
      BY <2>1, <2>5, <3>1, <3>2
  <2>7. ASSUME NEW m \in inPools', proc.pools[m].device = "remote"
        PROVE  regs'[proc.pools[m].base].dlist # None
    BY <1>1, <1>2, <2>3, <2>4, <2>5, <2>7 DEF RegsInv
  <2>8. RegsInv'
    BY <1>1, <1>9, <2>4, <2>5, <2>6, <2>7 DEF RegsInv
  <2>9. OwnLists'
    <3> SUFFICES ASSUME NEW c \in Ctxs, Live(c)
                 PROVE  regs'[Pool(c).base] = regs[Pool(c).base] /\ regs'[CpuPool(c).base] = regs[CpuPool(c).base]
      BY <1>1, <1>2 DEF OwnLists, Live, Pool, CpuPool, Job
    <3> QED
      BY <1>1, <1>10, <2>4, <2>5 DEF Pool, CpuPool
  <2> QED
    BY <1>1, <1>8, <2>8, <2>9 DEF DlistInv
<1>12. CASE regs[q].refs # 1
  <2>1. regs' = [regs EXCEPT ![q].refs = @ - 1] /\ lists' = lists
    BY <1>1, <1>3, <1>4, <1>12 DEF OnUnregister, Unreferenced
  <2>2. PICK k \in PoolsAt(q) : k # n
    <3>1. PoolsAt(q) # {n}
      BY <1>4, <1>12, FS_Singleton
    <3> QED
      BY <1>4, <3>1
  <2>3. DOMAIN regs' = {proc'.pools[m].base : m \in inPools'}
    <3>1. k \in inPools' /\ proc.pools[k].base = q
      BY <1>1, <2>2 DEF PoolsAt
    <3>2. \A b \in DOMAIN regs : \E m \in inPools' : b = proc.pools[m].base
      BY <1>1, <1>2, <1>3, <3>1 DEF RegsInv
    <3>3. \A m \in inPools' : proc.pools[m].base \in DOMAIN regs
      BY <1>1, <1>2 DEF RegsInv
    <3> QED
      BY <1>1, <2>1, <3>2, <3>3
  <2>4. ASSUME NEW b \in DOMAIN regs'
        PROVE  /\ b \in DOMAIN regs /\ regs'[b].dlist = regs[b].dlist
               /\ DOMAIN regs'[b] = {"refs", "dlist"} /\ regs'[b].refs = Cardinality((PoolsAt(b))')
    <3>1. CASE b = q
      BY <1>2, <1>4, <1>7, <2>1, <3>1 DEF RegsInv
    <3>2. CASE b # q
      BY <1>2, <1>6, <2>1, <3>2 DEF RegsInv
    <3> QED
      BY <3>1, <3>2
  <2>5. ASSUME NEW b \in DOMAIN regs', regs'[b].dlist # None
        PROVE  /\ regs'[b].dlist \in lists' /\ regs'[b].dlist.owner \in DOMAIN proc.pools
               /\ proc.pools[regs'[b].dlist.owner].base = b
    BY <1>2, <2>1, <2>4, <2>5 DEF RegsInv
  <2>6. ASSUME NEW m \in inPools', proc.pools[m].device = "remote"
        PROVE  regs'[proc.pools[m].base].dlist # None
    BY <1>1, <1>2, <2>3, <2>4, <2>6 DEF RegsInv
  <2>7. RegsInv'
    BY <1>1, <1>9, <2>3, <2>4, <2>5, <2>6 DEF RegsInv
  <2>8. OwnLists'
    <3> SUFFICES ASSUME NEW c \in Ctxs, Live(c)
                 PROVE  /\ regs'[Pool(c).base].dlist = regs[Pool(c).base].dlist
                        /\ regs'[CpuPool(c).base].dlist = regs[CpuPool(c).base].dlist
      BY <1>1, <1>2 DEF OwnLists, Live, Pool, CpuPool, Job
    <3> QED
      BY <1>1, <1>10, <2>3, <2>4 DEF Pool, CpuPool
  <2> QED
    BY <1>1, <1>8, <2>7, <2>8 DEF DlistInv
<1> QED
  BY <1>11, <1>12

\* A context is created: its pools are registered, so it finds the list of the
\* client's buffer, and finds or makes the one of its CPU buffer.
LEMMA DlistCreate ==
  ASSUME TicketInv, DlistInv, Remote, NEW c \in Ctxs, FlowCreate(c)
  PROVE  DlistInv'
<1>1. RegsInv /\ KeptPools /\ OwnLists
  BY RemoteFacts
<1>2. PICK l : l = LocalDlist(c)
  OBVIOUS
<1>3. PICK q : q = CpuPool(c).base
  OBVIOUS
<1>4. /\ ctx' = [ctx EXCEPT ![c] = Created(c, l)] /\ UNCHANGED <<proc, inPools>>
      /\ regs' = [regs EXCEPT ![q].dlist = l] /\ lists' = lists \cup {l}
  BY <1>2, <1>3 DEF FlowCreate, Create
<1>5. \A b \in Ctxs : ctx[b].at # "gone" => {Job(b).pool, Job(b).cpu} \subseteq inPools
  <2>1. CASE \A b \in Ctxs : ctx[b].at = "new"
    <3>1. inPools = DOMAIN proc.pools
      BY <2>1 DEF FlowCreate
    <3> QED
      BY <3>1, RemoteFacts
  <2>2. CASE \E b \in Ctxs : ctx[b].at # "new"
    BY <1>1, <2>2 DEF KeptPools
  <2> QED
    BY <2>1, <2>2
<1>6. ctx[c].at = "new" /\ Job(c).pool \in inPools /\ Job(c).cpu \in inPools
  BY <1>5 DEF FlowCreate
<1>7. q \in DOMAIN regs /\ Pool(c).base \in DOMAIN regs /\ regs[Pool(c).base].dlist # None
  BY <1>1, <1>3, <1>6, RemoteFacts DEF RegsInv, Pool, CpuPool
<1>8. /\ l # None
      /\ regs[q].dlist # None => l = regs[q].dlist
      /\ regs[q].dlist = None => l.owner = Job(c).cpu
  <2>1. CASE regs[q].dlist # None
    BY <1>2, <1>3, <2>1 DEF LocalDlist
  <2>2. CASE regs[q].dlist = None
    <3>1. l = [DlistOf(Job(c).pool) EXCEPT !.owner = Job(c).cpu]
      BY <1>2, <1>3, <2>2 DEF LocalDlist
    <3>2. l = [owner |-> Job(c).cpu, od |-> proc.pools[Job(c).pool].outer,
               is |-> proc.pools[Job(c).pool].inner]
      BY <3>1 DEF DlistOf
    <3> QED
      BY <2>2, <3>2, RemoteFacts
  <2> QED
    BY <2>1, <2>2
<1>9. /\ DOMAIN regs' = DOMAIN regs /\ regs'[q].dlist = l
      /\ \A b \in DOMAIN regs :
           /\ DOMAIN regs'[b] = {"refs", "dlist"} /\ regs'[b].refs = regs[b].refs
           /\ b # q => regs'[b] = regs[b]
           /\ regs[b].dlist # None => regs'[b].dlist = regs[b].dlist
  BY <1>1, <1>4, <1>7, <1>8 DEF RegsInv
<1>10. RegsInv'
  <2>1. \A b : (PoolsAt(b))' = PoolsAt(b)
    BY <1>4 DEF PoolsAt
  <2>2. ASSUME NEW b \in DOMAIN regs, regs'[b].dlist # None
        PROVE  /\ regs'[b].dlist \in lists' /\ regs'[b].dlist.owner \in DOMAIN proc.pools
               /\ proc.pools[regs'[b].dlist.owner].base = b
    <3>1. CASE regs[b].dlist # None
      BY <1>1, <1>4, <1>9, <3>1 DEF RegsInv
    <3>2. CASE regs[b].dlist = None
      <4>1. b = q
        BY <1>9, <2>2, <3>2
      <4>2. regs'[b].dlist = l /\ l \in lists' /\ l.owner = Job(c).cpu
        BY <1>4, <1>8, <1>9, <3>2, <4>1
      <4>3. Job(c).cpu \in DOMAIN proc.pools
        BY <1>1, <1>6 DEF RegsInv
      <4>4. proc.pools[Job(c).cpu].base = q
        BY <1>3 DEF CpuPool
      <4> QED
        BY <4>1, <4>2, <4>3, <4>4
    <3> QED
      BY <3>1, <3>2
  <2>3. ASSUME NEW m \in inPools, proc.pools[m].device = "remote"
        PROVE  regs'[proc.pools[m].base].dlist # None
    BY <1>1, <1>9, <2>3 DEF RegsInv
  <2>4. \A b \in DOMAIN regs : regs'[b].refs = Cardinality((PoolsAt(b))')
    BY <1>1, <1>9, <2>1 DEF RegsInv
  <2>5. inPools \subseteq DOMAIN proc.pools /\ DOMAIN regs = {proc.pools[n].base : n \in inPools}
    BY <1>1 DEF RegsInv
  <2>6. /\ inPools' \subseteq DOMAIN proc'.pools
        /\ DOMAIN regs' = {proc'.pools[n].base : n \in inPools'}
    BY <1>4, <1>9, <2>5
  <2>7. \A b \in DOMAIN regs' : DOMAIN regs'[b] = {"refs", "dlist"}
    BY <1>9
  <2>8. DOMAIN regs' = DOMAIN regs
    BY <1>9
  <2> QED
    BY <1>4, <2>2, <2>3, <2>4, <2>6, <2>7, <2>8 DEF RegsInv
<1>11. /\ DOMAIN ctx = Ctxs /\ \A b \in Ctxs : b # c => ctx'[b] = ctx[b]
       /\ ctx'[c].at \notin {"new", "gone"}
       /\ ctx'[c].local = l /\ ctx'[c].remote = regs[Pool(c).base].dlist
  <2>1. DOMAIN ctx = Ctxs
    BY DEF TicketInv, TicketTypes
  <2>2. /\ Created(c, l).at \notin {"new", "gone"} /\ Created(c, l).local = l
        /\ Created(c, l).remote = regs[Pool(c).base].dlist
    BY DEF Created, New, RemoteDlist
  <2> QED
    BY <1>4, <2>1, <2>2
<1>12. KeptPools'
  BY <1>4, <1>5, <1>6, <1>11 DEF KeptPools, Job
<1>13. OwnLists'
  <2> SUFFICES ASSUME NEW b \in Ctxs, Live(b)'
               PROVE  /\ ctx'[b].remote = regs'[Pool(b).base].dlist /\ ctx'[b].remote # None
                      /\ ctx'[b].local = regs'[CpuPool(b).base].dlist /\ ctx'[b].local # None
    BY <1>4 DEF OwnLists, Pool, CpuPool, Job
  <2>1. CASE b = c
    BY <1>3, <1>7, <1>8, <1>9, <1>11, <2>1
  <2>2. CASE b # c
    <3>1. Live(b) /\ ctx'[b] = ctx[b]
      BY <1>11, <2>2 DEF Live
    <3>2. Job(b).pool \in inPools /\ Job(b).cpu \in inPools
      BY <1>5, <3>1 DEF Live
    <3>3. Pool(b).base \in DOMAIN regs /\ CpuPool(b).base \in DOMAIN regs
      BY <1>1, <3>2 DEF RegsInv, Pool, CpuPool
    <3> QED
      BY <1>1, <1>9, <3>1, <3>3 DEF OwnLists
  <2> QED
    BY <2>1, <2>2
<1> QED
  BY <1>4, <1>10, <1>12, <1>13 DEF DlistInv

LEMMA DlistStep == TicketInv /\ DlistInv /\ [Next]_vars => DlistInv'
<1> SUFFICES ASSUME TicketInv, DlistInv, [Next]_vars PROVE DlistInv'
  OBVIOUS
<1> USE SteadyField
<1>0. ASSUME Remote PROVE \A c \in Ctxs : Job(c).owner = "flow"
  BY <1>0, RemoteFacts
<1>1. CASE UNCHANGED vars
  BY <1>1, DlistQuiet DEF vars, xferVars
<1>2. CASE RdmaInit
  BY <1>2, DlistQuiet DEF RdmaInit
<1>3. ASSUME NEW n \in DOMAIN proc.pools, RegisterPool(n) \/ UnregisterPool(n) PROVE DlistInv'
  <2>1. CASE Remote
    BY <1>3, <2>1, DlistRegister, DlistUnregister
  <2>2. CASE ~Remote
    BY <1>3, <2>2, DlistQuiet DEF RegisterPool, UnregisterPool
  <2> QED
    BY <2>1, <2>2
<1>4. ASSUME NEW c \in Ctxs, Caller(c) PROVE DlistInv'
  <2>1. CASE FlowCreate(c) \/ CopierCreate(c)
    <3>1. CASE Remote
      BY <1>0, <2>1, <3>1, DlistCreate DEF CopierCreate
    <3>2. CASE ~Remote
      BY <2>1, <3>2 DEF DlistInv, FlowCreate, CopierCreate, Create, Remote
    <3> QED
      BY <3>1, <3>2
  <2>2. CASE XferWaitCurStream(c)
    BY <2>2, DlistQuiet DEF XferWaitCurStream, poolVars
  <2>3. CASE XferChunksBatch(c)
    BY <2>3, DlistQuiet DEF XferChunksBatch, poolVars
  <2>4. CASE XferFinish(c)
    BY <2>4, DlistQuiet DEF XferFinish, poolVars
  <2> QED
    BY <1>4, <2>1, <2>2, <2>3, <2>4 DEF Caller
<1>5. ASSUME NEW c \in Ctxs, Waiter(c) PROVE DlistInv'
  <2>1. CASE WaitFuture(c)
    BY <2>1, DlistQuiet DEF WaitFuture, poolVars
  <2>2. CASE DsaWaitStep(c)
    BY <2>2, DlistQuiet DEF DsaWaitStep, xferVars
  <2>3. CASE DsaWaited(c)
    BY <2>3, DlistQuiet DEF DsaWaited, poolVars
  <2>4. CASE EventWait(c)
    BY <2>4, DlistQuiet DEF EventWait, poolVars
  <2>5. CASE ResetDone(c)
    BY <1>0, <2>5, DlistQuiet DEF ResetDone, Gone
  <2> QED
    BY <1>5, <2>1, <2>2, <2>3, <2>4, <2>5 DEF Waiter
<1>6. ASSUME NEW c \in Ctxs, Destroy(c) PROVE DlistInv'
  BY <1>0, <1>6, DlistQuiet DEF Destroy, Gone
<1>7. ASSUME NEW d \in Dirs, Worker(d) PROVE DlistInv'
  <2>1. CASE RunCur(d) \/ RunCopyStream(d) \/ RunRdmaPost(d) \/ RunCopyCpu(d)
    BY <2>1, DlistQuiet DEF RunCur, RunCopyStream, RunRdmaPost, RunCopyCpu, poolVars
  <2>2. CASE RunFinish(d)
    BY <2>2, DlistQuiet DEF RunFinish, poolVars
  <2>3. CASE RunDsaSubmit(d)
    BY <2>3, DlistQuiet DEF RunDsaSubmit, poolVars
  <2>4. ASSUME NEW ok, RunCopyDsa(d, ok) PROVE DlistInv'
    <3>1. UNCHANGED <<proc, poolVars, ctx>>
      BY <2>4, Zenon DEF RunCopyDsa
    <3> QED
      BY <3>1, DlistQuiet DEF poolVars
  <2>5. ASSUME NEW ok, RunRdmaDone(d, ok) PROVE DlistInv'
    BY <2>5, DlistQuiet DEF RunRdmaDone, poolVars
  <2> QED
    BY <1>7, <2>1, <2>2, <2>3, <2>4, <2>5 DEF Worker
<1>8. CASE Device
  BY <1>8, DlistQuiet DEF Device, CurStep, StreamStep, DsaStep, poolVars
<1> QED
  BY <1>1, <1>2, <1>3, <1>4, <1>5, <1>6, <1>7, <1>8 DEF Next

\* on_register and on_unregister count the pools of a buffer, so the descriptor
\* lists of a context exist as long as it does, though pools that share its
\* buffer, the one the list was made for included, come and go.
THEOREM ListsOutliveContexts == Spec => []DlistAlive
<1>1. Init => TicketInv /\ DlistInv
  BY TicketInit, DlistInit
<1>2. TicketInv /\ DlistInv /\ [Next]_vars => (TicketInv /\ DlistInv)'
  BY TicketStep, DlistStep
<1> QED
  BY <1>1, <1>2, DlistFollows, PTL DEF Spec

-----------------------------------------------------------------------------
(* Order.  What a call of KVFlow copies is ordered behind the compute       *)
(* stream: a put waits for it before it queues anything, a get (with the   *)
(* switch) leaves the wait to the H2D worker, ahead of its copies there and *)
(* then on its stream.                                                     *)

\* s is a sequence, whatever its elements.
IsSeq(s) == Len(s) \in Nat /\ s = [i \in 1..Len(s) |-> s[i]]

Begun(c) == ctx[c].at \notin {"new", "sync"}
\* KVFlow orders the context behind the compute stream; the engine does not care.
Follows(c) == Job(c).owner = "flow" /\ (Job(c).dir = D2H \/ proc.syncGet)

\* Everything queued or in flight belongs to a context that has begun, and is where
\* its direction and its stream put it.
OrderTypes ==
  /\ DOMAIN queue = Dirs /\ \A d \in Dirs : IsSeq(queue[d]) /\ rdma[d] = None
  /\ DOMAIN stream = Dirs \cup Ctxs /\ \A x \in Dirs \cup Ctxs : IsSeq(stream[x])
  /\ DOMAIN landed = Ctxs /\ curDone \in Nat
TodoOk(c) == IsSeq(ctx[c].todo) /\ \A i \in 1..Len(ctx[c].todo) : Len(ctx[c].todo[i]) \in Nat \ {0}
TaskOk(d, t) ==
  /\ t.c \in Ctxs /\ Job(t.c).dir = d /\ Begun(t.c)
  /\ t.op = "copy" => Len(t.xs) \in Nat \ {0}
ItemOk(x, i) == i.op = "copy" => i.c \in Ctxs /\ StreamOf(i.c) = x /\ Begun(i.c)
BatchOk(w) == w[1].c \in Ctxs /\ Begun(w[1].c)
CallOk(d) == call[d] # None =>
  /\ proc.dsa /\ queue[d] # <<>> /\ Head(queue[d]).op = "copy"
  /\ IsSeq(call[d].todo) /\ Len(call[d].todo) > 0
  /\ \A i \in 1..Len(call[d].todo) : BatchOk(call[d].todo[i])
HwOk(s) == hw[s] # None => proc.dsa /\ BatchOk(hw[s].work)

Belongs ==
  /\ OrderTypes
  /\ \A c \in Ctxs : TodoOk(c)
  /\ \A d \in Dirs : CallOk(d) /\ \A i \in 1..Len(queue[d]) : TaskOk(d, queue[d][i])
  /\ \A x \in Dirs \cup Ctxs : \A i \in 1..Len(stream[x]) : ItemOk(x, stream[x][i])
  /\ \A s \in Slots : HwOk(s)

\* The wait for the compute stream that covers a context of a get is ahead of its
\* copies, in the queue of the H2D worker or on the stream.
Computed(c) == curDone >= Job(c).group
CurTask(i, c) == LET t == queue[H2D][i] IN t.op = "cur" /\ Follows(t.c) /\ Job(t.c).group = Job(c).group
CurOn(i, c) == LET t == stream[H2D][i] IN t.op = "cur" /\ t.group = Job(c).group
QueuedCur(n, c) == \E i \in 1..n : CurTask(i, c)
StreamCur(n, c) == \E i \in 1..n : CurOn(i, c)
Started(c) == Computed(c) \/ StreamCur(Len(stream[H2D]), c)

Synced ==
  \A c \in Ctxs : Follows(c) /\ Begun(c) =>
    /\ Job(c).dir = D2H => Computed(c)
    /\ Job(c).dir = H2D => Started(c) \/ QueuedCur(Len(queue[H2D]), c)
QueueOrder ==
  \A i \in 1..Len(queue[H2D]) : LET t == queue[H2D][i] IN
    t.op = "copy" /\ Follows(t.c) => Started(t.c) \/ QueuedCur(i - 1, t.c)
StreamOrder ==
  \A i \in 1..Len(stream[H2D]) : LET t == stream[H2D][i] IN
    t.op = "copy" /\ Follows(t.c) => Computed(t.c) \/ StreamCur(i - 1, t.c)

OrderInv == proc \in Procs /\ (Gpu => Belongs /\ Synced /\ QueueOrder /\ StreamOrder /\ AfterCompute)

\* Sequences, whatever their elements.
LEMMA SeqIn ==
  ASSUME NEW s, IsSeq(s)
  PROVE  s \in Seq({s[i] : i \in 1..Len(s)})
  <1>1. PICK n \in Nat : n = Len(s) BY DEF IsSeq
  <1>2. PICK S : S = {s[i] : i \in 1..Len(s)} OBVIOUS
  <1>3. s = [i \in 1..n |-> s[i]] /\ \A i \in 1..n : s[i] \in S BY <1>1, <1>2 DEF IsSeq
  <1>4. s \in [1..n -> S] BY <1>3
  <1>5. s \in Seq(S) BY <1>4
  <1> QED BY <1>2, <1>5

LEMMA InSeq ==
  ASSUME NEW S, NEW s \in Seq(S)
  PROVE  IsSeq(s)
  <1>1. Len(s) \in Nat /\ s \in [1..Len(s) -> S] BY LenProperties
  <1> QED BY <1>1 DEF IsSeq

LEMMA SeqEnd ==
  ASSUME NEW s, IsSeq(s), NEW e
  PROVE  /\ IsSeq(Append(s, e)) /\ Len(Append(s, e)) = Len(s) + 1
         /\ \A i \in 1..Len(s) : Append(s, e)[i] = s[i]
         /\ Append(s, e)[Len(s) + 1] = e
         /\ s # <<>> => Head(Append(s, e)) = Head(s)
         /\ Append(s, e) # <<>>
  <1>1. PICK S : s \in Seq(S) BY SeqIn
  <1>2. PICK T : T = S \cup {e} OBVIOUS
  <1>3. s \in Seq(T) /\ e \in T BY <1>1, <1>2, SeqMonotonic
  <1>4. PICK u : u = Append(s, e) OBVIOUS
  <1>5. /\ u \in Seq(T) /\ Len(u) = Len(s) + 1 /\ \A i \in 1..Len(s) : u[i] = s[i]
        /\ u[Len(s) + 1] = e /\ u # <<>> /\ (s # <<>> => Head(u) = Head(s))
    BY <1>3, <1>4
  <1>6. IsSeq(u) BY <1>5, InSeq
  <1> QED BY <1>4, <1>5, <1>6

LEMMA SeqRest ==
  ASSUME NEW s, IsSeq(s), s # <<>>
  PROVE  /\ IsSeq(Tail(s)) /\ Len(s) > 0 /\ Len(Tail(s)) = Len(s) - 1 /\ Head(s) = s[1]
         /\ \A i \in 1..(Len(s) - 1) : Tail(s)[i] = s[i + 1]
  <1>1. PICK S : s \in Seq(S) BY SeqIn
  <1>2. PICK u : u = Tail(s) OBVIOUS
  <1>3. /\ u \in Seq(S) /\ Len(s) > 0 /\ Len(u) = Len(s) - 1 /\ Head(s) = s[1]
        /\ \A i \in 1..(Len(s) - 1) : u[i] = s[i + 1]
    BY <1>1, <1>2
  <1>4. IsSeq(u) BY <1>3, InSeq
  <1> QED BY <1>2, <1>3, <1>4

LEMMA SeqNonEmpty ==
  ASSUME NEW s, IsSeq(s)
  PROVE  (s = <<>>) <=> (Len(s) = 0)
  <1>1. PICK S : s \in Seq(S) BY SeqIn
  <1> QED BY <1>1

-----------------------------------------------------------------------------
(* The batches of a call.                                                  *)

LEMMA DivUp ==
  ASSUME NEW x \in Nat, NEW n \in Nat \ {0}
  PROVE  /\ x \div n \in Nat
         /\ \A a \in Nat : a <= x \div n => a * n <= x
         /\ x >= n => x \div n >= 1
  <1>1. x \div n \in Nat OBVIOUS
  <1>2. PICK q \in Nat : q = x \div n BY <1>1
  <1>3. n * q <= x BY <1>2
  <1>4. ASSUME NEW a \in Nat, a <= q PROVE a * n <= x
    <2>1. a * n <= n * q BY <1>4
    <2> QED BY <1>3, <2>1
  <1>5. x >= n => q >= 1 BY <1>2
  <1> QED BY <1>2, <1>4, <1>5

\* A batch starts with an entry of the call, and there is at least one batch.
LEMMA BatchesStart ==
  ASSUME NEW S, NEW entries \in Seq(S), Len(entries) > 0
  PROVE  /\ IsSeq(Batches(entries)) /\ Len(Batches(entries)) > 0
         /\ \A i \in 1..Len(Batches(entries)) : \E k \in 1..Len(entries) :
              Batches(entries)[i][1] = entries[k]
  <1>1. PICK m \in Nat \ {0} : m = Len(entries) OBVIOUS
  <1>2. PICK n \in Nat \ {0} : n = PerBatch(m)
    <2>1. NumWq \in Nat \ {0} /\ MaxBatch \in Nat \ {0} BY DsaConstants
    <2>2. m + NumWq - 1 \in Nat /\ m + NumWq - 1 >= NumWq BY <2>1
    <2>3. PICK e \in Nat : e = (m + NumWq - 1) \div NumWq /\ e >= 1 BY <2>1, <2>2, DivUp
    <2>4. PerBatch(m) = IF e > MaxBatch THEN MaxBatch ELSE e BY <2>3 DEF PerBatch
    <2> QED BY <2>1, <2>3, <2>4
  <1>3. m + n - 1 \in Nat /\ m + n - 1 >= n OBVIOUS
  <1>4. PICK r \in Nat : /\ r = (m + n - 1) \div n /\ r >= 1
                         /\ \A a \in Nat : a <= r => a * n <= m + n - 1
    BY <1>3, DivUp
  <1>5. PICK B : B = Batches(entries) OBVIOUS
  <1>6. B = [i \in 1..r |-> SubSeq(entries, (i - 1) * n + 1, IF i * n < m THEN i * n ELSE m)]
    BY <1>1, <1>2, <1>4, <1>5 DEF Batches
  <1>7. B \in Seq({B[i] : i \in 1..r})
    <2>1. PICK T : T = {B[i] : i \in 1..r} OBVIOUS
    <2>2. B = [i \in 1..r |-> B[i]] /\ \A i \in 1..r : B[i] \in T BY <1>6, <2>1
    <2>3. B \in [1..r -> T] BY <2>2
    <2> QED BY <2>1, <2>3
  <1>8. Len(B) = r BY <1>6
  <1>9. IsSeq(B) BY <1>7, InSeq
  <1>10. ASSUME NEW i \in 1..r PROVE \E k \in 1..m : B[i][1] = entries[k]
    <2>1. PICK a \in Nat : a = (i - 1) * n BY SMT
    <2>2. i * n = a + n BY <2>1
    <2>3. a + n <= m + n - 1 BY <1>4, <2>2
    <2>4. PICK e \in Nat : e = (IF i * n < m THEN i * n ELSE m) BY <2>2
    <2>5. a + 1 \in 1..m /\ e \in (a + 1)..m BY <2>2, <2>3, <2>4
    <2>6. B[i] = SubSeq(entries, a + 1, e) BY <1>6, <2>1, <2>4
    <2>7. SubSeq(entries, a + 1, e)[1] = entries[a + 1]
      <3>1. a + 1 \in Int /\ e \in Int /\ \A j \in (a + 1)..e : entries[j] \in S BY <1>1, <2>5
      <3>2. 1 \in 1..(e - (a + 1) + 1) BY <2>5
      <3>3. SubSeq(entries, a + 1, e)[1] = entries[(a + 1) + 1 - 1] BY <3>1, <3>2, SubSeqProperties
      <3>4. (a + 1) + 1 - 1 = a + 1 OBVIOUS
      <3> QED BY <3>3, <3>4, Zenon
    <2> QED BY <2>5, <2>6, <2>7
  <1> QED BY <1>1, <1>4, <1>5, <1>8, <1>9, <1>10

-----------------------------------------------------------------------------
(* What a step does to the order, by the kind of step.                     *)

\* The process stays, the compute stream does not run back, a context stays begun.
Later ==
  /\ proc' = proc /\ curDone' \in Nat /\ curDone' >= curDone
  /\ \A c \in Ctxs : Begun(c) => Begun(c)'

\* The H2D stream keeps what it has, in place.
Grows ==
  /\ Len(stream[H2D])' \in Nat /\ Len(stream[H2D]) <= Len(stream[H2D])'
  /\ \A i \in 1..Len(stream[H2D]) : stream[H2D]'[i] = stream[H2D][i]

LEMMA GpuFacts ==
  ASSUME OrderInv, Gpu
  PROVE  /\ Belongs /\ Synced /\ QueueOrder /\ StreamOrder /\ AfterCompute /\ OrderTypes
         /\ \A c \in Ctxs : Job(c).group \in Nat /\ Pool(c).outer \in Nat \ {0}
         /\ \A c \in Ctxs : Job(c).calls \in Seq(Seq(Nat \X Nat) \ {<<>>})
         /\ \A c \in Ctxs : Job(c).dir \in Dirs
         /\ \A c \in Ctxs : Follows(c) => StreamOf(c) = Job(c).dir
         /\ \A d \in Dirs : IsSeq(queue[d]) /\ IsSeq(stream[d])
         /\ H2D \in Dirs /\ Len(queue[H2D]) \in Nat /\ Len(stream[H2D]) \in Nat
  <1>1. proc \in Procs /\ proc.kind = "gpu" BY DEF OrderInv, Gpu
  <1>2. Belongs /\ Synced /\ QueueOrder /\ StreamOrder /\ AfterCompute /\ OrderTypes
    BY DEF OrderInv, Belongs
  <1>3. /\ \A c \in Ctxs : Job(c).group \in Nat /\ Pool(c).outer \in Nat \ {0}
        /\ \A c \in Ctxs : Job(c).calls \in Seq(Seq(Nat \X Nat) \ {<<>>})
    BY <1>1, GpuProcs DEF Job, Pool
  <1>4. \A c \in Ctxs : Job(c).dir \in Dirs BY <1>1, XferConstants DEF Job
  <1>5. \A c \in Ctxs : Follows(c) => StreamOf(c) = Job(c).dir BY DEF Follows, StreamOf
  <1>6. \A d \in Dirs : IsSeq(queue[d]) /\ IsSeq(stream[d]) BY <1>2 DEF OrderTypes
  <1>7. H2D \in Dirs BY DEF Dirs
  <1>8. Len(queue[H2D]) \in Nat /\ Len(stream[H2D]) \in Nat BY <1>6, <1>7 DEF IsSeq
  <1> QED BY <1>2, <1>3, <1>4, <1>5, <1>6, <1>7, <1>8

LEMMA LaterFacts ==
  ASSUME OrderInv, Gpu, Later
  PROVE  /\ \A c : Job(c)' = Job(c) /\ (Follows(c)' <=> Follows(c))
         /\ \A c \in Ctxs : Computed(c) => Computed(c)'
         /\ Gpu'
  <1>1. \A c : Job(c)' = Job(c) BY DEF Later, Job
  <1>2. \A c : Follows(c)' <=> Follows(c) BY <1>1 DEF Follows, Later
  <1>3. curDone \in Nat /\ \A c \in Ctxs : Job(c).group \in Nat BY GpuFacts DEF OrderTypes
  <1>4. ASSUME NEW c \in Ctxs, Computed(c) PROVE Computed(c)'
    BY <1>1, <1>3, <1>4 DEF Later, Computed
  <1>5. Gpu' BY DEF Gpu, Later
  <1> QED BY <1>1, <1>2, <1>4, <1>5

\* Started is not undone while the stream keeps its items.
LEMMA StartedStays ==
  ASSUME OrderInv, Gpu, Later, Grows
  PROVE  /\ \A c \in Ctxs : Started(c) => Started(c)'
         /\ \A c \in Ctxs : \A n \in 0..Len(stream[H2D]) : StreamCur(n, c) => StreamCur(n, c)'
  <1>1. \A c : Job(c)' = Job(c) BY LaterFacts
  <1>2. Len(stream[H2D]) \in Nat BY GpuFacts
  <1>3. ASSUME NEW c \in Ctxs, NEW i \in 1..Len(stream[H2D]), CurOn(i, c) PROVE CurOn(i, c)'
    BY <1>1, <1>3 DEF Grows, CurOn
  <1>4. ASSUME NEW c \in Ctxs, NEW n \in 0..Len(stream[H2D]), StreamCur(n, c) PROVE StreamCur(n, c)'
    BY <1>2, <1>3, <1>4 DEF StreamCur
  <1>5. ASSUME NEW c \in Ctxs, Started(c) PROVE Started(c)'
    <2>1. CASE Computed(c) BY <2>1, LaterFacts DEF Started
    <2>2. CASE StreamCur(Len(stream[H2D]), c)
      <3>1. PICK i \in 1..Len(stream[H2D]) : CurOn(i, c) BY <2>2 DEF StreamCur
      <3>2. CurOn(i, c)' BY <1>3, <3>1
      <3>3. i \in 1..Len(stream[H2D])' BY <1>2 DEF Grows
      <3> QED BY <3>2, <3>3 DEF Started, StreamCur
    <2> QED BY <1>5, <2>1, <2>2 DEF Started
  <1> QED BY <1>4, <1>5

\* The order on the stream, when the stream itself does not change.
LEMMA StreamOrderStays ==
  ASSUME OrderInv, Gpu, Later, UNCHANGED stream
  PROVE  StreamOrder' /\ Grows
  <1>1. Grows BY GpuFacts DEF Grows
  <1>2. PICK n \in Nat : n = Len(stream[H2D]) BY GpuFacts
  <1>3. ASSUME NEW i \in 1..n, stream[H2D][i].op = "copy", Follows(stream[H2D][i].c)
        PROVE  Computed(stream[H2D][i].c)' \/ StreamCur(i - 1, stream[H2D][i].c)'
    <2>1. PICK c : c = stream[H2D][i].c OBVIOUS
    <2>2. c \in Ctxs
      <3>1. ItemOk(H2D, stream[H2D][i]) BY <1>2, GpuFacts DEF Belongs
      <3> QED BY <1>3, <2>1, <3>1 DEF ItemOk
    <2>3. Computed(c) \/ StreamCur(i - 1, c) BY <1>2, <1>3, <2>1, GpuFacts DEF StreamOrder
    <2>4. i - 1 \in 0..Len(stream[H2D]) BY <1>2
    <2>5. Computed(c)' \/ StreamCur(i - 1, c)' BY <1>1, <2>2, <2>3, <2>4, StartedStays, LaterFacts
    <2> QED BY <2>1, <2>5
  <1>4. \A c : Follows(c)' <=> Follows(c) BY LaterFacts
  <1>5. StreamOrder' BY <1>2, <1>3, <1>4 DEF StreamOrder
  <1> QED BY <1>1, <1>5

LEMMA AfterComputeStays ==
  ASSUME OrderInv, Gpu, Later, UNCHANGED landed
  PROVE  AfterCompute'
  <1>1. ASSUME NEW c \in Ctxs, (landed[c] # {} /\ Gpu /\ Job(c).owner = "flow"
                                /\ (Job(c).dir = D2H \/ (proc.syncGet /\ ~proc.dsa)))'
        PROVE  (curDone >= Job(c).group)'
    <2>1. Job(c)' = Job(c) /\ proc' = proc BY LaterFacts DEF Later
    <2>2. curDone >= Job(c).group BY <1>1, <2>1, GpuFacts DEF AfterCompute, Ordered
    <2>3. Computed(c)' BY <2>2, LaterFacts DEF Computed
    <2> QED BY <2>3 DEF Computed
  <1> QED BY <1>1 DEF AfterCompute, Ordered

\* A context that has just begun is covered.
Covered(c) ==
  /\ Job(c).dir = D2H => Computed(c)
  /\ Job(c).dir = H2D => Started(c) \/ QueuedCur(Len(queue[H2D]), c)

\* Neither the queues nor the streams move.
LEMMA OrderSame ==
  ASSUME OrderInv, Gpu, Later, UNCHANGED <<queue, stream, landed>>,
         \A c \in Ctxs : Follows(c) /\ Begun(c)' /\ ~Begun(c) => Covered(c)
  PROVE  Synced' /\ QueueOrder' /\ StreamOrder' /\ AfterCompute'
  <1>1. Grows /\ StreamOrder' BY StreamOrderStays
  <1>2. AfterCompute' BY AfterComputeStays
  <1>3. \A c : Job(c)' = Job(c) /\ (Follows(c)' <=> Follows(c)) BY LaterFacts
  <1>4. \A i, c : CurTask(i, c) => CurTask(i, c)' BY <1>3 DEF CurTask
  <1>5. \A n, c : QueuedCur(n, c) => QueuedCur(n, c)' BY <1>4 DEF QueuedCur
  <1>6. ASSUME NEW c \in Ctxs, Follows(c), Begun(c)'
        PROVE  /\ Job(c).dir = D2H => Computed(c)'
               /\ Job(c).dir = H2D => Started(c)' \/ QueuedCur(Len(queue[H2D]), c)'
    <2>1. Covered(c)
      <3>1. CASE Begun(c) BY <1>6, <3>1, GpuFacts DEF Synced, Covered
      <3>2. CASE ~Begun(c) BY <1>6, <3>2
      <3> QED BY <3>1, <3>2
    <2>2. Job(c).dir = D2H => Computed(c)' BY <2>1, LaterFacts DEF Covered
    <2>3. ASSUME Job(c).dir = H2D PROVE Started(c)' \/ QueuedCur(Len(queue[H2D]), c)'
      <3>1. Started(c) \/ QueuedCur(Len(queue[H2D]), c) BY <2>1, <2>3 DEF Covered
      <3>2. Started(c) => Started(c)' BY <1>1, StartedStays
      <3> QED BY <1>5, <3>1, <3>2
    <2> QED BY <2>2, <2>3
  <1>7. Synced' BY <1>3, <1>6 DEF Synced
  <1>8. ASSUME NEW i \in 1..Len(queue[H2D]), queue[H2D][i].op = "copy", Follows(queue[H2D][i].c)
        PROVE  Started(queue[H2D][i].c)' \/ QueuedCur(i - 1, queue[H2D][i].c)'
    <2>1. PICK c : c = queue[H2D][i].c OBVIOUS
    <2>2. TaskOk(H2D, queue[H2D][i]) BY GpuFacts DEF Belongs
    <2>3. c \in Ctxs BY <2>1, <2>2 DEF TaskOk
    <2>4. Started(c) \/ QueuedCur(i - 1, c) BY <1>8, <2>1, GpuFacts DEF QueueOrder
    <2>5. Started(c)' \/ QueuedCur(i - 1, c)' BY <1>1, <1>5, <2>3, <2>4, StartedStays
    <2> QED BY <2>1, <2>5
  <1>9. QueueOrder' BY <1>3, <1>8 DEF QueueOrder
  <1> QED BY <1>1, <1>2, <1>7, <1>9

\* A task goes to the end of a queue.
LEMMA OrderPush ==
  ASSUME OrderInv, Gpu, Later, UNCHANGED <<stream, landed>>,
         NEW d \in Dirs, NEW t, queue' = [queue EXCEPT ![d] = Append(@, t)],
         t.c \in Ctxs, Job(t.c).dir = d,
         t.op = "copy" => Begun(t.c),
         \A c \in Ctxs : Follows(c) /\ Begun(c)' /\ ~Begun(c) =>
           /\ t.op = "cur" /\ c = t.c
           /\ Job(c).dir = D2H => Computed(c)
  PROVE  Synced' /\ QueueOrder' /\ StreamOrder' /\ AfterCompute'
  <1>1. Grows /\ StreamOrder' BY StreamOrderStays
  <1>2. AfterCompute' BY AfterComputeStays
  <1>3. \A c : Job(c)' = Job(c) /\ (Follows(c)' <=> Follows(c)) BY LaterFacts
  <1>4. PICK n \in Nat : n = Len(queue[H2D]) BY GpuFacts
  <1>5. /\ Len(queue[H2D])' \in n..(n + 1)
        /\ \A i \in 1..n : queue[H2D]'[i] = queue[H2D][i]
        /\ Len(queue[H2D])' = n + 1 => d = H2D /\ queue[H2D]'[n + 1] = t
        /\ d = H2D => Len(queue[H2D])' = n + 1
    <2>1. IsSeq(queue[H2D]) /\ H2D \in Dirs /\ DOMAIN queue = Dirs BY GpuFacts DEF OrderTypes
    <2>2. CASE d = H2D
      <3>1. queue[H2D]' = Append(queue[H2D], t) BY <2>1, <2>2
      <3> QED BY <1>4, <2>1, <2>2, <3>1, SeqEnd
    <2>3. CASE d # H2D
      <3>1. queue[H2D]' = queue[H2D] BY <2>1, <2>3
      <3> QED BY <1>4, <2>3, <3>1
    <2> QED BY <2>2, <2>3
  <1>6. \A i \in 1..n : \A c : CurTask(i, c) => CurTask(i, c)' BY <1>3, <1>5 DEF CurTask
  <1>7. \A m \in 0..n : \A c : QueuedCur(m, c) => QueuedCur(m, c)' BY <1>4, <1>6 DEF QueuedCur
  <1>8. \A c : QueuedCur(n, c) => QueuedCur(Len(queue[H2D]), c)'
    BY <1>4, <1>5, <1>6 DEF QueuedCur
  <1>9. \A c \in Ctxs : Follows(c) /\ Begun(c) => Covered(c) BY GpuFacts DEF Synced, Covered
  <1>10. \A c \in Ctxs : Started(c) => Started(c)' BY <1>1, StartedStays
  <1>11. ASSUME NEW c \in Ctxs, Follows(c), Begun(c)'
         PROVE  /\ Job(c).dir = D2H => Computed(c)'
                /\ Job(c).dir = H2D => Started(c)' \/ QueuedCur(Len(queue[H2D]), c)'
    <2>1. CASE Begun(c)
      <3>1. Covered(c) BY <1>9, <1>11, <2>1
      <3> QED BY <1>4, <1>8, <1>10, <3>1, LaterFacts DEF Covered
    <2>2. CASE ~Begun(c)
      <3>1. t.op = "cur" /\ c = t.c /\ (Job(c).dir = D2H => Computed(c)) BY <1>11, <2>2
      <3>2. Job(c).dir = D2H => Computed(c)' BY <3>1, LaterFacts
      <3>3. ASSUME Job(c).dir = H2D PROVE QueuedCur(Len(queue[H2D]), c)'
        <4>1. Len(queue[H2D])' = n + 1 /\ queue[H2D]'[n + 1] = t BY <1>5, <3>1, <3>3
        <4>2. CurTask(n + 1, c)' BY <1>3, <1>11, <3>1, <4>1 DEF CurTask
        <4>3. n + 1 \in 1..Len(queue[H2D])' BY <4>1
        <4> QED BY <4>2, <4>3 DEF QueuedCur
      <3> QED BY <3>2, <3>3
    <2> QED BY <2>1, <2>2
  <1>12. Synced' BY <1>3, <1>11 DEF Synced
  <1>13. PICK q : q = queue[H2D]' OBVIOUS
  <1>14. ASSUME NEW i \in 1..Len(q), q[i].op = "copy", Follows(q[i].c)
         PROVE  Started(q[i].c)' \/ QueuedCur(i - 1, q[i].c)'
    <2>1. PICK c : c = q[i].c OBVIOUS
    <2>2. CASE i <= n
      <3>1. i \in 1..n /\ i - 1 \in 0..n /\ q[i] = queue[H2D][i] BY <1>5, <1>13, <2>2
      <3>2. TaskOk(H2D, queue[H2D][i]) BY <1>4, <3>1, GpuFacts DEF Belongs
      <3>3. c \in Ctxs BY <2>1, <3>1, <3>2 DEF TaskOk
      <3>4. Started(c) \/ QueuedCur(i - 1, c) BY <1>4, <1>14, <2>1, <3>1, GpuFacts DEF QueueOrder
      <3>5. Started(c)' \/ QueuedCur(i - 1, c)' BY <1>7, <1>10, <3>1, <3>3, <3>4
      <3> QED BY <2>1, <3>5
    <2>3. CASE i > n
      <3>1. i = n + 1 /\ i - 1 = n /\ d = H2D /\ q[i] = t BY <1>5, <1>13, <2>3
      <3>2. c = t.c /\ Begun(c) /\ Follows(c) /\ c \in Ctxs /\ Job(c).dir = H2D BY <1>14, <2>1, <3>1
      <3>3. Started(c) \/ QueuedCur(n, c) BY <1>4, <1>9, <3>2 DEF Covered
      <3>4. n \in 0..n OBVIOUS
      <3>5. Started(c)' \/ QueuedCur(i - 1, c)' BY <1>7, <1>10, <3>1, <3>2, <3>3, <3>4
      <3> QED BY <2>1, <3>5
    <2> QED BY <1>5, <1>13, <2>2, <2>3
  <1>15. QueueOrder' BY <1>3, <1>14, <1>13 DEF QueueOrder
  <1> QED BY <1>1, <1>2, <1>12, <1>15

\* The first task of a queue is done: a wait for the compute stream is by now on
\* the stream.
LEMMA OrderPop ==
  ASSUME OrderInv, Gpu, Later, Grows, \A c \in Ctxs : Begun(c)' => Begun(c),
         NEW d \in Dirs, queue[d] # <<>>, queue' = [queue EXCEPT ![d] = Tail(@)],
         \A c \in Ctxs : d = H2D /\ CurTask(1, c) => Started(c)'
  PROVE  Synced' /\ QueueOrder'
  <1>3. \A c : Job(c)' = Job(c) /\ (Follows(c)' <=> Follows(c)) BY LaterFacts
  <1>4. PICK n \in Nat : n = Len(queue[H2D]) BY GpuFacts
  <1>5. PICK k \in {0, 1} : k = IF d = H2D THEN 1 ELSE 0 OBVIOUS
  <1>6. PICK q : q = queue[H2D]' OBVIOUS
  <1>7. n >= k /\ Len(q) = n - k /\ \A i \in 1..(n - k) : q[i] = queue[H2D][i + k]
    <2>1. IsSeq(queue[H2D]) /\ H2D \in Dirs /\ DOMAIN queue = Dirs BY GpuFacts DEF OrderTypes
    <2>2. CASE d = H2D
      <3>1. q = Tail(queue[H2D]) /\ queue[H2D] # <<>> /\ k = 1 BY <1>5, <1>6, <2>1, <2>2
      <3> QED BY <1>4, <2>1, <3>1, SeqRest
    <2>3. CASE d # H2D
      <3>1. q = queue[H2D] /\ k = 0 BY <1>5, <1>6, <2>1, <2>3
      <3> QED BY <1>4, <3>1
    <2> QED BY <2>2, <2>3
  <1>8. \A c \in Ctxs : Started(c) => Started(c)' BY StartedStays
  <1>9. ASSUME NEW c \in Ctxs, NEW m \in 0..n, QueuedCur(m, c)
        PROVE  Started(c)' \/ QueuedCur(m - k, c)'
    <2>1. PICK i \in 1..m : CurTask(i, c) BY <1>9 DEF QueuedCur
    <2>2. CASE i <= k
      <3>1. i = 1 /\ d = H2D BY <1>5, <2>2
      <3> QED BY <2>1, <3>1
    <2>3. CASE i > k
      <3>1. PICK j \in 1..(m - k) : i = j + k
        <4>1. i - k \in 1..(m - k) /\ i = (i - k) + k BY <2>3
        <4> QED BY <4>1
      <3>2. j \in 1..(n - k) OBVIOUS
      <3>3. q[j] = queue[H2D][i] BY <1>7, <3>1, <3>2
      <3>4. CurTask(j, c)' BY <1>3, <1>6, <2>1, <3>3 DEF CurTask
      <3> QED BY <3>4 DEF QueuedCur
    <2> QED BY <1>5, <2>2, <2>3
  <1>10. ASSUME NEW c \in Ctxs, Follows(c), Begun(c)'
         PROVE  /\ Job(c).dir = D2H => Computed(c)'
                /\ Job(c).dir = H2D => Started(c)' \/ QueuedCur(Len(queue[H2D]), c)'
    <2>1. Covered(c) BY <1>10, GpuFacts DEF Synced, Covered
    <2>2. Job(c).dir = D2H => Computed(c)' BY <2>1, LaterFacts DEF Covered
    <2>3. ASSUME Job(c).dir = H2D PROVE Started(c)' \/ QueuedCur(Len(queue[H2D]), c)'
      <3>1. Started(c) \/ QueuedCur(n, c) BY <1>4, <2>1, <2>3 DEF Covered
      <3>2. Started(c)' \/ QueuedCur(n - k, c)' BY <1>8, <1>9, <3>1
      <3> QED BY <1>6, <1>7, <3>2
    <2> QED BY <2>2, <2>3
  <1>11. Synced' BY <1>3, <1>10 DEF Synced
  <1>12. ASSUME NEW i \in 1..Len(q), q[i].op = "copy", Follows(q[i].c)
         PROVE  Started(q[i].c)' \/ QueuedCur(i - 1, q[i].c)'
    <2>1. PICK c : c = q[i].c OBVIOUS
    <2>2. PICK j \in 1..n : j = i + k BY <1>7
    <2>3. q[i] = queue[H2D][j] BY <1>7, <2>2
    <2>4. TaskOk(H2D, queue[H2D][j]) BY <1>4, <2>2, GpuFacts DEF Belongs
    <2>5. c \in Ctxs BY <2>1, <2>3, <2>4 DEF TaskOk
    <2>6. Started(c) \/ QueuedCur(j - 1, c)
      BY <1>4, <1>12, <2>1, <2>3, GpuFacts DEF QueueOrder
    <2>7. j - 1 \in 0..n /\ (j - 1) - k = i - 1 BY <2>2
    <2>8. Started(c)' \/ QueuedCur((j - 1) - k, c)' BY <1>8, <1>9, <2>5, <2>6, <2>7
    <2> QED BY <2>1, <2>7, <2>8
  <1>13. QueueOrder' BY <1>3, <1>6, <1>12 DEF QueueOrder
  <1> QED BY <1>11, <1>13

\* The first task of a queue puts its item on the stream of its context.
LEMMA OrderHop ==
  ASSUME OrderInv, Gpu, Later, UNCHANGED landed, \A c \in Ctxs : Begun(c)' => Begun(c),
         NEW d \in Dirs, queue[d] # <<>>, queue' = [queue EXCEPT ![d] = Tail(@)],
         NEW t, t = Head(queue[d]),
         NEW item, stream' = [stream EXCEPT ![StreamOf(t.c)] = Append(@, item)],
         t.op = "cur" => item = CurItem(t.c),
         item.op = "copy" => t.op = "copy" /\ item.c = t.c
  PROVE  Synced' /\ QueueOrder' /\ StreamOrder' /\ AfterCompute'
  <1>1. AfterCompute' BY AfterComputeStays
  <1>2. \A c : Job(c)' = Job(c) /\ (Follows(c)' <=> Follows(c)) BY LaterFacts
  <1>3. PICK n \in Nat : n = Len(stream[H2D]) BY GpuFacts
  <1>4. PICK u : u = stream[H2D]' OBVIOUS
  <1>5. /\ Len(u) \in n..(n + 1) /\ \A i \in 1..n : u[i] = stream[H2D][i]
        /\ Len(u) = n + 1 => StreamOf(t.c) = H2D /\ u[n + 1] = item
        /\ StreamOf(t.c) = H2D => Len(u) = n + 1
    <2>1. IsSeq(stream[H2D]) /\ H2D \in DOMAIN stream BY GpuFacts DEF OrderTypes
    <2>2. CASE StreamOf(t.c) = H2D
      <3>1. u = Append(stream[H2D], item) BY <1>4, <2>1, <2>2
      <3> QED BY <1>3, <2>1, <2>2, <3>1, SeqEnd
    <2>3. CASE StreamOf(t.c) # H2D
      <3>1. u = stream[H2D] BY <1>4, <2>1, <2>3
      <3> QED BY <1>3, <2>3, <3>1
    <2> QED BY <2>2, <2>3
  <1>6. Grows BY <1>3, <1>4, <1>5 DEF Grows
  <1>7. t = queue[d][1] /\ TaskOk(d, t)
    <2>1. IsSeq(queue[d]) BY GpuFacts
    <2>2. Len(queue[d]) > 0 /\ Len(queue[d]) \in Nat /\ t = queue[d][1] BY <2>1, SeqRest DEF IsSeq
    <2>3. 1 \in 1..Len(queue[d]) BY <2>2
    <2> QED BY <2>2, <2>3, GpuFacts DEF Belongs
  <1>8. ASSUME NEW c \in Ctxs, d = H2D, CurTask(1, c) PROVE Started(c)'
    <2>1. t.op = "cur" /\ Follows(t.c) /\ Job(t.c).group = Job(c).group BY <1>7, <1>8 DEF CurTask
    <2>2. StreamOf(t.c) = H2D BY <1>7, <1>8, <2>1, GpuFacts DEF TaskOk
    <2>3. u[n + 1] = item /\ n + 1 \in 1..Len(u) BY <1>5, <2>2
    <2>4. item.op = "cur" /\ item.group = Job(c).group BY <2>1 DEF CurItem
    <2>5. CurOn(n + 1, c)' BY <1>2, <1>4, <2>3, <2>4 DEF CurOn
    <2> QED BY <1>4, <2>3, <2>5 DEF Started, StreamCur
  <1>9. Synced' /\ QueueOrder' BY <1>6, <1>8, OrderPop
  <1>10. ASSUME NEW i \in 1..Len(u), u[i].op = "copy", Follows(u[i].c)
         PROVE  Computed(u[i].c)' \/ StreamCur(i - 1, u[i].c)'
    <2>1. PICK c : c = u[i].c OBVIOUS
    <2>2. c \in Ctxs /\ (Computed(c) \/ StreamCur(i - 1, c)) /\ i - 1 \in 0..n
      <3>1. CASE i <= n
        <4>1. i \in 1..n /\ u[i] = stream[H2D][i] BY <1>5, <3>1
        <4>2. ItemOk(H2D, stream[H2D][i]) BY <1>3, <4>1, GpuFacts DEF Belongs
        <4>3. c \in Ctxs BY <1>10, <2>1, <4>1, <4>2 DEF ItemOk
        <4>4. Computed(c) \/ StreamCur(i - 1, c)
          BY <1>3, <1>10, <2>1, <4>1, GpuFacts DEF StreamOrder
        <4> QED BY <4>1, <4>3, <4>4
      <3>2. CASE i > n
        <4>1. i = n + 1 /\ i - 1 = n /\ StreamOf(t.c) = H2D /\ u[i] = item BY <1>5, <3>2
        <4>2. t.op = "copy" /\ c = t.c /\ Follows(c) BY <1>10, <2>1, <4>1
        <4>3. c \in Ctxs /\ Job(c).dir = d BY <1>7, <4>2 DEF TaskOk
        <4>4. d = H2D BY <4>1, <4>2, <4>3, GpuFacts
        <4>5. 1 \in 1..Len(queue[H2D])
          <5>1. IsSeq(queue[H2D]) BY GpuFacts
          <5>2. Len(queue[H2D]) > 0 /\ Len(queue[H2D]) \in Nat BY <4>4, <5>1, SeqRest DEF IsSeq
          <5> QED BY <5>2
        <4>6. Started(c) \/ QueuedCur(1 - 1, c)
          BY <1>7, <4>2, <4>4, <4>5, GpuFacts DEF QueueOrder
        <4>7. ~QueuedCur(1 - 1, c) BY DEF QueuedCur
        <4> QED BY <1>3, <4>1, <4>3, <4>6, <4>7 DEF Started
      <3> QED BY <1>5, <3>1, <3>2
    <2>3. Computed(c)' \/ StreamCur(i - 1, c)' BY <1>3, <1>6, <2>2, StartedStays, LaterFacts
    <2> QED BY <2>1, <2>3
  <1>11. StreamOrder' BY <1>2, <1>4, <1>10 DEF StreamOrder
  <1> QED BY <1>1, <1>9, <1>11

\* The first item of a stream is done.
LEMMA OrderStream ==
  ASSUME OrderInv, Gpu, UNCHANGED <<proc, queue, ctx, curDone>>, NEW x \in Dirs \cup Ctxs,
         StreamStep(x)
  PROVE  Synced' /\ QueueOrder' /\ StreamOrder' /\ AfterCompute'
  <1>1. /\ Later /\ \A c \in Ctxs : Begun(c)' => Begun(c)
    BY GpuFacts DEF Later, Begun, OrderTypes
  <1>2. \A c : Job(c)' = Job(c) /\ (Follows(c)' <=> Follows(c)) BY <1>1, LaterFacts
  <1>3. PICK n \in Nat : n = Len(stream[H2D]) BY GpuFacts
  <1>4. PICK u : u = stream[H2D]' OBVIOUS
  <1>5. PICK k \in {0, 1} : k = IF x = H2D THEN 1 ELSE 0 OBVIOUS
  <1>6. PICK t : t = Head(stream[x]) OBVIOUS
  <1>7. /\ t.op = "cur" => curDone >= t.group
        /\ landed' = IF t.op = "copy" THEN [landed EXCEPT ![t.c] = @ \cup t.rows] ELSE landed
        /\ stream' = [stream EXCEPT ![x] = Tail(@)] /\ stream[x] # <<>>
    BY <1>6 DEF StreamStep
  <1>8. t = stream[x][1] /\ ItemOk(x, t)
    <2>1. IsSeq(stream[x]) BY GpuFacts DEF OrderTypes
    <2>2. Len(stream[x]) > 0 /\ Len(stream[x]) \in Nat /\ t = stream[x][1]
      BY <1>6, <1>7, <2>1, SeqRest DEF IsSeq
    <2>3. 1 \in 1..Len(stream[x]) BY <2>2
    <2> QED BY <2>2, <2>3, GpuFacts DEF Belongs
  <1>9. n >= k /\ Len(u) = n - k /\ \A i \in 1..(n - k) : u[i] = stream[H2D][i + k]
    <2>1. IsSeq(stream[H2D]) /\ H2D \in DOMAIN stream BY GpuFacts DEF OrderTypes
    <2>2. CASE x = H2D
      <3>1. u = Tail(stream[H2D]) /\ stream[H2D] # <<>> /\ k = 1 BY <1>4, <1>5, <1>7, <2>1, <2>2
      <3> QED BY <1>3, <2>1, <3>1, SeqRest
    <2>3. CASE x # H2D
      <3>1. u = stream[H2D] /\ k = 0 BY <1>4, <1>5, <1>7, <2>1, <2>3
      <3> QED BY <1>3, <3>1
    <2> QED BY <2>2, <2>3
  <1>10. ASSUME NEW c \in Ctxs, NEW m \in 0..n, StreamCur(m, c)
         PROVE  Computed(c)' \/ StreamCur(m - k, c)'
    <2>1. PICK i \in 1..m : CurOn(i, c) BY <1>10 DEF StreamCur
    <2>2. CASE i <= k
      <3>1. i = 1 /\ x = H2D BY <1>5, <2>2
      <3>2. t.op = "cur" /\ t.group = Job(c).group BY <1>8, <2>1, <3>1 DEF CurOn
      <3>3. Computed(c) BY <1>7, <3>2 DEF Computed
      <3> QED BY <1>1, <3>3, LaterFacts
    <2>3. CASE i > k
      <3>1. PICK j \in 1..(m - k) : i = j + k
        <4>1. i - k \in 1..(m - k) /\ i = (i - k) + k BY <2>3
        <4> QED BY <4>1
      <3>2. j \in 1..(n - k) OBVIOUS
      <3>3. u[j] = stream[H2D][i] BY <1>9, <3>1, <3>2
      <3>4. CurOn(j, c)' BY <1>2, <1>4, <2>1, <3>3 DEF CurOn
      <3> QED BY <3>4 DEF StreamCur
    <2> QED BY <1>5, <2>2, <2>3
  <1>11. ASSUME NEW c \in Ctxs, Started(c) PROVE Started(c)'
    <2>1. Computed(c) \/ StreamCur(n, c) BY <1>3, <1>11 DEF Started
    <2>2. Computed(c) => Computed(c)' BY <1>1, LaterFacts
    <2>3. n \in 0..n OBVIOUS
    <2>4. Computed(c)' \/ StreamCur(n - k, c)' BY <1>10, <2>1, <2>2, <2>3
    <2> QED BY <1>4, <1>9, <2>4 DEF Started
  <1>12. \A i, c : CurTask(i, c) => CurTask(i, c)' BY <1>2 DEF CurTask
  <1>13. \A m, c : QueuedCur(m, c) => QueuedCur(m, c)' BY <1>12 DEF QueuedCur
  <1>14. ASSUME NEW c \in Ctxs, Follows(c), Begun(c)'
         PROVE  /\ Job(c).dir = D2H => Computed(c)'
                /\ Job(c).dir = H2D => Started(c)' \/ QueuedCur(Len(queue[H2D]), c)'
    <2>1. Covered(c) BY <1>1, <1>14, GpuFacts DEF Synced, Covered
    <2>2. Computed(c) => Computed(c)' BY <1>1, LaterFacts
    <2> QED BY <1>11, <1>13, <2>1, <2>2 DEF Covered
  <1>15. Synced' BY <1>2, <1>14 DEF Synced
  <1>16. ASSUME NEW i \in 1..Len(queue[H2D]), queue[H2D][i].op = "copy", Follows(queue[H2D][i].c)
         PROVE  Started(queue[H2D][i].c)' \/ QueuedCur(i - 1, queue[H2D][i].c)'
    <2>1. PICK c : c = queue[H2D][i].c OBVIOUS
    <2>2. TaskOk(H2D, queue[H2D][i]) BY GpuFacts DEF Belongs
    <2>3. c \in Ctxs BY <2>1, <2>2 DEF TaskOk
    <2>4. Started(c) \/ QueuedCur(i - 1, c) BY <1>16, <2>1, GpuFacts DEF QueueOrder
    <2>5. Started(c)' \/ QueuedCur(i - 1, c)' BY <1>11, <1>13, <2>3, <2>4
    <2> QED BY <2>1, <2>5
  <1>17. QueueOrder' BY <1>2, <1>16 DEF QueueOrder
  <1>18. ASSUME NEW i \in 1..Len(u), u[i].op = "copy", Follows(u[i].c)
         PROVE  Computed(u[i].c)' \/ StreamCur(i - 1, u[i].c)'
    <2>1. PICK c : c = u[i].c OBVIOUS
    <2>2. PICK j \in 1..n : j = i + k BY <1>9
    <2>3. u[i] = stream[H2D][j] BY <1>9, <2>2
    <2>4. ItemOk(H2D, stream[H2D][j]) BY <1>3, <2>2, GpuFacts DEF Belongs
    <2>5. c \in Ctxs BY <1>18, <2>1, <2>3, <2>4 DEF ItemOk
    <2>6. Computed(c) \/ StreamCur(j - 1, c)
      BY <1>3, <1>18, <2>1, <2>3, GpuFacts DEF StreamOrder
    <2>7. j - 1 \in 0..n /\ (j - 1) - k = i - 1 BY <2>2
    <2>8. Computed(c) => Computed(c)' BY <1>1, <2>5, LaterFacts
    <2>9. Computed(c)' \/ StreamCur((j - 1) - k, c)' BY <1>10, <2>5, <2>6, <2>7, <2>8
    <2> QED BY <2>1, <2>7, <2>9
  <1>19. StreamOrder' BY <1>2, <1>4, <1>18 DEF StreamOrder
  <1>20. ASSUME NEW c \in Ctxs, (landed[c] # {} /\ Gpu /\ Job(c).owner = "flow"
                                 /\ (Job(c).dir = D2H \/ (proc.syncGet /\ ~proc.dsa)))'
         PROVE  (curDone >= Job(c).group)'
    <2>1. Job(c)' = Job(c) /\ proc' = proc BY <1>2
    <2>2. CASE t.op = "copy" /\ t.c = c
      <3>1. Follows(c) /\ Begun(c) /\ StreamOf(c) = x BY <1>8, <1>20, <2>1, <2>2 DEF ItemOk, Follows
      <3>2. Computed(c)
        <4>1. CASE Job(c).dir = D2H BY <3>1, <4>1, GpuFacts DEF Synced
        <4>2. CASE Job(c).dir = H2D
          <5>1. x = H2D BY <3>1, <4>2, GpuFacts
          <5>2. 1 \in 1..n BY <1>5, <1>9, <5>1
          <5>3. Computed(c) \/ StreamCur(1 - 1, c)
            BY <1>3, <1>8, <2>2, <3>1, <5>1, <5>2, GpuFacts DEF StreamOrder
          <5>4. ~StreamCur(1 - 1, c) BY DEF StreamCur
          <5> QED BY <5>3, <5>4
        <4> QED BY <4>1, <4>2, GpuFacts DEF Dirs
      <3> QED BY <2>1, <3>2 DEF Computed
    <2>3. CASE ~(t.op = "copy" /\ t.c = c)
      <3>1. landed'[c] = landed[c] BY <1>7, <2>3, GpuFacts DEF OrderTypes
      <3>2. landed[c] # {} /\ Job(c).owner = "flow" /\ (Job(c).dir = D2H \/ (proc.syncGet /\ ~proc.dsa))
        BY <1>20, <2>1, <3>1
      <3> QED BY <2>1, <3>2, GpuFacts DEF AfterCompute, Ordered
    <2> QED BY <2>2, <2>3
  <1>21. AfterCompute' BY <1>20 DEF AfterCompute, Ordered
  <1> QED BY <1>15, <1>17, <1>19, <1>21

-----------------------------------------------------------------------------
(* What is queued and in flight stays where it belongs.                    *)

QueueIs ==
  DOMAIN queue = Dirs /\ \A d \in Dirs : IsSeq(queue[d])
                                         /\ \A i \in 1..Len(queue[d]) : TaskOk(d, queue[d][i])
StreamIs ==
  DOMAIN stream = Dirs \cup Ctxs
  /\ \A x \in Dirs \cup Ctxs : IsSeq(stream[x])
                               /\ \A i \in 1..Len(stream[x]) : ItemOk(x, stream[x][i])
CallIs == \A d \in Dirs : CallOk(d)
HwIs == \A s \in Slots : HwOk(s)
RestIs == DOMAIN landed = Ctxs /\ curDone \in Nat /\ \A d \in Dirs : rdma[d] = None

LEMMA BelongsParts ==
  Belongs <=> QueueIs /\ StreamIs /\ CallIs /\ HwIs /\ RestIs /\ \A c \in Ctxs : TodoOk(c)
  BY DEF Belongs, OrderTypes, QueueIs, StreamIs, CallIs, HwIs, RestIs

LEMMA BelongsPrimed ==
  ASSUME QueueIs', StreamIs', CallIs', HwIs', RestIs', \A c \in Ctxs : TodoOk(c)'
  PROVE  Belongs'
  <1>1. (\A c \in Ctxs : TodoOk(c))' OBVIOUS
  <1>2. (QueueIs /\ StreamIs /\ CallIs /\ HwIs /\ RestIs /\ \A c \in Ctxs : TodoOk(c))' BY <1>1
  <1> QED BY <1>2, BelongsParts, PTL

LEMMA ElementsStay ==
  ASSUME Later
  PROVE  /\ \A d, t : TaskOk(d, t) => TaskOk(d, t)'
         /\ \A x, i : ItemOk(x, i) => ItemOk(x, i)'
         /\ \A w : BatchOk(w) => BatchOk(w)'
  <1>1. \A c : Job(c)' = Job(c) /\ StreamOf(c)' = StreamOf(c) BY DEF Later, Job, StreamOf
  <1>2. \A d, t : TaskOk(d, t) => TaskOk(d, t)' BY <1>1 DEF TaskOk, Later
  <1>3. \A x, i : ItemOk(x, i) => ItemOk(x, i)' BY <1>1 DEF ItemOk, Later
  <1>4. \A w : BatchOk(w) => BatchOk(w)' BY DEF BatchOk, Later
  <1> QED BY <1>2, <1>3, <1>4

LEMMA SameQueue ==
  ASSUME QueueIs, Later, UNCHANGED queue PROVE QueueIs'
  BY ElementsStay DEF QueueIs

LEMMA SameStream ==
  ASSUME StreamIs, Later, UNCHANGED stream PROVE StreamIs'
  BY ElementsStay DEF StreamIs

LEMMA SameHw ==
  ASSUME HwIs, Later, UNCHANGED hw PROVE HwIs'
  BY ElementsStay DEF HwIs, HwOk, Later

LEMMA SameCall ==
  ASSUME CallIs, Later, UNCHANGED <<call, queue>> PROVE CallIs'
  <1>1. ASSUME NEW d \in Dirs PROVE CallOk(d)'
    BY ElementsStay DEF CallIs, CallOk, Later
  <1> QED BY <1>1 DEF CallIs

LEMMA PushedQueue ==
  ASSUME QueueIs, Later, NEW d \in Dirs, NEW t, queue' = [queue EXCEPT ![d] = Append(@, t)],
         TaskOk(d, t)'
  PROVE  QueueIs'
  <1>1. ASSUME NEW e \in Dirs, NEW q, q = queue[e]'
        PROVE  IsSeq(q) /\ \A i \in 1..Len(q) : TaskOk(e, q[i])'
    <2>1. IsSeq(queue[e]) /\ \A i \in 1..Len(queue[e]) : TaskOk(e, queue[e][i]) BY DEF QueueIs
    <2>2. CASE e = d
      <3>1. q = Append(queue[e], t) BY <1>1, <2>2 DEF QueueIs
      <3>2. PICK n \in Nat : n = Len(queue[e]) BY <2>1 DEF IsSeq
      <3>3. /\ IsSeq(q) /\ Len(q) = n + 1 /\ q[n + 1] = t
            /\ \A i \in 1..n : q[i] = queue[e][i]
        BY <2>1, <3>1, <3>2, SeqEnd
      <3>4. ASSUME NEW i \in 1..(n + 1) PROVE TaskOk(e, q[i])'
        <4>1. CASE i <= n
          <5>1. i \in 1..n BY <4>1
          <5>2. TaskOk(e, queue[e][i]) /\ q[i] = queue[e][i] BY <2>1, <3>2, <3>3, <5>1
          <5>3. TaskOk(e, q[i]) BY <5>2
          <5> QED BY <5>3, ElementsStay
        <4>2. CASE i = n + 1 BY <2>2, <3>3, <4>2
        <4> QED BY <4>1, <4>2
      <3> QED BY <3>3, <3>4
    <2>3. CASE e # d
      <3>1. q = queue[e] BY <1>1, <2>3 DEF QueueIs
      <3> QED BY <2>1, <3>1, ElementsStay
    <2> QED BY <2>2, <2>3
  <1>2. DOMAIN queue' = Dirs BY DEF QueueIs
  <1> QED BY <1>1, <1>2 DEF QueueIs

LEMMA PoppedQueue ==
  ASSUME QueueIs, Later, NEW d \in Dirs, queue[d] # <<>>, queue' = [queue EXCEPT ![d] = Tail(@)]
  PROVE  QueueIs'
  <1>1. ASSUME NEW e \in Dirs, NEW q, q = queue[e]'
        PROVE  IsSeq(q) /\ \A i \in 1..Len(q) : TaskOk(e, q[i])'
    <2>1. IsSeq(queue[e]) /\ \A i \in 1..Len(queue[e]) : TaskOk(e, queue[e][i]) BY DEF QueueIs
    <2>2. CASE e = d
      <3>1. q = Tail(queue[e]) BY <1>1, <2>2 DEF QueueIs
      <3>2. PICK n \in Nat : n = Len(queue[e]) BY <2>1 DEF IsSeq
      <3>3. /\ IsSeq(q) /\ Len(q) = n - 1 /\ \A i \in 1..(n - 1) : q[i] = queue[e][i + 1]
        BY <2>1, <2>2, <3>1, <3>2, SeqRest
      <3>4. ASSUME NEW i \in 1..(n - 1) PROVE TaskOk(e, q[i])'
        <4>1. i + 1 \in 1..n OBVIOUS
        <4>2. TaskOk(e, queue[e][i + 1]) /\ q[i] = queue[e][i + 1] BY <2>1, <3>2, <3>3, <4>1
        <4>3. TaskOk(e, q[i]) BY <4>2
        <4> QED BY <4>3, ElementsStay
      <3> QED BY <3>3, <3>4
    <2>3. CASE e # d
      <3>1. q = queue[e] BY <1>1, <2>3 DEF QueueIs
      <3> QED BY <2>1, <3>1, ElementsStay
    <2> QED BY <2>2, <2>3
  <1>2. DOMAIN queue' = Dirs BY DEF QueueIs
  <1> QED BY <1>1, <1>2 DEF QueueIs

LEMMA PushedStream ==
  ASSUME StreamIs, Later, NEW y \in Dirs \cup Ctxs, NEW t,
         stream' = [stream EXCEPT ![y] = Append(@, t)], ItemOk(y, t)'
  PROVE  StreamIs'
  <1>1. ASSUME NEW e \in Dirs \cup Ctxs, NEW q, q = stream[e]'
        PROVE  IsSeq(q) /\ \A i \in 1..Len(q) : ItemOk(e, q[i])'
    <2>1. IsSeq(stream[e]) /\ \A i \in 1..Len(stream[e]) : ItemOk(e, stream[e][i]) BY DEF StreamIs
    <2>2. CASE e = y
      <3>1. q = Append(stream[e], t) BY <1>1, <2>2 DEF StreamIs
      <3>2. PICK n \in Nat : n = Len(stream[e]) BY <2>1 DEF IsSeq
      <3>3. /\ IsSeq(q) /\ Len(q) = n + 1 /\ q[n + 1] = t
            /\ \A i \in 1..n : q[i] = stream[e][i]
        BY <2>1, <3>1, <3>2, SeqEnd
      <3>4. ASSUME NEW i \in 1..(n + 1) PROVE ItemOk(e, q[i])'
        <4>1. CASE i <= n
          <5>1. i \in 1..n BY <4>1
          <5>2. ItemOk(e, stream[e][i]) /\ q[i] = stream[e][i] BY <2>1, <3>2, <3>3, <5>1
          <5>3. ItemOk(e, q[i]) BY <5>2
          <5> QED BY <5>3, ElementsStay
        <4>2. CASE i = n + 1 BY <2>2, <3>3, <4>2
        <4> QED BY <4>1, <4>2
      <3> QED BY <3>3, <3>4
    <2>3. CASE e # y
      <3>1. q = stream[e] BY <1>1, <2>3 DEF StreamIs
      <3> QED BY <2>1, <3>1, ElementsStay
    <2> QED BY <2>2, <2>3
  <1>2. DOMAIN stream' = Dirs \cup Ctxs BY DEF StreamIs
  <1> QED BY <1>1, <1>2 DEF StreamIs

LEMMA PoppedStream ==
  ASSUME StreamIs, Later, NEW y \in Dirs \cup Ctxs, stream[y] # <<>>,
         stream' = [stream EXCEPT ![y] = Tail(@)]
  PROVE  StreamIs'
  <1>1. ASSUME NEW e \in Dirs \cup Ctxs, NEW q, q = stream[e]'
        PROVE  IsSeq(q) /\ \A i \in 1..Len(q) : ItemOk(e, q[i])'
    <2>1. IsSeq(stream[e]) /\ \A i \in 1..Len(stream[e]) : ItemOk(e, stream[e][i]) BY DEF StreamIs
    <2>2. CASE e = y
      <3>1. q = Tail(stream[e]) BY <1>1, <2>2 DEF StreamIs
      <3>2. PICK n \in Nat : n = Len(stream[e]) BY <2>1 DEF IsSeq
      <3>3. /\ IsSeq(q) /\ Len(q) = n - 1 /\ \A i \in 1..(n - 1) : q[i] = stream[e][i + 1]
        BY <2>1, <2>2, <3>1, <3>2, SeqRest
      <3>4. ASSUME NEW i \in 1..(n - 1) PROVE ItemOk(e, q[i])'
        <4>1. i + 1 \in 1..n OBVIOUS
        <4>2. ItemOk(e, stream[e][i + 1]) /\ q[i] = stream[e][i + 1] BY <2>1, <3>2, <3>3, <4>1
        <4>3. ItemOk(e, q[i]) BY <4>2
        <4> QED BY <4>3, ElementsStay
      <3> QED BY <3>3, <3>4
    <2>3. CASE e # y
      <3>1. q = stream[e] BY <1>1, <2>3 DEF StreamIs
      <3> QED BY <2>1, <3>1, ElementsStay
    <2> QED BY <2>2, <2>3
  <1>2. DOMAIN stream' = Dirs \cup Ctxs BY DEF StreamIs
  <1> QED BY <1>1, <1>2 DEF StreamIs

\* A call goes on while tasks are added behind its own.
LEMMA PushedCall ==
  ASSUME CallIs, QueueIs, Later, NEW d \in Dirs, NEW t,
         queue' = [queue EXCEPT ![d] = Append(@, t)], UNCHANGED call
  PROVE  CallIs'
  <1>1. ASSUME NEW e \in Dirs PROVE CallOk(e)'
    <2>1. CASE e = d
      <3>1. queue[e]' = Append(queue[e], t) /\ IsSeq(queue[e]) BY <2>1 DEF QueueIs
      <3>2. /\ queue[e]' # <<>>
            /\ queue[e] # <<>> => Head(queue[e]') = Head(queue[e])
        BY <3>1, SeqEnd
      <3> QED BY <3>2, ElementsStay DEF CallIs, CallOk, Later
    <2>2. CASE e # d
      <3>1. queue[e]' = queue[e] BY <2>2 DEF QueueIs
      <3> QED BY <3>1, ElementsStay DEF CallIs, CallOk, Later
    <2> QED BY <2>1, <2>2
  <1> QED BY <1>1 DEF CallIs

\* Without a call of its worker, a queue may lose its first task.
LEMMA PoppedCall ==
  ASSUME CallIs, QueueIs, Later, NEW d \in Dirs, queue' = [queue EXCEPT ![d] = Tail(@)],
         UNCHANGED call, call[d] = None
  PROVE  CallIs'
  <1>1. ASSUME NEW e \in Dirs PROVE CallOk(e)'
    <2>1. CASE e = d BY <2>1 DEF CallOk
    <2>2. CASE e # d
      <3>1. queue[e]' = queue[e] BY <2>2 DEF QueueIs
      <3> QED BY <3>1, ElementsStay DEF CallIs, CallOk, Later
    <2> QED BY <2>1, <2>2
  <1> QED BY <1>1 DEF CallIs

-----------------------------------------------------------------------------
(* The steps.                                                              *)

\* The contexts stay where they are, as far as the order goes.
CtxSame == \A b \in Ctxs : (Begun(b)' <=> Begun(b)) /\ (TodoOk(b) => TodoOk(b)')

LEMMA CtxStays ==
  ASSUME TicketInv, NEW c \in Ctxs
  PROVE  /\ UNCHANGED ctx => CtxSame
         /\ \A v : ctx' = [ctx EXCEPT ![c].fut = v] => CtxSame
         /\ \A v : ctx' = [ctx EXCEPT ![c].ticket = v] => CtxSame
         /\ \A v : ctx' = [ctx EXCEPT ![c].at = v] /\ v \notin {"new", "sync"} /\ Begun(c) => CtxSame
  <1>1. DOMAIN ctx = Ctxs /\ \A b \in Ctxs : DOMAIN ctx[b] = CtxFields
    BY DEF TicketInv, TicketTypes
  <1>2. /\ UNCHANGED ctx => CtxSame
        /\ \A v : ctx' = [ctx EXCEPT ![c].fut = v] => CtxSame
        /\ \A v : ctx' = [ctx EXCEPT ![c].ticket = v] => CtxSame
    BY <1>1 DEF CtxSame, Begun, TodoOk, CtxFields
  <1>3. ASSUME NEW v, ctx' = [ctx EXCEPT ![c].at = v], v \notin {"new", "sync"}, Begun(c)
        PROVE  CtxSame
    BY <1>1, <1>3 DEF CtxSame, Begun, TodoOk, CtxFields
  <1> QED BY <1>2, <1>3

LEMMA SameLater ==
  ASSUME OrderInv, Gpu, CtxSame, UNCHANGED <<proc, curDone>>
  PROVE  Later
  BY GpuFacts DEF Later, CtxSame, OrderTypes

\* The order, from its parts.
LEMMA OrderParts ==
  ASSUME OrderInv, Gpu, Later, QueueIs', StreamIs', CallIs', HwIs', RestIs',
         \A c \in Ctxs : TodoOk(c)', Synced', QueueOrder', StreamOrder', AfterCompute'
  PROVE  OrderInv'
  <1>1. Belongs' BY BelongsPrimed
  <1>2. proc' \in Procs BY DEF OrderInv, Later
  <1> QED BY <1>1, <1>2 DEF OrderInv

LEMMA PartsNow ==
  ASSUME OrderInv, Gpu
  PROVE  QueueIs /\ StreamIs /\ CallIs /\ HwIs /\ RestIs /\ \A c \in Ctxs : TodoOk(c)
  BY GpuFacts, BelongsParts

\* A step that moves nothing.
LEMMA OrderQuiet ==
  ASSUME OrderInv, Gpu, UNCHANGED <<proc, queue, stream, landed, rdma, call, hw>>, CtxSame,
         curDone' \in Nat, curDone' >= curDone
  PROVE  OrderInv'
  <1>1. Later BY DEF Later, CtxSame
  <1>2. QueueIs' /\ StreamIs' /\ CallIs' /\ HwIs'
    BY <1>1, PartsNow, SameQueue, SameStream, SameCall, SameHw
  <1>3. RestIs' BY PartsNow DEF RestIs
  <1>4. \A c \in Ctxs : TodoOk(c)' BY PartsNow DEF CtxSame
  <1>5. Synced' /\ QueueOrder' /\ StreamOrder' /\ AfterCompute' BY <1>1, OrderSame DEF CtxSame
  <1> QED BY <1>1, <1>2, <1>3, <1>4, <1>5, OrderParts

\* Context::create: a context that does not wait itself follows one that has.
LEMMA OrderCreate ==
  ASSUME TicketInv, OrderInv, Gpu, NEW c \in Ctxs, NEW names, Create(c, names), ctx[c].at = "new",
         Job(c).owner = "flow" => \A b \in Ctxs : b < c => Begun(b)
  PROVE  OrderInv'
  <1>1. PICK l : ctx' = [ctx EXCEPT ![c] = Created(c, l)] BY DEF Create
  <1>2. UNCHANGED <<proc, queue, stream, landed, rdma, call, hw, curDone>>
    BY DEF Create, dsaVars, engineVars, slotVars
  <1>3. PICK r : r = Created(c, l) OBVIOUS
  <1>4. r.todo = Job(c).calls /\ r.at = IF Waits(c) THEN "sync" ELSE "issue"
    BY <1>3 DEF Created, New
  <1>5. DOMAIN ctx = Ctxs BY DEF TicketInv, TicketTypes
  <1>6. ctx'[c] = r /\ \A b \in Ctxs : b # c => ctx'[b] = ctx[b] BY <1>1, <1>3, <1>5
  <1>7. ~Begun(c) /\ \A b \in Ctxs : b # c => (Begun(b)' <=> Begun(b)) BY <1>6 DEF Begun
  <1>8. Later BY <1>2, <1>7, GpuFacts DEF Later, OrderTypes
  <1>9. QueueIs' /\ StreamIs' /\ CallIs' /\ HwIs'
    BY <1>2, <1>8, PartsNow, SameQueue, SameStream, SameCall, SameHw
  <1>10. RestIs' BY <1>2, PartsNow DEF RestIs
  <1>11. ASSUME NEW b \in Ctxs PROVE TodoOk(b)'
    <2>1. CASE b = c
      <3>1. PICK s : s = Job(c).calls OBVIOUS
      <3>2. s \in Seq(Seq(Nat \X Nat) \ {<<>>}) BY <3>1, GpuFacts
      <3>3. IsSeq(s) BY <3>2, InSeq
      <3>4. ASSUME NEW i \in 1..Len(s) PROVE Len(s[i]) \in Nat \ {0}
        <4>1. s[i] \in Seq(Nat \X Nat) /\ s[i] # <<>> BY <3>2
        <4> QED BY <4>1
      <3>5. ctx'[b].todo = s BY <1>4, <1>6, <2>1, <3>1
      <3> QED BY <3>3, <3>4, <3>5 DEF TodoOk
    <2>2. CASE b # c BY <1>6, <2>2, PartsNow DEF TodoOk
    <2> QED BY <2>1, <2>2
  <1>12. ASSUME NEW a \in Ctxs, Follows(a), Begun(a)', ~Begun(a) PROVE Covered(a)
    <2>1. a = c /\ Follows(c) /\ Job(c).owner = "flow" /\ ~Job(c).first
      <3>1. a = c /\ ~Waits(c) BY <1>4, <1>6, <1>7, <1>12 DEF Begun
      <3> QED BY <1>12, <3>1 DEF Follows, Waits, Gpu, Remote
    <2>2. PICK b \in Ctxs : /\ b = c \/ b < c
                            /\ Job(b).owner = "flow" /\ Job(b).first
                            /\ Job(b).dir = Job(c).dir /\ Job(b).group = Job(c).group
      <3>1. proc \in Procs /\ proc.kind = "gpu" BY DEF OrderInv, Gpu
      <3> QED BY <2>1, <3>1, GpuProcs DEF Job
    <2>3. Begun(b) /\ Follows(b) BY <2>1, <2>2 DEF Follows
    <2>4. Covered(b) BY <2>3, GpuFacts DEF Synced, Covered
    <2>5. \A n : QueuedCur(n, b) => QueuedCur(n, c) BY <2>2 DEF QueuedCur, CurTask
    <2>6. Computed(b) => Computed(c) BY <2>2 DEF Computed
    <2>7. Started(b) => Started(c) BY <2>2, <2>6 DEF Started, StreamCur, CurOn
    <2> QED BY <2>1, <2>2, <2>4, <2>5, <2>6, <2>7 DEF Covered
  <1>13. Synced' /\ QueueOrder' /\ StreamOrder' /\ AfterCompute' BY <1>2, <1>8, <1>12, OrderSame
  <1> QED BY <1>8, <1>9, <1>10, <1>11, <1>13, OrderParts

\* A call on a context queues a task behind the others.
LEMMA OrderCall ==
  ASSUME TicketInv, OrderInv, Gpu, NEW c \in Ctxs, NEW t, Push(c, t), t.c = c,
         UNCHANGED <<proc, stream, landed, rdma, call, hw, curDone>>,
         \A b \in Ctxs : TodoOk(b)', Begun(c)', \A b \in Ctxs : b # c => (Begun(b)' <=> Begun(b)),
         t.op = "copy" => Begun(c) /\ Len(t.xs) \in Nat \ {0},
         ~Begun(c) => t.op = "cur" /\ (Job(c).dir = D2H => Computed(c))
  PROVE  OrderInv'
  <1>1. Later BY GpuFacts DEF Later, OrderTypes
  <1>2. PICK d \in Dirs : d = Job(c).dir BY GpuFacts
  <1>3. queue' = [queue EXCEPT ![d] = Append(@, t)] BY <1>2 DEF Push
  <1>4. TaskOk(d, t)'
    <2>1. Job(c)' = Job(c) BY <1>1, LaterFacts
    <2> QED BY <1>2, <2>1 DEF TaskOk
  <1>5. QueueIs' BY <1>1, <1>3, <1>4, PartsNow, PushedQueue
  <1>6. CallIs' BY <1>1, <1>3, PartsNow, PushedCall
  <1>7. StreamIs' /\ HwIs' BY <1>1, PartsNow, SameStream, SameHw
  <1>8. RestIs' BY PartsNow DEF RestIs
  <1>9. ASSUME NEW b \in Ctxs, Follows(b), Begun(b)', ~Begun(b)
        PROVE  t.op = "cur" /\ b = t.c /\ (Job(b).dir = D2H => Computed(b))
    BY <1>9
  <1>10. t.c \in Ctxs /\ Job(t.c).dir = d /\ (t.op = "copy" => Begun(t.c)) BY <1>2
  <1>11. Synced' /\ QueueOrder' /\ StreamOrder' /\ AfterCompute'
    BY <1>1, <1>3, <1>9, <1>10, OrderPush
  <1> QED BY <1>1, <1>5, <1>6, <1>7, <1>8, <1>11, OrderParts

LEMMA OrderIssue ==
  ASSUME TicketInv, OrderInv, Gpu, NEW c \in Ctxs,
         XferWaitCurStream(c) \/ XferChunksBatch(c) \/ XferFinish(c)
  PROVE  OrderInv'
  <1>1. DOMAIN ctx = Ctxs /\ \A b \in Ctxs : DOMAIN ctx[b] = CtxFields
    BY DEF TicketInv, TicketTypes
  <1>2. UNCHANGED <<proc, stream, landed, rdma, call, hw, curDone>>
    BY DEF XferWaitCurStream, XferChunksBatch, XferFinish, deviceVars, dsaVars, engineVars, slotVars
  <1>3. TodoOk(c) /\ \A b \in Ctxs : TodoOk(b) BY PartsNow
  <1>4. CASE XferWaitCurStream(c)
    <2>1. /\ ctx[c].at = "sync" /\ CurSynced(c) /\ ctx' = [ctx EXCEPT ![c].at = "issue"]
          /\ Push(c, [op |-> "cur", c |-> c])
      BY <1>4 DEF XferWaitCurStream
    <2>2. /\ Begun(c)' /\ ~Begun(c) /\ \A b \in Ctxs : b # c => (Begun(b)' <=> Begun(b))
      BY <1>1, <2>1 DEF Begun, CtxFields
    <2>3. \A b \in Ctxs : TodoOk(b)' BY <1>1, <1>3, <2>1 DEF TodoOk, CtxFields
    <2>4. Job(c).dir = D2H => Computed(c) BY <2>1 DEF CurSynced, Computed
    <2>5. PICK t : t = [op |-> "cur", c |-> c] OBVIOUS
    <2>6. t.op = "cur" /\ t.c = c /\ Push(c, t) BY <2>1, <2>5
    <2> QED BY <1>2, <2>2, <2>3, <2>4, <2>6, OrderCall
  <1>5. CASE XferChunksBatch(c)
    <2>1. PICK xs : xs = Head(ctx[c].todo) OBVIOUS
    <2>2. PICK t : t = [op |-> "copy", c |-> c, xs |-> xs] OBVIOUS
    <2>3. t.op = "copy" /\ t.c = c /\ t.xs = xs BY <2>2
    <2>4. /\ ctx[c].at = "issue" /\ ctx[c].todo # <<>>
          /\ ctx' = [ctx EXCEPT ![c].todo = Tail(@)] /\ Push(c, t)
      BY <1>5, <2>1, <2>2 DEF XferChunksBatch
    <2>5. PICK s : s = ctx[c].todo OBVIOUS
    <2>6. IsSeq(s) /\ s # <<>> /\ \A i \in 1..Len(s) : Len(s[i]) \in Nat \ {0}
      BY <1>3, <2>4, <2>5 DEF TodoOk
    <2>7. PICK n \in Nat : n = Len(s) BY <2>6 DEF IsSeq
    <2>8. /\ IsSeq(Tail(s)) /\ n > 0 /\ Len(Tail(s)) = n - 1 /\ Head(s) = s[1]
          /\ \A i \in 1..(n - 1) : Tail(s)[i] = s[i + 1]
      BY <2>6, <2>7, SeqRest
    <2>9. Len(xs) \in Nat \ {0}
      <3>1. 1 \in 1..Len(s) /\ xs = s[1] BY <2>1, <2>5, <2>7, <2>8
      <3> QED BY <2>6, <3>1
    <2>10. \A b \in Ctxs : Begun(b)' <=> Begun(b) BY <1>1, <2>4 DEF Begun, CtxFields
    <2>11. Begun(c) BY <2>4 DEF Begun
    <2>12. ASSUME NEW b \in Ctxs PROVE TodoOk(b)'
      <3>1. CASE b = c
        <4>1. ctx'[b].todo = Tail(s) BY <1>1, <2>4, <2>5, <3>1 DEF CtxFields
        <4>2. ASSUME NEW i \in 1..(n - 1) PROVE Len(Tail(s)[i]) \in Nat \ {0}
          <5>1. i + 1 \in 1..Len(s) /\ Tail(s)[i] = s[i + 1] BY <2>7, <2>8
          <5> QED BY <2>6, <5>1
        <4> QED BY <2>8, <4>1, <4>2 DEF TodoOk
      <3>2. CASE b # c BY <1>1, <1>3, <2>4, <3>2 DEF TodoOk
      <3> QED BY <3>1, <3>2
    <2> QED BY <1>2, <2>3, <2>4, <2>9, <2>10, <2>11, <2>12, OrderCall
  <1>6. CASE XferFinish(c)
    <2>1. PICK t : t = [op |-> "finish", c |-> c] OBVIOUS
    <2>2. /\ ctx[c].at = "issue" /\ ctx' = [ctx EXCEPT ![c].at = "issued"] /\ Push(c, t)
      BY <1>6, <2>1 DEF XferFinish
    <2>3. t.op = "finish" /\ t.c = c BY <2>1
    <2>4. Begun(c) /\ Begun(c)' /\ \A b \in Ctxs : b # c => (Begun(b)' <=> Begun(b))
      BY <1>1, <2>2 DEF Begun, CtxFields
    <2>5. \A b \in Ctxs : TodoOk(b)' BY <1>1, <1>3, <2>2 DEF TodoOk, CtxFields
    <2> QED BY <1>2, <2>2, <2>3, <2>4, <2>5, OrderCall
  <1> QED BY <1>4, <1>5, <1>6

LEMMA FirstTask ==
  ASSUME OrderInv, Gpu, NEW d \in Dirs, queue[d] # <<>>
  PROVE  /\ Head(queue[d]) = queue[d][1] /\ TaskOk(d, Head(queue[d]))
         /\ StreamOf(Head(queue[d]).c) \in Dirs \cup Ctxs
  <1>1. IsSeq(queue[d]) BY GpuFacts
  <1>2. PICK t : t = Head(queue[d]) OBVIOUS
  <1>3. t = queue[d][1] /\ 1 \in 1..Len(queue[d])
    <2>1. Len(queue[d]) > 0 /\ Len(queue[d]) \in Nat /\ t = queue[d][1] BY <1>1, <1>2, SeqRest DEF IsSeq
    <2> QED BY <2>1
  <1>4. TaskOk(d, t) BY <1>3, GpuFacts DEF Belongs
  <1>5. StreamOf(t.c) \in Dirs \cup Ctxs BY <1>4 DEF TaskOk, StreamOf
  <1> QED BY <1>2, <1>3, <1>4, <1>5

\* A worker takes its first task and puts an item on a stream.
LEMMA OrderTask ==
  ASSUME OrderInv, Gpu, NEW d \in Dirs, queue[d] # <<>>, NEW t, t = Head(queue[d]), Pop(d),
         NEW item, OnStream(StreamOf(t.c), item), call[d] = None, CtxSame,
         UNCHANGED <<proc, landed, rdma, call, hw, curDone>>,
         t.op = "cur" => item = CurItem(t.c),
         item.op = "copy" => t.op = "copy" /\ item.c = t.c
  PROVE  OrderInv'
  <1>1. Later BY SameLater
  <1>2. queue' = [queue EXCEPT ![d] = Tail(@)] BY DEF Pop
  <1>3. stream' = [stream EXCEPT ![StreamOf(t.c)] = Append(@, item)] BY DEF OnStream
  <1>4. PICK y \in Dirs \cup Ctxs : y = StreamOf(t.c) BY FirstTask
  <1>5. TaskOk(d, t) BY FirstTask
  <1>6. ItemOk(y, item)'
    <2>1. ItemOk(y, item) BY <1>4, <1>5 DEF ItemOk, TaskOk
    <2> QED BY <1>1, <2>1, ElementsStay
  <1>7. QueueIs' BY <1>1, <1>2, PartsNow, PoppedQueue
  <1>8. StreamIs' BY <1>1, <1>3, <1>4, <1>6, PartsNow, PushedStream
  <1>9. CallIs' BY <1>1, <1>2, PartsNow, PoppedCall
  <1>10. HwIs' BY <1>1, PartsNow, SameHw
  <1>11. RestIs' BY PartsNow DEF RestIs
  <1>12. \A c \in Ctxs : TodoOk(c)' BY PartsNow DEF CtxSame
  <1>13. \A c \in Ctxs : Begun(c)' => Begun(c) BY DEF CtxSame
  <1>14. Synced' /\ QueueOrder' /\ StreamOrder' /\ AfterCompute'
    BY <1>1, <1>2, <1>3, <1>13, OrderHop
  <1> QED BY <1>1, <1>7, <1>8, <1>9, <1>10, <1>11, <1>12, <1>14, OrderParts

\* No call of a worker: it is not at a copy, has no engine, or nobody has the mutex.
LEMMA NoCall ==
  ASSUME TicketInv, OrderInv, Gpu, NEW d \in Dirs,
         ~HeadIs(d, "copy") \/ ~proc.dsa \/ holder = None
  PROVE  call[d] = None
  <1>1. CallOk(d) BY PartsNow DEF CallIs
  <1>2. CallOf(d) BY DEF TicketInv
  <1>3. d # None BY DsaConstants, XferConstants
  <1> QED BY <1>1, <1>2, <1>3 DEF CallOk, CallOf, HeadIs

\* The entries of a call are its context's.
LEMMA EntriesOf ==
  ASSUME NEW c, NEW xs, NEW b, Len(xs) \in Nat \ {0}, Pool(c).outer \in Nat \ {0}
  PROVE  \E S : /\ Entries(c, xs, b) \in Seq(S) /\ Len(Entries(c, xs, b)) > 0
                /\ \A k \in 1..Len(Entries(c, xs, b)) : Entries(c, xs, b)[k].c = c
  <1>1. PICK n \in Nat : n = Len(xs) * Pool(c).outer /\ n > 0
    <2>1. PICK x \in Nat \ {0} : x = Len(xs) OBVIOUS
    <2>2. PICK y \in Nat \ {0} : y = Pool(c).outer OBVIOUS
    <2>3. x * y \in Nat /\ x * y > 0 OBVIOUS
    <2> QED BY <2>1, <2>2, <2>3
  <1>2. PICK E : E = Entries(c, xs, b) OBVIOUS
  <1>3. DOMAIN E = 1..n /\ E = [k \in 1..n |-> E[k]] BY <1>1, <1>2 DEF Entries
  <1>4. \A k \in 1..n : E[k].c = c BY <1>1, <1>2 DEF Entries
  <1>5. PICK S : S = {E[k] : k \in 1..n} OBVIOUS
  <1>6. E \in [1..n -> S] BY <1>3, <1>5
  <1>7. E \in Seq(S) /\ Len(E) = n BY <1>6
  <1> QED BY <1>1, <1>2, <1>4, <1>7

\* The worker begins a call of the engine.
LEMMA OrderBegin ==
  ASSUME TicketInv, OrderInv, Gpu, NEW d \in Dirs, HeadIs(d, "copy"), proc.dsa,
         NEW c, c = Head(queue[d]).c, NEW xs, xs = Head(queue[d]).xs,
         NEW b, AsyncBegin(d, Entries(c, xs, b)),
         UNCHANGED <<proc, queue, stream, landed, rdma, ctx, curDone>>
  PROVE  OrderInv'
  <1>1. CtxSame BY DEF CtxSame, Begun, TodoOk
  <1>2. Later BY <1>1, SameLater
  <1>3. queue[d] # <<>> /\ Head(queue[d]).op = "copy" BY DEF HeadIs
  <1>4. c \in Ctxs /\ Begun(c) /\ Len(xs) \in Nat \ {0} BY <1>3, FirstTask DEF TaskOk
  <1>5. Pool(c).outer \in Nat \ {0} BY <1>4, GpuFacts
  <1>6. PICK E : E = Entries(c, xs, b) OBVIOUS
  <1>7. PICK S : E \in Seq(S) /\ Len(E) > 0 /\ \A k \in 1..Len(E) : E[k].c = c
    BY <1>4, <1>5, <1>6, EntriesOf
  <1>8. PICK B : B = Batches(E) OBVIOUS
  <1>9. /\ IsSeq(B) /\ Len(B) > 0
        /\ \A i \in 1..Len(B) : \E k \in 1..Len(E) : B[i][1] = E[k]
    BY <1>7, <1>8, BatchesStart
  <1>10. \A i \in 1..Len(B) : BatchOk(B[i]) BY <1>4, <1>7, <1>9 DEF BatchOk
  <1>11. /\ call' = [call EXCEPT ![d] = [ticket |-> lastTicket + 1, todo |-> B]]
         /\ UNCHANGED hw
    BY <1>6, <1>8 DEF AsyncBegin, slotVars
  <1>12. DOMAIN call = Dirs BY XferConstants DEF TicketInv, TicketTypes
  <1>13. call'[d].todo = B /\ \A e \in Dirs : e # d => call'[e] = call[e] BY <1>11, <1>12
  <1>14. ASSUME NEW e \in Dirs PROVE CallOk(e)'
    <2>1. CASE e = d
      <3>1. \A i \in 1..Len(B) : BatchOk(B[i])' BY <1>2, <1>10, ElementsStay
      <3> QED BY <1>3, <1>9, <1>13, <2>1, <3>1 DEF CallOk
    <2>2. CASE e # d
      <3>1. CallOk(e) /\ call'[e] = call[e] BY <1>13, <2>2, PartsNow DEF CallIs
      <3> QED BY <1>2, <3>1, ElementsStay DEF CallOk
    <2> QED BY <2>1, <2>2
  <1>15. CallIs' BY <1>14 DEF CallIs
  <1>16. QueueIs' /\ StreamIs' /\ HwIs' BY <1>2, <1>11, PartsNow, SameQueue, SameStream, SameHw
  <1>17. RestIs' BY PartsNow DEF RestIs
  <1>18. \A a \in Ctxs : TodoOk(a)' BY <1>1, PartsNow DEF CtxSame
  <1>19. Synced' /\ QueueOrder' /\ StreamOrder' /\ AfterCompute' BY <1>1, <1>2, OrderSame DEF CtxSame
  <1> QED BY <1>2, <1>15, <1>16, <1>17, <1>18, <1>19, OrderParts

\* A batch of the call goes out; after the last one the task is done.
LEMMA OrderSubmit ==
  ASSUME TicketInv, OrderInv, Gpu, NEW d \in Dirs, RunDsaSubmit(d)
  PROVE  OrderInv'
  <1>1. SubmitSlot(d) /\ call[d] # None BY DEF RunDsaSubmit, SubmitSlot
  <1>2. PICK td : td = call[d].todo OBVIOUS
  <1>3. /\ CallOk(d) /\ proc.dsa /\ queue[d] # <<>> /\ Head(queue[d]).op = "copy" /\ IsSeq(td)
        /\ Len(td) > 0 /\ \A i \in 1..Len(td) : BatchOk(td[i])
    BY <1>1, <1>2, PartsNow DEF CallIs, CallOk
  <1>4. PICK n \in Nat : n = Len(td) BY <1>3 DEF IsSeq
  <1>5. td # <<>> BY <1>3, SeqNonEmpty
  <1>6. /\ IsSeq(Tail(td)) /\ Len(Tail(td)) = n - 1 /\ Head(td) = td[1]
        /\ \A i \in 1..(n - 1) : Tail(td)[i] = td[i + 1]
    BY <1>3, <1>4, <1>5, SeqRest
  <1>7. BatchOk(Head(td)) /\ \A i \in 1..(n - 1) : BatchOk(Tail(td)[i])
    <2>1. 1 \in 1..n /\ \A i \in 1..(n - 1) : i + 1 \in 1..n BY <1>3, <1>4
    <2> QED BY <1>3, <1>4, <1>6, <2>1
  <1>8. PICK s : /\ hw' = [hw EXCEPT ![s] = [ticket |-> call[d].ticket, work |-> Head(td)]]
                 /\ call' = [call EXCEPT ![d] = IF Len(@.todo) = 1 THEN None
                                                ELSE [call[d] EXCEPT !.todo = Tail(@)]]
    BY <1>1, <1>2 DEF SubmitSlot, SubmitBatch
  <1>9. DOMAIN call = Dirs /\ DOMAIN hw = Slots /\ DOMAIN call[d] = {"ticket", "todo"}
    BY <1>1, XferConstants DEF TicketInv, TicketTypes, CallOf
  <1>10. UNCHANGED <<proc, stream, landed, rdma, curDone>> BY DEF RunDsaSubmit, deviceVars
  <1>11. CtxSame
    <2>1. CASE UNCHANGED ctx BY <2>1 DEF CtxSame, Begun, TodoOk
    <2>2. CASE ctx' = [ctx EXCEPT ![Head(queue[d]).c].ticket = call[d].ticket]
      <3>1. PICK c \in Ctxs : c = Head(queue[d]).c BY <1>3, FirstTask DEF TaskOk
      <3> QED BY <2>2, <3>1, CtxStays
    <2> QED BY <2>1, <2>2 DEF RunDsaSubmit
  <1>12. Later BY <1>10, <1>11, SameLater
  <1>13. \A e \in Dirs : e # d => call'[e] = call[e] BY <1>8, <1>9
  <1>14. call'[d] # None => n # 1 /\ call'[d].todo = Tail(td) BY <1>2, <1>4, <1>8, <1>9
  <1>15. \/ call'[d] = None /\ queue' = [queue EXCEPT ![d] = Tail(@)]
         \/ call'[d] # None /\ UNCHANGED queue
    BY DEF RunDsaSubmit, Pop
  <1>16. QueueIs' BY <1>3, <1>12, <1>15, PartsNow, SameQueue, PoppedQueue
  <1>17. ASSUME NEW e \in Dirs PROVE CallOk(e)'
    <2>1. CASE e = d
      <3>1. CASE call'[d] = None BY <2>1, <3>1 DEF CallOk
      <3>2. CASE call'[d] # None
        <4>1. queue' = queue /\ n # 1 /\ call'[d].todo = Tail(td) BY <1>14, <1>15, <3>2
        <4>2. Len(Tail(td)) > 0 BY <1>3, <1>4, <1>6, <4>1
        <4>3. \A i \in 1..Len(Tail(td)) : BatchOk(Tail(td)[i])' BY <1>6, <1>7, <1>12, ElementsStay
        <4> QED BY <1>3, <1>6, <1>10, <2>1, <4>1, <4>2, <4>3 DEF CallOk
      <3> QED BY <3>1, <3>2
    <2>2. CASE e # d
      <3>1. CallOk(e) /\ call'[e] = call[e] BY <1>13, <2>2, PartsNow DEF CallIs
      <3>2. queue'[e] = queue[e] BY <1>15, <2>2, PartsNow DEF QueueIs
      <3> QED BY <1>10, <1>12, <3>1, <3>2, ElementsStay DEF CallOk
    <2> QED BY <2>1, <2>2
  <1>18. CallIs' BY <1>17 DEF CallIs
  <1>19. ASSUME NEW r \in Slots PROVE HwOk(r)'
    <2>1. CASE r = s
      <3>1. hw'[r].work = Head(td) BY <1>8, <1>9, <2>1
      <3>2. BatchOk(Head(td))' BY <1>7, <1>12, ElementsStay
      <3> QED BY <1>3, <1>10, <3>1, <3>2 DEF HwOk
    <2>2. CASE r # s
      <3>1. HwOk(r) /\ hw'[r] = hw[r] BY <1>8, <1>9, <2>2, PartsNow DEF HwIs
      <3> QED BY <1>10, <1>12, <3>1, ElementsStay DEF HwOk
    <2> QED BY <2>1, <2>2
  <1>20. HwIs' BY <1>19 DEF HwIs
  <1>21. StreamIs' BY <1>10, <1>12, PartsNow, SameStream
  <1>22. RestIs' BY <1>10, PartsNow DEF RestIs
  <1>23. \A a \in Ctxs : TodoOk(a)' BY <1>11, PartsNow DEF CtxSame
  <1>24. Grows /\ StreamOrder' /\ AfterCompute' BY <1>10, <1>12, StreamOrderStays, AfterComputeStays
  <1>25. Synced' /\ QueueOrder'
    <2>1. CASE UNCHANGED queue BY <1>10, <1>11, <1>12, <2>1, OrderSame DEF CtxSame
    <2>2. CASE queue' = [queue EXCEPT ![d] = Tail(@)]
      <3>1. ASSUME NEW c \in Ctxs, d = H2D, CurTask(1, c) PROVE Started(c)'
        BY <1>3, <3>1, FirstTask DEF CurTask
      <3>2. \A c \in Ctxs : Begun(c)' => Begun(c) BY <1>11 DEF CtxSame
      <3> QED BY <1>3, <1>12, <1>24, <2>2, <3>1, <3>2, OrderPop
    <2> QED BY <1>15, <2>1, <2>2
  <1> QED BY <1>12, <1>16, <1>18, <1>20, <1>21, <1>22, <1>23, <1>24, <1>25, OrderParts

LEMMA OrderItem ==
  ASSUME TicketInv, OrderInv, Gpu, NEW x \in Dirs \cup Ctxs, StreamStep(x)
  PROVE  OrderInv'
  <1>1. UNCHANGED <<proc, ctx, queue, rdma, curDone, call, hw>>
    BY DEF StreamStep, dsaVars, engineVars, slotVars
  <1>2. CtxSame BY <1>1 DEF CtxSame, Begun, TodoOk
  <1>3. Later BY <1>1, <1>2, SameLater
  <1>4. stream[x] # <<>> /\ stream' = [stream EXCEPT ![x] = Tail(@)] BY DEF StreamStep
  <1>5. QueueIs' /\ CallIs' /\ HwIs' BY <1>1, <1>3, PartsNow, SameQueue, SameCall, SameHw
  <1>6. StreamIs' BY <1>3, <1>4, PartsNow, PoppedStream
  <1>7. DOMAIN landed' = DOMAIN landed BY DEF StreamStep
  <1>8. RestIs' BY <1>1, <1>7, PartsNow DEF RestIs
  <1>9. \A a \in Ctxs : TodoOk(a)' BY <1>2, PartsNow DEF CtxSame
  <1>10. Synced' /\ QueueOrder' /\ StreamOrder' /\ AfterCompute' BY <1>1, OrderStream
  <1> QED BY <1>3, <1>5, <1>6, <1>8, <1>9, <1>10, OrderParts

\* The engine finishes a batch: its context has begun.
LEMMA OrderBatch ==
  ASSUME TicketInv, OrderInv, Gpu, NEW s \in Slots, NEW ok, DsaStep(s, ok)
  PROVE  OrderInv'
  <1>1. UNCHANGED <<proc, ctx, queue, stream, rdma, curDone, call>> BY DEF DsaStep, HwDone
  <1>2. CtxSame BY <1>1 DEF CtxSame, Begun, TodoOk
  <1>3. Later BY <1>1, <1>2, SameLater
  <1>4. hw[s] # None /\ hw' = [hw EXCEPT ![s] = None] BY DEF DsaStep, HwDone
  <1>5. PICK c : c = hw[s].work[1].c OBVIOUS
  <1>6. proc.dsa /\ c \in Ctxs /\ Begun(c) BY <1>4, <1>5, PartsNow DEF HwIs, HwOk, BatchOk
  <1>7. \E R : landed' = [landed EXCEPT ![c] = @ \cup R] \/ landed' = landed
    BY <1>5, Zenon DEF DsaStep
  <1>8. QueueIs' /\ StreamIs' /\ CallIs' BY <1>1, <1>3, PartsNow, SameQueue, SameStream, SameCall
  <1>9. ASSUME NEW r \in Slots PROVE HwOk(r)'
    <2>1. DOMAIN hw = Slots BY DEF TicketInv, TicketTypes
    <2>2. hw'[r] = None \/ hw'[r] = hw[r] BY <1>4, <2>1
    <2>3. HwOk(r) BY PartsNow DEF HwIs
    <2> QED BY <1>1, <1>3, <2>2, <2>3, ElementsStay DEF HwOk
  <1>10. HwIs' BY <1>9 DEF HwIs
  <1>11. DOMAIN landed = Ctxs /\ DOMAIN landed' = Ctxs BY <1>7, PartsNow DEF RestIs
  <1>12. RestIs' BY <1>1, <1>11, PartsNow DEF RestIs
  <1>13. \A a \in Ctxs : TodoOk(a)' BY <1>2, PartsNow DEF CtxSame
  <1>14. ASSUME NEW a \in Ctxs, (landed[a] # {} /\ Gpu /\ Job(a).owner = "flow"
                                 /\ (Job(a).dir = D2H \/ (proc.syncGet /\ ~proc.dsa)))'
         PROVE  (curDone >= Job(a).group)'
    <2>1. Job(a)' = Job(a) /\ proc' = proc BY <1>1, <1>3, LaterFacts
    <2>2. Job(a).owner = "flow" /\ Job(a).dir = D2H BY <1>6, <1>14, <2>1
    <2>3. CASE a = c
      <3>1. Computed(a) BY <1>6, <2>2, <2>3, GpuFacts DEF Synced, Follows
      <3> QED BY <1>1, <2>1, <3>1 DEF Computed
    <2>4. CASE a # c
      <3>1. landed'[a] = landed[a] BY <1>7, <1>11, <2>4
      <3> QED BY <1>1, <1>14, <2>1, <2>2, <3>1, GpuFacts DEF AfterCompute, Ordered
    <2> QED BY <2>3, <2>4
  <1>15. AfterCompute' BY <1>14 DEF AfterCompute, Ordered
  <1>16. Grows /\ StreamOrder' BY <1>1, <1>3, StreamOrderStays
  <1>17. Synced' /\ QueueOrder'
    <2>1. \A a : Job(a)' = Job(a) /\ (Follows(a)' <=> Follows(a)) BY <1>3, LaterFacts
    <2>2. \A a : (Computed(a)' <=> Computed(a)) BY <1>1, <2>1 DEF Computed
    <2>3. \A a : (Started(a)' <=> Started(a)) BY <1>1, <2>1, <2>2 DEF Started, StreamCur, CurOn
    <2>4. \A n, a : (QueuedCur(n, a)' <=> QueuedCur(n, a)) BY <1>1, <2>1 DEF QueuedCur, CurTask
    <2>5. Synced' BY <1>1, <1>2, <2>1, <2>2, <2>3, <2>4, GpuFacts DEF Synced, CtxSame
    <2>6. QueueOrder' BY <1>1, <2>1, <2>3, <2>4, GpuFacts DEF QueueOrder
    <2> QED BY <2>5, <2>6
  <1> QED BY <1>3, <1>8, <1>10, <1>12, <1>13, <1>15, <1>16, <1>17, OrderParts

LEMMA OrderWorker ==
  ASSUME TicketInv, OrderInv, Gpu, NEW d \in Dirs, Worker(d)
  PROVE  OrderInv'
  <1>1. PICK t : t = Head(queue[d]) OBVIOUS
  <1>2. ASSUME queue[d] # <<>> PROVE t.c \in Ctxs BY <1>1, <1>2, FirstTask DEF TaskOk
  <1>3. UNCHANGED ctx => CtxSame BY DEF CtxSame, Begun, TodoOk
  <1>4. CASE RunCur(d)
    <2>1. /\ queue[d] # <<>> /\ t.op = "cur" /\ Pop(d) /\ OnStream(StreamOf(t.c), CurItem(t.c))
          /\ UNCHANGED <<proc, landed, rdma, call, hw, curDone, ctx>>
      BY <1>1, <1>4 DEF RunCur, HeadIs, dsaVars, engineVars, slotVars
    <2>2. call[d] = None BY <1>1, <2>1, NoCall DEF HeadIs
    <2>3. PICK item : item = CurItem(t.c) OBVIOUS
    <2>4. item.op = "cur" BY <2>3 DEF CurItem
    <2> QED BY <1>1, <1>3, <2>1, <2>2, <2>3, <2>4, OrderTask
  <1>5. CASE RunFinish(d)
    <2>1. PICK item : item = EventItem(ctx[t.c].ev) OBVIOUS
    <2>2. /\ queue[d] # <<>> /\ t.op = "finish" /\ Pop(d) /\ OnStream(StreamOf(t.c), item)
          /\ ctx' = [ctx EXCEPT ![t.c].fut = TRUE]
          /\ UNCHANGED <<proc, landed, rdma, call, hw, curDone>>
      BY <1>1, <1>5, <2>1 DEF RunFinish, HeadIs, dsaVars, engineVars, slotVars
    <2>3. call[d] = None BY <1>1, <2>2, NoCall DEF HeadIs
    <2>4. item.op = "event" BY <2>1 DEF EventItem
    <2>5. CtxSame BY <1>2, <2>2, CtxStays
    <2> QED BY <1>1, <2>2, <2>3, <2>4, <2>5, OrderTask
  <1>6. ASSUME HeadIs(d, "copy"), StreamCopy(t.c, t.xs), Pop(d), call[d] = None,
               UNCHANGED <<proc, landed, rdma, call, hw, curDone, ctx>>
        PROVE  OrderInv'
    <2>1. PICK item : /\ item = [op |-> "copy", c |-> t.c, rows |-> StreamRows(Pool(t.c), CpuPool(t.c), t.xs)]
                      /\ OnStream(StreamOf(t.c), item)
      BY <1>6 DEF StreamCopy
    <2>2. item.c = t.c BY <2>1
    <2>3. queue[d] # <<>> /\ t.op = "copy" BY <1>1, <1>6 DEF HeadIs
    <2> QED BY <1>1, <1>3, <1>6, <2>1, <2>2, <2>3, OrderTask
  <1>7. CASE RunCopyStream(d)
    <2>1. /\ HeadIs(d, "copy") /\ StreamCopy(t.c, t.xs) /\ Pop(d) /\ (proc.dsa => holder = None)
          /\ UNCHANGED <<proc, landed, rdma, call, hw, curDone, ctx>>
      BY <1>1, <1>7 DEF RunCopyStream, dsaVars, engineVars, slotVars
    <2>2. call[d] = None BY <2>1, NoCall
    <2> QED BY <1>6, <2>1, <2>2
  <1>8. ASSUME NEW ok \in May("pin"), RunCopyDsa(d, ok) PROVE OrderInv'
    <2>1. /\ HeadIs(d, "copy") /\ ~DsaRefuses(t.c) /\ holder = None
          /\ UNCHANGED <<proc, landed, rdma, curDone>>
      BY <1>1, <1>8 DEF RunCopyDsa
    <2>2. \/ StreamCopy(t.c, t.xs) /\ Pop(d) /\ UNCHANGED <<dsaVars, ctx>>
          \/ StreamCopy(t.c, t.xs) /\ Pop(d) /\ UNCHANGED <<engineVars, holder, ctx>>
          \/ /\ \E b : AsyncBegin(d, Entries(t.c, t.xs, b))
             /\ UNCHANGED <<queue, stream>> /\ UNCHANGED ctx
      BY <1>1, <1>8, ZenonT(30) DEF RunCopyDsa
    <2>3. call[d] = None BY <2>1, NoCall
    <2>4. CASE StreamCopy(t.c, t.xs) /\ Pop(d) /\ UNCHANGED <<engineVars, ctx>>
      BY <1>6, <2>1, <2>3, <2>4 DEF engineVars, slotVars
    <2>5. ASSUME NEW b, AsyncBegin(d, Entries(t.c, t.xs, b)), UNCHANGED <<queue, stream, ctx>>
          PROVE  OrderInv'
      <3>1. proc.dsa BY <2>1 DEF DsaRefuses
      <3>2. PICK c : c = Head(queue[d]).c OBVIOUS
      <3>3. PICK xs : xs = Head(queue[d]).xs OBVIOUS
      <3>4. AsyncBegin(d, Entries(c, xs, b)) BY <1>1, <2>5, <3>2, <3>3
      <3> QED BY <2>1, <2>5, <3>1, <3>2, <3>3, <3>4, OrderBegin
    <2> QED BY <2>2, <2>4, <2>5 DEF dsaVars
  <1>9. CASE RunDsaSubmit(d) BY <1>9, OrderSubmit
  <1>10. ~RunRdmaPost(d) /\ ~RunCopyCpu(d) BY DEF RunRdmaPost, RunCopyCpu, Remote, Gpu
  <1>11. \A ok : ~RunRdmaDone(d, ok) BY PartsNow DEF RunRdmaDone, RestIs
  <1> QED BY <1>4, <1>5, <1>7, <1>8, <1>9, <1>10, <1>11 DEF Worker

LEMMA OrderInit == Init => OrderInv
  <1> SUFFICES ASSUME Init PROVE OrderInv OBVIOUS
  <1>1. proc \in Procs BY DEF Init
  <1>2. ASSUME Gpu PROVE Belongs /\ Synced /\ QueueOrder /\ StreamOrder /\ AfterCompute
    <2>1. IsSeq(<<>>) /\ Len(<<>>) = 0 BY DEF IsSeq
    <2>2. QueueIs /\ StreamIs /\ RestIs BY <2>1 DEF Init, QueueIs, StreamIs, RestIs
    <2>3. CallIs /\ HwIs
      BY XferConstants DEF Init, DsaInit, CallIs, CallOk, HwIs, HwOk
    <2>4. \A c \in Ctxs : TodoOk(c) /\ ~Begun(c) BY <2>1 DEF Init, New, TodoOk, Begun
    <2>5. Belongs BY <2>2, <2>3, <2>4, BelongsParts
    <2>6. Synced BY <2>4 DEF Synced
    <2>7. QueueOrder /\ StreamOrder BY <2>1 DEF Init, Dirs, QueueOrder, StreamOrder
    <2>8. AfterCompute BY DEF Init, AfterCompute
    <2> QED BY <2>5, <2>6, <2>7, <2>8
  <1> QED BY <1>1, <1>2 DEF OrderInv

LEMMA ProcStays == [Next]_vars => proc' = proc
  <1> SUFFICES ASSUME [Next]_vars PROVE proc' = proc OBVIOUS
  <1>1. CASE UNCHANGED vars BY <1>1 DEF vars, xferVars
  <1>2. CASE RdmaInit \/ \E n \in DOMAIN proc.pools : RegisterPool(n) \/ UnregisterPool(n)
    BY <1>2 DEF RdmaInit, RegisterPool, UnregisterPool
  <1>3. ASSUME NEW c, Caller(c) PROVE proc' = proc
    BY <1>3 DEF Caller, FlowCreate, CopierCreate, Create, XferWaitCurStream, XferChunksBatch, XferFinish
  <1>4. ASSUME NEW c, Waiter(c) \/ Destroy(c) PROVE proc' = proc
    BY <1>4 DEF Waiter, WaitFuture, DsaWaitStep, DsaWaited, EventWait, ResetDone, Destroy, xferVars
  <1>5. ASSUME NEW d, Worker(d) PROVE proc' = proc
    <2>1. ASSUME NEW ok, RunCopyDsa(d, ok) PROVE proc' = proc BY <2>1, Zenon DEF RunCopyDsa
    <2>2. ASSUME NEW ok, RunRdmaDone(d, ok) PROVE proc' = proc BY <2>2, Zenon DEF RunRdmaDone
    <2>3. CASE RunCur(d) \/ RunFinish(d) \/ RunCopyStream(d) \/ RunDsaSubmit(d)
      BY <2>3 DEF RunCur, RunFinish, RunCopyStream, RunDsaSubmit
    <2>4. CASE RunRdmaPost(d) \/ RunCopyCpu(d) BY <2>4 DEF RunRdmaPost, RunCopyCpu
    <2> QED BY <1>5, <2>1, <2>2, <2>3, <2>4 DEF Worker
  <1>6. CASE Device BY <1>6 DEF Device, CurStep, StreamStep, DsaStep
  <1> QED BY <1>1, <1>2, <1>3, <1>4, <1>5, <1>6 DEF Next

LEMMA OrderStep == TicketInv /\ OrderInv /\ [Next]_vars => OrderInv'
  <1> SUFFICES ASSUME TicketInv, OrderInv, [Next]_vars PROVE OrderInv' OBVIOUS
  <1>1. CASE ~Gpu
    <2>1. proc' = proc BY ProcStays
    <2> QED BY <1>1, <2>1 DEF OrderInv, Gpu
  <1>2. CASE Gpu
    <2>0. curDone \in Nat /\ (UNCHANGED ctx => CtxSame)
      <3>1. curDone \in Nat BY <1>2, PartsNow DEF RestIs
      <3>2. UNCHANGED ctx => CtxSame BY DEF CtxSame, Begun, TodoOk
      <3> QED BY <3>1, <3>2
    <2>1. ASSUME UNCHANGED <<proc, queue, stream, landed, rdma, call, hw, curDone>>, CtxSame
          PROVE  OrderInv'
      BY <1>2, <2>0, <2>1, OrderQuiet
    <2>2. CASE UNCHANGED vars
      BY <2>0, <2>1, <2>2 DEF vars, xferVars, dsaVars, engineVars, slotVars
    <2>3. CASE RdmaInit \/ \E n \in DOMAIN proc.pools : RegisterPool(n) \/ UnregisterPool(n)
      <3>1. UNCHANGED <<proc, queue, stream, landed, rdma, call, hw, curDone, ctx>>
        BY <2>3 DEF RdmaInit, RegisterPool, UnregisterPool, deviceVars, dsaVars, engineVars, slotVars
      <3> QED BY <2>0, <2>1, <3>1
    <2>4. ASSUME NEW c \in Ctxs, Caller(c) PROVE OrderInv'
      <3>1. CASE FlowCreate(c)
        <4>1. /\ ctx[c].at = "new" /\ Create(c, inPools) /\ \A b \in Ctxs : b < c => Begun(b)
          BY <3>1 DEF FlowCreate, Begun
        <4> QED BY <1>2, <4>1, OrderCreate
      <3>2. CASE CopierCreate(c)
        <4>1. PICK names : Create(c, names) BY <3>2 DEF CopierCreate
        <4>2. ctx[c].at = "new" /\ Job(c).owner # "flow" BY <3>2 DEF CopierCreate
        <4> QED BY <1>2, <4>1, <4>2, OrderCreate
      <3>3. CASE XferWaitCurStream(c) \/ XferChunksBatch(c) \/ XferFinish(c)
        BY <1>2, <3>3, OrderIssue
      <3> QED BY <2>4, <3>1, <3>2, <3>3 DEF Caller
    <2>5. ASSUME NEW c \in Ctxs, NEW v, ctx' = [ctx EXCEPT ![c].at = v],
                 v \in {"dsa", "event", "ready", "gone", "reset"}, ctx[c].at \notin {"new", "sync"}
          PROVE  CtxSame
      BY <2>5, CtxStays DEF Begun
    <2>6. ASSUME NEW c \in Ctxs, Waiter(c) PROVE OrderInv'
      <3>1. CASE DsaWaitStep(c)
        <4>1. UNCHANGED <<proc, queue, stream, landed, rdma, call, hw, curDone, ctx>>
          BY <3>1 DEF DsaWaitStep, WaitLook, WaitPoll, xferVars, slotVars
        <4> QED BY <2>0, <2>1, <4>1
      <3>2. CASE ~DsaWaitStep(c)
        <4>1. UNCHANGED <<proc, queue, stream, landed, rdma, call, hw, curDone>>
          BY <2>6, <3>2 DEF Waiter, WaitFuture, DsaWaited, EventWait, ResetDone,
                            deviceVars, dsaVars, engineVars, slotVars
        <4>2. /\ ctx[c].at \notin {"new", "sync"}
              /\ \E v \in {"dsa", "event", "ready", "gone", "reset"} : ctx' = [ctx EXCEPT ![c].at = v]
          BY <2>6, <3>2 DEF Waiter, WaitFuture, DsaWaited, EventWait, ResetDone, Gone
        <4> QED BY <2>1, <2>5, <4>1, <4>2
      <3> QED BY <3>1, <3>2
    <2>7. ASSUME NEW c \in Ctxs, Destroy(c) PROVE OrderInv'
      <3>1. UNCHANGED <<proc, queue, stream, landed, rdma, call, hw, curDone>>
        BY <2>7 DEF Destroy, slotVars
      <3>2. /\ ctx[c].at \notin {"new", "sync"}
            /\ \E v \in {"dsa", "event", "ready", "gone", "reset"} : ctx' = [ctx EXCEPT ![c].at = v]
        BY <2>7 DEF Destroy, Gone
      <3> QED BY <2>1, <2>5, <3>1, <3>2
    <2>8. ASSUME NEW d \in Dirs, Worker(d) PROVE OrderInv' BY <1>2, <2>8, OrderWorker
    <2>9. CASE Device
      <3>1. CASE CurStep
        <4>1. UNCHANGED <<proc, queue, stream, landed, rdma, call, hw, ctx>> /\ curDone' = curDone + 1
          BY <3>1 DEF CurStep, dsaVars, engineVars, slotVars
        <4>2. curDone' \in Nat /\ curDone' >= curDone BY <2>0, <4>1
        <4> QED BY <1>2, <2>0, <4>1, <4>2, OrderQuiet
      <3>2. ASSUME NEW x \in Dirs \cup Ctxs, StreamStep(x) PROVE OrderInv' BY <1>2, <3>2, OrderItem
      <3>3. ASSUME NEW s \in Slots, NEW ok, DsaStep(s, ok) PROVE OrderInv' BY <1>2, <3>3, OrderBatch
      <3> QED BY <2>9, <3>1, <3>2, <3>3 DEF Device
    <2> QED BY <2>2, <2>3, <2>4, <2>6, <2>7, <2>8, <2>9 DEF Next
  <1> QED BY <1>1, <1>2

\* What a copy moves for KVFlow is computed: a put reads no block before the compute
\* stream has done the work its call was ordered behind, whichever layer's context
\* asked for it and however the workers, the streams and the engine interleave.  The
\* same of what a get overwrites, where IAXL_CACHE_STREAM_SYNC_ON_GET is set and the
\* copies go to the stream; it is not so of the other gets.
THEOREM CopiesFollowCompute == Spec => []AfterCompute
  <1>1. OrderInv => AfterCompute BY DEF OrderInv, AfterCompute, Ordered
  <1>2. Init => TicketInv /\ OrderInv BY TicketInit, OrderInit
  <1>3. TicketInv /\ OrderInv /\ [Next]_vars => (TicketInv /\ OrderInv)' BY TicketStep, OrderStep
  <1> QED BY <1>1, <1>2, <1>3, PTL DEF Spec

-----------------------------------------------------------------------------
(* Windows.  An entry of a batch reaches memory through a mapping; it is     *)
(* built from a lookup of the pool's first row, and the mappings may change   *)
(* while it is in flight.                                                   *)

\* The calls a context has to make.
CallSet(c) == {Job(c).calls[i] : i \in 1..Len(Job(c).calls)}

\* A mapping of the first n bytes of a pool.
MapOf(m) ==
  \E c \in Ctxs : \E n \in Nat :
    /\ n <= Pool(c).outer * Pool(c).outerSize
    /\ m.va = FirstPage(Pool(c)) /\ m.size = PagesFor(Pool(c), n)
    /\ m = [va |-> m.va, bar |-> m.bar, size |-> m.size] /\ m.bar \in Nat

\* A newer mapping at the same address is no shorter, and windows do not coincide.
MapsAre(ms, next) ==
  /\ IsSeq(ms) /\ next \in Nat
  /\ \A i \in 1..Len(ms) : MapOf(ms[i]) /\ ms[i].bar < next
  /\ \A i, j \in 1..Len(ms) : i < j =>
       ms[i].bar # ms[j].bar /\ (ms[i].va = ms[j].va => ms[i].size >= ms[j].size)

\* Entry e reaches a row it is wanted for.
Through(ms, e) ==
  \E i \in 1..Len(ms) :
    /\ ms[i].bar = e.bar /\ e.off \in Nat /\ e.off < ms[i].size
    /\ Row(ms[i].va + e.off, e.cpu) \in Wanted(e.c)

-----------------------------------------------------------------------------
LEMMA Pages ==
  ASSUME NEW x \in Nat, NEW n \in Nat \ {0}
  PROVE  /\ ((x + n - 1) \div n) * n \in Nat /\ x <= ((x + n - 1) \div n) * n
         /\ \A y \in Nat : x <= y => ((x + n - 1) \div n) * n <= ((y + n - 1) \div n) * n
  <1>1. PICK z \in Nat : z = x + n - 1 OBVIOUS
  <1>2. PICK q \in Nat : q = z \div n OBVIOUS
  <1>3. z < n * q + n BY <1>2
  <1>4. n * q = q * n /\ q * n \in Nat OBVIOUS
  <1>5. x <= q * n BY <1>1, <1>3, <1>4
  <1>6. ASSUME NEW y \in Nat, x <= y PROVE q * n <= ((y + n - 1) \div n) * n
    <2>1. PICK w \in Nat : w = y + n - 1 OBVIOUS
    <2>2. PICK r \in Nat : r = w \div n OBVIOUS
    <2>3. w < n * r + n /\ n * q <= z BY <1>2, <2>2
    <2>4. q <= r
      <3>1. SUFFICES ASSUME r + 1 <= q PROVE FALSE OBVIOUS
      <3>2. n * (r + 1) <= n * q BY <3>1
      <3>3. n * (r + 1) = n * r + n OBVIOUS
      <3> QED BY <1>1, <1>6, <2>1, <2>3, <3>2, <3>3
    <2>5. q * n <= r * n BY <2>4
    <2> QED BY <2>1, <2>2, <2>5
  <1> QED BY <1>1, <1>2, <1>4, <1>5, <1>6

LEMMA PoolFacts ==
  ASSUME OrderInv, Gpu, NEW c \in Ctxs
  PROVE  /\ Pool(c).base \in Nat /\ Pool(c).num \in Nat \ {0} /\ Pool(c).outer \in Nat \ {0}
         /\ Pool(c).inner \in Nat \ {0} /\ Pool(c).stride = Pool(c).inner
         /\ Pool(c).outerSize = Pool(c).num * Pool(c).inner
         /\ Pool(c).bytes = Pool(c).outer * Pool(c).inner
         /\ CpuPool(c).base \in Nat /\ CpuPool(c).inner \in Nat \ {0}
         /\ CpuPool(c).stride = CpuPool(c).inner /\ CpuPool(c).bytes = CpuPool(c).inner
         /\ CpuPool(c).outerSize \in Nat
         /\ \A b \in Ctxs : OnPages(Pool(c), Pool(b).base) => Pool(b).base = Pool(c).base
  <1>1. proc \in Procs /\ proc.kind = "gpu" BY DEF OrderInv, Gpu
  <1>2. /\ Cut(Pool(c)) /\ Cut(CpuPool(c)) /\ CpuPool(c).outer = 1
        /\ \A b \in Ctxs : OnPages(Pool(c), Pool(b).base) => Pool(b).base = Pool(c).base
    BY <1>1, DevicePools DEF Pool, CpuPool, Job
  <1>3. Cut(Pool(c)) BY <1>2
  <1>4. PICK h : h = CpuPool(c) OBVIOUS
  <1>5. Cut(h) /\ h.outer = 1 BY <1>2, <1>4
  <1>6. /\ h.base \in Nat /\ h.inner \in Nat \ {0} /\ h.stride = h.inner /\ h.bytes = 1 * h.inner
    BY <1>5 DEF Cut
  <1>7. h.bytes = h.inner /\ h.outerSize \in Nat
    <2>1. PICK a \in Nat : a = h.num BY <1>5 DEF Cut
    <2>2. PICK b \in Nat : b = h.inner BY <1>6
    <2>3. h.outerSize = a * b /\ a * b \in Nat BY <1>5, <2>1, <2>2 DEF Cut
    <2> QED BY <1>6, <2>3
  <1> QED BY <1>2, <1>3, <1>4, <1>6, <1>7 DEF Cut

\* The pages of a pool, without the arithmetic.
LEMMA PageFacts ==
  ASSUME OrderInv, Gpu, NEW c \in Ctxs, NEW n \in Nat
  PROVE  /\ FirstPage(Pool(c)) \in Nat /\ FirstPage(Pool(c)) <= Pool(c).base
         /\ PagesFor(Pool(c), n) \in Nat
         /\ Pool(c).base + n <= FirstPage(Pool(c)) + PagesFor(Pool(c), n)
         /\ \A k \in Nat : n <= k => PagesFor(Pool(c), n) <= PagesFor(Pool(c), k)
  <1>1. PageSize \in Nat \ {0} BY DsaConstants
  <1>2. PICK p : p = Pool(c) OBVIOUS
  <1>3. PICK base \in Nat : base = p.base BY <1>2, PoolFacts
  <1>4. PICK pad \in Nat : pad = base % PageSize /\ pad <= base BY <1>1
  <1>5. FirstPage(p) = base - pad
    <2>1. FirstPage(p) = base - (base % PageSize) BY <1>3, Zenon DEF FirstPage
    <2> QED BY <1>4, <2>1
  <1>6. ASSUME NEW k \in Nat PROVE PagesFor(p, k) = (((pad + k) + PageSize - 1) \div PageSize) * PageSize
    <2>1. PagesFor(p, k) = (((base % PageSize) + k + PageSize - 1) \div PageSize) * PageSize
      BY <1>3, Zenon DEF PagesFor
    <2> QED BY <1>4, <2>1
  <1>7. pad + n \in Nat OBVIOUS
  <1>8. /\ PagesFor(p, n) \in Nat /\ pad + n <= PagesFor(p, n)
        /\ \A y \in Nat : pad + n <= y =>
             PagesFor(p, n) <= ((y + PageSize - 1) \div PageSize) * PageSize
    BY <1>1, <1>6, <1>7, Pages
  <1>9. ASSUME NEW k \in Nat, n <= k PROVE PagesFor(p, n) <= PagesFor(p, k)
    <2>1. pad + k \in Nat /\ pad + n <= pad + k BY <1>9
    <2>2. PagesFor(p, n) <= (((pad + k) + PageSize - 1) \div PageSize) * PageSize BY <1>8, <2>1
    <2> QED BY <1>6, <2>2
  <1>10. base + n <= (base - pad) + PagesFor(p, n) BY <1>8
  <1> QED BY <1>2, <1>3, <1>4, <1>5, <1>8, <1>9, <1>10

LEMMA TotalNat ==
  ASSUME OrderInv, Gpu, NEW c \in Ctxs
  PROVE  Pool(c).outer * Pool(c).outerSize \in Nat
  <1>1. PICK o \in Nat : o = Pool(c).outer BY PoolFacts
  <1>2. PICK u \in Nat : u = Pool(c).num BY PoolFacts
  <1>3. PICK w \in Nat : w = Pool(c).inner BY PoolFacts
  <1>4. u * w \in Nat /\ o * (u * w) \in Nat OBVIOUS
  <1>5. Pool(c).outerSize = u * w BY <1>2, <1>3, PoolFacts
  <1> QED BY <1>1, <1>4, <1>5

\* A mapping that holds the base of a pool starts with that pool.
LEMMA MapOwner ==
  ASSUME OrderInv, Gpu, NEW m, MapOf(m), NEW c \in Ctxs, NEW n \in Nat \ {0},
         Encloses(m, Pool(c).base, n)
  PROVE  m.va = FirstPage(Pool(c))
  <1>1. PICK b \in Ctxs, k \in Nat :
          /\ k <= Pool(b).outer * Pool(b).outerSize
          /\ m.va = FirstPage(Pool(b)) /\ m.size = PagesFor(Pool(b), k)
    BY DEF MapOf
  <1>2. PICK total \in Nat : total = Pool(b).outer * Pool(b).outerSize BY TotalNat
  <1>3. PICK addr \in Nat : addr = Pool(c).base BY PoolFacts
  <1>4. PICK va \in Nat : va = FirstPage(Pool(b)) BY PageFacts
  <1>5. PICK size \in Nat : size = PagesFor(Pool(b), k) BY PageFacts
  <1>6. PICK all \in Nat : all = PagesFor(Pool(b), total) BY PageFacts
  <1>7. size <= all BY <1>1, <1>2, <1>5, <1>6, PageFacts
  <1>8. va <= addr /\ addr + n <= va + size BY <1>1, <1>3, <1>4, <1>5 DEF Encloses
  <1>9. va <= addr /\ addr < va + all BY <1>7, <1>8
  <1>10. PagesFor(Pool(b), Pool(b).outer * Pool(b).outerSize) = all BY <1>2, <1>6, Zenon
  <1>11. OnPages(Pool(b), Pool(c).base) BY <1>3, <1>4, <1>9, <1>10, Zenon DEF OnPages
  <1>12. Pool(c).base = Pool(b).base BY <1>11, PoolFacts
  <1>13. FirstPage(Pool(c)) = FirstPage(Pool(b)) BY <1>12, Zenon DEF FirstPage
  <1> QED BY <1>1, <1>13

LEMMA LeastOf ==
  ASSUME NEW S \in SUBSET Nat, S # {}
  PROVE  \E i \in S : \A j \in S : i <= j
  <1>1. PICK i \in S : \A j \in S : ~(<<j, i>> \in OpToRel(<, Nat))
    BY NatLessThanWellFounded, WFMin
  <1>2. \A j \in S : ~(j < i) BY <1>1 DEF OpToRel
  <1> QED BY <1>2

\* What the span of a call covers: CHOOSE finds a maximum, the set being bounded.
LEMMA GreatestOf ==
  ASSUME NEW S \in SUBSET Nat, S # {}, NEW bound \in Nat, \A x \in S : x <= bound
  PROVE  Max(S) \in S /\ \A x \in S : x <= Max(S)
  <1>1. PICK T : T = {bound - x : x \in S} OBVIOUS
  <1>2. T \subseteq Nat /\ T # {}
    <2>1. \A x \in S : bound - x \in Nat OBVIOUS
    <2>2. PICK x : x \in S OBVIOUS
    <2>3. bound - x \in T BY <1>1, <2>2
    <2> QED BY <1>1, <2>1, <2>3
  <1>3. PICK t \in T : \A u \in T : t <= u BY <1>2, LeastOf
  <1>4. PICK g \in S : t = bound - g BY <1>1, <1>3
  <1>5. \A x \in S : g >= x
    <2> SUFFICES ASSUME NEW x \in S PROVE g >= x OBVIOUS
    <2>1. t <= bound - x BY <1>1, <1>3
    <2> QED BY <1>4, <2>1
  <1>6. Max(S) \in S /\ \A x \in S : Max(S) >= x BY <1>5 DEF Max
  <1> QED BY <1>6

\* find_enclosing returns the newest mapping around the range.
LEMMA FoundNewest ==
  ASSUME NEW ms, IsSeq(ms), NEW a, NEW n, NEW h \in 1..Len(ms), Encloses(ms[h], a, n)
  PROVE  \E i \in 1..Len(ms) : /\ FindEnclosing(ms, a, n) = ms[i] /\ Encloses(ms[i], a, n)
                               /\ i <= h
  <1>1. PICK hits : hits = {i \in DOMAIN ms : Encloses(ms[i], a, n)} OBVIOUS
  <1>2. DOMAIN ms = 1..Len(ms) /\ Len(ms) \in Nat BY DEF IsSeq
  <1>3. hits \in SUBSET Nat /\ h \in hits BY <1>1, <1>2
  <1>4. \E i \in hits : \A j \in hits : i <= j BY <1>3, LeastOf
  <1>5. PICK i : i = CHOOSE k \in hits : \A j \in hits : k <= j OBVIOUS
  <1>6. i \in hits /\ \A j \in hits : i <= j BY <1>4, <1>5
  <1>7. FindEnclosing(ms, a, n) = ms[i]
    <2>1. hits # {} BY <1>3
    <2> QED BY <1>1, <1>5, <2>1 DEF FindEnclosing
  <1>8. i \in 1..Len(ms) /\ Encloses(ms[i], a, n) /\ i <= h BY <1>1, <1>2, <1>3, <1>6
  <1> QED BY <1>7, <1>8

LEMMA FoundNone ==
  ASSUME NEW ms, NEW a, NEW n, IsSeq(ms), FindEnclosing(ms, a, n) # None
  PROVE  \E h \in 1..Len(ms) : Encloses(ms[h], a, n)
  <1>1. DOMAIN ms = 1..Len(ms) BY DEF IsSeq
  <1>2. {i \in DOMAIN ms : Encloses(ms[i], a, n)} # {} BY DEF FindEnclosing
  <1> QED BY <1>1, <1>2

\* A mapping is no None.
LEMMA MapIsNot ==
  ASSUME OrderInv, Gpu, NEW m, MapOf(m)
  PROVE  m # None
  <1>1. PICK b \in Ctxs, k \in Nat :
          /\ m.bar \in Nat /\ m.va = FirstPage(Pool(b)) /\ m.size = PagesFor(Pool(b), k)
          /\ m = [va |-> m.va, bar |-> m.bar, size |-> m.size]
    BY DEF MapOf
  <1>2. m.va \in Int /\ m.bar \in Int /\ m.size \in Int BY <1>1, PageFacts
  <1>3. m \in [va : Int, bar : Int, size : Int] BY <1>1, <1>2
  <1> QED BY <1>3, DsaConstants

\* dsa_gd_default_register keeps the order of the mappings.
LEMMA RegisteredMaps ==
  ASSUME OrderInv, Gpu, NEW c \in Ctxs, NEW n \in Nat \ {0},
         n <= Pool(c).outer * Pool(c).outerSize, NEW ok, MapsAre(maps, nextBar),
         NEW ms, ms = Registered(Pool(c).base, n, ok), NEW next,
         next = IF ms = maps THEN nextBar ELSE nextBar + 1
  PROVE  /\ MapsAre(ms, next)
         /\ \A e : Through(maps, e) => Through(ms, e)
  <1>1. CASE ms = maps BY <1>1
  <1>2. CASE ms # maps
    <2>1. PICK m : m = NewMapping(Pool(c).base, n) OBVIOUS
    <2>2. /\ ms = <<m>> \o maps /\ next = nextBar + 1
          /\ FindEnclosing(maps, Pool(c).base, n) = None
      BY <1>2, <2>1 DEF Registered
    <2>3. /\ m = [va |-> m.va, bar |-> m.bar, size |-> m.size] /\ m.bar = nextBar
          /\ m.va = FirstPage(Pool(c)) /\ m.size = PagesFor(Pool(c), n)
      BY <2>1 DEF NewMapping, FirstPage, PagesFor
    <2>4. IsSeq(maps) /\ nextBar \in Nat BY DEF MapsAre
    <2>5. PICK k \in Nat : k = Len(maps) BY <2>4 DEF IsSeq
    <2>6. /\ IsSeq(ms) /\ Len(ms) = k + 1 /\ ms[1] = m /\ \A i \in 1..k : ms[i + 1] = maps[i]
      <3>1. PICK S : maps \in Seq(S) BY <2>4, SeqIn
      <3>2. PICK T : T = S \cup {m} OBVIOUS
      <3>3. maps \in Seq(T) /\ <<m>> \in Seq(T) BY <3>1, <3>2, SeqMonotonic
      <3>4. ms \in Seq(T) /\ Len(ms) = k + 1 /\ ms[1] = m /\ \A i \in 1..k : ms[i + 1] = maps[i]
        BY <2>2, <2>5, <3>3
      <3> QED BY <3>4, InSeq
    <2>7. MapOf(m) /\ m.bar < next
      <3>1. m.bar \in Nat /\ m.bar < next BY <2>2, <2>3, <2>4
      <3> QED BY <2>3, <3>1 DEF MapOf
    <2>8. \A i \in 1..k : MapOf(maps[i]) /\ maps[i].bar < nextBar /\ maps[i].bar \in Nat
      BY <2>5 DEF MapsAre, MapOf
    <2>9. ASSUME NEW i \in 1..(k + 1) PROVE MapOf(ms[i]) /\ ms[i].bar < next
      <3>1. CASE i = 1 BY <2>6, <2>7, <3>1
      <3>2. CASE i > 1
        <4>1. PICK j \in 1..k : i = j + 1
          <5>1. i - 1 \in 1..k /\ i = (i - 1) + 1 BY <3>2
          <5> QED BY <5>1
        <4>2. ms[i] = maps[j] BY <2>6, <4>1
        <4>3. MapOf(maps[j]) /\ maps[j].bar < nextBar /\ maps[j].bar \in Nat BY <2>8
        <4>4. maps[j].bar < nextBar + 1 BY <2>4, <4>3
        <4> QED BY <2>2, <4>2, <4>3, <4>4
      <3> QED BY <3>1, <3>2
    <2>10. ASSUME NEW j \in 1..k, maps[j].va = m.va PROVE m.size >= maps[j].size
      <3>1. PICK q : q = maps[j] OBVIOUS
      <3>2. MapOf(q) BY <2>8, <3>1
      <3>3. PICK b \in Ctxs, u \in Nat :
              q.va = FirstPage(Pool(b)) /\ q.size = PagesFor(Pool(b), u)
        BY <3>2 DEF MapOf
      <3>4. q.size \in Nat /\ m.size \in Nat /\ m.va \in Nat BY <2>3, <3>3, PageFacts
      <3>5. SUFFICES ASSUME m.size < q.size PROVE FALSE BY <3>1, <3>4
      <3>6. Encloses(q, Pool(c).base, n)
        <4>1. PICK base \in Nat : base = Pool(c).base BY PoolFacts
        <4>2. m.va <= base /\ base + n <= m.va + m.size BY <2>3, <4>1, PageFacts
        <4>3. q.va <= base /\ base + n <= q.va + q.size BY <2>10, <3>1, <3>4, <3>5, <4>2
        <4> QED BY <4>1, <4>3 DEF Encloses
      <3>7. PICK i \in 1..Len(maps) : FindEnclosing(maps, Pool(c).base, n) = maps[i]
        BY <2>4, <2>5, <3>1, <3>6, FoundNewest
      <3>8. MapOf(maps[i]) BY <2>5, <2>8, <3>7
      <3>9. PICK r : r = maps[i] OBVIOUS
      <3>10. MapOf(r) /\ r = None BY <2>2, <3>7, <3>8, <3>9
      <3> QED BY <3>10, MapIsNot
    <2>11. ASSUME NEW i \in 1..(k + 1), NEW j \in 1..(k + 1), i < j
           PROVE  ms[i].bar # ms[j].bar /\ (ms[i].va = ms[j].va => ms[i].size >= ms[j].size)
      <3>1. PICK y \in 1..k : j = y + 1
        <4>1. j - 1 \in 1..k /\ j = (j - 1) + 1 BY <2>11
        <4> QED BY <4>1
      <3>2. ms[j] = maps[y] BY <2>6, <3>1
      <3>3. CASE i = 1
        <4>1. ms[i] = m BY <2>6, <3>3
        <4>2. maps[y].bar < m.bar /\ maps[y].bar \in Nat BY <2>3, <2>8
        <4>3. m.bar # maps[y].bar BY <2>3, <2>4, <4>2
        <4> QED BY <2>10, <3>2, <4>1, <4>3
      <3>4. CASE i > 1
        <4>1. PICK x \in 1..k : i = x + 1
          <5>1. i - 1 \in 1..k /\ i = (i - 1) + 1 BY <3>4
          <5> QED BY <5>1
        <4>2. ms[i] = maps[x] /\ x < y BY <2>6, <2>11, <3>1, <4>1
        <4> QED BY <2>5, <3>2, <4>2 DEF MapsAre
      <3> QED BY <3>3, <3>4
    <2>12. next \in Nat BY <2>2, <2>4
    <2>13. MapsAre(ms, next) BY <2>6, <2>9, <2>11, <2>12 DEF MapsAre
    <2>14. ASSUME NEW e, Through(maps, e) PROVE Through(ms, e)
      <3>1. PICK i \in 1..k : /\ maps[i].bar = e.bar /\ e.off \in Nat /\ e.off < maps[i].size
                              /\ Row(maps[i].va + e.off, e.cpu) \in Wanted(e.c)
        BY <2>5, <2>14 DEF Through
      <3>2. i + 1 \in 1..Len(ms) /\ ms[i + 1] = maps[i] BY <2>6
      <3>3. PICK j \in 1..Len(ms) : ms[j] = maps[i] BY <3>2
      <3> QED BY <3>1, <3>3 DEF Through
    <2> QED BY <2>13, <2>14
  <1> QED BY <1>1, <1>2

\* A call names blocks of both pools, which are cut into equal blocks.
Fits(c, xs) ==
  /\ xs \in CallSet(c) /\ CheckIndices(Pool(c), xs, 1)
  /\ SameBlockGeometry(Pool(c), CpuPool(c))

LEMMA CallFacts ==
  ASSUME OrderInv, Gpu, NEW c \in Ctxs, NEW xs, Fits(c, xs)
  PROVE  /\ xs \in Seq(Nat \X Nat) /\ Len(xs) \in Nat \ {0} /\ DOMAIN xs = 1..Len(xs)
         /\ \A i \in 1..Len(xs) : xs[i][1] \in Nat /\ xs[i][1] < Pool(c).num /\ xs[i][2] \in Nat
         /\ \E j \in DOMAIN Job(c).calls : xs = Job(c).calls[j]
  <1>1. PICK s : s = Job(c).calls OBVIOUS
  <1>2. s \in Seq(Seq(Nat \X Nat) \ {<<>>}) BY <1>1, GpuFacts
  <1>3. xs \in CallSet(c) BY DEF Fits
  <1>4. PICK j \in 1..Len(s) : xs = s[j] BY <1>1, <1>3 DEF CallSet
  <1>5. xs \in Seq(Nat \X Nat) /\ xs # <<>> /\ j \in DOMAIN s BY <1>2, <1>4
  <1>6. Len(xs) \in Nat \ {0} /\ DOMAIN xs = 1..Len(xs) BY <1>5
  <1>7. ASSUME NEW i \in 1..Len(xs) PROVE xs[i][1] \in Nat /\ xs[i][1] < Pool(c).num /\ xs[i][2] \in Nat
    <2>1. xs[i] \in Nat \X Nat BY <1>5
    <2>2. xs[i][1] < Pool(c).num BY <1>6 DEF Fits, CheckIndices
    <2> QED BY <2>1, <2>2
  <1> QED BY <1>1, <1>4, <1>5, <1>6, <1>7

\* The rows of a block are inside the pool, and the last one ends its span.
LEMMA RowEnds ==
  ASSUME NEW w \in Nat \ {0}, NEW u \in Nat \ {0}, NEW o \in Nat \ {0}, NEW x \in Nat, x < u
  PROVE  /\ x * w \in Nat /\ (o - 1) * (u * w) \in Nat
         /\ x * w + (o - 1) * (u * w) + w <= o * (u * w)
         /\ \A r \in 0..(o - 1) : /\ r * (u * w) \in Nat
                                  /\ x * w + r * (u * w) + w <= x * w + (o - 1) * (u * w) + w
  <1>1. PICK v \in Nat : v = u * w BY SMT
  <1>2. PICK z \in Nat : z = x * w BY SMT
  <1>3. z + w <= v
    <2>1. (x + 1) * w <= u * w BY SMT
    <2>2. (x + 1) * w = x * w + w BY SMT
    <2> QED BY <1>1, <1>2, <2>1, <2>2
  <1>4. PICK l \in Nat : l = (o - 1) * v BY SMT
  <1>5. o * v = l + v
    <2>1. o * v = (o - 1) * v + v BY SMT
    <2> QED BY <1>4, <2>1
  <1>6. z + l + w <= o * v BY <1>3, <1>5
  <1>7. ASSUME NEW r \in 0..(o - 1) PROVE r * v \in Nat /\ z + r * v + w <= z + l + w
    <2>1. r * v \in Nat /\ r * v <= (o - 1) * v BY SMT
    <2> QED BY <1>4, <2>1
  <1> QED BY <1>1, <1>2, <1>4, <1>6, <1>7

LEMMA SpanFacts ==
  ASSUME OrderInv, Gpu, NEW c \in Ctxs, NEW xs, Fits(c, xs)
  PROVE  /\ Span(c, xs) \in Nat \ {0} /\ Span(c, xs) <= Pool(c).outer * Pool(c).outerSize
         /\ Pool(c).inner <= Span(c, xs)
         /\ \A i \in 1..Len(xs) : \A r \in 0..(Pool(c).outer - 1) :
              xs[i][1] * Pool(c).inner + r * Pool(c).outerSize + Pool(c).inner <= Span(c, xs)
  <1>1. PICK w \in Nat \ {0} : w = Pool(c).inner BY PoolFacts
  <1>2. PICK u \in Nat \ {0} : u = Pool(c).num BY PoolFacts
  <1>3. PICK o \in Nat \ {0} : o = Pool(c).outer BY PoolFacts
  <1>4. Pool(c).outerSize = u * w /\ Pool(c).stride = w BY <1>1, <1>2, PoolFacts
  <1>5. PICK n \in Nat \ {0} : n = Len(xs) /\ DOMAIN xs = 1..n BY CallFacts
  <1>6. ASSUME NEW i \in 1..n PROVE xs[i][1] \in Nat /\ xs[i][1] < u BY <1>2, <1>5, CallFacts
  <1>7. PICK S : S = {xs[i][1] * w + (o - 1) * (u * w) + w : i \in 1..n} OBVIOUS
  <1>8. Span(c, xs) = Max(S)
    <2>1. Span(c, xs) = Max({xs[i][1] * Pool(c).stride + (Pool(c).outer - 1) * Pool(c).outerSize
                               + Pool(c).inner : i \in DOMAIN xs}) BY Zenon DEF Span
    <2> QED BY <1>1, <1>3, <1>4, <1>5, <1>7, <2>1, Zenon
  <1>9. PICK total \in Nat : total = o * (u * w) BY SMT
  <1>10. ASSUME NEW i \in 1..n
         PROVE  /\ xs[i][1] * w + (o - 1) * (u * w) + w \in Nat \ {0}
                /\ w <= xs[i][1] * w + (o - 1) * (u * w) + w
                /\ xs[i][1] * w + (o - 1) * (u * w) + w <= total
    <2>1. PICK x \in Nat : x = xs[i][1] /\ x < u BY <1>6
    <2>2. /\ x * w \in Nat /\ (o - 1) * (u * w) \in Nat
          /\ x * w + (o - 1) * (u * w) + w <= o * (u * w)
      BY <2>1, RowEnds
    <2>3. PICK z \in Nat : z = x * w BY <2>2
    <2>4. PICK l \in Nat : l = (o - 1) * (u * w) BY <2>2
    <2>5. z + l + w \in Nat \ {0} /\ w <= z + l + w OBVIOUS
    <2> QED BY <1>9, <2>1, <2>2, <2>3, <2>4, <2>5
  <1>11. S \in SUBSET Nat /\ S # {} /\ \A y \in S : y <= total /\ y # 0 /\ w <= y
    <2>1. 1 \in 1..n OBVIOUS
    <2> QED BY <1>7, <1>10, <2>1
  <1>12. Max(S) \in S /\ \A y \in S : y <= Max(S) BY <1>11, GreatestOf
  <1>13. ASSUME NEW i \in 1..n, NEW r \in 0..(o - 1)
         PROVE  xs[i][1] * w + r * (u * w) + w <= Max(S)
    <2>1. PICK x \in Nat : x = xs[i][1] /\ x < u BY <1>6
    <2>2. PICK e \in Nat : e = x * w + (o - 1) * (u * w) + w /\ e \in S BY <1>7, <1>11, <2>1
    <2>3. e <= Max(S) /\ Max(S) \in Nat BY <1>11, <1>12, <2>2
    <2>4. /\ x * w \in Nat /\ r * (u * w) \in Nat
          /\ x * w + r * (u * w) + w <= x * w + (o - 1) * (u * w) + w
      BY <2>1, RowEnds
    <2>5. PICK f \in Nat : f = x * w + r * (u * w) + w BY <2>4
    <2>6. f <= Max(S) BY <2>2, <2>3, <2>4, <2>5
    <2> QED BY <2>1, <2>5, <2>6
  <1>14. Max(S) \in Nat \ {0} /\ Max(S) <= total /\ w <= Max(S) BY <1>11, <1>12
  <1> QED BY <1>1, <1>3, <1>4, <1>5, <1>8, <1>9, <1>13, <1>14

\* Row r of block x, as the engine addresses it and as a row-major tensor has it.
LEMMA RowAddress ==
  ASSUME NEW w \in Nat \ {0}, NEW u \in Nat \ {0}, NEW o \in Nat \ {0},
         NEW x \in Nat, NEW y \in Nat, NEW r \in Nat
  PROVE  /\ x * w + r * (u * w) = w * (r * u + x)
         /\ y * (o * w) + r * w = w * (y * o + r)
  <1>1. r * (u * w) = w * (r * u) BY SMT
  <1>2. w * (r * u + x) = w * (r * u) + w * x BY SMT
  <1>3. x * w = w * x BY SMT
  <1>4. x * w + r * (u * w) = w * (r * u + x)
    <2>1. PICK a \in Nat : a = w * (r * u) BY SMT
    <2>2. PICK b \in Nat : b = w * x BY SMT
    <2> QED BY <1>1, <1>2, <1>3, <2>1, <2>2
  <1>5. y * (o * w) = w * (y * o) BY SMT
  <1>6. w * (y * o + r) = w * (y * o) + w * r BY SMT
  <1>7. r * w = w * r BY SMT
  <1>8. y * (o * w) + r * w = w * (y * o + r)
    <2>1. PICK a \in Nat : a = w * (y * o) BY SMT
    <2>2. PICK b \in Nat : b = w * r BY SMT
    <2> QED BY <1>5, <1>6, <1>7, <2>1, <2>2
  <1> QED BY <1>4, <1>8

\* The row and the block an entry is for.
LEMMA EntryIndex ==
  ASSUME NEW n \in Nat \ {0}, NEW o \in Nat \ {0}, NEW k \in 1..(n * o)
  PROVE  1 + (k - 1) \div o \in 1..n /\ (k - 1) % o \in 0..(o - 1)
  <1>1. PICK z \in Nat : z = k - 1 /\ z < n * o
    <2>1. n * o \in Nat BY SMT
    <2> QED BY <2>1
  <1>2. PICK q \in Nat : q = z \div o BY SMT
  <1>3. o * q <= z /\ z % o \in 0..(o - 1) BY <1>2
  <1>4. q < n
    <2>1. SUFFICES ASSUME n <= q PROVE FALSE OBVIOUS
    <2>2. n * o <= q * o BY <2>1
    <2>3. q * o = o * q BY SMT
    <2> QED BY <1>1, <1>3, <2>2, <2>3
  <1> QED BY <1>1, <1>2, <1>3, <1>4

\* The pools' addresses of row r of <<block, CPU block>> i of the call are wanted.
LEMMA RowWanted ==
  ASSUME OrderInv, Gpu, NEW c \in Ctxs, NEW xs, Fits(c, xs),
         NEW i \in 1..Len(xs), NEW r \in 0..(Pool(c).outer - 1),
         NEW dev, dev = Pool(c).base + (xs[i][1] * Pool(c).inner + r * Pool(c).outerSize),
         NEW cpu, cpu = BlockPtr(CpuPool(c), xs[i][2], 0) + r * Pool(c).inner
  PROVE  Row(dev, cpu) \in Wanted(c)
  <1>1. PICK w \in Nat \ {0} : w = Pool(c).inner BY PoolFacts
  <1>2. PICK u \in Nat \ {0} : u = Pool(c).num BY PoolFacts
  <1>3. PICK o \in Nat \ {0} : o = Pool(c).outer BY PoolFacts
  <1>4. Pool(c).outerSize = u * w BY <1>1, <1>2, PoolFacts
  <1>5. PICK x \in Nat : x = xs[i][1] BY CallFacts
  <1>6. PICK y \in Nat : y = xs[i][2] BY CallFacts
  <1>7. PICK t \in Nat : t = r /\ t \in 0..(o - 1) BY <1>3
  <1>8. CpuPool(c).stride = o * w
    <2>1. Pool(c).bytes = CpuPool(c).bytes BY DEF Fits, SameBlockGeometry
    <2> QED BY <1>1, <1>3, <2>1, PoolFacts
  <1>9. dev = Pool(c).base + w * (t * u + x)
    <2>1. x * w + t * (u * w) = w * (t * u + x) BY RowAddress
    <2>2. dev = Pool(c).base + (x * w + t * (u * w)) BY <1>1, <1>4, <1>5, <1>7, Zenon
    <2> QED BY <2>1, <2>2, Zenon
  <1>10. cpu = CpuPool(c).base + w * (y * o + t)
    <2>1. PICK base \in Nat : base = CpuPool(c).base BY PoolFacts
    <2>2. PICK z \in Nat : z = CpuPool(c).outerSize BY PoolFacts
    <2>3. PICK m \in Nat : m = y * (o * w)
      <3>1. PICK ow \in Nat : ow = o * w BY SMT
      <3>2. y * ow \in Nat BY SMT
      <3> QED BY <3>1, <3>2
    <2>4. PICK l \in Nat : l = t * w BY SMT
    <2>5. BlockPtr(CpuPool(c), xs[i][2], 0) = base + 0 * z + m
      BY <1>6, <1>8, <2>1, <2>2, <2>3, Zenon DEF BlockPtr
    <2>6. base + 0 * z + m = base + m OBVIOUS
    <2>7. cpu = (base + m) + l BY <1>1, <1>7, <2>4, <2>5, <2>6, Zenon
    <2>8. cpu = base + (m + l) BY <2>7
    <2>9. m + l = w * (y * o + t) BY <2>3, <2>4, RowAddress
    <2> QED BY <2>1, <2>8, <2>9, Zenon
  <1>11. Row(dev, cpu) \in WantedRows(Pool(c), CpuPool(c), xs)
    <2>1. PICK q : q = <<i, r>> OBVIOUS
    <2>2. q \in Rows(xs, Pool(c).outer) /\ q[1] = i /\ q[2] = r
      BY <2>1, CallFacts DEF Rows
    <2>3. Row(dev, cpu) = Row(Pool(c).base + Pool(c).inner * (q[2] * Pool(c).num + xs[q[1]][1]),
                              CpuPool(c).base + Pool(c).inner * (xs[q[1]][2] * Pool(c).outer + q[2]))
      BY <1>1, <1>2, <1>3, <1>5, <1>6, <1>7, <1>9, <1>10, <2>2, Zenon
    <2> QED BY <2>2, <2>3, Zenon DEF WantedRows
  <1>12. PICK j \in DOMAIN Job(c).calls : xs = Job(c).calls[j] BY CallFacts
  <1>13. proc.kind # "cpu" BY DEF Gpu
  <1> QED BY <1>11, <1>12, <1>13, Zenon DEF Wanted

LEMMA EntryReaches ==
  ASSUME OrderInv, Gpu, NEW c \in Ctxs, NEW xs, Fits(c, xs), NEW ms, NEW next, MapsAre(ms, next),
         NEW h \in 1..Len(ms), Encloses(ms[h], Pool(c).base, Span(c, xs)),
         NEW E, E = Entries(c, xs, BarAddr(ms, Pool(c).base, Pool(c).inner)), NEW k \in 1..Len(E)
  PROVE  Through(ms, E[k])
  <1>1. PICK w \in Nat \ {0} : w = Pool(c).inner BY PoolFacts
  <1>2. PICK base \in Nat : base = Pool(c).base BY PoolFacts
  <1>3. PICK o \in Nat \ {0} : o = Pool(c).outer BY PoolFacts
  <1>4. PICK span \in Nat \ {0} : span = Span(c, xs) /\ w <= span BY <1>1, SpanFacts
  <1>5. IsSeq(ms) /\ \A i \in 1..Len(ms) : MapOf(ms[i]) BY DEF MapsAre
  <1>6. \A m : MapOf(m) => m.va \in Nat /\ m.size \in Nat BY PageFacts DEF MapOf
  <1>7. Encloses(ms[h], base, w)
    <2>1. ms[h].va \in Nat /\ ms[h].size \in Nat BY <1>5, <1>6
    <2>2. ms[h].va <= base /\ base + span <= ms[h].va + ms[h].size BY <1>2, <1>4 DEF Encloses
    <2> QED BY <1>4, <2>1, <2>2 DEF Encloses
  <1>8. PICK i \in 1..Len(ms) : FindEnclosing(ms, base, w) = ms[i] /\ Encloses(ms[i], base, w) /\ i <= h
    BY <1>5, <1>7, FoundNewest
  <1>9. PICK va \in Nat : va = ms[i].va /\ va = ms[h].va
    <2>1. ms[i].va = FirstPage(Pool(c)) BY <1>1, <1>2, <1>5, <1>8, MapOwner
    <2>2. ms[h].va = FirstPage(Pool(c)) BY <1>5, SpanFacts, MapOwner
    <2> QED BY <1>5, <1>6, <2>1, <2>2
  <1>10. PICK size \in Nat : size = ms[i].size BY <1>5, <1>6
  <1>11. va <= base /\ base + span <= va + size
    <2>1. PICK old \in Nat : old = ms[h].size BY <1>5, <1>6
    <2>2. va <= base /\ base + span <= va + old BY <1>2, <1>4, <1>9, <2>1 DEF Encloses
    <2>3. i < h \/ i = h BY <1>8 DEF IsSeq
    <2>4. size >= old
      <3>1. CASE i = h BY <1>10, <2>1, <3>1
      <3>2. CASE i < h BY <1>9, <1>10, <2>1, <3>2 DEF MapsAre
      <3> QED BY <2>3, <3>1, <3>2
    <2> QED BY <2>2, <2>4
  <1>12. PICK b : b = BarAddr(ms, Pool(c).base, Pool(c).inner) OBVIOUS
  <1>13. b.bar = ms[i].bar /\ b.off = base - va
    BY <1>1, <1>2, <1>8, <1>9, <1>12 DEF BarAddr
  <1>14. PICK n \in Nat \ {0} : n = Len(xs) BY CallFacts
  <1>15. k \in 1..(n * o)
    <2>1. PICK z \in Nat : z = n * o BY SMT
    <2>2. E = Entries(c, xs, b) BY <1>12
    <2>3. DOMAIN E = 1..z /\ E = [j \in 1..z |-> E[j]] BY <1>3, <1>14, <2>1, <2>2 DEF Entries
    <2>4. PICK S : S = {E[j] : j \in 1..z} OBVIOUS
    <2>5. E \in [1..z -> S] BY <2>3, <2>4
    <2>6. Len(E) = z BY <2>5
    <2> QED BY <2>1, <2>6
  <1>16. PICK a \in 1..n : a = 1 + (k - 1) \div o BY <1>15, EntryIndex
  <1>17. PICK r \in 0..(o - 1) : r = (k - 1) % o BY <1>15, EntryIndex
  <1>18. /\ E[k].c = c /\ E[k].bar = b.bar
         /\ E[k].off = b.off + xs[a][1] * Pool(c).stride + r * Pool(c).outerSize
         /\ E[k].cpu = BlockPtr(CpuPool(c), xs[a][2], 0) + r * Pool(c).inner
    BY <1>3, <1>12, <1>14, <1>15, <1>16, <1>17 DEF Entries
  <1>19. PICK x \in Nat : x = xs[a][1] /\ x < Pool(c).num BY <1>14, CallFacts
  <1>20. PICK u \in Nat \ {0} : u = Pool(c).num BY PoolFacts
  <1>21. Pool(c).outerSize = u * w /\ Pool(c).stride = w BY <1>1, <1>20, PoolFacts
  <1>22. PICK f \in Nat : f = x * w + r * (u * w)
    <2>1. x < u BY <1>19, <1>20
    <2>2. x * w \in Nat /\ r * (u * w) \in Nat BY <2>1, RowEnds
    <2> QED BY <2>2
  <1>23. f + w <= span
    <2>1. xs[a][1] * Pool(c).inner + r * Pool(c).outerSize + Pool(c).inner <= Span(c, xs)
      BY <1>3, <1>14, SpanFacts
    <2>2. x * w + r * (u * w) + w <= span BY <1>1, <1>4, <1>19, <1>21, <2>1, Zenon
    <2> QED BY <1>22, <2>2
  <1>24. E[k].off = (base - va) + f
    <2>1. E[k].off = (base - va) + x * w + r * (u * w) BY <1>13, <1>18, <1>19, <1>21, Zenon
    <2>2. x * w \in Nat /\ r * (u * w) \in Nat BY <1>19, <1>20, RowEnds
    <2> QED BY <1>22, <2>1, <2>2
  <1>25. E[k].off \in Nat /\ E[k].off < size /\ va + E[k].off = base + f
    BY <1>11, <1>23, <1>24
  <1>26. Row(ms[i].va + E[k].off, E[k].cpu) \in Wanted(E[k].c)
    <2>1. PICK dev : dev = base + f OBVIOUS
    <2>2. PICK cpu : cpu = E[k].cpu OBVIOUS
    <2>3. dev = Pool(c).base + (xs[a][1] * Pool(c).inner + r * Pool(c).outerSize)
      BY <1>1, <1>2, <1>19, <1>21, <1>22, <2>1, Zenon
    <2>4. cpu = BlockPtr(CpuPool(c), xs[a][2], 0) + r * Pool(c).inner BY <1>18, <2>2
    <2>5. a \in 1..Len(xs) /\ r \in 0..(Pool(c).outer - 1) BY <1>3, <1>14
    <2>6. Row(dev, cpu) \in Wanted(c) BY <2>3, <2>4, <2>5, RowWanted
    <2>7. ms[i].va + E[k].off = dev BY <1>9, <1>25, <2>1
    <2> QED BY <1>18, <2>2, <2>6, <2>7, Zenon
  <1> QED BY <1>10, <1>13, <1>18, <1>25, <1>26 DEF Through

\* What contexts have still to queue, and what is queued, are their calls.
QueueFits(d) ==
  \A i \in 1..Len(queue[d]) : queue[d][i].op = "copy" => Fits(queue[d][i].c, queue[d][i].xs)
CtxFits(c) ==
  /\ ctx[c].at # "new" => SameBlockGeometry(Pool(c), CpuPool(c))
  /\ \A i \in 1..Len(ctx[c].todo) : ctx[c].todo[i] \in CallSet(c)
Fitted == (\A c \in Ctxs : CtxFits(c)) /\ (\A d \in Dirs : QueueFits(d))

\* The entries that are with the engine or on their way reach what they are for.
Flies(ms, w) == \A k \in DOMAIN w : Through(ms, w[k])
HwFlies(s) == hw[s] # None => Flies(maps, hw[s].work)
CallFlies(d) == call[d] # None => \A i \in 1..Len(call[d].todo) : Flies(maps, call[d].todo[i])
Flying == (\A s \in Slots : HwFlies(s)) /\ (\A d \in Dirs : CallFlies(d))

\* A reset waits for every ticket.
Resetting == \A c \in Ctxs : ctx[c].at = "reset" => wait[c].upto = TicketAll

\* Only a GPU is copied to by the engine.
Unused == (\A s \in Slots : hw[s] = None) /\ (\A d \in Dirs : call[d] = None)

WindowOf ==
  /\ Resetting /\ MapsAre(maps, nextBar) /\ (~aborted => Fitted)
  /\ (lastTicket <= TicketAll => Flying)

WindowInv == IF Gpu THEN WindowOf ELSE Unused

\* A batch is cut out of the call.
LEMMA BatchParts ==
  ASSUME NEW S, NEW entries \in Seq(S), Len(entries) > 0
  PROVE  \A i \in 1..Len(Batches(entries)) : \A j \in DOMAIN Batches(entries)[i] :
           \E k \in 1..Len(entries) : Batches(entries)[i][j] = entries[k]
  <1>1. PICK m \in Nat \ {0} : m = Len(entries) OBVIOUS
  <1>2. PICK n \in Nat \ {0} : n = PerBatch(m)
    <2>1. NumWq \in Nat \ {0} /\ MaxBatch \in Nat \ {0} BY DsaConstants
    <2>2. m + NumWq - 1 \in Nat /\ m + NumWq - 1 >= NumWq BY <2>1
    <2>3. PICK e \in Nat : e = (m + NumWq - 1) \div NumWq /\ e >= 1 BY <2>1, <2>2, DivUp
    <2>4. PerBatch(m) = IF e > MaxBatch THEN MaxBatch ELSE e BY <2>3 DEF PerBatch
    <2> QED BY <2>1, <2>3, <2>4
  <1>3. m + n - 1 \in Nat OBVIOUS
  <1>4. PICK r \in Nat : r = (m + n - 1) \div n BY <1>3, DivUp
  <1>5. PICK B : B = Batches(entries) OBVIOUS
  <1>6. B = [i \in 1..r |-> SubSeq(entries, (i - 1) * n + 1, IF i * n < m THEN i * n ELSE m)]
    BY <1>1, <1>2, <1>4, <1>5 DEF Batches
  <1>7. Len(B) = r BY <1>6
  <1>8. ASSUME NEW i \in 1..r, NEW j \in DOMAIN B[i] PROVE \E k \in 1..m : B[i][j] = entries[k]
    <2>1. PICK a \in Nat : a = (i - 1) * n + 1 /\ a >= 1
      <3>1. (i - 1) * n \in Nat BY SMT
      <3> QED BY <3>1
    <2>2. PICK e \in Nat : e = (IF i * n < m THEN i * n ELSE m) /\ e <= m
      <3>1. i * n \in Nat BY SMT
      <3> QED BY <3>1
    <2>3. B[i] = SubSeq(entries, a, e) BY <1>6, <2>1, <2>2
    <2>4. \A l \in a..e : entries[l] \in S BY <1>1, <2>1, <2>2
    <2>5. a \in Int /\ e \in Int OBVIOUS
    <2>6. PICK q : q = SubSeq(entries, a, e) OBVIOUS
    <2>7. q \in Seq(S) /\ Len(q) = (IF a <= e THEN e - a + 1 ELSE 0)
          /\ \A l \in 1..(e - a + 1) : q[l] = entries[a + l - 1]
      BY <2>4, <2>5, <2>6, SubSeqProperties
    <2>8. DOMAIN q = 1..Len(q) BY <2>7
    <2>9. j \in 1..(e - a + 1) /\ a <= e
      <3>1. j \in 1..Len(q) BY <1>8, <2>3, <2>6, <2>8
      <3>2. CASE a <= e BY <2>7, <3>1, <3>2
      <3>3. CASE ~(a <= e) BY <2>7, <3>1, <3>3
      <3> QED BY <3>2, <3>3
    <2>10. a + j - 1 \in 1..m BY <2>1, <2>2, <2>9
    <2> QED BY <2>3, <2>6, <2>7, <2>9, <2>10
  <1> QED BY <1>1, <1>5, <1>7, <1>8

\* What an entry reaches is decided by its window alone.
LEMMA ThroughReaches ==
  ASSUME NEW next, MapsAre(maps, next), NEW e, Through(maps, e)
  PROVE  EntryRow(e) \in Wanted(e.c)
  <1>1. PICK i \in 1..Len(maps) :
          /\ maps[i].bar = e.bar /\ e.off \in Nat /\ e.off < maps[i].size
          /\ Row(maps[i].va + e.off, e.cpu) \in Wanted(e.c)
    BY DEF Through
  <1>2. PICK hits : hits = {j \in DOMAIN maps : maps[j].bar = e.bar /\ e.off >= 0 /\ e.off < maps[j].size}
    OBVIOUS
  <1>3. DOMAIN maps = 1..Len(maps) /\ Len(maps) \in Nat BY DEF MapsAre, IsSeq
  <1>4. i \in hits BY <1>1, <1>2, <1>3
  <1>5. ASSUME NEW j \in hits PROVE j = i
    <2>1. j \in 1..Len(maps) /\ maps[j].bar = maps[i].bar BY <1>1, <1>2, <1>3
    <2>2. j < i \/ i < j \/ i = j BY <1>3, <2>1
    <2> QED BY <2>1, <2>2 DEF MapsAre
  <1>6. (CHOOSE j \in hits : TRUE) = i BY <1>4, <1>5
  <1>7. Reached(maps, e.bar, e.off) = maps[i].va + e.off
    <2>1. hits # {} BY <1>4
    <2> QED BY <1>2, <1>6, <2>1, Zenon DEF Reached
  <1> QED BY <1>1, <1>7, Zenon DEF EntryRow

LEMMA WindowFollows ==
  WindowInv => (lastTicket <= TicketAll => BarInside)
  <1> SUFFICES ASSUME WindowInv, lastTicket <= TicketAll PROVE BarInside OBVIOUS
  <1>1. CASE ~Gpu BY <1>1 DEF WindowInv, Unused, BarInside
  <1>2. CASE Gpu
    <2>1. MapsAre(maps, nextBar) /\ Flying BY <1>2 DEF WindowInv, WindowOf
    <2>2. ASSUME NEW s \in Slots, hw[s] # None, NEW k \in DOMAIN hw[s].work
          PROVE  EntryRow(hw[s].work[k]) \in Wanted(hw[s].work[k].c)
      <3>1. PICK e : e = hw[s].work[k] OBVIOUS
      <3>2. Through(maps, e) BY <2>1, <2>2, <3>1 DEF Flying, HwFlies, Flies
      <3>3. EntryRow(e) \in Wanted(e.c) BY <2>1, <3>2, ThroughReaches
      <3> QED BY <3>1, <3>3
    <2> QED BY <2>2 DEF BarInside
  <1> QED BY <1>1, <1>2

-----------------------------------------------------------------------------
(* A reset waits for every ticket.                                         *)

LEMMA ResetQuiet ==
  ASSUME Resetting, CtxKeeps, UNCHANGED wait
  PROVE  Resetting'
  BY DEF Resetting, CtxKeeps

LEMMA ResetWaiter ==
  ASSUME TicketInv, Resetting, NEW c \in Ctxs, Waiter(c) \/ Destroy(c)
  PROVE  Resetting'
  <1>1. /\ DOMAIN ctx = Ctxs /\ \A b \in Ctxs : DOMAIN ctx[b] = CtxFields
        /\ DOMAIN wait = Ctxs /\ \A b \in Ctxs : DOMAIN wait[b] = WaitFields
    BY DEF TicketInv, TicketTypes, Ctxs
  <1>2. ASSUME \A b \in Ctxs : b # c => wait'[b] = wait[b] /\ ctx'[b].at = ctx[b].at,
               ctx'[c].at = "reset" => wait'[c].upto = TicketAll
        PROVE  Resetting'
    BY <1>2 DEF Resetting
  <1>3. ASSUME NEW v, ctx' = [ctx EXCEPT ![c].at = v]
        PROVE  ctx'[c].at = v /\ \A b \in Ctxs : b # c => ctx'[b].at = ctx[b].at
    BY <1>1, <1>3 DEF CtxFields
  <1>4. ASSUME NEW v, wait' = [wait EXCEPT ![c] = v] PROVE \A b \in Ctxs : b # c => wait'[b] = wait[b]
    BY <1>1, <1>4
  <1>5. CASE WaitFuture(c)
    <2>1. /\ ctx' = [ctx EXCEPT ![c].at = "dsa"] \/ ctx' = [ctx EXCEPT ![c].at = "event"]
          /\ (\E v : wait' = [wait EXCEPT ![c] = v]) \/ UNCHANGED wait
      BY <1>5 DEF WaitFuture, WaitBegin
    <2> QED BY <1>2, <1>3, <1>4, <2>1
  <1>6. CASE DsaWaitStep(c)
    <2>1. UNCHANGED ctx BY <1>6 DEF DsaWaitStep, xferVars
    <2>2. wait'[c].upto = wait[c].upto /\ \A b \in Ctxs : b # c => wait'[b] = wait[b]
      <3>1. CASE WaitLook(c) BY <1>1, <3>1 DEF WaitLook, WaitFields
      <3>2. CASE WaitPoll(c) BY <1>1, <3>2 DEF WaitPoll, WaitFields
      <3> QED BY <1>6, <3>1, <3>2 DEF DsaWaitStep
    <2> QED BY <1>2, <2>1, <2>2 DEF Resetting
  <1>7. CASE DsaWaited(c) BY <1>2, <1>3, <1>4, <1>7 DEF DsaWaited
  <1>8. CASE EventWait(c) BY <1>2, <1>3, <1>8 DEF EventWait, dsaVars, engineVars
  <1>9. CASE ResetDone(c) BY <1>2, <1>3, <1>4, <1>9 DEF ResetDone, Gone
  <1>10. CASE Destroy(c)
    <2>1. CASE Gone(c) /\ UNCHANGED wait BY <1>2, <1>3, <2>1 DEF Gone
    <2>2. CASE WaitBegin(c, TicketAll) /\ ctx' = [ctx EXCEPT ![c].at = "reset"]
      <3>1. wait' = [wait EXCEPT ![c] = [NotWaiting EXCEPT !.at = "look", !.upto = TicketAll]]
        BY <2>2 DEF WaitBegin
      <3>2. wait'[c].upto = TicketAll BY <1>1, <3>1 DEF NotWaiting
      <3> QED BY <1>2, <1>3, <1>4, <2>2, <3>1, <3>2
    <2> QED BY <1>10, <2>1, <2>2 DEF Destroy, ResetTicket
  <1> QED BY <1>5, <1>6, <1>7, <1>8, <1>9, <1>10 DEF Waiter

-----------------------------------------------------------------------------
(* Calls fit their pools.                                                  *)

\* What a process fixes.
LEMMA ProcFixes ==
  ASSUME UNCHANGED proc
  PROVE  /\ \A c : /\ Job(c)' = Job(c) /\ Pool(c)' = Pool(c) /\ CpuPool(c)' = CpuPool(c)
                   /\ CallSet(c)' = CallSet(c) /\ Wanted(c)' = Wanted(c)
         /\ \A c, xs : Fits(c, xs)' <=> Fits(c, xs)
         /\ \A ms, e : Through(ms, e)' <=> Through(ms, e)
         /\ \A ms, w : Flies(ms, w)' <=> Flies(ms, w)
         /\ \A ms, n : MapsAre(ms, n)' <=> MapsAre(ms, n)
  <1>1. \A c : Job(c)' = Job(c) BY DEF Job
  <1>2. \A c : Pool(c)' = Pool(c) /\ CpuPool(c)' = CpuPool(c) BY <1>1 DEF Pool, CpuPool
  <1>3. \A c : CallSet(c)' = CallSet(c) BY <1>1 DEF CallSet
  <1>4. \A c : Wanted(c)' = Wanted(c) BY <1>1, <1>2, Zenon DEF Wanted
  <1>5. \A c, xs : Fits(c, xs)' <=> Fits(c, xs) BY <1>2, <1>3, Zenon DEF Fits
  <1>6. \A ms, e : Through(ms, e)' <=> Through(ms, e) BY <1>4, Zenon DEF Through
  <1>7. \A ms, w : Flies(ms, w)' <=> Flies(ms, w) BY <1>6, Zenon DEF Flies
  <1>8. \A m : MapOf(m)' <=> MapOf(m) BY <1>2, Zenon DEF MapOf
  <1>9. \A ms, n : MapsAre(ms, n)' <=> MapsAre(ms, n) BY <1>8, Zenon DEF MapsAre
  <1> QED BY <1>1, <1>2, <1>3, <1>4, <1>5, <1>6, <1>7, <1>9

\* Contexts keep their calls and none is created.
CtxAlike ==
  \A c \in Ctxs : ctx'[c].todo = ctx[c].todo /\ (ctx'[c].at # "new" => ctx[c].at # "new")

LEMMA FieldAlike ==
  ASSUME TicketInv
  PROVE  /\ UNCHANGED ctx => CtxAlike
         /\ \A c, v : ctx' = [ctx EXCEPT ![c].fut = v] => CtxAlike
         /\ \A c, v : ctx' = [ctx EXCEPT ![c].ticket = v] => CtxAlike
         /\ \A c, v : ctx' = [ctx EXCEPT ![c].at = v] /\ ctx[c].at # "new" => CtxAlike
  <1>1. DOMAIN ctx = Ctxs /\ \A c \in Ctxs : DOMAIN ctx[c] = CtxFields
    BY DEF TicketInv, TicketTypes
  <1> QED BY <1>1 DEF CtxAlike, CtxFields

LEMMA FitCtxs ==
  ASSUME Fitted, CtxAlike, UNCHANGED proc
  PROVE  \A c \in Ctxs : CtxFits(c)'
  <1>1. \A c : Pool(c)' = Pool(c) /\ CpuPool(c)' = CpuPool(c) /\ CallSet(c)' = CallSet(c) BY ProcFixes
  <1> QED BY <1>1 DEF Fitted, CtxFits, CtxAlike

LEMMA FitSame ==
  ASSUME Fitted, UNCHANGED <<proc, queue>>
  PROVE  \A d \in Dirs : QueueFits(d)'
  BY ProcFixes, Zenon DEF Fitted, QueueFits

LEMMA FitPush ==
  ASSUME QueueIs, Fitted, UNCHANGED proc, NEW d \in Dirs, NEW t,
         queue' = [queue EXCEPT ![d] = Append(@, t)], t.op = "copy" => Fits(t.c, t.xs)
  PROVE  \A e \in Dirs : QueueFits(e)'
  <1>1. ASSUME NEW e \in Dirs PROVE QueueFits(e)'
    <2>1. PICK q : q = queue[e]' OBVIOUS
    <2>2. /\ IsSeq(queue[e])
          /\ \A i \in 1..Len(queue[e]) : queue[e][i].op = "copy" => Fits(queue[e][i].c, queue[e][i].xs)
      BY DEF QueueIs, Fitted, QueueFits
    <2>3. ASSUME NEW i \in 1..Len(q), q[i].op = "copy" PROVE Fits(q[i].c, q[i].xs)
      <3>1. CASE e = d
        <4>1. q = Append(queue[e], t) BY <2>1, <3>1 DEF QueueIs
        <4>2. PICK n \in Nat : n = Len(queue[e]) BY <2>2 DEF IsSeq
        <4>3. Len(q) = n + 1 /\ q[n + 1] = t /\ \A j \in 1..n : q[j] = queue[e][j]
          BY <2>2, <4>1, <4>2, SeqEnd
        <4>4. CASE i = n + 1 BY <2>3, <4>3, <4>4
        <4>5. CASE i <= n
          <5>1. i \in 1..n /\ q[i] = queue[e][i] BY <4>3, <4>5
          <5> QED BY <2>2, <2>3, <4>2, <5>1
        <4> QED BY <4>3, <4>4, <4>5
      <3>2. CASE e # d
        <4>1. q = queue[e] BY <2>1, <3>2 DEF QueueIs
        <4> QED BY <2>2, <2>3, <4>1
      <3> QED BY <3>1, <3>2
    <2>4. \A i \in 1..Len(q) : q[i].op = "copy" => Fits(q[i].c, q[i].xs)' BY <2>3, ProcFixes
    <2> QED BY <2>1, <2>4 DEF QueueFits
  <1> QED BY <1>1

LEMMA FitPop ==
  ASSUME QueueIs, Fitted, UNCHANGED proc, NEW d \in Dirs, queue[d] # <<>>,
         queue' = [queue EXCEPT ![d] = Tail(@)]
  PROVE  \A e \in Dirs : QueueFits(e)'
  <1>1. ASSUME NEW e \in Dirs PROVE QueueFits(e)'
    <2>1. PICK q : q = queue[e]' OBVIOUS
    <2>2. /\ IsSeq(queue[e])
          /\ \A i \in 1..Len(queue[e]) : queue[e][i].op = "copy" => Fits(queue[e][i].c, queue[e][i].xs)
      BY DEF QueueIs, Fitted, QueueFits
    <2>3. ASSUME NEW i \in 1..Len(q), q[i].op = "copy" PROVE Fits(q[i].c, q[i].xs)
      <3>1. CASE e = d
        <4>1. q = Tail(queue[e]) BY <2>1, <3>1 DEF QueueIs
        <4>2. PICK n \in Nat : n = Len(queue[e]) BY <2>2 DEF IsSeq
        <4>3. Len(q) = n - 1 /\ \A j \in 1..(n - 1) : q[j] = queue[e][j + 1]
          BY <2>2, <3>1, <4>1, <4>2, SeqRest
        <4>4. i + 1 \in 1..n /\ q[i] = queue[e][i + 1] BY <4>3
        <4> QED BY <2>2, <2>3, <4>2, <4>4
      <3>2. CASE e # d
        <4>1. q = queue[e] BY <2>1, <3>2 DEF QueueIs
        <4> QED BY <2>2, <2>3, <4>1
      <3> QED BY <3>1, <3>2
    <2>4. \A i \in 1..Len(q) : q[i].op = "copy" => Fits(q[i].c, q[i].xs)' BY <2>3, ProcFixes
    <2> QED BY <2>1, <2>4 DEF QueueFits
  <1> QED BY <1>1

\* Context::create compares the blocks of the two pools.
LEMMA FitCreate ==
  ASSUME TicketInv, OrderInv, Gpu, Fitted, NEW c \in Ctxs, NEW names, Create(c, names), ~aborted'
  PROVE  Fitted'
  <1>1. PICK l : ctx' = [ctx EXCEPT ![c] = Created(c, l)] BY DEF Create
  <1>2. PICK r : r = Created(c, l) OBVIOUS
  <1>3. r.todo = Job(c).calls BY <1>2 DEF Created, New
  <1>4. DOMAIN ctx = Ctxs BY DEF TicketInv, TicketTypes
  <1>5. ctx'[c] = r /\ \A b \in Ctxs : b # c => ctx'[b] = ctx[b] BY <1>1, <1>2, <1>4
  <1>6. UNCHANGED <<proc, queue>> /\ SameBlockGeometry(Pool(c), CpuPool(c)) BY DEF Create
  <1>7. \A b : Pool(b)' = Pool(b) /\ CpuPool(b)' = CpuPool(b) /\ CallSet(b)' = CallSet(b)
    BY <1>6, ProcFixes
  <1>8. ASSUME NEW b \in Ctxs PROVE CtxFits(b)'
    <2>1. CASE b = c
      <3>1. \A i \in 1..Len(r.todo) : r.todo[i] \in CallSet(c) BY <1>3 DEF CallSet
      <3> QED BY <1>5, <1>6, <1>7, <2>1, <3>1 DEF CtxFits
    <2>2. CASE b # c BY <1>5, <1>7, <2>2 DEF CtxFits, Fitted
    <2> QED BY <2>1, <2>2
  <1> QED BY <1>6, <1>8, FitSame DEF Fitted

LEMMA FitIssue ==
  ASSUME TicketInv, OrderInv, Gpu, Fitted, NEW c \in Ctxs, ~aborted',
         XferWaitCurStream(c) \/ XferChunksBatch(c) \/ XferFinish(c)
  PROVE  Fitted'
  <1>1. DOMAIN ctx = Ctxs /\ \A b \in Ctxs : DOMAIN ctx[b] = CtxFields
    BY DEF TicketInv, TicketTypes
  <1>2. UNCHANGED proc BY DEF XferWaitCurStream, XferChunksBatch, XferFinish
  <1>3. PICK d \in Dirs : d = Job(c).dir BY GpuFacts
  <1>4. QueueIs BY PartsNow
  <1>5. ASSUME NEW t, Push(c, t), t.op # "copy", CtxAlike PROVE Fitted'
    <2>1. queue' = [queue EXCEPT ![d] = Append(@, t)] BY <1>3, <1>5 DEF Push
    <2>2. \A e \in Dirs : QueueFits(e)' BY <1>2, <1>4, <1>5, <2>1, FitPush
    <2>3. \A b \in Ctxs : CtxFits(b)' BY <1>2, <1>5, FitCtxs
    <2> QED BY <2>2, <2>3 DEF Fitted
  <1>6. CASE XferWaitCurStream(c)
    <2>1. PICK t : t = [op |-> "cur", c |-> c] OBVIOUS
    <2>2. t.op # "copy" /\ Push(c, t) BY <1>6, <2>1 DEF XferWaitCurStream
    <2>3. CtxAlike BY <1>6, FieldAlike DEF XferWaitCurStream
    <2> QED BY <1>5, <2>2, <2>3
  <1>7. CASE XferFinish(c)
    <2>1. PICK t : t = [op |-> "finish", c |-> c] OBVIOUS
    <2>2. t.op # "copy" /\ Push(c, t) BY <1>7, <2>1 DEF XferFinish
    <2>3. CtxAlike BY <1>7, FieldAlike DEF XferFinish
    <2> QED BY <1>5, <2>2, <2>3
  <1>8. CASE XferChunksBatch(c)
    <2>1. PICK s : s = ctx[c].todo OBVIOUS
    <2>2. PICK xs : xs = Head(s) OBVIOUS
    <2>3. PICK t : t = [op |-> "copy", c |-> c, xs |-> xs] OBVIOUS
    <2>4. /\ ctx[c].at = "issue" /\ s # <<>> /\ ctx' = [ctx EXCEPT ![c].todo = Tail(@)]
          /\ Push(c, t) /\ CheckIndices(Pool(c), xs, 1)
      BY <1>8, <2>1, <2>2, <2>3 DEF XferChunksBatch
    <2>5. IsSeq(s) /\ (\A i \in 1..Len(s) : s[i] \in CallSet(c)) /\ SameBlockGeometry(Pool(c), CpuPool(c))
      BY <2>1, <2>4, PartsNow DEF TodoOk, Fitted, CtxFits
    <2>6. PICK n \in Nat : n = Len(s) BY <2>5 DEF IsSeq
    <2>7. /\ n > 0 /\ Len(Tail(s)) = n - 1 /\ Head(s) = s[1] /\ \A i \in 1..(n - 1) : Tail(s)[i] = s[i + 1]
      BY <2>4, <2>5, <2>6, SeqRest
    <2>8. Fits(c, xs)
      <3>1. 1 \in 1..n /\ xs = s[1] BY <2>2, <2>7
      <3> QED BY <2>4, <2>5, <2>6, <3>1 DEF Fits
    <2>9. \A e \in Dirs : QueueFits(e)'
      <3>1. queue' = [queue EXCEPT ![d] = Append(@, t)] BY <1>3, <2>4 DEF Push
      <3>2. t.op = "copy" /\ t.c = c /\ t.xs = xs BY <2>3
      <3>3. t.op = "copy" => Fits(t.c, t.xs) BY <2>8, <3>2
      <3> QED BY <1>2, <1>4, <3>1, <3>3, FitPush
    <2>10. ASSUME NEW b \in Ctxs PROVE CtxFits(b)'
      <3>1. Pool(b)' = Pool(b) /\ CpuPool(b)' = CpuPool(b) /\ CallSet(b)' = CallSet(b) BY <1>2, ProcFixes
      <3>2. CASE b = c
        <4>1. ctx'[b].todo = Tail(s) BY <1>1, <2>1, <2>4, <3>2 DEF CtxFields
        <4>2. ASSUME NEW i \in 1..(n - 1) PROVE Tail(s)[i] \in CallSet(c)
          <5>1. i + 1 \in 1..n /\ Tail(s)[i] = s[i + 1] BY <2>7
          <5> QED BY <2>5, <2>6, <5>1
        <4> QED BY <2>5, <2>7, <3>1, <3>2, <4>1, <4>2 DEF CtxFits
      <3>3. CASE b # c
        <4>1. ctx'[b] = ctx[b] BY <1>1, <2>4, <3>3
        <4> QED BY <3>1, <4>1 DEF CtxFits, Fitted
      <3> QED BY <3>2, <3>3
    <2> QED BY <2>9, <2>10 DEF Fitted
  <1> QED BY <1>6, <1>7, <1>8

-----------------------------------------------------------------------------
(* Entries stay in their windows.                                          *)

LEMMA FlyQuiet ==
  ASSUME MapsAre(maps, nextBar), lastTicket <= TicketAll => Flying,
         UNCHANGED <<proc, maps, nextBar, hw, call, lastTicket>>
  PROVE  MapsAre(maps, nextBar)' /\ (lastTicket <= TicketAll => Flying)'
  <1>1. MapsAre(maps, nextBar)' BY ProcFixes
  <1>2. \A w : Flies(maps, w)' <=> Flies(maps, w) BY ProcFixes
  <1>3. ASSUME NEW s \in Slots, HwFlies(s) PROVE HwFlies(s)' BY <1>2, <1>3 DEF HwFlies
  <1>4. ASSUME NEW d \in Dirs, CallFlies(d) PROVE CallFlies(d)' BY <1>2, <1>4 DEF CallFlies
  <1> QED BY <1>1, <1>3, <1>4 DEF Flying

\* A copy is mapped, and its batches laid out.
LEMMA FlyBegin ==
  ASSUME TicketInv, OrderInv, Gpu, Fitted, MapsAre(maps, nextBar), lastTicket <= TicketAll => Flying,
         NEW d \in Dirs, NEW ok, RunCopyDsa(d, ok)
  PROVE  MapsAre(maps, nextBar)' /\ (lastTicket <= TicketAll => Flying)'
  <1>1. PICK c : c = Head(queue[d]).c OBVIOUS
  <1>2. PICK xs : xs = Head(queue[d]).xs OBVIOUS
  <1>3. PICK ms : ms = Registered(Pool(c).base, Span(c, xs), ok) OBVIOUS
  <1>4. PICK E : E = Entries(c, xs, BarAddr(ms, Pool(c).base, Pool(c).inner)) OBVIOUS
  <1>5. HeadIs(d, "copy") /\ UNCHANGED proc BY DEF RunCopyDsa
  <1>6. \/ UNCHANGED dsaVars
        \/ /\ FindEnclosing(ms, Pool(c).base, Span(c, xs)) # None
           /\ maps' = ms /\ nextBar' = (IF ms = maps THEN nextBar ELSE nextBar + 1)
           /\ UNCHANGED <<engineVars, holder>> \/ AsyncBegin(d, E)
    BY <1>1, <1>2, <1>3, <1>4, ZenonT(30) DEF RunCopyDsa
  <1>7. CASE UNCHANGED dsaVars
    <2>1. UNCHANGED <<maps, nextBar, hw, call, lastTicket>> BY <1>7 DEF dsaVars, engineVars, slotVars
    <2> QED BY <1>5, <2>1, FlyQuiet
  <1>8. CASE /\ FindEnclosing(ms, Pool(c).base, Span(c, xs)) # None
             /\ maps' = ms /\ nextBar' = (IF ms = maps THEN nextBar ELSE nextBar + 1)
             /\ UNCHANGED <<engineVars, holder>> \/ AsyncBegin(d, E)
    <2>1. queue[d] # <<>> /\ Head(queue[d]).op = "copy" BY <1>5 DEF HeadIs
    <2>2. c \in Ctxs BY <1>1, <2>1, FirstTask DEF TaskOk
    <2>3. Fits(c, xs)
      <3>1. Head(queue[d]) = queue[d][1] BY <2>1, FirstTask
      <3>2. 1 \in 1..Len(queue[d])
        <4>1. Len(queue[d]) \in Nat /\ Len(queue[d]) > 0 BY <2>1, PartsNow, SeqRest DEF QueueIs, IsSeq
        <4> QED BY <4>1
      <3> QED BY <1>1, <1>2, <2>1, <3>1, <3>2 DEF Fitted, QueueFits
    <2>4. PICK n \in Nat \ {0} : n = Span(c, xs) /\ n <= Pool(c).outer * Pool(c).outerSize
      BY <2>2, <2>3, SpanFacts
    <2>5. PICK next : next = IF ms = maps THEN nextBar ELSE nextBar + 1 OBVIOUS
    <2>6. MapsAre(ms, next) /\ \A e : Through(maps, e) => Through(ms, e)
      <3>1. ms = Registered(Pool(c).base, n, ok) BY <1>3, <2>4
      <3> QED BY <2>2, <2>4, <2>5, <3>1, RegisteredMaps
    <2>7. maps' = ms /\ nextBar' = next BY <1>8, <2>5
    <2>8. MapsAre(maps, nextBar)' BY <1>5, <2>6, <2>7, ProcFixes
    <2>9. \A w : Flies(maps, w) => Flies(ms, w) BY <2>6 DEF Flies
    <2>10. \A w : Flies(ms, w) => Flies(maps, w)' BY <1>5, <2>7, ProcFixes
    <2>11. UNCHANGED hw /\ lastTicket \in Nat /\ DOMAIN call = Dirs
      BY <1>8, XferConstants DEF AsyncBegin, engineVars, slotVars, TicketInv, TicketTypes
    <2>12. \/ UNCHANGED <<call, lastTicket>>
           \/ /\ lastTicket' = lastTicket + 1
              /\ call' = [call EXCEPT ![d] = [ticket |-> lastTicket + 1, todo |-> Batches(E)]]
      BY <1>8 DEF AsyncBegin, engineVars
    <2>13. ASSUME lastTicket' <= TicketAll PROVE Flying
      <3>1. lastTicket <= TicketAll BY <2>11, <2>12, <2>13, DsaConstants
      <3> QED BY <3>1
    <2>14. ASSUME NEW i \in 1..Len(Batches(E)) PROVE Flies(ms, Batches(E)[i])
      <3>1. PICK h \in 1..Len(ms) : Encloses(ms[h], Pool(c).base, Span(c, xs))
        BY <1>8, <2>6, FoundNone DEF MapsAre
      <3>2. \A k \in 1..Len(E) : Through(ms, E[k]) BY <1>4, <2>2, <2>3, <2>6, <3>1, EntryReaches
      <3>3. Len(xs) \in Nat \ {0} /\ Pool(c).outer \in Nat \ {0} BY <2>2, <2>3, CallFacts, PoolFacts
      <3>4. PICK b : b = BarAddr(ms, Pool(c).base, Pool(c).inner) OBVIOUS
      <3>5. E = Entries(c, xs, b) BY <1>4, <3>4
      <3>6. PICK S : E \in Seq(S) /\ Len(E) > 0 BY <3>3, <3>5, EntriesOf
      <3>7. ASSUME NEW j \in DOMAIN Batches(E)[i] PROVE Through(ms, Batches(E)[i][j])
        <4>1. PICK k \in 1..Len(E) : Batches(E)[i][j] = E[k] BY <3>6, BatchParts
        <4> QED BY <3>2, <4>1
      <3> QED BY <3>7 DEF Flies
    <2>15. ASSUME lastTicket' <= TicketAll PROVE Flying'
      <3>1. \A s \in Slots : HwFlies(s)' BY <2>9, <2>10, <2>11, <2>13, <2>15 DEF Flying, HwFlies
      <3>2. ASSUME NEW e \in Dirs PROVE CallFlies(e)'
        <4>1. CallFlies(e) BY <2>13, <2>15 DEF Flying
        <4>2. CASE call'[e] = call[e] BY <2>9, <2>10, <4>1, <4>2 DEF CallFlies
        <4>3. CASE call'[e] # call[e]
          <5>1. call'[e].todo = Batches(E) BY <2>11, <2>12, <4>3
          <5> QED BY <2>10, <2>14, <5>1 DEF CallFlies
        <4> QED BY <4>2, <4>3
      <3> QED BY <3>1, <3>2 DEF Flying
    <2> QED BY <2>8, <2>15
  <1> QED BY <1>6, <1>7, <1>8

\* A batch goes out with the entries it was laid out with.
LEMMA FlySubmit ==
  ASSUME TicketInv, OrderInv, Gpu, MapsAre(maps, nextBar), lastTicket <= TicketAll => Flying,
         NEW d \in Dirs, RunDsaSubmit(d)
  PROVE  MapsAre(maps, nextBar)' /\ (lastTicket <= TicketAll => Flying)'
  <1>1. SubmitSlot(d) /\ call[d] # None BY DEF RunDsaSubmit, SubmitSlot
  <1>2. UNCHANGED <<proc, maps, nextBar, lastTicket>> BY <1>1 DEF RunDsaSubmit, SubmitSlot
  <1>3. MapsAre(maps, nextBar)' BY <1>2, ProcFixes
  <1>4. \A w : Flies(maps, w) => Flies(maps, w)' BY <1>2, ProcFixes
  <1>5. PICK td : td = call[d].todo OBVIOUS
  <1>6. IsSeq(td) /\ Len(td) > 0 BY <1>1, <1>5, PartsNow DEF CallIs, CallOk
  <1>7. PICK n \in Nat : n = Len(td) BY <1>6 DEF IsSeq
  <1>8. td # <<>> BY <1>6, SeqNonEmpty
  <1>9. /\ Len(Tail(td)) = n - 1 /\ Head(td) = td[1] /\ \A i \in 1..(n - 1) : Tail(td)[i] = td[i + 1]
    BY <1>6, <1>7, <1>8, SeqRest
  <1>10. PICK s : /\ hw' = [hw EXCEPT ![s] = [ticket |-> call[d].ticket, work |-> Head(td)]]
                  /\ call' = [call EXCEPT ![d] = IF Len(@.todo) = 1 THEN None
                                                 ELSE [call[d] EXCEPT !.todo = Tail(@)]]
    BY <1>1, <1>5 DEF SubmitSlot, SubmitBatch
  <1>11. DOMAIN call = Dirs /\ DOMAIN hw = Slots /\ DOMAIN call[d] = {"ticket", "todo"}
    BY <1>1, XferConstants DEF TicketInv, TicketTypes, CallOf
  <1>12. \A e \in Dirs : e # d => call'[e] = call[e] BY <1>10, <1>11
  <1>13. call'[d] # None => call'[d].todo = Tail(td) BY <1>5, <1>10, <1>11
  <1>14. ASSUME lastTicket' <= TicketAll PROVE Flying'
    <2>1. Flying BY <1>2, <1>14
    <2>2. \A i \in 1..n : Flies(maps, td[i]) BY <1>1, <1>5, <1>7, <2>1 DEF Flying, CallFlies
    <2>3. ASSUME NEW r \in Slots PROVE HwFlies(r)'
      <3>1. CASE r = s
        <4>1. hw'[r].work = Head(td) BY <1>10, <1>11, <3>1
        <4>2. 1 \in 1..n BY <1>6, <1>7
        <4>3. Flies(maps, Head(td)) BY <1>9, <2>2, <4>2
        <4> QED BY <1>4, <4>1, <4>3 DEF HwFlies
      <3>2. CASE r # s
        <4>1. hw'[r] = hw[r] /\ HwFlies(r) BY <1>10, <1>11, <2>1, <3>2 DEF Flying
        <4> QED BY <1>4, <4>1 DEF HwFlies
      <3> QED BY <3>1, <3>2
    <2>4. ASSUME NEW e \in Dirs PROVE CallFlies(e)'
      <3>1. CASE e = d
        <4>1. ASSUME NEW i \in 1..(n - 1) PROVE Flies(maps, Tail(td)[i])'
          <5>1. i + 1 \in 1..n /\ Tail(td)[i] = td[i + 1] BY <1>9
          <5> QED BY <1>4, <2>2, <5>1
        <4> QED BY <1>9, <1>13, <3>1, <4>1 DEF CallFlies
      <3>2. CASE e # d
        <4>1. call'[e] = call[e] /\ CallFlies(e) BY <1>12, <2>1, <3>2 DEF Flying
        <4> QED BY <1>4, <4>1 DEF CallFlies
      <3> QED BY <3>1, <3>2
    <2> QED BY <2>3, <2>4 DEF Flying
  <1> QED BY <1>3, <1>14

LEMMA FlyDone ==
  ASSUME TicketInv, MapsAre(maps, nextBar), lastTicket <= TicketAll => Flying,
         NEW s \in Slots, NEW ok, DsaStep(s, ok)
  PROVE  MapsAre(maps, nextBar)' /\ (lastTicket <= TicketAll => Flying)'
  <1>1. UNCHANGED <<proc, maps, nextBar, lastTicket, call>> /\ hw' = [hw EXCEPT ![s] = None]
    BY DEF DsaStep, HwDone
  <1>2. MapsAre(maps, nextBar)' BY <1>1, ProcFixes
  <1>3. \A w : Flies(maps, w) => Flies(maps, w)' BY <1>1, ProcFixes
  <1>4. DOMAIN hw = Slots BY DEF TicketInv, TicketTypes
  <1>5. ASSUME NEW r \in Slots, HwFlies(r) PROVE HwFlies(r)'
    <2>1. hw'[r] = None \/ hw'[r] = hw[r] BY <1>1, <1>4
    <2> QED BY <1>3, <1>5, <2>1 DEF HwFlies
  <1>6. ASSUME NEW d \in Dirs, CallFlies(d) PROVE CallFlies(d)' BY <1>1, <1>3, <1>6 DEF CallFlies
  <1> QED BY <1>1, <1>2, <1>5, <1>6 DEF Flying

\* When a reset tears the mappings down nothing is in flight: it waited for every
\* ticket, and holds the mutex that a call needs to draw a new one.
LEMMA FlyReset ==
  ASSUME TicketInv, Resetting, MapsAre(maps, nextBar), NEW c \in Ctxs, ResetDone(c)
  PROVE  MapsAre(maps, nextBar)' /\ (lastTicket <= TicketAll => Flying)'
  <1>1. /\ ctx[c].at = "reset" /\ wait[c].at = "back" /\ maps' = <<>>
        /\ UNCHANGED <<hw, call, lastTicket, nextBar, proc>>
    BY DEF ResetDone, slotVars
  <1>2. MapsAre(maps, nextBar)'
    <2>1. PICK ms : ms = <<>> OBVIOUS
    <2>2. IsSeq(ms) /\ 1..Len(ms) = {} /\ nextBar \in Nat BY <2>1 DEF IsSeq, MapsAre
    <2>3. MapsAre(ms, nextBar) BY <2>2 DEF MapsAre
    <2> QED BY <1>1, <2>1, <2>3, ProcFixes
  <1>3. ASSUME NEW s \in Slots, lastTicket <= TicketAll PROVE hw[s] = None
    <2>1. SUFFICES ASSUME hw[s] # None PROVE FALSE OBVIOUS
    <2>2. wait[c].upto = TicketAll BY <1>1 DEF Resetting
    <2>3. hw[s].ticket > TicketAll BY <1>1, <2>1, <2>2 DEF TicketInv, WaitCovers, Ctxs
    <2>4. hw[s].ticket \in 1..lastTicket /\ lastTicket \in Nat
      BY <2>1 DEF TicketInv, TicketTypes, SlotOf
    <2> QED BY <1>3, <2>3, <2>4, DsaConstants
  <1>4. ASSUME NEW d \in Dirs PROVE call[d] = None
    <2>1. holder = c BY <1>1 DEF TicketInv, WaitOf
    <2>2. d # c BY XferConstants, DsaConstants DEF Ctxs
    <2> QED BY <2>1, <2>2 DEF TicketInv, CallOf
  <1>5. ASSUME (lastTicket <= TicketAll)' PROVE Flying'
    <2>1. \A s \in Slots : HwFlies(s)' BY <1>1, <1>3, <1>5 DEF HwFlies
    <2>2. \A d \in Dirs : CallFlies(d)' BY <1>1, <1>4 DEF CallFlies
    <2> QED BY <2>1, <2>2 DEF Flying
  <1> QED BY <1>2, <1>5

LEMMA WindowInit == Init => WindowInv
  <1> SUFFICES ASSUME Init PROVE WindowInv OBVIOUS
  <1>1. Unused BY XferConstants DEF Init, DsaInit, Unused
  <1>2. IsSeq(<<>>) /\ Len(<<>>) = 0 BY DEF IsSeq
  <1>3. Resetting BY DEF Init, New, Resetting
  <1>4. MapsAre(maps, nextBar)
    <2>1. PICK ms : ms = <<>> OBVIOUS
    <2>2. IsSeq(ms) /\ 1..Len(ms) = {} BY <1>2, <2>1
    <2>3. MapsAre(ms, 1) BY <2>2 DEF MapsAre
    <2> QED BY <2>1, <2>3 DEF Init, DsaInit
  <1>5. Fitted
    <2>1. \A c \in Ctxs : CtxFits(c) BY <1>2 DEF Init, New, CtxFits
    <2>2. \A d \in Dirs : QueueFits(d) BY <1>2 DEF Init, QueueFits
    <2> QED BY <2>1, <2>2 DEF Fitted
  <1>6. Flying BY <1>1 DEF Unused, Flying, HwFlies, CallFlies
  <1> QED BY <1>1, <1>3, <1>4, <1>5, <1>6 DEF WindowInv, WindowOf

\* Without a GPU no call reaches the engine.
LEMMA UnusedStep == ~Gpu /\ Unused /\ [Next]_vars => Unused'
  <1> SUFFICES ASSUME ~Gpu, Unused, [Next]_vars PROVE Unused' OBVIOUS
  <1>1. SUFFICES UNCHANGED <<hw, call>> BY <1>1 DEF Unused
  <1>2. CASE UNCHANGED vars BY <1>2 DEF vars, dsaVars, engineVars, slotVars
  <1>3. CASE RdmaInit \/ \E n \in DOMAIN proc.pools : RegisterPool(n) \/ UnregisterPool(n)
    BY <1>3 DEF RdmaInit, RegisterPool, UnregisterPool, dsaVars, engineVars, slotVars
  <1>4. ASSUME NEW c, Caller(c) PROVE UNCHANGED <<hw, call>>
    BY <1>4 DEF Caller, FlowCreate, CopierCreate, Create, XferWaitCurStream, XferChunksBatch, XferFinish,
                dsaVars, engineVars, slotVars
  <1>5. ASSUME NEW c, Waiter(c) \/ Destroy(c) PROVE UNCHANGED <<hw, call>>
    BY <1>5 DEF Waiter, WaitFuture, DsaWaitStep, WaitLook, WaitPoll, DsaWaited, EventWait, ResetDone,
                Destroy, dsaVars, engineVars, slotVars
  <1>6. ASSUME NEW d \in Dirs, Worker(d) PROVE UNCHANGED <<hw, call>>
    <2>1. ~RunDsaSubmit(d) BY DEF Unused, RunDsaSubmit, SubmitSlot
    <2>2. \A ok : ~RunCopyDsa(d, ok) BY Zenon DEF RunCopyDsa
    <2>3. ASSUME NEW ok, RunRdmaDone(d, ok) PROVE UNCHANGED <<hw, call>>
      BY <2>3 DEF RunRdmaDone, dsaVars, engineVars, slotVars
    <2>4. CASE RunCur(d) \/ RunFinish(d) \/ RunCopyStream(d) \/ RunRdmaPost(d) \/ RunCopyCpu(d)
      BY <2>4 DEF RunCur, RunFinish, RunCopyStream, RunRdmaPost, RunCopyCpu, dsaVars, engineVars, slotVars
    <2> QED BY <1>6, <2>1, <2>2, <2>3, <2>4 DEF Worker
  <1>7. CASE Device
    <2>1. ASSUME NEW s \in Slots, NEW ok PROVE ~DsaStep(s, ok) BY DEF Unused, DsaStep, HwDone
    <2>2. CASE CurStep \/ \E x \in Dirs \cup Ctxs : StreamStep(x)
      BY <2>2 DEF CurStep, StreamStep, dsaVars, engineVars, slotVars
    <2> QED BY <1>7, <2>1, <2>2 DEF Device
  <1> QED BY <1>2, <1>3, <1>4, <1>5, <1>6, <1>7 DEF Next

\* A step that leaves the engine and its mappings alone.
LEMMA WindowQuiet ==
  ASSUME WindowOf, CtxKeeps, UNCHANGED <<dsaVars, proc>>, ~aborted' => Fitted'
  PROVE  WindowOf'
  <1>1. UNCHANGED <<wait, maps, nextBar, hw, call, lastTicket>> BY DEF dsaVars, engineVars, slotVars
  <1>2. Resetting' BY <1>1, ResetQuiet DEF WindowOf
  <1>3. MapsAre(maps, nextBar)' /\ (lastTicket <= TicketAll => Flying)' BY <1>1, FlyQuiet DEF WindowOf
  <1> QED BY <1>2, <1>3 DEF WindowOf

LEMMA WindowWorker ==
  ASSUME TicketInv, OrderInv, Gpu, WindowOf, ~aborted, NEW d \in Dirs, Worker(d)
  PROVE  WindowOf'
  <1>1. Fitted /\ QueueIs BY PartsNow DEF WindowOf
  <1>2. ASSUME queue[d] # <<>>, Pop(d), CtxAlike, UNCHANGED proc PROVE Fitted'
    BY <1>1, <1>2, FitPop, FitCtxs DEF Fitted, Pop
  <1>3. ASSUME UNCHANGED <<queue, proc, ctx>> PROVE Fitted'
    <2>1. CtxAlike BY <1>3 DEF CtxAlike
    <2> QED BY <1>1, <1>3, <2>1, FitSame, FitCtxs DEF Fitted
  <1>4. CASE RunCur(d) \/ RunCopyStream(d)
    <2>1. queue[d] # <<>> /\ Pop(d) /\ UNCHANGED <<dsaVars, proc, ctx>>
      BY <1>4 DEF RunCur, RunCopyStream, HeadIs
    <2>2. CtxAlike /\ CtxKeeps BY <2>1, FieldAlike, KeepsField
    <2> QED BY <1>2, <2>1, <2>2, WindowQuiet
  <1>5. CASE RunFinish(d)
    <2>1. /\ queue[d] # <<>> /\ Pop(d) /\ UNCHANGED <<dsaVars, proc>>
          /\ ctx' = [ctx EXCEPT ![Head(queue[d]).c].fut = TRUE]
      BY <1>5 DEF RunFinish, HeadIs
    <2>2. CtxAlike /\ CtxKeeps BY <2>1, FieldAlike, KeepsField
    <2> QED BY <1>2, <2>1, <2>2, WindowQuiet
  <1>6. CASE RunDsaSubmit(d)
    <2>1. /\ UNCHANGED <<proc, wait>> /\ call[d] # None
          /\ \/ ctx' = [ctx EXCEPT ![Head(queue[d]).c].ticket = call[d].ticket] /\ Pop(d)
             \/ UNCHANGED <<ctx, queue>>
      BY <1>6 DEF RunDsaSubmit, SubmitSlot
    <2>2. queue[d] # <<>> BY <2>1, PartsNow DEF CallIs, CallOk
    <2>3. \A c \in Ctxs : ctx'[c].at = ctx[c].at
      <3>1. DOMAIN ctx = Ctxs /\ \A c \in Ctxs : DOMAIN ctx[c] = CtxFields BY DEF TicketInv, TicketTypes
      <3> QED BY <2>1, <3>1 DEF CtxFields
    <2>4. Resetting' BY <2>1, <2>3 DEF WindowOf, Resetting
    <2>5. Fitted' BY <1>2, <1>3, <2>1, <2>2, FieldAlike
    <2>6. MapsAre(maps, nextBar)' /\ (lastTicket <= TicketAll => Flying)'
      BY <1>6, FlySubmit DEF WindowOf
    <2> QED BY <2>4, <2>5, <2>6 DEF WindowOf
  <1>7. ASSUME NEW ok, RunCopyDsa(d, ok) PROVE WindowOf'
    <2>1. /\ HeadIs(d, "copy") /\ UNCHANGED <<proc, ctx>> /\ (Pop(d) \/ UNCHANGED queue)
          /\ UNCHANGED dsaVars \/ UNCHANGED engineVars \/ \E E : AsyncBegin(d, E)
      BY <1>7, ZenonT(30) DEF RunCopyDsa
    <2>2. queue[d] # <<>> /\ UNCHANGED wait BY <2>1 DEF HeadIs, AsyncBegin, dsaVars, engineVars
    <2>3. CtxAlike BY <2>1 DEF CtxAlike
    <2>4. Fitted' BY <1>2, <1>3, <2>1, <2>2, <2>3
    <2>5. Resetting' BY <2>1, <2>2 DEF WindowOf, Resetting
    <2>6. MapsAre(maps, nextBar)' /\ (lastTicket <= TicketAll => Flying)'
      BY <1>1, <1>7, FlyBegin DEF WindowOf
    <2> QED BY <2>4, <2>5, <2>6 DEF WindowOf
  <1>8. ~RunRdmaPost(d) /\ ~RunCopyCpu(d) BY DEF RunRdmaPost, RunCopyCpu, Remote, Gpu
  <1>9. \A ok : ~RunRdmaDone(d, ok) BY PartsNow DEF RunRdmaDone, RestIs
  <1> QED BY <1>4, <1>5, <1>6, <1>7, <1>8, <1>9 DEF Worker

LEMMA WindowThread ==
  ASSUME TicketInv, OrderInv, Gpu, WindowOf, ~aborted, NEW c \in Ctxs, Waiter(c) \/ Destroy(c)
  PROVE  WindowOf'
  <1>1. Resetting' BY ResetWaiter DEF WindowOf
  <1>2. UNCHANGED <<proc, queue>>
    BY DEF Waiter, WaitFuture, DsaWaitStep, DsaWaited, EventWait, ResetDone, Destroy, xferVars
  <1>3. CtxAlike
    <2>1. CASE DsaWaitStep(c) BY <2>1 DEF DsaWaitStep, xferVars, CtxAlike
    <2>2. CASE ~DsaWaitStep(c)
      <3>1. ctx[c].at # "new" /\ \E v : ctx' = [ctx EXCEPT ![c].at = v]
        BY <2>2 DEF Waiter, WaitFuture, DsaWaited, EventWait, ResetDone, Gone, Destroy
      <3> QED BY <3>1, FieldAlike
    <2> QED BY <2>1, <2>2
  <1>4. Fitted' BY <1>2, <1>3, FitSame, FitCtxs DEF Fitted, WindowOf
  <1>5. MapsAre(maps, nextBar)' /\ (lastTicket <= TicketAll => Flying)'
    <2>1. CASE ResetDone(c) BY <2>1, FlyReset DEF WindowOf
    <2>2. CASE ~ResetDone(c)
      <3>1. UNCHANGED <<maps, nextBar, hw, call, lastTicket>>
        BY <2>2 DEF Waiter, WaitFuture, DsaWaitStep, WaitLook, WaitPoll, DsaWaited, EventWait, Destroy,
                    dsaVars, engineVars, slotVars
      <3> QED BY <1>2, <3>1, FlyQuiet DEF WindowOf
    <2> QED BY <2>1, <2>2
  <1> QED BY <1>1, <1>4, <1>5 DEF WindowOf

LEMMA WindowStep == TicketInv /\ OrderInv /\ WindowInv /\ [Next]_vars => WindowInv'
  <1> SUFFICES ASSUME TicketInv, OrderInv, WindowInv, [Next]_vars PROVE WindowInv' OBVIOUS
  <1>1. proc' = proc /\ (Gpu' <=> Gpu) BY ProcStays DEF Gpu
  <1>2. CASE ~Gpu BY <1>1, <1>2, UnusedStep DEF WindowInv
  <1>3. CASE Gpu
    <2>0. WindowOf BY <1>3 DEF WindowInv
    <2>1. SUFFICES WindowOf' BY <1>1, <1>3, <2>1 DEF WindowInv
    <2>2. ASSUME UNCHANGED <<dsaVars, proc, ctx, queue>>, aborted => aborted' PROVE WindowOf'
      <3>1. CtxAlike /\ CtxKeeps BY <2>2, FieldAlike, KeepsField
      <3>2. ASSUME ~aborted' PROVE Fitted'
        <4>1. Fitted BY <2>0, <2>2, <3>2 DEF WindowOf
        <4> QED BY <2>2, <3>1, <4>1, FitSame, FitCtxs DEF Fitted
      <3> QED BY <2>0, <2>2, <3>1, <3>2, WindowQuiet
    <2>3. CASE UNCHANGED vars BY <2>2, <2>3 DEF vars, xferVars
    <2>4. CASE Next
      <3>0. ~aborted /\ Fitted BY <2>0, <2>4 DEF Next, WindowOf
      <3>1. CASE RdmaInit \/ \E n \in DOMAIN proc.pools : RegisterPool(n) \/ UnregisterPool(n)
        BY <2>2, <3>0, <3>1 DEF RdmaInit, RegisterPool, UnregisterPool
      <3>2. ASSUME NEW c \in Ctxs, Caller(c) PROVE WindowOf'
        <4>1. ASSUME NEW names, Create(c, names) PROVE WindowOf'
          <5>1. CtxKeeps /\ UNCHANGED <<dsaVars, proc>> BY <4>1, KeepsCreate DEF Create
          <5>2. ~aborted' => Fitted' BY <1>3, <3>0, <4>1, FitCreate
          <5> QED BY <2>0, <5>1, <5>2, WindowQuiet
        <4>2. CASE FlowCreate(c) \/ CopierCreate(c) BY <4>1, <4>2 DEF FlowCreate, CopierCreate
        <4>3. CASE XferWaitCurStream(c) \/ XferChunksBatch(c) \/ XferFinish(c)
          <5>1. ~aborted' => Fitted' BY <1>3, <3>0, <4>3, FitIssue
          <5>2. UNCHANGED <<dsaVars, proc>> BY <4>3 DEF XferWaitCurStream, XferChunksBatch, XferFinish
          <5>3. CtxKeeps BY <4>3, KeepsField DEF XferWaitCurStream, XferChunksBatch, XferFinish
          <5> QED BY <2>0, <5>1, <5>2, <5>3, WindowQuiet
        <4> QED BY <3>2, <4>2, <4>3 DEF Caller
      <3>3. ASSUME NEW c \in Ctxs, Waiter(c) \/ Destroy(c) PROVE WindowOf'
        BY <1>3, <2>0, <3>0, <3>3, WindowThread
      <3>4. ASSUME NEW d \in Dirs, Worker(d) PROVE WindowOf' BY <1>3, <2>0, <3>0, <3>4, WindowWorker
      <3>5. CASE Device
        <4>1. CASE CurStep \/ \E x \in Dirs \cup Ctxs : StreamStep(x)
          BY <2>2, <3>0, <4>1 DEF CurStep, StreamStep
        <4>2. ASSUME NEW s \in Slots, NEW ok, DsaStep(s, ok) PROVE WindowOf'
          <5>1. UNCHANGED <<proc, ctx, queue, wait>> BY <4>2 DEF DsaStep, HwDone
          <5>2. CtxAlike BY <5>1 DEF CtxAlike
          <5>3. Fitted' BY <3>0, <5>1, <5>2, FitSame, FitCtxs DEF Fitted
          <5>4. Resetting' BY <2>0, <5>1 DEF WindowOf, Resetting
          <5>5. MapsAre(maps, nextBar)' /\ (lastTicket <= TicketAll => Flying)'
            BY <2>0, <4>2, FlyDone DEF WindowOf
          <5> QED BY <5>3, <5>4, <5>5 DEF WindowOf
        <4> QED BY <3>5, <4>1, <4>2 DEF Device
      <3> QED BY <2>4, <3>1, <3>2, <3>3, <3>4, <3>5 DEF Next
    <2> QED BY <2>3, <2>4
  <1> QED BY <1>2, <1>3

\* A batch reaches the memory it was built for: until the tickets run out, each
\* entry with the engine points through a mapping that exists at a row its context
\* asked for, though windows of one pool overlap, the base is looked up again by its
\* first row only, and a destructor tears all mappings down.
THEOREM BatchesStayInWindows == Spec => [](lastTicket <= TicketAll => BarInside)
  <1>1. Init => TicketInv /\ OrderInv /\ WindowInv BY TicketInit, OrderInit, WindowInit
  <1>2. TicketInv /\ OrderInv /\ WindowInv /\ [Next]_vars => (TicketInv /\ OrderInv /\ WindowInv)'
    BY TicketStep, OrderStep, WindowStep
  <1> QED BY <1>1, <1>2, WindowFollows, PTL DEF Spec

=============================================================================
