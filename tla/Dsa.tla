-------------------------------- MODULE Dsa --------------------------------
(***************************************************************************)
(* The asynchronous side of the DSA engine (dsa_memcpy.c) and the mappings *)
(* of GPU memory it copies through (dsa_gd.c), as dsa.cpp uses them.       *)
(*                                                                         *)
(* A submitter holds dsa_context_mutex for a whole call: it maps the       *)
(* memory, takes a ticket and hands the batches to the work queues.  A     *)
(* waiter does not take that mutex: it looks for an unfinished batch of    *)
(* its ticket or an older one and polls that batch's completion record     *)
(* without any lock, while the slot may be reaped and reused by others.    *)
(***************************************************************************)
EXTENDS Integers, Sequences, FiniteSets

CONSTANTS
  NumWq,       \* work queues of IAXL_DSA_WQS
  Depth,       \* DSA_BATCH_DEPTH
  MaxBatch,    \* max_batch_size of the queue
  MaxXfer,     \* max_transfer_size of the queue
  PageSize,    \* GD_GPU_PAGE_SIZE
  Submitters,  \* threads that submit
  Waiters,     \* threads that wait
  TicketAll,   \* DSA_TICKET_ALL
  None

ASSUME DsaConstants ==
  /\ NumWq \in Nat \ {0} /\ Depth \in Nat \ {0} /\ MaxBatch \in Nat \ {0}
  /\ MaxXfer \in Nat \ {0}
  /\ PageSize \in Nat \ {0} /\ TicketAll \in Nat
  /\ None \notin Submitters \cup Waiters /\ Submitters \cap Waiters = {}
  /\ None \notin [va : Int, bar : Int, size : Int]

Queues == 0..(NumWq - 1)
Slots == Queues \X (1..Depth)

VARIABLES
  ticket,      \* g_ticket: the call a slot's batch belongs to, 0 when free
  status,      \* completion status of each slot: "none" "ok" "fail"
  hw,          \* the batch the engine is working on, None when there is none
  lastTicket,  \* g_last_ticket
  firstFailed, \* g_first_failed
  nextWq,      \* g_next_wq
  holder,      \* who holds dsa_context_mutex
  call,        \* call[t]: submitter t's call, its ticket and the batches to go
  wait,        \* wait[t]: waiter t's dsa_memcpy_batch_wait
  maps,        \* the mappings of GPU memory, newest first
  nextBar      \* the address of the next mapping's BAR window

slotVars == <<ticket, status, hw>>
engineVars == <<slotVars, lastTicket, firstFailed, nextWq, call, wait>>
dsaVars == <<engineVars, holder, maps, nextBar>>

NotWaiting == [at |-> "idle", upto |-> 0, slot |-> None, rc |-> 0]

DsaInit ==
  /\ ticket = [s \in Slots |-> 0]
  /\ status = [s \in Slots |-> "none"]
  /\ hw = [s \in Slots |-> None]
  /\ lastTicket = 0 /\ firstFailed = 0 /\ nextWq = 0
  /\ holder = None
  /\ call = [t \in Submitters |-> None]
  /\ wait = [t \in Waiters |-> NotWaiting]
  /\ maps = <<>> /\ nextBar = 1

-----------------------------------------------------------------------------
(* Mappings.                                                               *)

Encloses(m, addr, n) == m.va <= addr /\ addr + n <= m.va + m.size

\* find_enclosing: the newest mapping that covers the range, None without one.
FindEnclosing(ms, addr, n) ==
  LET hits == {i \in DOMAIN ms : Encloses(ms[i], addr, n)}
  IN  IF hits = {} THEN None ELSE ms[CHOOSE i \in hits : \A j \in hits : i <= j]

\* mapping_for when nothing encloses the range: whole pages, in a new window.
\* (The search by base and size finds nothing then: a mapping starts at base.)
NewMapping(addr, n) ==
  LET pad == addr % PageSize
      pages == (pad + n + PageSize - 1) \div PageSize
  IN  [va |-> addr - pad, bar |-> nextBar, size |-> pages * PageSize]

\* dsa_gd_default_register: the mappings after it; pinning may fail (ok).
Registered(addr, n, ok) ==
  IF FindEnclosing(maps, addr, n) # None \/ ~ok THEN maps ELSE <<NewMapping(addr, n)>> \o maps

\* dsa_gd_default_gpu_bar_addr: where address addr is in the window of a mapping.
BarAddr(ms, addr, n) ==
  LET m == FindEnclosing(ms, addr, n) IN [bar |-> m.bar, off |-> addr - m.va]

\* The mapping a bar address (window, offset) points into, and what it reaches.
Reached(ms, bar, off) ==
  LET hits == {i \in DOMAIN ms : ms[i].bar = bar /\ off >= 0 /\ off < ms[i].size}
  IN  IF hits = {} THEN None ELSE ms[CHOOSE i \in hits : TRUE].va + off

-----------------------------------------------------------------------------
(* Tickets and slots.                                                      *)

\* dsa_reap_done on the queues W.
Finished(W) == {s \in Slots : s[1] \in W /\ ticket[s] # 0 /\ status[s] # "none"}

\* Mutant of TicketAfter: a slot whose batch failed is not given back.
TicketAfterOk(W) ==
  [s \in Slots |-> IF s \in Finished(W) /\ status[s] = "ok" THEN 0 ELSE ticket[s]]
TicketAfter(W) == [s \in Slots |-> IF s \in Finished(W) THEN 0 ELSE ticket[s]]
Lowest(S) == CHOOSE n \in S : \A k \in S : n <= k

\* Mutant of FailedAfter: only the last failure is remembered.
FailedAfterNone(W) == firstFailed
\* g_first_failed after reaping W: the lowest ticket that ever failed.
FailedAfter(W) ==
  LET bad == {ticket[s] : s \in {r \in Finished(W) : status[r] = "fail"}}
             \cup ({firstFailed} \ {0})
  IN  IF bad = {} THEN 0 ELSE Lowest(bad)

\* dsa_memcpy_batch_async splits a call over every queue.
PerBatch(count) ==
  LET even == (count + NumWq - 1) \div NumWq IN IF even > MaxBatch THEN MaxBatch ELSE even
Batches(entries) ==
  LET n == PerBatch(Len(entries))
      End(i) == IF i * n < Len(entries) THEN i * n ELSE Len(entries)
  IN  [i \in 1..((Len(entries) + n - 1) \div n) |-> SubSeq(entries, (i - 1) * n + 1, End(i))]

\* dsa_check_entries: sizes and both addresses in words of 8 bytes, no entry too
\* long for one descriptor.  (A window starts on a page.)
CheckEntries(entries) ==
  \A k \in DOMAIN entries :
    /\ entries[k].off % 8 = 0 /\ entries[k].cpu % 8 = 0 /\ entries[k].n % 8 = 0
    /\ entries[k].n <= MaxXfer

\* The mutex is taken, a ticket drawn and the batches laid out.
AsyncBegin(t, entries) ==
  /\ lastTicket' = lastTicket + 1
  /\ call' = [call EXCEPT ![t] = [ticket |-> lastTicket + 1, todo |-> Batches(entries)]]
  /\ UNCHANGED <<slotVars, firstFailed, nextWq, wait>>

\* The slots of queue w that are free once finished ones are reaped.
FreeSlots(w) == {s \in Slots : s[1] = w /\ TicketAfter({w})[s] = 0}

\* dsa_wait_any: a submitter that finds every slot taken polls all of them.
Saturated(w) == FreeSlots(w) = {}

\* dsa_submit_batch: the record of the slot is cleared, the engine has the batch.
SubmitBatch(s, tk, work) ==
  /\ status' = [status EXCEPT ![s] = "none"]
  /\ hw' = [hw EXCEPT ![s] = [ticket |-> tk, work |-> work]]

\* dsa_submit_slot: the next batch goes to the first free slot of the next queue
\* in turn; with all slots busy the thread polls and looks again.  The queues are
\* dedicated ones: movdir64b is never refused.
SubmitSlot(t) ==
  LET w == nextWq % NumWq
      s == CHOOSE f \in FreeSlots(w) : \A g \in FreeSlots(w) : f[2] <= g[2]
  IN  /\ call[t] # None /\ ~Saturated(w)
      /\ nextWq' = nextWq + 1
      /\ firstFailed' = FailedAfter({w})
      /\ SubmitBatch(s, call[t].ticket, Head(call[t].todo))
      /\ ticket' = [TicketAfter({w}) EXCEPT ![s] = call[t].ticket]
      /\ call' = [call EXCEPT ![t] = IF Len(@.todo) = 1 THEN None
                                       ELSE [call[t] EXCEPT !.todo = Tail(@)]]
      /\ UNCHANGED <<lastTicket, wait>>

\* The engine finishes a batch and writes its completion record.
HwDone(s, ok) ==
  /\ hw[s] # None
  /\ hw' = [hw EXCEPT ![s] = None]
  /\ status' = [status EXCEPT ![s] = IF ok THEN "ok" ELSE "fail"]
  /\ UNCHANGED <<ticket, lastTicket, firstFailed, nextWq, call, wait>>

\* dsa_memcpy_batch_wait(upto) begins.
WaitBegin(t, upto) ==
  wait' = [wait EXCEPT ![t] = [NotWaiting EXCEPT !.at = "look", !.upto = upto]]

\* Mutant of Pending: the batches of the ticket itself are not waited for.
PendingBefore(upto, w) == {s \in Slots : s[1] = w /\ TicketAfter({w})[s] # 0 /\ TicketAfter({w})[s] < upto}
\* dsa_find_pending: queue by queue, reap and look for a batch that must be
\* waited for; the queues behind the first one found are not reaped.
Pending(upto, w) == {s \in Slots : s[1] = w /\ TicketAfter({w})[s] # 0 /\ TicketAfter({w})[s] <= upto}
WaitLook(t) ==
  /\ wait[t].at = "look"
  /\ LET upto == wait[t].upto
         busy == {w \in Queues : Pending(upto, w) # {}}
         seen == IF busy = {} THEN Queues ELSE 0..Lowest(busy)
     IN  /\ ticket' = TicketAfter(seen)
         /\ firstFailed' = FailedAfter(seen)
         /\ IF busy = {}
            THEN wait' = [wait EXCEPT ![t].at = "back",
                            ![t].rc = IF firstFailed' # 0 /\ firstFailed' <= upto THEN -1 ELSE 0]
            ELSE wait' = [wait EXCEPT ![t].at = "poll",
                            ![t].slot = CHOOSE s \in Pending(upto, Lowest(busy)) :
                                          \A r \in Pending(upto, Lowest(busy)) : s[2] <= r[2]]
  /\ UNCHANGED <<status, hw, lastTicket, nextWq, call>>

\* dsa_wait_completion: the record polled may by now be another batch's.
WaitPoll(t) ==
  /\ wait[t].at = "poll" /\ status[wait[t].slot] # "none"
  /\ wait' = [wait EXCEPT ![t].at = "look"]
  /\ UNCHANGED <<slotVars, lastTicket, firstFailed, nextWq, call>>

\* dsa_memcpy_batch_wait returns only when no batch up to its ticket is in flight,
\* and none appears while its caller goes on to use the data or unmap the memory,
\* though it polls records that others reap and reuse meanwhile.
WaitCovers ==
  \A t \in Waiters : wait[t].at = "back" =>
    \A s \in Slots : hw[s] # None => hw[s].ticket > wait[t].upto
=============================================================================
