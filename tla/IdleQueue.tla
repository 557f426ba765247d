----------------------------- MODULE IdleQueue -----------------------------
(***************************************************************************)
(* The idle functions of a pomp loop: pomp_loop_idle_add, _remove, _flush,  *)
(* their variants with a cookie and pomp_idle_evt_cb (pomp_loop.c), with    *)
(* the event idle_evt that wakes the loop (pomp_evt_linux.c) and            *)
(* pomp_loop_destroy, which refuses to free a loop with idle entries.       *)
(*                                                                         *)
(* A thread is modelled by the calls it has in progress, so that callbacks  *)
(* may add, remove and flush in turn. What happens under loop->lock is one  *)
(* action. Entries are numbered in the order they are registered: new ones  *)
(* go to the tail of the list, which is therefore kept as the set of its    *)
(* numbers, the first entry being the least.                                *)
(***************************************************************************)
EXTENDS Integers, Sequences

CONSTANTS
    Threads,    \* the threads of the program
    Looper,     \* the one that processes the loop
    Flushers,   \* the threads that call pomp_loop_idle_flush and _flush_by_cookie
    Keys,       \* the pairs (cb, userdata) given to pomp_loop_idle_add
    Cookies,    \* the cookies
    NoCookie,   \* the cookie of an entry registered without one
    AllCookies, \* what pomp_loop_idle_flush is for: entries with any cookie
    MaxAdds,    \* bound on the number of entries registered
    MaxNest     \* bound on the calls that a thread has in progress

ASSUME ThreadsAssumption == Looper \in Threads /\ Flushers \subseteq Threads
ASSUME EntriesAssumption ==
    /\ NoCookie \notin Cookies /\ AllCookies \notin Cookies
    /\ Keys # {} /\ MaxAdds \in Nat /\ MaxNest \in Nat

VARIABLES
    entries,    \* loop->idle_entries
    key,        \* key[e], cookie[e]: the fields of entry e
    cookie,
    added,      \* the number of entries registered so far
    evt,        \* idle_evt is signalled
    adding,     \* is the thread between the insertion and the signal of idle_add?
    evtcb,      \* where the loop thread is in the dispatch of idle_evt
    calls,      \* calls in progress in each thread, the innermost one last
    destroying, \* loop->is_destroying
    freed,      \* pomp_loop_destroy succeeded
    ran,        \* the entries whose callback a thread has called
    dropped     \* the entries not yet called that a thread has removed

vars == <<entries, key, cookie, added, evt, adding, evtcb, calls, destroying, freed,
          ran, dropped>>

Entries == 1 .. MaxAdds
NoEntry == 0

(***************************************************************************)
(* A call in progress: pomp_idle_evt_cb ("evt") or a flush, with the cookie *)
(* it is for (AllCookies for pomp_loop_idle_flush), and where it is:        *)
(*   "scan"     about to take the lock and look for an entry                *)
(*   "popped"   holds an entry that it has removed from the list            *)
(*   "running"  runs the callback of that entry: the thread's own code      *)
(***************************************************************************)
Call == [op : {"evt", "flush"}, for : Cookies \cup {AllCookies},
         at : {"scan", "popped", "running"}, entry : Entries \cup {NoEntry}]

Top(t) == calls[t][Len(calls[t])]
Push(t, c) == calls' = [calls EXCEPT ![t] = Append(@, c)]
Pop(t) == calls' = [calls EXCEPT ![t] = SubSeq(@, 1, Len(@) - 1)]
Become(t, c) == calls' = [calls EXCEPT ![t] = [@ EXCEPT ![Len(@)] = c]]

InCall(t, at) == calls[t] # <<>> /\ Top(t).at = at

\* The thread runs code of its own: outside of the loop's functions or in a callback.
AtHome(t) ==
    /\ ~freed /\ ~adding[t]
    /\ calls[t] = <<>> \/ InCall(t, "running")
    /\ t = Looper => evtcb \in {"none", "busy"}

\* e is the entry of S nearest to the head of the list.
IsFirst(e, S) == e \in S /\ \A f \in S : e <= f

Init ==
    /\ entries = {} /\ added = 0
    /\ key = [e \in Entries |-> CHOOSE k \in Keys : TRUE]
    /\ cookie = [e \in Entries |-> NoCookie]
    /\ evt = FALSE
    /\ adding = [t \in Threads |-> FALSE]
    /\ evtcb = "none"
    /\ calls = [t \in Threads |-> <<>>]
    /\ destroying = FALSE /\ freed = FALSE
    /\ ran = [t \in Threads |-> {}]
    /\ dropped = [t \in Threads |-> {}]

-----------------------------------------------------------------------------
(***************************************************************************)
(* pomp_loop_idle_add and pomp_loop_idle_add_with_cookie: the entry goes to *)
(* the list under the lock, the event is signalled after the unlock.        *)
(***************************************************************************)
Add(t, k, c) ==
    /\ AtHome(t) /\ ~destroying
    /\ added < MaxAdds
    /\ added' = added + 1
    /\ entries' = entries \cup {added'}
    /\ key' = [key EXCEPT ![added'] = k]
    /\ cookie' = [cookie EXCEPT ![added'] = c]
    /\ adding' = [adding EXCEPT ![t] = TRUE]
    /\ UNCHANGED <<evt, evtcb, calls, destroying, freed, ran, dropped>>

\* Mutant of AddSignal: the loop is not woken up.
AddSignalNot(t) ==
    /\ adding[t]
    /\ adding' = [adding EXCEPT ![t] = FALSE]
    /\ UNCHANGED <<entries, key, cookie, added, evt, evtcb, calls, destroying, freed, ran,
                   dropped>>

AddSignal(t) ==
    /\ adding[t]
    /\ evt' = TRUE
    /\ adding' = [adding EXCEPT ![t] = FALSE]
    /\ UNCHANGED <<entries, key, cookie, added, evtcb, calls, destroying, freed, ran,
                   dropped>>

-----------------------------------------------------------------------------
(***************************************************************************)
(* pomp_loop_idle_remove and pomp_loop_idle_remove_by_cookie: every match   *)
(* leaves the list, and an empty list leaves the event cleared.             *)
(***************************************************************************)
NotCalled(e) == \A t \in Threads : e \notin ran[t]

\* Mutant of Drop: the walk stops at the first match.
DropFirst(t, match) ==
    /\ AtHome(t)
    /\ entries' = entries \ {e \in match : IsFirst(e, match \cap entries)}
    /\ evt' = (evt /\ entries' # {})
    /\ dropped' = [dropped EXCEPT ![t] = @ \cup {e \in match : NotCalled(e)}]
    /\ UNCHANGED <<key, cookie, added, adding, evtcb, calls, destroying, freed, ran>>

Drop(t, match) ==
    /\ AtHome(t)
    /\ entries' = entries \ match
    /\ evt' = (evt /\ entries' # {})
    /\ dropped' = [dropped EXCEPT ![t] = @ \cup {e \in match : NotCalled(e)}]
    /\ UNCHANGED <<key, cookie, added, adding, evtcb, calls, destroying, freed, ran>>

Remove(t, k) == Drop(t, {e \in 1 .. added : key[e] = k})

RemoveByCookie(t, c) == Drop(t, {e \in 1 .. added : cookie[e] = c})

-----------------------------------------------------------------------------
(***************************************************************************)
(* pomp_loop_idle_flush and pomp_loop_idle_flush_by_cookie: entries leave   *)
(* the list one by one and their callbacks run outside of the lock; each    *)
(* time the search starts again from the head of the list.                  *)
(***************************************************************************)
Flush(t, c) ==
    /\ t \in Flushers /\ AtHome(t) /\ Len(calls[t]) < MaxNest
    /\ Push(t, [op |-> "flush", for |-> c, at |-> "scan", entry |-> NoEntry])
    /\ UNCHANGED <<entries, key, cookie, added, evt, adding, evtcb, destroying, freed,
                   ran, dropped>>

Matching(c) == {e \in entries : c \in {AllCookies, cookie[e]}}

\* Mutant of FlushPop: the entry stays in the list while its callback runs.
FlushPopKeep(t) ==
    /\ InCall(t, "scan")
    /\ \E e \in entries :
          /\ IsFirst(e, Matching(Top(t).for))
          /\ Become(t, [Top(t) EXCEPT !.at = "popped", !.entry = e])
    /\ UNCHANGED <<entries, key, cookie, added, evt, adding, evtcb, destroying, freed,
                   ran, dropped>>

\* Mutant of FlushPop: the list is walked from its tail.
FlushPopLast(t) ==
    /\ InCall(t, "scan")
    /\ \E e \in Matching(Top(t).for) :
          /\ \A f \in Matching(Top(t).for) : f <= e
          /\ entries' = entries \ {e}
          /\ Become(t, [Top(t) EXCEPT !.at = "popped", !.entry = e])
    /\ UNCHANGED <<key, cookie, added, evt, adding, evtcb, destroying, freed, ran,
                   dropped>>

FlushPop(t) ==
    /\ InCall(t, "scan")
    /\ \E e \in entries :
          /\ IsFirst(e, Matching(Top(t).for))
          /\ entries' = entries \ {e}
          /\ Become(t, [Top(t) EXCEPT !.at = "popped", !.entry = e])
    /\ UNCHANGED <<key, cookie, added, evt, adding, evtcb, destroying, freed, ran,
                   dropped>>

FlushEnd(t) ==
    /\ InCall(t, "scan")
    /\ Matching(Top(t).for) = {}
    /\ evt' = (evt /\ entries # {})
    /\ Pop(t)
    /\ UNCHANGED <<entries, key, cookie, added, adding, evtcb, destroying, freed, ran,
                   dropped>>

-----------------------------------------------------------------------------
(***************************************************************************)
(* The callback of an entry, called by a flush or by the loop               *)
(***************************************************************************)
CallbackStart(t) ==
    /\ InCall(t, "popped")
    /\ Become(t, [Top(t) EXCEPT !.at = "running"])
    /\ ran' = [ran EXCEPT ![t] = @ \cup {Top(t).entry}]
    /\ UNCHANGED <<entries, key, cookie, added, evt, adding, evtcb, destroying, freed,
                   dropped>>

CallbackReturn(t) ==
    /\ AtHome(t) /\ calls[t] # <<>>
    /\ \/ /\ Top(t).op = "flush"
          /\ Become(t, [Top(t) EXCEPT !.at = "scan", !.entry = NoEntry])
          /\ UNCHANGED evtcb
       \/ /\ Top(t).op = "evt"
          /\ Pop(t)
          /\ evtcb' = "recheck"
    /\ UNCHANGED <<entries, key, cookie, added, evt, adding, destroying, freed, ran,
                   dropped>>

-----------------------------------------------------------------------------
(***************************************************************************)
(* The dispatch of idle_evt by the loop thread: the wait reports it, its    *)
(* callback clears it, and pomp_idle_evt_cb runs the first entry and        *)
(* signals the event again if there are more.                               *)
(***************************************************************************)
EvtReady ==
    /\ AtHome(Looper) /\ calls[Looper] = <<>> /\ ~destroying
    /\ evt
    /\ evtcb' = "ready"
    /\ UNCHANGED <<entries, key, cookie, added, evt, adding, calls, destroying, freed,
                   ran, dropped>>

EvtClear ==
    /\ evtcb = "ready"
    /\ evt' = FALSE
    /\ evtcb' = "cleared"
    /\ UNCHANGED <<entries, key, cookie, added, adding, calls, destroying, freed, ran,
                   dropped>>

EvtPop ==
    /\ evtcb = "cleared"
    /\ evtcb' = "busy"
    /\ \E e \in entries :
          /\ IsFirst(e, entries)
          /\ entries' = entries \ {e}
          /\ Push(Looper, [op |-> "evt", for |-> AllCookies, at |-> "popped", entry |-> e])
    /\ UNCHANGED <<key, cookie, added, evt, adding, destroying, freed, ran, dropped>>

EvtEmpty ==
    /\ evtcb = "cleared" /\ entries = {}
    /\ evtcb' = "none"
    /\ UNCHANGED <<entries, key, cookie, added, evt, adding, calls, destroying, freed,
                   ran, dropped>>

\* Mutant of EvtRecheck: the event is not signalled for the rest of the list.
EvtRecheckNot ==
    /\ evtcb = "recheck"
    /\ evtcb' = "none"
    /\ UNCHANGED <<entries, key, cookie, added, evt, adding, calls, destroying, freed,
                   ran, dropped>>

EvtRecheck ==
    /\ evtcb = "recheck"
    /\ evt' = (evt \/ entries # {})
    /\ evtcb' = "none"
    /\ UNCHANGED <<entries, key, cookie, added, adding, calls, destroying, freed, ran,
                   dropped>>

(***************************************************************************)
(* pomp_loop_destroy, with no file descriptor left in the loop. Its caller  *)
(* ensures that no other thread is in a function of the loop.               *)
(***************************************************************************)
Destroy ==
    /\ ~freed /\ evtcb = "none"
    /\ \A t \in Threads : calls[t] = <<>> /\ ~adding[t]
    /\ destroying' = TRUE
    /\ freed' = (entries = {})      \* -EBUSY otherwise
    /\ UNCHANGED <<entries, key, cookie, added, evt, adding, evtcb, calls, ran, dropped>>

-----------------------------------------------------------------------------
\* The calls that a thread may make from its own code.
ApiCall(t) ==
    \/ \E k \in Keys, c \in Cookies \cup {NoCookie} : Add(t, k, c)
    \/ \E k \in Keys : Remove(t, k)
    \/ \E c \in Cookies : RemoveByCookie(t, c)
    \/ \E c \in Cookies \cup {AllCookies} : Flush(t, c)

Dispatch == EvtClear \/ EvtPop \/ EvtEmpty \/ EvtRecheck

Next ==
    \/ \E t \in Threads :
          \/ ApiCall(t) \/ AddSignal(t) \/ FlushPop(t) \/ FlushEnd(t)
          \/ CallbackStart(t) \/ CallbackReturn(t)
    \/ EvtReady \/ Dispatch \/ Destroy

Spec == Init /\ [][Next]_vars

(***************************************************************************)
(* Threads are scheduled, callbacks return, whatever they call before, and  *)
(* the loop thread comes back to the wait of its loop again and again.      *)
(***************************************************************************)
Fairness ==
    /\ \A t \in Threads :
          /\ WF_vars(AddSignal(t)) /\ WF_vars(FlushPop(t) \/ FlushEnd(t))
          /\ WF_vars(CallbackStart(t)) /\ SF_vars(CallbackReturn(t))
    /\ SF_vars(EvtReady) /\ WF_vars(Dispatch)

FairSpec == Spec /\ Fairness

-----------------------------------------------------------------------------
(***************************************************************************)
(* Properties                                                               *)
(***************************************************************************)

\* The variables hold values that the list, the event and the threads can have.
TypeOK ==
    /\ added \in 0 .. MaxAdds /\ entries \subseteq 1 .. added
    /\ key \in [Entries -> Keys] /\ cookie \in [Entries -> Cookies \cup {NoCookie}]
    /\ evt \in BOOLEAN /\ adding \in [Threads -> BOOLEAN]
    /\ evtcb \in {"none", "ready", "cleared", "busy", "recheck"}
    /\ calls \in [Threads -> Seq(Call)]
    /\ destroying \in BOOLEAN /\ freed \in BOOLEAN
    /\ ran \in [Threads -> SUBSET Entries] /\ dropped \in [Threads -> SUBSET Entries]

\* The loop never waits with idle entries and nothing to wake it: idle_evt is signalled,
\* or a thread in idle_add is about to signal it, or pomp_idle_evt_cb will look at the
\* list again. idle_add signals outside of the lock, remove and flush clear under it.
NoLostIdle ==
    entries # {} /\ ~destroying =>
        evt \/ (\E t \in Threads : adding[t]) \/ evtcb \in {"cleared", "busy", "recheck"}

\* A callback about to be called has not been called before, by any thread
\* ("The registered function will be called only once").
OnlyOnce == \A t \in Threads : InCall(t, "popped") => NotCalled(Top(t).entry)

\* Once a thread has removed an entry it never calls its callback, whatever flushes and
\* callbacks it has in progress.
RemoveIsFinal ==
    \A t \in Threads : InCall(t, "popped") => Top(t).entry \notin dropped[t]

\* The entries with the same cookie that a thread calls, it calls in the order they
\* were registered, whatever flushes are nested or run in other threads.
CookieOrder ==
    [][\A t \in Threads : \A e \in ran'[t] \ ran[t], f \in ran[t] :
          cookie[e] = cookie[f] => f < e]_vars

\* An idle entry leaves the list in the end, unless the loop is being destroyed.
IdleRuns == \A e \in Entries : e \in entries ~> e \notin entries \/ destroying

=============================================================================
