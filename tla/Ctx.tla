-------------------------------- MODULE Ctx --------------------------------
(***************************************************************************)
(* A context (pomp_ctx.c): a server, a client or a datagram socket, its     *)
(* connections, the timer by which it tries again, and its stop, which is   *)
(* deferred to the idle functions of the loop when a callback asks for it.  *)
(*                                                                         *)
(* All of it runs in the thread of the loop; what is modelled are the calls *)
(* that callbacks make. The socket callback only configures the socket. A   *)
(* connection is known by the rank at which it was created. New ones go to  *)
(* the head of the list of a server, which is therefore kept as the set of  *)
(* its numbers, the first one being the greatest.                           *)
(***************************************************************************)
EXTENDS Integers, Sequences, FiniteSets

CONSTANTS
    Types,          \* the types of the context: "server", "client", "dgram"
    MaxConn,        \* max_conn_count
    MaxMade         \* bound on the connections created

ASSUME TypesAssumption == Types \subseteq {"server", "client", "dgram"} /\ Types # {}
ASSUME SetupAssumption == MaxConn \in Nat \ {0} /\ MaxMade \in Nat

VARIABLES
    type, addr, stopping, notifying,    \* of struct pomp_ctx; addr: is it set?
    fd,             \* u.server.fd or u.client.fd is open
    conns,          \* u.server.conns, u.client.conn or u.dgram.conn
    conncount,      \* u.server.conncount
    timer,          \* the timer is set
    idle,           \* the number of calls of pomp_ctx_stop_idle that wait in the loop
    stack,          \* the functions in progress, the innermost one last
    made,           \* the number of connections created so far
    seen,           \* the events of each connection that the program was told of
    freed,          \* the connections that are destroyed
    destroyed,      \* the context is
    failed          \* a start from the timer failed since the start of the context

vars == <<type, addr, stopping, notifying, fd, conns, conncount, timer, idle, stack, made,
          seen, freed, destroyed, failed>>

Made == 1 .. MaxMade

(***************************************************************************)
(* Functions in progress: pomp_conn_cb ("conn"), the end of                 *)
(* pomp_ctx_remove_conn from pomp_conn_close on ("close") and               *)
(* pomp_ctx_stop_idle ("stop") in the library, a callback of the context    *)
(* ("cb") in the program; and the connection that they are about.           *)
(***************************************************************************)
NoConn == 0
Frame == [f : {"conn", "close", "stop", "cb"}, c : Made \cup {NoConn}]

Top == stack[Len(stack)]
At(f) == stack # <<>> /\ Top.f = f
Rest == SubSeq(stack, 1, Len(stack) - 1)
Call(below, f, c) == Append(below, [f |-> f, c |-> c])
InLoop == stack = <<>> /\ ~destroyed
AtHome == InLoop \/ At("cb")

Init ==
    /\ type \in Types
    /\ addr = FALSE /\ stopping = FALSE /\ notifying = 0
    /\ fd = FALSE /\ conns = {} /\ conncount = 0 /\ timer = FALSE /\ idle = 0
    /\ stack = <<>> /\ made = 0
    /\ seen = [c \in Made |-> <<>>]
    /\ freed = {} /\ destroyed = FALSE /\ failed = FALSE

\* A callback of the program is called for c; below is what is in progress then.
Notify(below, c) ==
    /\ notifying' = notifying + 1
    /\ stack' = Call(below, "cb", c)

\* The same, to tell of the connection or the disconnection of c.
NotifyEvent(below, event, c) ==
    /\ seen' = [seen EXCEPT ![c] = Append(@, event)]
    /\ Notify(below, c)

-----------------------------------------------------------------------------
(***************************************************************************)
(* server_start, client_start and dgram_start. The socket is listening,     *)
(* connecting or has its connection ("ok"); or it is closed and the timer   *)
(* set for another try ("later"); or it is closed and an error returned.    *)
(* list and armed are the connections and the state of the timer before.    *)
(***************************************************************************)
Results == {"ok", "later", "error"}

server_start(res, list, armed) ==
    /\ fd' = (res = "ok")
    /\ timer' = (armed \/ res = "later")
    /\ conns' = list /\ UNCHANGED made

client_start(res, list, armed) ==
    /\ fd' = (res = "ok")
    /\ timer' = (armed \/ res = "later")
    /\ conns' = list /\ UNCHANGED made

\* The socket goes to the connection at once.
dgram_start(res, list, armed) ==
    /\ fd' = FALSE
    /\ timer' = (armed \/ res = "later")
    /\ IF res = "ok"
       THEN made < MaxMade /\ made' = made + 1 /\ conns' = {made'}
       ELSE conns' = list /\ UNCHANGED made

start(t, res, list, armed) ==
    \/ t = "server" /\ server_start(res, list, armed)
    \/ t = "client" /\ client_start(res, list, armed)
    \/ t = "dgram" /\ dgram_start(res, list, armed)

\* pomp_ctx_start, for pomp_ctx_listen, pomp_ctx_connect and pomp_ctx_bind.
Start(t, res) ==
    /\ AtHome /\ ~addr
    /\ type' = t
    /\ conncount' = IF t = "server" THEN 0 ELSE conncount
    /\ start(t, res, IF t = "dgram" THEN conns ELSE {}, timer)
    /\ addr' = (res # "error")
    /\ failed' = FALSE
    /\ UNCHANGED <<stopping, notifying, idle, stack, seen, freed, destroyed>>

\* timer_cb clears the timer and starts again; what the start returns is not looked at.
TimerCb(res) ==
    /\ InLoop /\ timer
    /\ start(type, res, conns, FALSE)
    /\ failed' = (failed \/ res = "error")
    /\ UNCHANGED <<type, addr, stopping, notifying, conncount, idle, stack, seen, freed,
                   destroyed>>

-----------------------------------------------------------------------------
(***************************************************************************)
(* Connections come: server_accept_conn and client_complete_conn. A server  *)
(* that has as many as it wants closes the new one at once.                 *)
(***************************************************************************)

Accept ==
    /\ InLoop /\ type = "server" /\ fd
    /\ conncount < MaxConn
    /\ made < MaxMade
    /\ made' = made + 1
    /\ conns' = conns \cup {made'}
    /\ conncount' = conncount + 1
    /\ NotifyEvent(stack, "connected", made')
    /\ UNCHANGED <<type, addr, stopping, fd, timer, idle, freed, destroyed, failed>>

Complete ==
    /\ InLoop /\ type = "client" /\ fd
    /\ made < MaxMade
    /\ made' = made + 1
    /\ conns' = {made'}
    /\ fd' = FALSE
    /\ NotifyEvent(stack, "connected", made')
    /\ UNCHANGED <<type, addr, stopping, conncount, timer, idle, freed, destroyed, failed>>

\* The connection failed, or its object could not be created.
CompleteFails ==
    /\ InLoop /\ type = "client" /\ fd
    /\ fd' = FALSE
    /\ timer' = TRUE
    /\ UNCHANGED <<type, addr, stopping, notifying, conns, conncount, idle, stack, made,
                   seen, freed, destroyed, failed>>

-----------------------------------------------------------------------------
(***************************************************************************)
(* Connections go: pomp_ctx_remove_conn                                     *)
(***************************************************************************)

\* Mutant of Reconnect: the client does not try again.
ReconnectNever == UNCHANGED timer

\* Its end: a client that is not being stopped tries again.
Reconnect == timer' = (timer \/ (type = "client" /\ ~stopping /\ addr))

\* Mutant of RemoveConn: the program is not told.
RemoveConnSilent(below, c) ==
    IF c \in conns
    THEN /\ conns' = conns \ {c}
         /\ conncount' = IF type = "server" THEN conncount - 1 ELSE conncount
         /\ stack' = Call(below, "close", c) /\ UNCHANGED <<notifying, seen, timer>>
    ELSE stack' = below /\ Reconnect /\ UNCHANGED <<notifying, seen, conns, conncount>>

\* The connection leaves the list and the program is told, before its close.
RemoveConn(below, c) ==
    IF c \in conns
    THEN /\ conns' = conns \ {c}
         /\ conncount' = IF type = "server" THEN conncount - 1 ELSE conncount
         /\ IF type = "dgram"
            THEN stack' = Call(below, "close", c) /\ UNCHANGED <<notifying, seen>>
            ELSE NotifyEvent(Call(below, "close", c), "disconnected", c)
         /\ UNCHANGED timer
    ELSE stack' = below /\ Reconnect /\ UNCHANGED <<notifying, seen, conns, conncount>>

\* pomp_conn_close notifies the sends that were waiting...
CloseNotify ==
    /\ At("close")
    /\ Notify(stack, Top.c)
    /\ UNCHANGED <<type, addr, stopping, fd, conns, conncount, timer, idle, made, seen,
                   freed, destroyed, failed>>

\* ... and pomp_conn_destroy frees the connection.
CloseEnd ==
    /\ At("close")
    /\ freed' = freed \cup {Top.c}
    /\ stack' = Rest
    /\ Reconnect
    /\ UNCHANGED <<type, addr, stopping, notifying, fd, conns, conncount, idle, made, seen,
                   destroyed, failed>>

\* pomp_conn_cb: the program is called for messages; then the connection may be removed.
ConnCb(c) ==
    /\ InLoop /\ c \in conns
    /\ stack' = Call(stack, "conn", c)
    /\ UNCHANGED <<type, addr, stopping, notifying, fd, conns, conncount, timer, idle, made,
                   seen, freed, destroyed, failed>>

ConnMsg ==
    /\ At("conn")
    /\ Notify(stack, Top.c)
    /\ UNCHANGED <<type, addr, stopping, fd, conns, conncount, timer, idle, made, seen,
                   freed, destroyed, failed>>

ConnEnd ==
    /\ At("conn")
    /\ stack' = Rest
    /\ UNCHANGED <<type, addr, stopping, notifying, fd, conns, conncount, timer, idle, made,
                   seen, freed, destroyed, failed>>

ConnRemove ==
    /\ At("conn")
    /\ RemoveConn(Rest, Top.c)
    /\ UNCHANGED <<type, addr, stopping, fd, idle, made, freed, destroyed, failed>>

CallbackReturn ==
    /\ At("cb")
    /\ notifying' = notifying - 1
    /\ stack' = Rest
    /\ UNCHANGED <<type, addr, stopping, fd, conns, conncount, timer, idle, made, seen,
                   freed, destroyed, failed>>

-----------------------------------------------------------------------------
(***************************************************************************)
(* pomp_ctx_stop and pomp_ctx_stop_idle                                     *)
(***************************************************************************)

\* Mutant of Stop: it is never deferred.
StopAtOnce ==
    /\ AtHome /\ addr /\ ~stopping
    /\ stopping' = TRUE
    /\ stack' = Call(stack, "stop", NoConn) /\ UNCHANGED idle
    /\ UNCHANGED <<type, addr, notifying, fd, conns, conncount, timer, made, seen, freed,
                   destroyed, failed>>

\* Mutant of Stop: when it is to be deferred, nothing is queued.
StopForgets ==
    /\ AtHome /\ addr /\ ~stopping
    /\ stopping' = TRUE
    /\ IF notifying > 0
       THEN UNCHANGED <<idle, stack>>
       ELSE stack' = Call(stack, "stop", NoConn) /\ UNCHANGED idle
    /\ UNCHANGED <<type, addr, notifying, fd, conns, conncount, timer, made, seen, freed,
                   destroyed, failed>>

Stop ==
    /\ AtHome /\ addr /\ ~stopping
    /\ stopping' = TRUE
    /\ IF notifying > 0
       THEN idle' = idle + 1 /\ UNCHANGED stack
       ELSE stack' = Call(stack, "stop", NoConn) /\ UNCHANGED idle
    /\ UNCHANGED <<type, addr, notifying, fd, conns, conncount, timer, made, seen, freed,
                   destroyed, failed>>

\* pomp_ctx_stop_idle is called from the idle functions of the loop.
IdleCall ==
    /\ idle > 0
    /\ idle' = idle - 1
    /\ stack' = Call(stack, "stop", NoConn)
    /\ UNCHANGED <<type, addr, stopping, notifying, fd, conns, conncount, timer, made, seen,
                   freed, destroyed, failed>>

IdleRun == InLoop /\ IdleCall

\* server_stop, client_stop, dgram_stop: the connections first, from the head of the list.
StopNext ==
    /\ At("stop")
    /\ \E c \in conns : (\A d \in conns : d <= c) /\ RemoveConn(stack, c)
    /\ UNCHANGED <<type, addr, stopping, fd, idle, made, freed, destroyed, failed>>

\* Mutant of StopEnd: the timer is left as it is.
StopEndKeepsTimer ==
    /\ At("stop") /\ conns = {}
    /\ fd' = FALSE /\ addr' = FALSE /\ stopping' = FALSE
    /\ stack' = Rest
    /\ UNCHANGED <<type, notifying, conns, conncount, timer, idle, made, seen, freed,
                   destroyed, failed>>

StopEnd ==
    /\ At("stop") /\ conns = {}
    /\ fd' = FALSE /\ timer' = FALSE /\ addr' = FALSE /\ stopping' = FALSE
    /\ stack' = Rest
    /\ UNCHANGED <<type, notifying, conns, conncount, idle, made, seen, freed, destroyed, failed>>

\* pomp_ctx_destroy, called outside of callbacks; -EBUSY while there is an address.
Destroy ==
    /\ InLoop /\ ~addr
    /\ destroyed' = TRUE
    /\ UNCHANGED <<type, addr, stopping, notifying, fd, conns, conncount, timer, idle, stack,
                   made, seen, freed, failed>>

-----------------------------------------------------------------------------
Next ==
    \/ \E t \in Types, res \in Results : Start(t, res)
    \/ \E res \in Results : TimerCb(res)
    \/ Accept \/ Complete \/ CompleteFails
    \/ \E c \in conns : ConnCb(c)
    \/ ConnMsg \/ ConnEnd \/ ConnRemove \/ CloseNotify \/ CloseEnd
    \/ CallbackReturn
    \/ Stop \/ IdleRun \/ StopNext \/ StopEnd \/ Destroy

(***************************************************************************)
(* Fairness: functions end and callbacks return; the loop goes on and       *)
(* reaches its idle functions; and a peer that is tried forever answers in  *)
(* the end, which is the environment's share in a reconnection.             *)
(***************************************************************************)
Fairness ==
    /\ WF_vars(CallbackReturn) /\ WF_vars(StopNext) /\ WF_vars(StopEnd)
    /\ SF_vars(ConnEnd \/ ConnRemove) /\ SF_vars(CloseEnd)
    /\ SF_vars(IdleRun)
    /\ SF_vars(TimerCb("ok") \/ TimerCb("error")) /\ SF_vars(Complete)

Spec == Init /\ [][Next]_vars /\ Fairness

-----------------------------------------------------------------------------
\* The variables have their types, and only callbacks in progress count as notifying.
TypeOK ==
    /\ type \in Types
    /\ addr \in BOOLEAN /\ stopping \in BOOLEAN /\ destroyed \in BOOLEAN
    /\ fd \in BOOLEAN /\ timer \in BOOLEAN /\ failed \in BOOLEAN
    /\ stack \in Seq(Frame)
    /\ notifying = Cardinality({i \in 1 .. Len(stack) : stack[i].f = "cb"})
    /\ conncount \in Nat /\ idle \in Nat
    /\ made \in 0 .. MaxMade
    /\ conns \subseteq 1 .. made /\ freed \subseteq 1 .. made
    /\ seen \in [Made -> Seq({"connected", "disconnected"})]

\* What the program was told (pomp_ctx_notify_event) is what is in the list: it knows of a
\* connection, told once of it and not yet of its end, exactly while the list has it.
\* The connection of a datagram socket has no events.
EventsPaired ==
    \A c \in Made :
        /\ seen[c] \in {<<>>, <<"connected">>, <<"connected", "disconnected">>}
        /\ seen[c] = <<"connected">> <=> c \in conns /\ type # "dgram"

\* No function in progress is about a connection that was destroyed under it, and
\* pomp_conn_cb finds its connection still in the context after the callbacks it makes.
InUseNotFreed ==
    \A i \in 1 .. Len(stack) :
        /\ stack[i].c \notin freed
        /\ stack[i].f = "conn" => stack[i].c \in conns

\* Once stopped (no address: pomp_ctx_destroy is then allowed) a context has no socket, no
\* connection, no timer and no deferred stop left that could call into it.
StoppedIsQuiet ==
    ~addr => ~fd /\ conns = {} /\ ~timer /\ idle = 0 /\ ~stopping

GivenUp == stack = <<>> /\ ~fd /\ ~timer /\ conns = {}

\* A stop that was asked for, at once or deferred from a callback, completes.
StopCompletes == stopping ~> ~addr

\* A client that is not stopped gets a connection again (remove_conn, client_complete_conn
\* and timer_cb hand the try to one another), unless a start from the timer failed.
Reconnects ==
    (type = "client" /\ addr) ~> (conns # {} \/ stopping \/ ~addr \/ failed \/ made = MaxMade)

\* client_start: "automatically reconnect in case of timeout or disconnection". Between two
\* events of the loop a started client has something that will make it go on.
KeepsTrying == type = "client" /\ addr /\ ~stopping => ~GivenUp

=============================================================================
