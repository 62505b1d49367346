------------------------------ MODULE MCPProofs ------------------------------
(***************************************************************************)
(* Proofs about MCP, for every set of servers, clients and sessions, and   *)
(* for lists of servers of any length.  The connections come first: the    *)
(* lists play no part in what is proved of them.                           *)
(***************************************************************************)
EXTENDS MCP, WellOrder

\* A request in progress, field by field.
Request(at, kind, server, version, held, list) ==
  [at |-> at, kind |-> kind, server |-> server, version |-> version,
   session |-> held, list |-> list]

\* The tables are functions and the requests are records.
Shaped ==
  /\ op = [c \in Clients |-> op[c]]
  /\ \A c \in Clients :
       op[c] = Request(op[c].at, op[c].kind, op[c].server, op[c].version, op[c].session, op[c].list)
  /\ session = [i \in Sessions |-> session[i]]
  /\ defs = [s \in Servers |-> defs[s]]
  /\ table \in [Servers -> Sessions \cup {None}]

\* What a request is about at each place, whether it has a session in its
\* hands, and that a save or a delete holds the service's lock.
FrameOK(c) ==
  \/ op[c] = Idle
  \/ /\ op[c].server \in Servers
     /\ op[c].kind \in {"save", "delete"} => writer = c
     /\ \/ op[c].at = "detach" /\ op[c].kind \in Kind /\ op[c].session = None
        \/ op[c].at = "close" /\ op[c].kind \in Kind /\ op[c].session \in Sessions
        \/ op[c].at = "dial" /\ op[c].kind = "connect" /\ op[c].session = None
        \/ op[c].at \in {"list", "store"} /\ op[c].kind = "connect" /\ op[c].session \in Sessions
        \/ op[c].at \in {"define", "write", "commit"} /\ op[c].kind \in {"save", "delete"}
           /\ op[c].session = None

Frames == \A c \in Clients : FrameOK(c)

\* A session in the hands of a request is open and nobody else's.
HeldOK(c) ==
  op[c].session # None =>
    /\ session[op[c].session].state = "open"
    /\ session[op[c].session].server = op[c].server
    /\ op[c].at \in {"list", "store"} => session[op[c].session].version = op[c].version
    /\ \A s \in Servers : table[s] # op[c].session
    /\ \A d \in Clients \ {c} : op[d].session # op[c].session

Held == \A c \in Clients : HeldOK(c)

SessionInv == Shaped /\ Frames /\ Held /\ OfferedIsOpen

\* Nothing is open and nobody is busy at the start.
LEMMA SessionInit == Init => SessionInv
<1> SUFFICES ASSUME Init PROVE SessionInv
  OBVIOUS
<1>1. Shaped
  BY NoneAssumption DEF Init, Shaped, Request, Idle, Definitions
<1>2. Frames /\ Held
  BY DEF Init, Frames, FrameOK, Held, HeldOK, Idle
<1>3. OfferedIsOpen
  BY DEF Init, OfferedIsOpen
<1> QED
  BY <1>1, <1>2, <1>3 DEF SessionInv

\* A request at another place, and one whose session is gone as well.
Placed(r, a) == [r EXCEPT !.at = a]
Freed(r, a) == [r EXCEPT !.at = a, !.session = None]

\* A request that has taken a session from the table, or opened it.
Handed(r, i) == [r EXCEPT !.at = "close", !.session = i]
Opened(r, i) == [r EXCEPT !.at = "list", !.session = i]

\* Changing fields of a request gives a request.
LEMMA Changed ==
  ASSUME NEW r, NEW at, NEW kind, NEW server, NEW version, NEW held, NEW list, NEW a,
         r = Request(at, kind, server, version, held, list)
  PROVE  /\ Placed(r, a) = Request(a, kind, server, version, held, list)
         /\ Freed(r, a) = Request(a, kind, server, version, None, list)
<1> DEFINE F(x, y) == [at : {x}, kind : {kind}, server : {server}, version : {version},
                       session : {y}, list : {list}]
<1>1. r \in F(at, held)
  BY DEF Request
<1>2. Placed(r, a) \in F(a, held)
  BY <1>1 DEF Placed
<1>3. Freed(r, a) \in F(a, None)
  BY <1>1 DEF Freed
<1>4. \A x, y : \A q \in F(x, y) : q = Request(x, kind, server, version, y, list)
  BY DEF Request
<1> QED
  BY <1>2, <1>3, <1>4

\* Giving a session to a request gives a request.
LEMMA HandedShaped ==
  ASSUME NEW r, NEW at, NEW kind, NEW server, NEW version, NEW held, NEW list, NEW i,
         r = Request(at, kind, server, version, held, list)
  PROVE  /\ Handed(r, i) = Request("close", kind, server, version, i, list)
         /\ Opened(r, i) = Request("list", kind, server, version, i, list)
<1> DEFINE F(x, y) == [at : {x}, kind : {kind}, server : {server}, version : {version},
                       session : {y}, list : {list}]
<1>1. r \in F(at, held)
  BY DEF Request
<1>2. Handed(r, i) \in F("close", i)
  BY <1>1 DEF Handed
<1>3. Opened(r, i) \in F("list", i)
  BY <1>1 DEF Opened
<1>4. \A x, y : \A q \in F(x, y) : q = Request(x, kind, server, version, y, list)
  BY DEF Request
<1> QED
  BY <1>2, <1>3, <1>4

\* The new frame of a request that goes to another place.
LEMMA Going ==
  ASSUME Shaped, NEW c \in Clients, NEW at, Goto(c, at)
  PROVE  op' = [op EXCEPT ![c] = Request(at, op[c].kind, op[c].server, op[c].version,
                                         op[c].session, op[c].list)]
<1>1. op' = [op EXCEPT ![c] = Placed(op[c], at)]
  BY DEF Shaped, Goto, Placed
<1>2. op[c] = Request(op[c].at, op[c].kind, op[c].server, op[c].version, op[c].session, op[c].list)
  BY DEF Shaped
<1>3. Placed(op[c], at) =
        Request(at, op[c].kind, op[c].server, op[c].version, op[c].session, op[c].list)
  BY ONLY <1>2, Changed
<1> QED
  BY <1>1, <1>3

\* The new frame of a request that goes on with nothing in its hands.
LEMMA Continuing ==
  ASSUME Shaped, NEW c \in Clients, Continue(c)
  PROVE  \/ op' = [op EXCEPT ![c] = Idle]
         \/ /\ op[c].kind # "disconnect"
            /\ op' = [op EXCEPT ![c] = Request(AfterDetach(op[c].kind), op[c].kind, op[c].server,
                                               op[c].version, None, op[c].list)]
<1>1. CASE op[c].kind = "disconnect"
  BY <1>1 DEF Continue, Return
<1>2. CASE op[c].kind # "disconnect"
  <2>1. op' = [op EXCEPT ![c].at = AfterDetach(op[c].kind), ![c].session = None]
    BY <1>2 DEF Continue
  <2>2. op' = [op EXCEPT ![c] = Freed(op[c], AfterDetach(op[c].kind))]
    BY <2>1 DEF Shaped, Freed
  <2>3. op[c] = Request(op[c].at, op[c].kind, op[c].server, op[c].version, op[c].session, op[c].list)
    BY DEF Shaped
  <2>4. Freed(op[c], AfterDetach(op[c].kind)) =
          Request(AfterDetach(op[c].kind), op[c].kind, op[c].server, op[c].version, None, op[c].list)
    BY ONLY <2>3, Changed
  <2> QED
    BY <1>2, <2>2, <2>4
<1> QED
  BY <1>1, <1>2

\* A request that moves, and touches no session and no entry, keeps the
\* invariant if its new frame is sound and it holds what it held or nothing.
LEMMA Moving ==
  ASSUME SessionInv, NEW c \in Clients,
         NEW at, NEW kind, NEW server, NEW version, NEW held, NEW list,
         op' = [op EXCEPT ![c] = Request(at, kind, server, version, held, list)],
         FrameOK(c)', defs' = [s \in Servers |-> defs'[s]],
         UNCHANGED <<table, session>>,
         \A d \in Clients \ {c} : Busy(d) /\ op[d].kind \in {"save", "delete"} => writer' = writer,
         held = None \/ (held = op[c].session /\ server = op[c].server /\ version = op[c].version
                         /\ (at \in {"list", "store"} => op[c].at \in {"list", "store"}))
  PROVE  SessionInv'
<1>1. op'[c] = Request(at, kind, server, version, held, list) /\ \A d \in Clients \ {c} : op'[d] = op[d]
  BY DEF SessionInv, Shaped
<1>2. Shaped'
  <2>1. op' = [d \in Clients |-> op'[d]]
    BY DEF SessionInv, Shaped
  <2> QED
    BY <1>1, <2>1 DEF SessionInv, Shaped, Request
<1>3. Frames'
  BY <1>1 DEF SessionInv, Frames, FrameOK, Idle, Busy
<1>4. Held'
  BY <1>1 DEF SessionInv, Held, HeldOK, Request
<1>5. OfferedIsOpen'
  BY DEF SessionInv, OfferedIsOpen
<1> QED
  BY <1>2, <1>3, <1>4, <1>5 DEF SessionInv

\* No request in progress, as a request.
LEMMA IdleShaped == Idle = Request("idle", None, None, None, None, <<>>)
  BY DEF Idle, Request

\* What a save begins with.
SaveFrame(s, v, list) ==
  [Idle EXCEPT !.at = "detach", !.kind = "save", !.server = s, !.version = v, !.list = list]

\* The frames that requests begin with.
LEMMA StartingShaped ==
  ASSUME NEW kind, NEW s, NEW v
  PROVE  /\ [Idle EXCEPT !.at = "detach", !.kind = kind, !.server = s]
            = Request("detach", kind, s, None, None, <<>>)
         /\ [Idle EXCEPT !.at = "detach", !.kind = kind, !.server = s, !.version = v]
            = Request("detach", kind, s, v, None, <<>>)
<1> DEFINE r0 == Idle
           r1 == [r0 EXCEPT !.at = "detach", !.kind = kind, !.server = s]
           r2 == [r0 EXCEPT !.at = "detach", !.kind = kind, !.server = s, !.version = v]
           F(a, k, t, w, l) == [at : {a}, kind : {k}, server : {t}, version : {w},
                                session : {None}, list : {l}]
<1>1. r0 \in F("idle", None, None, None, <<>>)
  BY DEF Idle
<1> HIDE DEF r0
<1>2. r1 \in F("detach", kind, s, None, <<>>)
  BY <1>1
<1>3. r2 \in F("detach", kind, s, v, <<>>)
  BY <1>1
<1> HIDE DEF r1, r2
<1>4. r1 = Request("detach", kind, s, None, None, <<>>)
  BY <1>2 DEF Request
<1>5. r2 = Request("detach", kind, s, v, None, <<>>)
  BY <1>3 DEF Request
<1> QED
  BY <1>4, <1>5 DEF r0, r1, r2

\* A save begins with a sound frame.
LEMMA SaveShaped ==
  ASSUME NEW s, NEW v, NEW list
  PROVE  SaveFrame(s, v, list) = Request("detach", "save", s, v, None, list)
<1> DEFINE F(a, k, t, w, l) == [at : {a}, kind : {k}, server : {t}, version : {w},
                                session : {None}, list : {l}]
<1>1. Idle \in F("idle", None, None, None, <<>>)
  BY DEF Idle
<1>2. SaveFrame(s, v, list) \in F("detach", "save", s, v, list)
  BY <1>1 DEF SaveFrame
<1> QED
  BY <1>2 DEF Request

\* A client that was idle has nothing; one that is not has a sound frame.
LEMMA Running ==
  ASSUME SessionInv, NEW c \in Clients, op[c].at # "idle"
  PROVE  /\ op[c].server \in Servers
         /\ op[c].kind \in {"save", "delete"} => writer = c
         /\ op[c].session = None \/ op[c].session \in Sessions
         /\ op[c].at \in {"close", "list", "store"} => op[c].session \in Sessions
         /\ op[c].at \in {"detach", "dial", "define", "write", "commit"} => op[c].session = None
         /\ op[c].at \in {"dial", "list", "store"} => op[c].kind = "connect"
         /\ op[c].at \in {"define", "write", "commit"} => op[c].kind \in {"save", "delete"}
         /\ op[c].at \in {"detach", "close"} => op[c].kind \in Kind
  BY DEF SessionInv, Frames, FrameOK, Idle

\* A new request starts with nothing in its hands.
LEMMA Beginning ==
  ASSUME SessionInv, NEW c \in Clients, NEW s \in Servers, NEW kind \in Kind, NEW version, NEW list,
         Begin(c, s, kind, Request("detach", kind, s, version, None, list)),
         kind \in {"save", "delete"} => writer = None /\ writer' = c,
         kind \notin {"save", "delete"} => writer' = writer,
         UNCHANGED <<manager, session>>
  PROVE  SessionInv'
<1>1. op' = [op EXCEPT ![c] = Request("detach", kind, s, version, None, list)]
  BY DEF Begin
<1>2. op'[c] = Request("detach", kind, s, version, None, list)
  BY <1>1 DEF SessionInv, Shaped
<1>3. FrameOK(c)'
  BY <1>2 DEF FrameOK, Request
<1>4. \A d \in Clients \ {c} : Busy(d) /\ op[d].kind \in {"save", "delete"} => writer' = writer
  BY NoneAssumption DEF SessionInv, Frames, FrameOK, Idle, Busy
<1> QED
  BY <1>1, <1>3, <1>4, Moving DEF SessionInv, Shaped, manager

\* The requests that begin.
LEMMA BeginKept ==
  ASSUME SessionInv, NEW c \in Clients, NEW s \in Servers,
         \/ ConnectMCPServer(c, s)
         \/ DisconnectMCPServer(c, s)
         \/ DeleteMCPServer(c, s)
         \/ \E v \in Versions : SaveMCPServer(c, s, v)
  PROVE  SessionInv'
<1>1. CASE ConnectMCPServer(c, s)
  <2>1. [Idle EXCEPT !.at = "detach", !.kind = "connect", !.server = s, !.version = defs[s]]
        = Request("detach", "connect", s, defs[s], None, <<>>)
    BY StartingShaped
  <2> QED
    BY <1>1, <2>1, Beginning DEF ConnectMCPServer, Kind, config
<1>2. CASE DisconnectMCPServer(c, s)
  <2>1. [Idle EXCEPT !.at = "detach", !.kind = "disconnect", !.server = s]
        = Request("detach", "disconnect", s, None, None, <<>>)
    BY StartingShaped
  <2> QED
    BY <1>2, <2>1, Beginning DEF DisconnectMCPServer, Kind, config
<1>3. CASE DeleteMCPServer(c, s)
  <2>1. [Idle EXCEPT !.at = "detach", !.kind = "delete", !.server = s]
        = Request("detach", "delete", s, None, None, <<>>)
    BY StartingShaped
  <2> QED
    BY <1>3, <2>1, Beginning DEF DeleteMCPServer, Kind
<1>4. ASSUME NEW v \in Versions, SaveMCPServer(c, s, v) PROVE SessionInv'
  <2> DEFINE list == Replaced(memory, [server |-> s, plain |-> TRUE, version |-> v])
             frame == SaveFrame(s, v, list)
  <2>1. frame = Request("detach", "save", s, v, None, list)
    BY SaveShaped
  <2>2. /\ writer = None /\ UNCHANGED <<manager, session>>
        /\ \/ writer' = c /\ Begin(c, s, "save", frame)
           \/ UNCHANGED <<writer, op, raced>>
    BY <1>4 DEF SaveMCPServer, SaveFrame
  <2>3. CASE writer' = c /\ Begin(c, s, "save", frame)
    <3> HIDE DEF list, frame
    <3> QED
      BY <2>1, <2>2, <2>3, Beginning DEF Kind
  <2>4. CASE UNCHANGED <<writer, op, raced>>
    BY <2>2, <2>4 DEF SessionInv, Shaped, Frames, FrameOK, Held, HeldOK, OfferedIsOpen, manager
  <2> QED
    BY <2>2, <2>3, <2>4
<1> QED
  BY <1>1, <1>2, <1>3, <1>4

\* A request that ends without touching a session or an entry.
LEMMA Ending ==
  ASSUME SessionInv, NEW c \in Clients, op[c].session = None, Return(c), UNCHANGED <<defs, table, session>>,
         \A d \in Clients \ {c} : Busy(d) /\ op[d].kind \in {"save", "delete"} => writer' = writer
  PROVE  SessionInv'
<1>1. op' = [op EXCEPT ![c] = Request("idle", None, None, None, None, <<>>)]
  BY IdleShaped DEF Return
<1>2. FrameOK(c)'
  BY DEF SessionInv, Shaped, Return, FrameOK
<1> QED
  BY <1>1, <1>2, Moving DEF SessionInv, Shaped

\* Releasing the lock at the end of a request takes it from no other one.
LEMMA Unlocking ==
  ASSUME SessionInv, NEW c \in Clients, Unlock(c), NEW d \in Clients \ {c},
         Busy(d), op[d].kind \in {"save", "delete"}
  PROVE  writer' = writer
  BY NoneAssumption DEF Unlock, SessionInv, Frames, FrameOK, Idle, Busy

\* Disconnect takes the entry out of the table, and the request has its
\* session in its hands alone.
LEMMA DetachKept == ASSUME SessionInv, NEW c \in Clients, Detach(c) PROVE SessionInv'
<1>1. op[c].server \in Servers /\ op[c].kind \in Kind /\ op[c].session = None
      /\ op[c].at = "detach" /\ (op[c].kind \in {"save", "delete"} => writer = c)
  BY Running DEF Detach
<1> DEFINE s == op[c].server
<1>2. UNCHANGED <<defs, session, writer>> /\ table' = [table EXCEPT ![s] = None]
  BY DEF Detach, config
<1>3. /\ table' \in [Servers -> Sessions \cup {None}] /\ table'[s] = None
      /\ \A t \in Servers \ {s} : table'[t] = table[t]
  BY <1>1, <1>2 DEF SessionInv, Shaped
<1>4. CASE table[s] = None
  <2>1. table' = table
    BY <1>2, <1>4, <1>1 DEF SessionInv, Shaped
  <2>2. Continue(c)
    BY <1>4 DEF Detach
  <2>3. CASE op' = [op EXCEPT ![c] = Idle]
    BY <1>1, <1>2, <2>1, <2>3, Ending DEF Return
  <2>4. CASE /\ op[c].kind # "disconnect"
             /\ op' = [op EXCEPT ![c] = Request(AfterDetach(op[c].kind), op[c].kind, op[c].server,
                                                op[c].version, None, op[c].list)]
    <3>1. op'[c] = Request(AfterDetach(op[c].kind), op[c].kind, op[c].server, op[c].version, None,
                           op[c].list)
      BY <2>4 DEF SessionInv, Shaped
    <3>2. FrameOK(c)'
      BY <1>1, <1>2, <2>4, <3>1 DEF FrameOK, Request, AfterDetach, Kind
    <3> QED
      BY <1>2, <2>1, <2>4, <3>2, Moving DEF SessionInv, Shaped
  <2> QED
    BY <2>2, <2>3, <2>4, Continuing DEF SessionInv
<1>5. CASE table[s] # None
  <2>1. table[s] \in Sessions
    BY <1>1, <1>5 DEF SessionInv, Shaped
  <2>2. op' = [op EXCEPT ![c] = Request("close", op[c].kind, s, op[c].version, table[s], op[c].list)]
    <3>1. op' = [op EXCEPT ![c] = Handed(op[c], table[s])]
      BY <1>5 DEF Detach, SessionInv, Shaped, Handed
    <3>2. op[c] = Request(op[c].at, op[c].kind, op[c].server, op[c].version, op[c].session, op[c].list)
      BY DEF SessionInv, Shaped
    <3>3. Handed(op[c], table[s]) = Request("close", op[c].kind, s, op[c].version, table[s], op[c].list)
      BY ONLY <3>2, HandedShaped
    <3> QED
      BY <3>1, <3>3
  <2>3. /\ op'[c] = Request("close", op[c].kind, s, op[c].version, table[s], op[c].list)
        /\ \A d \in Clients \ {c} : op'[d] = op[d]
    BY <2>2 DEF SessionInv, Shaped
  <2>4. Shaped'
    <3>1. op' = [d \in Clients |-> op'[d]]
      BY <2>2 DEF SessionInv, Shaped
    <3> QED
      BY <1>2, <1>3, <2>3, <3>1 DEF SessionInv, Shaped, Request
  <2>5. Frames'
    BY <1>1, <1>2, <2>1, <2>3 DEF SessionInv, Frames, FrameOK, Request
  <2>6. HeldOK(c)'
    <3>1. session[table[s]].state = "open" /\ session[table[s]].server = s
      BY <1>1, <1>5 DEF SessionInv, OfferedIsOpen
    <3>2. \A t \in Servers : table'[t] # table[s]
      BY <1>1, <1>3, <1>5, <3>1 DEF SessionInv, OfferedIsOpen
    <3>3. \A d \in Clients \ {c} : op[d].session # table[s]
      BY <1>1, <1>5 DEF SessionInv, Held, HeldOK
    <3> QED
      BY <1>2, <2>3, <3>1, <3>2, <3>3 DEF HeldOK, Request
  <2>7. ASSUME NEW d \in Clients \ {c} PROVE HeldOK(d)'
    <3>1. HeldOK(d) /\ op'[d] = op[d] /\ op'[c].session = table[s]
      BY <2>3 DEF SessionInv, Held, Request
    <3>2. \A t \in Servers : op[d].session # None => table'[t] # op[d].session
      BY <1>3, <3>1 DEF HeldOK
    <3>3. op[d].session # None => op'[c].session # op[d].session
      BY <1>1, <3>1 DEF HeldOK
    <3>4. \A e \in Clients \ {d} : op[d].session # None => op'[e].session # op[d].session
      BY <2>3, <3>1, <3>3 DEF HeldOK
    <3> QED
      BY <1>2, <3>1, <3>2, <3>4 DEF HeldOK
  <2>8. Held'
    BY <2>6, <2>7 DEF Held
  <2>9. OfferedIsOpen'
    BY <1>2, <1>3 DEF SessionInv, OfferedIsOpen
  <2> QED
    BY <2>4, <2>5, <2>8, <2>9 DEF SessionInv
<1> QED
  BY <1>4, <1>5

\* The end of a request that held a session: the session is closed, or it is
\* in the table now, and nobody else holds or offers it.
LEMMA ClosedElsewhere ==
  ASSUME SessionInv, NEW c \in Clients, op[c].session \in Sessions,
         session' = [session EXCEPT ![op[c].session] = Closed],
         UNCHANGED <<defs, table>>,
         op'[c].session = None, \A d \in Clients \ {c} : op'[d] = op[d],
         op' = [d \in Clients |-> op'[d]],
         op'[c] = Request(op'[c].at, op'[c].kind, op'[c].server, op'[c].version, None, op'[c].list),
         FrameOK(c)',
         \A d \in Clients \ {c} : Busy(d) /\ op[d].kind \in {"save", "delete"} => writer' = writer
  PROVE  SessionInv'
<1> DEFINE i == op[c].session
<1>1. \A j \in Sessions \ {i} : session'[j] = session[j]
  BY DEF SessionInv, Shaped
<1>2. i # None
  BY NoneAssumption
<1>3. Shaped'
  BY DEF SessionInv, Shaped
<1>4. Frames'
  BY DEF SessionInv, Frames, FrameOK, Busy, Idle
<1>5. Held'
  <2> SUFFICES ASSUME NEW d \in Clients, op'[d].session # None PROVE HeldOK(d)'
    BY DEF Held, HeldOK
  <2>1. d # c /\ op'[d] = op[d] /\ op[d].session # i /\ HeldOK(d)
    BY <1>2 DEF SessionInv, Held, HeldOK
  <2>2. op[d].session \in Sessions
    BY <2>1 DEF SessionInv, Frames, FrameOK, Idle
  <2> QED
    BY <1>1, <2>1, <2>2 DEF HeldOK
<1>6. OfferedIsOpen'
  <2> SUFFICES ASSUME NEW t \in Servers, table[t] # None
               PROVE  session'[table[t]].state = "open" /\ session'[table[t]].server = t
    BY DEF OfferedIsOpen
  <2>1. table[t] \in Sessions /\ table[t] # i
    BY <1>2 DEF SessionInv, Shaped, Held, HeldOK
  <2> QED
    BY <1>1, <2>1 DEF SessionInv, OfferedIsOpen
<1> QED
  BY <1>3, <1>4, <1>5, <1>6 DEF SessionInv

\* Closing the session in one's hands.
LEMMA CloseKept ==
  ASSUME SessionInv, NEW c \in Clients, CloseSession(c) \/ CloseFails(c) PROVE SessionInv'
<1>1. op[c].at = "close" /\ op[c].session \in Sessions /\ op[c].server \in Servers
      /\ op[c].kind \in Kind /\ (op[c].kind \in {"save", "delete"} => writer = c)
      /\ session' = [session EXCEPT ![op[c].session] = Closed] /\ UNCHANGED <<defs, table>>
  BY Running DEF CloseSession, CloseFails, manager
<1>2. CASE op' = [op EXCEPT ![c] = Idle] /\ (writer' = writer \/ Unlock(c))
  <2>1. /\ op'[c] = Request("idle", None, None, None, None, <<>>) /\ op'[c] = Idle
        /\ \A d \in Clients \ {c} : op'[d] = op[d]
        /\ op' = [d \in Clients |-> op'[d]]
    BY <1>2, IdleShaped DEF SessionInv, Shaped
  <2>2. FrameOK(c)'
    BY <2>1 DEF FrameOK
  <2>3. \A d \in Clients \ {c} : Busy(d) /\ op[d].kind \in {"save", "delete"} => writer' = writer
    BY <1>2, Unlocking
  <2>4. /\ op'[c].session = None
        /\ op'[c] = Request(op'[c].at, op'[c].kind, op'[c].server, op'[c].version, None, op'[c].list)
    BY <2>1 DEF Request
  <2> QED
    BY <1>1, <2>1, <2>2, <2>3, <2>4, ClosedElsewhere
<1>3. CASE /\ op[c].kind # "disconnect" /\ writer' = writer
           /\ op' = [op EXCEPT ![c] = Request(AfterDetach(op[c].kind), op[c].kind, op[c].server,
                                              op[c].version, None, op[c].list)]
  <2>1. /\ op'[c] = Request(AfterDetach(op[c].kind), op[c].kind, op[c].server, op[c].version, None,
                            op[c].list)
        /\ \A d \in Clients \ {c} : op'[d] = op[d]
        /\ op' = [d \in Clients |-> op'[d]]
    BY <1>3 DEF SessionInv, Shaped
  <2>2. FrameOK(c)'
    BY <1>1, <1>3, <2>1 DEF FrameOK, Request, AfterDetach, Kind
  <2> QED
    BY <1>1, <1>3, <2>1, <2>2, ClosedElsewhere DEF Request
<1>4. CASE CloseSession(c)
  BY <1>2, <1>3, <1>4, Continuing DEF CloseSession, config, SessionInv
<1>5. CASE CloseFails(c)
  BY <1>2, <1>5 DEF CloseFails, Return
<1> QED
  BY <1>4, <1>5

\* Dialling opens a session that nobody held or offered.
LEMMA DialKept == ASSUME SessionInv, NEW c \in Clients, Dial(c) PROVE SessionInv'
<1>1. /\ op[c].server \in Servers /\ op[c].kind = "connect" /\ op[c].session = None
      /\ UNCHANGED <<defs, table, writer>>
  BY Running DEF Dial, config, manager
<1>2. PICK i \in Sessions :
        /\ session[i].state = "unused"
        /\ session' = [session EXCEPT ![i] = [server |-> op[c].server,
                                              version |-> op[c].version, state |-> "open"]]
        /\ op' = [op EXCEPT ![c].at = "list", ![c].session = i]
  BY DEF Dial
<1>3. op' = [op EXCEPT ![c] = Request("list", op[c].kind, op[c].server, op[c].version, i, op[c].list)]
  <2>1. op' = [op EXCEPT ![c] = Opened(op[c], i)]
    BY <1>2 DEF SessionInv, Shaped, Opened
  <2>2. op[c] = Request(op[c].at, op[c].kind, op[c].server, op[c].version, op[c].session, op[c].list)
    BY DEF SessionInv, Shaped
  <2>3. Opened(op[c], i) = Request("list", op[c].kind, op[c].server, op[c].version, i, op[c].list)
    BY ONLY <2>2, HandedShaped
  <2> QED
    BY <2>1, <2>3
<1>4. /\ op'[c] = Request("list", op[c].kind, op[c].server, op[c].version, i, op[c].list)
      /\ \A d \in Clients \ {c} : op'[d] = op[d]
      /\ op' = [d \in Clients |-> op'[d]]
  BY <1>3 DEF SessionInv, Shaped
<1>5. /\ session' = [j \in Sessions |-> session'[j]]
      /\ session'[i] = [server |-> op[c].server, version |-> op[c].version, state |-> "open"]
      /\ \A j \in Sessions \ {i} : session'[j] = session[j]
  BY <1>2 DEF SessionInv, Shaped
<1>6. Shaped'
  BY <1>1, <1>4, <1>5 DEF SessionInv, Shaped, Request
<1>7. Frames'
  BY <1>1, <1>4 DEF SessionInv, Frames, FrameOK, Request
<1>8. /\ \A t \in Servers : table[t] # i
      /\ \A d \in Clients : op[d].session # i
  BY <1>2, NoneAssumption DEF SessionInv, OfferedIsOpen, Held, HeldOK
<1>9. HeldOK(c)'
  BY <1>1, <1>4, <1>5, <1>8 DEF HeldOK, Request
<1>10. ASSUME NEW d \in Clients \ {c} PROVE HeldOK(d)'
  <2>1. HeldOK(d) /\ op'[d] = op[d] /\ op'[c].session = i
    BY <1>4 DEF SessionInv, Held, Request
  <2>2. op[d].session # None => op[d].session \in Sessions \ {i}
    BY <1>8 DEF SessionInv, Frames, FrameOK, Idle
  <2> QED
    BY <1>1, <1>4, <1>5, <1>8, <2>1, <2>2 DEF HeldOK
<1>11. OfferedIsOpen'
  <2> SUFFICES ASSUME NEW t \in Servers, table[t] # None
               PROVE  session'[table[t]].state = "open" /\ session'[table[t]].server = t
    BY <1>1 DEF OfferedIsOpen
  <2>1. table[t] \in Sessions \ {i}
    BY <1>8 DEF SessionInv, Shaped
  <2> QED
    BY <1>5, <2>1 DEF SessionInv, OfferedIsOpen
<1>12. Held'
  BY <1>9, <1>10 DEF Held
<1> QED
  BY <1>6, <1>7, <1>11, <1>12 DEF SessionInv

\* When the tools cannot be listed the new session is closed.
LEMMA ListToolsFailsKept == ASSUME SessionInv, NEW c \in Clients, ListToolsFails(c) PROVE SessionInv'
<1>1. op[c].session \in Sessions /\ session' = [session EXCEPT ![op[c].session] = Closed]
      /\ UNCHANGED <<defs, table, writer>> /\ op' = [op EXCEPT ![c] = Idle]
  BY Running DEF ListToolsFails, config, Return
<1>2. /\ op'[c] = Request("idle", None, None, None, None, <<>>) /\ op'[c] = Idle
      /\ \A d \in Clients \ {c} : op'[d] = op[d]
      /\ op' = [d \in Clients |-> op'[d]]
  BY <1>1, IdleShaped DEF SessionInv, Shaped
<1>3. FrameOK(c)'
  BY <1>2 DEF FrameOK
<1>4. /\ op'[c].session = None
      /\ op'[c] = Request(op'[c].at, op'[c].kind, op'[c].server, op'[c].version, None, op'[c].list)
  BY <1>2 DEF Request
<1> QED
  BY <1>1, <1>2, <1>3, <1>4, ClosedElsewhere

\* The session goes from the request's hands into the table.
LEMMA StoreKept == ASSUME SessionInv, NEW c \in Clients, Store(c) PROVE SessionInv'
<1>1. /\ op[c].server \in Servers /\ op[c].session \in Sessions /\ op[c].session # None
      /\ table' = [table EXCEPT ![op[c].server] = op[c].session]
      /\ op' = [op EXCEPT ![c] = Idle] /\ UNCHANGED <<defs, session, writer>>
  BY Running, NoneAssumption DEF Store, config, Return
<1>2. /\ op'[c] = Request("idle", None, None, None, None, <<>>) /\ op'[c] = Idle
      /\ \A d \in Clients \ {c} : op'[d] = op[d]
      /\ op' = [d \in Clients |-> op'[d]]
  BY <1>1, IdleShaped DEF SessionInv, Shaped
<1>3. /\ table' \in [Servers -> Sessions \cup {None}] /\ table'[op[c].server] = op[c].session
      /\ \A t \in Servers \ {op[c].server} : table'[t] = table[t]
  BY <1>1 DEF SessionInv, Shaped
<1>4. Shaped'
  BY <1>1, <1>2, <1>3 DEF SessionInv, Shaped, Request
<1>5. Frames'
  BY <1>1, <1>2 DEF SessionInv, Frames, FrameOK
<1>6. Held'
  <2> SUFFICES ASSUME NEW d \in Clients, op'[d].session # None PROVE HeldOK(d)'
    BY DEF Held, HeldOK
  <2>1. op'[c].session = None
    BY <1>2 DEF Request
  <2>2. d # c /\ op'[d] = op[d] /\ HeldOK(d) /\ op[d].session # op[c].session
    BY <1>1, <1>2, <2>1 DEF SessionInv, Held, HeldOK
  <2> QED
    BY <1>1, <1>2, <1>3, <2>1, <2>2 DEF HeldOK
<1>7. OfferedIsOpen'
  BY <1>1, <1>3 DEF SessionInv, Held, HeldOK, OfferedIsOpen
<1> QED
  BY <1>4, <1>5, <1>6, <1>7 DEF SessionInv

\* A restart leaves neither sessions nor requests.
LEMMA RestartKept == ASSUME SessionInv, Restart PROVE SessionInv'
<1>1. Shaped'
  BY IdleShaped DEF Restart, SessionInv, Shaped, Request, Idle, Definitions
<1>2. Frames' /\ Held'
  BY DEF Restart, Frames, FrameOK, Held, HeldOK, Idle
<1>3. OfferedIsOpen'
  BY DEF Restart, OfferedIsOpen
<1> QED
  BY <1>1, <1>2, <1>3 DEF SessionInv

\* Every step keeps the tables and the requests consistent.
LEMMA SessionNext == SessionInv /\ [Next]_vars => SessionInv'
<1> SUFFICES ASSUME SessionInv, [Next]_vars PROVE SessionInv'
  OBVIOUS
<1>1. ASSUME NEW c \in Clients, NEW s \in Servers,
             ConnectMCPServer(c, s) \/ DisconnectMCPServer(c, s) \/ DeleteMCPServer(c, s)
             \/ \E v \in Versions : SaveMCPServer(c, s, v)
      PROVE  SessionInv'
  BY <1>1, BeginKept
<1>2. ASSUME NEW c \in Clients, DialFails(c) PROVE SessionInv'
  <2>1. op[c].session = None /\ UNCHANGED <<defs, table, session, writer>> /\ Return(c)
    BY <1>2, Running DEF DialFails, config
  <2> QED
    BY <2>1, Ending
<1>3. ASSUME NEW c \in Clients, ListTools(c) PROVE SessionInv'
  <2>1. /\ op[c].at = "list" /\ op[c].server \in Servers /\ op[c].session \in Sessions
        /\ op[c].kind = "connect" /\ UNCHANGED <<defs, table, session, writer>>
        /\ op' = [op EXCEPT ![c] = Request("store", op[c].kind, op[c].server, op[c].version,
                                           op[c].session, op[c].list)]
    BY <1>3, Running, Going DEF ListTools, config, manager, SessionInv
  <2>2. op'[c] = Request("store", op[c].kind, op[c].server, op[c].version, op[c].session, op[c].list)
    BY <2>1 DEF SessionInv, Shaped
  <2>3. FrameOK(c)'
    BY <2>1, <2>2 DEF FrameOK, Request
  <2> QED
    BY <2>1, <2>3, Moving DEF SessionInv, Shaped
<1>4. ASSUME NEW c \in Clients, Define(c) PROVE SessionInv'
  <2> DEFINE at == IF op[c].kind = "save" THEN "commit" ELSE "write"
  <2>1. /\ op[c].server \in Servers /\ op[c].session = None /\ op[c].kind \in {"save", "delete"}
        /\ writer = c /\ UNCHANGED <<table, session, writer>> /\ Goto(c, at)
        /\ defs' = [defs EXCEPT ![op[c].server] = op[c].version]
    BY <1>4, Running DEF Define, config
  <2>2. op' = [op EXCEPT ![c] = Request(at, op[c].kind, op[c].server, op[c].version,
                                        op[c].session, op[c].list)]
    BY <2>1, Going DEF SessionInv
  <2>3. op'[c] = Request(at, op[c].kind, op[c].server, op[c].version, op[c].session, op[c].list)
    BY <2>2 DEF SessionInv, Shaped
  <2>4. FrameOK(c)'
    BY <2>1, <2>3 DEF FrameOK, Request
  <2>5. defs' = [s \in Servers |-> defs'[s]]
    BY <2>1 DEF SessionInv, Shaped
  <2>6. at \notin {"list", "store"}
    OBVIOUS
  <2> QED
    BY <2>1, <2>2, <2>4, <2>5, <2>6, Moving
<1>5. ASSUME NEW c \in Clients, WriteDeleted(c) \/ Commit(c) PROVE SessionInv'
  <2>1. op[c].session = None /\ UNCHANGED <<defs, table, session>> /\ Return(c) /\ Unlock(c)
    BY <1>5, Running DEF WriteDeleted, Commit, manager
  <2> QED
    BY <2>1, Ending, Unlocking
<1>6. CASE UNCHANGED vars
  BY <1>6 DEF vars, SessionInv, Shaped, Frames, FrameOK, Held, HeldOK, OfferedIsOpen
<1> QED
  BY <1>1, <1>2, <1>3, <1>4, <1>5, <1>6, DetachKept, CloseKept, DialKept, ListToolsFailsKept,
     StoreKept, RestartKept DEF Next

\* A session that is offered to the next turn is open and its server's own.
THEOREM OfferedCorrect == Spec => []OfferedIsOpen
<1>1. SessionInv => OfferedIsOpen
  BY DEF SessionInv
<1> QED
  BY <1>1, SessionInit, SessionNext, PTL DEF Spec

-----------------------------------------------------------------------------
(* Servers whose connects overlap nothing.                                 *)

\* A connect is alone with its server.
Alone ==
  \A c, d \in Clients :
    c # d /\ op[c].server = op[d].server /\ op[c].server \in Servers \ raced =>
      op[c].kind # "connect"

\* It dials the present definition.
Fresh ==
  \A c \in Clients :
    op[c].server \in Servers \ raced /\ op[c].kind = "connect" =>
      op[c].version = defs[op[c].server]

\* After its Disconnect a request finds its server's entry empty.
Emptied ==
  \A c \in Clients :
    op[c].server \in Servers \ raced /\ op[c].at # "detach" => table[op[c].server] = None

\* What is in the table is up to date and not shown as failed.
Current ==
  \A s \in Servers \ raced :
    table[s] # None => session[table[s]].version = defs[s] /\ s \notin failed

\* No open session is forgotten.
NoLeak ==
  \A s \in Servers \ raced, i \in Sessions :
    session[i].state = "open" /\ session[i].server = s =>
      table[s] = i \/ \E c \in Clients : op[c].session = i

SoloInv == Alone /\ Fresh /\ Emptied /\ Current /\ NoLeak

\* Nothing is open and nobody is busy at the start.
LEMMA SoloInit == Init => SoloInv
<1> SUFFICES ASSUME Init PROVE SoloInv
  OBVIOUS
<1>1. \A i \in Sessions : session[i].state = "unused"
  BY DEF Init, Closed
<1>2. \A c \in Clients : op[c].server = None
  BY DEF Init, Idle
<1>3. \A s \in Servers : table[s] = None
  BY DEF Init
<1> QED
  BY <1>1, <1>2, <1>3, NoneAssumption DEF SoloInv, Alone, Fresh, Emptied, Current, NoLeak

\* A request that goes on stays the request that it was.
Follows(c) ==
  /\ raced' = raced
  /\ \A d \in Clients \ {c} : op'[d] = op[d]
  /\ \/ op'[c] = Idle
     \/ /\ op'[c].kind = op[c].kind
        /\ op'[c].server = op[c].server
        /\ op'[c].version = op[c].version

\* A request that goes on begins no overlap, and dials what it was to dial.
LEMMA FollowsKept ==
  ASSUME SoloInv, NEW c \in Clients, Follows(c)
  PROVE  /\ Alone'
         /\ defs' = defs => Fresh'
         /\ table' = table /\ op[c].at # "detach" => Emptied'
<1>1. \A d \in Clients : op'[d].server \in Servers =>
        op'[d].server = op[d].server /\ op'[d].kind = op[d].kind /\ op'[d].version = op[d].version
  BY NoneAssumption DEF Follows, Idle
<1>2. Alone'
  BY <1>1 DEF SoloInv, Alone, Follows
<1>3. defs' = defs => Fresh'
  BY <1>1 DEF SoloInv, Fresh, Follows
<1>4. table' = table /\ op[c].at # "detach" => Emptied'
  BY <1>1 DEF SoloInv, Emptied, Follows
<1> QED
  BY <1>2, <1>3, <1>4

\* Steps that leave the table, the sessions and the definitions alone, and
\* note no failure of another server.
LEMMA QuietKept ==
  ASSUME SessionInv, SoloInv, NEW c \in Clients, Follows(c), op[c].at # "detach",
         UNCHANGED <<defs, table, session>>, op[c].server \in Servers,
         failed' \subseteq failed \cup {op[c].server},
         op[c].session = None \/ op'[c].session = op[c].session
  PROVE  SoloInv'
<1>1. Alone' /\ Fresh' /\ Emptied'
  BY FollowsKept
<1>2. Current'
  BY DEF SoloInv, Current, Emptied, Follows
<1>3. NoLeak'
  <2> SUFFICES ASSUME NEW s \in Servers \ raced, NEW i \in Sessions,
                      session[i].state = "open", session[i].server = s, table[s] # i
               PROVE  \E d \in Clients : op'[d].session = i
    BY DEF NoLeak, Follows
  <2>1. PICK d \in Clients : op[d].session = i
    BY DEF SoloInv, NoLeak
  <2> QED
    BY <2>1, NoneAssumption DEF Follows
<1> QED
  BY <1>1, <1>2, <1>3 DEF SoloInv

\* A request that begins: an overlap with a connect is noted.
LEMMA BeginSolo ==
  ASSUME SessionInv, SoloInv, NEW c \in Clients, NEW s \in Servers, NEW kind \in Kind,
         NEW version, NEW list,
         Begin(c, s, kind, Request("detach", kind, s, version, None, list)),
         kind = "connect" => version = defs[s],
         UNCHANGED <<manager, session>>
  PROVE  SoloInv'
<1>1. /\ op'[c] = Request("detach", kind, s, version, None, list)
      /\ \A d \in Clients \ {c} : op'[d] = op[d]
      /\ op[c] = Idle
      /\ UNCHANGED <<defs, table, failed, session>>
  BY DEF SessionInv, Shaped, Begin, Busy, Frames, FrameOK, manager
<1>2. /\ raced \subseteq raced'
      /\ s \notin raced' => \A d \in Clients \ {c} :
           Busy(d) /\ op[d].server = s => kind # "connect" /\ op[d].kind # "connect"
  BY DEF Begin, Overlaps
<1>3. \A d \in Clients : op[d].server \in Servers => Busy(d)
  BY NoneAssumption DEF SessionInv, Frames, FrameOK, Busy, Idle
<1>4. Alone'
  <2> SUFFICES ASSUME NEW d \in Clients, NEW e \in Clients, d # e,
                      op'[d].server = op'[e].server, op'[d].server \in Servers \ raced'
               PROVE  op'[d].kind # "connect"
    BY DEF Alone
  <2>1. CASE d # c /\ e # c
    BY <1>1, <1>2, <2>1 DEF SoloInv, Alone
  <2>2. CASE d = c
    BY <1>1, <1>2, <1>3, <2>2 DEF Request
  <2>3. CASE e = c
    BY <1>1, <1>2, <1>3, <2>3 DEF Request
  <2> QED
    BY <2>1, <2>2, <2>3
<1>5. Fresh'
  BY <1>1, <1>2 DEF SoloInv, Fresh, Request
<1>6. Emptied'
  BY <1>1, <1>2 DEF SoloInv, Emptied, Request
<1>7. Current'
  BY <1>1, <1>2 DEF SoloInv, Current
<1>8. NoLeak'
  <2> SUFFICES ASSUME NEW t \in Servers \ raced', NEW i \in Sessions,
                      session[i].state = "open", session[i].server = t, table[t] # i
               PROVE  \E d \in Clients : op'[d].session = i
    BY <1>1 DEF NoLeak
  <2>1. PICK d \in Clients : op[d].session = i
    BY <1>2 DEF SoloInv, NoLeak
  <2>2. d # c
    BY <1>1, <2>1, NoneAssumption DEF Idle
  <2> QED
    BY <1>1, <2>1, <2>2
<1> QED
  BY <1>4, <1>5, <1>6, <1>7, <1>8 DEF SoloInv

\* The requests that begin.
LEMMA BeginSound ==
  ASSUME SessionInv, SoloInv, NEW c \in Clients, NEW s \in Servers,
         \/ ConnectMCPServer(c, s)
         \/ DisconnectMCPServer(c, s)
         \/ DeleteMCPServer(c, s)
         \/ \E v \in Versions : SaveMCPServer(c, s, v)
  PROVE  SoloInv'
<1>1. CASE ConnectMCPServer(c, s)
  <2>1. [Idle EXCEPT !.at = "detach", !.kind = "connect", !.server = s, !.version = defs[s]]
        = Request("detach", "connect", s, defs[s], None, <<>>)
    BY StartingShaped
  <2> QED
    BY <1>1, <2>1, BeginSolo DEF ConnectMCPServer, Kind
<1>2. CASE DisconnectMCPServer(c, s)
  <2>1. [Idle EXCEPT !.at = "detach", !.kind = "disconnect", !.server = s]
        = Request("detach", "disconnect", s, None, None, <<>>)
    BY StartingShaped
  <2> QED
    BY <1>2, <2>1, BeginSolo DEF DisconnectMCPServer, Kind
<1>3. CASE DeleteMCPServer(c, s)
  <2>1. [Idle EXCEPT !.at = "detach", !.kind = "delete", !.server = s]
        = Request("detach", "delete", s, None, None, <<>>)
    BY StartingShaped
  <2> QED
    BY <1>3, <2>1, BeginSolo DEF DeleteMCPServer, Kind
<1>4. ASSUME NEW v \in Versions, SaveMCPServer(c, s, v) PROVE SoloInv'
  <2> DEFINE list == Replaced(memory, [server |-> s, plain |-> TRUE, version |-> v])
             frame == SaveFrame(s, v, list)
  <2>1. frame = Request("detach", "save", s, v, None, list)
    BY SaveShaped
  <2>2. /\ UNCHANGED <<manager, session>>
        /\ \/ Begin(c, s, "save", frame)
           \/ UNCHANGED <<op, raced>>
    BY <1>4 DEF SaveMCPServer, SaveFrame
  <2>3. CASE Begin(c, s, "save", frame)
    <3> HIDE DEF list, frame
    <3> QED
      BY <2>1, <2>2, <2>3, BeginSolo DEF Kind
  <2>4. CASE UNCHANGED <<op, raced>>
    BY <2>2, <2>4 DEF SoloInv, Alone, Fresh, Emptied, Current, NoLeak, manager
  <2> QED
    BY <2>2, <2>3, <2>4
<1> QED
  BY <1>1, <1>2, <1>3, <1>4

\* The new frame of a request that goes on follows the old one.
LEMMA GoesOn ==
  ASSUME SessionInv, NEW c \in Clients, NEW f, op' = [op EXCEPT ![c] = f], raced' = raced,
         f = Idle \/ \E at, held : f = Request(at, op[c].kind, op[c].server, op[c].version,
                                              held, op[c].list)
  PROVE  Follows(c) /\ op'[c] = f
  BY DEF SessionInv, Shaped, Follows, Request

\* Disconnect empties the entry of its server.
LEMMA DetachSolo == ASSUME SessionInv, SoloInv, NEW c \in Clients, Detach(c) PROVE SoloInv'
<1>1. op[c].server \in Servers /\ op[c].session = None /\ UNCHANGED <<defs, session, raced>>
      /\ table' = [table EXCEPT ![op[c].server] = None] /\ failed' = failed \ {op[c].server}
  BY Running DEF Detach
<1> DEFINE s == op[c].server
<1>2. table'[s] = None /\ \A t \in Servers \ {s} : table'[t] = table[t]
  BY <1>1 DEF SessionInv, Shaped
<1>3. Follows(c) /\ (table[s] # None => op'[c].session = table[s])
  <2>1. CASE table[s] = None
    <3>1. Continue(c)
      BY <2>1 DEF Detach
    <3> QED
      BY <1>1, <2>1, <3>1, Continuing, GoesOn DEF SessionInv
  <2>2. CASE table[s] # None
    <3>1. op' = [op EXCEPT ![c] = Handed(op[c], table[s])]
      BY <2>2 DEF Detach, SessionInv, Shaped, Handed
    <3>2. op[c] = Request(op[c].at, op[c].kind, op[c].server, op[c].version, op[c].session, op[c].list)
      BY DEF SessionInv, Shaped
    <3>3. Handed(op[c], table[s]) = Request("close", op[c].kind, s, op[c].version, table[s], op[c].list)
      BY ONLY <3>2, HandedShaped
    <3>4. Follows(c) /\ op'[c] = Request("close", op[c].kind, s, op[c].version, table[s], op[c].list)
      BY <1>1, <3>1, <3>3, GoesOn
    <3> QED
      BY <3>4 DEF Request
  <2> QED
    BY <2>1, <2>2
<1>4. Alone' /\ Fresh'
  BY <1>1, <1>3, FollowsKept
<1>5. Emptied'
  BY <1>2, <1>3, NoneAssumption DEF SoloInv, Emptied, Follows, Idle
<1>6. Current'
  BY <1>1, <1>2 DEF SoloInv, Current
<1>7. NoLeak'
  <2> SUFFICES ASSUME NEW t \in Servers \ raced, NEW i \in Sessions,
                      session[i].state = "open", session[i].server = t, table'[t] # i
               PROVE  \E d \in Clients : op'[d].session = i
    BY <1>1 DEF NoLeak
  <2>1. CASE table[t] = i
    BY <1>2, <1>3, <2>1, NoneAssumption
  <2>2. CASE table[t] # i
    <3>1. PICK d \in Clients : op[d].session = i
      BY <2>2 DEF SoloInv, NoLeak
    <3> QED
      BY <1>1, <1>3, <3>1, NoneAssumption DEF Follows
  <2> QED
    BY <2>1, <2>2
<1> QED
  BY <1>4, <1>5, <1>6, <1>7 DEF SoloInv

\* Closing the session that one holds forgets no other.
LEMMA ClosingSolo ==
  ASSUME SessionInv, SoloInv, NEW c \in Clients, Follows(c), op[c].at # "detach",
         op[c].server \in Servers, op[c].session \in Sessions,
         session' = [session EXCEPT ![op[c].session] = Closed],
         UNCHANGED <<defs, table>>, failed' \subseteq failed \cup {op[c].server}
  PROVE  SoloInv'
<1> DEFINE i == op[c].session
<1>1. session'[i].state = "closed" /\ \A j \in Sessions \ {i} : session'[j] = session[j]
  BY DEF SessionInv, Shaped, Closed
<1>2. Alone' /\ Fresh' /\ Emptied'
  BY FollowsKept
<1>3. Current'
  <2> SUFFICES ASSUME NEW s \in Servers \ raced, table[s] # None
               PROVE  session'[table[s]].version = defs[s] /\ s \notin failed'
    BY DEF Current, Follows
  <2>1. table[s] \in Sessions \ {i}
    BY NoneAssumption DEF SessionInv, Shaped, Held, HeldOK
  <2> QED
    BY <1>1, <2>1 DEF SoloInv, Current, Emptied
<1>4. NoLeak'
  <2> SUFFICES ASSUME NEW s \in Servers \ raced, NEW j \in Sessions,
                      session'[j].state = "open", session'[j].server = s, table[s] # j
               PROVE  \E d \in Clients : op'[d].session = j
    BY DEF NoLeak, Follows
  <2>1. j # i /\ session'[j] = session[j]
    BY <1>1
  <2>2. PICK d \in Clients : op[d].session = j
    BY <2>1 DEF SoloInv, NoLeak
  <2> QED
    BY <2>1, <2>2 DEF Follows
<1> QED
  BY <1>2, <1>3, <1>4 DEF SoloInv

\* The requests that close a session.
LEMMA CloseSolo ==
  ASSUME SessionInv, SoloInv, NEW c \in Clients, CloseSession(c) \/ CloseFails(c) \/ ListToolsFails(c)
  PROVE  SoloInv'
<1>1. /\ op[c].at # "detach" /\ op[c].session \in Sessions /\ op[c].server \in Servers
      /\ session' = [session EXCEPT ![op[c].session] = Closed]
      /\ UNCHANGED <<defs, table, raced>> /\ failed' \subseteq failed \cup {op[c].server}
  BY Running DEF CloseSession, CloseFails, ListToolsFails, manager
<1>2. Follows(c)
  <2>1. CASE CloseSession(c)
    BY <1>1, <2>1, Continuing, GoesOn DEF CloseSession, SessionInv
  <2>2. CASE CloseFails(c) \/ ListToolsFails(c)
    BY <1>1, <2>2, GoesOn DEF CloseFails, ListToolsFails, Return
  <2> QED
    BY <2>1, <2>2
<1> QED
  BY <1>1, <1>2, ClosingSolo

\* The session that a connect opens is in its hands.
LEMMA DialSolo == ASSUME SessionInv, SoloInv, NEW c \in Clients, Dial(c) PROVE SoloInv'
<1>1. op[c].at # "detach" /\ op[c].session = None /\ UNCHANGED <<defs, table, failed, raced>>
  BY Running DEF Dial, manager
<1>2. PICK i \in Sessions :
        /\ session[i].state = "unused"
        /\ session' = [session EXCEPT ![i] = [server |-> op[c].server,
                                              version |-> op[c].version, state |-> "open"]]
        /\ op' = [op EXCEPT ![c].at = "list", ![c].session = i]
  BY DEF Dial
<1>3. Follows(c) /\ op'[c].session = i
  <2>1. op' = [op EXCEPT ![c] = Opened(op[c], i)]
    BY <1>2 DEF SessionInv, Shaped, Opened
  <2>2. op[c] = Request(op[c].at, op[c].kind, op[c].server, op[c].version, op[c].session, op[c].list)
    BY DEF SessionInv, Shaped
  <2>3. Opened(op[c], i) = Request("list", op[c].kind, op[c].server, op[c].version, i, op[c].list)
    BY ONLY <2>2, HandedShaped
  <2>4. Follows(c) /\ op'[c] = Request("list", op[c].kind, op[c].server, op[c].version, i, op[c].list)
    BY <1>1, <2>1, <2>3, GoesOn
  <2> QED
    BY <2>4 DEF Request
<1>4. \A j \in Sessions \ {i} : session'[j] = session[j]
  BY <1>2 DEF SessionInv, Shaped
<1>5. Alone' /\ Fresh' /\ Emptied'
  BY <1>1, <1>3, FollowsKept
<1>6. Current'
  <2> SUFFICES ASSUME NEW s \in Servers \ raced, table[s] # None
               PROVE  session'[table[s]].version = defs[s] /\ s \notin failed
    BY <1>1 DEF Current
  <2>1. table[s] \in Sessions \ {i}
    BY <1>2 DEF SessionInv, Shaped, OfferedIsOpen
  <2> QED
    BY <1>4, <2>1 DEF SoloInv, Current
<1>7. NoLeak'
  <2> SUFFICES ASSUME NEW s \in Servers \ raced, NEW j \in Sessions,
                      session'[j].state = "open", session'[j].server = s, table[s] # j, j # i
               PROVE  \E d \in Clients : op'[d].session = j
    BY <1>1, <1>3 DEF NoLeak
  <2>1. PICK d \in Clients : op[d].session = j
    BY <1>4 DEF SoloInv, NoLeak
  <2>2. d # c
    BY <1>1, <2>1, NoneAssumption
  <2> QED
    BY <1>3, <2>1, <2>2 DEF Follows
<1> QED
  BY <1>5, <1>6, <1>7 DEF SoloInv

\* A connect that was alone stores its session in an empty entry.
LEMMA StoreSolo == ASSUME SessionInv, SoloInv, NEW c \in Clients, Store(c) PROVE SoloInv'
<1> DEFINE s == op[c].server
           i == op[c].session
<1>1. /\ s \in Servers /\ i \in Sessions /\ op[c].kind = "connect" /\ op[c].at = "store"
      /\ table' = [table EXCEPT ![s] = i] /\ failed' = failed \ {s}
      /\ op' = [op EXCEPT ![c] = Idle] /\ UNCHANGED <<defs, session, raced>>
  BY Running DEF Store, Return
<1>2. Follows(c) /\ op'[c] = Idle
  BY <1>1, GoesOn
<1>3. table'[s] = i /\ \A t \in Servers \ {s} : table'[t] = table[t]
  BY <1>1 DEF SessionInv, Shaped
<1>4. Alone' /\ Fresh'
  BY <1>1, <1>2, FollowsKept
<1>5. Emptied'
  <2> SUFFICES ASSUME NEW d \in Clients, op'[d].server \in Servers \ raced, op'[d].at # "detach"
               PROVE  table'[op'[d].server] = None
    BY <1>1 DEF Emptied
  <2>1. d # c /\ op'[d] = op[d]
    BY <1>2, NoneAssumption DEF Follows, Idle
  <2>2. op[d].server # s
    BY <1>1, <2>1 DEF SoloInv, Alone
  <2> QED
    BY <1>3, <2>1, <2>2 DEF SoloInv, Emptied
<1>6. Current'
  <2>1. s \notin raced => session[i].version = defs[s]
    BY <1>1, NoneAssumption DEF SessionInv, Held, HeldOK, SoloInv, Fresh
  <2> QED
    BY <1>1, <1>3, <2>1 DEF SoloInv, Current
<1>7. NoLeak'
  <2> SUFFICES ASSUME NEW t \in Servers \ raced, NEW j \in Sessions,
                      session[j].state = "open", session[j].server = t, table'[t] # j
               PROVE  \E d \in Clients : op'[d].session = j
    BY <1>1 DEF NoLeak
  <2>1. j # i
    BY <1>1, <1>3, NoneAssumption DEF SessionInv, Held, HeldOK
  <2>2. table[t] # j
    BY <1>1, <1>3, NoneAssumption DEF SoloInv, Emptied
  <2>3. PICK d \in Clients : op[d].session = j
    BY <2>2 DEF SoloInv, NoLeak
  <2> QED
    BY <1>2, <2>1, <2>3 DEF Follows
<1> QED
  BY <1>4, <1>5, <1>6, <1>7 DEF SoloInv

\* A new definition finds the server's entry empty and no connect with it.
LEMMA DefineSolo == ASSUME SessionInv, SoloInv, NEW c \in Clients, Define(c) PROVE SoloInv'
<1> DEFINE s == op[c].server
           at == IF op[c].kind = "save" THEN "commit" ELSE "write"
<1>1. /\ s \in Servers /\ op[c].session = None /\ op[c].at = "define"
      /\ op[c].kind \in {"save", "delete"} /\ UNCHANGED <<table, session, raced>>
      /\ Goto(c, at) /\ defs' = [defs EXCEPT ![s] = op[c].version] /\ failed' = failed \ {s}
  BY Running DEF Define
<1>2. Follows(c)
  BY <1>1, Going, GoesOn DEF SessionInv
<1>3. \A t \in Servers \ {s} : defs'[t] = defs[t]
  BY <1>1 DEF SessionInv, Shaped
<1>4. Alone' /\ Emptied'
  BY <1>1, <1>2, FollowsKept
<1>5. Fresh'
  <2> SUFFICES ASSUME NEW d \in Clients, op'[d].server \in Servers \ raced, op'[d].kind = "connect"
               PROVE  op'[d].version = defs'[op'[d].server]
    BY <1>1 DEF Fresh
  <2>1. d # c /\ op'[d] = op[d]
    BY <1>1, <1>2, NoneAssumption DEF Follows, Idle
  <2>2. op[d].server # s
    BY <1>1, <2>1 DEF SoloInv, Alone
  <2> QED
    BY <1>3, <2>1, <2>2 DEF SoloInv, Fresh
<1>6. Current'
  BY <1>1, <1>3 DEF SoloInv, Current, Emptied
<1>7. NoLeak'
  <2> SUFFICES ASSUME NEW t \in Servers \ raced, NEW j \in Sessions,
                      session[j].state = "open", session[j].server = t, table[t] # j
               PROVE  \E d \in Clients : op'[d].session = j
    BY <1>1 DEF NoLeak
  <2>1. PICK d \in Clients : op[d].session = j
    BY DEF SoloInv, NoLeak
  <2> QED
    BY <1>1, <1>2, <2>1, NoneAssumption DEF Follows
<1> QED
  BY <1>4, <1>5, <1>6, <1>7 DEF SoloInv

\* Every step keeps what is said of servers whose connects overlap nothing.
LEMMA SoloNext == SessionInv /\ SoloInv /\ [Next]_vars => SoloInv'
<1> SUFFICES ASSUME SessionInv, SoloInv, [Next]_vars PROVE SoloInv'
  OBVIOUS
<1>1. ASSUME NEW c \in Clients, NEW s \in Servers,
             ConnectMCPServer(c, s) \/ DisconnectMCPServer(c, s) \/ DeleteMCPServer(c, s)
             \/ \E v \in Versions : SaveMCPServer(c, s, v)
      PROVE  SoloInv'
  BY <1>1, BeginSound
<1>2. ASSUME NEW c \in Clients, DialFails(c) \/ WriteDeleted(c) \/ Commit(c) PROVE SoloInv'
  <2>1. /\ op[c].session = None /\ op[c].at # "detach" /\ op[c].server \in Servers
        /\ op' = [op EXCEPT ![c] = Idle] /\ UNCHANGED <<defs, table, session, raced>>
        /\ failed' \subseteq failed \cup {op[c].server}
    BY <1>2, Running DEF DialFails, WriteDeleted, Commit, Return, manager
  <2>2. Follows(c)
    BY <2>1, GoesOn
  <2> QED
    BY <2>1, <2>2, QuietKept
<1>3. ASSUME NEW c \in Clients, ListTools(c) PROVE SoloInv'
  <2>1. /\ op[c].at # "detach" /\ op[c].server \in Servers /\ UNCHANGED <<defs, table, session, raced>>
        /\ failed' = failed
        /\ op' = [op EXCEPT ![c] = Request("store", op[c].kind, op[c].server, op[c].version,
                                           op[c].session, op[c].list)]
    BY <1>3, Running, Going DEF ListTools, manager, SessionInv
  <2>2. /\ Follows(c)
        /\ op'[c] = Request("store", op[c].kind, op[c].server, op[c].version, op[c].session, op[c].list)
    BY <2>1, GoesOn
  <2>3. op'[c].session = op[c].session
    BY <2>2 DEF Request
  <2> QED
    BY <2>1, <2>2, <2>3, QuietKept
<1>4. CASE Restart
  <2>1. /\ \A c \in Clients : op'[c].server = None
        /\ \A s \in Servers : table'[s] = None
        /\ \A i \in Sessions : session'[i].state # "open"
    BY <1>4 DEF Restart, Idle, Closed
  <2> QED
    BY <2>1, NoneAssumption DEF SoloInv, Alone, Fresh, Emptied, Current, NoLeak
<1>5. CASE UNCHANGED vars
  BY <1>5 DEF vars, SoloInv, Alone, Fresh, Emptied, Current, NoLeak
<1> QED
  BY <1>1, <1>2, <1>3, <1>4, <1>5, DetachSolo, CloseSolo, DialSolo, StoreSolo, DefineSolo DEF Next

\* A server whose connects overlapped nothing leaks no session, is connected
\* by its present definition and is not shown with a failure while it is.
THEOREM SoloCorrect == Spec => []SoloConnectIsSound
<1>1. SoloInv => SoloConnectIsSound
  BY DEF SoloInv, Current, NoLeak, SoloConnectIsSound, Snapshot
<1> QED
  BY <1>1, SessionInit, SessionNext, SoloInit, SoloNext, PTL DEF Spec

-----------------------------------------------------------------------------
(* The lists of servers.                                                   *)

\* One step of the filter's loop, from what it has kept so far.
EmptyOrNext(list, s, kept, k) ==
  IF k = 0 THEN <<>>
  ELSE IF Has(list[k], s) THEN kept[k - 1]
  ELSE Append(kept[k - 1], list[k])

LEMMA KeptExist ==
  ASSUME NEW list, NEW s, NEW n \in Nat
  PROVE  \E g : g = [k \in 0..n |-> EmptyOrNext(list, s, g, k)]
<1> DEFINE Good(m) == \E g : g = [k \in 0..m |-> EmptyOrNext(list, s, g, k)]
           Bad == {m \in Nat : ~Good(m)}
<1> SUFFICES ASSUME ~Good(n)
             PROVE  FALSE
  OBVIOUS
<1>1. PICK m \in Bad : \A y \in Bad : m <= y
  <2> HIDE DEF Good
  <2> QED
    BY Least
<1>2. CASE m = 0
  <2>1. [k \in 0..0 |-> <<>>] = [k \in 0..0 |-> EmptyOrNext(list, s, [l \in 0..0 |-> <<>>], k)]
    BY DEF EmptyOrNext
  <2> QED
    BY <2>1, <1>2
<1>3. CASE m # 0
  <2>1. m \in Nat /\ m - 1 \in Nat
    BY <1>3
  <2>2. m - 1 \notin Bad
    BY <1>1, <2>1
  <2>3. PICK g : g = [k \in 0..(m - 1) |-> EmptyOrNext(list, s, g, k)]
    BY <2>1, <2>2
  <2> DEFINE h == [k \in 0..m |-> IF k = m THEN EmptyOrNext(list, s, g, m) ELSE g[k]]
  <2>4. ASSUME NEW k \in 0..m
        PROVE  h[k] = EmptyOrNext(list, s, h, k)
    <3>1. CASE k = m
      <4>1. h[m - 1] = g[m - 1] /\ h[m] = EmptyOrNext(list, s, g, m)
        BY <2>1
      <4> HIDE DEF h
      <4> QED
        BY <4>1, <3>1, <1>3 DEF EmptyOrNext
    <3>2. CASE k # m
      <4>1. k \in 0..(m - 1) /\ (k # 0 => k - 1 \in 0..m /\ k - 1 # m)
        BY <3>2, <2>1
      <4>2. g[k] = EmptyOrNext(list, s, g, k)
        BY <2>3, <4>1
      <4>3. h[k] = g[k] /\ (k # 0 => h[k - 1] = g[k - 1])
        BY <3>2, <4>1
      <4> HIDE DEF h
      <4> QED
        BY <4>2, <4>3 DEF EmptyOrNext
    <3> QED
      BY <3>1, <3>2
  <2>5. h = [k \in 0..m |-> EmptyOrNext(list, s, h, k)]
    <3> HIDE DEF h
    <3>1. h = [k \in 0..m |-> h[k]]
      BY DEF h
    <3> QED
      BY <2>4, <3>1
  <2> QED
    BY <2>5
<1> QED
  BY <1>2, <1>3

LEMMA KeptSteps ==
  ASSUME NEW list \in Seq(Entry), NEW s
  PROVE  \A k \in 0..Len(list) : Kept(list, s)[k] = EmptyOrNext(list, s, Kept(list, s), k)
<1> DEFINE Is(g) == g = [k \in 0..Len(list) |-> EmptyOrNext(list, s, g, k)]
           p == Kept(list, s)
<1>1. p = CHOOSE g : Is(g)
  BY DEF Kept, EmptyOrNext
<1>2. \E g : Is(g)
  <2>1. Len(list) \in Nat
    OBVIOUS
  <2> QED
    BY ONLY <2>1, KeptExist
<1>3. Is(p)
  <2> HIDE DEF Is, p
  <2> QED
    BY <1>1, <1>2
<1> HIDE DEF p
<1> QED
  BY <1>3

\* The first k entries name t once, if at all, and as the manager does.
ClearTo(list, t, k) ==
  \A i, j \in 1..k : list[i].server = t /\ list[j].server = t => i = j /\ list[i].plain

\* What the filter has kept of the first k entries: those with other ids, and
\* of a server that was clear, as clearly.
KeptOK(list, s, kept, k) ==
  /\ kept \in Seq(Entry) /\ Len(kept) <= k
  /\ \A j \in DOMAIN kept : \E i \in 1..k : kept[j] = list[i] /\ ~Has(list[i], s)
  /\ \A i \in 1..k : ~Has(list[i], s) => \E j \in DOMAIN kept : kept[j] = list[i]
  /\ \A t : ClearTo(list, t, k) => Clear(kept, t)

LEMMA KeptNext ==
  ASSUME NEW list \in Seq(Entry), NEW s, NEW k \in 1..Len(list), NEW kept,
         KeptOK(list, s, kept, k - 1)
  PROVE  KeptOK(list, s, IF Has(list[k], s) THEN kept ELSE Append(kept, list[k]), k)
<1>0. /\ k \in Nat /\ k - 1 \in Nat /\ kept \in Seq(Entry) /\ list[k] \in Entry
      /\ k \in DOMAIN list /\ 1..(k - 1) \subseteq DOMAIN list /\ 1..k = 1..(k - 1) \cup {k}
      /\ k \notin 1..(k - 1)
  BY DEF KeptOK
<1>c. \A t : ClearTo(list, t, k) => ClearTo(list, t, k - 1)
  BY <1>0 DEF ClearTo
<1>1. CASE Has(list[k], s)
  BY <1>0, <1>c, <1>1 DEF KeptOK
<1>2. CASE ~Has(list[k], s)
  <2> DEFINE more == Append(kept, list[k])
  <2>1. /\ more \in Seq(Entry) /\ Len(more) = Len(kept) + 1
        /\ DOMAIN more = DOMAIN kept \cup {Len(kept) + 1}
        /\ more[Len(kept) + 1] = list[k]
        /\ \A j \in DOMAIN kept : more[j] = kept[j]
    BY <1>0
  <2> HIDE DEF more
  <2>2. Len(more) <= k
    BY <1>0, <2>1 DEF KeptOK
  <2>3. ASSUME NEW j \in DOMAIN more
        PROVE  \E i \in 1..k : more[j] = list[i] /\ ~Has(list[i], s)
    <3>1. CASE j \in DOMAIN kept
      <4>1. PICK i \in 1..(k - 1) : kept[j] = list[i] /\ ~Has(list[i], s)
        BY <3>1 DEF KeptOK
      <4> QED
        BY <1>0, <2>1, <3>1, <4>1
    <3>2. CASE j = Len(kept) + 1
      BY <1>0, <1>2, <2>1, <3>2
    <3> QED
      BY <2>1, <3>1, <3>2
  <2>4. ASSUME NEW i \in 1..k, ~Has(list[i], s)
        PROVE  \E j \in DOMAIN more : more[j] = list[i]
    BY <1>0, <2>1, <2>4 DEF KeptOK
  <2>5. ASSUME NEW t, ClearTo(list, t, k), NEW i \in DOMAIN more, NEW j \in DOMAIN more,
               more[i].server = t, more[j].server = t
        PROVE  i = j /\ more[i].plain
    <3>1. Clear(kept, t)
      BY <1>c, <2>5 DEF KeptOK
    <3>2. ASSUME NEW l \in DOMAIN kept, kept[l].server = t PROVE list[k].server # t
      <4>1. PICK m \in 1..(k - 1) : kept[l] = list[m]
        BY <3>2 DEF KeptOK
      <4> QED
        BY <1>0, <2>5, <3>2, <4>1 DEF ClearTo
    <3>3. list[k].server = t => list[k].plain
      BY <1>0, <2>5 DEF ClearTo
    <3> QED
      BY <2>1, <2>5, <3>1, <3>2, <3>3 DEF Clear
  <2>6. \A t : ClearTo(list, t, k) => Clear(more, t)
    BY <2>5 DEF Clear
  <2> QED
    BY <1>2, <2>1, <2>2, <2>3, <2>4, <2>6 DEF KeptOK, more
<1> QED
  BY <1>1, <1>2

LEMMA KeptAll ==
  ASSUME NEW list \in Seq(Entry), NEW s
  PROVE  KeptOK(list, s, Without(list, s), Len(list))
<1> DEFINE p == Kept(list, s)
           Bad == {m \in 0..Len(list) : ~KeptOK(list, s, p[m], m)}
<1>0. Len(list) \in Nat
  OBVIOUS
<1> SUFFICES Bad = {}
  BY <1>0 DEF Without
<1> HIDE DEF p
<1> SUFFICES ASSUME Bad # {}
             PROVE  FALSE
  OBVIOUS
<1>1. Bad \in SUBSET Nat
  BY <1>0
<1>2. PICK m \in Bad : \A y \in Bad : m <= y
  BY ONLY <1>1, Bad # {}, Least
<1>3. m \in 0..Len(list) /\ ~KeptOK(list, s, p[m], m)
  BY <1>2
<1>4. p[m] = EmptyOrNext(list, s, p, m)
  BY <1>3, KeptSteps DEF p
<1>5. m # 0
  <2> SUFFICES ASSUME m = 0
               PROVE  FALSE
    OBVIOUS
  <2>1. p[0] = <<>>
    BY <1>4 DEF EmptyOrNext
  <2>2. KeptOK(list, s, <<>>, 0)
    BY DEF KeptOK, Clear
  <2> QED
    BY <1>3, <2>1, <2>2
<1>6. m \in 1..Len(list) /\ m - 1 \in 0..Len(list) /\ m - 1 < m
  BY <1>0, <1>3, <1>5
<1>7. KeptOK(list, s, p[m - 1], m - 1)
  BY <1>2, <1>6
<1>8. p[m] = IF Has(list[m], s) THEN p[m - 1] ELSE Append(p[m - 1], list[m])
  BY <1>4, <1>5 DEF EmptyOrNext
<1> HIDE DEF Bad
<1>9. KeptOK(list, s, p[m], m)
  BY <1>6, <1>7, <1>8, KeptNext
<1> QED
  BY <1>3, <1>9

\* A server is what its one entry says, if it has a valid one.
LEMMA SaidIs ==
  ASSUME NEW list \in Seq(Entry), NEW i \in DOMAIN list, Clear(list, list[i].server),
         list[i].version \notin Invalid
  PROVE  Said(list, list[i].server) = list[i].version
<1> DEFINE valid == {k \in {j \in DOMAIN list : list[j].server = list[i].server} :
                       list[k].version \notin Invalid}
<1>1. valid = {i}
  BY DEF Clear
<1>2. Max({i}) = i
  BY DEF Max
<1>3. Said(list, list[i].server) = IF valid = {} THEN None ELSE list[Max(valid)].version
  BY DEF Said, Latest
<1> HIDE DEF valid
<1> QED
  BY <1>1, <1>2, <1>3

LEMMA SaidNone ==
  ASSUME NEW list, NEW s,
         \A i \in DOMAIN list : list[i].server = s => list[i].version \in Invalid
  PROVE  Said(list, s) = None
BY DEF Said, Latest

LEMMA LatestTyped ==
  ASSUME NEW list \in Seq(Entry), NEW mine \in SUBSET DOMAIN list
  PROVE  Latest(list, mine) \in Versions \cup {None}
<1> DEFINE valid == {i \in mine : list[i].version \notin Invalid}
<1>1. Latest(list, mine) = IF valid = {} THEN None ELSE list[Max(valid)].version
  BY DEF Latest
<1>2. ASSUME valid # {}
      PROVE  list[Max(valid)].version \in Versions
  <2>0. valid \in SUBSET Nat /\ Len(list) \in Nat /\ \A i \in valid : i <= Len(list)
    OBVIOUS
  <2>1. PICK m \in valid : \A j \in valid : j <= m
    <3> HIDE DEF valid
    <3> QED
      BY ONLY <1>2, <2>0, Greatest
  <2>2. Max(valid) \in valid
    <3>1. \A j \in valid : m >= j
      BY <2>0, <2>1
    <3> HIDE DEF valid
    <3> QED
      BY <2>1, <3>1 DEF Max
  <2>3. list[Max(valid)] \in Entry
    BY <2>2
  <2> QED
    BY <2>3 DEF Entry
<1> HIDE DEF valid
<1> QED
  BY <1>1, <1>2

LEMMA DefinitionsTyped ==
  ASSUME NEW list \in Seq(Entry), NEW ids
  PROVE  Definitions(list, ids) \in [Servers -> Versions \cup {None}]
<1> SUFFICES ASSUME NEW s \in Servers
             PROVE  Latest(list, {i \in DOMAIN list : ids[i] = s}) \in Versions \cup {None}
  BY DEF Definitions
<1> QED
  BY LatestTyped

\* Of a server that is not odd the manager starts with what the list says.
LEMMA LoadedIsSaid ==
  ASSUME NEW list \in Seq(Entry), NEW ids \in Namings(list), NEW s \in Servers \ Odd(list, ids)
  PROVE  Clear(list, s) /\ Definitions(list, ids)[s] = Said(list, s)
<1>1. Clear(list, s) /\ \A i \in Blank(list) : ids[i] # s
  BY DEF Odd
<1>2. ASSUME NEW i \in DOMAIN list
      PROVE  ids[i] = s <=> list[i].server = s
  BY <1>1, NoneAssumption DEF Namings, Blank
<1>3. {i \in DOMAIN list : ids[i] = s} = {i \in DOMAIN list : list[i].server = s}
  BY <1>2
<1> QED
  BY <1>1, <1>3 DEF Definitions, Said

\* Deleting takes away what the list says of one server, and no more.
LEMMA WithoutDefines ==
  ASSUME NEW list \in Seq(Entry), NEW s
  PROVE  /\ Without(list, s) \in Seq(Entry)
         /\ \A t \in Servers : Clear(list, t) =>
              /\ Clear(Without(list, s), t)
              /\ Said(Without(list, s), t) = IF t = s THEN None ELSE Said(list, t)
<1> DEFINE less == Without(list, s)
<1>1. KeptOK(list, s, less, Len(list)) /\ 1..Len(list) = DOMAIN list
  BY KeptAll
<1> HIDE DEF less
<1>2. less \in Seq(Entry)
  BY <1>1 DEF KeptOK
<1>3. \A j \in DOMAIN less : \E i \in DOMAIN list : less[j] = list[i] /\ ~Has(list[i], s)
  BY <1>1 DEF KeptOK
<1>4. \A i \in DOMAIN list : ~Has(list[i], s) => \E j \in DOMAIN less : less[j] = list[i]
  BY <1>1 DEF KeptOK
<1>5. ASSUME NEW t \in Servers, Clear(list, t)
      PROVE  Clear(less, t) /\ Said(less, t) = IF t = s THEN None ELSE Said(list, t)
  <2>0. Clear(less, t)
    <3>1. ClearTo(list, t, Len(list))
      BY <1>1, <1>5 DEF Clear, ClearTo
    <3> QED
      BY <1>1, <3>1 DEF KeptOK
  <2>1. CASE t = s
    <3>1. \A j \in DOMAIN less : less[j].server # t
      BY <1>3, <1>5, <2>1 DEF Has, Clear
    <3> QED
      BY <2>0, <2>1, <3>1, SaidNone
  <2>2. CASE t # s /\ \E i \in DOMAIN list : list[i].server = t /\ list[i].version \notin Invalid
    <3>1. PICK i \in DOMAIN list : list[i].server = t /\ list[i].version \notin Invalid
      BY <2>2
    <3>2. PICK j \in DOMAIN less : less[j] = list[i]
      BY <1>4, <2>2, <3>1 DEF Has
    <3>3. Said(list, t) = list[i].version
      BY <1>5, <3>1, SaidIs
    <3>4. Said(less, t) = list[i].version
      BY <1>2, <2>0, <3>1, <3>2, SaidIs
    <3> QED
      BY <2>0, <2>2, <3>3, <3>4
  <2>3. CASE t # s /\ ~\E i \in DOMAIN list : list[i].server = t /\ list[i].version \notin Invalid
    <3>1. Said(list, t) = None
      BY <2>3, SaidNone
    <3>2. \A j \in DOMAIN less : less[j].server = t => less[j].version \in Invalid
      BY <1>3, <2>3
    <3>3. Said(less, t) = None
      BY <3>2, SaidNone
    <3> QED
      BY <2>0, <2>3, <3>1, <3>3
  <2> QED
    BY <2>1, <2>2, <2>3
<1> QED
  BY <1>2, <1>5 DEF less

\* The list that a failed deletion leaves in the array is a list.
LEMMA OverwrittenTyped ==
  ASSUME NEW list \in Seq(Entry), NEW s
  PROVE  Overwritten(list, s) \in Seq(Entry)
<1>1. Without(list, s) \in Seq(Entry)
  BY KeptAll DEF KeptOK
<1>2. SubSeq(list, Len(Without(list, s)) + 1, Len(list)) \in Seq(Entry)
  <2>1. Len(Without(list, s)) + 1 \in 1..(Len(list) + 1) /\ Len(list) \in Nat
    BY <1>1, KeptAll DEF KeptOK
  <2> DEFINE m == Len(Without(list, s)) + 1
  <2> HIDE DEF m
  <2> SUFFICES SubSeq(list, m, Len(list)) \in Seq(Entry)
    BY DEF m
  <2>2. m \in 1..(Len(list) + 1)
    BY <2>1 DEF m
  <2> QED
    BY <2>1, <2>2
<1> QED
  BY <1>1, <1>2 DEF Overwritten

\* Saving gives a list.
LEMMA ReplacedTyped ==
  ASSUME NEW list \in Seq(Entry), NEW e \in Entry
  PROVE  Replaced(list, e) \in Seq(Entry)
<1> DEFINE k == CHOOSE i \in DOMAIN list :
                  Has(list[i], e.server) /\ \A j \in 1..(i - 1) : ~Has(list[j], e.server)
<1>1. Replaced(list, e) = IF Listed(list, e.server) THEN [list EXCEPT ![k] = e] ELSE Append(list, e)
  BY DEF Replaced
<1> HIDE DEF k
<1>2. [list EXCEPT ![k] = e] \in Seq(Entry)
  <2>1. list \in [1..Len(list) -> Entry] /\ Len(list) \in Nat
    OBVIOUS
  <2>2. [list EXCEPT ![k] = e] \in [1..Len(list) -> Entry]
    BY <2>1
  <2> QED
    BY <2>1, <2>2
<1> QED
  BY <1>1, <1>2

\* The entry that is replaced has the id.
LEMMA ReplacedAt ==
  ASSUME NEW list \in Seq(Entry), NEW e, Listed(list, e.server)
  PROVE  \E i \in DOMAIN list : Has(list[i], e.server) /\ Replaced(list, e) = [list EXCEPT ![i] = e]
<1> DEFINE Same == {i \in DOMAIN list : Has(list[i], e.server)}
           First(k) == Has(list[k], e.server) /\ \A j \in 1..(k - 1) : ~Has(list[j], e.server)
<1>1. Same \in SUBSET Nat /\ Same # {}
  BY DEF Listed
<1>2. PICK i \in Same : \A j \in Same : i <= j
  BY ONLY <1>1, Least
<1>3. i \in DOMAIN list /\ First(i)
  <2>1. i \in DOMAIN list /\ Has(list[i], e.server) /\ i \in Nat /\ Len(list) \in Nat
    BY <1>2
  <2>2. ASSUME NEW j \in 1..(i - 1) PROVE ~Has(list[j], e.server)
    <3>1. j \in DOMAIN list /\ ~(i <= j)
      BY <2>1
    <3> QED
      BY <1>2, <3>1
  <2> QED
    BY <2>1, <2>2
<1>4. Replaced(list, e) = [list EXCEPT ![CHOOSE k \in DOMAIN list : First(k)] = e]
  BY DEF Replaced
<1> DEFINE k == CHOOSE x \in DOMAIN list : First(x)
<1> HIDE DEF First
<1>5. k \in DOMAIN list /\ First(k)
  BY <1>3
<1>6. Replaced(list, e) = [list EXCEPT ![k] = e]
  BY <1>4
<1>7. Has(list[k], e.server)
  BY <1>5 DEF First
<1> QED
  BY <1>5, <1>6, <1>7

\* The entries of other servers stay where they are, and of a server that was
\* clear the new entry is the only one.
LEMMA ReplacedHas ==
  ASSUME NEW list \in Seq(Entry), NEW e \in Entry
  PROVE  LET new == Replaced(list, e)
         IN /\ \A j \in DOMAIN new : new[j].server # e.server => j \in DOMAIN list /\ new[j] = list[j]
            /\ \A j \in DOMAIN list : list[j].server # e.server => j \in DOMAIN new /\ new[j] = list[j]
            /\ Clear(list, e.server) =>
                 \E i \in DOMAIN new : new[i] = e /\ \A j \in DOMAIN new \ {i} : new[j].server # e.server
<1> DEFINE new == Replaced(list, e)
<1>1. CASE Listed(list, e.server)
  <2>1. PICK i \in DOMAIN list : Has(list[i], e.server) /\ new = [list EXCEPT ![i] = e]
    BY <1>1, ReplacedAt
  <2> HIDE DEF new
  <2>2. DOMAIN new = DOMAIN list /\ new[i] = e /\ \A j \in DOMAIN list \ {i} : new[j] = list[j]
    BY <2>1
  <2>3. list[i].server = e.server
    BY <2>1 DEF Has
  <2>4. Clear(list, e.server) => \A j \in DOMAIN list \ {i} : list[j].server # e.server
    BY <2>3 DEF Clear
  <2> QED
    BY <2>2, <2>3, <2>4 DEF new
<1>2. CASE ~Listed(list, e.server)
  <2>1. new = Append(list, e)
    BY <1>2 DEF Replaced
  <2> HIDE DEF new
  <2>2. /\ DOMAIN new = DOMAIN list \cup {Len(list) + 1} /\ new[Len(list) + 1] = e
        /\ \A j \in DOMAIN list : new[j] = list[j]
    BY <2>1
  <2>3. Clear(list, e.server) => \A j \in DOMAIN list : list[j].server # e.server
    BY <1>2 DEF Listed, Has, Clear
  <2> QED
    BY <2>2, <2>3 DEF new
<1> QED
  BY <1>1, <1>2

\* Saving puts in place what the list says of one server, and no more.
LEMMA ReplacedDefines ==
  ASSUME NEW list \in Seq(Entry), NEW e \in Entry, e.plain, e.version \notin Invalid
  PROVE  /\ Replaced(list, e) \in Seq(Entry)
         /\ \A t \in Servers : Clear(list, t) =>
              /\ Clear(Replaced(list, e), t)
              /\ Said(Replaced(list, e), t) = IF t = e.server THEN e.version ELSE Said(list, t)
<1> DEFINE new == Replaced(list, e)
<1>1. new \in Seq(Entry)
  BY ReplacedTyped
<1>2. /\ \A j \in DOMAIN new : new[j].server # e.server => j \in DOMAIN list /\ new[j] = list[j]
      /\ \A j \in DOMAIN list : list[j].server # e.server => j \in DOMAIN new /\ new[j] = list[j]
      /\ Clear(list, e.server) =>
           \E i \in DOMAIN new : new[i] = e /\ \A j \in DOMAIN new \ {i} : new[j].server # e.server
  BY ReplacedHas
<1> HIDE DEF new
<1>3. ASSUME NEW t \in Servers, Clear(list, t)
      PROVE  Clear(new, t) /\ Said(new, t) = IF t = e.server THEN e.version ELSE Said(list, t)
  <2>1. CASE t = e.server
    <3>1. PICK i \in DOMAIN new : new[i] = e /\ \A j \in DOMAIN new \ {i} : new[j].server # e.server
      BY <1>2, <1>3, <2>1
    <3>2. Clear(new, t)
      BY <2>1, <3>1 DEF Clear
    <3> QED
      BY <1>1, <2>1, <3>1, <3>2, SaidIs
  <2>2. CASE t # e.server
    <3>0. Clear(new, t)
      BY <1>2, <1>3, <2>2 DEF Clear
    <3>1. CASE \E i \in DOMAIN list : list[i].server = t /\ list[i].version \notin Invalid
      <4>1. PICK i \in DOMAIN list : list[i].server = t /\ list[i].version \notin Invalid
        BY <3>1
      <4>2. i \in DOMAIN new /\ new[i] = list[i]
        BY <1>2, <2>2, <4>1
      <4>3. Said(list, t) = list[i].version
        BY <1>3, <4>1, SaidIs
      <4>4. Said(new, t) = list[i].version
        BY <1>1, <3>0, <4>1, <4>2, SaidIs
      <4> QED
        BY <2>2, <3>0, <4>3, <4>4
    <3>2. CASE ~\E i \in DOMAIN list : list[i].server = t /\ list[i].version \notin Invalid
      <4>1. Said(list, t) = None
        BY <3>2, SaidNone
      <4>2. \A j \in DOMAIN new : new[j].server = t => new[j].version \in Invalid
        BY <1>2, <2>2, <3>2
      <4>3. Said(new, t) = None
        BY <4>2, SaidNone
      <4> QED
        BY <2>2, <3>0, <4>1, <4>3
    <3> QED
      BY <3>1, <3>2
  <2> QED
    BY <2>1, <2>2
<1> QED
  BY <1>1, <1>3 DEF new

-----------------------------------------------------------------------------
(* Types.                                                                  *)

Place == {"idle", "detach", "close", "dial", "list", "store", "define", "write", "commit"}
MovedTo(c, at, held) ==
  op' = [op EXCEPT ![c] = Request(at, op[c].kind, op[c].server, op[c].version, held, op[c].list)]

\* A request that is under way goes to another place, or ends if nothing is
\* left to do: a save and a delete are not left before they are written.
LEMMA Advancing ==
  ASSUME SessionInv, NEW c \in Clients,
         Detach(c) \/ CloseSession(c) \/ Dial(c) \/ ListTools(c)
  PROVE  /\ op[c].at \notin {"write", "commit"}
         /\ UNCHANGED <<file, memory, writer, odd, defs, raced, faults>>
         /\ \/ op' = [op EXCEPT ![c] = Idle] /\ op[c].kind \notin {"save", "delete"}
            \/ \E at \in Place \ {"write", "commit"}, held \in Sessions \cup {None} :
                 MovedTo(c, at, held)
<1> USE DEF config, manager
<1>0. op[c] = Request(op[c].at, op[c].kind, op[c].server, op[c].version, op[c].session, op[c].list)
  BY DEF SessionInv, Shaped
<1>1. ASSUME Continue(c), op[c].at \in {"detach", "close"}
      PROVE  \/ op' = [op EXCEPT ![c] = Idle] /\ op[c].kind \notin {"save", "delete"}
             \/ \E at \in Place \ {"write", "commit"} : MovedTo(c, at, None)
  <2>1. CASE op[c].kind = "disconnect"
    BY <1>1, <2>1 DEF Continue, Return
  <2>2. CASE op[c].kind # "disconnect"
    <3>1. op' = [op EXCEPT ![c] = Freed(op[c], AfterDetach(op[c].kind))]
      BY <1>1, <2>2 DEF Continue, SessionInv, Shaped, Freed
    <3>2. MovedTo(c, AfterDetach(op[c].kind), None)
      <4>1. Freed(op[c], AfterDetach(op[c].kind)) =
              Request(AfterDetach(op[c].kind), op[c].kind, op[c].server, op[c].version, None, op[c].list)
        BY ONLY <1>0, Changed
      <4> QED
        BY <3>1, <4>1 DEF MovedTo
    <3>3. AfterDetach(op[c].kind) \in Place \ {"write", "commit"}
      BY <2>2 DEF AfterDetach, Place
    <3> QED
      BY <3>2, <3>3
  <2> QED
    BY <2>1, <2>2
<1>2. CASE Detach(c)
  <2>1. op[c].server \in Servers /\ op[c].at = "detach"
    BY <1>2, Running DEF Detach
  <2>2. CASE table[op[c].server] = None
    BY <1>1, <1>2, <2>1, <2>2 DEF Detach
  <2>3. CASE table[op[c].server] # None
    <3>1. table[op[c].server] \in Sessions
      BY <2>1, <2>3 DEF SessionInv, Shaped
    <3>2. op' = [op EXCEPT ![c] = Handed(op[c], table[op[c].server])]
      BY <1>2, <2>3 DEF Detach, SessionInv, Shaped, Handed
    <3>3. MovedTo(c, "close", table[op[c].server])
      <4>1. Handed(op[c], table[op[c].server]) =
              Request("close", op[c].kind, op[c].server, op[c].version, table[op[c].server], op[c].list)
        BY ONLY <1>0, HandedShaped
      <4> QED
        BY <3>2, <4>1 DEF MovedTo
    <3> QED
      BY <1>2, <2>1, <3>1, <3>3 DEF Detach, Place
  <2> QED
    BY <2>2, <2>3
<1>3. CASE CloseSession(c)
  BY <1>1, <1>3 DEF CloseSession
<1>4. CASE Dial(c)
  <2>1. PICK i \in Sessions : op' = [op EXCEPT ![c].at = "list", ![c].session = i]
    BY <1>4 DEF Dial
  <2>2. op' = [op EXCEPT ![c] = Opened(op[c], i)]
    BY <2>1 DEF SessionInv, Shaped, Opened
  <2>3. MovedTo(c, "list", i)
    <3>1. Opened(op[c], i) = Request("list", op[c].kind, op[c].server, op[c].version, i, op[c].list)
      BY ONLY <1>0, HandedShaped
    <3> QED
      BY <2>2, <3>1 DEF MovedTo
  <2> QED
    BY <1>4, <2>3 DEF Dial, Place
<1>5. CASE ListTools(c)
  <2>1. MovedTo(c, "store", op[c].session)
    BY <1>5, Going DEF ListTools, SessionInv, MovedTo
  <2>2. op[c].session \in Sessions \cup {None}
    BY <1>5, Running DEF ListTools
  <2> QED
    BY <1>5, <2>1, <2>2 DEF ListTools, Place
<1> QED
  BY <1>2, <1>3, <1>4, <1>5

LEMMA OpTyped ==
  ASSUME op \in [Clients -> Frame], NEW c \in Clients, NEW at \in Place,
         NEW held \in Sessions \cup {None},
         op' = [op EXCEPT ![c] = Idle] \/ MovedTo(c, at, held)
  PROVE  op' \in [Clients -> Frame]
<1>1. Idle \in Frame
  BY DEF Idle, Frame
<1>2. op[c] \in Frame
  OBVIOUS
<1>3. Request(at, op[c].kind, op[c].server, op[c].version, held, op[c].list) \in Frame
  BY <1>2 DEF Request, Frame, Place
<1> QED
  BY <1>1, <1>3 DEF MovedTo

LEMMA BeginTyped ==
  ASSUME op \in [Clients -> Frame], raced \subseteq Servers, NEW c \in Clients, NEW s \in Servers,
         NEW kind \in Kind, NEW v \in Versions \cup {None}, NEW list \in Seq(Entry),
         Begin(c, s, kind, Request("detach", kind, s, v, None, list))
  PROVE  op' \in [Clients -> Frame] /\ raced' \subseteq Servers
<1>1. Request("detach", kind, s, v, None, list) \in Frame
  BY DEF Request, Frame
<1> HIDE DEF Request
<1>2. op' \in [Clients -> Frame]
  BY <1>1 DEF Begin
<1>3. raced' \subseteq Servers
  BY DEF Begin
<1> QED
  BY <1>2, <1>3

LEMMA OddTyped ==
  ASSUME NEW list, NEW ids \in Namings(list)
  PROVE  Odd(list, ids) \subseteq Servers
BY DEF Odd, Namings, Blank

LEMMA TypeInit == Init => TypeOK
<1> SUFFICES ASSUME Init
             PROVE  TypeOK
  OBVIOUS
<1>1. file \in Seq(Entry)
  BY DEF Init, BoundedSeq, SeqOf
<1>2. Idle \in Frame
  BY DEF Idle, Frame
<1>3. defs \in [Servers -> Versions \cup {None}] /\ odd \subseteq Servers
  BY <1>1, DefinitionsTyped, OddTyped DEF Init
<1>4. session \in [Sessions -> [server : Servers \cup {None}, version : Versions \cup {None},
                                state : {"unused", "open", "closed"}]]
  BY DEF Init, Closed
<1> QED
  BY <1>1, <1>2, <1>3, <1>4, BoundAssumption DEF Init, TypeOK

State == [server : Servers \cup {None}, version : Versions \cup {None},
          state : {"unused", "open", "closed"}]

\* Everything but the requests.
Tables ==
  /\ file \in Seq(Entry) \cup {None}
  /\ memory \in Seq(Entry)
  /\ writer \in Clients \cup {None}
  /\ defs \in [Servers -> Versions \cup {None}]
  /\ table \in [Servers -> Sessions \cup {None}]
  /\ failed \subseteq Servers
  /\ session \in [Sessions -> State]
  /\ odd \subseteq Servers
  /\ faults \in 0..MaxFaults

LEMMA TypeParts == TypeOK <=> Tables /\ op \in [Clients -> Frame] /\ raced \subseteq Servers
BY DEF TypeOK, Tables, State

LEMMA ClosedTyped == Closed \in State
BY DEF Closed, State

LEMMA WritesTyped ==
  ASSUME Tables, WriteFails
  PROVE  file' \in Seq(Entry) \cup {None} /\ faults' \in 0..MaxFaults
BY BoundAssumption DEF Tables, WriteFails

LEMMA SaveTyped ==
  ASSUME SessionInv, TypeOK, NEW c \in Clients, NEW s \in Servers, NEW v \in Versions,
         SaveMCPServer(c, s, v)
  PROVE  TypeOK'
<1> DEFINE list == Replaced(memory, [server |-> s, plain |-> TRUE, version |-> v])
<1>1. list \in Seq(Entry)
  <2>1. memory \in Seq(Entry) /\ [server |-> s, plain |-> TRUE, version |-> v] \in Entry
    BY DEF TypeOK, Entry
  <2> QED
    BY <2>1, ReplacedTyped
<1>2. SaveFrame(s, v, list) = Request("detach", "save", s, v, None, list)
  BY SaveShaped
<1>3. /\ memory' = IF Listed(memory, s) THEN list ELSE memory
      /\ \/ /\ Written(list) /\ writer' = c
            /\ Begin(c, s, "save", SaveFrame(s, v, list))
         \/ WriteFails /\ UNCHANGED <<writer, op, raced>>
      /\ UNCHANGED <<odd, manager, session>>
  BY DEF SaveMCPServer, SaveFrame
<1> HIDE DEF list
<1>4. memory' \in Seq(Entry) /\ UNCHANGED <<defs, table, failed, session, odd>>
  BY <1>1, <1>3 DEF TypeOK, manager
<1>5. CASE /\ Written(list) /\ writer' = c
           /\ Begin(c, s, "save", SaveFrame(s, v, list))
  <2>1. op' \in [Clients -> Frame] /\ raced' \subseteq Servers
    BY <1>1, <1>2, <1>5, BeginTyped DEF TypeOK, Kind
  <2>2. Tables'
    BY <1>1, <1>4, <1>5, TypeParts DEF Tables, Written, State
  <2> QED
    BY <2>1, <2>2, TypeParts DEF TypeOK, Tables, State
<1>6. CASE WriteFails /\ UNCHANGED <<writer, op, raced>>
  BY <1>4, <1>6, WritesTyped, TypeParts DEF TypeOK, Tables, State
<1> QED
  BY <1>3, <1>5, <1>6

LEMMA StartTyped ==
  ASSUME SessionInv, TypeOK, NEW c \in Clients, NEW s \in Servers,
         ConnectMCPServer(c, s) \/ DisconnectMCPServer(c, s) \/ DeleteMCPServer(c, s)
  PROVE  TypeOK'
<1>1. /\ UNCHANGED <<file, memory, odd, manager, session, faults>>
      /\ writer' \in Clients \cup {None}
      /\ \/ Begin(c, s, "connect", Request("detach", "connect", s, defs[s], None, <<>>))
         \/ Begin(c, s, "disconnect", Request("detach", "disconnect", s, None, None, <<>>))
         \/ Begin(c, s, "delete", Request("detach", "delete", s, None, None, <<>>))
  <2>1. CASE ConnectMCPServer(c, s)
    <3>1. [Idle EXCEPT !.at = "detach", !.kind = "connect", !.server = s, !.version = defs[s]]
          = Request("detach", "connect", s, defs[s], None, <<>>)
      BY ONLY StartingShaped
    <3> QED
      BY <2>1, <3>1 DEF ConnectMCPServer, config, TypeOK
  <2>2. CASE DisconnectMCPServer(c, s)
    <3>1. [Idle EXCEPT !.at = "detach", !.kind = "disconnect", !.server = s]
          = Request("detach", "disconnect", s, None, None, <<>>)
      BY ONLY StartingShaped
    <3> QED
      BY <2>2, <3>1 DEF DisconnectMCPServer, config, TypeOK
  <2>3. CASE DeleteMCPServer(c, s)
    <3>1. [Idle EXCEPT !.at = "detach", !.kind = "delete", !.server = s]
          = Request("detach", "delete", s, None, None, <<>>)
      BY ONLY StartingShaped
    <3> QED
      BY <2>3, <3>1 DEF DeleteMCPServer, TypeOK
  <2> QED
    BY <2>1, <2>2, <2>3
<1>2. defs[s] \in Versions \cup {None} /\ <<>> \in Seq(Entry)
  BY DEF TypeOK
<1>3. op' \in [Clients -> Frame] /\ raced' \subseteq Servers
  BY <1>1, <1>2, BeginTyped DEF TypeOK, Kind
<1> QED
  BY <1>1, <1>3 DEF TypeOK, manager

\* The steps of a request.
LEMMA StepTyped ==
  ASSUME SessionInv, TypeOK, NEW c \in Clients,
         \/ Detach(c) \/ CloseSession(c) \/ CloseFails(c)
         \/ Dial(c) \/ DialFails(c) \/ ListTools(c) \/ ListToolsFails(c) \/ Store(c)
         \/ Define(c) \/ WriteDeleted(c) \/ Commit(c)
  PROVE  TypeOK'
<1> USE DEF config, manager
<1>0. /\ op[c] \in Frame
      /\ op[c].at # "idle" => op[c].server \in Servers
  BY Running DEF TypeOK
<1>1. ASSUME UNCHANGED <<file, memory, writer, odd, defs, raced, faults>>,
             \/ op' = [op EXCEPT ![c] = Idle]
             \/ \E at \in Place, held \in Sessions \cup {None} : MovedTo(c, at, held),
             table' \in [Servers -> Sessions \cup {None}], failed' \subseteq Servers,
             session' \in [Sessions -> State]
      PROVE  TypeOK'
  <2>1. op' \in [Clients -> Frame]
    BY <1>1, OpTyped DEF TypeOK, Place
  <2> QED
    BY <1>1, <2>1, TypeParts DEF TypeOK, State
<1>2. CASE Detach(c)
  <2>1. table' \in [Servers -> Sessions \cup {None}] /\ failed' \subseteq Servers /\ session' = session
    BY <1>2 DEF Detach, TypeOK
  <2> QED
    BY <1>1, <1>2, <2>1, Advancing DEF TypeOK, State
<1>3. CASE CloseSession(c)
  <2>1. session' \in [Sessions -> State]
    BY <1>3, ClosedTyped DEF CloseSession, TypeOK, State
  <2> QED
    BY <1>1, <1>3, <2>1, Advancing DEF CloseSession, TypeOK
<1>4. CASE CloseFails(c)
  <2>1. session' \in [Sessions -> State]
    BY <1>4, ClosedTyped DEF CloseFails, TypeOK, State
  <2>2. op' \in [Clients -> Frame]
    BY <1>4, OpTyped DEF CloseFails, Return, TypeOK, Place
  <2>3. writer' \in Clients \cup {None} /\ faults' \in 0..MaxFaults
    BY <1>4, BoundAssumption DEF CloseFails, Unlock, TypeOK
  <2> QED
    BY <1>4, <2>1, <2>2, <2>3 DEF CloseFails, TypeOK, State
<1>5. CASE Dial(c)
  <2>1. session' \in [Sessions -> State]
    <3> DEFINE new == [server |-> op[c].server, version |-> op[c].version, state |-> "open"]
    <3>1. new \in State
      BY <1>0 DEF Frame, State
    <3>2. \E i \in Sessions : session' = [session EXCEPT ![i] = new]
      BY <1>5 DEF Dial
    <3>3. session \in [Sessions -> State]
      BY DEF TypeOK, State
    <3> HIDE DEF new
    <3> QED
      BY <3>1, <3>2, <3>3
  <2>2. table' \in [Servers -> Sessions \cup {None}] /\ failed' \subseteq Servers
    <3>1. table' = table /\ failed' = failed
      BY <1>5 DEF Dial
    <3> QED
      BY <3>1 DEF TypeOK
  <2> QED
    BY <1>1, <1>5, <2>1, <2>2, Advancing
<1>6. CASE DialFails(c)
  BY <1>0, <1>1, <1>6 DEF DialFails, Return, TypeOK, State
<1>7. CASE ListTools(c)
  BY <1>1, <1>7, Advancing DEF ListTools, TypeOK, State
<1>8. CASE ListToolsFails(c)
  <2>1. session' \in [Sessions -> State]
    BY <1>8, ClosedTyped DEF ListToolsFails, TypeOK, State
  <2> QED
    BY <1>0, <1>1, <1>8, <2>1 DEF ListToolsFails, Return, TypeOK
<1>9. CASE Store(c)
  <2>1. op[c].session \in Sessions
    BY <1>9, Running DEF Store
  <2>2. table' \in [Servers -> Sessions \cup {None}] /\ failed' \subseteq Servers
    BY <1>9, <2>1 DEF Store, TypeOK
  <2> QED
    BY <1>1, <1>9, <2>2 DEF Store, Return, TypeOK, State
<1>10. CASE Define(c)
  <2>1. op[c].session \in Sessions \cup {None} /\ op[c].version \in Versions \cup {None}
    BY <1>0 DEF Frame
  <2>2. MovedTo(c, IF op[c].kind = "save" THEN "commit" ELSE "write", op[c].session)
    BY <1>10, Going DEF Define, SessionInv, MovedTo
  <2>3. op' \in [Clients -> Frame]
    BY <2>1, <2>2, OpTyped DEF TypeOK, Place
  <2>4. defs' \in [Servers -> Versions \cup {None}]
    BY <1>10, <2>1 DEF Define, TypeOK
  <2> QED
    BY <1>10, <2>3, <2>4 DEF Define, TypeOK
<1>11. CASE WriteDeleted(c) \/ Commit(c)
  <2>1. op' \in [Clients -> Frame]
    BY <1>11, OpTyped DEF WriteDeleted, Commit, Return, TypeOK, Place
  <2>2. writer' \in Clients \cup {None}
    BY <1>11 DEF WriteDeleted, Commit, Unlock, TypeOK
  <2>3. memory' \in Seq(Entry) /\ file' \in Seq(Entry) \cup {None} /\ faults' \in 0..MaxFaults
    <3>1. CASE WriteDeleted(c)
      <4>1. Without(memory, op[c].server) \in Seq(Entry)
        BY KeptAll DEF TypeOK, KeptOK
      <4>2. Overwritten(memory, op[c].server) \in Seq(Entry)
        BY OverwrittenTyped DEF TypeOK
      <4> QED
        BY <3>1, <4>1, <4>2, WritesTyped, TypeParts DEF WriteDeleted, Written, TypeOK
    <3>2. CASE Commit(c)
      BY <1>0, <3>2 DEF Commit, Frame, TypeOK
    <3> QED
      BY <1>11, <3>1, <3>2
  <2> QED
    BY <1>11, <2>1, <2>2, <2>3 DEF WriteDeleted, Commit, TypeOK
<1> QED
  BY <1>2, <1>3, <1>4, <1>5, <1>6, <1>7, <1>8, <1>9, <1>10, <1>11

LEMMA RestartTyped == ASSUME TypeOK, Restart PROVE TypeOK'
<1>1. Loaded(file) \in Seq(Entry)
  BY DEF Loaded, TypeOK
<1>2. /\ memory' \in Seq(Entry) /\ defs' \in [Servers -> Versions \cup {None}]
      /\ odd' \subseteq Servers
  BY <1>1, DefinitionsTyped, OddTyped DEF Restart
<1>3. op' \in [Clients -> Frame]
  BY DEF Restart, Idle, Frame
<1>4. session' \in [Sessions -> State]
  BY ClosedTyped DEF Restart, TypeOK, State
<1> QED
  BY <1>2, <1>3, <1>4 DEF Restart, TypeOK, State

LEMMA TypeNext == SessionInv /\ TypeOK /\ [Next]_vars => TypeOK'
<1> SUFFICES ASSUME SessionInv, TypeOK, [Next]_vars
             PROVE  TypeOK'
  OBVIOUS
<1>1. CASE UNCHANGED vars
  BY <1>1 DEF vars, TypeOK
<1> QED
  BY <1>1, StartTyped, SaveTyped, StepTyped, RestartTyped DEF Next

\* The types, for lists of servers of any length.
THEOREM TypeCorrect == Spec => []TypeOK
BY TypeInit, TypeNext, SessionInit, SessionNext, PTL DEF Spec

-----------------------------------------------------------------------------
(* File, memory and manager.                                               *)

\* What the list names is clear, and the manager has it so.
Agrees(t) == t \notin odd => Clear(file, t) /\ defs[t] = Said(file, t)

\* How far the save or the delete is that holds the service's lock: a save has
\* written the file, and defines its server at the end; a delete takes its
\* server out of the manager before it writes anything.
Halfway(c) ==
  LET s == op[c].server
  IN /\ op[c].kind \in {"save", "delete"}
     /\ \A t \in Servers \ {s} : Agrees(t)
     /\ s \notin odd => Clear(file, s)
     /\ op[c].kind = "save" =>
          /\ op[c].list = file /\ op[c].at # "write"
          /\ s \notin odd => Said(file, s) = op[c].version
          /\ op[c].at = "commit" => defs[s] = op[c].version
     /\ op[c].kind = "delete" =>
          /\ memory = file /\ op[c].version = None /\ op[c].at # "commit"
          /\ op[c].at = "write" => defs[s] = None

ConfigInv ==
  faults = 0 =>
    /\ file # None
    /\ writer = None => memory = file /\ \A t \in Servers : Agrees(t)
    /\ writer # None => Halfway(writer)

LEMMA ConfigInit == Init => ConfigInv
<1> SUFFICES ASSUME Init
             PROVE  ConfigInv
  OBVIOUS
<1>1. file \in Seq(Entry) /\ file # None
  BY NoListAssumption DEF Init, BoundedSeq, SeqOf
<1>2. PICK ids \in Namings(file) : defs = Definitions(file, ids) /\ odd = Odd(file, ids)
  BY DEF Init
<1>3. \A t \in Servers : Agrees(t)
  BY <1>1, <1>2, LoadedIsSaid DEF Agrees
<1> QED
  BY <1>1, <1>3 DEF Init, ConfigInv

\* Requests that connect or disconnect change none of the three.
LEMMA StartAgrees ==
  ASSUME SessionInv, TypeOK, ConfigInv, NEW c \in Clients, NEW s \in Servers,
         ConnectMCPServer(c, s) \/ DisconnectMCPServer(c, s)
  PROVE  ConfigInv'
<1>1. writer = None /\ UNCHANGED <<file, memory, writer, odd, defs, faults>>
  BY DEF ConnectMCPServer, DisconnectMCPServer, config, manager
<1> QED
  BY <1>1 DEF ConfigInv, Agrees

LEMMA DeleteAgrees ==
  ASSUME SessionInv, TypeOK, ConfigInv, NEW c \in Clients, NEW s \in Servers, DeleteMCPServer(c, s)
  PROVE  ConfigInv'
<1>1. /\ writer = None /\ writer' = c
      /\ UNCHANGED <<file, memory, odd, defs, faults>>
      /\ Begin(c, s, "delete", Request("detach", "delete", s, None, None, <<>>))
  <2>1. [Idle EXCEPT !.at = "detach", !.kind = "delete", !.server = s]
        = Request("detach", "delete", s, None, None, <<>>)
    BY ONLY StartingShaped
  <2> QED
    BY <2>1 DEF DeleteMCPServer, manager
<1>2. op'[c] = Request("detach", "delete", s, None, None, <<>>)
  BY <1>1 DEF Begin, TypeOK
<1>3. faults = 0 => Halfway(c)'
  BY <1>1, <1>2 DEF ConfigInv, Halfway, Agrees, Request
<1> QED
  BY <1>1, <1>3, NoneAssumption DEF ConfigInv

LEMMA SaveAgrees ==
  ASSUME SessionInv, TypeOK, ConfigInv, NEW c \in Clients, NEW s \in Servers, NEW v \in Versions,
         SaveMCPServer(c, s, v)
  PROVE  ConfigInv'
<1> DEFINE e == [server |-> s, plain |-> TRUE, version |-> v]
           list == Replaced(memory, e)
<1>1. /\ writer = None /\ v \notin Invalid /\ UNCHANGED <<odd, defs>>
      /\ \/ /\ Written(list) /\ writer' = c
            /\ Begin(c, s, "save", SaveFrame(s, v, list))
         \/ WriteFails
  BY DEF SaveMCPServer, SaveFrame, manager
<1>2. SaveFrame(s, v, list) = Request("detach", "save", s, v, None, list)
  BY SaveShaped
<1> SUFFICES ASSUME faults' = 0
             PROVE  ConfigInv'
  BY DEF ConfigInv
<1>3. faults = 0 /\ ~WriteFails
  BY <1>1 DEF TypeOK, Written, WriteFails
<1>4. memory = file /\ memory \in Seq(Entry) /\ \A t \in Servers : Agrees(t)
  BY <1>1, <1>3 DEF ConfigInv, TypeOK
<1>5. e \in Entry /\ e.plain /\ e.version \notin Invalid /\ e.server = s /\ e.version = v
  BY <1>1 DEF Entry
<1>6. /\ list \in Seq(Entry)
      /\ \A t \in Servers : Clear(memory, t) =>
           Clear(list, t) /\ Said(list, t) = IF t = s THEN v ELSE Said(memory, t)
  <2> HIDE DEF e
  <2> QED
    BY <1>4, <1>5, ReplacedDefines
<1> HIDE DEF list
<1>7. file' = list /\ writer' = c /\ op'[c] = Request("detach", "save", s, v, None, list)
  BY <1>1, <1>2, <1>3 DEF Written, Begin, TypeOK
<1>8. list # None
  BY <1>6, NoListAssumption
<1>9. Halfway(c)'
  BY <1>1, <1>4, <1>6, <1>7 DEF Halfway, Agrees, Request
<1> QED
  BY <1>6, <1>7, <1>8, <1>9, NoneAssumption DEF ConfigInv

\* A request under way stays halfway where it was.
LEMMA PathAgrees ==
  ASSUME SessionInv, TypeOK, ConfigInv, NEW c \in Clients,
         UNCHANGED <<file, memory, writer, odd, defs, faults>>,
         \/ op' = [op EXCEPT ![c] = Idle] /\ op[c].kind \notin {"save", "delete"}
         \/ /\ op[c].at \notin {"write", "commit"}
            /\ \E at \in Place \ {"write", "commit"}, held \in Sessions \cup {None} :
                 MovedTo(c, at, held)
  PROVE  ConfigInv'
<1> SUFFICES ASSUME faults = 0, writer # None
             PROVE  Halfway(writer)'
  BY DEF ConfigInv, Agrees
<1>1. Halfway(writer) /\ writer \in Clients
  BY DEF ConfigInv, TypeOK
<1>2. CASE writer # c
  <2>1. op'[writer] = op[writer]
    BY <1>1, <1>2 DEF MovedTo, TypeOK
  <2> QED
    BY <1>1, <2>1 DEF Halfway, Agrees
<1>3. CASE writer = c
  <2>1. op[c].kind \in {"save", "delete"}
    BY <1>1, <1>3 DEF Halfway
  <2>2. PICK at \in Place \ {"write", "commit"}, held \in Sessions \cup {None} : MovedTo(c, at, held)
    BY <2>1
  <2>3. op'[c] = Request(at, op[c].kind, op[c].server, op[c].version, held, op[c].list)
    BY <2>2 DEF MovedTo, TypeOK
  <2>4. op[c].at \notin {"write", "commit"}
    BY <2>1
  <2> QED
    BY <1>1, <1>3, <2>2, <2>3, <2>4 DEF Halfway, Agrees, Request
<1> QED
  BY <1>2, <1>3

\* The steps of a connect, of a disconnect, and of closing a session.
LEMMA StepAgrees ==
  ASSUME SessionInv, TypeOK, ConfigInv, NEW c \in Clients,
         \/ Detach(c) \/ CloseSession(c) \/ CloseFails(c)
         \/ Dial(c) \/ DialFails(c) \/ ListTools(c) \/ ListToolsFails(c) \/ Store(c)
  PROVE  ConfigInv'
<1>1. CASE Detach(c) \/ CloseSession(c) \/ Dial(c) \/ ListTools(c)
  BY <1>1, Advancing, PathAgrees
<1>2. CASE DialFails(c) \/ ListToolsFails(c) \/ Store(c)
  <2>1. op[c].kind = "connect"
    BY <1>2, Running DEF DialFails, ListToolsFails, Store
  <2>2. op' = [op EXCEPT ![c] = Idle] /\ UNCHANGED <<file, memory, writer, odd, defs, faults>>
    BY <1>2 DEF DialFails, ListToolsFails, Store, Return, config
  <2> QED
    BY <2>1, <2>2, PathAgrees
<1>3. CASE CloseFails(c)
  BY <1>3 DEF CloseFails, ConfigInv, TypeOK
<1> QED
  BY <1>1, <1>2, <1>3

LEMMA DefineAgrees ==
  ASSUME SessionInv, TypeOK, ConfigInv, NEW c \in Clients, Define(c)
  PROVE  ConfigInv'
<1> DEFINE at == IF op[c].kind = "save" THEN "commit" ELSE "write"
<1>1. /\ op[c].server \in Servers /\ op[c].kind \in {"save", "delete"} /\ writer = c
      /\ UNCHANGED <<file, memory, writer, odd, faults>> /\ Goto(c, at)
      /\ defs' = [defs EXCEPT ![op[c].server] = op[c].version]
  BY Running DEF Define, config
<1>2. op'[c] = Request(at, op[c].kind, op[c].server, op[c].version, op[c].session, op[c].list)
  <2>1. op' = [op EXCEPT ![c] = Request(at, op[c].kind, op[c].server, op[c].version,
                                        op[c].session, op[c].list)]
    BY <1>1, Going DEF SessionInv
  <2> QED
    BY <2>1 DEF TypeOK
<1>3. writer # None
  BY <1>1, NoneAssumption
<1>4. /\ defs'[op[c].server] = op[c].version
      /\ \A t \in Servers \ {op[c].server} : defs'[t] = defs[t]
  BY <1>1 DEF TypeOK
<1>5. faults = 0 => Halfway(c)'
  BY <1>1, <1>2, <1>3, <1>4 DEF ConfigInv, Halfway, Agrees, Request
<1> QED
  BY <1>1, <1>3, <1>5 DEF ConfigInv

LEMMA WriteAgrees ==
  ASSUME SessionInv, TypeOK, ConfigInv, NEW c \in Clients, WriteDeleted(c)
  PROVE  ConfigInv'
<1> SUFFICES ASSUME faults' = 0
             PROVE  ConfigInv'
  BY DEF ConfigInv
<1> DEFINE s == op[c].server
           less == Without(memory, s)
<1>1. /\ op[c].at = "write" /\ s \in Servers /\ op[c].kind \in {"save", "delete"} /\ writer = c
      /\ UNCHANGED <<odd, defs>> /\ Unlock(c)
  BY Running DEF WriteDeleted, manager
<1>2. faults = 0 /\ file' = less /\ memory' = less
  BY DEF WriteDeleted, Written, WriteFails, TypeOK
<1>3. writer # None /\ writer' = None
  BY <1>1, NoneAssumption DEF Unlock
<1>4. /\ memory = file /\ defs[s] = None /\ (s \notin odd => Clear(file, s))
      /\ \A t \in Servers \ {s} : Agrees(t)
  BY <1>1, <1>2, <1>3 DEF ConfigInv, Halfway
<1>5. /\ less \in Seq(Entry)
      /\ \A t \in Servers : Clear(file, t) =>
           Clear(less, t) /\ Said(less, t) = IF t = s THEN None ELSE Said(file, t)
  <2>1. memory \in Seq(Entry)
    BY DEF TypeOK
  <2> QED
    BY <1>4, <2>1, WithoutDefines
<1> HIDE DEF less
<1>6. \A t \in Servers : Agrees(t)'
  BY <1>1, <1>2, <1>4, <1>5 DEF Agrees
<1>7. less # None
  BY <1>5, NoListAssumption
<1> QED
  BY <1>2, <1>3, <1>6, <1>7 DEF ConfigInv

LEMMA CommitAgrees ==
  ASSUME SessionInv, TypeOK, ConfigInv, NEW c \in Clients, Commit(c)
  PROVE  ConfigInv'
<1> SUFFICES ASSUME faults = 0
             PROVE  ConfigInv'
  BY DEF ConfigInv, Commit
<1>1. /\ op[c].at = "commit" /\ op[c].server \in Servers /\ writer = c
      /\ UNCHANGED <<file, odd, defs, faults>> /\ Unlock(c) /\ memory' = op[c].list
  BY Running DEF Commit, manager
<1>2. writer # None /\ writer' = None
  BY <1>1, NoneAssumption DEF Unlock
<1>3. file # None /\ op[c].list = file /\ \A t \in Servers : Agrees(t)
  BY <1>1, <1>2 DEF ConfigInv, Halfway, Agrees
<1>4. \A t \in Servers : Agrees(t)'
  BY <1>1, <1>3 DEF Agrees
<1> QED
  BY <1>1, <1>2, <1>3, <1>4 DEF ConfigInv

LEMMA ConfigNext == SessionInv /\ TypeOK /\ ConfigInv /\ [Next]_vars => ConfigInv'
<1> SUFFICES ASSUME SessionInv, TypeOK, ConfigInv, [Next]_vars
             PROVE  ConfigInv'
  OBVIOUS
<1>1. CASE Restart
  <2> SUFFICES ASSUME faults = 0
               PROVE  ConfigInv'
    BY <1>1 DEF Restart, ConfigInv
  <2>1. /\ file # None /\ file \in Seq(Entry) /\ memory' = file /\ UNCHANGED file
        /\ writer' = None
    BY <1>1 DEF Restart, ConfigInv, Loaded, TypeOK
  <2>2. PICK ids \in Namings(file) : defs' = Definitions(file, ids) /\ odd' = Odd(file, ids)
    BY <1>1, <2>1 DEF Restart
  <2>3. \A t \in Servers : Agrees(t)'
    BY <2>1, <2>2, LoadedIsSaid DEF Agrees
  <2> QED
    BY <2>1, <2>3 DEF ConfigInv
<1>2. CASE UNCHANGED vars
  BY <1>2 DEF vars, ConfigInv, Halfway, Agrees
<1> QED
  BY <1>1, <1>2, StartAgrees, DeleteAgrees, SaveAgrees, StepAgrees, DefineAgrees, WriteAgrees,
     CommitAgrees DEF Next

\* Whoever may look finds the same in the file, in memory and in the manager, of
\* every server that the file named once, as the manager does, or not at all
\* when the process started, while no write and no close has failed.
THEOREM ConfigCorrect == Spec => []ConfigAgrees
<1>1. ConfigInv => ConfigAgrees
  BY DEF ConfigInv, ConfigAgrees, Agrees
<1> QED
  BY <1>1, TypeInit, TypeNext, SessionInit, SessionNext, ConfigInit, ConfigNext, PTL DEF Spec

=============================================================================
