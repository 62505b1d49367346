-------------------------------- MODULE MCP --------------------------------
(***************************************************************************)
(* The MCP servers of the application: the manager's definitions, its      *)
(* table of connections, the sessions it opens, and the list of servers    *)
(* in the configuration, in memory and in the file.                        *)
(*                                                                         *)
(* A request of the window runs on a goroutine of its own (a client here). *)
(* The manager holds its mutex only around its maps: closing, dialling and *)
(* listing come between two critical sections, and anything may happen     *)
(* there.  Saving and deleting a server also hold the service's lock from  *)
(* the first step to the last; a connect takes that lock only to begin.    *)
(* What a server is told and which tools it lists is left out, and a       *)
(* definition is its version.  Ids matter more: the manager trims them and *)
(* makes up those that are blank, the configuration keeps them as a hand   *)
(* wrote them into the file.                                               *)
(***************************************************************************)
EXTENDS Naturals, Sequences, SequencesExt

CONSTANTS
  Servers,      \* ids of server definitions, trimmed
  NewIds,       \* of these, the ones that storage.NewID may still make up
  Versions,     \* what a definition can say
  Invalid,      \* the versions that NormalizeDefinition refuses
  Clients,      \* goroutines that serve the window's requests
  Sessions,     \* connections that can be opened
  MaxFaults,    \* bound on failed writes of the file and failed closes
  MaxListed,    \* bound on the entries of the file that a hand wrote
  None          \* no definition, no session, no client

ASSUME NoneAssumption == None \notin Versions \cup Sessions \cup Clients \cup Servers
ASSUME InvalidAssumption == Invalid \subseteq Versions
ASSUME BoundAssumption == MaxFaults \in Nat /\ MaxListed \in Nat
ASSUME NewIdsAssumption == NewIds \subseteq Servers

VARIABLES
  file,     \* mcp_servers of config.toml, None when the file does not parse
  memory,   \* s.config.Config.MCPServers
  writer,   \* the client that holds s.mu for writing
  defs,     \* Manager.definitions
  table,    \* Manager.connections
  failed,   \* the keys of Manager.failures
  session,  \* per session: its server, the version dialled, its state
  op,       \* per client: the request it serves and how far it is
  raced,    \* history: servers with a connect that overlapped another request
  odd,      \* history: servers that the file at the start does not name, or
            \* names twice, or not as the manager does
  faults    \* failed writes and closes so far

vars == <<file, memory, writer, defs, table, failed, session, op, raced, odd, faults>>
config == <<file, memory, writer, odd>>
manager == <<defs, table, failed>>

\* An entry as the file has it: what its id is when trimmed, None when it is
\* blank, and whether it is spelled just so.
Entry == [server : Servers \cup {None}, plain : BOOLEAN, version : Versions]

\* A file that does not parse holds no list.
ASSUME NoListAssumption == None \notin Seq(Entry)

Kind == {"connect", "disconnect", "save", "delete"}
Idle == [at |-> "idle", kind |-> None, server |-> None, version |-> None,
         session |-> None, list |-> <<>>]
Closed == [server |-> None, version |-> None, state |-> "closed"]

----------------------------------------------------------------------------
(* The list of servers, as Go's slices behave.                             *)

\* Of entries with one id the last wins; invalid ones are dropped.
Latest(list, mine) ==
  LET valid == {i \in mine : list[i].version \notin Invalid}
  IN IF valid = {} THEN None ELSE list[Max(valid)].version

Blank(list) == {i \in DOMAIN list : list[i].server = None}

\* The ids that normalising may give to the entries: trimmed, or made up.
Namings(list) ==
  {ids \in [DOMAIN list -> Servers] :
    /\ \A i \in DOMAIN list \ Blank(list) : ids[i] = list[i].server
    /\ \A i \in Blank(list) : /\ ids[i] \in NewIds
                             /\ \A j \in DOMAIN list \ {i} : ids[i] # ids[j]}

\* The definitions a manager starts with.
Definitions(list, ids) == [s \in Servers |-> Latest(list, {i \in DOMAIN list : ids[i] = s})]

\* config.Load: a file that does not parse gives the defaults.
Loaded(f) == IF f = None THEN <<>> ELSE f

\* The id of the entry, untrimmed, is s.
Has(entry, s) == entry.server = s /\ entry.plain

Listed(list, s) == \E i \in DOMAIN list : Has(list[i], s)

\* The first entry with this id is replaced, else the entry is appended.
Replaced(list, e) ==
  IF Listed(list, e.server)
  THEN [list EXCEPT ![CHOOSE i \in DOMAIN list :
                       /\ Has(list[i], e.server)
                       /\ \A j \in 1..(i - 1) : ~Has(list[j], e.server)] = e]
  ELSE Append(list, e)

\* The entries with other ids among the first k, for every k: the filter's loop.
Kept(list, s) ==
  LET kept[k \in 0..Len(list)] ==
        IF k = 0 THEN <<>>
        ELSE IF Has(list[k], s) THEN kept[k - 1]
        ELSE Append(kept[k - 1], list[k])
  IN kept

Without(list, s) == Kept(list, s)[Len(list)]

\* filtered := list[:0] writes over the array that memory still refers to.
Overwritten(list, s) ==
  Without(list, s) \o SubSeq(list, Len(Without(list, s)) + 1, Len(list))

----------------------------------------------------------------------------
(* States.                                                                 *)

\* A server that the list names once, if at all, and spells as the manager does.
Clear(list, s) ==
  \A i, j \in DOMAIN list :
    list[i].server = s /\ list[j].server = s => i = j /\ list[i].plain

\* The others, and the ids that were made up.
Odd(list, ids) == {s \in Servers : ~Clear(list, s)} \cup {ids[i] : i \in Blank(list)}

Init ==
  /\ file \in BoundedSeq(Entry, MaxListed)
  /\ memory = file
  /\ \E ids \in Namings(file) :
       defs = Definitions(file, ids) /\ odd = Odd(file, ids)
  /\ writer = None
  /\ table = [s \in Servers |-> None]
  /\ failed = {}
  /\ session = [i \in Sessions |-> [Closed EXCEPT !.state = "unused"]]
  /\ op = [c \in Clients |-> Idle]
  /\ raced = {}
  /\ faults = 0

Frame ==
  [at : {"idle", "detach", "close", "dial", "list", "store", "define", "write", "commit"},
   kind : Kind \cup {None}, server : Servers \cup {None}, version : Versions \cup {None},
   session : Sessions \cup {None}, list : Seq(Entry)]

\* Type invariant.
TypeOK ==
  /\ file \in Seq(Entry) \cup {None}
  /\ memory \in Seq(Entry)
  /\ writer \in Clients \cup {None}
  /\ defs \in [Servers -> Versions \cup {None}]
  /\ table \in [Servers -> Sessions \cup {None}]
  /\ failed \subseteq Servers
  /\ session \in [Sessions -> [server : Servers \cup {None}, version : Versions \cup {None},
                               state : {"unused", "open", "closed"}]]
  /\ op \in [Clients -> Frame]
  /\ raced \subseteq Servers /\ odd \subseteq Servers
  /\ faults \in 0..MaxFaults

Busy(c) == op[c].at # "idle"
Overlaps(c, s, kind) ==
  \E d \in Clients \ {c} :
    Busy(d) /\ op[d].server = s /\ "connect" \in {kind, op[d].kind}

\* Client c starts a request about server s.
Begin(c, s, kind, frame) ==
  /\ ~Busy(c)
  /\ op' = [op EXCEPT ![c] = frame]
  /\ raced' = IF Overlaps(c, s, kind) THEN raced \cup {s} ELSE raced

Goto(c, at) == op' = [op EXCEPT ![c].at = at]
Return(c) == op' = [op EXCEPT ![c] = Idle]

\* The deferred unlock of a save or a delete.
Unlock(c) == writer' = IF writer = c THEN None ELSE writer

----------------------------------------------------------------------------
(* Manager.Disconnect, which every other operation begins with.            *)

\* Where a request goes on once the old session is gone.
AfterDetach(kind) ==
  CASE kind = "connect" -> "dial"
    [] kind = "disconnect" -> "idle"
    [] OTHER -> "define"

Continue(c) ==
  IF op[c].kind = "disconnect" THEN Return(c)
  ELSE op' = [op EXCEPT ![c].at = AfterDetach(op[c].kind), ![c].session = None]

\* Mutant: the entry stays in the table.
MUT_DetachKeepsEntry(c) ==
  /\ op[c].at = "detach"
  /\ failed' = failed \ {op[c].server}
  /\ IF table[op[c].server] = None THEN Continue(c)
     ELSE op' = [op EXCEPT ![c].at = "close", ![c].session = table[op[c].server]]
  /\ UNCHANGED <<config, defs, table, session, raced, faults>>

Detach(c) ==
  /\ op[c].at = "detach"
  /\ table' = [table EXCEPT ![op[c].server] = None]
  /\ failed' = failed \ {op[c].server}
  /\ IF table[op[c].server] = None THEN Continue(c)
     ELSE op' = [op EXCEPT ![c].at = "close", ![c].session = table[op[c].server]]
  /\ UNCHANGED <<config, defs, session, raced, faults>>

CloseSession(c) ==
  /\ op[c].at = "close"
  /\ session' = [session EXCEPT ![op[c].session] = Closed]
  /\ Continue(c)
  /\ UNCHANGED <<config, manager, raced, faults>>

\* The error of Close ends the request where it is.
CloseFails(c) ==
  /\ op[c].at = "close"
  /\ faults < MaxFaults
  /\ faults' = faults + 1
  /\ session' = [session EXCEPT ![op[c].session] = Closed]
  /\ Return(c)
  /\ Unlock(c)
  /\ UNCHANGED <<file, memory, odd, manager, raced>>

----------------------------------------------------------------------------
(* Connect and disconnect.                                                 *)

ConnectMCPServer(c, s) ==
  /\ writer = None
  /\ defs[s] # None
  /\ Begin(c, s, "connect", [Idle EXCEPT !.at = "detach", !.kind = "connect",
                                         !.server = s, !.version = defs[s]])
  /\ UNCHANGED <<config, manager, session, faults>>

DisconnectMCPServer(c, s) ==
  /\ writer = None
  /\ Begin(c, s, "disconnect", [Idle EXCEPT !.at = "detach", !.kind = "disconnect", !.server = s])
  /\ UNCHANGED <<config, manager, session, faults>>

Dial(c) ==
  /\ op[c].at = "dial"
  /\ \E i \in Sessions :
       /\ session[i].state = "unused"
       /\ session' = [session EXCEPT ![i] = [server |-> op[c].server,
                                             version |-> op[c].version, state |-> "open"]]
       /\ op' = [op EXCEPT ![c].at = "list", ![c].session = i]
  /\ UNCHANGED <<config, manager, raced, faults>>

\* Mutant: the failure is kept under what the definition says, not under its id.
MUT_FailureUnderName(c) ==
  /\ op[c].at = "dial"
  /\ failed' = failed \cup {op[c].version}
  /\ Return(c)
  /\ UNCHANGED <<config, defs, table, session, raced, faults>>

\* setFailure: the failure is noted whatever became of the definition.
DialFails(c) ==
  /\ op[c].at = "dial"
  /\ failed' = failed \cup {op[c].server}
  /\ Return(c)
  /\ UNCHANGED <<config, defs, table, session, raced, faults>>

ListTools(c) ==
  /\ op[c].at = "list"
  /\ Goto(c, "store")
  /\ UNCHANGED <<config, manager, session, raced, faults>>

\* Mutant: the session stays open when its tools cannot be listed.
MUT_ListToolsFailsOpen(c) ==
  /\ op[c].at = "list"
  /\ failed' = failed \cup {op[c].server}
  /\ Return(c)
  /\ UNCHANGED <<config, defs, table, session, raced, faults>>

ListToolsFails(c) ==
  /\ op[c].at = "list"
  /\ session' = [session EXCEPT ![op[c].session] = Closed]
  /\ failed' = failed \cup {op[c].server}
  /\ Return(c)
  /\ UNCHANGED <<config, defs, table, raced, faults>>

Store(c) ==
  /\ op[c].at = "store"
  /\ table' = [table EXCEPT ![op[c].server] = op[c].session]
  /\ failed' = failed \ {op[c].server}
  /\ Return(c)
  /\ UNCHANGED <<config, defs, session, raced, faults>>

----------------------------------------------------------------------------
(* Save and delete, under the service's lock.                              *)

\* config.Save either writes the file, or fails before it opened it, or fails
\* after it truncated it.
Written(list) == file' = list /\ UNCHANGED faults
WriteFails == faults < MaxFaults /\ faults' = faults + 1 /\ file' \in {file, None}

\* SaveMCPServer up to config.Save.  An entry that is replaced is replaced in
\* the array that the live configuration shares.
SaveMCPServer(c, s, v) ==
  /\ writer = None
  /\ v \notin Invalid
  /\ LET e == [server |-> s, plain |-> TRUE, version |-> v]
         list == Replaced(memory, e)
     IN /\ memory' = IF Listed(memory, s) THEN list ELSE memory
        /\ \/ /\ Written(list)
              /\ writer' = c
              /\ Begin(c, s, "save", [Idle EXCEPT !.at = "detach", !.kind = "save", !.server = s,
                                                  !.version = v, !.list = list])
           \/ /\ ~Busy(c)
              /\ WriteFails
              /\ UNCHANGED <<writer, op, raced>>
  /\ UNCHANGED <<odd, manager, session>>

\* The window sends an id that it was shown, which the manager had trimmed, so
\* the one given to Remove and the one that the filter compares are the same.
DeleteMCPServer(c, s) ==
  /\ writer = None
  /\ writer' = c
  /\ Begin(c, s, "delete", [Idle EXCEPT !.at = "detach", !.kind = "delete", !.server = s])
  /\ UNCHANGED <<file, memory, odd, manager, session, faults>>

\* Mutant: Remove leaves the definition.
MUT_DefineForgetsRemove(c) ==
  /\ op[c].at = "define"
  /\ defs' = IF op[c].kind = "save" THEN [defs EXCEPT ![op[c].server] = op[c].version] ELSE defs
  /\ failed' = failed \ {op[c].server}
  /\ Goto(c, IF op[c].kind = "save" THEN "commit" ELSE "write")
  /\ UNCHANGED <<config, table, session, raced, faults>>

\* The second critical section of Upsert and Remove.
Define(c) ==
  /\ op[c].at = "define"
  /\ defs' = [defs EXCEPT ![op[c].server] = op[c].version]
  /\ failed' = failed \ {op[c].server}
  /\ Goto(c, IF op[c].kind = "save" THEN "commit" ELSE "write")
  /\ UNCHANGED <<config, table, session, raced, faults>>

\* The rest of DeleteMCPServer: filter in place, save, commit.
WriteDeleted(c) ==
  /\ op[c].at = "write"
  /\ \/ /\ Written(Without(memory, op[c].server))
        /\ memory' = Without(memory, op[c].server)
     \/ /\ WriteFails
        /\ memory' = Overwritten(memory, op[c].server)
  /\ Return(c)
  /\ Unlock(c)
  /\ UNCHANGED <<odd, manager, session, raced>>

Commit(c) ==
  /\ op[c].at = "commit"
  /\ memory' = op[c].list
  /\ Return(c)
  /\ Unlock(c)
  /\ UNCHANGED <<file, odd, manager, session, raced, faults>>

\* The process ends, with Composition.Close or without, and starts again.
Restart ==
  /\ memory' = Loaded(file)
  /\ \E ids \in Namings(memory') :
       defs' = Definitions(memory', ids) /\ odd' = Odd(memory', ids)
  /\ writer' = None
  /\ table' = [s \in Servers |-> None]
  /\ failed' = {}
  /\ session' = [i \in Sessions |-> IF session[i].state = "open" THEN Closed ELSE session[i]]
  /\ op' = [c \in Clients |-> Idle]
  /\ raced' = {}
  /\ UNCHANGED <<file, faults>>

Next ==
  \/ \E c \in Clients, s \in Servers :
       \/ ConnectMCPServer(c, s)
       \/ DisconnectMCPServer(c, s)
       \/ DeleteMCPServer(c, s)
       \/ \E v \in Versions : SaveMCPServer(c, s, v)
  \/ \E c \in Clients :
       \/ Detach(c) \/ CloseSession(c) \/ CloseFails(c)
       \/ Dial(c) \/ DialFails(c) \/ ListTools(c) \/ ListToolsFails(c) \/ Store(c)
       \/ Define(c) \/ WriteDeleted(c) \/ Commit(c)
  \/ Restart

Spec == Init /\ [][Next]_vars

\* What the page of servers shows of a server: a failure stays on display beside
\* the status of a connection.
Snapshot(s) ==
  [status |-> IF table[s] # None THEN "connected"
              ELSE IF s \in failed THEN "error" ELSE "disconnected",
   failure |-> s \in failed]

----------------------------------------------------------------------------
(* Properties.                                                             *)

\* A session that is in the table, and so is offered to the next turn as
\* tools and shown as connected, has not been closed by the manager.
OfferedIsOpen ==
  \A s \in Servers : table[s] # None =>
    session[table[s]].state = "open" /\ session[table[s]].server = s

\* What the list says of a server.
Said(list, s) == Latest(list, {i \in DOMAIN list : list[i].server = s})

\* As long as no write or close failed, nobody who may look (the service's
\* lock is free) sees the file and the configuration in memory disagree, nor
\* the manager disagree with them on whether a server exists and what it says,
\* nor a server named twice.  Left out is a server whose entry has, from
\* another hand, an id with blanks around it, the id of another entry or none:
\* saving or deleting it leaves that entry, and the next start revives it.
ConfigAgrees ==
  writer = None /\ faults = 0 =>
    /\ memory = file
    /\ \A s \in Servers \ odd : Clear(file, s) /\ defs[s] = Said(file, s)

\* A server none of whose connects overlapped another request: every open
\* session of it is in the table or in the hands of a running request, the
\* one in the table was dialled with the present definition, and a server
\* that is shown as connected is not shown with a failure.
SoloConnectIsSound ==
  \A s \in Servers \ raced :
    /\ \A i \in Sessions :
         session[i].state = "open" /\ session[i].server = s =>
           table[s] = i \/ \E c \in Clients : op[c].session = i
    /\ Snapshot(s).status = "connected" /\ (\A c \in Clients : op[c].server # s) =>
         session[table[s]].version = defs[s] /\ ~Snapshot(s).failure

=============================================================================
