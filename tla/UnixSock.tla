------------------------------ MODULE UnixSock ------------------------------
(***************************************************************************)
(* The unixsock plugin: run() in unixsock.c over server.c.  The socket is  *)
(* made, and connections come, send bytes and hang up at any time; the     *)
(* plugin's thread polls, reads, calls the widget's cb with the first line *)
(* of a connection, drops that connection, accepts and compacts.           *)
(***************************************************************************)
EXTENDS Integers, FiniteSets, FiniteSetsExt, Sequences, SequencesExt

CONSTANTS Conns,      \* the connections clients make, in the order they come
          MaxClients, \* max_concur_conns
          MaxBytes,   \* bound: how much the connections send in all
          None        \* no line

\* init() refuses a max_concur_conns of zero.
ASSUME UnixSockAssumption == Conns \subseteq Nat /\ MaxClients \in Nat \ {0} /\ MaxBytes \in Nat

\* A byte is a newline or not; lines are compared by their connection.
Bytes == {"char", "newline"}

VARIABLES usOpt,      \* the options
          path,       \* what has the socket's path: "free", "stale" or "bound"
          sent,       \* [Conns -> all the bytes it sent]
          unread,     \* [Conns -> those in the socket]
          peer,       \* [Conns -> "none", "open" or "hung_up"]
          backlog,    \* connections that wait to be accepted
          upc,        \* control point of run()
          clients,    \* S->clients: [conn, dropped, buf]
          pfds,       \* S->pfds + 1: [conn, revents]; the loop clears the revents it has seen
          can_accept, \* out_can_accept of server_poll()
          fds,        \* connections that have a descriptor open in this process
          reported    \* [Conns -> the line cb was called with, or None]

sockvars == <<usOpt, path>>
clientvars == <<sent, unread, peer>>
loopvars == <<upc, clients, pfds, can_accept, fds, reported>>
usvars == <<sockvars, clientvars, backlog, loopvars>>

\* What init() leaves.  A deadline may come whatever "timeout" is: cb may push one.
UsOptions == [try_unlink : BOOLEAN, greet : BOOLEAN]

UsStart(l) ==
  /\ sent = [c \in Conns |-> <<>>] /\ unread = [c \in Conns |-> <<>>]
  /\ peer = [c \in Conns |-> "none"]
  /\ backlog = <<>>
  /\ upc = l /\ clients = <<>> /\ pfds = <<>> /\ can_accept = FALSE
  /\ fds = {} /\ reported = [c \in Conns |-> None]

\* A socket of an earlier process may have the path still.
UsInit == usOpt \in UsOptions /\ path \in {"free", "stale"} /\ UsStart("start")
UsOff == usOpt = [plugin |-> "none"] /\ path = "free" /\ UsStart("ended")

serving == upc \notin {"ended", "aborted"}
-----------------------------------------------------------------------------
ClientConnects(c) ==
  /\ peer[c] = "none" /\ \A d \in Conns : d < c => peer[d] # "none"
  /\ path = "bound" /\ serving
  /\ peer' = [peer EXCEPT ![c] = "open"]
  /\ backlog' = Append(backlog, c)
  /\ UNCHANGED <<sent, unread, loopvars, sockvars>>

\* Once the plugin has closed it, what a client does is of no account.
IsOpen(c) == c \in fds \/ c \in ToSet(backlog)

ClientSends(c, b) ==
  /\ peer[c] = "open" /\ IsOpen(c)
  /\ MapThenSumSet(LAMBDA d : Len(sent[d]), Conns) < MaxBytes
  /\ sent' = [sent EXCEPT ![c] = Append(@, b)]
  /\ unread' = [unread EXCEPT ![c] = Append(@, b)]
  /\ UNCHANGED <<peer, backlog, loopvars, sockvars>>

ClientHangsUp(c) ==
  /\ peer[c] = "open" /\ IsOpen(c)
  /\ peer' = [peer EXCEPT ![c] = "hung_up"]
  /\ UNCHANGED <<sent, unread, backlog, loopvars, sockvars>>
-----------------------------------------------------------------------------
\* mk_server() and server_new(); bind() fails if the path is taken, and run() returns.
MakeServer ==
  /\ upc = "start"
  /\ \/ /\ path = "free" \/ usOpt.try_unlink
        /\ path' = "bound" /\ upc' = (IF usOpt.greet THEN "greet" ELSE "poll")
     \/ upc' = "ended" /\ UNCHANGED path
  /\ UNCHANGED <<usOpt, clientvars, backlog, clients, pfds, can_accept, fds, reported>>

\* report_status(): "hello"
Greet ==
  /\ upc = "greet"
  /\ upc' = "poll"
  /\ UNCHANGED <<sockvars, clientvars, backlog, clients, pfds, can_accept, fds, reported>>

IsFull == Len(clients) = MaxClients
Readable(c) == unread[c] # <<>> \/ peer[c] = "hung_up"

Listens  == ~IsFull /\ backlog # <<>>
HasInput == Listens \/ \E k \in DOMAIN pfds : Readable(pfds[k].conn)

\* server_poll(): poll() returns when a client is readable or, unless the server is full,
\* when a connection waits,
Poll ==
  /\ upc = "poll" /\ HasInput
  /\ can_accept' = Listens
  /\ pfds' = [k \in DOMAIN pfds |-> [pfds[k] EXCEPT !.revents = Readable(pfds[k].conn)]]
  /\ upc' = "scan"
  /\ UNCHANGED <<clientvars, backlog, clients, fds, reported, sockvars>>

\* or when the deadline comes first: a call with "timeout", and nothing to read or accept.
PollTimeout ==
  /\ upc = "poll" /\ ~HasInput
  /\ can_accept' = FALSE
  /\ upc' = "scan"
  /\ UNCHANGED <<clientvars, backlog, clients, pfds, fds, reported, sockvars>>

\* The loop over pfds: its index is the first with revents left.
Scanned == \A k \in DOMAIN pfds : ~pfds[k].revents
Current == CHOOSE k \in DOMAIN pfds : pfds[k].revents /\ \A j \in 1..k - 1 : ~pfds[j].revents
Advance == pfds' = [pfds EXCEPT ![Current].revents = FALSE]
InScan == upc = "scan" /\ ~Scanned
EndOfScan == upc = "scan" /\ Scanned

\* server_read_from_client() gets the first n bytes, puts them after the first kept ones, and
\* looks for a newline in them.
ReadAfter(kept, n) ==
  /\ InScan
  /\ LET c     == clients[Current].conn
         chunk == SubSeq(unread[c], 1, n)
     IN /\ n \in 1..Len(unread[c])
        /\ unread' = [unread EXCEPT ![c] = SubSeq(@, n + 1, Len(@))]
        /\ clients' = [clients EXCEPT ![Current].buf = SubSeq(@, 1, kept) \o chunk]
        /\ IF "newline" \in ToSet(chunk)
           THEN upc' = "report" /\ UNCHANGED pfds
           ELSE UNCHANGED upc /\ Advance
  /\ UNCHANGED <<sent, peer, backlog, can_accept, fds, reported, sockvars>>

\* Mutant: a read puts its bytes over those of the last one.
ReadOverwrites(n) == ReadAfter(0, n)

\* More of a line, or its end.
Read(n) == ReadAfter(Len(clients[Current].buf), n)

\* drop_client(): close() and free(); the client keeps its place in the array.
Drop(cs, k) == [cs EXCEPT ![k].dropped = TRUE, ![k].buf = <<>>]

\* Mutant: the end of the stream is taken for EAGAIN.
ReadEndsAsAgain ==
  /\ InScan
  /\ unread[clients[Current].conn] = <<>> /\ peer[clients[Current].conn] = "hung_up"
  /\ Advance
  /\ UNCHANGED <<clientvars, backlog, upc, can_accept, clients, fds, reported, sockvars>>

\* read() returns 0 or fails.
ReadEnds ==
  /\ InScan
  /\ unread[clients[Current].conn] = <<>> /\ peer[clients[Current].conn] = "hung_up"
  /\ clients' = Drop(clients, Current)
  /\ fds' = fds \ {clients[Current].conn}
  /\ Advance
  /\ UNCHANGED <<clientvars, backlog, upc, can_accept, reported, sockvars>>

\* server_get_full_line(): what is before the first newline.
FullLine(buf) ==
  SubSeq(buf, 1, (CHOOSE k \in DOMAIN buf :
                    buf[k] = "newline" /\ \A j \in 1..k - 1 : buf[j] # "newline") - 1)

\* report_line(), then server_drop_client().
ReportLine ==
  /\ upc = "report"
  /\ reported' = [reported EXCEPT ![clients[Current].conn] = FullLine(clients[Current].buf)]
  /\ clients' = Drop(clients, Current)
  /\ fds' = fds \ {clients[Current].conn}
  /\ upc' = "scan" /\ Advance
  /\ UNCHANGED <<clientvars, backlog, can_accept, sockvars>>

\* update_pfds() asserts that no client is dropped.
UpdatePfds(cs) == [k \in DOMAIN cs |-> [conn |-> cs[k].conn, revents |-> FALSE]]
NoneDropped(cs) == \A k \in DOMAIN cs : ~cs[k].dropped

\* server_accept_new_client(): add_client(), which updates the pollfds.
Accept ==
  /\ EndOfScan /\ can_accept /\ backlog # <<>>
  /\ LET new == Append(clients, [conn |-> Head(backlog), dropped |-> FALSE, buf |-> <<>>])
     IN /\ clients' = new
        /\ IF NoneDropped(new)
           THEN pfds' = UpdatePfds(new) /\ upc' = "compact"
           ELSE upc' = "aborted" /\ UNCHANGED pfds
  /\ backlog' = Tail(backlog)
  /\ fds' = fds \cup {Head(backlog)}
  /\ UNCHANGED <<clientvars, can_accept, reported, sockvars>>

\* Nothing to accept; ECONNABORTED takes a connection that hung up out of the queue.
NoAccept ==
  /\ EndOfScan
  /\ \/ ~can_accept /\ UNCHANGED backlog
     \/ can_accept /\ peer[Head(backlog)] = "hung_up" /\ backlog' = Tail(backlog)
  /\ upc' = "compact"
  /\ UNCHANGED <<clientvars, clients, pfds, can_accept, fds, reported, sockvars>>

\* The loop of server_compact(): keep[k] is what it keeps of the first k clients.
Kept(cs) ==
  LET keep[k \in 0..Len(cs)] ==
        IF k = 0 THEN <<>>
        ELSE IF cs[k].dropped THEN keep[k - 1] ELSE Append(keep[k - 1], cs[k])
  IN keep[Len(cs)]

\* server_compact(); can_accept and the index end with the round.
Compact ==
  /\ upc = "compact"
  /\ clients' = Kept(clients) /\ pfds' = UpdatePfds(Kept(clients))
  /\ upc' = "poll" /\ can_accept' = FALSE
  /\ UNCHANGED <<clientvars, backlog, fds, reported, sockvars>>

\* poll() or accept() fails: run() closes everything, server_destroy() included, and returns.
\* The path stays.
RunFails ==
  /\ upc = "poll" \/ (EndOfScan /\ can_accept)
  /\ fds' = fds \ {clients[k].conn : k \in {k \in DOMAIN clients : ~clients[k].dropped}}
  /\ clients' = <<>> /\ pfds' = <<>> /\ backlog' = <<>>
  /\ upc' = "ended" /\ path' = "stale" /\ can_accept' = FALSE
  /\ UNCHANGED <<clientvars, reported, usOpt>>
-----------------------------------------------------------------------------
Serve ==
  \/ MakeServer \/ Greet \/ Poll \/ ReadEnds \/ ReportLine \/ Accept \/ NoAccept \/ Compact
  \/ \E n \in 1..MaxBytes : Read(n)
UsNext ==
  \/ Serve \/ PollTimeout \/ RunFails
  \/ \E c \in Conns : ClientConnects(c) \/ ClientHangsUp(c) \/ \E b \in Bytes : ClientSends(c, b)
UsSpec == UsInit /\ [][UsNext]_usvars
\* The plugin's thread runs, and cb returns; clients may do nothing.
UsFairness == WF_usvars(Serve)
-----------------------------------------------------------------------------
\* update_pfds() asserts that no client is dropped.
UpdateMeetsNoDropped == upc # "aborted"

\* The line of a call is the first line its client sent, in however many pieces it came.
ReportsFirstLine ==
  \A c \in Conns : reported[c] # None =>
    "newline" \in ToSet(sent[c]) /\ reported[c] = FullLine(sent[c])

\* A client that sent a full line or hung up gives its descriptor back, and its place in the
\* array, without which a full server is deaf; its line was reported then, unless run() ends.
ClientsAreServed ==
  \A c \in Conns :
    LET line == "newline" \in ToSet(sent[c])
    IN c \in fds /\ (line \/ peer[c] = "hung_up")
         ~> \/ ~serving
            \/ /\ c \notin fds /\ \A k \in DOMAIN clients : clients[k].conn # c
               /\ line => reported[c] # None
=============================================================================
