-------------------------------- MODULE Mpd --------------------------------
(***************************************************************************)
(* The mpd plugin (plugins/mpd/mpd.c, connect.c, line_reader.c,            *)
(* safe_haven.c): the conversation with the server, and the retries.       *)
(*                                                                         *)
(* The server is external: it answers a command with lines, it counts the  *)
(* changes of a subsystem, and "idle" is answered when a subsystem named   *)
(* in it has changed since the last idle of the connection.  A line        *)
(* "key: value" carries the state the server had when it answered.         *)
(***************************************************************************)
EXTENDS Integers, Sequences, SequencesExt

CONSTANTS MpMaxChanges,   \* bound: changes of the server's state
          MpMaxFailures   \* bound: failed connections and broken conversations

ASSUME MpAssumption == {MpMaxChanges, MpMaxFailures} \subseteq Nat

VARIABLES
  mpOpt,   \* the options
  mp,      \* the plugin's thread: pc, cands (the rest of the candidates), kvSong, kvStatus
  mpConn,  \* the connection: cmd (sent and not answered), wire (lines sent by the server),
           \* changed (subsystems, since the last idle), open
  mpSrv,   \* the server's state: what has changed, and how often; failures so far
  mpFifo,  \* retry_fifo: fd (open), hup (touched)
  mpTold   \* the calls: what, song and status of the last update

mpvars == <<mpOpt, mp, mpConn, mpSrv, mpFifo, mpTold>>

\* A change of "player" shows in the song and the status, one of "options" in the status.
Subsystems == {"player", "options"}

\* init(): without "events" the subsystems are mixer and player; an empty list means all.
MpOptions == [unix : BOOLEAN, password : BOOLEAN, timeout : BOOLEAN, retry : BOOLEAN,
              fifo : BOOLEAN, listed : {{"player"}, Subsystems}]

Nothing == [s \in Subsystems |-> 0]
NoConn  == [open |-> FALSE, cmd |-> "none", wire |-> <<>>, changed |-> {}]

MpStart(pc) ==
  /\ mp = [pc |-> pc, cands |-> 0, kvSong |-> <<>>, kvStatus |-> <<>>]
  /\ mpConn = NoConn
  /\ mpSrv = [ver |-> Nothing, failures |-> 0]
  /\ mpFifo = [fd |-> FALSE, hup |-> FALSE]
  /\ mpTold = [what |-> "none", song |-> Nothing, status |-> Nothing]

MpInit == mpOpt \in MpOptions /\ MpStart("start")
MpOff  == mpOpt = (CHOOSE o \in MpOptions : TRUE) /\ MpStart("returned")

MpRuns == mp.pc # "returned"
-----------------------------------------------------------------------------
(* The server, and who touches the FIFO.                                   *)

ServerChanges(s) ==
  /\ MpRuns /\ mpSrv.ver["player"] + mpSrv.ver["options"] < MpMaxChanges
  /\ mpSrv' = [mpSrv EXCEPT !.ver[s] = @ + 1]
  /\ mpConn' = IF mpConn.open THEN [mpConn EXCEPT !.changed = @ \cup {s}] ELSE mpConn
  /\ UNCHANGED <<mpOpt, mp, mpFifo, mpTold>>

Line(key) == [key |-> key, value |-> IF key = "kv" THEN mpSrv.ver ELSE Nothing]

\* The whole answer, of which the client sees one line after the other.
ServerAnswers ==
  /\ mpConn.open /\ mpConn.cmd # "none"
  /\ mpConn.cmd = "idle" => mpConn.changed \cap mpOpt.listed # {}
  /\ mpConn' = [mpConn EXCEPT
       !.cmd = "none",
       !.wire = @ \o CASE mpConn.cmd = "password"    -> <<Line("OK")>>
                       [] mpConn.cmd = "currentsong" -> <<Line("kv"), Line("OK")>>
                       [] mpConn.cmd = "status"      -> <<Line("kv"), Line("OK")>>
                       [] mpConn.cmd = "idle"        -> <<Line("changed"), Line("OK")>>,
       !.changed = IF mpConn.cmd = "idle" THEN {} ELSE @]
  /\ UNCHANGED <<mpOpt, mp, mpSrv, mpFifo, mpTold>>

\* The server answers with an ACK, or the connection ends.
ServerFails(line) ==
  /\ mpConn.open /\ mpConn.cmd # "none" /\ mpSrv.failures < MpMaxFailures
  /\ mpConn' = [mpConn EXCEPT !.cmd = "none", !.wire = Append(@, Line(line))]
  /\ mpSrv' = [mpSrv EXCEPT !.failures = @ + 1]
  /\ UNCHANGED <<mpOpt, mp, mpFifo, mpTold>>

MpTouch ==
  /\ MpRuns /\ mpFifo.fd /\ ~mpFifo.hup
  /\ mpFifo' = [mpFifo EXCEPT !.hup = TRUE]
  /\ UNCHANGED <<mpOpt, mp, mpConn, mpSrv, mpTold>>
-----------------------------------------------------------------------------
(* The plugin's thread.                                                    *)

MpGoto(l) == mp' = [mp EXCEPT !.pc = l]

\* report_status().
ReportStatus(what) == mpTold' = [mpTold EXCEPT !.what = what]

\* A command is written and flushed, which may fail.
Send(cmd, l) ==
  \/ MpGoto(l) /\ mpConn' = [mpConn EXCEPT !.cmd = cmd] /\ UNCHANGED mpSrv
  \/ /\ mpSrv.failures < MpMaxFailures /\ mpSrv' = [mpSrv EXCEPT !.failures = @ + 1]
     /\ MpGoto("close") /\ UNCHANGED mpConn

\* run(): "connecting", and as many candidates as the name has addresses; a socket of the
\* file system is one.
Connecting ==
  /\ mp.pc = "start"
  /\ ReportStatus("connecting")
  /\ \E n \in (IF mpOpt.unix THEN {1} ELSE 0..2) :
       /\ n = 0 => mpSrv.failures < MpMaxFailures
       /\ mp' = [mp EXCEPT !.pc = "connect", !.cands = n]
  /\ UNCHANGED <<mpOpt, mpConn, mpSrv, mpFifo>>

\* inetdom_open(), unixdom_open(): the first candidate that can be bound and connected to.
TryCandidate ==
  /\ mp.pc = "connect"
  /\ \/ /\ mp.cands > 0
        /\ mp' = [mp EXCEPT !.pc = "greeting", !.cands = 0]
        /\ \/ mpConn' = [NoConn EXCEPT !.open = TRUE, !.wire = <<Line("OK MPD")>>] /\ UNCHANGED mpSrv
           \/ /\ mpSrv.failures < MpMaxFailures   \* a server that refuses, or is no mpd
              /\ mpSrv' = [mpSrv EXCEPT !.failures = @ + 1]
              /\ mpConn' = [NoConn EXCEPT !.open = TRUE, !.wire = <<Line("ACK")>>]
     \/ /\ mpSrv.failures < MpMaxFailures
        /\ mpSrv' = [mpSrv EXCEPT !.failures = @ + 1]
        /\ mp' = IF mp.cands > 1 THEN [mp EXCEPT !.cands = @ - 1]
                 ELSE [mp EXCEPT !.pc = "error", !.cands = 0]
        /\ UNCHANGED mpConn
  /\ UNCHANGED <<mpOpt, mpFifo, mpTold>>

\* read_line(); is_good_greeting(), response_type() and append_line_to_kv_strarr() look at
\* the key of the line.
Reads(l) == mp.pc = l /\ mpConn.wire # <<>>
FirstLine == Head(mpConn.wire)
Rest == [mpConn EXCEPT !.wire = Tail(@)]

Greeted ==
  /\ Reads("greeting")
  /\ mpConn' = Rest
  /\ MpGoto(IF FirstLine.key # "OK MPD" THEN "close"
            ELSE IF mpOpt.password THEN "send password" ELSE "send currentsong")
  /\ UNCHANGED <<mpOpt, mpSrv, mpFifo, mpTold>>

SendPassword ==
  /\ mp.pc = "send password"
  /\ Send("password", "password")
  /\ UNCHANGED <<mpOpt, mpFifo, mpTold>>

PasswordAnswered ==
  /\ Reads("password")
  /\ mpConn' = Rest
  /\ MpGoto(IF FirstLine.key = "OK" THEN "send currentsong" ELSE "close")
  /\ UNCHANGED <<mpOpt, mpSrv, mpFifo, mpTold>>

\* The three commands of a round; the arrays are empty before the first.
SendCommand ==
  /\ \/ mp.pc = "send currentsong" /\ Send("currentsong", "currentsong")
     \/ mp.pc = "send status" /\ Send("status", "status")
     \/ mp.pc = "send idle" /\ Send("idle", IF mpOpt.timeout THEN "poll" ELSE "idle")
  /\ UNCHANGED <<mpOpt, mpFifo, mpTold>>

\* loop_until_ok().
LoopUntilOk ==
  /\ \E l \in {"currentsong", "status", "idle"} : Reads(l)
  /\ mpConn' = Rest
  /\ CASE FirstLine.key = "OK" ->
            MpGoto(CASE mp.pc = "currentsong" -> "send status"
                     [] mp.pc = "status" -> "call"
                     [] mp.pc = "idle" -> "send currentsong")
       [] FirstLine.key \in {"ACK", "EOF"} -> MpGoto("close")
       [] FirstLine.key = "kv" ->
            mp' = IF mp.pc = "currentsong" THEN [mp EXCEPT !.kvSong = Append(@, FirstLine.value)]
                  ELSE [mp EXCEPT !.kvStatus = Append(@, FirstLine.value)]
       [] OTHER -> UNCHANGED mp
  /\ UNCHANGED <<mpOpt, mpSrv, mpFifo, mpTold>>

\* The call "update": of two values of a key the last is in the table.
CallUpdate ==
  /\ mp.pc = "call"
  /\ mpTold' = [what |-> "update", song |-> Last(mp.kvSong), status |-> Last(mp.kvStatus)]
  /\ mp' = [mp EXCEPT !.pc = "send idle", !.kvSong = <<>>, !.kvStatus = <<>>]
  /\ UNCHANGED <<mpOpt, mpConn, mpSrv, mpFifo>>

\* ls_wait_input_on_fd(): timeouts are told until there is something to read.
PollServer ==
  /\ mp.pc = "poll"
  /\ \/ mpConn.wire = <<>> /\ ReportStatus("timeout") /\ UNCHANGED mp
     \/ mpConn.wire # <<>> /\ MpGoto("idle") /\ UNCHANGED mpTold
  /\ UNCHANGED <<mpOpt, mpConn, mpSrv, mpFifo>>

PollServerFails ==
  /\ mp.pc = "poll" /\ mpSrv.failures < MpMaxFailures
  /\ MpGoto("close")
  /\ mpSrv' = [mpSrv EXCEPT !.failures = @ + 1]
  /\ UNCHANGED <<mpOpt, mpConn, mpFifo, mpTold>>

\* The end of interact().
Close ==
  /\ mp.pc = "close"
  /\ mp' = [mp EXCEPT !.pc = "error", !.kvSong = <<>>, !.kvStatus = <<>>]
  /\ mpConn' = NoConn
  /\ UNCHANGED <<mpOpt, mpSrv, mpFifo, mpTold>>

\* The label retry: "error", and, unless retry_in is negative, the FIFO, which may not open.
Retry ==
  /\ mp.pc = "error"
  /\ ReportStatus("error")
  /\ MpGoto(IF mpOpt.retry THEN "wait" ELSE "returned")
  /\ \E ok \in BOOLEAN : mpFifo' = [mpFifo EXCEPT !.fd = @ \/ (mpOpt.fifo /\ mpOpt.retry /\ ok)]
  /\ UNCHANGED <<mpOpt, mpConn, mpSrv>>

\* Mutant: only the FIFO ends the wait.
WaitForTouch ==
  /\ mp.pc = "wait" /\ mpFifo.hup
  /\ MpGoto("start")
  /\ mpFifo' = [fd |-> FALSE, hup |-> FALSE]
  /\ UNCHANGED <<mpOpt, mpConn, mpSrv, mpTold>>

\* ls_fifo_device_wait(): a touched FIFO is closed; after a timeout it stays open.
WaitToRetry ==
  /\ mp.pc = "wait"
  /\ MpGoto("start")
  /\ mpFifo' = IF mpFifo.hup THEN [fd |-> FALSE, hup |-> FALSE] ELSE mpFifo
  /\ UNCHANGED <<mpOpt, mpConn, mpSrv, mpTold>>

WaitFails ==
  /\ mp.pc = "wait"
  /\ MpGoto("returned")
  /\ UNCHANGED <<mpOpt, mpConn, mpSrv, mpFifo, mpTold>>

MpThread ==
  \/ Connecting \/ TryCandidate \/ Greeted \/ SendPassword \/ PasswordAnswered \/ SendCommand
  \/ LoopUntilOk \/ CallUpdate \/ PollServer \/ Close \/ Retry \/ WaitToRetry

MpNext ==
  \/ \E s \in Subsystems : ServerChanges(s)
  \/ ServerAnswers \/ \E line \in {"ACK", "EOF"} : ServerFails(line)
  \/ MpTouch \/ MpThread \/ PollServerFails \/ WaitFails

\* The server answers, and failures being bounded, at last without failing.
MpFairness == WF_mpvars(MpThread) /\ WF_mpvars(ServerAnswers)
-----------------------------------------------------------------------------
\* What the widget was last told of the subsystems it asked for.
ServerStateTold ==
  /\ mpTold.song["player"] = mpSrv.ver["player"]
  /\ \A s \in mpOpt.listed : mpTold.status[s] = mpSrv.ver[s]

\* However a change falls between the answers to "currentsong", "status" and "idle", or into
\* the time without a connection, the song and the status that the widget has at last are
\* those of the server, unless the plugin is told not to try again.
WidgetFollowsServer == <>[](ServerStateTold \/ ~MpRuns)
=============================================================================
