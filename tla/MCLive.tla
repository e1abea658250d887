------------------------------- MODULE MCLive -------------------------------
(* An instance for TLC of what runs for ever: the core, the plugins that wait *)
(* for events, and mpd.  In a behaviour one of them is at work, and the others*)
(* are off.                                                                   *)
EXTENDS Luastatus, EventLoops, Mpd, UnixSock

CoreOff == proc = "exited" /\ NotStarted

CoreInit       == Init /\ EvOff /\ MpOff /\ UsOff
EventLoopsInit == CoreOff /\ EvInit /\ MpOff /\ UsOff
\* Options that do not meet are varied together.
MpdInit        == /\ CoreOff /\ EvOff /\ MpInit /\ UsOff
                  /\ mpOpt.unix = mpOpt.password /\ mpOpt.timeout = mpOpt.retry
                  /\ mpOpt.fifo = mpOpt.retry /\ mpOpt.unix = (mpOpt.listed = {"player"})
UnixSockInit   == /\ CoreOff /\ EvOff /\ MpOff /\ UsInit
                  /\ usOpt.greet = usOpt.try_unlink /\ (usOpt.greet \/ path = "stale")

LiveInit == CoreInit \/ EventLoopsInit \/ MpdInit \/ UnixSockInit

LiveNext ==
  \/ Next /\ UNCHANGED <<evvars, mpvars, usvars>>
  \/ EvNext /\ UNCHANGED <<vars, mpvars, usvars>>
  \/ MpNext /\ UNCHANGED <<vars, evvars, usvars>>
  \/ UsNext /\ UNCHANGED <<vars, evvars, mpvars>>

LiveSpec ==
  /\ LiveInit /\ [][LiveNext]_<<vars, evvars, mpvars, usvars>>
  /\ Fairness /\ EvFairness /\ MpFairness /\ UsFairness

\* unixsock alone.
UnixSockSpec == UnixSockInit /\ [][LiveNext]_<<vars, evvars, mpvars, usvars>>
=============================================================================
