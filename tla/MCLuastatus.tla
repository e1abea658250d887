---------------------------- MODULE MCLuastatus ----------------------------
(* An instance for TLC of what runs widgets: the core, or the multiplex       *)
(* plugin, which runs nested ones the same way, while the other is off.       *)
EXTENDS Luastatus, Multiplex

MultiplexInit == proc = "exited" /\ NotStarted /\ MxInit

WidgetsNext ==
  \/ Next /\ UNCHANGED mxvars
  \/ MxNext /\ UNCHANGED vars

WidgetsSpec ==
  /\ (Init /\ MxOff) \/ MultiplexInit
  /\ [][WidgetsNext]_<<vars, mxvars>>

\* multiplex alone, under fair scheduling.
MultiplexSpec == MultiplexInit /\ [][WidgetsNext]_<<vars, mxvars>> /\ MxFairness

\* No guard and no invariant of the run reads cur_w, shown or answer: states that differ in
\* these alone are one for TLC.
WidgetsView ==
  <<proc, pc, next, tgt, kind, lref_event, sepstate_event, sepUp, mtx, set_mtx, top, call, ret,
    registered, destroyed, barlibUp, initvars, muxvars, nestedvars, epc, target, aborted>>
=============================================================================
