------------------------------ MODULE MCPlugins ------------------------------
(* An instance for TLC of the plugins, the barlib, the barlibs' event watchers *)
(* and the codecs: in a behaviour one of them is at work, the others are off.  *)
EXTENDS Network, Web, DBus, Zoo, Desktop, Barlib, BarEvents, Codecs
CONSTANTS a, sep, err

allvars == <<nwvars, wbvars, dbvars, zovars, dtvars, vars, bevars, cdvars>>

PluginsOff == NwOff /\ WbOff /\ DbOff /\ ZoOff /\ DtOff
BarsOff    == BarOff /\ BeOff /\ CdOff

NetworkInit   == NwInit /\ WbOff /\ DbOff /\ ZoOff /\ DtOff /\ BarsOff
WebInit       == NwOff /\ WbInit /\ DbOff /\ ZoOff /\ DtOff /\ BarsOff
\* One widget greets, and the other has a timeout.
DBusInit      == /\ NwOff /\ WbOff /\ DbInit /\ ZoOff /\ DtOff /\ BarsOff
                 /\ dbOpt[1].greet /\ ~dbOpt[2].greet
ZooInit       == NwOff /\ WbOff /\ DbOff /\ ZoInit /\ DtOff /\ BarsOff
DesktopInit   == NwOff /\ WbOff /\ DbOff /\ ZoOff /\ DtInit /\ BarsOff
BarInit       == PluginsOff /\ Init /\ BeOff /\ CdOff
BarEventsInit == PluginsOff /\ BarOff /\ BeInit /\ CdOff
CodecsInit    == PluginsOff /\ BarOff /\ BeOff /\ CdInit

PluginsInit ==
  \/ NetworkInit \/ WebInit \/ DBusInit \/ ZooInit \/ DesktopInit
  \/ BarInit \/ BarEventsInit \/ CodecsInit

PluginsNext ==
  \/ NwNext /\ UNCHANGED <<wbvars, dbvars, zovars, dtvars, vars, bevars, cdvars>>
  \/ WbNext /\ UNCHANGED <<nwvars, dbvars, zovars, dtvars, vars, bevars, cdvars>>
  \/ DbNext /\ UNCHANGED <<nwvars, wbvars, zovars, dtvars, vars, bevars, cdvars>>
  \/ ZoNext /\ UNCHANGED <<nwvars, wbvars, dbvars, dtvars, vars, bevars, cdvars>>
  \/ DtNext /\ UNCHANGED <<nwvars, wbvars, dbvars, zovars, vars, bevars, cdvars>>
  \/ Next   /\ UNCHANGED <<nwvars, wbvars, dbvars, zovars, dtvars, bevars, cdvars>>
  \/ BeNext /\ UNCHANGED <<nwvars, wbvars, dbvars, zovars, dtvars, vars, cdvars>>
  \/ CdNext /\ UNCHANGED <<nwvars, wbvars, dbvars, zovars, dtvars, vars, bevars>>

PluginsSpec == PluginsInit /\ [][PluginsNext]_allvars

\* One of them alone.
DesktopSpec   == DesktopInit /\ [][PluginsNext]_allvars
ZooSpec       == ZooInit /\ [][PluginsNext]_allvars
CodecsSpec    == CodecsInit /\ [][PluginsNext]_allvars

MCSeparator == <<sep>>
MCErrorText == <<err>>
MCChars == {a, sep, err, NewLine}
MCDatas == {<<>>, <<<<a, NewLine>>, Nil, Empty, <<a>>>>, <<<<a>>, Bad>>}
\* An empty list; one name; and two, of two characters and of none.
MCBadLists == <<{}, {<<"pc">>}, {<<"us", "pc">>, <<>>}>>
\* One widget has two rules, which both match one of the signals; the other is on both buses.
MCDbOptions ==
  {[rules |-> [session |-> <<{"s1"}, {"s1", "s2"}>>, system |-> <<>>],
    timeout |-> FALSE, greet |-> TRUE, ready |-> FALSE],
   [rules |-> [session |-> <<{"s1"}>>, system |-> <<{"s2"}>>],
    timeout |-> TRUE, greet |-> FALSE, ready |-> TRUE]}
=============================================================================
